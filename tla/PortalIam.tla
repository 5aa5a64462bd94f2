------------------------------ MODULE PortalIam ------------------------------
(***************************************************************************)
(* The IAM page (features/iam/IamPage.tsx): the directory, where roles are *)
(* bound to the selected user and unbound, and the capability view         *)
(* (CapabilityMatrix.tsx) with its resolver form.  The mutation functions  *)
(* name the user who is selected when they are called.  The query library  *)
(* calls them at once while the browser is online; otherwise the mutation  *)
(* is paused, and resumes with the function of the latest render.          *)
(***************************************************************************)
EXTENDS PortalPage

CONSTANTS Users, Roles

None == "none"
Mutations == {"bind", "unbind"}

\* The fields of CapabilityMatrix, which last as long as the view is shown: the
\* user asked about, the question sent last, the questions in flight (one, as
\* long as resolving disables the button), the answer and whose it is.
NoMatrix == [question |-> None, asked |-> None, resolving |-> {}, result |-> None]

selectedUserRoles ==
    IF cache = Undefined \/ ui.selected = None THEN {} ELSE cache.roles[ui.selected]

rolesAvailableToBind == IF cache = Undefined THEN {} ELSE Roles \ selectedUserRoles

\* The view and the selection that the link /iam?user=... or /iam asks for.
Linked(link) == [view |-> IF link = None THEN "capabilities" ELSE "directory", selected |-> link]

Init ==
    /\ db \in [roles : [Users -> SUBSET Roles]]
    /\ cache \in {Undefined, db}
    /\ m = [x \in Mutations |-> Idle]
    /\ \E can \in {"read", "write"}, link \in Users \cup {None} :
           ui = [can |-> can, link |-> link, view |-> Linked(link).view, selected |-> Linked(link).selected,
                 roleToBind |-> None, online |-> TRUE, matrix |-> NoMatrix, calls |-> 0]

canWriteIAM == ui.can = "write"

\* The controls that the page renders and enables: a row of the users table, the
\* chip of a role of the selected user, and the form that binds another role.
userRow(u) == ui.view = "directory" /\ cache # Undefined
roleChip(r) == ui.view = "directory" /\ canWriteIAM /\ r \in selectedUserRoles /\ ~isPending("unbind")
roleBindForm == ui.view = "directory" /\ canWriteIAM /\ ui.selected # None /\ ~isPending("bind")

\* The effect on deepLinkUserID; leaving the capability view discards its state.
navigate(link) ==
    /\ link # ui.link
    /\ ui' = [ui EXCEPT !.link = link, !.view = Linked(link).view, !.selected = Linked(link).selected,
                        !.matrix = IF ui.view = Linked(link).view THEN @ ELSE NoMatrix]
    /\ UNCHANGED <<db, cache, m>>

setView ==
    /\ \E v \in {"capabilities", "directory"} \ {ui.view} :
           ui' = [ui EXCEPT !.view = v, !.matrix = NoMatrix]
    /\ UNCHANGED <<db, cache, m>>

setSelectedUserID(u) ==
    /\ userRow(u) /\ u # ui.selected
    /\ ui' = [ui EXCEPT !.selected = u]
    /\ UNCHANGED <<db, cache, m>>

setRoleToBind(r) ==
    /\ roleBindForm /\ r \in rolesAvailableToBind
    /\ ui' = [ui EXCEPT !.roleToBind = r]
    /\ UNCHANGED <<db, cache, m>>

-----------------------------------------------------------------------------
\* The mutations: shown is the user selected when the operator clicked.

mutationFn(x, shown, r, waited) ==
    m' = [m EXCEPT ![x] = [phase |-> "sent", ans |-> Undefined,
                           arg |-> [shown |-> shown, user |-> ui.selected, role |-> r, waited |-> waited]]]

mutateRole(x, r) ==
    /\ ui.calls < MaxCalls
    /\ IF ui.online
       THEN mutationFn(x, ui.selected, r, FALSE)
       ELSE m' = [m EXCEPT ![x] = [phase |-> "paused", ans |-> Undefined,
                                   arg |-> [shown |-> ui.selected, user |-> None, role |-> r, waited |-> TRUE]]]
    /\ ui' = [ui EXCEPT !.calls = @ + 1]
    /\ UNCHANGED <<db, cache>>

submitBindRole ==
    /\ roleBindForm /\ ui.roleToBind # None
    /\ mutateRole("bind", ui.roleToBind)

removeRole(r) ==
    /\ roleChip(r)
    /\ mutateRole("unbind", r)

ResumePausedMutation(x) ==
    /\ ui.online /\ m[x].phase = "paused"
    /\ mutationFn(x, m[x].arg.shown, m[x].arg.role, TRUE)
    /\ UNCHANGED <<db, cache, ui>>

OnlineChanges ==
    /\ ui' = [ui EXCEPT !.online = ~@]
    /\ UNCHANGED <<db, cache, m>>

\* Mutant: the role goes to the user selected by now.
bindRoleToSelected ==
    LET arg == m["bind"].arg IN
    /\ m["bind"].phase = "sent" /\ ui.selected # None
    /\ db' = [db EXCEPT !.roles[ui.selected] = @ \cup {arg.role}]
    /\ Executed("bind", Undefined)
    /\ UNCHANGED <<cache, ui>>

\* A call for no user at all meets no route of the server.
bindRoleToUser ==
    LET arg == m["bind"].arg IN
    /\ m["bind"].phase = "sent" /\ arg.user # None
    /\ db' = [db EXCEPT !.roles[arg.user] = @ \cup {arg.role}]
    /\ Executed("bind", Undefined)
    /\ UNCHANGED <<cache, ui>>

unbindRoleFromUser ==
    LET arg == m["unbind"].arg IN
    /\ m["unbind"].phase = "sent" /\ arg.user # None
    /\ db' = [db EXCEPT !.roles[arg.user] = @ \ {arg.role}]
    /\ Executed("unbind", Undefined)
    /\ UNCHANGED <<cache, ui>>

bindRole ==
    /\ m["bind"].phase = "done"
    /\ ui' = [ui EXCEPT !.roleToBind = None]
    /\ Succeeded("bind")
    /\ UNCHANGED <<db, cache>>

unbindRole ==
    /\ m["unbind"].phase = "done"
    /\ Succeeded("unbind")
    /\ UNCHANGED <<db, cache, ui>>

-----------------------------------------------------------------------------
\* The resolver of the capability view.

\* The form is there once the matrix has been loaded.
resolverForm == ui.view = "capabilities" /\ cache # Undefined

setQuestion(u) ==
    /\ resolverForm
    /\ ui' = [ui EXCEPT !.matrix.question = u]
    /\ UNCHANGED <<db, cache, m>>

\* Mutant: a question may be sent while another is resolving.
submitResolveAgain ==
    /\ resolverForm
    /\ ui.matrix.question # None
    /\ ui' = [ui EXCEPT !.matrix.asked = ui.matrix.question, !.matrix.result = None,
                        !.matrix.resolving = @ \cup {ui.matrix.question}]
    /\ UNCHANGED <<db, cache, m>>

submitResolve ==
    /\ resolverForm
    /\ ui.matrix.question # None /\ ui.matrix.resolving = {}
    /\ ui' = [ui EXCEPT !.matrix.asked = ui.matrix.question, !.matrix.result = None,
                        !.matrix.resolving = @ \cup {ui.matrix.question}]
    /\ UNCHANGED <<db, cache, m>>

resolveAnswered(u) ==
    /\ u \in ui.matrix.resolving
    /\ ui' = [ui EXCEPT !.matrix.resolving = @ \ {u}, !.matrix.result = u]
    /\ UNCHANGED <<db, cache, m>>

resolveFailed(u) ==
    /\ u \in ui.matrix.resolving
    /\ ui' = [ui EXCEPT !.matrix.resolving = @ \ {u}]
    /\ UNCHANGED <<db, cache, m>>

Next ==
    \/ \E link \in Users \cup {None} : navigate(link)
    \/ setView \/ submitBindRole \/ OnlineChanges
    \/ \E u \in Users : setSelectedUserID(u)
    \/ \E r \in Roles : setRoleToBind(r) \/ removeRole(r)
    \/ bindRoleToUser \/ unbindRoleFromUser \/ bindRole \/ unbindRole
    \/ \E u \in Users : setQuestion(u) \/ resolveAnswered(u) \/ resolveFailed(u)
    \/ submitResolve
    \/ \E x \in Mutations : ResumePausedMutation(x) \/ MutationFailed(x) \/ Settle(x)
    \/ Load

-----------------------------------------------------------------------------
TypeOK ==
    /\ db.roles \in [Users -> SUBSET Roles]
    /\ ui.selected \in Users \cup {None} /\ ui.roleToBind \in Roles \cup {None}
    /\ ui.matrix.question \in Users \cup {None} /\ ui.matrix.resolving \subseteq Users
    /\ DOMAIN m = Mutations

\* A user's roles change only by the operator's click at that user: selecting
\* another user while the call is under way does not redirect it, unless the
\* call had to wait for the network.
BindsShownUser ==
    \A u \in Users : db.roles[u] # db'.roles[u] =>
        \E x \in Mutations : /\ m[x].phase = "sent" /\ m'[x].phase = "done"
                             /\ m[x].arg.shown = u \/ m[x].arg.waited

\* The resolver shows the answer to the question that was sent last.
AnswerOfLastQuestion == ui.matrix.result # None => ui.matrix.result = ui.matrix.asked
=============================================================================
