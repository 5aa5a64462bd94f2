--------------------------- MODULE PortalProxies ---------------------------
(***************************************************************************)
(* The SSH proxies of the connectivity page (ConnectivityPage.tsx) and the *)
(* modal editor of a proxy, over lib/connectivity.ts and                   *)
(* api/connectivity.ts.  Of a proxy only its authentication matters: the   *)
(* type it uses and the credentials that are stored for it.  The same      *)
(* table has the rows that the promotion of an asset makes (cmdb), which   *)
(* come without a credential.                                              *)
(***************************************************************************)
EXTENDS PortalPage

CONSTANT Proxies   \* proxy ids, registered or not

None == "none"
Typed == "typed"
AuthTypes == {"password", "key"}
Mutations == {"create", "update", "remove"}

\* A stored proxy and the form of its editor.  The form also has the values it
\* was read from (of: None when empty, Typed for a new proxy) and the secrets
\* that were typed; those stored are only known to exist.
\* A deleted row keeps its values (live: deleted_at IS NULL).  by is who wrote the
\* row: this page, the promotion of its source asset, or such a promotion and
\* this page since.
NoProxy == [auth |-> None, has |-> {}, live |-> FALSE, by |-> None]
ProxyRows == [auth : AuthTypes, has : SUBSET AuthTypes, live : BOOLEAN,
              by : {"page", "promotion", "saved"}]
emptySSHProxyForm == [of |-> None, auth |-> "password", has |-> {}, secret |-> {}]

sshProxyToForm(p, row) == [of |-> p, auth |-> row.auth, has |-> row.has, secret |-> {}]

\* Only the secret of the chosen type is sent, and only when it was typed.
sshProxyFormToPayload(form) == [auth |-> form.auth, secret |-> form.secret \cap {form.auth}]

\* Mutant: any stored credential will do in edit mode.
validateSSHProxyFormLoose(form, mode) ==
    /\ form.of # None
    /\ (mode = "edit" /\ form.has # {}) \/ form.auth \in form.secret

validateSSHProxyForm(form, mode) ==
    /\ form.of # None
    /\ (mode = "edit" /\ form.auth \in form.has) \/ form.auth \in form.secret

proxyItems == IF cache = Undefined THEN {} ELSE {p \in Proxies : cache.proxies[p].live}

Init ==
    /\ \E reg \in SUBSET Proxies, a \in AuthTypes :
           db = [proxies |-> [p \in Proxies |->
                     IF p \in reg THEN [auth |-> a, has |-> {a}, live |-> TRUE, by |-> "page"] ELSE NoProxy]]
    /\ cache \in {Undefined, db}
    /\ m = [x \in Mutations |-> Idle]
    /\ ui \in [can : {"read", "write"}, mode : {"create"}, form : {emptySSHProxyForm},
               selected : {None}, modal : {FALSE}, crossed : {FALSE}, calls : {0}]

canWriteAssets == ui.can = "write"

\* The controls that the page renders and enables: its toolbar, a row of the
\* table, and the form of the modal, which covers both, with its foot.
toolbar == canWriteAssets /\ ~ui.modal
proxyRow(p) == canWriteAssets /\ ~ui.modal /\ p \in proxyItems
proxyForm == canWriteAssets /\ ui.modal
proxyModalFoot == proxyForm /\ ~isPending("create") /\ ~isPending("update")

startCreate ==
    /\ toolbar
    /\ ui' = [ui EXCEPT !.mode = "create", !.selected = None, !.form = emptySSHProxyForm, !.modal = TRUE]
    /\ UNCHANGED <<db, cache, m>>

\* Mutant: the editor opens with the form it had.
editProxyKeepingForm(p) ==
    /\ proxyRow(p)
    /\ ui' = [ui EXCEPT !.mode = "edit", !.selected = p, !.modal = TRUE]
    /\ UNCHANGED <<db, cache, m>>

editProxy(p) ==
    /\ proxyRow(p)
    /\ ui' = [ui EXCEPT !.mode = "edit", !.selected = p, !.modal = TRUE,
                        !.form = sshProxyToForm(p, cache.proxies[p])]
    /\ UNCHANGED <<db, cache, m>>

closeProxyModal ==
    /\ ui.modal
    /\ ui' = [ui EXCEPT !.modal = FALSE]
    /\ UNCHANGED <<db, cache, m>>

\* The inputs of the editor: the plain fields, the type, the secret of the type.
updateForm ==
    /\ proxyForm
    /\ \/ ui.form.of = None /\ ui' = [ui EXCEPT !.form.of = Typed]
       \/ \E a \in AuthTypes \ {ui.form.auth} : ui' = [ui EXCEPT !.form.auth = a]
       \/ ui' = [ui EXCEPT !.form.secret = @ \cup {ui.form.auth}]
    /\ UNCHANGED <<db, cache, m>>

\* The editor holds the values of another proxy than the one it would save to.
ForeignForm(s) ==
    s.modal /\ s.form.of \notin (IF s.mode = "edit" THEN {s.selected} ELSE {None, Typed})

submitProxy ==
    /\ proxyModalFoot
    /\ validateSSHProxyForm(ui.form, ui.mode)
    /\ ui.calls < MaxCalls
    /\ LET x == IF ui.mode = "create" THEN "create" ELSE "update" IN
           m' = [m EXCEPT ![x] = [phase |-> "sent", ans |-> Undefined,
                     arg |-> [id |-> ui.selected, payload |-> sshProxyFormToPayload(ui.form)]]]
    /\ ui' = [ui EXCEPT !.calls = @ + 1, !.crossed = @ \/ ForeignForm(ui)]
    /\ UNCHANGED <<db, cache>>

deleteSelectedProxy(p) ==
    /\ proxyRow(p) /\ ~isPending("remove")
    /\ mutate("remove", p)
    /\ UNCHANGED <<db, cache>>

-----------------------------------------------------------------------------
\* The server's side of the calls.

\* Ids that no proxy has or had.
Fresh == {p \in Proxies : db.proxies[p] = NoProxy}

createSSHProxy ==
    /\ m["create"].phase = "sent"
    /\ \E p \in Fresh :
           /\ db' = [db EXCEPT !.proxies[p] = [auth |-> m["create"].arg.payload.auth,
                                               has |-> m["create"].arg.payload.secret,
                                               live |-> TRUE, by |-> "page"]]
           /\ Executed("create", sshProxyToForm(p, db'.proxies[p]))
    /\ UNCHANGED <<cache, ui>>

\* A secret that is not sent keeps its stored value.
updateSSHProxy ==
    LET p == m["update"].arg.id
        payload == m["update"].arg.payload IN
    /\ m["update"].phase = "sent" /\ db.proxies[p].live
    /\ db' = [db EXCEPT !.proxies[p] = [auth |-> payload.auth, has |-> @.has \cup payload.secret,
                                        live |-> TRUE, by |-> IF @.by = "page" THEN "page" ELSE "saved"]]
    /\ Executed("update", sshProxyToForm(p, db'.proxies[p]))
    /\ UNCHANGED <<cache, ui>>

deleteSSHProxy ==
    /\ m["remove"].phase = "sent" /\ db.proxies[m["remove"].arg].live
    /\ db' = [db EXCEPT !.proxies[m["remove"].arg].live = FALSE]
    /\ Executed("remove", Undefined)
    /\ UNCHANGED <<cache, ui>>

\* upsertProxyForAsset, in the promotion of an asset by whomever: its row is made,
\* without credentials, or written again, live or deleted, with those it has.
\* MaxCalls bounds the promotions and the calls of the page together.
upsertProxyForAsset ==
    /\ ui.calls < MaxCalls
    /\ ui' = [ui EXCEPT !.calls = @ + 1]
    /\ \E p \in Proxies, a \in AuthTypes :
           /\ db.proxies[p].by # "page"
           /\ db' = [db EXCEPT !.proxies[p] = [auth |-> a, has |-> @.has, live |-> TRUE, by |-> "promotion"]]
    /\ UNCHANGED <<cache, m>>

Demote ==
    /\ \E p \in Proxies :
           /\ db.proxies[p].live /\ db.proxies[p].by # "page"
           /\ db' = [db EXCEPT !.proxies[p].live = FALSE]
    /\ UNCHANGED <<cache, m, ui>>

-----------------------------------------------------------------------------
\* The answers at the page.

createProxy ==
    /\ m["create"].phase = "done"
    /\ ui' = [ui EXCEPT !.form = m["create"].ans, !.mode = "edit",
                        !.selected = m["create"].ans.of, !.modal = FALSE]
    /\ Succeeded("create")
    /\ UNCHANGED <<db, cache>>

\* The form is set whichever proxy the editor is open for by now.
updateProxy ==
    /\ m["update"].phase = "done"
    /\ ui' = [ui EXCEPT !.form = m["update"].ans]
    /\ Succeeded("update")
    /\ UNCHANGED <<db, cache>>

removeProxy ==
    /\ m["remove"].phase = "done"
    /\ ui' = [ui EXCEPT !.mode = "create", !.selected = None, !.form = emptySSHProxyForm, !.modal = FALSE]
    /\ Succeeded("remove")
    /\ UNCHANGED <<db, cache>>

Next ==
    \/ startCreate \/ closeProxyModal \/ updateForm \/ submitProxy
    \/ \E p \in Proxies : editProxy(p) \/ deleteSelectedProxy(p)
    \/ createSSHProxy \/ updateSSHProxy \/ deleteSSHProxy \/ upsertProxyForAsset \/ Demote
    \/ createProxy \/ updateProxy \/ removeProxy
    \/ \E x \in Mutations : MutationFailed(x) \/ Settle(x)
    \/ Load

-----------------------------------------------------------------------------
TypeOK ==
    /\ db.proxies \in [Proxies -> ProxyRows \cup {NoProxy}]
    /\ ui.form \in [of : Proxies \cup {None, Typed}, auth : AuthTypes,
                    has : SUBSET AuthTypes, secret : SUBSET AuthTypes]
    /\ DOMAIN m = Mutations

\* A proxy that was saved on this page has the credential that its authentication
\* type needs until an asset is promoted to it (again): the server does not check
\* it, validateSSHProxyForm does, by what the form knows to be stored, however old
\* that is.  The exception is a save from an editor that holds the values of
\* another proxy (crossed), whose credentials it then counts.
ProxyUsable ==
    ui.crossed \/ \A p \in Proxies : db.proxies[p].by \in {"page", "saved"} =>
                                       db.proxies[p].auth \in db.proxies[p].has

\* An editor comes to hold the values of another proxy in one way only: the
\* answer of an update that was sent from an editor that was closed since.
ForeignFormOnlyLate ==
    ~ForeignForm(ui) /\ ForeignForm(ui') =>
        m["update"].phase = "done" /\ m'["update"].phase = "settling" /\ m["update"].arg.id # ui.selected
=============================================================================
