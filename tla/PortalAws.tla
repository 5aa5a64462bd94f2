------------------------------ MODULE PortalAws ------------------------------
(***************************************************************************)
(* The AWS page (features/aws/AwsPage.tsx) over lib/aws.ts and api/aws.ts: *)
(* the list of accounts, the account editor in its modal, the connection   *)
(* test and the manual synchronisation.  The values of an account or of    *)
(* the form are a record [of, val]: the account they were read or typed    *)
(* for, and which of two variants they are.                                *)
(***************************************************************************)
EXTENDS PortalPage

CONSTANT Accounts    \* AWS account ids, registered or not

None == "none"
Blank == [of |-> None, val |-> 0]
Values == [of : Accounts, val : {0, 1}]
Mutations == {"create", "update", "test", "sync"}

accountItems == IF cache = Undefined THEN {} ELSE {a \in Accounts : cache.accounts[a] # Blank}
selectedAccount == IF ui.selected \in accountItems THEN cache.accounts[ui.selected] ELSE Undefined
syncRunning == cache # Undefined /\ cache.running

\* Which stored values the form starts from; the secret is never among them.
awsAccountToForm(row) == row

\* The payload of an update has every field of the form but the account id.
awsFormToUpdatePayload(form) == form.val

\* Mutant: the account id is not compared.
isFormDirtyByValue == /\ ui.mode = "edit"
               /\ selectedAccount # Undefined
               /\ ui.form.val # awsAccountToForm(selectedAccount).val

\* The form differs from the selected account as the list has it.
isFormDirty == /\ ui.mode = "edit"
               /\ selectedAccount # Undefined
               /\ ui.form # awsAccountToForm(selectedAccount)

validateAwsAccountForm(form) == form # Blank

Init ==
    /\ \E reg \in SUBSET Accounts \ {{}} :
           db = [running |-> FALSE,
                 accounts |-> [a \in Accounts |-> IF a \in reg THEN [of |-> a, val |-> 0] ELSE Blank]]
    /\ ui \in [can : {"read", "write"}, mode : {"create"}, form : {Blank},
               selected : {None}, modal : {FALSE}, calls : {0}]
    /\ cache \in {Undefined, db}
    /\ m = [x \in Mutations |-> Idle]

canWriteAws == ui.can = "write"

\* The controls that the page renders and enables: its toolbar, a row of the
\* accounts table, and the form of the modal, which covers both, with its foot.
toolbar == canWriteAws /\ ~ui.modal
accountRow(a) == canWriteAws /\ ~ui.modal /\ a \in accountItems
accountForm == canWriteAws /\ ui.modal
accountModalFoot == accountForm /\ ~isPending("create") /\ ~isPending("update")

startCreate ==
    /\ toolbar
    /\ ui' = [ui EXCEPT !.mode = "create", !.selected = None, !.form = Blank, !.modal = TRUE]
    /\ UNCHANGED <<db, cache, m>>

\* Mutant: the editor opens with the form it had.
editAccountKeepingForm(a) ==
    /\ accountRow(a)
    /\ ui' = [ui EXCEPT !.mode = "edit", !.selected = a, !.modal = TRUE]
    /\ UNCHANGED <<db, cache, m>>

editAccount(a) ==
    /\ accountRow(a)
    /\ ui' = [ui EXCEPT !.mode = "edit", !.selected = a, !.modal = TRUE,
                        !.form = awsAccountToForm(cache.accounts[a])]
    /\ UNCHANGED <<db, cache, m>>

closeAccountModal ==
    /\ ui.modal
    /\ ui' = [ui EXCEPT !.modal = FALSE]
    /\ UNCHANGED <<db, cache, m>>

\* The inputs of the form; the account id can be typed only in create mode.
updateForm ==
    /\ accountForm
    /\ \E v \in Values :
           /\ v.of = ui.form.of \/ ui.mode = "create"
           /\ ui' = [ui EXCEPT !.form = v]
    /\ UNCHANGED <<db, cache, m>>

\* The submit button is disabled while a save is pending; a form that does not
\* validate is not sent.
submitAccount ==
    /\ accountModalFoot
    /\ validateAwsAccountForm(ui.form)
    /\ IF ui.mode = "create"
       THEN mutate("create", [id |-> ui.form.of, payload |-> ui.form.val])
       ELSE mutate("update", [id |-> ui.selected, payload |-> awsFormToUpdatePayload(ui.form)])
    /\ UNCHANGED <<db, cache>>

\* The test buttons of the rows and of the editor.
testSelectedOrAccount(a) ==
    /\ accountRow(a) \/ (accountForm /\ ui.mode = "edit" /\ a = ui.selected)
    /\ ~isPending("test")
    /\ mutate("test", [id |-> a])
    /\ UNCHANGED <<db, cache>>

runSync ==
    /\ toolbar /\ ~isPending("sync") /\ ~syncRunning
    /\ mutate("sync", Undefined)
    /\ UNCHANGED <<db, cache>>

-----------------------------------------------------------------------------
\* The server's side of the calls.

store(a, val) == db' = [db EXCEPT !.accounts[a] = [of |-> a, val |-> val]]

createAwsAccount ==
    LET arg == m["create"].arg IN
    /\ m["create"].phase = "sent"
    /\ db.accounts[arg.id] = Blank
    /\ store(arg.id, arg.payload)
    /\ Executed("create", arg.id)
    /\ UNCHANGED <<cache, ui>>

updateAwsAccount ==
    LET arg == m["update"].arg IN
    /\ m["update"].phase = "sent"
    /\ store(arg.id, arg.payload)
    /\ Executed("update", db'.accounts[arg.id])
    /\ UNCHANGED <<cache, ui>>

testAwsAccount ==
    /\ m["test"].phase = "sent"
    /\ Executed("test", Undefined)
    /\ UNCHANGED <<db, cache, ui>>

\* Runner.Trigger starts a run unless one is running; both answers are successes.
triggerAwsSync ==
    /\ m["sync"].phase = "sent"
    /\ db' = [db EXCEPT !.running = TRUE]
    /\ Executed("sync", Undefined)
    /\ UNCHANGED <<cache, ui>>

SyncEnds ==
    /\ db.running
    /\ db' = [db EXCEPT !.running = FALSE]
    /\ UNCHANGED <<cache, m, ui>>

-----------------------------------------------------------------------------
\* The answers at the page: onSuccess of the mutations.

createAccount ==
    /\ m["create"].phase = "done"
    /\ ui' = [ui EXCEPT !.form = Blank, !.selected = m["create"].ans, !.mode = "edit", !.modal = FALSE]
    /\ Succeeded("create")
    /\ UNCHANGED <<db, cache>>

\* The form is set whichever account the editor is open for by now.
updateAccount ==
    /\ m["update"].phase = "done"
    /\ ui' = [ui EXCEPT !.form = awsAccountToForm(m["update"].ans)]
    /\ Succeeded("update")
    /\ UNCHANGED <<db, cache>>

testAccount ==
    /\ m["test"].phase = "done"
    /\ Ended("test")
    /\ UNCHANGED <<db, cache, ui>>

runSyncDone ==
    /\ m["sync"].phase = "done"
    /\ Succeeded("sync")
    /\ UNCHANGED <<db, cache, ui>>

Next ==
    \/ startCreate \/ closeAccountModal \/ updateForm \/ submitAccount \/ runSync
    \/ \E a \in Accounts : editAccount(a) \/ testSelectedOrAccount(a)
    \/ createAwsAccount \/ updateAwsAccount \/ testAwsAccount \/ triggerAwsSync \/ SyncEnds
    \/ createAccount \/ updateAccount \/ testAccount \/ runSyncDone
    \/ \E x \in Mutations : MutationFailed(x) \/ Settle(x)
    \/ Load

-----------------------------------------------------------------------------
TypeOK ==
    /\ db.running \in BOOLEAN /\ db.accounts \in [Accounts -> Values \cup {Blank}]
    /\ ui.form \in Values \cup {Blank} /\ ui.selected \in Accounts \cup {None}
    /\ DOMAIN m = Mutations

\* The open editor of an account holds the values of another one.
ForeignForm(s) == s.modal /\ s.mode = "edit" /\ s.form.of # s.selected

\* The editor that holds the values of another account than the one it would
\* save to says so: the form counts as having unsaved changes.
ForeignFormFlagged == ForeignForm(ui) => isFormDirty

\* The editor comes to hold the values of another account in one way only: the
\* answer of an update sent from an editor that was closed since.
ForeignFormOnlyLate ==
    ~ForeignForm(ui) /\ ForeignForm(ui') =>
        /\ m["update"].phase = "done" /\ m'["update"].phase = "settling"
        /\ m["update"].arg.id # ui.selected
=============================================================================
