----------------------------- MODULE PortalKeys -----------------------------
(***************************************************************************)
(* The other two tabs of the connectivity page (ConnectivityPage.tsx): the *)
(* SSH key pairs with their upload form and its file reader, and the       *)
(* pinned host keys.  A name or a private key of the upload form is empty, *)
(* typed, or came from a file.                                             *)
(***************************************************************************)
EXTENDS PortalPage

CONSTANTS Files,     \* private key files of the operator
          Targets    \* targets with a pinned host key

None == "none"
Typed == "typed"
Mutations == {"upload", "removeKey", "approve", "forget"}

emptySSHKeypairForm == [name |-> None, key |-> None]

validateSSHKeypairForm(form) == form.name # None /\ form.key # None

keypairItems == IF cache = Undefined THEN {} ELSE {n \in Files \cup {Typed} : cache.keypairs[n] # None}
hostKeyItems == IF cache = Undefined THEN {} ELSE {t \in Targets : cache.hostkeys[t] # "none"}

\* The reads under way, the file chosen last in the open form, and whether a
\* read of another file was then under way (overtaken) are kept with the form.
Init ==
    /\ db = [keypairs |-> [n \in Files \cup {Typed} |-> None],
             hostkeys |-> [t \in Targets |-> "pinned"]]
    /\ cache \in {Undefined, db}
    /\ m = [x \in Mutations |-> Idle]
    /\ ui \in [can : {"read", "write"}, tab : {"keypairs", "hostkeys"}, kform : {emptySSHKeypairForm},
               kmodal : {FALSE}, reading : {{}}, chosen : {None}, overtaken : {FALSE}, calls : {0}]

canWriteAssets == ui.can = "write"

setActiveTab ==
    /\ ~ui.kmodal
    /\ \E t \in {"keypairs", "hostkeys"} \ {ui.tab} : ui' = [ui EXCEPT !.tab = t]
    /\ UNCHANGED <<db, cache, m>>

-----------------------------------------------------------------------------
\* The key pairs, the upload form and the files it reads.

\* The controls of the tab: the upload button of the toolbar, a row of the table.
uploadButton == ~ui.kmodal /\ ui.tab = "keypairs" /\ canWriteAssets
keypairRow(n) == uploadButton /\ n \in keypairItems /\ ~isPending("removeKey")

openKeypairModal ==
    /\ uploadButton
    /\ ui' = [ui EXCEPT !.kform = emptySSHKeypairForm, !.kmodal = TRUE,
                        !.chosen = None, !.overtaken = ui.reading # {}]
    /\ UNCHANGED <<db, cache, m>>

closeKeypairModal ==
    /\ ui.kmodal
    /\ ui' = [ui EXCEPT !.kmodal = FALSE]
    /\ UNCHANGED <<db, cache, m>>

\* Mutant: the inputs stay enabled while an upload is pending.
keypairInputAlways == ui.kmodal /\ canWriteAssets

\* The inputs of the upload form are disabled while an upload is pending.
keypairInput == ui.kmodal /\ canWriteAssets /\ ~isPending("upload")

updateKeypairForm ==
    /\ keypairInput
    /\ \/ ui' = [ui EXCEPT !.kform.name = Typed]
       \/ ui' = [ui EXCEPT !.kform.key = Typed, !.chosen = None, !.overtaken = ui.reading # {}]
    /\ UNCHANGED <<db, cache, m>>

readKeypairFile(f) ==
    /\ keypairInput /\ f \notin ui.reading
    /\ ui' = [ui EXCEPT !.reading = @ \cup {f}, !.chosen = f, !.overtaken = @ \/ ui.reading # {}]
    /\ UNCHANGED <<db, cache, m>>

\* Mutant: a key that is there is kept.
readerLoadedOnce(f) ==
    /\ f \in ui.reading
    /\ ui' = [ui EXCEPT !.reading = @ \ {f}, !.kform.name = IF @ = None THEN f ELSE @, !.kform.key = IF @ = None THEN f ELSE @]
    /\ UNCHANGED <<db, cache, m>>

\* reader.onload: a name that is there is kept, the key is replaced.
readerLoaded(f) ==
    /\ f \in ui.reading
    /\ ui' = [ui EXCEPT !.reading = @ \ {f}, !.kform.name = IF @ = None THEN f ELSE @, !.kform.key = f]
    /\ UNCHANGED <<db, cache, m>>

readerFailed(f) ==
    /\ f \in ui.reading
    /\ ui' = [ui EXCEPT !.reading = @ \ {f}, !.overtaken = TRUE]
    /\ UNCHANGED <<db, cache, m>>

keypairModalFoot == ui.kmodal /\ canWriteAssets /\ ~isPending("upload")

submitKeypair ==
    /\ keypairModalFoot
    /\ validateSSHKeypairForm(ui.kform)
    /\ mutate("upload", ui.kform)
    /\ UNCHANGED <<db, cache>>

deleteKeypair(n) ==
    /\ keypairRow(n)
    /\ mutate("removeKey", n)
    /\ UNCHANGED <<db, cache>>

-----------------------------------------------------------------------------
\* The host keys.

hostKeyRow(t) == ~ui.kmodal /\ ui.tab = "hostkeys" /\ canWriteAssets /\ t \in hostKeyItems

approveHostKey(t) ==
    /\ hostKeyRow(t) /\ cache.hostkeys[t] # "pending" /\ ~isPending("approve")
    /\ mutate("approve", t)
    /\ UNCHANGED <<db, cache>>

deleteHostKeyRecord(t) ==
    /\ hostKeyRow(t) /\ ~isPending("forget")
    /\ mutate("forget", t)
    /\ UNCHANGED <<db, cache>>

-----------------------------------------------------------------------------
\* The server's side of the calls.

upsertSSHKeypair ==
    /\ m["upload"].phase = "sent"
    /\ db' = [db EXCEPT !.keypairs[m["upload"].arg.name] = m["upload"].arg.key]
    /\ Executed("upload", Undefined)
    /\ UNCHANGED <<cache, ui>>

deleteSSHKeypair ==
    /\ m["removeKey"].phase = "sent"
    /\ db' = [db EXCEPT !.keypairs[m["removeKey"].arg] = None]
    /\ Executed("removeKey", Undefined)
    /\ UNCHANGED <<cache, ui>>

approveHostKeyOverride ==
    /\ m["approve"].phase = "sent" /\ db.hostkeys[m["approve"].arg] # "none"
    /\ db' = [db EXCEPT !.hostkeys[m["approve"].arg] = "pending"]
    /\ Executed("approve", Undefined)
    /\ UNCHANGED <<cache, ui>>

deleteHostKey ==
    /\ m["forget"].phase = "sent"
    /\ db' = [db EXCEPT !.hostkeys[m["forget"].arg] = "none"]
    /\ Executed("forget", Undefined)
    /\ UNCHANGED <<cache, ui>>

-----------------------------------------------------------------------------
\* The answers at the page.

uploadKeypair ==
    /\ m["upload"].phase = "done"
    /\ ui' = [ui EXCEPT !.kform = emptySSHKeypairForm, !.kmodal = FALSE]
    /\ Succeeded("upload")
    /\ UNCHANGED <<db, cache>>

\* removeKeypair, approveOverride and forgetHostKey only load their list again.
listChanged(x) ==
    /\ m[x].phase = "done"
    /\ Succeeded(x)
    /\ UNCHANGED <<db, cache, ui>>

Next ==
    \/ setActiveTab \/ openKeypairModal \/ closeKeypairModal \/ updateKeypairForm \/ submitKeypair
    \/ \E f \in Files : readKeypairFile(f) \/ readerLoaded(f) \/ readerFailed(f)
    \/ \E n \in Files \cup {Typed} : deleteKeypair(n)
    \/ \E t \in Targets : approveHostKey(t) \/ deleteHostKeyRecord(t)
    \/ upsertSSHKeypair \/ deleteSSHKeypair \/ approveHostKeyOverride \/ deleteHostKey
    \/ uploadKeypair \/ \E x \in {"removeKey", "approve", "forget"} : listChanged(x)
    \/ \E x \in Mutations : MutationFailed(x) \/ Settle(x)
    \/ Load

-----------------------------------------------------------------------------
TypeOK ==
    /\ db.keypairs \in [Files \cup {Typed} -> Files \cup {Typed, None}]
    /\ db.hostkeys \in [Targets -> {"pinned", "pending", "none"}]
    /\ ui.kform \in [name : Files \cup {Typed, None}, key : Files \cup {Typed, None}]
    /\ ui.reading \subseteq Files /\ DOMAIN m = Mutations

\* What is typed in the upload form is not discarded by the answer of an
\* earlier upload: the form was uploaded, is empty, or has a file's contents.
KeypairDraftKept ==
    m["upload"].phase = "done" /\ m'["upload"].phase = "settling" =>
        /\ ui.kform.name = Typed => m["upload"].arg.name = Typed
        /\ ui.kform.key = Typed => m["upload"].arg.key = Typed

\* A key that came from a file is that of the file chosen last, unless that
\* file could not be read or another one was still being read then.
KeyOfChosenFile ==
    ui.kmodal /\ ~ui.overtaken /\ ui.chosen # None => ui.chosen \in ui.reading \/ ui.kform.key = ui.chosen
=============================================================================
