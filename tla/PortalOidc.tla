----------------------------- MODULE PortalOidc -----------------------------
(***************************************************************************)
(* The OIDC settings page (features/oidc/OidcPage.tsx over lib/oidc.ts).   *)
(* The settings are one provider address (all the text fields but the      *)
(* secret), the switch and the client secret, which the server never       *)
(* sends back.  The form starts empty, is set when other settings are      *)
(* loaded than the page had, and when a save is answered.                  *)
(***************************************************************************)
EXTENDS PortalPage

Empty == 0
Fields == {"enabled", "url", "secret"}
Mutations == {"save", "test"}
MaxSaves == MaxCalls    \* bound on the saves of everybody

\* What the server answers: everything but the secret.
Answer(row) == [enabled |-> row.enabled, url |-> row.url, version |-> row.version]

oidcSettingsToForm(s) ==
    [enabled |-> IF s = Undefined THEN FALSE ELSE s.enabled,
     url |-> IF s = Undefined THEN Empty ELSE s.url,
     secret |-> Empty]

\* Mutant: an empty secret is sent.
oidcFormToPayloadWhole(form) ==
    [enabled |-> form.enabled, url |-> form.url,
     secret |-> form.secret]

\* An empty secret is not sent.
oidcFormToPayload(form) ==
    [enabled |-> form.enabled, url |-> form.url,
     secret |-> IF form.secret = Empty THEN Undefined ELSE form.secret]

validateOIDCForm(form) == form.enabled => form.url # Empty

\* With the form are kept the settings it was set from and the fields edited since.
setForm(s) == [form |-> oidcSettingsToForm(s), base |-> s, touched |-> {}]

\* Mutant: every load sets the form.
SettingsLoadedAlways(s) ==
    ui' = [ui EXCEPT !.editor = setForm(s)]

\* The effect on settings.data, when a load has brought the settings s.
SettingsLoaded(s) ==
    ui' = IF cache # Undefined /\ s = Answer(cache) THEN ui
          ELSE [ui EXCEPT !.editor = setForm(s)]

Init ==
    /\ db \in [enabled : {TRUE}, url : {1}, secret : {1}, version : {0}]
    /\ cache = Undefined
    /\ m = [x \in Mutations |-> Idle]
    /\ ui \in [can : {"read", "write"}, editor : {setForm(Undefined)}, calls : {0}]

canWriteIAM == ui.can = "write"
saving == isPending("save") \/ isPending("test")

\* The inputs; only the switch is disabled while a call is pending.
input(f) == canWriteIAM /\ (f = "enabled" => ~saving)
formActions == canWriteIAM /\ ~saving

updateForm ==
    /\ \E f \in Fields :
           /\ input(f)
           /\ ui' = [ui EXCEPT !.editor.touched = @ \cup {f},
                               !.editor.form[f] = CASE f = "enabled" -> ~@
                                                    [] f = "url" -> IF @ = 2 THEN Empty ELSE 2
                                                    [] f = "secret" -> IF @ = 2 THEN Empty ELSE 2]
    /\ UNCHANGED <<db, cache, m>>

submitSettings ==
    /\ formActions /\ validateOIDCForm(ui.editor.form)
    /\ mutate("save", [payload |-> oidcFormToPayload(ui.editor.form),
                       base |-> ui.editor.base, touched |-> ui.editor.touched])
    /\ UNCHANGED <<db, cache>>

runConnectionTest ==
    /\ formActions /\ validateOIDCForm(ui.editor.form)
    /\ mutate("test", oidcFormToPayload(ui.editor.form))
    /\ UNCHANGED <<db, cache>>

updateOIDCSettings ==
    LET payload == m["save"].arg.payload IN
    /\ m["save"].phase = "sent" /\ db.version < MaxSaves
    /\ db' = [enabled |-> payload.enabled, url |-> payload.url, version |-> db.version + 1,
              secret |-> IF payload.secret = Undefined THEN db.secret ELSE payload.secret]
    /\ Executed("save", Answer(db'))
    /\ UNCHANGED <<cache, ui>>

testOIDCSettings ==
    /\ m["test"].phase = "sent"
    /\ Executed("test", Undefined)
    /\ UNCHANGED <<db, cache, ui>>

\* Another administrator saves from a page of his own.
OtherSave ==
    /\ db.version < MaxSaves
    /\ \E on \in BOOLEAN : db' = [db EXCEPT !.enabled = on, !.version = @ + 1]
    /\ UNCHANGED <<cache, m, ui>>

saveSettings ==
    /\ m["save"].phase = "done"
    /\ ui' = [ui EXCEPT !.editor = setForm(m["save"].ans)]
    /\ Succeeded("save")
    /\ UNCHANGED <<db, cache>>

testConnection ==
    /\ m["test"].phase = "done"
    /\ Ended("test")
    /\ UNCHANGED <<db, cache, ui>>

\* The query: the first load, the refresh button, and the load that a save awaits.
getOIDCSettings ==
    /\ cache' = db
    /\ SettingsLoaded(Answer(db))
    /\ UNCHANGED <<db, m>>

SaveSettled ==
    /\ m["save"].phase = "settling"
    /\ \/ cache' = db /\ SettingsLoaded(Answer(db))
       \/ UNCHANGED <<cache, ui>>
    /\ Ended("save")
    /\ UNCHANGED db

Next ==
    \/ updateForm \/ submitSettings \/ runConnectionTest
    \/ updateOIDCSettings \/ testOIDCSettings \/ OtherSave
    \/ saveSettings \/ testConnection \/ getOIDCSettings \/ SaveSettled
    \/ \E x \in Mutations : MutationFailed(x)

-----------------------------------------------------------------------------
TypeOK ==
    /\ db.enabled \in BOOLEAN /\ db.version \in 0..MaxSaves
    /\ {db.url, db.secret, ui.editor.form.url, ui.editor.form.secret} \subseteq 0..2
    /\ ui.editor.form.enabled \in BOOLEAN /\ ui.editor.touched \subseteq Fields
    /\ DOMAIN m = Mutations

\* A save from a form that was set from what the server still has changes the
\* edited fields and no other: in particular the stored secret, which the form
\* does not have, survives.  A form that was never set (the settings are still
\* loading, or failed to load) has no such protection.
SaveChangesOnlyEdits ==
    LET call == m["save"] IN
    call.phase = "sent" /\ m'["save"].phase = "done" /\ call.arg.base = Answer(db) =>
        \A f \in Fields \ call.arg.touched : db'[f] = db[f]

\* Edits are discarded only by the answer of a save, or by a load that found
\* other settings than the page had: a refresh that finds nothing new keeps them.
EditsDiscarded ==
    ui.editor.touched # {} /\ ui'.editor.touched = {} =>
        \/ m["save"].phase = "done" /\ m'["save"].phase = "settling"
        \/ cache' # Undefined /\ (cache = Undefined \/ Answer(cache) # Answer(cache'))
=============================================================================
