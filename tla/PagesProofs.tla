---------------------------- MODULE PagesProofs ----------------------------
(***************************************************************************)
(* The pages of the portal in MCComponents, for any things, logins and      *)
(* number of calls: an inductive invariant for each page that has none in   *)
(* ComponentsProofs, and what follows for the runs' properties.  The rail,  *)
(* and the palette of the connect page, are left to TLC: what they show is  *)
(* computed with the selections, sorts and folds of sequences.              *)
(***************************************************************************)
EXTENDS ComponentsProofs

-----------------------------------------------------------------------------
(* The upload form of key pairs, and the pinned host keys.                  *)

KeyNames == Things \cup {"typed"}
KeysDb == [keypairs : [KeyNames -> KeyNames \cup {"none"}], hostkeys : [One -> {"pinned", "pending", "none"}]]
KeyForm == [name : KeyNames \cup {"none"}, key : KeyNames \cup {"none"}]
KeysPage == [can : {"read", "write"}, tab : {"keypairs", "hostkeys"}, kform : KeyForm, kmodal : BOOLEAN,
             reading : SUBSET Things, chosen : Things \cup {"none"}, overtaken : BOOLEAN, calls : Nat]

(* Only the file chosen last is being read, unless it was overtaken.        *)
KeysView(u) ==
  /\ u \in KeysPage
  /\ ~ u.overtaken => u.reading \subseteq {u.chosen}
  /\ u.kmodal /\ ~ u.overtaken /\ u.chosen # "none" => u.chosen \in u.reading \/ u.kform.key = u.chosen

KeysCall(x, c) ==
  /\ x = "upload" /\ c.phase = "sent" => c.arg \in KeyForm
  /\ x = "removeKey" /\ c.phase = "sent" => c.arg \in KeyNames
  /\ x \in {"approve", "forget"} /\ c.phase = "sent" => c.arg \in One

KeysCalls(n) == MutationCalls(n, Keys!Mutations) /\ \A x \in Keys!Mutations : KeysCall(x, n[x])

(* What is typed in the form while it is uploaded is what is uploaded.      *)
KeysDraft(f, n) ==
  n["upload"].phase \in {"sent", "done"} =>
    /\ f.name = "typed" => n["upload"].arg.name = "typed"
    /\ f.key = "typed" => n["upload"].arg.key = "typed"

KeysInv == db \in KeysDb /\ KeysView(ui) /\ KeysCalls(m) /\ KeysDraft(ui.kform, m)

LEMMA EmptyKeyForm ==
  /\ Keys!emptySSHKeypairForm \in KeyForm
  /\ Keys!emptySSHKeypairForm.name = "none" /\ Keys!emptySSHKeypairForm.key = "none"
BY DEF Keys!emptySSHKeypairForm, KeyForm, Keys!None

LEMMA KeysFields ==
  ASSUME NEW u \in KeysPage
  PROVE  /\ u = [can |-> u.can, tab |-> u.tab, kform |-> u.kform, kmodal |-> u.kmodal, reading |-> u.reading,
                 chosen |-> u.chosen, overtaken |-> u.overtaken, calls |-> u.calls]
         /\ u.can \in {"read", "write"} /\ u.tab \in {"keypairs", "hostkeys"} /\ u.kform \in KeyForm
         /\ u.kmodal \in BOOLEAN /\ u.reading \in SUBSET Things /\ u.chosen \in Things \cup {"none"}
         /\ u.overtaken \in BOOLEAN /\ u.calls \in Nat
BY DEF KeysPage

LEMMA KeyFormFields ==
  ASSUME NEW f \in KeyForm
  PROVE  /\ f = [name |-> f.name, key |-> f.key]
         /\ f.name \in KeyNames \cup {"none"} /\ f.key \in KeyNames \cup {"none"}
BY DEF KeyForm

(* The page with these fields.                                              *)
KeysPageOf(u, w, t, f, k, r, c, o, n) ==
  u = [can |-> w, tab |-> t, kform |-> f, kmodal |-> k, reading |-> r, chosen |-> c, overtaken |-> o, calls |-> n]

LEMMA KeysViewOf ==
  ASSUME NEW w \in {"read", "write"}, NEW t \in {"keypairs", "hostkeys"}, NEW f \in KeyForm, NEW k \in BOOLEAN,
         NEW r \in SUBSET Things, NEW c \in Things \cup {"none"}, NEW o \in BOOLEAN, NEW n \in Nat,
         ~ o => r \subseteq {c}, k /\ ~ o /\ c # "none" => c \in r \/ f.key = c,
         NEW u, KeysPageOf(u, w, t, f, k, r, c, o, n)
  PROVE  KeysView(u) /\ u.kform = f
<1>1. /\ u \in KeysPage /\ u.kform = f /\ u.kmodal = k /\ u.reading = r /\ u.chosen = c /\ u.overtaken = o
  BY DEF KeysPage, KeysPageOf
<1> QED
  BY <1>1 DEF KeysView

LEMMA KeysInit == Keys!Init => KeysInv
<1> SUFFICES ASSUME Keys!Init PROVE KeysInv
  OBVIOUS
<1>1. db \in KeysDb
  <2>1. db = [keypairs |-> [n \in KeyNames |-> "none"], hostkeys |-> [t \in One |-> "pinned"]]
    BY DEF Keys!Init, KeyNames, Keys!None, Keys!Typed
  <2>2. [n \in KeyNames |-> "none"] \in [KeyNames -> KeyNames \cup {"none"}]
        /\ [t \in One |-> "pinned"] \in [One -> {"pinned", "pending", "none"}]
    OBVIOUS
  <2> QED
    BY <2>1, <2>2 DEF KeysDb
<1>2. PICK f : f = Keys!emptySSHKeypairForm
  OBVIOUS
<1>3. f \in KeyForm /\ f.name = "none" /\ f.key = "none"
  BY <1>2, EmptyKeyForm
<1>4. KeysView(ui) /\ ui.kform = f
  <2>1. ui \in [can : {"read", "write"}, tab : {"keypairs", "hostkeys"}, kform : {f},
                kmodal : {FALSE}, reading : {{}}, chosen : {"none"}, overtaken : {FALSE}, calls : {0}]
    BY <1>2 DEF Keys!Init, Keys!None
  <2>2. PICK w \in {"read", "write"}, t \in {"keypairs", "hostkeys"} :
          ui = [can |-> w, tab |-> t, kform |-> f, kmodal |-> FALSE, reading |-> {},
                chosen |-> "none", overtaken |-> FALSE, calls |-> 0]
    BY <2>1
  <2>3. PICK r \in SUBSET Things : r = {}
    OBVIOUS
  <2> QED
    <3>1. PICK o \in BOOLEAN : o = FALSE
      OBVIOUS
    <3>2. KeysPageOf(ui, w, t, f, o, r, "none", o, 0)
      BY <2>2, <2>3, <3>1 DEF KeysPageOf
    <3> QED
      BY <1>3, <2>3, <3>1, <3>2, KeysViewOf
<1>5. m = [x \in Keys!Mutations |-> [phase |-> "idle", arg |-> Undefined, ans |-> Undefined]]
  BY DEF Keys!Init, Keys!Idle
<1>6. /\ MutationCalls(m, Keys!Mutations)
      /\ \A x \in Keys!Mutations : m[x].phase = "idle"
  BY <1>5 DEF MutationCalls
<1>7. KeysCalls(m)
  BY <1>6 DEF KeysCalls, KeysCall
<1>8. KeysDraft(ui.kform, m)
  BY <1>3, <1>4 DEF KeysDraft
<1> QED
  BY <1>1, <1>4, <1>7, <1>8 DEF KeysInv

(* The operator and the file reader change the form.                        *)
LEMMA KeysViewSteps ==
  ASSUME KeysInv,
         \/ Keys!setActiveTab \/ Keys!openKeypairModal \/ Keys!closeKeypairModal \/ Keys!updateKeypairForm
         \/ \E f \in Things : Keys!readKeypairFile(f) \/ Keys!readerLoaded(f) \/ Keys!readerFailed(f)
  PROVE  KeysInv'
<1>1. /\ ui \in KeysPage /\ KeysView(ui) /\ KeysDraft(ui.kform, m)
      /\ ui = [can |-> ui.can, tab |-> ui.tab, kform |-> ui.kform, kmodal |-> ui.kmodal, reading |-> ui.reading,
               chosen |-> ui.chosen, overtaken |-> ui.overtaken, calls |-> ui.calls]
      /\ ui.can \in {"read", "write"} /\ ui.tab \in {"keypairs", "hostkeys"} /\ ui.kform \in KeyForm
      /\ ui.kmodal \in BOOLEAN /\ ui.reading \in SUBSET Things /\ ui.chosen \in Things \cup {"none"}
      /\ ui.overtaken \in BOOLEAN /\ ui.calls \in Nat
  BY KeysFields DEF KeysInv, KeysView
<1>2. /\ ~ ui.overtaken => ui.reading \subseteq {ui.chosen}
      /\ ui.kmodal /\ ~ ui.overtaken /\ ui.chosen # "none" => ui.chosen \in ui.reading \/ ui.kform.key = ui.chosen
  BY <1>1 DEF KeysView
<1>3. ui.kform = [name |-> ui.kform.name, key |-> ui.kform.key]
      /\ ui.kform.name \in KeyNames \cup {"none"} /\ ui.kform.key \in KeyNames \cup {"none"}
  BY <1>1, KeyFormFields
<1>4. UNCHANGED <<db, cache, m>>
  BY DEF Keys!setActiveTab, Keys!openKeypairModal, Keys!closeKeypairModal, Keys!updateKeypairForm,
     Keys!readKeypairFile, Keys!readerLoaded, Keys!readerFailed
<1>5. KeysView(ui') /\ KeysDraft(ui'.kform, m)
  <2>1. CASE Keys!setActiveTab
    <3>1. PICK t \in {"keypairs", "hostkeys"} : ui' = [ui EXCEPT !.tab = t]
      BY <2>1 DEF Keys!setActiveTab
    <3>2. KeysPageOf(ui', ui.can, t, ui.kform, ui.kmodal, ui.reading, ui.chosen, ui.overtaken, ui.calls)
      BY <1>1, <3>1 DEF KeysPageOf
    <3>3. KeysView(ui') /\ ui'.kform = ui.kform
      BY <1>1, <1>2, <3>2, KeysViewOf
    <3> QED
      BY <1>1, <3>3
  <2>2. CASE Keys!openKeypairModal
    <3>1. PICK f : f = Keys!emptySSHKeypairForm
      OBVIOUS
    <3>2. f \in KeyForm /\ f.name = "none" /\ f.key = "none"
      BY <3>1, EmptyKeyForm
    <3>3. PICK o \in BOOLEAN, k \in BOOLEAN : o = (ui.reading # {}) /\ k = TRUE
      OBVIOUS
    <3>4. KeysPageOf(ui', ui.can, ui.tab, f, k, ui.reading, "none", o, ui.calls)
      BY <1>1, <2>2, <3>1, <3>3 DEF Keys!openKeypairModal, Keys!None, KeysPageOf
    <3>5. KeysView(ui') /\ ui'.kform = f
      <4>1. ~ o => ui.reading \subseteq {"none"}
        BY <3>3
      <4> QED
        BY <1>1, <3>2, <3>4, <4>1, KeysViewOf
    <3> QED
      BY <3>2, <3>5 DEF KeysDraft
  <2>3. CASE Keys!closeKeypairModal
    <3>1. PICK k \in BOOLEAN : ~ k
      OBVIOUS
    <3>2. KeysPageOf(ui', ui.can, ui.tab, ui.kform, k, ui.reading, ui.chosen, ui.overtaken, ui.calls)
      BY <1>1, <2>3, <3>1 DEF Keys!closeKeypairModal, KeysPageOf
    <3>3. KeysView(ui') /\ ui'.kform = ui.kform
      BY <1>1, <1>2, <3>1, <3>2, KeysViewOf
    <3> QED
      BY <1>1, <3>3
  <2>4. CASE Keys!updateKeypairForm
    <3>1. m["upload"].phase = "idle"
      BY <2>4 DEF Keys!updateKeypairForm, Keys!keypairInput, Keys!isPending
    <3>2. CASE ui' = [ui EXCEPT !.kform.name = "typed"]
      <4>1. PICK f : f = [name |-> "typed", key |-> ui.kform.key]
        OBVIOUS
      <4>2. f \in KeyForm /\ f.key = ui.kform.key
        BY <1>3, <4>1 DEF KeyForm, KeyNames
      <4>3. KeysPageOf(ui', ui.can, ui.tab, f, ui.kmodal, ui.reading, ui.chosen, ui.overtaken, ui.calls)
        BY <1>1, <1>3, <3>2, <4>1 DEF KeysPageOf
      <4>4. KeysView(ui')
        BY <1>1, <1>2, <4>2, <4>3, KeysViewOf
      <4> QED
        BY <3>1, <4>4 DEF KeysDraft
    <3>3. CASE ui' = [ui EXCEPT !.kform.key = "typed", !.chosen = "none", !.overtaken = ui.reading # {}]
      <4>1. PICK f : f = [name |-> ui.kform.name, key |-> "typed"]
        OBVIOUS
      <4>2. f \in KeyForm
        BY <1>3, <4>1 DEF KeyForm, KeyNames
      <4>3. PICK o \in BOOLEAN : o = (ui.reading # {})
        OBVIOUS
      <4>4. KeysPageOf(ui', ui.can, ui.tab, f, ui.kmodal, ui.reading, "none", o, ui.calls)
        BY <1>1, <1>3, <3>3, <4>1, <4>3 DEF KeysPageOf
      <4>5. ~ o => ui.reading \subseteq {"none"}
        BY <4>3
      <4>6. KeysView(ui')
        BY <1>1, <4>2, <4>4, <4>5, KeysViewOf
      <4> QED
        BY <3>1, <4>6 DEF KeysDraft
    <3> QED
      BY <2>4, <3>2, <3>3 DEF Keys!updateKeypairForm, Keys!Typed, Keys!None
  <2>5. ASSUME NEW f \in Things, Keys!readKeypairFile(f)
        PROVE  KeysView(ui') /\ KeysDraft(ui'.kform, m)
    <3>1. PICK r \in SUBSET Things : r = ui.reading \cup {f}
      BY <1>1
    <3>2. PICK o \in BOOLEAN : o = (ui.overtaken \/ ui.reading # {})
      OBVIOUS
    <3>3. KeysPageOf(ui', ui.can, ui.tab, ui.kform, ui.kmodal, r, f, o, ui.calls)
      BY <1>1, <2>5, <3>1, <3>2 DEF Keys!readKeypairFile, KeysPageOf
    <3>4. f \in r /\ (~ o => r \subseteq {f})
      BY <3>1, <3>2
    <3>5. KeysView(ui') /\ ui'.kform = ui.kform
      BY <1>1, <3>3, <3>4, KeysViewOf
    <3> QED
      BY <1>1, <3>5
  <2>6. ASSUME NEW f \in Things, Keys!readerLoaded(f)
        PROVE  KeysView(ui') /\ KeysDraft(ui'.kform, m)
    <3>1. PICK r \in SUBSET Things : r = ui.reading \ {f}
      BY <1>1
    <3>2. PICK n : n = IF ui.kform.name = "none" THEN f ELSE ui.kform.name
      OBVIOUS
    <3>3. PICK g : g = [name |-> n, key |-> f]
      OBVIOUS
    <3>4. g \in KeyForm /\ g.key = f /\ g.name = n
      BY <1>3, <3>2, <3>3 DEF KeyForm, KeyNames
    <3>5. KeysPageOf(ui', ui.can, ui.tab, g, ui.kmodal, r, ui.chosen, ui.overtaken, ui.calls)
      BY <1>1, <1>3, <2>6, <3>1, <3>2, <3>3 DEF Keys!readerLoaded, Keys!None, KeysPageOf
    <3>6. ~ ui.overtaken => r \subseteq {ui.chosen} /\ f = ui.chosen
      BY <1>2, <2>6, <3>1 DEF Keys!readerLoaded
    <3>7. KeysView(ui') /\ ui'.kform = g
      BY <1>1, <3>4, <3>5, <3>6, KeysViewOf
    <3>8. f # "typed"
      BY NamesAssumption
    <3> QED
      BY <1>1, <3>2, <3>4, <3>7, <3>8 DEF KeysDraft
  <2>7. ASSUME NEW f \in Things, Keys!readerFailed(f)
        PROVE  KeysView(ui') /\ KeysDraft(ui'.kform, m)
    <3>1. PICK r \in SUBSET Things, o \in BOOLEAN : r = ui.reading \ {f} /\ o
      BY <1>1
    <3>2. KeysPageOf(ui', ui.can, ui.tab, ui.kform, ui.kmodal, r, ui.chosen, o, ui.calls)
      BY <1>1, <2>7, <3>1 DEF Keys!readerFailed, KeysPageOf
    <3>3. KeysView(ui') /\ ui'.kform = ui.kform
      <4>1. /\ ~ o => r \subseteq {ui.chosen}
            /\ ui.kmodal /\ ~ o /\ ui.chosen # "none" => ui.chosen \in r \/ ui.kform.key = ui.chosen
        BY <3>1
      <4> QED
        BY <1>1, <3>2, <4>1, KeysViewOf
    <3> QED
      BY <1>1, <3>3
  <2> QED
    BY <2>1, <2>2, <2>3, <2>4, <2>5, <2>6, <2>7
<1> QED
  BY <1>4, <1>5 DEF KeysInv

(* A call of the operator: an upload sends the form.                        *)
LEMMA KeysCalled ==
  ASSUME KeysInv, NEW x \in Keys!Mutations, NEW arg, Keys!mutate(x, arg), UNCHANGED <<db, cache>>,
         x = "upload" => arg = ui.kform,
         x = "removeKey" => arg \in KeyNames, x \in {"approve", "forget"} => arg \in One
  PROVE  KeysInv'
<1>1. /\ ui \in KeysPage /\ KeysView(ui) /\ KeysDraft(ui.kform, m) /\ KeysCalls(m) /\ MutationCalls(m, Keys!Mutations)
      /\ ui = [can |-> ui.can, tab |-> ui.tab, kform |-> ui.kform, kmodal |-> ui.kmodal, reading |-> ui.reading,
               chosen |-> ui.chosen, overtaken |-> ui.overtaken, calls |-> ui.calls]
      /\ ui.can \in {"read", "write"} /\ ui.tab \in {"keypairs", "hostkeys"} /\ ui.kform \in KeyForm
      /\ ui.kmodal \in BOOLEAN /\ ui.reading \in SUBSET Things /\ ui.chosen \in Things \cup {"none"}
      /\ ui.overtaken \in BOOLEAN /\ ui.calls \in Nat
  BY KeysFields DEF KeysInv, KeysView, KeysCalls
<1>2. /\ ~ ui.overtaken => ui.reading \subseteq {ui.chosen}
      /\ ui.kmodal /\ ~ ui.overtaken /\ ui.chosen # "none" => ui.chosen \in ui.reading \/ ui.kform.key = ui.chosen
  BY <1>1 DEF KeysView
<1>3. PICK n \in Nat : n = ui.calls + 1
  BY <1>1
<1>4. KeysPageOf(ui', ui.can, ui.tab, ui.kform, ui.kmodal, ui.reading, ui.chosen, ui.overtaken, n)
  BY <1>1, <1>3 DEF Keys!mutate, KeysPageOf
<1>5. KeysView(ui') /\ ui'.kform = ui.kform
  BY <1>1, <1>2, <1>4, KeysViewOf
<1>6. CallSet(x, "sent", arg, Undefined)
  BY DEF Keys!mutate, CallSet
<1>7. /\ MutationCalls(m', Keys!Mutations) /\ m'[x].phase = "sent" /\ m'[x].arg = arg
      /\ \A y \in Keys!Mutations \ {x} : m'[y] = m[y]
  BY <1>1, <1>6, CallMade
<1>8. KeysCall(x, m'[x])
  BY <1>1, <1>7 DEF KeysCall
<1>9. KeysCalls(m')
  BY <1>1, <1>7, <1>8 DEF KeysCalls
<1>10. KeysDraft(ui.kform, m')
  BY <1>1, <1>7 DEF KeysDraft, Keys!Mutations
<1> QED
  BY <1>5, <1>9, <1>10 DEF KeysInv

LEMMA KeysOperatorCalls ==
  ASSUME KeysInv,
         \/ Keys!submitKeypair \/ \E n \in KeyNames : Keys!deleteKeypair(n)
         \/ \E t \in One : Keys!approveHostKey(t) \/ Keys!deleteHostKeyRecord(t)
  PROVE  KeysInv'
<1>1. CASE Keys!submitKeypair
  BY <1>1, KeysCalled DEF Keys!submitKeypair, Keys!Mutations
<1>2. ASSUME NEW n \in KeyNames, Keys!deleteKeypair(n) PROVE KeysInv'
  BY <1>2, KeysCalled DEF Keys!deleteKeypair, Keys!Mutations
<1>3. ASSUME NEW t \in One, Keys!approveHostKey(t) \/ Keys!deleteHostKeyRecord(t) PROVE KeysInv'
  BY <1>3, KeysCalled DEF Keys!approveHostKey, Keys!deleteHostKeyRecord, Keys!Mutations
<1> QED
  BY <1>1, <1>2, <1>3

(* A call is executed, answered, or ends; the form stays or is emptied.     *)
LEMMA KeysCallMoves ==
  ASSUME KeysInv, NEW x \in Keys!Mutations, NEW f, f = ui.kform \/ f = Keys!emptySSHKeypairForm,
         (m[x].phase = "sent" /\ Keys!Executed(x, Undefined)) \/ Keys!Succeeded(x) \/ Keys!Ended(x)
  PROVE  /\ KeysCalls(m') /\ KeysDraft(f, m')
         /\ Keys!Succeeded(x) => m'[x].phase = "settling"
<1>1. KeysCalls(m) /\ MutationCalls(m, Keys!Mutations) /\ KeysDraft(ui.kform, m)
  BY DEF KeysInv, KeysCalls
<1>2. KeysDraft(f, m)
  BY <1>1, EmptyKeyForm DEF KeysDraft
<1>3. ASSUME NEW p \in {"done", "settling", "idle"}, MutationCalls(m', Keys!Mutations), m'[x].phase = p,
             p = "done" => m[x].phase = "sent" /\ m'[x].arg = m[x].arg,
             \A y \in Keys!Mutations \ {x} : m'[y] = m[y]
      PROVE  KeysCalls(m') /\ KeysDraft(f, m')
  <2>1. KeysCall(x, m'[x])
    BY <1>3 DEF KeysCall
  <2>2. KeysCalls(m')
    BY <1>1, <1>3, <2>1 DEF KeysCalls
  <2>3. KeysDraft(f, m')
    <3>1. CASE x = "upload"
      BY <1>2, <1>3, <3>1 DEF KeysDraft
    <3>2. CASE x # "upload"
      <4>1. m'["upload"] = m["upload"]
        BY <1>3, <3>2 DEF Keys!Mutations
      <4> QED
        BY <1>2, <4>1 DEF KeysDraft
    <3> QED
      BY <3>1, <3>2
  <2> QED
    BY <2>2, <2>3
<1>4. Keys!Succeeded(x) => m'[x].phase = "settling"
  <2> SUFFICES ASSUME Keys!Succeeded(x) PROVE m'[x].phase = "settling"
    OBVIOUS
  <2>1. CallMoved(x, "settling")
    BY DEF Keys!Succeeded, CallMoved
  <2> QED
    BY <1>1, <2>1, CallGoesOn
<1>5. CASE m[x].phase = "sent" /\ Keys!Executed(x, Undefined)
  <2>1. CallAnswered(x, Undefined)
    BY <1>5 DEF Keys!Executed, CallAnswered
  <2>2. /\ MutationCalls(m', Keys!Mutations) /\ m'[x].phase = "done" /\ m'[x].arg = m[x].arg
        /\ \A y \in Keys!Mutations \ {x} : m'[y] = m[y]
    BY <1>1, <2>1, CallExecuted
  <2> QED
    BY <1>3, <1>5, <1>4, <2>2
<1>6. CASE Keys!Succeeded(x)
  <2>1. CallMoved(x, "settling")
    BY <1>6 DEF Keys!Succeeded, CallMoved
  <2>2. /\ MutationCalls(m', Keys!Mutations) /\ m'[x].phase = "settling"
        /\ \A y \in Keys!Mutations \ {x} : m'[y] = m[y]
    BY <1>1, <2>1, CallGoesOn
  <2> QED
    BY <1>3, <2>2
<1>7. CASE Keys!Ended(x)
  <2>1. CallSet(x, "idle", Undefined, Undefined)
    BY <1>7 DEF Keys!Ended, Keys!Idle, CallSet
  <2>2. /\ MutationCalls(m', Keys!Mutations) /\ m'[x].phase = "idle"
        /\ \A y \in Keys!Mutations \ {x} : m'[y] = m[y]
    BY <1>1, <2>1, CallMade
  <2> QED
    BY <1>3, <1>4, <2>2
<1> QED
  BY <1>5, <1>6, <1>7, <1>4

LEMMA KeysServerSteps ==
  ASSUME KeysInv,
         \/ Keys!upsertSSHKeypair \/ Keys!deleteSSHKeypair \/ Keys!approveHostKeyOverride \/ Keys!deleteHostKey
  PROVE  KeysInv'
<1>1. /\ db = [keypairs |-> db.keypairs, hostkeys |-> db.hostkeys]
      /\ db.keypairs \in [KeyNames -> KeyNames \cup {"none"}]
      /\ db.hostkeys \in [One -> {"pinned", "pending", "none"}]
  BY DEF KeysInv, KeysDb
<1>2. KeysCalls(m) /\ KeysView(ui)
  BY DEF KeysInv
<1>3. ASSUME NEW n, NEW k \in KeyNames \cup {"none"}, db' = [db EXCEPT !.keypairs[n] = k]
      PROVE  db' \in KeysDb
  <2>1. PICK rows : rows = [db.keypairs EXCEPT ![n] = k]
    OBVIOUS
  <2>2. rows \in [KeyNames -> KeyNames \cup {"none"}]
    BY <1>1, <2>1
  <2>3. db' = [keypairs |-> rows, hostkeys |-> db.hostkeys]
    BY <1>1, <1>3, <2>1
  <2> QED
    BY <1>1, <2>2, <2>3 DEF KeysDb
<1>4. ASSUME NEW t, NEW k \in {"pinned", "pending", "none"}, db' = [db EXCEPT !.hostkeys[t] = k]
      PROVE  db' \in KeysDb
  <2>1. PICK rows : rows = [db.hostkeys EXCEPT ![t] = k]
    OBVIOUS
  <2>2. rows \in [One -> {"pinned", "pending", "none"}]
    BY <1>1, <2>1
  <2>3. db' = [keypairs |-> db.keypairs, hostkeys |-> rows]
    BY <1>1, <1>4, <2>1
  <2> QED
    BY <1>1, <2>2, <2>3 DEF KeysDb
<1>5. PICK x \in Keys!Mutations : m[x].phase = "sent" /\ Keys!Executed(x, Undefined)
  BY DEF Keys!upsertSSHKeypair, Keys!deleteSSHKeypair, Keys!approveHostKeyOverride, Keys!deleteHostKey, Keys!Mutations
<1>6. KeysCalls(m') /\ KeysDraft(ui.kform, m')
  BY <1>5, KeysCallMoves
<1>7. UNCHANGED <<cache, ui>>
  BY DEF Keys!upsertSSHKeypair, Keys!deleteSSHKeypair, Keys!approveHostKeyOverride, Keys!deleteHostKey
<1>8. db' \in KeysDb
  <2>1. CASE Keys!upsertSSHKeypair
    <3>1. m["upload"].arg \in KeyForm
      BY <1>2, <2>1 DEF Keys!upsertSSHKeypair, KeysCalls, KeysCall, Keys!Mutations
    <3>2. m["upload"].arg.key \in KeyNames \cup {"none"}
      BY <3>1, KeyFormFields
    <3> QED
      BY <1>3, <2>1, <3>2 DEF Keys!upsertSSHKeypair
  <2>2. CASE Keys!deleteSSHKeypair
    BY <1>3, <2>2 DEF Keys!deleteSSHKeypair, Keys!None
  <2>3. CASE Keys!approveHostKeyOverride \/ Keys!deleteHostKey
    BY <1>4, <2>3 DEF Keys!approveHostKeyOverride, Keys!deleteHostKey
  <2> QED
    BY <2>1, <2>2, <2>3
<1> QED
  BY <1>2, <1>6, <1>7, <1>8 DEF KeysInv

(* The answer of an upload empties the form and closes it.                  *)
LEMMA KeysUploaded ==
  ASSUME KeysInv, Keys!uploadKeypair
  PROVE  KeysInv'
<1>1. /\ ui \in KeysPage /\ KeysView(ui)
      /\ ui = [can |-> ui.can, tab |-> ui.tab, kform |-> ui.kform, kmodal |-> ui.kmodal, reading |-> ui.reading,
               chosen |-> ui.chosen, overtaken |-> ui.overtaken, calls |-> ui.calls]
      /\ ui.can \in {"read", "write"} /\ ui.tab \in {"keypairs", "hostkeys"} /\ ui.kform \in KeyForm
      /\ ui.kmodal \in BOOLEAN /\ ui.reading \in SUBSET Things /\ ui.chosen \in Things \cup {"none"}
      /\ ui.overtaken \in BOOLEAN /\ ui.calls \in Nat
  BY KeysFields DEF KeysInv, KeysView
<1>2. ~ ui.overtaken => ui.reading \subseteq {ui.chosen}
  BY <1>1 DEF KeysView
<1>3. PICK f \in KeyForm : f = Keys!emptySSHKeypairForm
  BY EmptyKeyForm
<1>4. PICK k \in BOOLEAN : ~ k
  OBVIOUS
<1>5. KeysPageOf(ui', ui.can, ui.tab, f, k, ui.reading, ui.chosen, ui.overtaken, ui.calls)
  BY <1>1, <1>3, <1>4 DEF Keys!uploadKeypair, KeysPageOf
<1>6. KeysView(ui') /\ ui'.kform = f
  BY <1>1, <1>2, <1>4, <1>5, KeysViewOf
<1>7. Keys!Succeeded("upload") /\ UNCHANGED <<db, cache>>
  BY DEF Keys!uploadKeypair
<1>8. KeysCalls(m') /\ KeysDraft(f, m')
  BY <1>3, <1>7, KeysCallMoves DEF Keys!Mutations
<1> QED
  BY <1>6, <1>7, <1>8 DEF KeysInv

LEMMA KeysNext == KeysInv /\ Keys!Next => KeysInv'
<1> SUFFICES ASSUME KeysInv, Keys!Next PROVE KeysInv'
  OBVIOUS
<1>1. CASE \/ Keys!setActiveTab \/ Keys!openKeypairModal \/ Keys!closeKeypairModal \/ Keys!updateKeypairForm
           \/ \E f \in Things : Keys!readKeypairFile(f) \/ Keys!readerLoaded(f) \/ Keys!readerFailed(f)
  BY <1>1, KeysViewSteps
<1>2. CASE \/ Keys!submitKeypair \/ \E n \in KeyNames : Keys!deleteKeypair(n)
           \/ \E t \in One : Keys!approveHostKey(t) \/ Keys!deleteHostKeyRecord(t)
  BY <1>2, KeysOperatorCalls
<1>3. CASE \/ Keys!upsertSSHKeypair \/ Keys!deleteSSHKeypair \/ Keys!approveHostKeyOverride \/ Keys!deleteHostKey
  BY <1>3, KeysServerSteps
<1>4. CASE Keys!uploadKeypair
  BY <1>4, KeysUploaded
<1>5. ASSUME NEW x \in Keys!Mutations, Keys!listChanged(x) \/ Keys!MutationFailed(x) \/ Keys!Settle(x)
      PROVE  KeysInv'
  <2>1. (Keys!Succeeded(x) \/ Keys!Ended(x)) /\ UNCHANGED <<db, ui>>
    BY <1>5 DEF Keys!listChanged, Keys!MutationFailed, Keys!Settle
  <2>2. KeysCalls(m') /\ KeysDraft(ui.kform, m')
    BY <2>1, KeysCallMoves
  <2> QED
    BY <2>1, <2>2 DEF KeysInv
<1>6. CASE Keys!Load
  BY <1>6 DEF Keys!Load, KeysInv
<1>7. {"removeKey", "approve", "forget"} \subseteq Keys!Mutations
  BY DEF Keys!Mutations
<1> QED
  BY <1>1, <1>2, <1>3, <1>4, <1>5, <1>6, <1>7 DEF Keys!Next, KeyNames, Keys!Typed

LEMMA KeysSafe == KeysInv => Keys!TypeOK /\ Keys!KeyOfChosenFile
<1> SUFFICES ASSUME KeysInv PROVE Keys!TypeOK /\ Keys!KeyOfChosenFile
  OBVIOUS
<1>1. db \in KeysDb /\ KeysView(ui) /\ KeysCalls(m) /\ ui \in KeysPage
  BY DEF KeysInv, KeysView
<1>2. db.keypairs \in [KeyNames -> KeyNames \cup {"none"}] /\ db.hostkeys \in [One -> {"pinned", "pending", "none"}]
  BY <1>1 DEF KeysDb
<1>3. ui.kform \in KeyForm /\ ui.reading \subseteq Things
  BY <1>1, KeysFields
<1>4. DOMAIN m = Keys!Mutations
  BY <1>1 DEF KeysCalls, MutationCalls
<1>5. KeyNames \cup {"none"} = Things \cup {"typed", "none"}
  BY DEF KeyNames
<1>6. Keys!TypeOK
  BY <1>2, <1>3, <1>4, <1>5 DEF Keys!TypeOK, KeyForm, KeyNames, Keys!Typed, Keys!None
<1>7. Keys!KeyOfChosenFile
  BY <1>1 DEF KeysView, Keys!KeyOfChosenFile, Keys!None
<1> QED
  BY <1>6, <1>7

(* The answer of an upload discards what was uploaded, or came from a file. *)
LEMMA KeysSteps == KeysInv => Keys!KeypairDraftKept
BY DEF KeysInv, KeysDraft, Keys!KeypairDraftKept, Keys!Typed

-----------------------------------------------------------------------------
(* The OIDC settings page.                                                  *)

OidcRow == [enabled : BOOLEAN, url : 0..2, secret : 0..2, version : Nat]
OidcAnswer == [enabled : BOOLEAN, url : 0..2, version : Nat]
OidcForm == [enabled : BOOLEAN, url : 0..2, secret : 0..2]
OidcPayload == [enabled : BOOLEAN, url : 0..2, secret : (0..2) \cup {Undefined}]
OidcPage == [can : {"read", "write"},
             editor : [form : OidcForm, base : OidcAnswer \cup {Undefined}, touched : SUBSET Oidc!Fields],
             calls : Nat]

(* The fields of f that were not edited are those of the settings base; the *)
(* secret is then absent.                                                   *)
Unedited(f, base, touched, absent) ==
  /\ "secret" \notin touched => f.secret = absent
  /\ base # Undefined => /\ "enabled" \notin touched => f.enabled = base.enabled
                         /\ "url" \notin touched => f.url = base.url

OidcView(u) == u \in OidcPage /\ Unedited(u.editor.form, u.editor.base, u.editor.touched, 0)

OidcSave(c) ==
  /\ c.phase = "sent" => /\ c.arg.payload \in OidcPayload
                         /\ Unedited(c.arg.payload, c.arg.base, c.arg.touched, Undefined)
  /\ c.phase = "done" => c.ans \in OidcAnswer

OidcInv ==
  /\ db \in OidcRow /\ db.version <= MaxCalls /\ OidcView(ui)
  /\ MutationCalls(m, Oidc!Mutations) /\ OidcSave(m["save"])

LEMMA OidcFields ==
  ASSUME NEW u \in OidcPage
  PROVE  /\ u = [can |-> u.can, editor |-> u.editor, calls |-> u.calls]
         /\ u.can \in {"read", "write"} /\ u.calls \in Nat
         /\ u.editor = [form |-> u.editor.form, base |-> u.editor.base, touched |-> u.editor.touched]
         /\ u.editor.form \in OidcForm /\ u.editor.base \in OidcAnswer \cup {Undefined}
         /\ u.editor.touched \in SUBSET Oidc!Fields
BY DEF OidcPage

LEMMA OidcFormFields ==
  ASSUME NEW f \in OidcForm
  PROVE  /\ f = [enabled |-> f.enabled, url |-> f.url, secret |-> f.secret]
         /\ f.enabled \in BOOLEAN /\ f.url \in 0..2 /\ f.secret \in 0..2
BY DEF OidcForm

(* The page with these fields.                                              *)
OidcEditorOf(e, f, b, t) == e = [form |-> f, base |-> b, touched |-> t]

LEMMA OidcViewOf ==
  ASSUME NEW w \in {"read", "write"}, NEW f \in OidcForm, NEW b \in OidcAnswer \cup {Undefined},
         NEW t \in SUBSET Oidc!Fields, NEW n \in Nat, Unedited(f, b, t, 0),
         NEW e, OidcEditorOf(e, f, b, t), NEW u, u = [can |-> w, editor |-> e, calls |-> n]
  PROVE  OidcView(u) /\ u.editor.touched = t
<1>1. e \in [form : OidcForm, base : OidcAnswer \cup {Undefined}, touched : SUBSET Oidc!Fields]
      /\ e.form = f /\ e.base = b /\ e.touched = t
  BY DEF OidcEditorOf
<1>2. u \in OidcPage /\ u.editor = e
  BY <1>1 DEF OidcPage
<1> QED
  BY <1>1, <1>2 DEF OidcView

(* The form as it is set from settings that were loaded, or before.         *)
LEMMA OidcSet ==
  ASSUME NEW s \in OidcAnswer \cup {Undefined}
  PROVE  \E f \in OidcForm, t \in SUBSET Oidc!Fields :
            t = {} /\ OidcEditorOf(Oidc!setForm(s), f, s, t) /\ Unedited(f, s, t, 0)
<1>1. PICK f : f = Oidc!oidcSettingsToForm(s)
  OBVIOUS
<1>2. PICK t \in SUBSET Oidc!Fields : t = {}
  OBVIOUS
<1>3. OidcEditorOf(Oidc!setForm(s), f, s, t)
  BY <1>1, <1>2 DEF OidcEditorOf, Oidc!setForm
<1>4. CASE s = Undefined
  <2>1. f = [enabled |-> FALSE, url |-> 0, secret |-> 0]
    BY <1>1, <1>4 DEF Oidc!oidcSettingsToForm, Oidc!Empty
  <2>2. f \in OidcForm /\ f.secret = 0
    BY <2>1 DEF OidcForm
  <2>3. Unedited(f, s, t, 0)
    BY <1>4, <2>2 DEF Unedited
  <2> QED
    BY <1>2, <1>3, <2>2, <2>3
<1>5. CASE s # Undefined
  <2>1. s.enabled \in BOOLEAN /\ s.url \in 0..2
    BY <1>5 DEF OidcAnswer
  <2>2. f = [enabled |-> s.enabled, url |-> s.url, secret |-> 0]
    BY <1>1, <1>5 DEF Oidc!oidcSettingsToForm, Oidc!Empty
  <2>3. f \in OidcForm /\ f.secret = 0 /\ f.enabled = s.enabled /\ f.url = s.url
    BY <2>1, <2>2 DEF OidcForm
  <2>4. Unedited(f, s, t, 0)
    BY <2>3 DEF Unedited
  <2> QED
    BY <1>2, <1>3, <2>3, <2>4
<1> QED
  BY <1>4, <1>5

LEMMA OidcAnswered ==
  ASSUME NEW r \in OidcRow
  PROVE  Oidc!Answer(r) \in OidcAnswer /\ Oidc!Answer(r) # Undefined /\ r # Undefined
         /\ Oidc!Answer(r).enabled = r.enabled /\ Oidc!Answer(r).url = r.url
<1>1. r.enabled \in BOOLEAN /\ r.url \in 0..2 /\ r.version \in Nat
  BY DEF OidcRow
<1>2. Oidc!Answer(r) = [enabled |-> r.enabled, url |-> r.url, version |-> r.version]
  BY DEF Oidc!Answer
<1>3. Oidc!Answer(r) \in OidcAnswer /\ Oidc!Answer(r).enabled = r.enabled /\ Oidc!Answer(r).url = r.url
  BY <1>1, <1>2 DEF OidcAnswer
<1> QED
  BY <1>3, UndefinedAssumption DEF OidcRow, OidcAnswer

(* The form is set.                                                         *)
OidcFormIsSet(s) == ui' = [ui EXCEPT !.editor = Oidc!setForm(s)]

LEMMA OidcFormSet ==
  ASSUME OidcView(ui), NEW s \in OidcAnswer \cup {Undefined}, OidcFormIsSet(s)
  PROVE  OidcView(ui')
<1>1. PICK e : e = Oidc!setForm(s)
  OBVIOUS
<1>2. PICK f \in OidcForm, t \in SUBSET Oidc!Fields : OidcEditorOf(e, f, s, t) /\ Unedited(f, s, t, 0)
  BY <1>1, OidcSet
<1>3. ui \in OidcPage
  BY DEF OidcView
<1>4. /\ ui = [can |-> ui.can, editor |-> ui.editor, calls |-> ui.calls]
      /\ ui.can \in {"read", "write"} /\ ui.calls \in Nat
  BY <1>3, OidcFields
<1>5. ui' = [ui EXCEPT !.editor = e]
  BY <1>1 DEF OidcFormIsSet
<1>6. ui' = [can |-> ui.can, editor |-> e, calls |-> ui.calls]
  BY <1>4, <1>5
<1> QED
  BY <1>2, <1>4, <1>6, OidcViewOf

LEMMA OidcInit == Oidc!Init => OidcInv
<1> SUFFICES ASSUME Oidc!Init PROVE OidcInv
  OBVIOUS
<1>1. db \in OidcRow /\ db.version <= MaxCalls
  <2>1. db = [enabled |-> TRUE, url |-> 1, secret |-> 1, version |-> 0]
    BY DEF Oidc!Init
  <2>2. db \in OidcRow /\ db.version = 0
    BY <2>1 DEF OidcRow
  <2> QED
    BY <2>2, BoundsAssumption
<1>2. OidcView(ui)
  <2>1. PICK e : e = Oidc!setForm(Undefined)
    OBVIOUS
  <2>2. PICK f \in OidcForm, t \in SUBSET Oidc!Fields : OidcEditorOf(e, f, Undefined, t) /\ Unedited(f, Undefined, t, 0)
    BY <2>1, OidcSet
  <2>3. ui \in [can : {"read", "write"}, editor : {e}, calls : {0}]
    BY <2>1 DEF Oidc!Init
  <2>4. PICK w \in {"read", "write"} : ui = [can |-> w, editor |-> e, calls |-> 0]
    BY <2>3
  <2> QED
    BY <2>2, <2>4, OidcViewOf
<1>3. m = [x \in Oidc!Mutations |-> [phase |-> "idle", arg |-> Undefined, ans |-> Undefined]]
  BY DEF Oidc!Init, Oidc!Idle
<1>4. MutationCalls(m, Oidc!Mutations) /\ m["save"].phase = "idle"
  BY <1>3 DEF MutationCalls, Oidc!Mutations
<1> QED
  BY <1>1, <1>2, <1>4 DEF OidcInv, OidcSave

(* An input of the form changes one field, which then counts as edited.     *)
LEMMA OidcEdited ==
  ASSUME OidcView(ui), Oidc!updateForm
  PROVE  OidcView(ui') /\ ui'.editor.touched # {}
<1>1. /\ ui \in OidcPage /\ Unedited(ui.editor.form, ui.editor.base, ui.editor.touched, 0)
      /\ ui = [can |-> ui.can, editor |-> ui.editor, calls |-> ui.calls]
      /\ ui.can \in {"read", "write"} /\ ui.calls \in Nat
      /\ ui.editor = [form |-> ui.editor.form, base |-> ui.editor.base, touched |-> ui.editor.touched]
      /\ ui.editor.form \in OidcForm /\ ui.editor.base \in OidcAnswer \cup {Undefined}
      /\ ui.editor.touched \in SUBSET Oidc!Fields
  BY OidcFields DEF OidcView
<1>2. /\ ui.editor.form = [enabled |-> ui.editor.form.enabled, url |-> ui.editor.form.url,
                           secret |-> ui.editor.form.secret]
      /\ ui.editor.form.enabled \in BOOLEAN /\ ui.editor.form.url \in 0..2 /\ ui.editor.form.secret \in 0..2
  BY <1>1, OidcFormFields
<1>3. PICK f \in Oidc!Fields :
         ui' = [ui EXCEPT !.editor.touched = @ \cup {f},
                          !.editor.form[f] = CASE f = "enabled" -> ~@
                                               [] f = "url" -> IF @ = 2 THEN 0 ELSE 2
                                               [] f = "secret" -> IF @ = 2 THEN 0 ELSE 2]
  BY DEF Oidc!updateForm, Oidc!Empty
<1>4. PICK t \in SUBSET Oidc!Fields : t = ui.editor.touched \cup {f}
  BY <1>1
<1>5. PICK v : v = CASE f = "enabled" -> ~ ui.editor.form[f]
                     [] f = "url" -> IF ui.editor.form[f] = 2 THEN 0 ELSE 2
                     [] f = "secret" -> IF ui.editor.form[f] = 2 THEN 0 ELSE 2
  OBVIOUS
<1>6. PICK g : g = [ui.editor.form EXCEPT ![f] = v]
  OBVIOUS
<1>7. f = "enabled" \/ f = "url" \/ f = "secret"
  BY DEF Oidc!Fields
<1>8. g \in OidcForm /\ Unedited(g, ui.editor.base, t, 0)
  <2>1. CASE f = "enabled"
    <3>1. v = ~ ui.editor.form.enabled
      BY <1>5, <2>1
    <3>2. g = [enabled |-> v, url |-> ui.editor.form.url, secret |-> ui.editor.form.secret] /\ v \in BOOLEAN
      BY <1>2, <1>6, <2>1, <3>1
    <3>3. g \in OidcForm /\ g.url = ui.editor.form.url /\ g.secret = ui.editor.form.secret
      BY <1>2, <3>2 DEF OidcForm
    <3> QED
      BY <1>1, <1>4, <2>1, <3>3 DEF Unedited
  <2>2. CASE f = "url"
    <3>1. v \in 0..2
      BY <1>5, <2>2
    <3>2. g = [enabled |-> ui.editor.form.enabled, url |-> v, secret |-> ui.editor.form.secret]
      BY <1>2, <1>6, <2>2
    <3>3. g \in OidcForm /\ g.enabled = ui.editor.form.enabled /\ g.secret = ui.editor.form.secret
      BY <1>2, <3>1, <3>2 DEF OidcForm
    <3> QED
      BY <1>1, <1>4, <2>2, <3>3 DEF Unedited
  <2>3. CASE f = "secret"
    <3>1. v \in 0..2
      BY <1>5, <2>3
    <3>2. g = [enabled |-> ui.editor.form.enabled, url |-> ui.editor.form.url, secret |-> v]
      BY <1>2, <1>6, <2>3
    <3>3. g \in OidcForm /\ g.enabled = ui.editor.form.enabled /\ g.url = ui.editor.form.url
      BY <1>2, <3>1, <3>2 DEF OidcForm
    <3> QED
      BY <1>1, <1>4, <2>3, <3>3 DEF Unedited
  <2> QED
    BY <1>7, <2>1, <2>2, <2>3
<1>9. PICK e : e = [form |-> g, base |-> ui.editor.base, touched |-> t]
  OBVIOUS
<1>10. ui' = [can |-> ui.can, editor |-> e, calls |-> ui.calls]
  BY <1>1, <1>3, <1>4, <1>5, <1>6, <1>9
<1>11. OidcEditorOf(e, g, ui.editor.base, t)
  BY <1>9 DEF OidcEditorOf
<1>12. OidcView(ui') /\ ui'.editor.touched = t
  BY <1>1, <1>8, <1>10, <1>11, OidcViewOf
<1> QED
  BY <1>4, <1>12

LEMMA OidcCalled ==
  ASSUME OidcInv, Oidc!submitSettings \/ Oidc!runConnectionTest
  PROVE  OidcInv' /\ ui'.editor = ui.editor /\ m["save"].phase = "idle"
<1>1. /\ ui \in OidcPage /\ OidcView(ui) /\ MutationCalls(m, Oidc!Mutations) /\ OidcSave(m["save"])
      /\ Unedited(ui.editor.form, ui.editor.base, ui.editor.touched, 0)
      /\ ui = [can |-> ui.can, editor |-> ui.editor, calls |-> ui.calls]
      /\ ui.can \in {"read", "write"} /\ ui.calls \in Nat
      /\ ui.editor = [form |-> ui.editor.form, base |-> ui.editor.base, touched |-> ui.editor.touched]
      /\ ui.editor.form \in OidcForm /\ ui.editor.base \in OidcAnswer \cup {Undefined}
      /\ ui.editor.touched \in SUBSET Oidc!Fields
  BY OidcFields DEF OidcInv, OidcView
<1>2. /\ ui.editor.form.enabled \in BOOLEAN /\ ui.editor.form.url \in 0..2 /\ ui.editor.form.secret \in 0..2
  BY <1>1, OidcFormFields
<1>3. UNCHANGED <<db, cache>> /\ m["save"].phase = "idle" /\ ui' = [ui EXCEPT !.calls = ui.calls + 1]
  BY DEF Oidc!submitSettings, Oidc!runConnectionTest, Oidc!formActions, Oidc!saving, Oidc!isPending, Oidc!mutate
<1>4. OidcView(ui') /\ ui'.editor = ui.editor
  <2>1. PICK n \in Nat : n = ui.calls + 1
    BY <1>1
  <2>2. ui' = [can |-> ui.can, editor |-> ui.editor, calls |-> n]
    BY <1>1, <1>3, <2>1
  <2>3. OidcEditorOf(ui.editor, ui.editor.form, ui.editor.base, ui.editor.touched)
    BY <1>1 DEF OidcEditorOf
  <2>4. OidcView(ui')
    BY <1>1, <2>2, <2>3, OidcViewOf
  <2> QED
    BY <2>2, <2>4
<1>5. PICK load : load = Oidc!oidcFormToPayload(ui.editor.form)
  OBVIOUS
<1>6. MutationCalls(m', Oidc!Mutations) /\ OidcSave(m'["save"])
  <2>1. CASE Oidc!submitSettings
    <3>1. PICK sec : sec = IF ui.editor.form.secret = 0 THEN Undefined ELSE ui.editor.form.secret
      OBVIOUS
    <3>2. load = [enabled |-> ui.editor.form.enabled, url |-> ui.editor.form.url, secret |-> sec]
      BY <1>5, <3>1 DEF Oidc!oidcFormToPayload, Oidc!Empty
    <3>3. sec \in (0..2) \cup {Undefined} /\ (ui.editor.form.secret = 0 => sec = Undefined)
      BY <1>2, <3>1
    <3>4. /\ load \in OidcPayload /\ load.enabled = ui.editor.form.enabled
          /\ load.url = ui.editor.form.url /\ load.secret = sec
      BY <1>2, <3>2, <3>3 DEF OidcPayload
    <3>5. Unedited(load, ui.editor.base, ui.editor.touched, Undefined)
      BY <1>1, <3>3, <3>4 DEF Unedited
    <3>6. PICK arg : arg = [payload |-> load, base |-> ui.editor.base, touched |-> ui.editor.touched]
      OBVIOUS
    <3>7. arg.payload = load /\ arg.base = ui.editor.base /\ arg.touched = ui.editor.touched
      BY <3>6
    <3>8. CallSet("save", "sent", arg, Undefined)
      BY <1>5, <2>1, <3>6 DEF Oidc!submitSettings, Oidc!mutate, CallSet
    <3>9. MutationCalls(m', Oidc!Mutations) /\ m'["save"].phase = "sent" /\ m'["save"].arg = arg
      BY <1>1, <3>8, CallMade DEF Oidc!Mutations
    <3> QED
      BY <3>4, <3>5, <3>7, <3>9 DEF OidcSave
  <2>2. CASE Oidc!runConnectionTest
    <3>1. CallSet("test", "sent", load, Undefined)
      BY <1>5, <2>2 DEF Oidc!runConnectionTest, Oidc!mutate, CallSet
    <3>2. MutationCalls(m', Oidc!Mutations) /\ m'["save"] = m["save"]
      BY <1>1, <3>1, CallMade DEF Oidc!Mutations
    <3> QED
      BY <1>1, <3>2
  <2> QED
    BY <2>1, <2>2
<1>7. db \in OidcRow /\ db.version <= MaxCalls
  BY DEF OidcInv
<1> QED
  BY <1>3, <1>4, <1>6, <1>7 DEF OidcInv

(* The server saves what was sent.                                          *)
LEMMA OidcSaved ==
  ASSUME OidcInv, Oidc!updateOIDCSettings
  PROVE  /\ OidcInv' /\ db'.enabled = m["save"].arg.payload.enabled /\ db'.url = m["save"].arg.payload.url
         /\ db'.secret = IF m["save"].arg.payload.secret = Undefined THEN db.secret ELSE m["save"].arg.payload.secret
<1>1. /\ db \in OidcRow /\ db.version <= MaxCalls /\ OidcView(ui)
      /\ MutationCalls(m, Oidc!Mutations) /\ OidcSave(m["save"])
  BY DEF OidcInv
<1>2. PICK load : load = m["save"].arg.payload
  OBVIOUS
<1>3. load \in OidcPayload /\ db.version < MaxCalls /\ UNCHANGED <<cache, ui>>
  BY <1>1, <1>2 DEF Oidc!updateOIDCSettings, OidcSave, Oidc!MaxSaves
<1>4. PICK sec : sec = IF load.secret = Undefined THEN db.secret ELSE load.secret
  OBVIOUS
<1>5. load.enabled \in BOOLEAN /\ load.url \in 0..2 /\ sec \in 0..2 /\ db.version \in Nat
  BY <1>1, <1>3, <1>4 DEF OidcPayload, OidcRow
<1>6. PICK n \in Nat : n = db.version + 1 /\ n <= MaxCalls
  BY <1>3, <1>5, BoundsAssumption
<1>7. db' = [enabled |-> load.enabled, url |-> load.url, version |-> n, secret |-> sec]
  BY <1>2, <1>4, <1>6 DEF Oidc!updateOIDCSettings
<1>8. /\ db' \in OidcRow /\ db'.version = n /\ db'.enabled = load.enabled /\ db'.url = load.url /\ db'.secret = sec
  BY <1>5, <1>7 DEF OidcRow
<1>9. PICK ans : ans = Oidc!Answer(db')
  OBVIOUS
<1>10. ans \in OidcAnswer
  BY <1>8, <1>9, OidcAnswered
<1>11. CallAnswered("save", ans)
  BY <1>9 DEF Oidc!updateOIDCSettings, Oidc!Executed, CallAnswered
<1>12. MutationCalls(m', Oidc!Mutations) /\ m'["save"].phase = "done" /\ m'["save"].ans = ans
  BY <1>1, <1>11, CallExecuted DEF Oidc!Mutations
<1>13. OidcSave(m'["save"])
  BY <1>10, <1>12 DEF OidcSave
<1>14. OidcInv'
  BY <1>1, <1>3, <1>6, <1>8, <1>12, <1>13 DEF OidcInv
<1> QED
  BY <1>2, <1>4, <1>8, <1>14

(* A call is answered, or ends; or the test is executed.                    *)
LEMMA OidcCallEnds ==
  ASSUME OidcInv, NEW x \in Oidc!Mutations,
         Oidc!Succeeded(x) \/ Oidc!Ended(x) \/ (x = "test" /\ Oidc!Executed(x, Undefined))
  PROVE  /\ MutationCalls(m', Oidc!Mutations) /\ OidcSave(m'["save"])
         /\ m'["save"].phase = "done" => m["save"].phase = "done"
         /\ Oidc!Succeeded(x) => m'[x].phase = "settling"
<1>1. MutationCalls(m, Oidc!Mutations) /\ OidcSave(m["save"])
  BY DEF OidcInv
<1>2. Oidc!Succeeded(x) => /\ MutationCalls(m', Oidc!Mutations) /\ m'[x].phase = "settling"
                           /\ \A y \in Oidc!Mutations \ {x} : m'[y] = m[y]
  <2> SUFFICES ASSUME Oidc!Succeeded(x)
               PROVE  /\ MutationCalls(m', Oidc!Mutations) /\ m'[x].phase = "settling"
                      /\ \A y \in Oidc!Mutations \ {x} : m'[y] = m[y]
    OBVIOUS
  <2>1. CallMoved(x, "settling")
    BY DEF Oidc!Succeeded, CallMoved
  <2> QED
    BY <1>1, <2>1, CallGoesOn
<1>3. Oidc!Ended(x) => /\ MutationCalls(m', Oidc!Mutations) /\ m'[x].phase = "idle"
                       /\ \A y \in Oidc!Mutations \ {x} : m'[y] = m[y]
  <2> SUFFICES ASSUME Oidc!Ended(x)
               PROVE  /\ MutationCalls(m', Oidc!Mutations) /\ m'[x].phase = "idle"
                      /\ \A y \in Oidc!Mutations \ {x} : m'[y] = m[y]
    OBVIOUS
  <2>1. CallSet(x, "idle", Undefined, Undefined)
    BY DEF Oidc!Ended, Oidc!Idle, CallSet
  <2> QED
    BY <1>1, <2>1, CallMade
<1>4. x = "test" /\ Oidc!Executed(x, Undefined) => MutationCalls(m', Oidc!Mutations) /\ m'["save"] = m["save"]
  <2> SUFFICES ASSUME x = "test", Oidc!Executed(x, Undefined)
               PROVE  MutationCalls(m', Oidc!Mutations) /\ m'["save"] = m["save"]
    OBVIOUS
  <2>1. CallAnswered(x, Undefined)
    BY DEF Oidc!Executed, CallAnswered
  <2> QED
    BY <1>1, <2>1, CallExecuted DEF Oidc!Mutations
<1>5. /\ MutationCalls(m', Oidc!Mutations)
      /\ m'["save"].phase = "settling" \/ m'["save"].phase = "idle" \/ m'["save"] = m["save"]
  BY <1>2, <1>3, <1>4 DEF Oidc!Mutations
<1> QED
  BY <1>1, <1>2, <1>5 DEF OidcSave

(* The settings are loaded: the form is set if they are others.             *)
LEMMA OidcLoaded ==
  ASSUME OidcInv, cache' = db, Oidc!SettingsLoaded(Oidc!Answer(db))
  PROVE  /\ OidcView(ui')
         /\ \/ ui' = ui
            \/ cache' # Undefined /\ (cache = Undefined \/ Oidc!Answer(cache) # Oidc!Answer(cache'))
<1>1. db \in OidcRow /\ OidcView(ui)
  BY DEF OidcInv
<1>2. PICK s : s = Oidc!Answer(db)
  OBVIOUS
<1>3. s \in OidcAnswer /\ db # Undefined
  BY <1>1, <1>2, OidcAnswered
<1>4. CASE cache # Undefined /\ s = Oidc!Answer(cache)
  BY <1>1, <1>2, <1>4 DEF Oidc!SettingsLoaded
<1>5. CASE cache = Undefined \/ s # Oidc!Answer(cache)
  <2>1. OidcFormIsSet(s)
    BY <1>2, <1>5 DEF Oidc!SettingsLoaded, OidcFormIsSet
  <2>2. OidcView(ui')
    BY <1>1, <1>3, <2>1, OidcFormSet
  <2> QED
    BY <1>2, <1>3, <1>5, <2>2
<1> QED
  BY <1>4, <1>5

LEMMA OidcNext == OidcInv /\ Oidc!Next => OidcInv'
<1> SUFFICES ASSUME OidcInv, Oidc!Next PROVE OidcInv'
  OBVIOUS
<1>1. /\ db \in OidcRow /\ db.version <= MaxCalls /\ OidcView(ui)
      /\ MutationCalls(m, Oidc!Mutations) /\ OidcSave(m["save"])
  BY DEF OidcInv
<1>2. CASE Oidc!updateForm
  <2>1. OidcView(ui') /\ UNCHANGED <<db, m>>
    BY <1>1, <1>2, OidcEdited DEF Oidc!updateForm
  <2> QED
    BY <1>1, <2>1 DEF OidcInv
<1>3. CASE Oidc!submitSettings \/ Oidc!runConnectionTest
  BY <1>3, OidcCalled
<1>4. CASE Oidc!updateOIDCSettings
  BY <1>4, OidcSaved
<1>5. CASE Oidc!OtherSave
  <2>1. PICK on \in BOOLEAN : db' = [db EXCEPT !.enabled = on, !.version = @ + 1]
    BY <1>5 DEF Oidc!OtherSave
  <2>2. /\ db = [enabled |-> db.enabled, url |-> db.url, secret |-> db.secret, version |-> db.version]
        /\ db.url \in 0..2 /\ db.secret \in 0..2 /\ db.version \in Nat
    BY <1>1 DEF OidcRow
  <2>3. PICK n \in Nat : n = db.version + 1 /\ n <= MaxCalls
    BY <1>5, <2>2, BoundsAssumption DEF Oidc!OtherSave, Oidc!MaxSaves
  <2>4. db' = [enabled |-> on, url |-> db.url, secret |-> db.secret, version |-> n]
    BY <2>1, <2>2, <2>3
  <2>5. db' \in OidcRow /\ db'.version = n
    BY <2>2, <2>4 DEF OidcRow
  <2>6. UNCHANGED <<m, ui>>
    BY <1>5 DEF Oidc!OtherSave
  <2> QED
    BY <1>1, <2>3, <2>5, <2>6 DEF OidcInv
<1>6. CASE Oidc!saveSettings
  <2>1. Oidc!Succeeded("save") /\ UNCHANGED <<db, cache>> /\ OidcFormIsSet(m["save"].ans)
    BY <1>6 DEF Oidc!saveSettings, OidcFormIsSet
  <2>2. m["save"].ans \in OidcAnswer
    BY <1>1, <1>6 DEF Oidc!saveSettings, OidcSave
  <2>3. OidcView(ui')
    BY <1>1, <2>1, <2>2, OidcFormSet
  <2>4. MutationCalls(m', Oidc!Mutations) /\ OidcSave(m'["save"])
    BY <2>1, OidcCallEnds DEF Oidc!Mutations
  <2> QED
    BY <1>1, <2>1, <2>3, <2>4 DEF OidcInv
<1>7. CASE Oidc!getOIDCSettings
  <2>1. OidcView(ui') /\ UNCHANGED <<db, m>>
    BY <1>7, OidcLoaded DEF Oidc!getOIDCSettings
  <2> QED
    BY <1>1, <2>1 DEF OidcInv
<1>8. CASE Oidc!SaveSettled
  <2>1. OidcView(ui')
    BY <1>1, <1>8, OidcLoaded DEF Oidc!SaveSettled
  <2>2. Oidc!Ended("save") /\ UNCHANGED db
    BY <1>8 DEF Oidc!SaveSettled
  <2>3. MutationCalls(m', Oidc!Mutations) /\ OidcSave(m'["save"])
    BY <2>2, OidcCallEnds DEF Oidc!Mutations
  <2> QED
    BY <1>1, <2>1, <2>2, <2>3 DEF OidcInv
<1>9. ASSUME NEW x \in Oidc!Mutations, UNCHANGED <<db, ui>>,
             Oidc!Ended(x) \/ (x = "test" /\ Oidc!Executed(x, Undefined))
      PROVE  OidcInv'
  <2>1. MutationCalls(m', Oidc!Mutations) /\ OidcSave(m'["save"])
    BY <1>9, OidcCallEnds
  <2> QED
    BY <1>1, <1>9, <2>1 DEF OidcInv
<1>10. CASE Oidc!testOIDCSettings \/ Oidc!testConnection
  BY <1>9, <1>10 DEF Oidc!testOIDCSettings, Oidc!testConnection, Oidc!Mutations
<1>11. ASSUME NEW x \in Oidc!Mutations, Oidc!MutationFailed(x) PROVE OidcInv'
  BY <1>9, <1>11 DEF Oidc!MutationFailed
<1> QED
  BY <1>2, <1>3, <1>4, <1>5, <1>6, <1>7, <1>8, <1>10, <1>11 DEF Oidc!Next

LEMMA OidcSafe == OidcInv => Oidc!TypeOK
<1> SUFFICES ASSUME OidcInv PROVE Oidc!TypeOK
  OBVIOUS
<1>1. /\ db \in OidcRow /\ db.version <= MaxCalls /\ ui \in OidcPage /\ MutationCalls(m, Oidc!Mutations)
  BY DEF OidcInv, OidcView
<1>2. db.enabled \in BOOLEAN /\ db.url \in 0..2 /\ db.secret \in 0..2 /\ db.version \in Nat
  BY <1>1 DEF OidcRow
<1>3. db.version \in 0..MaxCalls
  BY <1>1, <1>2, BoundsAssumption
<1>4. ui.editor.form \in OidcForm /\ ui.editor.touched \subseteq Oidc!Fields
  BY <1>1, OidcFields
<1>5. ui.editor.form.enabled \in BOOLEAN /\ ui.editor.form.url \in 0..2 /\ ui.editor.form.secret \in 0..2
  BY <1>4, OidcFormFields
<1>6. DOMAIN m = Oidc!Mutations
  BY <1>1 DEF MutationCalls
<1> QED
  BY <1>2, <1>3, <1>4, <1>5, <1>6 DEF Oidc!TypeOK, Oidc!MaxSaves

(* Edits are discarded by a save or by other settings; a save changes what  *)
(* was edited.                                                              *)
LEMMA OidcSteps == OidcInv /\ Oidc!Next => Oidc!EditsDiscarded /\ Oidc!SaveChangesOnlyEdits
<1> SUFFICES ASSUME OidcInv, Oidc!Next PROVE Oidc!EditsDiscarded /\ Oidc!SaveChangesOnlyEdits
  OBVIOUS
<1>1. /\ db \in OidcRow /\ OidcView(ui) /\ MutationCalls(m, Oidc!Mutations) /\ OidcSave(m["save"])
  BY DEF OidcInv
<1>2. Oidc!EditsDiscarded
  <2> SUFFICES ASSUME ui.editor.touched # {}, ui'.editor.touched = {}
               PROVE  \/ m["save"].phase = "done" /\ m'["save"].phase = "settling"
                      \/ cache' # Undefined /\ (cache = Undefined \/ Oidc!Answer(cache) # Oidc!Answer(cache'))
    BY DEF Oidc!EditsDiscarded
  <2>1. CASE Oidc!saveSettings
    BY <2>1, OidcCallEnds DEF Oidc!saveSettings, Oidc!Mutations
  <2>2. CASE Oidc!updateForm
    BY <1>1, <2>2, OidcEdited
  <2>3. CASE Oidc!submitSettings \/ Oidc!runConnectionTest
    BY <2>3, OidcCalled
  <2>4. CASE Oidc!getOIDCSettings
    BY <2>4, OidcLoaded DEF Oidc!getOIDCSettings
  <2>5. CASE Oidc!SaveSettled
    BY <2>5, OidcLoaded DEF Oidc!SaveSettled
  <2>6. CASE \/ Oidc!updateOIDCSettings \/ Oidc!testOIDCSettings \/ Oidc!OtherSave \/ Oidc!testConnection
             \/ \E x \in Oidc!Mutations : Oidc!MutationFailed(x)
    <3>1. ui' = ui
      BY <2>6 DEF Oidc!updateOIDCSettings, Oidc!testOIDCSettings, Oidc!OtherSave, Oidc!testConnection,
         Oidc!MutationFailed
    <3> QED
      BY <3>1
  <2> QED
    BY <2>1, <2>2, <2>3, <2>4, <2>5, <2>6 DEF Oidc!Next
<1>3. Oidc!SaveChangesOnlyEdits
  <2> SUFFICES ASSUME m["save"].phase = "sent", m'["save"].phase = "done", m["save"].arg.base = Oidc!Answer(db),
                      NEW f \in Oidc!Fields \ m["save"].arg.touched
               PROVE  db'[f] = db[f]
    BY DEF Oidc!SaveChangesOnlyEdits
  <2>1. CASE Oidc!updateOIDCSettings
    <3>1. /\ db'.enabled = m["save"].arg.payload.enabled /\ db'.url = m["save"].arg.payload.url
          /\ db'.secret = IF m["save"].arg.payload.secret = Undefined THEN db.secret ELSE m["save"].arg.payload.secret
      BY <2>1, OidcSaved
    <3>2. Unedited(m["save"].arg.payload, m["save"].arg.base, m["save"].arg.touched, Undefined)
      BY <1>1 DEF OidcSave
    <3>3. m["save"].arg.base # Undefined /\ m["save"].arg.base.enabled = db.enabled /\ m["save"].arg.base.url = db.url
      BY <1>1, OidcAnswered
    <3>4. f = "enabled" \/ f = "url" \/ f = "secret"
      BY DEF Oidc!Fields
    <3>5. CASE f = "enabled"
      BY <3>1, <3>2, <3>3, <3>5 DEF Unedited
    <3>6. CASE f = "url"
      BY <3>1, <3>2, <3>3, <3>6 DEF Unedited
    <3>7. CASE f = "secret"
      BY <3>1, <3>2, <3>7 DEF Unedited
    <3> QED
      BY <3>4, <3>5, <3>6, <3>7
  <2>2. CASE UNCHANGED m
    BY <2>2
  <2>3. CASE Oidc!submitSettings \/ Oidc!runConnectionTest
    BY <2>3, OidcCalled
  <2>4. ASSUME NEW x \in Oidc!Mutations,
               Oidc!Succeeded(x) \/ Oidc!Ended(x) \/ (x = "test" /\ Oidc!Executed(x, Undefined))
        PROVE  FALSE
    BY <2>4, OidcCallEnds
  <2>5. CASE \/ Oidc!testOIDCSettings \/ Oidc!saveSettings \/ Oidc!testConnection \/ Oidc!SaveSettled
             \/ \E x \in Oidc!Mutations : Oidc!MutationFailed(x)
    BY <2>4, <2>5 DEF Oidc!testOIDCSettings, Oidc!saveSettings, Oidc!testConnection, Oidc!SaveSettled,
       Oidc!MutationFailed, Oidc!Mutations
  <2>6. CASE Oidc!updateForm \/ Oidc!OtherSave \/ Oidc!getOIDCSettings
    BY <2>2, <2>6 DEF Oidc!updateForm, Oidc!OtherSave, Oidc!getOIDCSettings
  <2> QED
    BY <2>1, <2>3, <2>5, <2>6 DEF Oidc!Next
<1> QED
  BY <1>2, <1>3

-----------------------------------------------------------------------------
(* The IAM page.                                                            *)

Linkable == Things \cup {"none"}
Matrix == [question : Linkable, asked : Linkable, resolving : SUBSET Things, result : Linkable]
IamPage == [can : {"read", "write"}, link : Linkable, view : {"capabilities", "directory"}, selected : Linkable,
            roleToBind : One \cup {"none"}, online : BOOLEAN, matrix : Matrix, calls : Nat]

(* Only the last question is in flight.                                     *)
LastQuestion(x) == x \in Matrix /\ x.resolving \subseteq {x.asked} /\ (x.result # "none" => x.result = x.asked)

IamView(u) == u \in IamPage /\ LastQuestion(u.matrix)

(* A call that did not wait names the user who was shown.                   *)
IamCall(c) ==
  /\ c.phase \in {"sent", "paused"} => c.arg.role \in One
  /\ c.phase = "sent" => c.arg.user \in Linkable /\ (c.arg.waited \/ c.arg.shown = c.arg.user)

IamCalls(n) == MutationCalls(n, Iam!Mutations) /\ \A x \in Iam!Mutations : IamCall(n[x])

IamInv == db \in [roles : [Things -> SUBSET One]] /\ IamView(ui) /\ IamCalls(m)

LEMMA IamFields ==
  ASSUME NEW u \in IamPage
  PROVE  /\ u = [can |-> u.can, link |-> u.link, view |-> u.view, selected |-> u.selected,
                 roleToBind |-> u.roleToBind, online |-> u.online, matrix |-> u.matrix, calls |-> u.calls]
         /\ u.can \in {"read", "write"} /\ u.link \in Linkable /\ u.view \in {"capabilities", "directory"}
         /\ u.selected \in Linkable /\ u.roleToBind \in One \cup {"none"} /\ u.online \in BOOLEAN
         /\ u.matrix \in Matrix /\ u.calls \in Nat
BY DEF IamPage

LEMMA MatrixFields ==
  ASSUME NEW x \in Matrix
  PROVE  /\ x = [question |-> x.question, asked |-> x.asked, resolving |-> x.resolving, result |-> x.result]
         /\ x.question \in Linkable /\ x.asked \in Linkable /\ x.resolving \in SUBSET Things /\ x.result \in Linkable
BY DEF Matrix

LEMMA NoQuestion == LastQuestion(Iam!NoMatrix)
<1>1. PICK r \in SUBSET Things : r = {}
  OBVIOUS
<1>2. Iam!NoMatrix = [question |-> "none", asked |-> "none", resolving |-> r, result |-> "none"]
  BY <1>1 DEF Iam!NoMatrix, Iam!None
<1> QED
  BY <1>1, <1>2 DEF LastQuestion, Matrix, Linkable

(* The page with these fields.                                              *)
IamPageOf(u, w, l, v, s, r, o, x, n) ==
  u = [can |-> w, link |-> l, view |-> v, selected |-> s, roleToBind |-> r, online |-> o, matrix |-> x, calls |-> n]

LEMMA IamViewOf ==
  ASSUME NEW w \in {"read", "write"}, NEW l \in Linkable, NEW v \in {"capabilities", "directory"}, NEW s \in Linkable,
         NEW r \in One \cup {"none"}, NEW o \in BOOLEAN, NEW x, LastQuestion(x), NEW n \in Nat,
         NEW u, IamPageOf(u, w, l, v, s, r, o, x, n)
  PROVE  IamView(u)
<1>1. x \in Matrix
  BY DEF LastQuestion
<1>2. u \in IamPage /\ u.matrix = x
  BY <1>1 DEF IamPage, IamPageOf
<1> QED
  BY <1>2 DEF IamView

LEMMA LinkAsks ==
  ASSUME NEW l \in Linkable
  PROVE  Iam!Linked(l).view \in {"capabilities", "directory"} /\ Iam!Linked(l).selected = l
BY DEF Iam!Linked

LEMMA IamInit == Iam!Init => IamInv
<1> SUFFICES ASSUME Iam!Init PROVE IamInv
  OBVIOUS
<1>1. db \in [roles : [Things -> SUBSET One]]
  BY DEF Iam!Init
<1>2. PICK w \in {"read", "write"}, l \in Linkable :
         ui = [can |-> w, link |-> l, view |-> Iam!Linked(l).view, selected |-> Iam!Linked(l).selected,
               roleToBind |-> "none", online |-> TRUE, matrix |-> Iam!NoMatrix, calls |-> 0]
  BY DEF Iam!Init, Linkable, Iam!None
<1>3. PICK v \in {"capabilities", "directory"}, o \in BOOLEAN : v = Iam!Linked(l).view /\ o = TRUE
  BY LinkAsks
<1>4. IamPageOf(ui, w, l, v, l, "none", o, Iam!NoMatrix, 0)
  BY <1>2, <1>3, LinkAsks DEF IamPageOf
<1>5. IamView(ui)
  BY <1>4, NoQuestion, IamViewOf
<1>6. m = [x \in Iam!Mutations |-> [phase |-> "idle", arg |-> Undefined, ans |-> Undefined]]
  BY DEF Iam!Init, Iam!Idle
<1>7. /\ MutationCalls(m, Iam!Mutations)
      /\ \A x \in Iam!Mutations : m[x].phase = "idle"
  BY <1>6 DEF MutationCalls
<1>8. IamCalls(m)
  BY <1>7 DEF IamCalls, IamCall
<1> QED
  BY <1>1, <1>5, <1>8 DEF IamInv

(* The operator looks around.                                               *)
LEMMA IamViewSteps ==
  ASSUME IamInv,
         \/ \E l \in Linkable : Iam!navigate(l)
         \/ Iam!setView \/ Iam!OnlineChanges
         \/ \E u \in Things : Iam!setSelectedUserID(u)
         \/ \E r \in One : Iam!setRoleToBind(r)
  PROVE  IamInv' /\ UNCHANGED <<db, m>>
<1>1. /\ ui \in IamPage /\ IamView(ui) /\ LastQuestion(ui.matrix)
      /\ ui = [can |-> ui.can, link |-> ui.link, view |-> ui.view, selected |-> ui.selected,
               roleToBind |-> ui.roleToBind, online |-> ui.online, matrix |-> ui.matrix, calls |-> ui.calls]
      /\ ui.can \in {"read", "write"} /\ ui.link \in Linkable /\ ui.view \in {"capabilities", "directory"}
      /\ ui.selected \in Linkable /\ ui.roleToBind \in One \cup {"none"} /\ ui.online \in BOOLEAN /\ ui.calls \in Nat
  BY IamFields DEF IamInv, IamView
<1>2. UNCHANGED <<db, m>>
  BY DEF Iam!navigate, Iam!setView, Iam!OnlineChanges, Iam!setSelectedUserID, Iam!setRoleToBind
<1>3. ASSUME NEW l \in Linkable, Iam!navigate(l) PROVE IamView(ui')
  <2>1. PICK v \in {"capabilities", "directory"} : v = Iam!Linked(l).view
    BY LinkAsks
  <2>2. PICK x : x = IF ui.view = v THEN ui.matrix ELSE Iam!NoMatrix
    OBVIOUS
  <2>3. LastQuestion(x)
    BY <1>1, <2>2, NoQuestion
  <2>4. IamPageOf(ui', ui.can, l, v, l, ui.roleToBind, ui.online, x, ui.calls)
    BY <1>1, <1>3, <2>1, <2>2, LinkAsks DEF Iam!navigate, IamPageOf
  <2> QED
    BY <1>1, <2>3, <2>4, IamViewOf
<1>4. ASSUME Iam!setView PROVE IamView(ui')
  <2>1. PICK v \in {"capabilities", "directory"} : ui' = [ui EXCEPT !.view = v, !.matrix = Iam!NoMatrix]
    BY <1>4 DEF Iam!setView
  <2>2. IamPageOf(ui', ui.can, ui.link, v, ui.selected, ui.roleToBind, ui.online, Iam!NoMatrix, ui.calls)
    BY <1>1, <2>1 DEF IamPageOf
  <2> QED
    BY <1>1, <2>2, NoQuestion, IamViewOf
<1>5. ASSUME Iam!OnlineChanges PROVE IamView(ui')
  <2>1. PICK o \in BOOLEAN : o = ~ ui.online
    OBVIOUS
  <2>2. IamPageOf(ui', ui.can, ui.link, ui.view, ui.selected, ui.roleToBind, o, ui.matrix, ui.calls)
    BY <1>1, <1>5, <2>1 DEF Iam!OnlineChanges, IamPageOf
  <2> QED
    BY <1>1, <2>2, IamViewOf
<1>6. ASSUME NEW u \in Things, Iam!setSelectedUserID(u) PROVE IamView(ui')
  <2>1. IamPageOf(ui', ui.can, ui.link, ui.view, u, ui.roleToBind, ui.online, ui.matrix, ui.calls)
    BY <1>1, <1>6 DEF Iam!setSelectedUserID, IamPageOf
  <2>2. u \in Linkable
    BY DEF Linkable
  <2> QED
    BY <1>1, <2>1, <2>2, IamViewOf
<1>7. ASSUME NEW r \in One, Iam!setRoleToBind(r) PROVE IamView(ui')
  <2>1. IamPageOf(ui', ui.can, ui.link, ui.view, ui.selected, r, ui.online, ui.matrix, ui.calls)
    BY <1>1, <1>7 DEF Iam!setRoleToBind, IamPageOf
  <2>2. r \in One \cup {"none"}
    OBVIOUS
  <2> QED
    BY <1>1, <2>1, <2>2, IamViewOf
<1>8. IamView(ui')
  BY <1>3, <1>4, <1>5, <1>6, <1>7
<1> QED
  BY <1>2, <1>8 DEF IamInv

(* The resolver of the capability view.                                     *)
LEMMA IamResolverSteps ==
  ASSUME IamInv,
         \/ Iam!submitResolve
         \/ \E u \in Things : Iam!setQuestion(u) \/ Iam!resolveAnswered(u) \/ Iam!resolveFailed(u)
  PROVE  IamInv' /\ UNCHANGED <<db, m>>
<1>1. /\ ui \in IamPage /\ IamView(ui) /\ LastQuestion(ui.matrix)
      /\ ui = [can |-> ui.can, link |-> ui.link, view |-> ui.view, selected |-> ui.selected,
               roleToBind |-> ui.roleToBind, online |-> ui.online, matrix |-> ui.matrix, calls |-> ui.calls]
      /\ ui.can \in {"read", "write"} /\ ui.link \in Linkable /\ ui.view \in {"capabilities", "directory"}
      /\ ui.selected \in Linkable /\ ui.roleToBind \in One \cup {"none"} /\ ui.online \in BOOLEAN /\ ui.calls \in Nat
  BY IamFields DEF IamInv, IamView
<1>2. /\ ui.matrix = [question |-> ui.matrix.question, asked |-> ui.matrix.asked,
                      resolving |-> ui.matrix.resolving, result |-> ui.matrix.result]
      /\ ui.matrix.question \in Linkable /\ ui.matrix.asked \in Linkable
      /\ ui.matrix.resolving \in SUBSET Things /\ ui.matrix.result \in Linkable
      /\ ui.matrix.resolving \subseteq {ui.matrix.asked} /\ (ui.matrix.result # "none" => ui.matrix.result = ui.matrix.asked)
  BY <1>1, MatrixFields DEF LastQuestion
<1>3. UNCHANGED <<db, m>>
  BY DEF Iam!submitResolve, Iam!setQuestion, Iam!resolveAnswered, Iam!resolveFailed
<1>4. ASSUME NEW q \in Linkable, NEW a \in Linkable, NEW s \in SUBSET Things, NEW r \in Linkable,
             s \subseteq {a}, r # "none" => r = a, NEW x, x = [question |-> q, asked |-> a, resolving |-> s, result |-> r],
             IamPageOf(ui', ui.can, ui.link, ui.view, ui.selected, ui.roleToBind, ui.online, x, ui.calls)
      PROVE  IamView(ui')
  <2>1. LastQuestion(x)
    BY <1>4 DEF LastQuestion, Matrix
  <2> QED
    BY <1>1, <1>4, <2>1, IamViewOf
<1>5. ASSUME Iam!submitResolve PROVE IamView(ui')
  <2>1. PICK q : q = ui.matrix.question
    OBVIOUS
  <2>2. PICK s \in SUBSET Things : s = {q}
    BY <1>2, <1>5, <2>1 DEF Iam!submitResolve, Linkable, Iam!None
  <2>3. PICK x : x = [question |-> q, asked |-> q, resolving |-> s, result |-> "none"]
    OBVIOUS
  <2>4. IamPageOf(ui', ui.can, ui.link, ui.view, ui.selected, ui.roleToBind, ui.online, x, ui.calls)
    <3>1. ui' = [ui EXCEPT !.matrix.asked = ui.matrix.question, !.matrix.result = "none",
                           !.matrix.resolving = @ \cup {ui.matrix.question}]
      BY <1>5 DEF Iam!submitResolve, Iam!None
    <3>2. ui.matrix.resolving \cup {ui.matrix.question} = s
      BY <1>5, <2>1, <2>2 DEF Iam!submitResolve
    <3> QED
      BY <1>1, <1>2, <2>1, <2>3, <3>1, <3>2 DEF IamPageOf
  <2>5. q \in Linkable /\ "none" \in Linkable /\ s \subseteq {q}
    BY <1>2, <2>1, <2>2 DEF Linkable
  <2> QED
    BY <1>4, <2>3, <2>4, <2>5
<1>6. ASSUME NEW u \in Things, Iam!setQuestion(u) PROVE IamView(ui')
  <2>1. PICK x : x = [question |-> u, asked |-> ui.matrix.asked, resolving |-> ui.matrix.resolving,
                      result |-> ui.matrix.result]
    OBVIOUS
  <2>2. IamPageOf(ui', ui.can, ui.link, ui.view, ui.selected, ui.roleToBind, ui.online, x, ui.calls)
    BY <1>1, <1>2, <1>6, <2>1 DEF Iam!setQuestion, IamPageOf
  <2>3. u \in Linkable
    BY DEF Linkable
  <2> QED
    BY <1>2, <1>4, <2>1, <2>2, <2>3
<1>7. ASSUME NEW u \in Things, Iam!resolveAnswered(u) PROVE IamView(ui')
  <2>1. PICK s \in SUBSET Things : s = ui.matrix.resolving \ {u}
    BY <1>2
  <2>2. PICK x : x = [question |-> ui.matrix.question, asked |-> ui.matrix.asked, resolving |-> s, result |-> u]
    OBVIOUS
  <2>3. IamPageOf(ui', ui.can, ui.link, ui.view, ui.selected, ui.roleToBind, ui.online, x, ui.calls)
    BY <1>1, <1>2, <1>7, <2>1, <2>2 DEF Iam!resolveAnswered, IamPageOf
  <2>4. u \in Linkable /\ u = ui.matrix.asked /\ s \subseteq {ui.matrix.asked}
    BY <1>2, <1>7, <2>1 DEF Iam!resolveAnswered, Linkable
  <2> QED
    BY <1>2, <1>4, <2>2, <2>3, <2>4
<1>8. ASSUME NEW u \in Things, Iam!resolveFailed(u) PROVE IamView(ui')
  <2>1. PICK s \in SUBSET Things : s = ui.matrix.resolving \ {u}
    BY <1>2
  <2>2. PICK x : x = [question |-> ui.matrix.question, asked |-> ui.matrix.asked, resolving |-> s,
                      result |-> ui.matrix.result]
    OBVIOUS
  <2>3. IamPageOf(ui', ui.can, ui.link, ui.view, ui.selected, ui.roleToBind, ui.online, x, ui.calls)
    BY <1>1, <1>2, <1>8, <2>1, <2>2 DEF Iam!resolveFailed, IamPageOf
  <2>4. s \subseteq {ui.matrix.asked}
    BY <1>2, <2>1
  <2> QED
    BY <1>2, <1>4, <2>2, <2>3, <2>4
<1>9. IamView(ui')
  BY <1>5, <1>6, <1>7, <1>8
<1> QED
  BY <1>3, <1>9 DEF IamInv

LEMMA IamCallChanged ==
  ASSUME NEW x \in Iam!Mutations, IamCalls(m), MutationCalls(m', Iam!Mutations),
         \A y \in Iam!Mutations \ {x} : m'[y] = m[y], IamCall(m'[x])
  PROVE  IamCalls(m')
BY DEF IamCalls

(* A call is made or waits for the network, and resumes.                    *)
LEMMA IamSent ==
  ASSUME IamInv, NEW x \in Iam!Mutations, NEW r \in One, NEW shown, NEW late \in BOOLEAN,
         Iam!mutationFn(x, shown, r, late), late \/ shown = ui.selected
  PROVE  IamCalls(m')
<1>1. IamCalls(m) /\ MutationCalls(m, Iam!Mutations) /\ ui.selected \in Linkable
  BY IamFields DEF IamInv, IamCalls, IamView
<1>2. PICK arg : arg = [shown |-> shown, user |-> ui.selected, role |-> r, waited |-> late]
  OBVIOUS
<1>3. arg.shown = shown /\ arg.user = ui.selected /\ arg.role = r /\ arg.waited = late
  BY <1>2
<1>4. CallSet(x, "sent", arg, Undefined)
  BY <1>2 DEF Iam!mutationFn, CallSet
<1>5. /\ MutationCalls(m', Iam!Mutations) /\ m'[x].phase = "sent" /\ m'[x].arg = arg
      /\ \A y \in Iam!Mutations \ {x} : m'[y] = m[y]
  BY <1>1, <1>4, CallMade
<1>6. IamCall(m'[x])
  BY <1>1, <1>3, <1>5 DEF IamCall
<1> QED
  BY <1>1, <1>5, <1>6, IamCallChanged

LEMMA IamRoleCalled ==
  ASSUME IamInv, NEW x \in Iam!Mutations, NEW r \in One, Iam!mutateRole(x, r)
  PROVE  IamInv' /\ db' = db
<1>1. /\ ui \in IamPage /\ IamView(ui) /\ LastQuestion(ui.matrix)
      /\ ui = [can |-> ui.can, link |-> ui.link, view |-> ui.view, selected |-> ui.selected,
               roleToBind |-> ui.roleToBind, online |-> ui.online, matrix |-> ui.matrix, calls |-> ui.calls]
      /\ ui.can \in {"read", "write"} /\ ui.link \in Linkable /\ ui.view \in {"capabilities", "directory"}
      /\ ui.selected \in Linkable /\ ui.roleToBind \in One \cup {"none"} /\ ui.online \in BOOLEAN /\ ui.calls \in Nat
  BY IamFields DEF IamInv, IamView
<1>2. IamCalls(m) /\ MutationCalls(m, Iam!Mutations)
  BY DEF IamInv, IamCalls
<1>3. IamView(ui')
  <2>1. PICK n \in Nat : n = ui.calls + 1
    BY <1>1
  <2>2. IamPageOf(ui', ui.can, ui.link, ui.view, ui.selected, ui.roleToBind, ui.online, ui.matrix, n)
    BY <1>1, <2>1 DEF Iam!mutateRole, IamPageOf
  <2> QED
    BY <1>1, <2>2, IamViewOf
<1>4. IamCalls(m')
  <2>1. CASE ui.online
    <3>1. PICK late \in BOOLEAN : late = FALSE
      OBVIOUS
    <3>2. Iam!mutationFn(x, ui.selected, r, late)
      BY <2>1, <3>1 DEF Iam!mutateRole
    <3> QED
      BY <3>1, <3>2, IamSent
  <2>2. CASE ~ ui.online
    <3>1. PICK arg : arg = [shown |-> ui.selected, user |-> "none", role |-> r, waited |-> TRUE]
      OBVIOUS
    <3>2. arg.role = r
      BY <3>1
    <3>3. CallSet(x, "paused", arg, Undefined)
      BY <2>2, <3>1 DEF Iam!mutateRole, CallSet, Iam!None
    <3>4. /\ MutationCalls(m', Iam!Mutations) /\ m'[x].phase = "paused" /\ m'[x].arg = arg
          /\ \A y \in Iam!Mutations \ {x} : m'[y] = m[y]
      BY <1>2, <3>3, CallMade
    <3>5. IamCall(m'[x])
      BY <3>2, <3>4 DEF IamCall
    <3> QED
      BY <1>2, <3>4, <3>5, IamCallChanged
  <2> QED
    BY <2>1, <2>2
<1>5. db' = db
  BY DEF Iam!mutateRole
<1> QED
  BY <1>3, <1>4, <1>5 DEF IamInv

(* A call is answered, or ends.                                             *)
LEMMA IamCallEnds ==
  ASSUME IamInv, NEW x \in Iam!Mutations, Iam!Succeeded(x) \/ Iam!Ended(x)
  PROVE  IamCalls(m')
<1>1. IamCalls(m) /\ MutationCalls(m, Iam!Mutations)
  BY DEF IamInv, IamCalls
<1>2. PICK p \in {"settling", "idle"} : /\ MutationCalls(m', Iam!Mutations) /\ m'[x].phase = p
                                        /\ \A y \in Iam!Mutations \ {x} : m'[y] = m[y]
  <2>1. CASE Iam!Succeeded(x)
    <3>1. CallMoved(x, "settling")
      BY <2>1 DEF Iam!Succeeded, CallMoved
    <3> QED
      BY <1>1, <3>1, CallGoesOn
  <2>2. CASE Iam!Ended(x)
    <3>1. CallSet(x, "idle", Undefined, Undefined)
      BY <2>2 DEF Iam!Ended, Iam!Idle, CallSet
    <3> QED
      BY <1>1, <3>1, CallMade
  <2> QED
    BY <2>1, <2>2
<1>3. IamCall(m'[x])
  BY <1>2 DEF IamCall
<1> QED
  BY <1>1, <1>2, <1>3, IamCallChanged

(* The server changes the roles of the user whom the call names.            *)
LEMMA IamServerSteps ==
  ASSUME IamInv, Iam!bindRoleToUser \/ Iam!unbindRoleFromUser
  PROVE  /\ IamInv'
         /\ \E x \in Iam!Mutations : /\ m[x].phase = "sent" /\ m'[x].phase = "done"
                                     /\ \A u \in Things : db'.roles[u] # db.roles[u] => u = m[x].arg.user
<1>1. IamCalls(m) /\ MutationCalls(m, Iam!Mutations) /\ IamView(ui)
  BY DEF IamInv, IamCalls
<1>2. db = [roles |-> db.roles] /\ db.roles \in [Things -> SUBSET One]
  BY DEF IamInv
<1>3. PICK x \in Iam!Mutations, s \in SUBSET One :
        /\ m[x].phase = "sent" /\ m[x].arg.user \in Things
        /\ db' = [db EXCEPT !.roles[m[x].arg.user] = s] /\ CallAnswered(x, Undefined) /\ UNCHANGED <<cache, ui>>
  <2>1. CASE Iam!bindRoleToUser
    <3>1. m["bind"].arg.user \in Things /\ m["bind"].arg.role \in One /\ m["bind"].phase = "sent"
      BY <1>1, <2>1 DEF Iam!bindRoleToUser, IamCalls, IamCall, Iam!Mutations, Linkable, Iam!None
    <3>2. PICK s \in SUBSET One : s = db.roles[m["bind"].arg.user] \cup {m["bind"].arg.role}
      BY <1>2, <3>1
    <3>3. db' = [db EXCEPT !.roles[m["bind"].arg.user] = s]
      BY <1>2, <2>1, <3>1, <3>2 DEF Iam!bindRoleToUser
    <3>4. CallAnswered("bind", Undefined) /\ UNCHANGED <<cache, ui>>
      BY <2>1 DEF Iam!bindRoleToUser, Iam!Executed, CallAnswered
    <3>5. "bind" \in Iam!Mutations
      BY DEF Iam!Mutations
    <3> QED
      BY <3>1, <3>3, <3>4, <3>5, Zenon
  <2>2. CASE Iam!unbindRoleFromUser
    <3>1. m["unbind"].arg.user \in Things /\ m["unbind"].phase = "sent"
      BY <1>1, <2>2 DEF Iam!unbindRoleFromUser, IamCalls, IamCall, Iam!Mutations, Linkable, Iam!None
    <3>2. PICK s \in SUBSET One : s = db.roles[m["unbind"].arg.user] \ {m["unbind"].arg.role}
      BY <1>2, <3>1
    <3>3. db' = [db EXCEPT !.roles[m["unbind"].arg.user] = s]
      BY <1>2, <2>2, <3>1, <3>2 DEF Iam!unbindRoleFromUser
    <3>4. CallAnswered("unbind", Undefined) /\ UNCHANGED <<cache, ui>>
      BY <2>2 DEF Iam!unbindRoleFromUser, Iam!Executed, CallAnswered
    <3>5. "unbind" \in Iam!Mutations
      BY DEF Iam!Mutations
    <3> QED
      BY <3>1, <3>3, <3>4, <3>5, Zenon
  <2> QED
    BY <2>1, <2>2
<1>4. PICK u : u = m[x].arg.user
  OBVIOUS
<1>5. PICK roles : roles = [db.roles EXCEPT ![u] = s]
  OBVIOUS
<1>6. /\ roles \in [Things -> SUBSET One] /\ \A v \in Things \ {u} : roles[v] = db.roles[v]
  BY <1>2, <1>5
<1>7. db' = [roles |-> roles]
  BY <1>2, <1>3, <1>4, <1>5
<1>8. db' \in [roles : [Things -> SUBSET One]] /\ db'.roles = roles
  BY <1>6, <1>7
<1>9. /\ MutationCalls(m', Iam!Mutations) /\ m'[x].phase = "done"
      /\ \A y \in Iam!Mutations \ {x} : m'[y] = m[y]
  BY <1>1, <1>3, CallExecuted
<1>10. IamCall(m'[x])
  BY <1>9 DEF IamCall
<1>11. IamCalls(m')
  BY <1>1, <1>9, <1>10, IamCallChanged
<1>12. IamInv'
  BY <1>1, <1>3, <1>8, <1>11 DEF IamInv
<1> QED
  BY <1>3, <1>4, <1>6, <1>8, <1>9, <1>12

(* A step of the page keeps the invariant and the roles, but for a binding. *)
LEMMA IamMoves ==
  ASSUME IamInv, Iam!Next, ~ (Iam!bindRoleToUser \/ Iam!unbindRoleFromUser)
  PROVE  IamInv' /\ db' = db
<1>1. /\ db \in [roles : [Things -> SUBSET One]] /\ IamView(ui) /\ IamCalls(m)
      /\ ui = [can |-> ui.can, link |-> ui.link, view |-> ui.view, selected |-> ui.selected,
               roleToBind |-> ui.roleToBind, online |-> ui.online, matrix |-> ui.matrix, calls |-> ui.calls]
      /\ ui.can \in {"read", "write"} /\ ui.link \in Linkable /\ ui.view \in {"capabilities", "directory"}
      /\ ui.selected \in Linkable /\ ui.roleToBind \in One \cup {"none"} /\ ui.online \in BOOLEAN /\ ui.calls \in Nat
      /\ LastQuestion(ui.matrix)
  BY IamFields DEF IamInv, IamView
<1>2. CASE \/ \E l \in Linkable : Iam!navigate(l)
           \/ Iam!setView \/ Iam!OnlineChanges
           \/ \E u \in Things : Iam!setSelectedUserID(u)
           \/ \E r \in One : Iam!setRoleToBind(r)
  BY <1>2, IamViewSteps
<1>3. CASE \/ Iam!submitResolve
           \/ \E u \in Things : Iam!setQuestion(u) \/ Iam!resolveAnswered(u) \/ Iam!resolveFailed(u)
  BY <1>3, IamResolverSteps
<1>4. CASE Iam!submitBindRole
  <2>1. ui.roleToBind \in One /\ Iam!mutateRole("bind", ui.roleToBind)
    BY <1>1, <1>4 DEF Iam!submitBindRole, Iam!None
  <2> QED
    BY <2>1, IamRoleCalled DEF Iam!Mutations
<1>5. ASSUME NEW r \in One, Iam!removeRole(r) PROVE IamInv' /\ db' = db
  BY <1>5, IamRoleCalled DEF Iam!removeRole, Iam!Mutations
<1>6. ASSUME NEW x \in Iam!Mutations, Iam!ResumePausedMutation(x) PROVE IamInv' /\ db' = db
  <2>1. PICK late \in BOOLEAN : late = TRUE
    OBVIOUS
  <2>2. Iam!mutationFn(x, m[x].arg.shown, m[x].arg.role, late) /\ UNCHANGED <<db, ui>>
    BY <1>6, <2>1 DEF Iam!ResumePausedMutation
  <2>3. m[x].arg.role \in One
    BY <1>1, <1>6 DEF Iam!ResumePausedMutation, IamCalls, IamCall
  <2>4. IamCalls(m')
    BY <2>1, <2>2, <2>3, IamSent
  <2> QED
    BY <1>1, <2>2, <2>4 DEF IamInv
<1>7. CASE Iam!bindRole
  <2>1. IamPageOf(ui', ui.can, ui.link, ui.view, ui.selected, "none", ui.online, ui.matrix, ui.calls)
    BY <1>1, <1>7 DEF Iam!bindRole, IamPageOf, Iam!None
  <2>2. IamView(ui')
    BY <1>1, <2>1, IamViewOf
  <2>3. Iam!Succeeded("bind") /\ UNCHANGED <<db, cache>>
    BY <1>7 DEF Iam!bindRole
  <2>4. IamCalls(m')
    BY <2>3, IamCallEnds DEF Iam!Mutations
  <2> QED
    BY <1>1, <2>2, <2>3, <2>4 DEF IamInv
<1>8. ASSUME NEW x \in Iam!Mutations, Iam!Succeeded(x) \/ Iam!Ended(x), UNCHANGED <<db, ui>>
      PROVE  IamInv' /\ db' = db
  <2>1. IamCalls(m')
    BY <1>8, IamCallEnds
  <2> QED
    BY <1>1, <1>8, <2>1 DEF IamInv
<1>9. CASE Iam!unbindRole
  BY <1>8, <1>9 DEF Iam!unbindRole, Iam!Mutations
<1>10. ASSUME NEW x \in Iam!Mutations, Iam!MutationFailed(x) \/ Iam!Settle(x) PROVE IamInv' /\ db' = db
  BY <1>8, <1>10 DEF Iam!MutationFailed, Iam!Settle
<1>11. CASE Iam!Load
  BY <1>1, <1>11 DEF Iam!Load, IamInv
<1> QED
  BY <1>2, <1>3, <1>4, <1>5, <1>6, <1>7, <1>9, <1>10, <1>11 DEF Iam!Next, Linkable, Iam!None

LEMMA IamNext == IamInv /\ Iam!Next => IamInv'
BY IamMoves, IamServerSteps

LEMMA IamSafe == IamInv => Iam!TypeOK /\ Iam!AnswerOfLastQuestion
<1> SUFFICES ASSUME IamInv PROVE Iam!TypeOK /\ Iam!AnswerOfLastQuestion
  OBVIOUS
<1>1. db.roles \in [Things -> SUBSET One] /\ ui \in IamPage /\ LastQuestion(ui.matrix) /\ IamCalls(m)
  BY DEF IamInv, IamView
<1>2. ui.selected \in Linkable /\ ui.roleToBind \in One \cup {"none"} /\ ui.matrix \in Matrix
  BY <1>1, IamFields
<1>3. ui.matrix.question \in Linkable /\ ui.matrix.resolving \subseteq Things
  BY <1>2, MatrixFields
<1>4. DOMAIN m = Iam!Mutations
  BY <1>1 DEF IamCalls, MutationCalls
<1>5. Iam!TypeOK
  BY <1>1, <1>2, <1>3, <1>4 DEF Iam!TypeOK, Linkable, Iam!None
<1>6. Iam!AnswerOfLastQuestion
  BY <1>1 DEF Iam!AnswerOfLastQuestion, LastQuestion, Iam!None
<1> QED
  BY <1>5, <1>6

(* A binding changes the user it was clicked at, unless it had to wait.     *)
LEMMA IamSteps == IamInv /\ Iam!Next => Iam!BindsShownUser
<1> SUFFICES ASSUME IamInv, Iam!Next, NEW u \in Things, db.roles[u] # db'.roles[u]
             PROVE  \E x \in Iam!Mutations : /\ m[x].phase = "sent" /\ m'[x].phase = "done"
                                             /\ m[x].arg.shown = u \/ m[x].arg.waited
  BY DEF Iam!BindsShownUser
<1>1. Iam!bindRoleToUser \/ Iam!unbindRoleFromUser
  BY IamMoves
<1>2. PICK x \in Iam!Mutations : /\ m[x].phase = "sent" /\ m'[x].phase = "done"
                                 /\ \A v \in Things : db'.roles[v] # db.roles[v] => v = m[x].arg.user
  BY <1>1, IamServerSteps
<1>3. m[x].arg.shown = u \/ m[x].arg.waited
  BY <1>2 DEF IamInv, IamCalls, IamCall
<1> QED
  BY <1>2, <1>3

-----------------------------------------------------------------------------
(* The connection and probe tabs of the CMDB page.                          *)

ProfileCall == [id : Nat, x : Profiles!Mutations, asset : Things, phase : {"sent", "done", "settling"},
                ans : Nat, observed : BOOLEAN, mounted : BOOLEAN]

ProfilePage == [can : {"read", "write"}, selected : Things \cup {"none"},
                tab : {"summary", "connection", "probe"}, editor : Editor, calls : Nat]

ProfileData(d, k) ==
  /\ d = [proxy |-> d.proxy, profile |-> d.profile] /\ d.profile \in [Things -> Nat]
  /\ k = [proxy |-> k.proxy, profile |-> k.profile] /\ k.profile \in [Things -> Nat]

(* The page u over the profiles w that it has: an open editor is that of    *)
(* the selected asset and was set from what the page has of it.             *)
ProfileEditor(u, w) ==
  /\ u \in ProfilePage /\ u.calls <= MaxCalls
  /\ u.editor.open => u.selected \in Things /\ u.editor.base = w[u.selected]

(* The calls under way after k have been made: each has its own number.     *)
ProfileCalls(n, k) ==
  /\ n \subseteq ProfileCall /\ \A c \in n : c.id < k
  /\ \A c, d \in n : c.id = d.id => c = d

(* The calls that the server has yet to execute.                            *)
SentIds(n) == {c.id : c \in {e \in n : e.phase = "sent"}}

(* A call writes one version of a profile at most, and only while it is     *)
(* sent: with two versions for the first and the background write, those    *)
(* that the calls can still write are accounted for.  What the page has,    *)
(* and what it is answered, the server has written.                         *)
ProfileVersions(n, v, w, k) ==
  /\ \A a \in Things : w[a] <= v[a] /\ v[a] + Cardinality(SentIds(n)) <= k + 2
  /\ \A c \in n : c.ans <= v[c.asset]

ProfilesInv ==
  /\ ProfileData(db, cache) /\ ProfileEditor(ui, cache.profile)
  /\ ProfileCalls(m, ui.calls) /\ ProfileVersions(m, db.profile, cache.profile, ui.calls)

LEMMA ProfilesInit == Profiles!Init => ProfilesInv
<1> SUFFICES ASSUME Profiles!Init PROVE ProfilesInv
  OBVIOUS
<1>1. PICK v \in {0, 1} : \E p, q : /\ q = [a \in Things |-> v] /\ db = [proxy |-> p, profile |-> q]
                                    /\ cache = [proxy |-> p, profile |-> [a \in Things |-> 0]]
  <2>1. db \in [proxy : [Things -> {FALSE}], profile : {[a \in Things |-> v] : v \in {0, 1}}]
    BY DEF Profiles!Init
  <2>2. PICK p \in [Things -> {FALSE}], q \in {[a \in Things |-> v] : v \in {0, 1}} :
           db = [proxy |-> p, profile |-> q]
    BY <2>1
  <2>3. PICK v \in {0, 1} : q = [a \in Things |-> v]
    OBVIOUS
  <2>4. db.proxy = p /\ cache = [proxy |-> db.proxy, profile |-> [a \in Things |-> 0]]
    BY <2>2 DEF Profiles!Init
  <2> QED
    BY <2>2, <2>3, <2>4
<1>2. /\ db.profile = [a \in Things |-> v] /\ cache.profile = [a \in Things |-> 0]
      /\ \A a \in Things : db.profile[a] = v /\ cache.profile[a] = 0
  BY <1>1
<1>3. ProfileData(db, cache)
  BY <1>1, <1>2 DEF ProfileData
<1>4. PICK r \in {"read", "write"} :
         ui = [can |-> r, selected |-> "none", tab |-> "summary",
               editor |-> [open |-> FALSE, base |-> 0], calls |-> 0]
  BY DEF Profiles!Init, Profiles!None, Profiles!NoEditor
<1>5. ui \in ProfilePage /\ ui.calls = 0 /\ ~ ui.editor.open
  BY <1>4 DEF ProfilePage, Editor
<1>6. ProfileEditor(ui, cache.profile)
  BY <1>5, BoundsAssumption DEF ProfileEditor
<1>7. m = {} /\ SentIds(m) = {}
  BY DEF Profiles!Init, SentIds
<1>8. ProfileCalls(m, ui.calls)
  BY <1>7 DEF ProfileCalls
<1>9. ProfileVersions(m, db.profile, cache.profile, ui.calls)
  BY <1>2, <1>5, <1>7, FS_EmptySet DEF ProfileVersions
<1> QED
  BY <1>3, <1>6, <1>8, <1>9 DEF ProfilesInv

(* A call and its fields.                                                   *)
LEMMA ProfileCallFields ==
  ASSUME NEW c \in ProfileCall
  PROVE  /\ c = [id |-> c.id, x |-> c.x, asset |-> c.asset, phase |-> c.phase, ans |-> c.ans,
                 observed |-> c.observed, mounted |-> c.mounted]
         /\ c.id \in Nat /\ c.x \in Profiles!Mutations /\ c.asset \in Things /\ c.ans \in Nat
         /\ c.phase \in {"sent", "done", "settling"} /\ c.observed \in BOOLEAN /\ c.mounted \in BOOLEAN
BY DEF ProfileCall

(* A call that is no longer observed, or has lost its component.            *)
LEMMA CallLeft ==
  ASSUME NEW c \in ProfileCall
  PROVE  \A d \in {[c EXCEPT !.observed = FALSE], [c EXCEPT !.mounted = FALSE]} :
            d \in ProfileCall /\ d.id = c.id /\ d.asset = c.asset /\ d.phase = c.phase /\ d.ans = c.ans
<1>1. /\ c = [id |-> c.id, x |-> c.x, asset |-> c.asset, phase |-> c.phase, ans |-> c.ans,
              observed |-> c.observed, mounted |-> c.mounted]
      /\ c.id \in Nat /\ c.x \in Profiles!Mutations /\ c.asset \in Things /\ c.ans \in Nat
      /\ c.phase \in {"sent", "done", "settling"} /\ c.observed \in BOOLEAN /\ c.mounted \in BOOLEAN
  BY ProfileCallFields
<1>2. ASSUME NEW d, d = [c EXCEPT !.observed = FALSE]
      PROVE  d \in ProfileCall /\ d.id = c.id /\ d.asset = c.asset /\ d.phase = c.phase /\ d.ans = c.ans
  <2>1. d.id = c.id /\ d.asset = c.asset /\ d.phase = c.phase /\ d.ans = c.ans
    BY <1>1, <1>2
  <2>2. d \in ProfileCall
    BY <1>1, <1>2 DEF ProfileCall
  <2> QED
    BY <2>1, <2>2
<1>3. ASSUME NEW d, d = [c EXCEPT !.mounted = FALSE]
      PROVE  d \in ProfileCall /\ d.id = c.id /\ d.asset = c.asset /\ d.phase = c.phase /\ d.ans = c.ans
  <2>1. d.id = c.id /\ d.asset = c.asset /\ d.phase = c.phase /\ d.ans = c.ans
    BY <1>1, <1>3
  <2>2. d \in ProfileCall
    BY <1>1, <1>3 DEF ProfileCall
  <2> QED
    BY <2>1, <2>2
<1> QED
  BY <1>2, <1>3

(* The page and its fields.                                                 *)
LEMMA ProfileFields ==
  ASSUME NEW u \in ProfilePage
  PROVE  /\ u = [can |-> u.can, selected |-> u.selected, tab |-> u.tab, editor |-> u.editor, calls |-> u.calls]
         /\ u.can \in {"read", "write"} /\ u.selected \in Things \cup {"none"}
         /\ u.tab \in {"summary", "connection", "probe"} /\ u.editor \in Editor /\ u.calls \in Nat
BY DEF ProfilePage

(* The calls that the server has yet to execute are finitely many.          *)
LEMMA SentFinite ==
  ASSUME NEW n, NEW k \in Nat, ProfileCalls(n, k)
  PROVE  /\ IsFiniteSet(SentIds(n)) /\ Cardinality(SentIds(n)) \in Nat /\ Cardinality(SentIds(n)) <= k
         /\ k \notin SentIds(n)
<1>1. SentIds(n) \subseteq 0..(k - 1) /\ k \notin SentIds(n)
  BY ProfileCallFields DEF ProfileCalls, SentIds
<1>2. IsFiniteSet(0..(k - 1)) /\ Cardinality(0..(k - 1)) = k
  <2>1. k = 0 => 0..(k - 1) = {}
    OBVIOUS
  <2> QED
    BY <2>1, FS_Interval, FS_EmptySet
<1>3. IsFiniteSet(SentIds(n)) /\ Cardinality(SentIds(n)) <= k
  BY <1>1, <1>2, FS_Subset
<1> QED
  BY <1>1, <1>3, FS_CardinalityType

(* Calls that are no longer observed, or lose their component, are the same *)
(* calls.                                                                   *)
LEMMA SameCalls ==
  ASSUME NEW n, NEW k, ProfileCalls(n, k), NEW f, NEW l, l = {f[c] : c \in n},
         \A c \in n : /\ f[c] \in ProfileCall /\ f[c].id = c.id /\ f[c].asset = c.asset
                      /\ f[c].phase = c.phase /\ f[c].ans = c.ans
  PROVE  /\ ProfileCalls(l, k)
         /\ \A v, w : ProfileVersions(n, v, w, k) => ProfileVersions(l, v, w, k)
<1>1. \A d \in l : \E c \in n : d = f[c]
  OBVIOUS
<1>2. ProfileCalls(l, k)
  BY <1>1 DEF ProfileCalls
<1>3. SentIds(l) = SentIds(n)
  BY DEF SentIds
<1>4. \A d \in l : \E c \in n : d.ans = c.ans /\ d.asset = c.asset
  BY <1>1
<1> QED
  BY <1>2, <1>3, <1>4 DEF ProfileVersions

(* resetCalls and unmounted do so.                                          *)
LEMMA ResetCalls ==
  ASSUME NEW n, NEW k, ProfileCalls(n, k), NEW xs
  PROVE  /\ ProfileCalls(Profiles!resetCalls(xs, n), k)
         /\ \A v, w : ProfileVersions(n, v, w, k) => ProfileVersions(Profiles!resetCalls(xs, n), v, w, k)
<1>1. PICK f : f = [c \in n |-> IF c.x \in xs THEN [c EXCEPT !.observed = FALSE] ELSE c]
  OBVIOUS
<1>2. Profiles!resetCalls(xs, n) = {f[c] : c \in n}
  BY <1>1 DEF Profiles!resetCalls
<1>3. ASSUME NEW c \in n
      PROVE  /\ f[c] \in ProfileCall /\ f[c].id = c.id /\ f[c].asset = c.asset
             /\ f[c].phase = c.phase /\ f[c].ans = c.ans
  <2>1. c \in ProfileCall
    BY DEF ProfileCalls
  <2>2. CASE c.x \notin xs
    BY <1>1, <2>1, <2>2
  <2>3. CASE c.x \in xs
    <3>1. f[c] = [c EXCEPT !.observed = FALSE]
      BY <1>1, <2>3
    <3> QED
      BY <2>1, <3>1, CallLeft
  <2> QED
    BY <2>2, <2>3
<1> QED
  BY <1>2, <1>3, SameCalls

LEMMA UnmountedProfileCalls ==
  ASSUME NEW n, NEW k, ProfileCalls(n, k)
  PROVE  /\ ProfileCalls(Profiles!unmounted(n), k)
         /\ \A v, w : ProfileVersions(n, v, w, k) => ProfileVersions(Profiles!unmounted(n), v, w, k)
<1>1. PICK f : f = [c \in n |-> [c EXCEPT !.mounted = FALSE]]
  OBVIOUS
<1>2. Profiles!unmounted(n) = {f[c] : c \in n}
  BY <1>1 DEF Profiles!unmounted
<1>3. ASSUME NEW c \in n
      PROVE  /\ f[c] \in ProfileCall /\ f[c].id = c.id /\ f[c].asset = c.asset
             /\ f[c].phase = c.phase /\ f[c].ans = c.ans
  <2>1. c \in ProfileCall
    BY DEF ProfileCalls
  <2>2. f[c] = [c EXCEPT !.mounted = FALSE]
    BY <1>1
  <2> QED
    BY <2>1, <2>2, CallLeft
<1> QED
  BY <1>2, <1>3, SameCalls

(* Calls that have ended are gone; those whose answer has arrived wait for  *)
(* the queries.                                                             *)
LEMMA CallsLeft ==
  ASSUME NEW n, NEW k \in Nat, ProfileCalls(n, k), NEW c \in n, NEW l,
         l = n \ {c} \/ l = (n \ {c}) \cup {[c EXCEPT !.phase = "settling"]}
  PROVE  /\ ProfileCalls(l, k)
         /\ \A v \in [Things -> Nat] : \A w : ProfileVersions(n, v, w, k) => ProfileVersions(l, v, w, k)
<1>1. c \in ProfileCall
  BY DEF ProfileCalls
<1>2. PICK e : e = [c EXCEPT !.phase = "settling"]
  OBVIOUS
<1>3. e \in ProfileCall /\ e.id = c.id /\ e.asset = c.asset /\ e.ans = c.ans /\ e.phase = "settling"
  <2>1. /\ c = [id |-> c.id, x |-> c.x, asset |-> c.asset, phase |-> c.phase, ans |-> c.ans,
                observed |-> c.observed, mounted |-> c.mounted]
        /\ c.id \in Nat /\ c.x \in Profiles!Mutations /\ c.asset \in Things /\ c.ans \in Nat
        /\ c.observed \in BOOLEAN /\ c.mounted \in BOOLEAN
    BY <1>1, ProfileCallFields
  <2>2. e.id = c.id /\ e.asset = c.asset /\ e.ans = c.ans /\ e.phase = "settling"
    BY <1>2, <2>1
  <2>3. e \in ProfileCall
    BY <1>2, <2>1 DEF ProfileCall
  <2> QED
    BY <2>2, <2>3
<1>4. l \subseteq (n \ {c}) \cup {e}
  BY <1>2
<1>5. ProfileCalls(l, k)
  BY <1>3, <1>4 DEF ProfileCalls
<1>6. SentIds(l) \subseteq SentIds(n)
  BY <1>3, <1>4 DEF SentIds
<1>7. Cardinality(SentIds(l)) <= Cardinality(SentIds(n))
  BY <1>6, SentFinite, FS_Subset
<1>8. \A d \in l : \E b \in n : d.ans = b.ans /\ d.asset = b.asset
  BY <1>3, <1>4
<1>9. Cardinality(SentIds(l)) \in Nat /\ Cardinality(SentIds(n)) \in Nat
  BY <1>5, SentFinite
<1>10. ASSUME NEW v \in [Things -> Nat], NEW w, ProfileVersions(n, v, w, k)
       PROVE  ProfileVersions(l, v, w, k)
  <2>1. ASSUME NEW a \in Things
        PROVE  w[a] <= v[a] /\ v[a] + Cardinality(SentIds(l)) <= k + 2
    <3>1. v[a] \in Nat /\ w[a] <= v[a] /\ v[a] + Cardinality(SentIds(n)) <= k + 2
      BY <1>10 DEF ProfileVersions
    <3> QED
      BY <1>7, <1>9, <3>1
  <2>2. \A d \in l : d.ans <= v[d.asset]
    BY <1>8, <1>10 DEF ProfileVersions
  <2> QED
    BY <2>1, <2>2 DEF ProfileVersions
<1> QED
  BY <1>5, <1>10

(* A mutation is called for an asset.                                       *)
LEMMA ProfileCalled ==
  ASSUME ProfilesInv, NEW x \in Profiles!Mutations, NEW a \in Things, Profiles!mutate(x, a)
  PROVE  ProfilesInv'
<1>1. PICK k \in Nat : k = ui.calls /\ ui \in ProfilePage
  BY ProfileFields DEF ProfilesInv, ProfileEditor
<1>2. PICK l : l = Profiles!resetCalls({x}, m)
  OBVIOUS
<1>3. ProfileCalls(l, k) /\ ProfileVersions(l, db.profile, cache.profile, k)
  BY <1>1, <1>2, ResetCalls DEF ProfilesInv
<1>4. PICK e : e = [id |-> k, x |-> x, asset |-> a, phase |-> "sent", ans |-> 0,
                    observed |-> TRUE, mounted |-> TRUE]
  OBVIOUS
<1>5. k < MaxCalls /\ m' = l \cup {e} /\ ui' = [ui EXCEPT !.calls = k + 1] /\ UNCHANGED <<db, cache>>
  BY <1>1, <1>2, <1>4 DEF Profiles!mutate
<1>6. e \in ProfileCall /\ e.id = k /\ e.asset = a /\ e.phase = "sent" /\ e.ans = 0
  BY <1>4 DEF ProfileCall
<1>7. PICK j \in Nat : j = k + 1 /\ j <= MaxCalls
  BY <1>5, BoundsAssumption
<1>8. ui' \in ProfilePage /\ ui'.calls = j /\ ui'.editor = ui.editor /\ ui'.selected = ui.selected
  <2>1. /\ ui = [can |-> ui.can, selected |-> ui.selected, tab |-> ui.tab, editor |-> ui.editor, calls |-> ui.calls]
        /\ ui.can \in {"read", "write"} /\ ui.selected \in Things \cup {"none"}
        /\ ui.tab \in {"summary", "connection", "probe"} /\ ui.editor \in Editor
    BY <1>1, ProfileFields
  <2>2. ui' = [can |-> ui.can, selected |-> ui.selected, tab |-> ui.tab, editor |-> ui.editor, calls |-> j]
    BY <1>5, <1>7, <2>1
  <2> QED
    BY <2>1, <2>2 DEF ProfilePage
<1>9. ProfileEditor(ui', cache'.profile) /\ ProfileData(db', cache')
  BY <1>5, <1>7, <1>8 DEF ProfilesInv, ProfileEditor, ProfileData
<1>10. /\ l \subseteq ProfileCall /\ \A c \in l : c.id \in Nat /\ c.id < k
       /\ \A c, d \in l : c.id = d.id => c = d
  BY <1>3, ProfileCallFields DEF ProfileCalls
<1>11. ProfileCalls(m', j)
  <2>1. \A c \in m' : c.id < j
    BY <1>5, <1>6, <1>7, <1>10
  <2>2. \A c, d \in m' : c.id = d.id => c = d
    BY <1>5, <1>6, <1>7, <1>10
  <2> QED
    BY <1>5, <1>6, <1>10, <2>1, <2>2 DEF ProfileCalls
<1>12. SentIds(m') = SentIds(l) \cup {k}
  BY <1>5, <1>6 DEF SentIds
<1>13. Cardinality(SentIds(m')) = Cardinality(SentIds(l)) + 1 /\ Cardinality(SentIds(l)) \in Nat
  BY <1>3, <1>12, SentFinite, FS_AddElement
<1>14. ProfileVersions(m', db'.profile, cache'.profile, j)
  <2>1. ASSUME NEW b \in Things
        PROVE  cache.profile[b] <= db.profile[b] /\ db.profile[b] + Cardinality(SentIds(m')) <= j + 2
    <3>1. db.profile[b] \in Nat /\ cache.profile[b] <= db.profile[b]
          /\ db.profile[b] + Cardinality(SentIds(l)) <= k + 2
      BY <1>3 DEF ProfileVersions, ProfilesInv, ProfileData
    <3> QED
      BY <1>7, <1>13, <3>1
  <2>2. db.profile[a] \in Nat
    BY DEF ProfilesInv, ProfileData
  <2>3. \A c \in m' : c.ans <= db.profile[c.asset]
    BY <1>3, <1>5, <1>6, <2>2 DEF ProfileVersions
  <2> QED
    BY <1>5, <2>1, <2>3 DEF ProfileVersions
<1> QED
  BY <1>8, <1>9, <1>11, <1>14 DEF ProfilesInv

(* The operator looks at something else: calls lose their observer at most. *)
LEMMA ProfileViewStep ==
  ASSUME ProfilesInv, UNCHANGED <<db, cache>>, ui' \in ProfilePage, ui'.calls = ui.calls,
         ProfileCalls(m', ui.calls), ProfileVersions(m', db.profile, cache.profile, ui.calls),
         ui'.editor.open => ui'.selected \in Things /\ ui'.editor.base = cache.profile[ui'.selected]
  PROVE  ProfilesInv'
BY DEF ProfilesInv, ProfileEditor, ProfileData

(* The server executes a call: it writes a version of a profile at most.    *)
LEMMA ProfileExecuted ==
  ASSUME ProfilesInv, NEW c \in m, c.phase = "sent", NEW v \in Nat, m' = Profiles!answered(c, c.asset, v),
         UNCHANGED <<cache, ui>>, db' = [proxy |-> db'.proxy, profile |-> db'.profile],
         db'.profile \in [Things -> Nat], v <= db'.profile[c.asset],
         \A a \in Things : db.profile[a] <= db'.profile[a] /\ db'.profile[a] <= db.profile[a] + 1
  PROVE  ProfilesInv'
<1>1. PICK k \in Nat : k = ui.calls /\ ProfileCalls(m, k) /\ ProfileVersions(m, db.profile, cache.profile, k)
  BY ProfileFields DEF ProfilesInv, ProfileEditor
<1>2. /\ c = [id |-> c.id, x |-> c.x, asset |-> c.asset, phase |-> c.phase, ans |-> c.ans,
              observed |-> c.observed, mounted |-> c.mounted]
      /\ c.id \in Nat /\ c.x \in Profiles!Mutations /\ c.asset \in Things
      /\ c.observed \in BOOLEAN /\ c.mounted \in BOOLEAN
  BY <1>1, ProfileCallFields DEF ProfileCalls
<1>3. PICK e : /\ e = [id |-> c.id, x |-> c.x, asset |-> c.asset, phase |-> "done", ans |-> v,
                       observed |-> c.observed, mounted |-> c.mounted]
               /\ m' = (m \ {c}) \cup {e}
  <2>1. PICK p : p = [c EXCEPT !.phase = "done"]
    OBVIOUS
  <2>2. p = [id |-> c.id, x |-> c.x, asset |-> c.asset, phase |-> "done", ans |-> c.ans,
             observed |-> c.observed, mounted |-> c.mounted]
    BY <1>2, <2>1
  <2>3. PICK q : q = [p EXCEPT !.asset = c.asset]
    OBVIOUS
  <2>4. q = p
    BY <2>2, <2>3
  <2>5. [q EXCEPT !.ans = v] = [id |-> c.id, x |-> c.x, asset |-> c.asset, phase |-> "done", ans |-> v,
                               observed |-> c.observed, mounted |-> c.mounted]
    BY <2>2, <2>4
  <2>6. m' = (m \ {c}) \cup {[q EXCEPT !.ans = v]}
    BY <2>1, <2>3 DEF Profiles!answered
  <2> QED
    BY <2>5, <2>6
<1>4. e \in ProfileCall /\ e.id = c.id /\ e.asset = c.asset /\ e.phase = "done" /\ e.ans = v
  BY <1>2, <1>3 DEF ProfileCall
<1>5. ProfileCalls(m', k)
  BY <1>1, <1>3, <1>4 DEF ProfileCalls
<1>6. SentIds(m') = SentIds(m) \ {c.id} /\ c.id \in SentIds(m)
  BY <1>1, <1>3, <1>4 DEF SentIds, ProfileCalls
<1>7. /\ Cardinality(SentIds(m')) = Cardinality(SentIds(m)) - 1
      /\ Cardinality(SentIds(m')) \in Nat /\ Cardinality(SentIds(m)) \in Nat
  <2>1. PICK S : S = SentIds(m)
    OBVIOUS
  <2>2. IsFiniteSet(S) /\ Cardinality(S) \in Nat /\ Cardinality(SentIds(m')) \in Nat
    BY <1>1, <1>5, <2>1, SentFinite
  <2>3. Cardinality(S \ {c.id}) = Cardinality(S) - 1
    BY <1>6, <2>1, <2>2, FS_RemoveElement
  <2> QED
    BY <1>6, <2>1, <2>2, <2>3
<1>8. db.profile \in [Things -> Nat] /\ cache.profile \in [Things -> Nat]
  BY DEF ProfilesInv, ProfileData
<1>9. ProfileVersions(m', db'.profile, cache.profile, k)
  <2>1. ASSUME NEW b \in Things
        PROVE  cache.profile[b] <= db'.profile[b] /\ db'.profile[b] + Cardinality(SentIds(m')) <= k + 2
    <3>1. /\ db.profile[b] \in Nat /\ db'.profile[b] \in Nat /\ cache.profile[b] \in Nat
          /\ cache.profile[b] <= db.profile[b] /\ db.profile[b] + Cardinality(SentIds(m)) <= k + 2
          /\ db.profile[b] <= db'.profile[b] /\ db'.profile[b] <= db.profile[b] + 1
      BY <1>1, <1>8 DEF ProfileVersions
    <3> QED
      BY <1>7, <3>1
  <2>2. ASSUME NEW d \in m PROVE d.ans <= db'.profile[d.asset]
    <3>1. d.asset \in Things /\ d.ans \in Nat
      BY <1>1, ProfileCallFields DEF ProfileCalls
    <3>2. /\ db.profile[d.asset] \in Nat /\ db'.profile[d.asset] \in Nat
          /\ d.ans <= db.profile[d.asset] /\ db.profile[d.asset] <= db'.profile[d.asset]
      BY <1>1, <1>8, <3>1 DEF ProfileVersions
    <3> QED
      BY <3>1, <3>2
  <2>3. \A d \in m' : d.ans <= db'.profile[d.asset]
    BY <1>3, <1>4, <2>2
  <2> QED
    BY <2>1, <2>3 DEF ProfileVersions
<1>10. ProfileData(db', cache') /\ ProfileEditor(ui', cache'.profile)
  BY DEF ProfilesInv, ProfileData, ProfileEditor
<1> QED
  BY <1>1, <1>5, <1>9, <1>10 DEF ProfilesInv

(* What the page has of a profile changes: the effect closes the editor if  *)
(* it is that of the selected asset.                                        *)
LEMMA ProfileLoads ==
  ASSUME ProfilesInv, db' = db, cache' = [proxy |-> cache'.proxy, profile |-> cache'.profile],
         cache'.profile \in [Things -> Nat], \A a \in Things : cache'.profile[a] <= db.profile[a],
         ProfileCalls(m', ui.calls), ProfileVersions(m', db.profile, cache.profile, ui.calls),
         ui' = Profiles!ProfileChanged(cache'.profile) \/ ui' = [ui EXCEPT !.editor = Profiles!NoEditor]
  PROVE  ProfilesInv'
<1>1. /\ ui \in ProfilePage /\ ui.calls <= MaxCalls
      /\ ui.editor.open => ui.selected \in Things /\ ui.editor.base = cache.profile[ui.selected]
  BY DEF ProfilesInv, ProfileEditor
<1>2. PICK e : e = [open |-> FALSE, base |-> 0]
  OBVIOUS
<1>3. e \in Editor /\ ~ e.open
  BY <1>2 DEF Editor
<1>4. CASE ui' = [ui EXCEPT !.editor = e]
  <2>1. /\ ui = [can |-> ui.can, selected |-> ui.selected, tab |-> ui.tab, editor |-> ui.editor, calls |-> ui.calls]
        /\ ui.can \in {"read", "write"} /\ ui.selected \in Things \cup {"none"}
        /\ ui.tab \in {"summary", "connection", "probe"} /\ ui.calls \in Nat
    BY <1>1, ProfileFields
  <2>2. ui' = [can |-> ui.can, selected |-> ui.selected, tab |-> ui.tab, editor |-> e, calls |-> ui.calls]
    BY <1>4, <2>1
  <2>3. ui' \in ProfilePage /\ ui'.calls = ui.calls /\ ui'.editor = e
    BY <1>3, <2>1, <2>2 DEF ProfilePage
  <2>4. ProfileEditor(ui', cache'.profile)
    BY <1>1, <1>3, <2>3 DEF ProfileEditor
  <2>5. ProfileData(db', cache')
    BY DEF ProfilesInv, ProfileData
  <2>6. ProfileVersions(m', db'.profile, cache'.profile, ui'.calls)
    BY <2>3 DEF ProfileVersions
  <2> QED
    BY <2>3, <2>4, <2>5, <2>6 DEF ProfilesInv
<1>5. CASE ui' # [ui EXCEPT !.editor = e]
  <2>1. ui' = ui /\ (ui.selected = "none" \/ cache'.profile[ui.selected] = cache.profile[ui.selected])
    BY <1>2, <1>5 DEF Profiles!ProfileChanged, Profiles!drawer, Profiles!None, Profiles!NoEditor
  <2>2. ProfileEditor(ui', cache'.profile)
    BY <1>1, <2>1, NamesAssumption DEF ProfileEditor
  <2>3. ProfileData(db', cache')
    BY DEF ProfilesInv, ProfileData
  <2>4. ProfileVersions(m', db'.profile, cache'.profile, ui'.calls)
    BY <2>1 DEF ProfileVersions
  <2> QED
    BY <2>1, <2>2, <2>3, <2>4 DEF ProfilesInv
<1> QED
  BY <1>4, <1>5

(* Another asset is selected, or none.                                      *)
LEMMA ProfileSelects ==
  ASSUME ProfilesInv, NEW a \in Things \cup {"none"}, NEW u \in ProfilePage, u.calls = ui.calls,
         a # ui.selected, ui' = Profiles!Selected(a, u), m' = Profiles!SelectedCalls(a, m), UNCHANGED <<db, cache>>
  PROVE  ProfilesInv'
<1>1. PICK e : e = [open |-> FALSE, base |-> 0]
  OBVIOUS
<1>2. e \in Editor /\ ~ e.open
  BY <1>1 DEF Editor
<1>3. ui' = [u EXCEPT !.selected = a, !.editor = e]
  BY <1>1 DEF Profiles!Selected, Profiles!NoEditor
<1>4. /\ u = [can |-> u.can, selected |-> u.selected, tab |-> u.tab, editor |-> u.editor, calls |-> u.calls]
      /\ u.can \in {"read", "write"} /\ u.tab \in {"summary", "connection", "probe"} /\ u.calls \in Nat
  BY ProfileFields
<1>5. ui' = [can |-> u.can, selected |-> a, tab |-> u.tab, editor |-> e, calls |-> u.calls]
  BY <1>3, <1>4
<1>6. ui' \in ProfilePage /\ ui'.calls = ui.calls /\ ~ ui'.editor.open
  BY <1>2, <1>4, <1>5 DEF ProfilePage
<1>7. PICK l : l = Profiles!resetCalls({"save", "test", "probe", "promote", "demote"}, m)
  OBVIOUS
<1>8. m' = Profiles!unmounted(l)
  BY <1>7 DEF Profiles!SelectedCalls
<1>9. ProfileCalls(l, ui.calls) /\ ProfileVersions(l, db.profile, cache.profile, ui.calls)
  BY <1>7, ResetCalls DEF ProfilesInv
<1>10. ProfileCalls(m', ui.calls) /\ ProfileVersions(m', db.profile, cache.profile, ui.calls)
  BY <1>8, <1>9, UnmountedProfileCalls
<1> QED
  BY <1>6, <1>10, ProfileViewStep

(* The drawer: opening and closing it, its tabs and the editor.             *)
LEMMA ProfileDrawerSteps ==
  ASSUME ProfilesInv,
         \/ \E a \in Things : Profiles!openAssetDetails(a)
         \/ Profiles!closeAssetDetail
         \/ \E t \in {"summary", "connection", "probe"} : Profiles!setActiveDrawerTab(t)
         \/ Profiles!toggleConnectionEditor
  PROVE  ProfilesInv'
<1> USE DEF Profiles!None
<1>1. /\ ui = [can |-> ui.can, selected |-> ui.selected, tab |-> ui.tab, editor |-> ui.editor, calls |-> ui.calls]
      /\ ui.can \in {"read", "write"} /\ ui.selected \in Things \cup {"none"}
      /\ ui.tab \in {"summary", "connection", "probe"} /\ ui.editor \in Editor /\ ui.calls \in Nat
      /\ ui \in ProfilePage
  BY ProfileFields DEF ProfilesInv, ProfileEditor
<1>2. PICK n \in Editor : n = [open |-> FALSE, base |-> 0] /\ ~ n.open
  <2>1. [open |-> FALSE, base |-> 0] \in Editor /\ ~ [open |-> FALSE, base |-> 0].open
    BY DEF Editor
  <2> QED
    BY <2>1
<1>3. ASSUME NEW a \in Things, Profiles!openAssetDetails(a)
      PROVE  ProfilesInv'
  <2>1. PICK u : u = [ui EXCEPT !.tab = "summary"]
    OBVIOUS
  <2>2. /\ ui.selected = "none" /\ ui' = Profiles!Selected(a, u) /\ m' = Profiles!SelectedCalls(a, m)
        /\ UNCHANGED <<db, cache>>
    BY <1>3, <2>1 DEF Profiles!openAssetDetails, Profiles!drawer
  <2>3. u = [can |-> ui.can, selected |-> ui.selected, tab |-> "summary", editor |-> ui.editor, calls |-> ui.calls]
    BY <1>1, <2>1
  <2>4. u \in ProfilePage /\ u.calls = ui.calls
    BY <1>1, <2>3 DEF ProfilePage
  <2> QED
    BY <2>2, <2>4, ProfileSelects, NamesAssumption
<1>4. CASE Profiles!closeAssetDetail
  <2>1. /\ ui.selected # "none" /\ ui' = Profiles!Selected("none", ui) /\ m' = Profiles!SelectedCalls("none", m)
        /\ UNCHANGED <<db, cache>>
    BY <1>4 DEF Profiles!closeAssetDetail, Profiles!drawer
  <2> QED
    BY <1>1, <2>1, ProfileSelects
<1>5. ASSUME NEW t \in {"summary", "connection", "probe"}, Profiles!setActiveDrawerTab(t)
      PROVE  ProfilesInv'
  <2>1. ui' = [ui EXCEPT !.tab = t, !.editor = n] /\ m' = Profiles!unmounted(m) /\ UNCHANGED <<db, cache>>
    BY <1>2, <1>5 DEF Profiles!setActiveDrawerTab, Profiles!NoEditor
  <2>2. ui' = [can |-> ui.can, selected |-> ui.selected, tab |-> t, editor |-> n, calls |-> ui.calls]
    BY <1>1, <2>1
  <2>3. ui' \in ProfilePage /\ ui'.calls = ui.calls /\ ~ ui'.editor.open
    BY <1>1, <1>2, <2>2 DEF ProfilePage
  <2>4. ProfileCalls(m', ui.calls) /\ ProfileVersions(m', db.profile, cache.profile, ui.calls)
    BY <2>1, UnmountedProfileCalls DEF ProfilesInv
  <2> QED
    BY <2>1, <2>3, <2>4, ProfileViewStep
<1>6. CASE Profiles!toggleConnectionEditor
  <2>1. ui.selected \in Things /\ UNCHANGED <<db, cache, m>> /\ cache.profile[ui.selected] \in Nat
    BY <1>1, <1>6 DEF Profiles!toggleConnectionEditor, Profiles!ConnectionHeader, Profiles!connectionTab,
       Profiles!drawer, ProfilesInv, ProfileData
  <2>2. PICK e : e = IF ui.editor.open THEN n ELSE [open |-> TRUE, base |-> cache.profile[ui.selected]]
    OBVIOUS
  <2>3. ui' = [ui EXCEPT !.editor = e]
    BY <1>2, <1>6, <2>2 DEF Profiles!toggleConnectionEditor, Profiles!NoEditor
  <2>4. ui' = [can |-> ui.can, selected |-> ui.selected, tab |-> ui.tab, editor |-> e, calls |-> ui.calls]
    BY <1>1, <2>3
  <2>5. e \in Editor /\ (e.open => e.base = cache.profile[ui.selected])
    BY <1>2, <2>1, <2>2 DEF Editor
  <2>6. ui' \in ProfilePage /\ ui'.calls = ui.calls /\ ui'.selected = ui.selected /\ ui'.editor = e
    BY <1>1, <2>4, <2>5 DEF ProfilePage
  <2> QED
    BY <2>1, <2>5, <2>6, ProfileViewStep DEF ProfilesInv
<1> QED
  BY <1>3, <1>4, <1>5, <1>6

(* The calls that the tabs make are about the selected asset.               *)
LEMMA ProfileCallSteps ==
  ASSUME ProfilesInv, \/ Profiles!submitConnection \/ Profiles!onTest \/ Profiles!onPromote \/ Profiles!onRunProbe
  PROVE  ProfilesInv'
<1>1. ui.selected \in Things \cup {"none"}
  BY ProfileFields DEF ProfilesInv, ProfileEditor
<1>2. ui.selected # "none"
  BY DEF Profiles!submitConnection, Profiles!onTest, Profiles!onPromote, Profiles!onRunProbe,
     Profiles!connectionForm, Profiles!ConnectionHeader, Profiles!VPCProxyControl, Profiles!ProbeSection,
     Profiles!connectionTab, Profiles!drawer, Profiles!None
<1>3. PICK x \in {"save", "test", "probe", "promote", "demote"} : Profiles!mutate(x, ui.selected)
  BY DEF Profiles!submitConnection, Profiles!onTest, Profiles!onPromote, Profiles!onRunProbe
<1> QED
  BY <1>1, <1>2, <1>3, ProfileCalled DEF Profiles!Mutations

(* What written makes of the versions f.                                    *)
LEMMA OneMore ==
  ASSUME NEW f \in [Things -> Nat], NEW bs, NEW q, q = [a \in Things |-> IF a \in bs THEN f[a] + 1 ELSE f[a]]
  PROVE  q \in [Things -> Nat] /\ \A a \in Things : f[a] <= q[a] /\ q[a] <= f[a] + 1
<1>1. ASSUME NEW a \in Things PROVE q[a] \in Nat /\ f[a] <= q[a] /\ q[a] <= f[a] + 1
  <2>1. PICK n \in Nat : n = f[a]
    OBVIOUS
  <2>2. q[a] = n \/ q[a] = n + 1
    BY <2>1
  <2> QED
    BY <2>1, <2>2
<1> QED
  BY <1>1

(* The server's side of the calls.                                          *)
LEMMA ProfileServerSteps ==
  ASSUME ProfilesInv, NEW c \in m,
         \/ Profiles!updateAssetConnectionProfile(c) \/ Profiles!UpdateConnectionProbeStatus(c)
         \/ Profiles!promoteAssetToVPCProxy(c) \/ Profiles!demoteAssetVPCProxy(c)
  PROVE  ProfilesInv'
<1>1. /\ db = [proxy |-> db.proxy, profile |-> db.profile] /\ db.profile \in [Things -> Nat]
      /\ \A a \in Things : db.profile[a] \in Nat
  BY DEF ProfilesInv, ProfileData
<1>2. c.asset \in Things
  BY ProfileCallFields DEF ProfilesInv, ProfileCalls
<1>3. ASSUME NEW v \in Nat, db' = [db EXCEPT !.profile[c.asset] = v]
      PROVE  /\ db' = [proxy |-> db'.proxy, profile |-> db'.profile] /\ db'.profile \in [Things -> Nat]
             /\ db'.profile[c.asset] = v /\ \A a \in Things \ {c.asset} : db'.profile[a] = db.profile[a]
  <2>1. PICK q : q = [db.profile EXCEPT ![c.asset] = v]
    OBVIOUS
  <2>2. /\ q \in [Things -> Nat] /\ q[c.asset] = v
        /\ \A a \in Things \ {c.asset} : q[a] = db.profile[a]
    BY <1>1, <1>2, <2>1
  <2>3. db' = [proxy |-> db.proxy, profile |-> q]
    BY <1>1, <1>3, <2>1
  <2> QED
    BY <2>2, <2>3
<1>4. CASE Profiles!updateAssetConnectionProfile(c)
  <2>1. PICK v \in Nat : v = db.profile[c.asset] + 1
    BY <1>1, <1>2
  <2>2. /\ c.phase = "sent" /\ db' = [db EXCEPT !.profile[c.asset] = v] /\ UNCHANGED <<cache, ui>>
        /\ m' = Profiles!answered(c, c.asset, db'.profile[c.asset])
    BY <1>4, <2>1 DEF Profiles!updateAssetConnectionProfile
  <2>3. /\ db' = [proxy |-> db'.proxy, profile |-> db'.profile] /\ db'.profile \in [Things -> Nat]
        /\ db'.profile[c.asset] = v /\ \A a \in Things \ {c.asset} : db'.profile[a] = db.profile[a]
    BY <1>3, <2>2
  <2>4. \A a \in Things : db.profile[a] <= db'.profile[a] /\ db'.profile[a] <= db.profile[a] + 1
    BY <1>1, <2>1, <2>3
  <2>5. m' = Profiles!answered(c, c.asset, v) /\ v <= db'.profile[c.asset]
    BY <2>2, <2>3
  <2> QED
    BY <2>2, <2>3, <2>4, <2>5, ProfileExecuted
<1>5. CASE Profiles!UpdateConnectionProbeStatus(c)
  <2>1. PICK v \in Nat : v = IF db.profile[c.asset] > 0 THEN db.profile[c.asset] + 1 ELSE 0
    BY <1>1, <1>2
  <2>2. /\ c.phase = "sent" /\ db' = [db EXCEPT !.profile[c.asset] = v] /\ UNCHANGED <<cache, ui>>
        /\ m' = Profiles!answered(c, c.asset, 0)
    BY <1>5, <2>1 DEF Profiles!UpdateConnectionProbeStatus
  <2>3. /\ db' = [proxy |-> db'.proxy, profile |-> db'.profile] /\ db'.profile \in [Things -> Nat]
        /\ db'.profile[c.asset] = v /\ \A a \in Things \ {c.asset} : db'.profile[a] = db.profile[a]
    BY <1>3, <2>2
  <2>4. db.profile[c.asset] \in Nat
    BY <1>1, <1>2
  <2>5. /\ \A a \in Things : db.profile[a] <= db'.profile[a] /\ db'.profile[a] <= db.profile[a] + 1
        /\ 0 <= db'.profile[c.asset]
    BY <1>1, <2>1, <2>3, <2>4
  <2> QED
    BY <2>2, <2>3, <2>5, ProfileExecuted
<1>6. ASSUME NEW bs \in SUBSET Things, NEW p, db' = [proxy |-> p, profile |-> Profiles!written(bs)],
             c.phase = "sent", m' = Profiles!answered(c, c.asset, 0), UNCHANGED <<cache, ui>>
      PROVE  ProfilesInv'
  <2>1. PICK q : q = [a \in Things |-> IF a \in bs THEN db.profile[a] + 1 ELSE db.profile[a]]
    OBVIOUS
  <2>2. db' = [proxy |-> p, profile |-> q]
    BY <1>6, <2>1 DEF Profiles!written
  <2>3. q \in [Things -> Nat] /\ \A a \in Things : db.profile[a] <= q[a] /\ q[a] <= db.profile[a] + 1
    BY <1>1, <2>1, OneMore
  <2>4. db' = [proxy |-> db'.proxy, profile |-> db'.profile] /\ db'.profile = q
    BY <2>2
  <2>5. q[c.asset] \in Nat
    BY <1>2, <2>3
  <2>6. 0 <= db'.profile[c.asset]
    BY <2>4, <2>5
  <2> QED
    BY <1>6, <2>3, <2>4, <2>6, ProfileExecuted
<1>7. CASE Profiles!promoteAssetToVPCProxy(c) \/ Profiles!demoteAssetVPCProxy(c)
  <2>1. PICK bs \in SUBSET Things : \E p : db' = [proxy |-> p, profile |-> Profiles!written(bs)]
    BY <1>7 DEF Profiles!promoteAssetToVPCProxy, Profiles!demoteAssetVPCProxy
  <2>2. c.phase = "sent" /\ m' = Profiles!answered(c, c.asset, 0) /\ UNCHANGED <<cache, ui>>
    BY <1>7 DEF Profiles!promoteAssetToVPCProxy, Profiles!demoteAssetVPCProxy
  <2> QED
    BY <1>6, <2>1, <2>2
<1> QED
  BY <1>4, <1>5, <1>7

(* The probe worker or another operator writes the second version.  There   *)
(* is room for it: no more calls are sent than were made.                   *)
LEMMA ProfileBackground ==
  ASSUME ProfilesInv, NEW a \in Things, Profiles!BackgroundWrite(a)
  PROVE  ProfilesInv'
<1>1. PICK k \in Nat : k = ui.calls /\ ProfileCalls(m, k) /\ ProfileVersions(m, db.profile, cache.profile, k)
  BY ProfileFields DEF ProfilesInv, ProfileEditor
<1>2. /\ db = [proxy |-> db.proxy, profile |-> db.profile] /\ db.profile \in [Things -> Nat]
      /\ cache.profile \in [Things -> Nat]
  BY DEF ProfilesInv, ProfileData
<1>3. db.profile[a] = 1 /\ db' = [db EXCEPT !.profile[a] = 2] /\ UNCHANGED <<cache, m, ui>>
  BY DEF Profiles!BackgroundWrite
<1>4. PICK q : q = [db.profile EXCEPT ![a] = 2]
  OBVIOUS
<1>5. db' = [proxy |-> db.proxy, profile |-> q]
  BY <1>2, <1>3, <1>4
<1>6. /\ db' = [proxy |-> db'.proxy, profile |-> db'.profile] /\ db'.profile \in [Things -> Nat]
      /\ db'.profile[a] = 2 /\ \A b \in Things \ {a} : db'.profile[b] = db.profile[b]
  BY <1>2, <1>4, <1>5
<1>7. Cardinality(SentIds(m)) \in Nat /\ Cardinality(SentIds(m)) <= k
  BY <1>1, SentFinite
<1>8. ASSUME NEW b \in Things
      PROVE  /\ db.profile[b] <= db'.profile[b] /\ cache.profile[b] <= db'.profile[b]
             /\ db'.profile[b] + Cardinality(SentIds(m)) <= k + 2
  <2>1. /\ db.profile[b] \in Nat /\ db'.profile[b] \in Nat /\ cache.profile[b] \in Nat
        /\ cache.profile[b] <= db.profile[b] /\ db.profile[b] + Cardinality(SentIds(m)) <= k + 2
    BY <1>1, <1>2, <1>6 DEF ProfileVersions
  <2> QED
    BY <1>3, <1>6, <1>7, <2>1
<1>9. ASSUME NEW c \in m PROVE c.ans <= db'.profile[c.asset]
  <2>1. c.asset \in Things /\ c.ans \in Nat
    BY <1>1, ProfileCallFields DEF ProfileCalls
  <2>2. /\ db.profile[c.asset] \in Nat /\ db'.profile[c.asset] \in Nat
        /\ c.ans <= db.profile[c.asset] /\ db.profile[c.asset] <= db'.profile[c.asset]
    BY <1>1, <1>2, <1>6, <1>8, <2>1 DEF ProfileVersions
  <2> QED
    BY <2>1, <2>2
<1>10. ProfileVersions(m, db'.profile, cache.profile, k)
  BY <1>8, <1>9 DEF ProfileVersions
<1>11. ProfileData(db', cache') /\ ProfileEditor(ui', cache'.profile)
  BY <1>3, <1>6 DEF ProfilesInv, ProfileData, ProfileEditor
<1> QED
  BY <1>1, <1>3, <1>10, <1>11 DEF ProfilesInv

(* What the page has of the asset a becomes a value of the server's.        *)
LEMMA ProfileCached ==
  ASSUME ProfilesInv, NEW a \in Things, NEW v \in Nat, v <= db.profile[a],
         NEW k, k = [cache EXCEPT !.profile[a] = v]
  PROVE  /\ k = [proxy |-> k.proxy, profile |-> k.profile] /\ k.profile \in [Things -> Nat]
         /\ \A b \in Things : k.profile[b] <= db.profile[b]
<1>1. /\ cache = [proxy |-> cache.proxy, profile |-> cache.profile] /\ cache.profile \in [Things -> Nat]
      /\ \A b \in Things : cache.profile[b] <= db.profile[b]
  BY DEF ProfilesInv, ProfileData, ProfileVersions
<1>2. PICK q : q = [cache.profile EXCEPT ![a] = v]
  OBVIOUS
<1>3. q \in [Things -> Nat] /\ \A b \in Things : q[b] <= db.profile[b]
  <2>1. q \in [Things -> Nat]
    BY <1>1, <1>2
  <2>2. ASSUME NEW b \in Things PROVE q[b] <= db.profile[b]
    <3>1. q[b] = IF b = a THEN v ELSE cache.profile[b]
      BY <1>1, <1>2
    <3> QED
      BY <1>1, <3>1
  <2> QED
    BY <2>1, <2>2
<1>4. k = [proxy |-> cache.proxy, profile |-> q]
  BY <1>1, <1>2
<1>5. k.profile = q /\ k.proxy = cache.proxy
  BY <1>4
<1>6. k = [proxy |-> k.proxy, profile |-> k.profile]
  BY <1>4, <1>5, Zenon
<1> QED
  BY <1>3, <1>5, <1>6

(* The detail of an asset, which says no more than whether it is a proxy.   *)
LEMMA DetailCached ==
  ASSUME ProfilesInv, NEW a, NEW b, NEW k, k = [cache EXCEPT !.proxy[a] = b]
  PROVE  k = [proxy |-> k.proxy, profile |-> k.profile] /\ k.profile = cache.profile
<1>1. cache = [proxy |-> cache.proxy, profile |-> cache.profile]
  BY DEF ProfilesInv, ProfileData
<1>2. PICK q : q = [cache.proxy EXCEPT ![a] = b]
  OBVIOUS
<1>3. k = [proxy |-> q, profile |-> cache.profile]
  BY <1>1, <1>2
<1> QED
  BY <1>3

(* Nothing of a profile has changed: the effect leaves the page alone.      *)
LEMMA NothingChanged ==
  ASSUME NEW w, w = cache.profile
  PROVE  Profiles!ProfileChanged(w) = ui
BY DEF Profiles!ProfileChanged

(* The answers at the page.                                                 *)
LEMMA ProfileAnswerSteps ==
  ASSUME ProfilesInv, NEW c \in m,
         \/ Profiles!saveConnection(c) \/ Profiles!promoteVPCProxyMutation(c) \/ Profiles!settledOnly(c)
         \/ Profiles!callFailed(c) \/ Profiles!Settle(c)
  PROVE  ProfilesInv'
<1>1. /\ ui.calls \in Nat /\ db.profile \in [Things -> Nat] /\ cache.profile \in [Things -> Nat]
      /\ cache = [proxy |-> cache.proxy, profile |-> cache.profile]
      /\ \A a \in Things : cache.profile[a] <= db.profile[a]
  BY ProfileFields DEF ProfilesInv, ProfileEditor, ProfileData, ProfileVersions
<1>2. c.asset \in Things /\ c.ans \in Nat /\ c.ans <= db.profile[c.asset]
  BY ProfileCallFields DEF ProfilesInv, ProfileCalls, ProfileVersions
<1>3. /\ db' = db
      /\ m' = m \ {c} \/ m' = (m \ {c}) \cup {[c EXCEPT !.phase = "settling"]}
  BY DEF Profiles!saveConnection, Profiles!promoteVPCProxyMutation, Profiles!settledOnly, Profiles!callFailed,
     Profiles!failed, Profiles!Settle, Profiles!settling
<1>4. ProfileCalls(m', ui.calls) /\ ProfileVersions(m', db.profile, cache.profile, ui.calls)
  BY <1>1, <1>3, CallsLeft DEF ProfilesInv
<1>5. CASE Profiles!saveConnection(c)
  <2>1. cache' = [cache EXCEPT !.profile[c.asset] = c.ans] /\ ui' = Profiles!ProfileChanged(cache'.profile)
    BY <1>5 DEF Profiles!saveConnection
  <2> QED
    BY <1>2, <1>3, <1>4, <2>1, ProfileCached, ProfileLoads
<1>6. ASSUME ui' = ui, cache' = cache \/ cache' = [cache EXCEPT !.proxy[c.asset] = TRUE]
      PROVE  ProfilesInv'
  <2>1. cache' = [proxy |-> cache'.proxy, profile |-> cache'.profile] /\ cache'.profile = cache.profile
    BY <1>1, <1>6, DetailCached
  <2>2. ui' = Profiles!ProfileChanged(cache'.profile)
    BY <1>6, <2>1, NothingChanged
  <2> QED
    BY <1>1, <1>3, <1>4, <2>1, <2>2, ProfileLoads
<1>7. CASE Profiles!promoteVPCProxyMutation(c) \/ Profiles!settledOnly(c) \/ Profiles!callFailed(c)
  BY <1>6, <1>7 DEF Profiles!promoteVPCProxyMutation, Profiles!settledOnly, Profiles!callFailed, Profiles!failed
<1>8. CASE Profiles!Settle(c)
  <2>1. \/ cache' = cache
        \/ cache' = [cache EXCEPT !.proxy[c.asset] = db.proxy[c.asset]]
        \/ cache' = [cache EXCEPT !.profile[c.asset] = db.profile[c.asset]]
    BY <1>8 DEF Profiles!Settle
  <2>2. db.profile[c.asset] \in Nat /\ db.profile[c.asset] <= db.profile[c.asset]
    BY <1>1, <1>2
  <2>3. /\ cache' = [proxy |-> cache'.proxy, profile |-> cache'.profile] /\ cache'.profile \in [Things -> Nat]
        /\ \A a \in Things : cache'.profile[a] <= db.profile[a]
    BY <1>1, <1>2, <2>1, <2>2, DetailCached, ProfileCached
  <2>4. \/ ui' = [ui EXCEPT !.editor = Profiles!NoEditor]
        \/ ui' = Profiles!ProfileChanged(cache'.profile)
    BY <1>8 DEF Profiles!Settle
  <2> QED
    BY <1>3, <1>4, <2>3, <2>4, ProfileLoads
<1> QED
  BY <1>5, <1>7, <1>8

(* The queries of the selected asset and of its profile.                    *)
LEMMA ProfileQueries ==
  ASSUME ProfilesInv, Profiles!LoadDetail \/ Profiles!LoadProfile
  PROVE  ProfilesInv'
<1>1. /\ db.profile \in [Things -> Nat] /\ cache.profile \in [Things -> Nat]
      /\ \A a \in Things : cache.profile[a] <= db.profile[a]
      /\ ProfileCalls(m, ui.calls) /\ ProfileVersions(m, db.profile, cache.profile, ui.calls)
  BY DEF ProfilesInv, ProfileData, ProfileVersions
<1>2. db' = db /\ m' = m
  BY DEF Profiles!LoadDetail, Profiles!LoadProfile
<1>3. CASE Profiles!LoadDetail
  <2>1. cache' = [cache EXCEPT !.proxy[ui.selected] = db.proxy[ui.selected]] /\ ui' = ui
    BY <1>3 DEF Profiles!LoadDetail
  <2>2. cache' = [proxy |-> cache'.proxy, profile |-> cache'.profile] /\ cache'.profile = cache.profile
    BY <2>1, DetailCached
  <2>3. ui' = Profiles!ProfileChanged(cache'.profile)
    BY <2>1, <2>2, NothingChanged
  <2> QED
    BY <1>1, <1>2, <2>2, <2>3, ProfileLoads
<1>4. CASE Profiles!LoadProfile
  <2>1. ui.selected \in Things
    BY <1>4, ProfileFields DEF Profiles!LoadProfile, Profiles!drawer, Profiles!None, ProfilesInv, ProfileEditor
  <2>2. PICK v \in Nat : v = db.profile[ui.selected] /\ v <= db.profile[ui.selected]
    BY <1>1, <2>1
  <2>3. cache' = [cache EXCEPT !.profile[ui.selected] = v] /\ ui' = Profiles!ProfileChanged(cache'.profile)
    BY <1>4, <2>2 DEF Profiles!LoadProfile
  <2> QED
    BY <1>1, <1>2, <2>1, <2>2, <2>3, ProfileCached, ProfileLoads
<1> QED
  BY <1>3, <1>4

LEMMA ProfilesNext == ProfilesInv /\ Profiles!Next => ProfilesInv'
<1> SUFFICES ASSUME ProfilesInv, Profiles!Next PROVE ProfilesInv'
  OBVIOUS
<1>1. CASE \/ \E a \in Things : Profiles!openAssetDetails(a)
           \/ Profiles!closeAssetDetail
           \/ \E t \in {"summary", "connection", "probe"} : Profiles!setActiveDrawerTab(t)
           \/ Profiles!toggleConnectionEditor
  BY <1>1, ProfileDrawerSteps
<1>2. CASE \E a \in Things : Profiles!BackgroundWrite(a)
  BY <1>2, ProfileBackground
<1>3. CASE Profiles!submitConnection \/ Profiles!onTest \/ Profiles!onPromote \/ Profiles!onRunProbe
  BY <1>3, ProfileCallSteps
<1>4. ASSUME NEW c \in m,
             \/ Profiles!updateAssetConnectionProfile(c) \/ Profiles!UpdateConnectionProbeStatus(c)
             \/ Profiles!promoteAssetToVPCProxy(c) \/ Profiles!demoteAssetVPCProxy(c)
      PROVE  ProfilesInv'
  BY <1>4, ProfileServerSteps
<1>5. ASSUME NEW c \in m,
             \/ Profiles!saveConnection(c) \/ Profiles!promoteVPCProxyMutation(c) \/ Profiles!settledOnly(c)
             \/ Profiles!callFailed(c) \/ Profiles!Settle(c)
      PROVE  ProfilesInv'
  BY <1>5, ProfileAnswerSteps
<1>6. CASE Profiles!LoadDetail \/ Profiles!LoadProfile
  BY <1>6, ProfileQueries
<1> QED
  BY <1>1, <1>2, <1>3, <1>4, <1>5, <1>6 DEF Profiles!Next

LEMMA ProfilesSafe == ProfilesInv => Profiles!TypeOK /\ Profiles!ConnectionEditorFresh
<1> SUFFICES ASSUME ProfilesInv PROVE Profiles!TypeOK /\ Profiles!ConnectionEditorFresh
  OBVIOUS
<1>1. PICK k \in Nat : /\ k = ui.calls /\ k <= MaxCalls /\ ProfileCalls(m, k)
                       /\ ProfileVersions(m, db.profile, cache.profile, k)
  BY ProfileFields DEF ProfilesInv, ProfileEditor
<1>2. db.profile \in [Things -> Nat] /\ cache.profile \in [Things -> Nat]
  BY DEF ProfilesInv, ProfileData
<1>3. Cardinality(SentIds(m)) \in Nat
  BY <1>1, SentFinite
<1>4. ASSUME NEW a \in Things
      PROVE  db.profile[a] \in 0..(MaxCalls + 2) /\ cache.profile[a] \in 0..(MaxCalls + 2)
  <2>1. /\ db.profile[a] \in Nat /\ cache.profile[a] \in Nat
        /\ cache.profile[a] <= db.profile[a] /\ db.profile[a] + Cardinality(SentIds(m)) <= k + 2
    BY <1>1, <1>2 DEF ProfileVersions
  <2> QED
    BY <1>1, <1>3, <2>1, BoundsAssumption
<1>5. db.profile \in [Things -> 0..(MaxCalls + 2)] /\ cache.profile \in [Things -> 0..(MaxCalls + 2)]
  BY <1>2, <1>4
<1>6. ui.selected \in Things \cup {"none"}
  BY ProfileFields DEF ProfilesInv, ProfileEditor
<1>7. \A c \in m : c.x \in Profiles!Mutations
  BY <1>1, ProfileCallFields DEF ProfileCalls
<1>8. Profiles!TypeOK
  BY <1>5, <1>6, <1>7 DEF Profiles!TypeOK, Profiles!MaxVersion, Profiles!None
<1>9. Profiles!ConnectionEditorFresh
  BY DEF ProfilesInv, ProfileEditor, Profiles!ConnectionEditorFresh
<1> QED
  BY <1>8, <1>9

-----------------------------------------------------------------------------
(* The queries of the pages after a mutation.                               *)

CachePages == {"aws", "connectivity", "access", "iam", "oidc", "cmdb"}

CacheQuery == [data : Nat, load : {"idle", "asked", "answered"}, got : Nat, failed : BOOLEAN, late : BOOLEAN]

(* The query q shows the version v, or says that it does not: once it has   *)
(* the answer under way.                                                    *)
Fresh(q, v) ==
  ~ q.late => /\ q.load = "idle" /\ ~ q.failed => v <= q.data
              /\ q.load = "answered" => v <= q.got

(* What a callback awaits: one set of queries, or two one after the other.  *)
Awaits(s) == s = <<s[1]>> \/ s = <<s[1], s[2]>>
Later(s) == IF Len(s) > 1 THEN s[2] ELSE {}

(* What is said of a mutation in the tables.                                *)
MutationOk(p, x, t) ==
  /\ t = [writes |-> t.writes, sets |-> t.sets, awaited |-> t.awaited]
  /\ t.writes \subseteq Cache!Queries[p] /\ t.sets \subseteq t.writes
  /\ Awaits(t.awaited)
  /\ \A k \in t.writes : <<x, k>> \in Cache!Forgotten \/ k \in t.sets \cup Head(t.awaited) \cup Later(t.awaited)

LEMMA AwaitsOne ==
  ASSUME NEW A
  PROVE  Awaits(<<A>>) /\ Head(<<A>>) = A /\ Later(<<A>>) = {}
BY DEF Awaits, Later

LEMMA AwaitsTwo ==
  ASSUME NEW A, NEW B
  PROVE  /\ Awaits(<<A, B>>) /\ Head(<<A, B>>) = A /\ Later(<<A, B>>) = B /\ Len(<<A, B>>) > 1
         /\ Tail(<<A, B>>) = <<B>>
BY DEF Awaits, Later

(* An entry of a table.                                                     *)
LEMMA EntryOk ==
  ASSUME NEW p, NEW x, NEW W, NEW S, NEW a, W \subseteq Cache!Queries[p], S \subseteq W, Awaits(a),
         \A k \in W : <<x, k>> \in Cache!Forgotten \/ k \in S \cup Head(a) \cup Later(a)
  PROVE  MutationOk(p, x, Cache!Mutation(W, S, a))
BY DEF MutationOk, Cache!Mutation

LEMMA EntryTwo ==
  ASSUME NEW p, NEW x, NEW W, NEW S, NEW A, NEW B, W \subseteq Cache!Queries[p], S \subseteq W,
         \A k \in W : <<x, k>> \in Cache!Forgotten \/ k \in S \cup A \cup B
  PROVE  MutationOk(p, x, Cache!Mutation(W, S, <<A, B>>))
<1>1. PICK a : a = <<A, B>>
  OBVIOUS
<1>2. Awaits(a) /\ Head(a) = A /\ Later(a) = B
  BY <1>1, AwaitsTwo
<1>3. MutationOk(p, x, Cache!Mutation(W, S, a))
  BY <1>2, EntryOk
<1> QED
  BY <1>1, <1>3

LEMMA AwsTable == \A x \in DOMAIN Cache!AwsMutations : MutationOk("aws", x, Cache!AwsMutations[x])
<1>1. Cache!Queries["aws"] = {"accounts", "sync status", "sync runs"}
  BY DEF Cache!Queries, Cache!AwsQueries
<1>2. PICK a : a = Cache!Mutation({"accounts"}, {}, <<{"accounts", "sync status", "sync runs"}>>)
  OBVIOUS
<1>3. PICK b : b = Cache!Mutation({"accounts", "sync runs"}, {}, <<{"accounts", "sync status", "sync runs"}>>)
  OBVIOUS
<1>4. PICK s : s = Cache!Mutation({"sync status"}, {}, <<{"sync status", "sync runs"}>>)
  OBVIOUS
<1>5. \A x : MutationOk("aws", x, a)
  BY <1>1, <1>2, AwaitsOne, EntryOk
<1>6. \A x : MutationOk("aws", x, b)
  BY <1>1, <1>3, AwaitsOne, EntryOk
<1>7. \A x : MutationOk("aws", x, s)
  BY <1>1, <1>4, AwaitsOne, EntryOk
<1>8. Cache!AwsMutations = [create |-> a, update |-> b, sync |-> s]
  BY <1>2, <1>3, <1>4 DEF Cache!AwsMutations, Cache!AwsQueries
<1> QED
  BY <1>5, <1>6, <1>7, <1>8

LEMMA ConnectivityTable ==
  \A x \in DOMAIN Cache!ConnectivityMutations : MutationOk("connectivity", x, Cache!ConnectivityMutations[x])
<1>1. Cache!Queries["connectivity"] = {"ssh-proxies", "ssh-keypairs", "hostkeys"}
  BY DEF Cache!Queries, Cache!ConnectivityQueries
<1>2. PICK p : p = Cache!Mutation({"ssh-proxies"}, {}, <<{"ssh-proxies", "ssh-keypairs", "hostkeys"}>>)
  OBVIOUS
<1>3. PICK y : y = Cache!Mutation({"ssh-keypairs"}, {}, <<{"ssh-keypairs"}>>)
  OBVIOUS
<1>4. PICK h : h = Cache!Mutation({"hostkeys"}, {}, <<{"hostkeys"}>>)
  OBVIOUS
<1>5. \A x : MutationOk("connectivity", x, p)
  BY <1>1, <1>2, AwaitsOne, EntryOk
<1>6. \A x : MutationOk("connectivity", x, y)
  BY <1>1, <1>3, AwaitsOne, EntryOk
<1>7. \A x : MutationOk("connectivity", x, h)
  BY <1>1, <1>4, AwaitsOne, EntryOk
<1>8. Cache!ConnectivityMutations =
         [createProxy |-> p, updateProxy |-> p, removeProxy |-> p, uploadKeypair |-> y, removeKeypair |-> y,
          approveOverride |-> h, forgetHostKey |-> h]
  BY <1>2, <1>3, <1>4 DEF Cache!ConnectivityMutations, Cache!ConnectivityQueries
<1> QED
  BY <1>5, <1>6, <1>7, <1>8

LEMMA AccessTable == \A x \in DOMAIN Cache!AccessMutations : MutationOk("access", x, Cache!AccessMutations[x])
<1>1. Cache!Queries["access"] = {"requests mine", "grants mine", "pending-approvals"}
  BY DEF Cache!Queries, Cache!AccessQueries
<1>2. PICK r : r = Cache!Mutation({"requests mine", "pending-approvals"}, {},
                                  <<{"requests mine", "grants mine", "pending-approvals"}>>)
  OBVIOUS
<1>3. PICK d : d = Cache!Mutation({"requests mine", "grants mine", "pending-approvals"}, {},
                                  <<{"requests mine", "grants mine", "pending-approvals"}>>)
  OBVIOUS
<1>4. \A x : MutationOk("access", x, r)
  BY <1>1, <1>2, AwaitsOne, EntryOk
<1>5. \A x : MutationOk("access", x, d)
  BY <1>1, <1>3, AwaitsOne, EntryOk
<1>6. Cache!AccessMutations = [createRequest |-> r, cancelRequest |-> r, decideRequest |-> d]
  BY <1>2, <1>3 DEF Cache!AccessMutations, Cache!AccessQueries
<1> QED
  BY <1>4, <1>5, <1>6

LEMMA IamTable == \A x \in DOMAIN Cache!IamMutations : MutationOk("iam", x, Cache!IamMutations[x])
<1>1. Cache!Queries["iam"] = {"users", "roles", "identity", "role permissions"}
  BY DEF Cache!Queries, Cache!IamQueries
<1>2. PICK b : b = Cache!Mutation({"users", "identity"}, {}, <<{"users", "roles", "identity", "role permissions"}>>)
  OBVIOUS
<1>3. \A x : MutationOk("iam", x, b)
  BY <1>1, <1>2, AwaitsOne, EntryOk
<1>4. Cache!IamMutations = [bindRole |-> b, unbindRole |-> b]
  BY <1>2 DEF Cache!IamMutations, Cache!IamQueries
<1> QED
  BY <1>3, <1>4

LEMMA OidcTable == \A x \in DOMAIN Cache!OidcMutations : MutationOk("oidc", x, Cache!OidcMutations[x])
<1>1. Cache!Queries["oidc"] = {"settings"}
  BY DEF Cache!Queries, Cache!OidcQueries
<1>2. PICK s : s = Cache!Mutation({"settings"}, {}, <<{"settings"}>>)
  OBVIOUS
<1>3. \A x : MutationOk("oidc", x, s)
  BY <1>1, <1>2, AwaitsOne, EntryOk
<1>4. Cache!OidcMutations = [saveSettings |-> s]
  BY <1>2 DEF Cache!OidcMutations, Cache!OidcQueries
<1> QED
  BY <1>3, <1>4

LEMMA CmdbTable == \A x \in DOMAIN Cache!CmdbMutations : MutationOk("cmdb", x, Cache!CmdbMutations[x])
<1>1. Cache!Queries["cmdb"] = {"list", "tree", "facets", "detail", "connection", "probe", "relations"}
  BY DEF Cache!Queries, Cache!CmdbQueries, Cache!DrawerQueries
<1>2. /\ <<"updateAsset", "facets">> \in Cache!Forgotten /\ <<"updateAsset", "relations">> \in Cache!Forgotten
      /\ <<"promoteVPCProxy", "connection">> \in Cache!Forgotten
      /\ \A k \in {"list", "tree", "detail"} : <<"runProbe", k>> \in Cache!Forgotten
      /\ \A x \in {"createAsset", "updateAsset", "deleteAsset", "promoteVPCProxy", "demoteVPCProxy"} :
            <<x, "tree">> \in Cache!Forgotten
  BY DEF Cache!Forgotten
<1>3. PICK t1 : t1 = Cache!Mutation({"connection"}, {"connection"}, <<{"connection"}>>)
  OBVIOUS
<1>4. MutationOk("cmdb", "saveConnection", t1)
  BY <1>1, <1>2, <1>3, AwaitsOne, EntryOk
<1>5. PICK t2 : t2 = Cache!Mutation({"connection"}, {}, <<{"connection"}>>)
  OBVIOUS
<1>6. MutationOk("cmdb", "testConnection", t2)
  BY <1>1, <1>2, <1>5, AwaitsOne, EntryOk
<1>7. PICK t3 : t3 = Cache!Mutation({"list", "tree", "facets"}, {}, <<{"list"}, {"facets"}>>)
  OBVIOUS
<1>8. MutationOk("cmdb", "createAsset", t3)
  BY <1>1, <1>2, <1>7, EntryTwo
<1>9. PICK t4 : t4 = Cache!Mutation({"list", "tree", "facets", "detail", "relations"}, {"detail"}, <<{"list"}>>)
  OBVIOUS
<1>10. MutationOk("cmdb", "updateAsset", t4)
  BY <1>1, <1>2, <1>9, AwaitsOne, EntryOk
<1>11. PICK t5 : t5 = Cache!Mutation({"list", "tree", "facets"}, {}, <<{"list"}, {"facets"}>>)
  OBVIOUS
<1>12. MutationOk("cmdb", "deleteAsset", t5)
  BY <1>1, <1>2, <1>11, EntryTwo
<1>13. PICK t6 : t6 = Cache!Mutation({"probe", "connection", "list", "tree", "detail"}, {"probe"},
                                    <<{"probe"}, {"connection"}>>)
  OBVIOUS
<1>14. MutationOk("cmdb", "runProbe", t6)
  BY <1>1, <1>2, <1>13, EntryTwo
<1>15. PICK t7 : t7 = Cache!Mutation({"list", "tree", "detail", "connection"}, {"detail"}, <<{"list"}>>)
  OBVIOUS
<1>16. MutationOk("cmdb", "promoteVPCProxy", t7)
  BY <1>1, <1>2, <1>15, AwaitsOne, EntryOk
<1>17. PICK t8 : t8 = Cache!Mutation({"list", "tree", "detail"}, {}, <<{"list"}, {"detail"}>>)
  OBVIOUS
<1>18. MutationOk("cmdb", "demoteVPCProxy", t8)
  BY <1>1, <1>2, <1>17, EntryTwo
<1>19. PICK t9 : t9 = Cache!Mutation({"relations"}, {}, <<{"relations"}>>)
  OBVIOUS
<1>20. MutationOk("cmdb", "deleteRelation", t9)
  BY <1>1, <1>2, <1>19, AwaitsOne, EntryOk
<1>21. {"list", "tree", "facets"} \cup {"detail", "relations"} = {"list", "tree", "facets", "detail", "relations"}
  OBVIOUS
<1>22. Cache!CmdbMutations =
         [saveConnection |-> t1, testConnection |-> t2, createAsset |-> t3, updateAsset |-> t4,
          deleteAsset |-> t5, runProbe |-> t6, promoteVPCProxy |-> t7,
          demoteVPCProxy |-> t8, deleteRelation |-> t9]
  BY <1>3, <1>5, <1>7, <1>9, <1>11, <1>13, <1>15, <1>17, <1>19, <1>21 DEF Cache!CmdbMutations
<1> QED
  BY <1>4, <1>6, <1>8, <1>10, <1>12, <1>14, <1>16, <1>18, <1>20, <1>22

(* The mutations of a page.                                                 *)
LEMMA TableOk ==
  ASSUME NEW p \in CachePages, NEW x \in DOMAIN Cache!Tables[p]
  PROVE  MutationOk(p, x, Cache!Tables[p][x])
<1>1. Cache!Tables["aws"] = Cache!AwsMutations /\ Cache!Tables["connectivity"] = Cache!ConnectivityMutations
  BY DEF Cache!Tables
<1>2. Cache!Tables["access"] = Cache!AccessMutations /\ Cache!Tables["iam"] = Cache!IamMutations
  BY DEF Cache!Tables
<1>3. Cache!Tables["oidc"] = Cache!OidcMutations /\ Cache!Tables["cmdb"] = Cache!CmdbMutations
  BY DEF Cache!Tables
<1> QED
  BY <1>1, <1>2, <1>3, AwsTable, ConnectivityTable, AccessTable, IamTable, OidcTable, CmdbTable DEF CachePages

(* Whether a page u has the query k enabled.                                *)
Enabled(u, k) == Cache!enabled(k, u.view, u.drawer)

(* The query q has no more than the version n.                              *)
QueryOf(q, n) == q \in CacheQuery /\ q.data <= n /\ q.got <= n

(* What becomes of a query r: whatever it showed, q shows, up to version n. *)
Carries(r, q, n) == QueryOf(q, n) /\ \A v \in Nat : v <= n /\ Fresh(r, v) => Fresh(q, v)

(* A query and its fields.                                                  *)
LEMMA QueryFields ==
  ASSUME NEW q \in CacheQuery
  PROVE  /\ q = [data |-> q.data, load |-> q.load, got |-> q.got, failed |-> q.failed, late |-> q.late]
         /\ q.data \in Nat /\ q.load \in {"idle", "asked", "answered"} /\ q.got \in Nat
         /\ q.failed \in BOOLEAN /\ q.late \in BOOLEAN
BY DEF CacheQuery

(* A load that is begun will show whatever the server has.                  *)
LEMMA LoadBegun ==
  ASSUME NEW n \in Nat, NEW q, QueryOf(q, n)
  PROVE  /\ QueryOf(Cache!begun(q), n) /\ \A v : Fresh(Cache!begun(q), v)
         /\ QueryOf([q EXCEPT !.late = TRUE], n) /\ \A v : Fresh([q EXCEPT !.late = TRUE], v)
<1>1. /\ q = [data |-> q.data, load |-> q.load, got |-> q.got, failed |-> q.failed, late |-> q.late]
      /\ q.data \in Nat /\ q.load \in {"idle", "asked", "answered"} /\ q.got \in Nat
      /\ q.failed \in BOOLEAN /\ q.late \in BOOLEAN /\ q.data <= n /\ q.got <= n
  BY QueryFields DEF QueryOf
<1>2. PICK f \in BOOLEAN, t \in BOOLEAN : f = FALSE /\ t = TRUE
  OBVIOUS
<1>3. PICK b : b = Cache!begun(q)
  OBVIOUS
<1>4. b = [data |-> q.data, load |-> "asked", got |-> 0, failed |-> q.failed, late |-> f]
  BY <1>1, <1>2, <1>3 DEF Cache!begun
<1>5. b \in CacheQuery /\ b.data = q.data /\ b.got = 0 /\ b.load = "asked"
  BY <1>1, <1>4 DEF CacheQuery
<1>6. QueryOf(b, n) /\ \A v : Fresh(b, v)
  BY <1>1, <1>5 DEF QueryOf, Fresh
<1>7. PICK l : l = [q EXCEPT !.late = TRUE]
  OBVIOUS
<1>8. l = [data |-> q.data, load |-> q.load, got |-> q.got, failed |-> q.failed, late |-> t]
  BY <1>1, <1>2, <1>7
<1>9. l \in CacheQuery /\ l.data = q.data /\ l.got = q.got /\ l.late
  BY <1>1, <1>2, <1>8 DEF CacheQuery
<1>10. QueryOf(l, n) /\ \A v : Fresh(l, v)
  BY <1>1, <1>9 DEF QueryOf, Fresh
<1> QED
  BY <1>3, <1>6, <1>7, <1>10

(* refetched and mounted begin a load or join one, and say so.              *)
LEMMA LoadedAgain ==
  ASSUME NEW n \in Nat, NEW q, QueryOf(q, n)
  PROVE  \A r \in {Cache!refetched(q), Cache!mounted(q)} : QueryOf(r, n) /\ \A v : Fresh(r, v)
<1>1. PICK b, l : b = Cache!begun(q) /\ l = [q EXCEPT !.late = TRUE]
  OBVIOUS
<1>2. \A r \in {b, l} : QueryOf(r, n) /\ \A v : Fresh(r, v)
  BY <1>1, LoadBegun
<1>3. Cache!refetched(q) \in {b, l} /\ Cache!mounted(q) \in {b, l}
  BY <1>1 DEF Cache!refetched, Cache!mounted
<1> QED
  BY <1>2, <1>3

(* invalidateQueries.                                                       *)
LEMMA Invalidated ==
  ASSUME NEW K, NEW d \in [K -> Nat], NEW qs, qs = [k \in K |-> qs[k]], \A k \in K : QueryOf(qs[k], d[k]), NEW keys,
         NEW ns, ns = Cache!invalidateQueries(keys, qs)
  PROVE  /\ ns = [k \in K |-> ns[k]] /\ \A k \in K : Carries(qs[k], ns[k], d[k])
         /\ \A k \in K : k \in keys /\ Enabled(ui, k) => \A v : Fresh(ns[k], v)
<1>1. ns = [k \in K |-> IF k \in keys /\ Enabled(ui, k) THEN Cache!refetched(qs[k]) ELSE qs[k]]
  BY DEF Cache!invalidateQueries, Cache!shown, Enabled
<1>2. ASSUME NEW k \in K
      PROVE  /\ Carries(qs[k], ns[k], d[k])
             /\ k \in keys /\ Enabled(ui, k) => \A v : Fresh(ns[k], v)
  <2>1. d[k] \in Nat /\ QueryOf(qs[k], d[k])
    OBVIOUS
  <2>2. PICK r : r = Cache!refetched(qs[k])
    OBVIOUS
  <2>3. QueryOf(r, d[k]) /\ \A v : Fresh(r, v)
    BY <2>1, <2>2, LoadedAgain
  <2>4. ns[k] = IF k \in keys /\ Enabled(ui, k) THEN r ELSE qs[k]
    BY <1>1, <2>2
  <2> QED
    BY <2>1, <2>3, <2>4 DEF Carries
<1> QED
  BY <1>1, <1>2

(* One query that setQueryData puts the version w into.                     *)
DataIn(q, w, r) ==
  r = [q EXCEPT !.data = w, !.failed = FALSE, !.late = q.late \/ q.failed \/ q.load # "idle" \/ q.data > w]

LEMMA DataPut ==
  ASSUME NEW n \in Nat, NEW q, QueryOf(q, n), NEW w \in Nat, w <= n, NEW r, DataIn(q, w, r)
  PROVE  Carries(q, r, n) /\ Fresh(r, w)
<1> PICK l : l = (q.late \/ q.failed \/ q.load # "idle" \/ q.data > w)
  OBVIOUS
<1>0. r = [q EXCEPT !.data = w, !.failed = FALSE, !.late = l]
  BY DEF DataIn
<1>1. /\ q = [data |-> q.data, load |-> q.load, got |-> q.got, failed |-> q.failed, late |-> q.late]
      /\ q.data \in Nat /\ q.load \in {"idle", "asked", "answered"} /\ q.got \in Nat
      /\ q.failed \in BOOLEAN /\ q.late \in BOOLEAN /\ q.data <= n /\ q.got <= n
  BY QueryFields DEF QueryOf
<1>2. l \in BOOLEAN
  BY Zenon
<1>3. PICK f \in BOOLEAN : f = FALSE
  OBVIOUS
<1>4. PICK r1 : r1 = [q EXCEPT !.data = w]
  OBVIOUS
<1>5. r1 = [data |-> w, load |-> q.load, got |-> q.got, failed |-> q.failed, late |-> q.late]
  BY <1>1, <1>4
<1>6. PICK r2 : r2 = [r1 EXCEPT !.failed = f]
  OBVIOUS
<1>7. r2 = [data |-> w, load |-> q.load, got |-> q.got, failed |-> f, late |-> q.late]
  BY <1>5, <1>6
<1>8. r = [r2 EXCEPT !.late = l]
  BY <1>0, <1>3, <1>4, <1>6
<1>9. r = [data |-> w, load |-> q.load, got |-> q.got, failed |-> f, late |-> l]
  BY <1>7, <1>8
<1>10. r \in CacheQuery /\ r.data = w /\ r.load = q.load /\ r.got = q.got /\ r.late = l
  BY <1>1, <1>2, <1>9 DEF CacheQuery
<1>11. QueryOf(r, n)
  BY <1>1, <1>10 DEF QueryOf
<1>12. Fresh(r, w)
  <2>1. SUFFICES ASSUME ~ l PROVE Fresh(r, w)
    BY <1>10 DEF Fresh
  <2>2. q.load = "idle"
    BY <2>1, Zenon
  <2>3. r.load = "idle" /\ r.data = w
    BY <1>10, <2>2
  <2> QED
    BY <2>3 DEF Fresh
<1>13. ASSUME NEW v \in Nat, Fresh(q, v) PROVE Fresh(r, v)
  <2>1. SUFFICES ASSUME ~ l PROVE Fresh(r, v)
    BY <1>10 DEF Fresh
  <2>2. ~ q.late /\ ~ q.failed /\ q.load = "idle" /\ ~ (q.data > w)
    BY <2>1
  <2>3. v <= w
    BY <1>1, <1>13, <2>2 DEF Fresh
  <2> QED
    BY <1>10, <2>2, <2>3 DEF Fresh
<1> QED
  BY <1>11, <1>12, <1>13 DEF Carries

(* setQueryData.                                                            *)
LEMMA DataSet ==
  ASSUME NEW K, NEW d \in [K -> Nat], NEW qs, qs = [k \in K |-> qs[k]], \A k \in K : QueryOf(qs[k], d[k]),
         NEW keys, NEW w, \A k \in keys : k \in K /\ w[k] \in Nat /\ w[k] <= d[k],
         NEW ns, ns = Cache!setQueryData(keys, w, qs)
  PROVE  /\ ns = [k \in K |-> ns[k]] /\ \A k \in K : Carries(qs[k], ns[k], d[k])
         /\ \A k \in keys : Fresh(ns[k], w[k])
<1>1. ns = [k \in K |-> IF k \in keys
                        THEN [qs[k] EXCEPT !.data = w[k], !.failed = FALSE,
                                           !.late = \/ qs[k].late \/ qs[k].failed
                                                    \/ qs[k].load # "idle" \/ qs[k].data > w[k]]
                        ELSE qs[k]]
  BY DEF Cache!setQueryData
<1>2. ASSUME NEW k \in K, k \in keys PROVE Carries(qs[k], ns[k], d[k]) /\ Fresh(ns[k], w[k])
  <2>1. DataIn(qs[k], w[k], ns[k])
    BY <1>1, <1>2 DEF DataIn
  <2>2. d[k] \in Nat /\ QueryOf(qs[k], d[k]) /\ w[k] \in Nat /\ w[k] <= d[k]
    BY <1>2
  <2> QED
    BY <2>1, <2>2, DataPut
<1>3. ASSUME NEW k \in K, k \notin keys PROVE Carries(qs[k], ns[k], d[k])
  BY <1>1, <1>3 DEF Carries
<1> QED
  BY <1>1, <1>2, <1>3

(* The server has read the version n of the data behind q.                  *)
LEMMA LoadAnswered ==
  ASSUME NEW n \in Nat, NEW q, QueryOf(q, n), NEW r, r = [q EXCEPT !.load = "answered", !.got = n]
  PROVE  Carries(q, r, n)
<1>1. /\ q = [data |-> q.data, load |-> q.load, got |-> q.got, failed |-> q.failed, late |-> q.late]
      /\ q.data \in Nat /\ q.failed \in BOOLEAN /\ q.late \in BOOLEAN /\ q.data <= n
  BY QueryFields DEF QueryOf
<1>2. r = [data |-> q.data, load |-> "answered", got |-> n, failed |-> q.failed, late |-> q.late]
  BY <1>1
<1>3. r \in CacheQuery /\ r.data = q.data /\ r.got = n /\ r.load = "answered"
  BY <1>1, <1>2 DEF CacheQuery
<1>4. QueryOf(r, n) /\ \A v \in Nat : v <= n => Fresh(r, v)
  BY <1>1, <1>3 DEF QueryOf, Fresh
<1> QED
  BY <1>4 DEF Carries

(* The answer has arrived.                                                  *)
LEMMA LoadReceived ==
  ASSUME NEW n \in Nat, NEW q, QueryOf(q, n), q.load = "answered",
         NEW r, r = [Cache!Query(q.got) EXCEPT !.late = q.late]
  PROVE  Carries(q, r, n)
<1>1. q.got \in Nat /\ q.late \in BOOLEAN /\ q.got <= n
  BY QueryFields DEF QueryOf
<1>2. PICK f \in BOOLEAN : f = FALSE
  OBVIOUS
<1>3. r = [data |-> q.got, load |-> "idle", got |-> 0, failed |-> f, late |-> q.late]
  BY <1>2 DEF Cache!Query
<1>4. r \in CacheQuery /\ r.data = q.got /\ r.got = 0 /\ r.load = "idle" /\ r.late = q.late
  BY <1>1, <1>3 DEF CacheQuery
<1>5. QueryOf(r, n)
  BY <1>1, <1>4 DEF QueryOf
<1>6. ASSUME NEW v \in Nat, Fresh(q, v) PROVE Fresh(r, v)
  BY <1>4, <1>6 DEF Fresh
<1> QED
  BY <1>5, <1>6 DEF Carries

(* The load has failed.                                                     *)
FailedLoad(q, r) == r = [q EXCEPT !.load = "idle", !.got = 0, !.failed = TRUE]

LEMMA LoadFailed ==
  ASSUME NEW n \in Nat, NEW q, QueryOf(q, n), NEW r, FailedLoad(q, r)
  PROVE  Carries(q, r, n)
<1>1. /\ q = [data |-> q.data, load |-> q.load, got |-> q.got, failed |-> q.failed, late |-> q.late]
      /\ q.data \in Nat /\ q.late \in BOOLEAN /\ q.data <= n
  BY QueryFields DEF QueryOf
<1>2. PICK t \in BOOLEAN : t = TRUE
  OBVIOUS
<1>3. PICK r1 : r1 = [q EXCEPT !.load = "idle"]
  OBVIOUS
<1>4. PICK r2 : r2 = [r1 EXCEPT !.got = 0]
  OBVIOUS
<1>5. r1 = [data |-> q.data, load |-> "idle", got |-> q.got, failed |-> q.failed, late |-> q.late]
  BY <1>1, <1>3
<1>6. r2 = [data |-> q.data, load |-> "idle", got |-> 0, failed |-> q.failed, late |-> q.late]
  BY <1>4, <1>5
<1>7. r = [r2 EXCEPT !.failed = t]
  BY <1>2, <1>3, <1>4 DEF FailedLoad
<1>8. r = [data |-> q.data, load |-> "idle", got |-> 0, failed |-> t, late |-> q.late]
  BY <1>6, <1>7
<1>9. r \in CacheQuery /\ r.data = q.data /\ r.got = 0 /\ r.load = "idle" /\ r.failed = t
  BY <1>1, <1>8 DEF CacheQuery
<1>10. QueryOf(r, n) /\ \A v \in Nat : Fresh(r, v)
  BY <1>1, <1>2, <1>9 DEF QueryOf, Fresh
<1> QED
  BY <1>10 DEF Carries

-----------------------------------------------------------------------------
CacheView(u) ==
  /\ u = [page |-> u.page, view |-> u.view, drawer |-> u.drawer, gone |-> u.gone, calls |-> u.calls, owed |-> u.owed]
  /\ u.page \in CachePages /\ u.calls \in Nat /\ u.calls <= MaxCalls
  /\ u.owed \in [Cache!Queries[u.page] -> Nat]

(* The queries n of the page u over the data d.                             *)
CacheData(u, d, n) ==
  /\ d \in [Cache!Queries[u.page] -> Nat]
  /\ n = [k \in Cache!Queries[u.page] |-> n[k]]
  /\ \A k \in Cache!Queries[u.page] :
        QueryOf(n[k], d[k]) /\ u.owed[k] <= d[k] /\ Fresh(n[k], u.owed[k])

(* The queries that a callback is done with show what its call has written. *)
Settled(c, u, n) ==
  \A k \in DOMAIN c.wrote :
     <<c.x, k>> \notin Cache!Forgotten /\ Enabled(u, k) /\ k \notin Later(c.left) => Fresh(n[k], c.wrote[k])

CacheCall(c, u, d, n) ==
  /\ c = [x |-> c.x, phase |-> c.phase, wrote |-> c.wrote, left |-> c.left]
  /\ c.x \in DOMAIN Cache!Tables[u.page] /\ c.phase \in {"sent", "done", "settling"}
  /\ c.phase # "sent" =>
        \A k \in DOMAIN c.wrote : k \in Cache!Queries[u.page] /\ c.wrote[k] \in Nat /\ c.wrote[k] <= d[k]
  /\ c.phase = "done" => DOMAIN c.wrote = Cache!Tables[u.page][c.x].writes
  /\ c.phase = "settling" => Awaits(c.left) /\ Settled(c, u, n)

(* The mutations that the server has yet to execute, each of which writes   *)
(* one version of a query at most.                                          *)
SentMutations(s) == {c.x : c \in {e \in s : e.phase = "sent"}}

CacheBound(u, d, s) ==
  /\ IsFiniteSet(SentMutations(s)) /\ \A b, c \in s : b.x = c.x => b = c
  /\ \A k \in Cache!Queries[u.page] : d[k] + Cardinality(SentMutations(s)) <= u.calls + 1

CacheInv ==
  /\ CacheView(ui) /\ CacheData(ui, db, cache) /\ CacheBound(ui, db, m)
  /\ \A c \in m : CacheCall(c, ui, db, cache)

LEMMA CacheInit == Cache!Init => CacheInv
<1> SUFFICES ASSUME Cache!Init PROVE CacheInv
  OBVIOUS
<1>1. DOMAIN Cache!Tables = CachePages
  BY DEF Cache!Tables, CachePages
<1>2. PICK p \in CachePages :
         /\ db = [k \in Cache!Queries[p] |-> 1] /\ m = {}
         /\ \E first \in SUBSET Cache!Queries[p] :
               cache = [k \in Cache!Queries[p] |->
                           IF k = "tree" THEN Cache!Query(0)
                           ELSE IF k \in first THEN Cache!begun(Cache!Query(0)) ELSE Cache!Query(1)]
         /\ ui = [page |-> p, view |-> "list", drawer |-> TRUE, gone |-> FALSE, calls |-> 0,
                  owed |-> [k \in Cache!Queries[p] |-> 0]]
  BY <1>1 DEF Cache!Init
<1>3. PICK K, o : K = Cache!Queries[p] /\ o = [k \in K |-> 0]
  OBVIOUS
<1>4. /\ ui.page = p /\ ui.calls = 0 /\ ui.owed = o
      /\ ui = [page |-> ui.page, view |-> ui.view, drawer |-> ui.drawer, gone |-> ui.gone, calls |-> ui.calls,
               owed |-> ui.owed]
  BY <1>2, <1>3
<1>5. CacheView(ui)
  BY <1>3, <1>4, BoundsAssumption DEF CacheView
<1>6. \A v \in {0, 1} : QueryOf(Cache!Query(v), 1) /\ Fresh(Cache!Query(v), 0)
  <2>1. PICK f \in BOOLEAN : f = FALSE
    OBVIOUS
  <2>2. ASSUME NEW v \in {0, 1}, NEW q, q = [data |-> v, load |-> "idle", got |-> 0, failed |-> f, late |-> f]
        PROVE  QueryOf(q, 1) /\ Fresh(q, 0)
    BY <2>2 DEF QueryOf, CacheQuery, Fresh
  <2> QED
    BY <2>1, <2>2 DEF Cache!Query
<1>7. ASSUME NEW k \in K PROVE QueryOf(cache[k], 1) /\ Fresh(cache[k], 0)
  <2>1. PICK q, b, r : q = Cache!Query(0) /\ b = Cache!begun(q) /\ r = Cache!Query(1)
    OBVIOUS
  <2>2. QueryOf(q, 1) /\ Fresh(q, 0) /\ QueryOf(r, 1) /\ Fresh(r, 0)
    BY <1>6, <2>1
  <2>3. QueryOf(b, 1) /\ Fresh(b, 0)
    <3>1. PICK n \in Nat : n = 1
      OBVIOUS
    <3> QED
      BY <2>1, <2>2, <3>1, LoadBegun
  <2>4. cache[k] \in {q, b, r}
    BY <1>2, <1>3, <2>1
  <2> QED
    BY <2>2, <2>3, <2>4
<1>8. CacheData(ui, db, cache)
  <2>1. db \in [K -> Nat] /\ cache = [k \in K |-> cache[k]] /\ \A k \in K : db[k] = 1 /\ o[k] = 0
    BY <1>2, <1>3
  <2> QED
    BY <1>3, <1>4, <1>7, <2>1 DEF CacheData
<1>9. CacheBound(ui, db, m)
  <2>1. SentMutations(m) = {}
    BY <1>2 DEF SentMutations
  <2>2. \A k \in K : db[k] = 1
    BY <1>2, <1>3
  <2>3. IsFiniteSet(SentMutations(m)) /\ Cardinality(SentMutations(m)) = 0
    BY <2>1, FS_EmptySet
  <2>4. \A k \in K : db[k] + Cardinality(SentMutations(m)) <= ui.calls + 1
    BY <1>4, <2>2, <2>3
  <2>5. \A b, c \in m : b.x = c.x => b = c
    BY <1>2
  <2> QED
    BY <1>3, <1>4, <2>3, <2>4, <2>5 DEF CacheBound
<1> QED
  BY <1>2, <1>5, <1>8, <1>9 DEF CacheInv

(* A call that is left alone, over other data d2, queries n2 and page u2.   *)
LEMMA CallKept ==
  ASSUME NEW c, NEW u, NEW d, NEW n, CacheCall(c, u, d, n), NEW u2, u2.page = u.page, NEW d2, NEW n2,
         \A k \in Cache!Queries[u.page] : d[k] \in Nat /\ d2[k] \in Nat /\ d[k] <= d2[k],
         \A k \in Cache!Queries[u.page] : Carries(n[k], n2[k], d2[k]),
         \A k \in Cache!Queries[u.page] : Enabled(u2, k) => Enabled(u, k) \/ \A v : Fresh(n2[k], v)
  PROVE  CacheCall(c, u2, d2, n2)
<1>1. CASE c.phase = "sent"
  BY <1>1 DEF CacheCall
<1>2. CASE c.phase # "sent"
  <2>1. ASSUME NEW k \in DOMAIN c.wrote
        PROVE  k \in Cache!Queries[u.page] /\ c.wrote[k] \in Nat /\ c.wrote[k] <= d[k] /\ c.wrote[k] <= d2[k]
    <3>1. k \in Cache!Queries[u.page] /\ c.wrote[k] \in Nat /\ c.wrote[k] <= d[k]
      BY <1>2 DEF CacheCall
    <3>2. d[k] \in Nat /\ d2[k] \in Nat /\ d[k] <= d2[k]
      BY <3>1
    <3> QED
      BY <3>1, <3>2
  <2>2. ASSUME Settled(c, u, n) PROVE Settled(c, u2, n2)
    <3>1. SUFFICES ASSUME NEW k \in DOMAIN c.wrote, <<c.x, k>> \notin Cache!Forgotten, Enabled(u2, k),
                          k \notin Later(c.left)
                   PROVE  Fresh(n2[k], c.wrote[k])
      BY DEF Settled
    <3>2. CASE Enabled(u, k)
      BY <2>1, <2>2, <3>1, <3>2 DEF Settled, Carries
    <3>3. CASE ~ Enabled(u, k)
      BY <2>1, <3>1, <3>3
    <3> QED
      BY <3>2, <3>3
  <2> QED
    BY <2>1, <2>2 DEF CacheCall
<1> QED
  BY <1>1, <1>2

(* A step at the page: the server's data stay.                              *)
LEMMA CacheStep ==
  ASSUME CacheInv, db' = db, CacheView(ui'), ui'.page = ui.page, ui.calls <= ui'.calls,
         cache' = [k \in Cache!Queries[ui.page] |-> cache'[k]],
         \A k \in Cache!Queries[ui.page] :
            /\ Carries(cache[k], cache'[k], db[k])
            /\ ui'.owed[k] <= db[k] /\ Fresh(cache'[k], ui'.owed[k])
            /\ Enabled(ui', k) => Enabled(ui, k) \/ \A v : Fresh(cache'[k], v),
         SentMutations(m') \subseteq SentMutations(m), \A b, c \in m' : b.x = c.x => b = c,
         \A c \in m' : c \in m \/ CacheCall(c, ui', db, cache')
  PROVE  CacheInv'
<1>1. PICK K : K = Cache!Queries[ui.page] /\ K = Cache!Queries[ui'.page]
  OBVIOUS
<1>2. /\ db \in [K -> Nat] /\ \A k \in K : db[k] \in Nat /\ ui.calls \in Nat /\ ui'.calls \in Nat
      /\ IsFiniteSet(SentMutations(m)) /\ \A k \in K : db[k] + Cardinality(SentMutations(m)) <= ui.calls + 1
  BY <1>1 DEF CacheInv, CacheView, CacheData, CacheBound
<1>3. CacheData(ui', db', cache')
  <2>1. cache' = [k \in K |-> cache'[k]]
    BY <1>1
  <2>2. \A k \in K : QueryOf(cache'[k], db[k]) /\ ui'.owed[k] <= db[k] /\ Fresh(cache'[k], ui'.owed[k])
    BY <1>1 DEF Carries
  <2> QED
    BY <1>1, <1>2, <2>1, <2>2 DEF CacheData
<1>4. IsFiniteSet(SentMutations(m')) /\ Cardinality(SentMutations(m')) <= Cardinality(SentMutations(m))
  BY <1>2, FS_Subset
<1>5. Cardinality(SentMutations(m')) \in Nat /\ Cardinality(SentMutations(m)) \in Nat
  BY <1>2, <1>4, FS_CardinalityType
<1>6. ASSUME NEW k \in K PROVE db[k] + Cardinality(SentMutations(m')) <= ui'.calls + 1
  <2>1. db[k] \in Nat /\ ui.calls \in Nat /\ ui'.calls \in Nat
        /\ db[k] + Cardinality(SentMutations(m)) <= ui.calls + 1
    BY <1>2
  <2> QED
    BY <1>4, <1>5, <2>1
<1>7. CacheBound(ui', db', m')
  BY <1>1, <1>4, <1>6 DEF CacheBound
<1>8. ASSUME NEW c \in m PROVE CacheCall(c, ui', db, cache')
  <2>1. CacheCall(c, ui, db, cache)
    BY DEF CacheInv
  <2>2. \A k \in Cache!Queries[ui.page] : db[k] \in Nat /\ db[k] <= db[k]
    BY <1>1, <1>2
  <2> QED
    BY <2>1, <2>2, CallKept
<1>9. \A c \in m' : CacheCall(c, ui', db', cache')
  BY <1>8
<1> QED
  BY <1>3, <1>7, <1>9 DEF CacheInv

(* The fields of the page.                                                  *)
LEMMA CacheFacts ==
  ASSUME CacheInv, NEW K, K = Cache!Queries[ui.page]
  PROVE  /\ ui = [page |-> ui.page, view |-> ui.view, drawer |-> ui.drawer, gone |-> ui.gone, calls |-> ui.calls,
                  owed |-> ui.owed]
         /\ ui.page \in CachePages /\ ui.calls \in Nat /\ ui.calls <= MaxCalls /\ ui.owed \in [K -> Nat]
         /\ db \in [K -> Nat] /\ cache = [k \in K |-> cache[k]]
         /\ \A k \in K : /\ db[k] \in Nat /\ ui.owed[k] \in Nat /\ QueryOf(cache[k], db[k])
                         /\ ui.owed[k] <= db[k] /\ Fresh(cache[k], ui.owed[k])
         /\ \A b, c \in m : b.x = c.x => b = c
         /\ \A c \in m : CacheCall(c, ui, db, cache)
BY DEF CacheInv, CacheView, CacheData, CacheBound

(* A query that nothing happens to.                                         *)
LEMMA SameQuery ==
  ASSUME NEW q, NEW n, QueryOf(q, n)
  PROVE  Carries(q, q, n)
BY DEF Carries

(* A call is made.                                                          *)
LEMMA CacheCalled ==
  ASSUME CacheInv, NEW x \in DOMAIN Cache!table, Cache!call(x)
  PROVE  CacheInv'
<1>1. PICK K : K = Cache!Queries[ui.page]
  OBVIOUS
<1>2. /\ ui = [page |-> ui.page, view |-> ui.view, drawer |-> ui.drawer, gone |-> ui.gone, calls |-> ui.calls,
               owed |-> ui.owed]
      /\ ui.page \in CachePages /\ ui.calls \in Nat /\ ui.owed \in [K -> Nat]
      /\ \A k \in K : db[k] \in Nat
      /\ \A b, c \in m : b.x = c.x => b = c
      /\ \A c \in m : CacheCall(c, ui, db, cache)
  BY <1>1, CacheFacts
<1>3. PICK e : e = [x |-> x, phase |-> "sent", wrote |-> Cache!NoWrites, left |-> <<>>]
  OBVIOUS
<1>4. /\ \A c \in m : c.x # x
      /\ ui.calls < MaxCalls /\ m' = m \cup {e} /\ ui' = [ui EXCEPT !.calls = ui.calls + 1] /\ UNCHANGED <<db, cache>>
  BY <1>3 DEF Cache!call, Cache!calling
<1>5. PICK j \in Nat : j = ui.calls + 1 /\ j <= MaxCalls
  BY <1>2, <1>4, BoundsAssumption
<1>6. ui' = [page |-> ui.page, view |-> ui.view, drawer |-> ui.drawer, gone |-> ui.gone, calls |-> j, owed |-> ui.owed]
  BY <1>2, <1>4, <1>5
<1>7. /\ ui'.page = ui.page /\ ui'.view = ui.view /\ ui'.drawer = ui.drawer /\ ui'.calls = j /\ ui'.owed = ui.owed
      /\ ui' = [page |-> ui'.page, view |-> ui'.view, drawer |-> ui'.drawer, gone |-> ui'.gone, calls |-> ui'.calls,
                owed |-> ui'.owed]
  BY <1>6
<1>8. CacheView(ui')
  BY <1>1, <1>2, <1>5, <1>7 DEF CacheView
<1>9. CacheData(ui', db', cache')
  BY <1>4, <1>7 DEF CacheInv, CacheData
<1>10. /\ e = [x |-> e.x, phase |-> e.phase, wrote |-> e.wrote, left |-> e.left] /\ e.x = x /\ e.phase = "sent"
  BY <1>3
<1>11. SentMutations(m') = SentMutations(m) \cup {x} /\ x \notin SentMutations(m)
  BY <1>4, <1>10 DEF SentMutations
<1>12. /\ IsFiniteSet(SentMutations(m)) /\ \A k \in K : db[k] + Cardinality(SentMutations(m)) <= ui.calls + 1
       /\ Cardinality(SentMutations(m)) \in Nat
  BY <1>1, FS_CardinalityType DEF CacheInv, CacheBound
<1>13. IsFiniteSet(SentMutations(m')) /\ Cardinality(SentMutations(m')) = Cardinality(SentMutations(m)) + 1
  BY <1>11, <1>12, FS_AddElement
<1>14. ASSUME NEW k \in K PROVE db[k] + Cardinality(SentMutations(m')) <= j + 1
  <2>1. db[k] \in Nat /\ db[k] + Cardinality(SentMutations(m)) <= ui.calls + 1
    BY <1>2, <1>12
  <2> QED
    BY <1>2, <1>5, <1>12, <1>13, <2>1
<1>15. \A b, c \in m' : b.x = c.x => b = c
  BY <1>2, <1>4, <1>10
<1>16. CacheBound(ui', db', m')
  BY <1>1, <1>4, <1>7, <1>13, <1>14, <1>15 DEF CacheBound
<1>17. CacheCall(e, ui, db, cache)
  BY <1>10 DEF CacheCall, Cache!table
<1>18. \A c \in m' : CacheCall(c, ui', db', cache')
  <2>1. \A c \in m' : CacheCall(c, ui, db, cache)
    BY <1>2, <1>4, <1>17
  <2>2. \A k : Enabled(ui', k) = Enabled(ui, k)
    BY <1>7 DEF Enabled
  <2> QED
    BY <1>4, <1>7, <2>1, <2>2 DEF CacheCall, Settled
<1> QED
  BY <1>8, <1>9, <1>16, <1>18 DEF CacheInv

(* What the server makes of the data d when it writes the queries in W.     *)
LEMMA WritesOneMore ==
  ASSUME NEW K, NEW d \in [K -> Nat], NEW W, NEW e, e = [k \in DOMAIN d |-> IF k \in W THEN d[k] + 1 ELSE d[k]]
  PROVE  e \in [K -> Nat] /\ \A k \in K : d[k] <= e[k] /\ e[k] <= d[k] + 1 /\ d[k] \in Nat /\ e[k] \in Nat
<1>1. e = [k \in K |-> IF k \in W THEN d[k] + 1 ELSE d[k]]
  OBVIOUS
<1>2. ASSUME NEW k \in K PROVE e[k] \in Nat /\ d[k] <= e[k] /\ e[k] <= d[k] + 1 /\ d[k] \in Nat
  <2>1. PICK n \in Nat : n = d[k]
    OBVIOUS
  <2>2. e[k] = n \/ e[k] = n + 1
    BY <1>1, <2>1
  <2> QED
    BY <2>1, <2>2
<1> QED
  BY <1>1, <1>2

(* More data at the server: the queries are what they were.                 *)
LEMMA MoreData ==
  ASSUME NEW q, NEW n \in Nat, NEW j \in Nat, n <= j, QueryOf(q, n)
  PROVE  Carries(q, q, j)
<1>1. q.data \in Nat /\ q.got \in Nat
  BY QueryFields DEF QueryOf
<1> QED
  BY <1>1 DEF QueryOf, Carries

(* The server executes a call.                                              *)
LEMMA CacheExecuted ==
  ASSUME CacheInv, NEW c \in m, Cache!executed(c)
  PROVE  CacheInv'
<1>1. PICK K, W : K = Cache!Queries[ui.page] /\ W = Cache!table[c.x].writes
  OBVIOUS
<1>2. /\ ui.calls \in Nat /\ db \in [K -> Nat] /\ cache = [k \in K |-> cache[k]] /\ CacheView(ui)
      /\ \A k \in K : /\ db[k] \in Nat /\ ui.owed[k] \in Nat /\ QueryOf(cache[k], db[k])
                      /\ ui.owed[k] <= db[k] /\ Fresh(cache[k], ui.owed[k])
      /\ \A b, d \in m : b.x = d.x => b = d
      /\ \A d \in m : CacheCall(d, ui, db, cache)
  BY <1>1, CacheFacts DEF CacheInv
<1>3. PICK w : w = [k \in W |-> db'[k]]
  OBVIOUS
<1>4. PICK e : e = [c EXCEPT !.phase = "done", !.wrote = w]
  OBVIOUS
<1>5. /\ c.phase = "sent" /\ db' = [k \in DOMAIN db |-> IF k \in W THEN db[k] + 1 ELSE db[k]]
      /\ m' = (m \ {c}) \cup {e} /\ UNCHANGED <<cache, ui>>
  BY <1>1, <1>3, <1>4 DEF Cache!executed
<1>6. db' \in [K -> Nat] /\ \A k \in K : db[k] <= db'[k] /\ db'[k] <= db[k] + 1 /\ db'[k] \in Nat
  BY <1>2, <1>5, WritesOneMore
<1>7. /\ c = [x |-> c.x, phase |-> c.phase, wrote |-> c.wrote, left |-> c.left]
      /\ c.x \in DOMAIN Cache!Tables[ui.page] /\ ui.page \in CachePages
  BY <1>2 DEF CacheCall, CacheView
<1>8. e = [x |-> c.x, phase |-> "done", wrote |-> w, left |-> c.left]
  BY <1>4, <1>7
<1>9. /\ e = [x |-> e.x, phase |-> e.phase, wrote |-> e.wrote, left |-> e.left]
      /\ e.x = c.x /\ e.phase = "done" /\ e.wrote = w
  BY <1>8
<1>10. W \subseteq K /\ W = Cache!Tables[ui.page][c.x].writes
  BY <1>1, <1>7, TableOk DEF MutationOk, Cache!table
<1>11. DOMAIN w = W /\ \A k \in W : k \in K /\ w[k] = db'[k] /\ w[k] \in Nat /\ w[k] <= db'[k]
  <2>1. PICK v : v = db'
    OBVIOUS
  <2>2. w = [k \in W |-> v[k]] /\ \A k \in K : v[k] \in Nat
    BY <1>3, <1>6, <2>1
  <2>3. DOMAIN w = W /\ \A k \in W : w[k] = v[k]
    BY <2>2
  <2>4. \A k \in W : k \in K /\ v[k] \in Nat
    BY <1>10, <2>2
  <2>5. \A k \in W : v[k] <= v[k]
    BY <2>4
  <2> QED
    BY <2>1, <2>3, <2>4, <2>5
<1>12. CacheCall(e, ui, db', cache)
  <2>1. PICK v : v = db'
    OBVIOUS
  <2>2. \A k \in DOMAIN e.wrote : k \in Cache!Queries[ui.page] /\ e.wrote[k] \in Nat /\ e.wrote[k] <= v[k]
    BY <1>1, <1>9, <1>11, <2>1
  <2>3. DOMAIN e.wrote = Cache!Tables[ui.page][e.x].writes
    BY <1>9, <1>10, <1>11
  <2>4. CacheCall(e, ui, v, cache)
    BY <1>7, <1>9, <2>2, <2>3 DEF CacheCall
  <2> QED
    BY <2>1, <2>4
<1>13. \A k \in K : Carries(cache[k], cache[k], db'[k])
  BY <1>2, <1>6, MoreData
<1>14. ASSUME NEW d \in m PROVE CacheCall(d, ui, db', cache)
  BY <1>1, <1>2, <1>6, <1>13, CallKept
<1>15. \A d \in m' : CacheCall(d, ui', db', cache')
  BY <1>5, <1>12, <1>14
<1>16. CacheData(ui', db', cache')
  <2>1. \A k \in K : QueryOf(cache[k], db'[k])
    BY <1>13 DEF Carries
  <2>2. ASSUME NEW k \in K PROVE ui.owed[k] <= db'[k]
    <3>1. ui.owed[k] \in Nat /\ db[k] \in Nat /\ db'[k] \in Nat /\ ui.owed[k] <= db[k] /\ db[k] <= db'[k]
      BY <1>2, <1>6
    <3> QED
      BY <3>1
  <2> QED
    BY <1>1, <1>2, <1>5, <1>6, <2>1, <2>2 DEF CacheData
<1>17. SentMutations(m') = SentMutations(m) \ {c.x} /\ c.x \in SentMutations(m)
  BY <1>2, <1>5, <1>9 DEF SentMutations
<1>18. /\ IsFiniteSet(SentMutations(m)) /\ \A k \in K : db[k] + Cardinality(SentMutations(m)) <= ui.calls + 1
       /\ Cardinality(SentMutations(m)) \in Nat
  BY <1>1, FS_CardinalityType DEF CacheInv, CacheBound
<1>19. /\ IsFiniteSet(SentMutations(m')) /\ Cardinality(SentMutations(m')) = Cardinality(SentMutations(m)) - 1
       /\ Cardinality(SentMutations(m')) \in Nat
  BY <1>17, <1>18, FS_RemoveElement, FS_CardinalityType
<1>20. ASSUME NEW k \in K PROVE db'[k] + Cardinality(SentMutations(m')) <= ui.calls + 1
  <2>1. db[k] \in Nat /\ db'[k] \in Nat /\ db'[k] <= db[k] + 1
        /\ db[k] + Cardinality(SentMutations(m)) <= ui.calls + 1
    BY <1>2, <1>6, <1>18
  <2> QED
    BY <1>2, <1>18, <1>19, <2>1
<1>21. \A b, d \in m' : b.x = d.x => b = d
  BY <1>2, <1>5, <1>9
<1>22. CacheBound(ui', db', m')
  BY <1>1, <1>5, <1>19, <1>20, <1>21 DEF CacheBound
<1> QED
  BY <1>2, <1>5, <1>15, <1>16, <1>22 DEF CacheInv

(* A synchronisation writes.                                                *)
LEMMA CacheRan ==
  ASSUME CacheInv, Cache!RunOnce
  PROVE  CacheInv'
<1>1. PICK K : K = Cache!Queries[ui.page]
  OBVIOUS
<1>2. /\ ui = [page |-> ui.page, view |-> ui.view, drawer |-> ui.drawer, gone |-> ui.gone, calls |-> ui.calls,
               owed |-> ui.owed]
      /\ ui.page \in CachePages /\ ui.calls \in Nat /\ ui.owed \in [K -> Nat]
      /\ db \in [K -> Nat] /\ cache = [k \in K |-> cache[k]]
      /\ \A k \in K : /\ db[k] \in Nat /\ ui.owed[k] \in Nat /\ QueryOf(cache[k], db[k])
                      /\ ui.owed[k] <= db[k] /\ Fresh(cache[k], ui.owed[k])
      /\ \A c \in m : CacheCall(c, ui, db, cache)
  BY <1>1, CacheFacts
<1>3. PICK i : db' = [db EXCEPT ![i] = db[i] + 1]
  BY DEF Cache!RunOnce
<1>4. /\ ui.calls < MaxCalls /\ ui' = [ui EXCEPT !.calls = ui.calls + 1] /\ UNCHANGED <<cache, m>>
  BY DEF Cache!RunOnce
<1>5. PICK j \in Nat : j = ui.calls + 1 /\ j <= MaxCalls
  BY <1>2, <1>4, BoundsAssumption
<1>6. ui' = [page |-> ui.page, view |-> ui.view, drawer |-> ui.drawer, gone |-> ui.gone, calls |-> j, owed |-> ui.owed]
  BY <1>2, <1>4, <1>5
<1>7. /\ ui'.page = ui.page /\ ui'.view = ui.view /\ ui'.drawer = ui.drawer /\ ui'.calls = j /\ ui'.owed = ui.owed
      /\ ui' = [page |-> ui'.page, view |-> ui'.view, drawer |-> ui'.drawer, gone |-> ui'.gone, calls |-> ui'.calls,
                owed |-> ui'.owed]
  BY <1>6
<1>8. CacheView(ui')
  BY <1>1, <1>2, <1>5, <1>7 DEF CacheView
<1>9. db' = [k \in DOMAIN db |-> IF k \in {i} THEN db[k] + 1 ELSE db[k]]
  BY <1>3
<1>10. db' \in [K -> Nat] /\ \A k \in K : db[k] <= db'[k] /\ db'[k] <= db[k] + 1 /\ db'[k] \in Nat
  BY <1>2, <1>9, WritesOneMore
<1>11. \A k \in K : Carries(cache[k], cache[k], db'[k])
  BY <1>2, <1>10, MoreData
<1>12. CacheData(ui', db', cache')
  <2>1. \A k \in K : QueryOf(cache[k], db'[k])
    BY <1>11 DEF Carries
  <2>2. ASSUME NEW k \in K PROVE ui.owed[k] <= db'[k]
    <3>1. ui.owed[k] \in Nat /\ db[k] \in Nat /\ db'[k] \in Nat /\ ui.owed[k] <= db[k] /\ db[k] <= db'[k]
      BY <1>2, <1>10
    <3> QED
      BY <3>1
  <2> QED
    BY <1>1, <1>2, <1>4, <1>7, <1>10, <2>1, <2>2 DEF CacheData
<1>13. /\ IsFiniteSet(SentMutations(m)) /\ \A k \in K : db[k] + Cardinality(SentMutations(m)) <= ui.calls + 1
       /\ Cardinality(SentMutations(m)) \in Nat /\ \A b, c \in m : b.x = c.x => b = c
  BY <1>1, FS_CardinalityType DEF CacheInv, CacheBound
<1>14. ASSUME NEW k \in K PROVE db'[k] + Cardinality(SentMutations(m)) <= j + 1
  <2>1. db[k] \in Nat /\ db'[k] \in Nat /\ db'[k] <= db[k] + 1
        /\ db[k] + Cardinality(SentMutations(m)) <= ui.calls + 1
    BY <1>2, <1>10, <1>13
  <2> QED
    BY <1>2, <1>5, <1>13, <2>1
<1>15. CacheBound(ui', db', m')
  BY <1>1, <1>4, <1>7, <1>13, <1>14 DEF CacheBound
<1>16. \A k : Enabled(ui', k) = Enabled(ui, k)
  BY <1>7 DEF Enabled
<1>17. ASSUME NEW c \in m PROVE CacheCall(c, ui', db', cache)
  BY <1>1, <1>2, <1>7, <1>10, <1>11, <1>16, CallKept
<1> QED
  BY <1>4, <1>8, <1>12, <1>15, <1>17 DEF CacheInv

(* A call whose answer has arrived: no call is sent by it, and the others   *)
(* stay.                                                                    *)
LEMMA CallReplaced ==
  ASSUME CacheInv, NEW c \in m, NEW n, NEW e, n = (m \ {c}) \cup {e}, e.x = c.x, e.phase = "settling"
  PROVE  SentMutations(n) \subseteq SentMutations(m) /\ \A b, d \in n : b.x = d.x => b = d
<1>1. \A b, d \in m : b.x = d.x => b = d
  BY CacheFacts
<1> QED
  BY <1>1 DEF SentMutations

(* A call that has ended.                                                   *)
LEMMA CallEnded ==
  ASSUME CacheInv, NEW c \in m, NEW n, n = m \ {c}
  PROVE  SentMutations(n) \subseteq SentMutations(m) /\ \A b, d \in n : b.x = d.x => b = d
<1>1. \A b, d \in m : b.x = d.x => b = d
  BY CacheFacts
<1> QED
  BY <1>1 DEF SentMutations

(* A refetch of queries by a step that leaves the page as it is.            *)
LEMMA CacheRefetches ==
  ASSUME CacheInv, NEW keys, cache' = Cache!invalidateQueries(keys, cache), db' = db, ui' = ui,
         SentMutations(m') \subseteq SentMutations(m), \A b, c \in m' : b.x = c.x => b = c,
         \A c \in m' : c \in m \/ CacheCall(c, ui, db, cache')
  PROVE  CacheInv'
<1>1. PICK K : K = Cache!Queries[ui.page]
  OBVIOUS
<1>2. /\ ui.calls \in Nat /\ db \in [K -> Nat] /\ cache = [k \in K |-> cache[k]] /\ CacheView(ui)
      /\ \A k \in K : /\ db[k] \in Nat /\ ui.owed[k] \in Nat /\ QueryOf(cache[k], db[k])
                      /\ ui.owed[k] <= db[k] /\ Fresh(cache[k], ui.owed[k])
  BY <1>1, CacheFacts DEF CacheInv
<1>3. cache' = [k \in K |-> cache'[k]] /\ \A k \in K : Carries(cache[k], cache'[k], db[k])
  BY <1>2, Invalidated
<1>4. \A k \in K : Fresh(cache'[k], ui.owed[k])
  BY <1>2, <1>3 DEF Carries
<1> QED
  BY <1>1, <1>2, <1>3, <1>4, CacheStep

(* A refetch of the queries of the page.                                    *)
LEMMA CacheInvalidated ==
  ASSUME CacheInv, NEW K, K = Cache!Queries[ui.page], NEW keys, NEW n, n = Cache!invalidateQueries(keys, cache)
  PROVE  /\ n = [k \in K |-> n[k]] /\ \A k \in K : Carries(cache[k], n[k], db[k])
         /\ \A k \in K : k \in keys /\ Enabled(ui, k) => \A v : Fresh(n[k], v)
<1>1. db \in [K -> Nat] /\ cache = [k \in K |-> cache[k]] /\ \A k \in K : QueryOf(cache[k], db[k])
  BY CacheFacts
<1>2. n = [k \in K |-> n[k]] /\ \A k \in K : Carries(cache[k], n[k], db[k])
  BY <1>1, Invalidated
<1>3. ASSUME NEW k \in K, k \in keys, Enabled(ui, k), NEW v PROVE Fresh(n[k], v)
  <2>1. db[k] \in Nat /\ QueryOf(cache[k], db[k])
    BY <1>1
  <2>2. PICK q, r : q = cache[k] /\ r = Cache!refetched(q)
    OBVIOUS
  <2>3. Fresh(r, v)
    BY <2>1, <2>2, LoadedAgain
  <2>4. Cache!shown(k)
    BY <1>3 DEF Cache!shown, Enabled
  <2>5. n[k] = r
    BY <1>1, <1>3, <2>2, <2>4 DEF Cache!invalidateQueries
  <2> QED
    BY <2>3, <2>5
<1> QED
  BY <1>2, <1>3

(* The callback of a call runs.                                             *)
LEMMA CacheSucceeded ==
  ASSUME CacheInv, NEW c \in m, Cache!onSuccess(c)
  PROVE  CacheInv'
<1>1. PICK K, t, s : K = Cache!Queries[ui.page] /\ t = Cache!table[c.x] /\ s = Cache!setQueryData(t.sets, c.wrote, cache)
  OBVIOUS
<1>2. PICK e : e = [c EXCEPT !.phase = "settling", !.left = t.awaited]
  OBVIOUS
<1>3. /\ ui = [page |-> ui.page, view |-> ui.view, drawer |-> ui.drawer, gone |-> ui.gone, calls |-> ui.calls,
               owed |-> ui.owed]
      /\ ui.page \in CachePages /\ ui.calls \in Nat /\ ui.calls <= MaxCalls /\ ui.owed \in [K -> Nat]
      /\ db \in [K -> Nat] /\ cache = [k \in K |-> cache[k]]
      /\ \A k \in K : /\ db[k] \in Nat /\ ui.owed[k] \in Nat /\ QueryOf(cache[k], db[k])
                      /\ ui.owed[k] <= db[k] /\ Fresh(cache[k], ui.owed[k])
      /\ CacheCall(c, ui, db, cache)
  BY <1>1, CacheFacts
<1>4. /\ c.phase = "done" /\ cache' = Cache!invalidateQueries(Head(t.awaited), s)
      /\ m' = (m \ {c}) \cup {e} /\ db' = db
      /\ ui' = IF c.x = "deleteAsset" THEN [ui EXCEPT !.drawer = FALSE, !.gone = TRUE] ELSE ui
  BY <1>1, <1>2 DEF Cache!onSuccess
<1>5. /\ c = [x |-> c.x, phase |-> c.phase, wrote |-> c.wrote, left |-> c.left]
      /\ c.x \in DOMAIN Cache!Tables[ui.page] /\ DOMAIN c.wrote = t.writes
      /\ \A k \in DOMAIN c.wrote : k \in K /\ c.wrote[k] \in Nat /\ c.wrote[k] <= db[k]
  BY <1>1, <1>3, <1>4 DEF CacheCall, Cache!table
<1>6. /\ t.sets \subseteq t.writes /\ Awaits(t.awaited)
      /\ \A k \in t.writes : \/ <<c.x, k>> \in Cache!Forgotten
                             \/ k \in t.sets \cup Head(t.awaited) \cup Later(t.awaited)
  BY <1>1, <1>3, <1>5, TableOk DEF MutationOk, Cache!table
<1>7. e = [x |-> c.x, phase |-> "settling", wrote |-> c.wrote, left |-> t.awaited]
  BY <1>2, <1>5
<1>8. /\ e = [x |-> e.x, phase |-> e.phase, wrote |-> e.wrote, left |-> e.left]
      /\ e.x = c.x /\ e.phase = "settling" /\ e.wrote = c.wrote /\ e.left = t.awaited
  BY <1>7
<1>9. /\ s = [k \in K |-> s[k]] /\ \A k \in K : Carries(cache[k], s[k], db[k])
      /\ \A k \in t.sets : Fresh(s[k], c.wrote[k])
  <2>1. \A k \in t.sets : k \in K /\ c.wrote[k] \in Nat /\ c.wrote[k] <= db[k]
    BY <1>5, <1>6
  <2>2. PICK keys, w : keys = t.sets /\ w = c.wrote
    OBVIOUS
  <2>3. /\ db \in [K -> Nat] /\ cache = [k \in K |-> cache[k]] /\ \A k \in K : QueryOf(cache[k], db[k])
        /\ \A k \in keys : k \in K /\ w[k] \in Nat /\ w[k] <= db[k]
    BY <1>3, <2>1, <2>2
  <2>4. s = Cache!setQueryData(keys, w, cache)
    BY <1>1, <2>2
  <2>5. /\ s = [k \in K |-> s[k]] /\ \A k \in K : Carries(cache[k], s[k], db[k])
        /\ \A k \in keys : Fresh(s[k], w[k])
    BY <2>3, <2>4, DataSet
  <2> QED
    BY <2>2, <2>5
<1>10. /\ cache' = [k \in K |-> cache'[k]] /\ \A k \in K : Carries(s[k], cache'[k], db[k])
       /\ \A k \in K : k \in Head(t.awaited) /\ Enabled(ui, k) => \A v : Fresh(cache'[k], v)
  <2>1. \A k \in K : QueryOf(s[k], db[k])
    BY <1>9 DEF Carries
  <2>2. PICK n : n = cache'
    OBVIOUS
  <2>3. n = Cache!invalidateQueries(Head(t.awaited), s) /\ db \in [K -> Nat] /\ s = [k \in K |-> s[k]]
    BY <1>3, <1>4, <1>9, <2>2
  <2>4. /\ n = [k \in K |-> n[k]] /\ \A k \in K : Carries(s[k], n[k], db[k])
        /\ \A k \in K : k \in Head(t.awaited) /\ Enabled(ui, k) => \A v : Fresh(n[k], v)
    BY <2>1, <2>3, Invalidated
  <2> QED
    BY <2>2, <2>4
<1>11. \A k \in K : Carries(cache[k], cache'[k], db[k])
  BY <1>9, <1>10 DEF Carries
<1>12. /\ CacheView(ui') /\ ui'.page = ui.page /\ ui'.calls = ui.calls /\ ui'.owed = ui.owed
       /\ \A k : Enabled(ui', k) => Enabled(ui, k)
  <2>1. CASE ui' = ui
    BY <1>1, <1>3, <2>1 DEF CacheView
  <2>2. CASE ui' # ui
    <3>1. PICK f, g : f = FALSE /\ g = TRUE
      OBVIOUS
    <3>2. PICK u : u = [ui EXCEPT !.drawer = f]
      OBVIOUS
    <3>3. u = [page |-> ui.page, view |-> ui.view, drawer |-> f, gone |-> ui.gone, calls |-> ui.calls, owed |-> ui.owed]
      BY <1>3, <3>2
    <3>4. ui' = [u EXCEPT !.gone = g]
      BY <1>4, <2>2, <3>1, <3>2
    <3>5. ui' = [page |-> ui.page, view |-> ui.view, drawer |-> f, gone |-> g, calls |-> ui.calls, owed |-> ui.owed]
      BY <3>3, <3>4
    <3>6. /\ ui'.page = ui.page /\ ui'.view = ui.view /\ ui'.drawer = f /\ ui'.calls = ui.calls /\ ui'.owed = ui.owed
          /\ ui' = [page |-> ui'.page, view |-> ui'.view, drawer |-> ui'.drawer, gone |-> ui'.gone,
                    calls |-> ui'.calls, owed |-> ui'.owed]
      BY <3>5
    <3>7. CacheView(ui')
      BY <1>1, <1>3, <3>6 DEF CacheView
    <3>8. \A k : Enabled(ui', k) => Enabled(ui, k)
      BY <3>1, <3>6 DEF Enabled, Cache!enabled
    <3> QED
      BY <3>6, <3>7, <3>8
  <2> QED
    BY <2>1, <2>2
<1>13. CacheCall(e, ui', db, cache')
  <2>1. Settled(e, ui', cache')
    <3>1. SUFFICES ASSUME NEW k \in DOMAIN c.wrote, <<c.x, k>> \notin Cache!Forgotten, Enabled(ui', k),
                          k \notin Later(t.awaited)
                   PROVE  Fresh(cache'[k], c.wrote[k])
      BY <1>8 DEF Settled
    <3>2. k \in K /\ c.wrote[k] \in Nat /\ c.wrote[k] <= db[k] /\ (k \in t.sets \/ k \in Head(t.awaited))
      BY <1>5, <1>6, <3>1
    <3>3. CASE k \in Head(t.awaited)
      BY <1>10, <1>12, <3>1, <3>2, <3>3
    <3>4. CASE k \in t.sets
      BY <1>9, <1>10, <3>2, <3>4 DEF Carries
    <3> QED
      BY <3>2, <3>3, <3>4
  <2> QED
    BY <1>1, <1>5, <1>6, <1>8, <1>12, <2>1 DEF CacheCall
<1>14. SentMutations(m') \subseteq SentMutations(m) /\ \A b, d \in m' : b.x = d.x => b = d
  BY <1>4, <1>8, CallReplaced
<1>15. \A k \in K : Fresh(cache'[k], ui.owed[k])
  BY <1>3, <1>11 DEF Carries
<1>16. ASSUME NEW k \in K
       PROVE  /\ Carries(cache[k], cache'[k], db[k])
              /\ ui'.owed[k] <= db[k] /\ Fresh(cache'[k], ui'.owed[k])
              /\ Enabled(ui', k) => Enabled(ui, k) \/ \A v : Fresh(cache'[k], v)
  BY <1>3, <1>11, <1>12, <1>15
<1>17. \A d \in m' : d \in m \/ CacheCall(d, ui', db, cache')
  BY <1>4, <1>13
<1>18. ui.calls <= ui'.calls /\ cache' = [k \in Cache!Queries[ui.page] |-> cache'[k]]
  BY <1>1, <1>3, <1>10, <1>12
<1> QED
  BY <1>1, <1>4, <1>12, <1>14, <1>16, <1>17, <1>18, CacheStep

(* The second of the two sets that a callback awaits.                       *)
LEMMA AwaitsNext ==
  ASSUME NEW s, Awaits(s), Len(s) > 1
  PROVE  Later(s) = s[2] /\ Awaits(Tail(s)) /\ Later(Tail(s)) = {}
<1>1. CASE s = <<s[1]>>
  BY <1>1
<1>2. CASE s = <<s[1], s[2]>>
  <2>1. PICK A, B : s = <<A, B>>
    BY <1>2
  <2>2. Tail(s) = <<B>> /\ s[2] = B
    BY <2>1
  <2>3. PICK r : r = <<B>>
    OBVIOUS
  <2>4. Awaits(r) /\ Later(r) = {}
    BY <2>3, AwaitsOne
  <2> QED
    BY <2>2, <2>3, <2>4 DEF Later
<1> QED
  BY <1>1, <1>2 DEF Awaits

(* The first queries are there: the next ones are loaded.                   *)
LEMMA CacheAwaitedNext ==
  ASSUME CacheInv, NEW c \in m, Cache!awaited(c), Len(c.left) > 1
  PROVE  CacheInv'
<1>1. PICK K, e : K = Cache!Queries[ui.page] /\ e = [c EXCEPT !.left = Tail(c.left)]
  OBVIOUS
<1>2. /\ db \in [K -> Nat] /\ cache = [k \in K |-> cache[k]]
      /\ \A k \in K : QueryOf(cache[k], db[k])
      /\ CacheCall(c, ui, db, cache)
  BY <1>1, CacheFacts
<1>3. /\ c.phase = "settling" /\ cache' = Cache!invalidateQueries(c.left[2], cache)
      /\ m' = (m \ {c}) \cup {e} /\ db' = db /\ ui' = ui
  BY <1>1 DEF Cache!awaited
<1>4. /\ c = [x |-> c.x, phase |-> c.phase, wrote |-> c.wrote, left |-> c.left]
      /\ c.x \in DOMAIN Cache!Tables[ui.page] /\ Awaits(c.left) /\ Settled(c, ui, cache)
      /\ \A k \in DOMAIN c.wrote : k \in K /\ c.wrote[k] \in Nat /\ c.wrote[k] <= db[k]
  BY <1>1, <1>2, <1>3 DEF CacheCall
<1>5. Later(c.left) = c.left[2] /\ Awaits(Tail(c.left)) /\ Later(Tail(c.left)) = {}
  BY <1>4, AwaitsNext
<1>6. e = [x |-> c.x, phase |-> "settling", wrote |-> c.wrote, left |-> Tail(c.left)]
  BY <1>1, <1>3, <1>4
<1>7. /\ e = [x |-> e.x, phase |-> e.phase, wrote |-> e.wrote, left |-> e.left]
      /\ e.x = c.x /\ e.phase = "settling" /\ e.wrote = c.wrote /\ e.left = Tail(c.left)
  BY <1>6
<1>8. /\ \A k \in K : Carries(cache[k], cache'[k], db[k])
      /\ \A k \in K : k \in c.left[2] /\ Enabled(ui, k) => \A v : Fresh(cache'[k], v)
  <2>1. PICK n, keys : n = cache' /\ keys = c.left[2]
    OBVIOUS
  <2>2. n = Cache!invalidateQueries(keys, cache)
    BY <1>3, <2>1
  <2>3. /\ \A k \in K : Carries(cache[k], n[k], db[k])
        /\ \A k \in K : k \in keys /\ Enabled(ui, k) => \A v : Fresh(n[k], v)
    BY <1>1, <2>2, CacheInvalidated
  <2> QED
    BY <2>1, <2>3
<1>9. Settled(e, ui, cache')
  <2>1. SUFFICES ASSUME NEW k \in DOMAIN c.wrote, <<c.x, k>> \notin Cache!Forgotten, Enabled(ui, k)
                 PROVE  Fresh(cache'[k], c.wrote[k])
    BY <1>7 DEF Settled
  <2>2. k \in K /\ c.wrote[k] \in Nat /\ c.wrote[k] <= db[k]
    BY <1>4, <2>1
  <2>3. CASE k \in c.left[2]
    BY <1>8, <2>1, <2>2, <2>3
  <2>4. CASE k \notin c.left[2]
    <3>1. Fresh(cache[k], c.wrote[k])
      BY <1>4, <1>5, <2>1, <2>4 DEF Settled
    <3> QED
      BY <1>8, <2>2, <3>1 DEF Carries
  <2> QED
    BY <2>3, <2>4
<1>10. CacheCall(e, ui, db, cache')
  BY <1>1, <1>4, <1>5, <1>7, <1>9 DEF CacheCall
<1>11. SentMutations(m') \subseteq SentMutations(m) /\ \A b, d \in m' : b.x = d.x => b = d
  <2>1. PICK n : n = m'
    OBVIOUS
  <2>2. n = (m \ {c}) \cup {e} /\ e.x = c.x /\ e.phase = "settling"
    BY <1>3, <1>7, <2>1
  <2>3. SentMutations(n) \subseteq SentMutations(m) /\ \A b, d \in n : b.x = d.x => b = d
    BY <2>2, CallReplaced
  <2> QED
    BY <2>1, <2>3
<1>12. \A d \in m' : d \in m \/ CacheCall(d, ui, db, cache')
  BY <1>3, <1>10
<1> QED
  BY <1>3, <1>11, <1>12, CacheRefetches

(* The mutation has ended: the queries owe the operator what it has written *)
(* and show it.                                                             *)
LEMMA CacheAwaitedLast ==
  ASSUME CacheInv, NEW c \in m, Cache!awaited(c), ~ (Len(c.left) > 1)
  PROVE  CacheInv'
<1>1. PICK K : K = Cache!Queries[ui.page]
  OBVIOUS
<1>2. /\ ui = [page |-> ui.page, view |-> ui.view, drawer |-> ui.drawer, gone |-> ui.gone, calls |-> ui.calls,
               owed |-> ui.owed]
      /\ ui.page \in CachePages /\ ui.calls \in Nat /\ ui.calls <= MaxCalls /\ ui.owed \in [K -> Nat]
      /\ db \in [K -> Nat] /\ cache = [k \in K |-> cache[k]]
      /\ \A k \in K : /\ db[k] \in Nat /\ ui.owed[k] \in Nat /\ QueryOf(cache[k], db[k])
                      /\ ui.owed[k] <= db[k] /\ Fresh(cache[k], ui.owed[k])
      /\ CacheCall(c, ui, db, cache)
  BY <1>1, CacheFacts
<1>3. PICK o : o = [k \in DOMAIN db |-> IF Cache!owes(c, k) THEN c.wrote[k] ELSE ui.owed[k]]
  OBVIOUS
<1>4. /\ c.phase = "settling" /\ m' = m \ {c} /\ ui' = [ui EXCEPT !.owed = o] /\ cache' = cache /\ db' = db
  BY <1>3 DEF Cache!awaited
<1>5. /\ Settled(c, ui, cache)
      /\ \A k \in DOMAIN c.wrote : k \in K /\ c.wrote[k] \in Nat /\ c.wrote[k] <= db[k]
  BY <1>1, <1>2, <1>4 DEF CacheCall
<1>6. Later(c.left) = {}
  BY DEF Later
<1>7. ASSUME NEW k \in K
      PROVE  o[k] \in Nat /\ o[k] <= db[k] /\ Fresh(cache[k], o[k])
  <2>1. o[k] = IF Cache!owes(c, k) THEN c.wrote[k] ELSE ui.owed[k]
    BY <1>2, <1>3
  <2>2. CASE Cache!owes(c, k)
    <3>1. k \in DOMAIN c.wrote /\ <<c.x, k>> \notin Cache!Forgotten /\ Enabled(ui, k)
      BY <2>2 DEF Cache!owes, Cache!shown, Enabled
    <3>2. Fresh(cache[k], c.wrote[k])
      BY <1>5, <1>6, <3>1 DEF Settled
    <3> QED
      BY <1>5, <2>1, <2>2, <3>1, <3>2
  <2>3. CASE ~ Cache!owes(c, k)
    BY <1>2, <2>1, <2>3
  <2> QED
    BY <2>2, <2>3
<1>8. o \in [K -> Nat]
  <2>1. o = [k \in K |-> o[k]]
    BY <1>2, <1>3
  <2> QED
    BY <1>7, <2>1
<1>9. ui' = [page |-> ui.page, view |-> ui.view, drawer |-> ui.drawer, gone |-> ui.gone, calls |-> ui.calls, owed |-> o]
  BY <1>2, <1>4
<1>10. /\ ui'.page = ui.page /\ ui'.view = ui.view /\ ui'.drawer = ui.drawer /\ ui'.calls = ui.calls /\ ui'.owed = o
       /\ ui' = [page |-> ui'.page, view |-> ui'.view, drawer |-> ui'.drawer, gone |-> ui'.gone,
                 calls |-> ui'.calls, owed |-> ui'.owed]
  BY <1>9
<1>11. CacheView(ui')
  BY <1>1, <1>2, <1>8, <1>10 DEF CacheView
<1>12. \A k : Enabled(ui', k) => Enabled(ui, k)
  BY <1>10 DEF Enabled
<1>13. ASSUME NEW k \in K
       PROVE  /\ Carries(cache[k], cache'[k], db[k])
              /\ ui'.owed[k] <= db[k] /\ Fresh(cache'[k], ui'.owed[k])
              /\ Enabled(ui', k) => Enabled(ui, k) \/ \A v : Fresh(cache'[k], v)
  BY <1>2, <1>4, <1>7, <1>10, <1>12, SameQuery
<1>14. SentMutations(m') \subseteq SentMutations(m) /\ \A b, d \in m' : b.x = d.x => b = d
  BY <1>4, CallEnded
<1>15. ui.calls <= ui'.calls /\ cache' = [k \in Cache!Queries[ui.page] |-> cache'[k]]
  BY <1>1, <1>2, <1>4, <1>10
<1>16. \A d \in m' : d \in m \/ CacheCall(d, ui', db, cache')
  BY <1>4
<1> QED
  BY <1>1, <1>4, <1>10, <1>11, <1>13, <1>14, <1>15, <1>16, CacheStep

LEMMA CacheAwaited ==
  ASSUME CacheInv, NEW c \in m, Cache!awaited(c)
  PROVE  CacheInv'
<1>1. CASE Len(c.left) > 1
  BY <1>1, CacheAwaitedNext
<1>2. CASE ~ (Len(c.left) > 1)
  BY <1>2, CacheAwaitedLast
<1> QED
  BY <1>1, <1>2

(* The call failed, or its answer is lost.                                  *)
LEMMA CacheCallFailed ==
  ASSUME CacheInv, NEW c \in m, Cache!callFailed(c)
  PROVE  CacheInv'
<1>1. PICK K, t : K = Cache!Queries[ui.page] /\ t = Cache!table[c.x]
  OBVIOUS
<1>2. PICK e : e = [c EXCEPT !.phase = "settling", !.wrote = Cache!NoWrites, !.left = t.awaited]
  OBVIOUS
<1>3. CacheCall(c, ui, db, cache) /\ CacheView(ui)
  BY <1>1, CacheFacts DEF CacheInv
<1>4. /\ c = [x |-> c.x, phase |-> c.phase, wrote |-> c.wrote, left |-> c.left]
      /\ c.x \in DOMAIN Cache!Tables[ui.page] /\ ui.page \in CachePages
  BY <1>3 DEF CacheCall, CacheView
<1>5. Awaits(t.awaited)
  BY <1>1, <1>4, TableOk DEF MutationOk, Cache!table
<1>6. db' = db /\ ui' = ui
  BY DEF Cache!callFailed
<1>7. CASE c.x \in {"testConnection", "runProbe", "deleteRelation"}
  <2>1. /\ cache' = Cache!invalidateQueries(Head(t.awaited), cache) /\ m' = (m \ {c}) \cup {e}
    BY <1>1, <1>2, <1>7 DEF Cache!callFailed
  <2>2. PICK r1 : r1 = [c EXCEPT !.phase = "settling"]
    OBVIOUS
  <2>3. r1 = [x |-> c.x, phase |-> "settling", wrote |-> c.wrote, left |-> c.left]
    BY <1>4, <2>2
  <2>4. PICK r2 : r2 = [r1 EXCEPT !.wrote = Cache!NoWrites]
    OBVIOUS
  <2>5. r2 = [x |-> c.x, phase |-> "settling", wrote |-> Cache!NoWrites, left |-> c.left]
    BY <2>3, <2>4
  <2>6. e = [r2 EXCEPT !.left = t.awaited]
    BY <1>2, <2>2, <2>4
  <2>7. e = [x |-> c.x, phase |-> "settling", wrote |-> Cache!NoWrites, left |-> t.awaited]
    BY <2>5, <2>6
  <2>8. /\ e = [x |-> e.x, phase |-> e.phase, wrote |-> e.wrote, left |-> e.left]
        /\ e.x = c.x /\ e.phase = "settling" /\ e.wrote = Cache!NoWrites /\ e.left = t.awaited
    BY <2>7
  <2>9. DOMAIN e.wrote = {}
    BY <2>8 DEF Cache!NoWrites
  <2>10. CacheCall(e, ui, db, cache')
    BY <1>4, <1>5, <2>8, <2>9 DEF CacheCall, Settled
  <2>11. SentMutations(m') \subseteq SentMutations(m) /\ \A b, d \in m' : b.x = d.x => b = d
    BY <2>1, <2>8, CallReplaced
  <2>12. \A d \in m' : d \in m \/ CacheCall(d, ui, db, cache')
    BY <2>1, <2>10
  <2>13. PICK keys : keys = Head(t.awaited)
    OBVIOUS
  <2>14. cache' = Cache!invalidateQueries(keys, cache)
    BY <2>1, <2>13
  <2> QED
    BY <1>6, <2>11, <2>12, <2>14, CacheRefetches
<1>8. CASE c.x \notin {"testConnection", "runProbe", "deleteRelation"}
  <2>1. cache' = cache /\ m' = m \ {c}
    BY <1>8 DEF Cache!callFailed
  <2>2. SentMutations(m') \subseteq SentMutations(m) /\ \A b, d \in m' : b.x = d.x => b = d
    BY <2>1, CallEnded
  <2>3. /\ ui.calls \in Nat /\ cache = [k \in K |-> cache[k]]
        /\ \A k \in K : QueryOf(cache[k], db[k]) /\ ui.owed[k] <= db[k] /\ Fresh(cache[k], ui.owed[k])
    BY <1>1, CacheFacts
  <2>4. ASSUME NEW k \in K
        PROVE  /\ Carries(cache[k], cache'[k], db[k])
               /\ ui'.owed[k] <= db[k] /\ Fresh(cache'[k], ui'.owed[k])
               /\ Enabled(ui', k) => Enabled(ui, k) \/ \A v : Fresh(cache'[k], v)
    BY <1>6, <2>1, <2>3, SameQuery
  <2>5. ui.calls <= ui'.calls /\ cache' = [k \in Cache!Queries[ui.page] |-> cache'[k]]
    BY <1>1, <1>6, <2>1, <2>3
  <2>6. \A d \in m' : d \in m \/ CacheCall(d, ui', db, cache')
    BY <2>1
  <2>7. CacheView(ui') /\ ui'.page = ui.page
    BY <1>3, <1>6
  <2> QED
    BY <1>1, <1>6, <2>2, <2>4, <2>5, <2>6, <2>7, CacheStep
<1> QED
  BY <1>7, <1>8

(* One query changes, of a load.                                            *)
LEMMA CacheLoads ==
  ASSUME CacheInv, NEW k \in DOMAIN cache, NEW r, cache' = [cache EXCEPT ![k] = r], Carries(cache[k], r, db[k]),
         UNCHANGED <<db, m, ui>>
  PROVE  CacheInv'
<1>1. PICK K : K = Cache!Queries[ui.page]
  OBVIOUS
<1>2. /\ ui.calls \in Nat /\ cache = [j \in K |-> cache[j]] /\ CacheView(ui)
      /\ \A j \in K : /\ db[j] \in Nat /\ ui.owed[j] \in Nat /\ QueryOf(cache[j], db[j])
                      /\ ui.owed[j] <= db[j] /\ Fresh(cache[j], ui.owed[j])
      /\ \A b, d \in m : b.x = d.x => b = d
  BY <1>1, CacheFacts DEF CacheInv
<1>3. cache' = [j \in K |-> cache'[j]] /\ \A j \in K : cache'[j] = IF j = k THEN r ELSE cache[j]
  BY <1>2
<1>4. ASSUME NEW j \in K PROVE Carries(cache[j], cache'[j], db[j])
  BY <1>2, <1>3, SameQuery
<1>5. ASSUME NEW j \in K
      PROVE  /\ Carries(cache[j], cache'[j], db[j])
             /\ ui'.owed[j] <= db[j] /\ Fresh(cache'[j], ui'.owed[j])
             /\ Enabled(ui', j) => Enabled(ui, j) \/ \A v : Fresh(cache'[j], v)
  BY <1>2, <1>4 DEF Carries
<1>6. ui.calls <= ui'.calls /\ cache' = [j \in Cache!Queries[ui.page] |-> cache'[j]]
  BY <1>1, <1>2, <1>3
<1>7. CacheView(ui') /\ ui'.page = ui.page /\ \A d \in m' : d \in m
  BY <1>2
<1>8. SentMutations(m') \subseteq SentMutations(m) /\ \A b, d \in m' : b.x = d.x => b = d
  BY <1>2
<1> QED
  BY <1>1, <1>5, <1>6, <1>7, <1>8, CacheStep

LEMMA CacheLoaded ==
  ASSUME CacheInv, NEW k \in DOMAIN cache, Cache!answered(k) \/ Cache!received(k) \/ Cache!loadFailed(k)
  PROVE  CacheInv'
<1>1. PICK n, q : n = db[k] /\ q = cache[k]
  OBVIOUS
<1>2. n \in Nat /\ QueryOf(q, n)
  BY <1>1, CacheFacts
<1>3. CASE Cache!answered(k)
  <2>1. PICK r : r = [q EXCEPT !.load = "answered", !.got = n]
    OBVIOUS
  <2>2. cache' = [cache EXCEPT ![k] = r] /\ UNCHANGED <<db, m, ui>>
    BY <1>1, <1>3, <2>1 DEF Cache!answered
  <2>3. Carries(q, r, n)
    BY <1>2, <2>1, LoadAnswered
  <2> QED
    BY <1>1, <2>2, <2>3, CacheLoads
<1>4. CASE Cache!received(k)
  <2>1. PICK r : r = [Cache!Query(q.got) EXCEPT !.late = q.late]
    OBVIOUS
  <2>2. cache' = [cache EXCEPT ![k] = r] /\ UNCHANGED <<db, m, ui>> /\ q.load = "answered"
    BY <1>1, <1>4, <2>1 DEF Cache!received
  <2>3. Carries(q, r, n)
    BY <1>2, <2>1, <2>2, LoadReceived
  <2> QED
    BY <1>1, <2>2, <2>3, CacheLoads
<1>5. CASE Cache!loadFailed(k)
  <2>1. PICK r : r = [q EXCEPT !.load = "idle", !.got = 0, !.failed = TRUE]
    OBVIOUS
  <2>2. cache' = [cache EXCEPT ![k] = r] /\ UNCHANGED <<db, m, ui>>
    BY <1>1, <1>5, <2>1 DEF Cache!loadFailed
  <2>3. FailedLoad(q, r)
    BY <2>1 DEF FailedLoad
  <2>4. Carries(q, r, n)
    BY <1>2, <2>3, LoadFailed
  <2> QED
    BY <1>1, <2>2, <2>4, CacheLoads
<1> QED
  BY <1>3, <1>4, <1>5

(* The refresh button.                                                      *)
LEMMA CacheRefreshed ==
  ASSUME CacheInv, NEW keys, Cache!refresh(keys)
  PROVE  CacheInv'
<1>1. PICK K : K = Cache!Queries[ui.page]
  OBVIOUS
<1>2. /\ ui = [page |-> ui.page, view |-> ui.view, drawer |-> ui.drawer, gone |-> ui.gone, calls |-> ui.calls,
               owed |-> ui.owed]
      /\ ui.page \in CachePages /\ ui.calls \in Nat /\ ui.owed \in [K -> Nat]
      /\ \A k \in K : /\ db[k] \in Nat /\ ui.owed[k] \in Nat /\ ui.owed[k] <= db[k] /\ Fresh(cache[k], ui.owed[k])
      /\ \A b, c \in m : b.x = c.x => b = c
  BY <1>1, CacheFacts
<1>3. /\ ui.calls < MaxCalls /\ cache' = Cache!invalidateQueries(keys, cache)
      /\ ui' = [ui EXCEPT !.calls = ui.calls + 1] /\ db' = db /\ m' = m
  BY DEF Cache!refresh
<1>4. PICK j \in Nat : j = ui.calls + 1 /\ j <= MaxCalls /\ ui.calls <= j
  BY <1>2, <1>3, BoundsAssumption
<1>5. ui' = [page |-> ui.page, view |-> ui.view, drawer |-> ui.drawer, gone |-> ui.gone, calls |-> j, owed |-> ui.owed]
  BY <1>2, <1>3, <1>4
<1>6. /\ ui'.page = ui.page /\ ui'.view = ui.view /\ ui'.drawer = ui.drawer /\ ui'.calls = j /\ ui'.owed = ui.owed
      /\ ui' = [page |-> ui'.page, view |-> ui'.view, drawer |-> ui'.drawer, gone |-> ui'.gone, calls |-> ui'.calls,
                owed |-> ui'.owed]
  BY <1>5
<1>7. CacheView(ui')
  BY <1>1, <1>2, <1>4, <1>6 DEF CacheView
<1>8. cache' = [k \in K |-> cache'[k]] /\ \A k \in K : Carries(cache[k], cache'[k], db[k])
  <2>1. PICK n : n = cache'
    OBVIOUS
  <2>2. n = [k \in K |-> n[k]] /\ \A k \in K : Carries(cache[k], n[k], db[k])
    BY <1>1, <1>3, <2>1, CacheInvalidated
  <2> QED
    BY <2>1, <2>2
<1>9. \A k : Enabled(ui', k) => Enabled(ui, k)
  BY <1>6 DEF Enabled
<1>10. ASSUME NEW k \in K
       PROVE  /\ Carries(cache[k], cache'[k], db[k])
              /\ ui'.owed[k] <= db[k] /\ Fresh(cache'[k], ui'.owed[k])
              /\ Enabled(ui', k) => Enabled(ui, k) \/ \A v : Fresh(cache'[k], v)
  BY <1>2, <1>6, <1>8, <1>9 DEF Carries
<1>11. ui.calls <= ui'.calls /\ cache' = [k \in Cache!Queries[ui.page] |-> cache'[k]]
  BY <1>1, <1>4, <1>6, <1>8
<1>12. /\ SentMutations(m') \subseteq SentMutations(m) /\ \A b, d \in m' : b.x = d.x => b = d
       /\ \A d \in m' : d \in m \/ CacheCall(d, ui', db, cache')
  BY <1>2, <1>3
<1> QED
  BY <1>1, <1>3, <1>6, <1>7, <1>10, <1>11, <1>12, CacheStep

(* Whatever it shows, a query shows the version 0.                          *)
LEMMA FreshOfNone ==
  ASSUME NEW q \in CacheQuery
  PROVE  Fresh(q, 0)
<1>1. q.data \in Nat /\ q.got \in Nat
  BY QueryFields
<1> QED
  BY <1>1 DEF Fresh

(* The view or the drawer changes.                                          *)
LEMMA CacheChanged ==
  ASSUME CacheInv, NEW view, NEW drawer, Cache!changed(view, drawer)
  PROVE  CacheInv'
<1>1. PICK K : K = Cache!Queries[ui.page]
  OBVIOUS
<1>2. /\ ui = [page |-> ui.page, view |-> ui.view, drawer |-> ui.drawer, gone |-> ui.gone, calls |-> ui.calls,
               owed |-> ui.owed]
      /\ ui.page \in CachePages /\ ui.calls \in Nat /\ ui.owed \in [K -> Nat]
      /\ db \in [K -> Nat] /\ cache = [k \in K |-> cache[k]]
      /\ \A k \in K : /\ db[k] \in Nat /\ ui.owed[k] \in Nat /\ QueryOf(cache[k], db[k])
                      /\ ui.owed[k] <= db[k] /\ Fresh(cache[k], ui.owed[k])
      /\ \A b, c \in m : b.x = c.x => b = c
  BY <1>1, CacheFacts
<1>3. PICK o : o = [k \in DOMAIN db |-> IF Cache!enabled(k, view, drawer) THEN ui.owed[k] ELSE 0]
  OBVIOUS
<1>4. /\ ui.calls < MaxCalls /\ db' = db /\ m' = m
      /\ cache' = [k \in DOMAIN cache |-> IF ~ Enabled(ui, k) /\ Cache!enabled(k, view, drawer)
                                          THEN Cache!mounted(cache[k]) ELSE cache[k]]
  BY DEF Cache!changed, Cache!shown, Enabled
<1>5. ui' = [ui EXCEPT !.view = view, !.drawer = drawer, !.calls = ui.calls + 1, !.owed = o]
  BY <1>3 DEF Cache!changed
<1>6. PICK j \in Nat : j = ui.calls + 1 /\ j <= MaxCalls /\ ui.calls <= j
  BY <1>2, <1>4, BoundsAssumption
<1>7. ui' = [page |-> ui.page, view |-> view, drawer |-> drawer, gone |-> ui.gone, calls |-> j, owed |-> o]
  <2>1. PICK u1 : u1 = [ui EXCEPT !.view = view]
    OBVIOUS
  <2>2. PICK u2 : u2 = [u1 EXCEPT !.drawer = drawer]
    OBVIOUS
  <2>3. PICK u3 : u3 = [u2 EXCEPT !.calls = j]
    OBVIOUS
  <2>4. ui' = [u3 EXCEPT !.owed = o]
    BY <1>5, <1>6, <2>1, <2>2, <2>3
  <2>5. u1 = [page |-> ui.page, view |-> view, drawer |-> ui.drawer, gone |-> ui.gone, calls |-> ui.calls, owed |-> ui.owed]
    BY <1>2, <2>1
  <2>6. u2 = [page |-> ui.page, view |-> view, drawer |-> drawer, gone |-> ui.gone, calls |-> ui.calls, owed |-> ui.owed]
    BY <2>2, <2>5
  <2>7. u3 = [page |-> ui.page, view |-> view, drawer |-> drawer, gone |-> ui.gone, calls |-> j, owed |-> ui.owed]
    BY <2>3, <2>6
  <2> QED
    BY <2>4, <2>7
<1>8. /\ ui'.page = ui.page /\ ui'.view = view /\ ui'.drawer = drawer /\ ui'.calls = j /\ ui'.owed = o
      /\ ui' = [page |-> ui'.page, view |-> ui'.view, drawer |-> ui'.drawer, gone |-> ui'.gone, calls |-> ui'.calls,
                owed |-> ui'.owed]
  BY <1>7
<1>9. \A k : Enabled(ui', k) = Cache!enabled(k, view, drawer)
  BY <1>8 DEF Enabled
<1>10. o = [k \in K |-> o[k]] /\ \A k \in K : o[k] = ui.owed[k] \/ o[k] = 0
  BY <1>2, <1>3
<1>11. o \in [K -> Nat]
  BY <1>2, <1>10
<1>12. CacheView(ui')
  BY <1>1, <1>2, <1>6, <1>8, <1>11 DEF CacheView
<1>13. ASSUME NEW k \in K
       PROVE  /\ Carries(cache[k], cache'[k], db[k])
              /\ Enabled(ui', k) => Enabled(ui, k) \/ \A v : Fresh(cache'[k], v)
  <2>1. PICK q, n, r : q = cache[k] /\ n = db[k] /\ r = Cache!mounted(q)
    OBVIOUS
  <2>2. n \in Nat /\ QueryOf(q, n)
    BY <1>2, <2>1
  <2>3. QueryOf(r, n) /\ \A v : Fresh(r, v)
    BY <2>1, <2>2, LoadedAgain
  <2>4. cache'[k] = IF ~ Enabled(ui, k) /\ Enabled(ui', k) THEN r ELSE q
    BY <1>2, <1>4, <1>9, <2>1
  <2>5. CASE ~ Enabled(ui, k) /\ Enabled(ui', k)
    BY <2>1, <2>3, <2>4, <2>5 DEF Carries
  <2>6. CASE ~ (~ Enabled(ui, k) /\ Enabled(ui', k))
    BY <2>1, <2>2, <2>4, <2>6, SameQuery
  <2> QED
    BY <2>5, <2>6
<1>14. ASSUME NEW k \in K
       PROVE  ui'.owed[k] <= db[k] /\ Fresh(cache'[k], ui'.owed[k])
  <2>1. CASE o[k] = ui.owed[k]
    BY <1>2, <1>8, <1>13, <2>1 DEF Carries
  <2>2. CASE o[k] = 0
    <3>1. cache'[k] \in CacheQuery /\ db[k] \in Nat
      BY <1>2, <1>13 DEF Carries, QueryOf
    <3> QED
      BY <1>8, <2>2, <3>1, FreshOfNone
  <2> QED
    BY <1>10, <2>1, <2>2
<1>15. ASSUME NEW k \in K
       PROVE  /\ Carries(cache[k], cache'[k], db[k])
              /\ ui'.owed[k] <= db[k] /\ Fresh(cache'[k], ui'.owed[k])
              /\ Enabled(ui', k) => Enabled(ui, k) \/ \A v : Fresh(cache'[k], v)
  BY <1>13, <1>14
<1>16. ui.calls <= ui'.calls /\ cache' = [k \in Cache!Queries[ui.page] |-> cache'[k]]
  BY <1>1, <1>2, <1>4, <1>6, <1>8
<1>17. /\ SentMutations(m') \subseteq SentMutations(m) /\ \A b, d \in m' : b.x = d.x => b = d
       /\ \A d \in m' : d \in m \/ CacheCall(d, ui', db, cache')
  BY <1>2, <1>4
<1> QED
  BY <1>1, <1>4, <1>8, <1>12, <1>15, <1>16, <1>17, CacheStep

LEMMA CacheNext == CacheInv /\ Cache!Next => CacheInv'
<1> SUFFICES ASSUME CacheInv, Cache!Next PROVE CacheInv'
  OBVIOUS
<1>1. CASE \E x \in DOMAIN Cache!table : Cache!call(x)
  BY <1>1, CacheCalled
<1>2. CASE \E c \in m : Cache!executed(c) \/ Cache!onSuccess(c) \/ Cache!awaited(c) \/ Cache!callFailed(c)
  BY <1>2, CacheExecuted, CacheSucceeded, CacheAwaited, CacheCallFailed
<1>3. CASE \E k \in DOMAIN cache : Cache!answered(k) \/ Cache!received(k) \/ Cache!loadFailed(k)
  BY <1>3, CacheLoaded
<1>4. CASE Cache!refresh(Cache!refreshed)
  <2>1. PICK keys : keys = Cache!refreshed
    OBVIOUS
  <2> QED
    BY <1>4, <2>1, CacheRefreshed
<1>5. CASE Cache!setViewMode
  BY <1>5, CacheChanged DEF Cache!setViewMode
<1>6. CASE Cache!openOrCloseDrawer
  <2>1. PICK v, d : v = ui.view /\ d = ~ ui.drawer
    OBVIOUS
  <2>2. Cache!changed(v, d)
    BY <1>6, <2>1, Zenon DEF Cache!openOrCloseDrawer
  <2> QED
    BY <2>2, CacheChanged
<1>7. CASE Cache!RunOnce
  BY <1>7, CacheRan
<1> QED
  BY <1>1, <1>2, <1>3, <1>4, <1>5, <1>6, <1>7 DEF Cache!Next

(* What the operator reads once a mutation has ended.                       *)
LEMMA CacheSafe == CacheInv => Cache!TypeOK /\ Cache!ReadYourWrites
<1> SUFFICES ASSUME CacheInv PROVE Cache!TypeOK /\ Cache!ReadYourWrites
  OBVIOUS
<1>1. PICK K : K = Cache!Queries[ui.page]
  OBVIOUS
<1>2. /\ ui.calls \in Nat /\ ui.calls <= MaxCalls
      /\ db \in [K -> Nat] /\ cache = [k \in K |-> cache[k]]
      /\ \A k \in K : /\ db[k] \in Nat /\ QueryOf(cache[k], db[k]) /\ Fresh(cache[k], ui.owed[k])
  BY <1>1, CacheFacts
<1>3. DOMAIN cache = K /\ DOMAIN db = K
  BY <1>2
<1>4. ASSUME NEW k \in K
      PROVE  cache[k] \in [data : 0..MaxCalls + 1, load : {"idle", "asked", "answered"},
                           got : 0..MaxCalls + 1, failed : BOOLEAN, late : BOOLEAN]
  <2>1. PICK q : q = cache[k]
    OBVIOUS
  <2>2. PICK n \in Nat : n = db[k]
    BY <1>2
  <2>3. q \in CacheQuery /\ q.data <= n /\ q.got <= n
    BY <1>2, <2>1, <2>2 DEF QueryOf
  <2>4. /\ IsFiniteSet(SentMutations(m)) /\ n + Cardinality(SentMutations(m)) <= ui.calls + 1
        /\ Cardinality(SentMutations(m)) \in Nat
    BY <1>1, <2>2, FS_CardinalityType DEF CacheInv, CacheBound
  <2>5. n <= MaxCalls + 1 /\ MaxCalls \in Nat
    BY <1>2, <2>4, BoundsAssumption
  <2>6. /\ q = [data |-> q.data, load |-> q.load, got |-> q.got, failed |-> q.failed, late |-> q.late]
        /\ q.load \in {"idle", "asked", "answered"} /\ q.failed \in BOOLEAN /\ q.late \in BOOLEAN
        /\ q.data \in Nat /\ q.got \in Nat
    BY <2>3, QueryFields
  <2>7. q.data \in 0..MaxCalls + 1 /\ q.got \in 0..MaxCalls + 1
    BY <2>3, <2>5, <2>6
  <2> QED
    BY <2>1, <2>6, <2>7
<1>5. Cache!TypeOK
  BY <1>1, <1>3, <1>4 DEF Cache!TypeOK
<1>6. ASSUME NEW k \in K, cache[k].load = "idle", ~ cache[k].failed, ~ cache[k].late
      PROVE  cache[k].data >= ui.owed[k]
  <2>1. ui.owed[k] <= cache[k].data /\ cache[k].data \in Nat /\ ui.owed[k] \in Nat
    BY <1>1, <1>2, <1>6, CacheFacts, QueryFields DEF Fresh, QueryOf
  <2> QED
    BY <2>1
<1> QED
  BY <1>3, <1>5, <1>6 DEF Cache!ReadYourWrites

-----------------------------------------------------------------------------
(* The list of the CMDB page.                                               *)

Offsets == {o \in 0..MaxAssets : o % 2 = 0}

(* A position o in the list of the filters f, which has d[f] assets: the    *)
(* first page, or one that begins at an asset; or the list has become       *)
(* shorter.                                                                 *)
Inside(f, o, d, u) == f \in u.shrunk \/ o = 0 \/ o < d[f]

BrowseView(u) ==
  /\ u = [filters |-> u.filters, offset |-> u.offset, viewMode |-> u.viewMode, shrunk |-> u.shrunk]
  /\ u.filters \in Browse!Filters /\ u.offset \in Offsets

(* What the query of the filters f and the offset o has loaded: no more     *)
(* than there is, and items if there are any.                               *)
ListLoaded(q, f, d, u) ==
  \/ q = Undefined
  \/ /\ q \in [total : 0..MaxAssets, items : 0..2]
     /\ f \notin u.shrunk => q.total <= d[f] /\ (q.items = 0 => q.total = 0)

BrowseInv ==
  /\ db \in [Browse!Filters -> 0..MaxAssets] /\ BrowseView(ui)
  /\ cache = [k \in Browse!Keys |-> cache[k]] /\ m \subseteq Browse!Keys
  /\ Inside(ui.filters, ui.offset, db, ui)
  /\ \A k \in m : Inside(k[1], k[2], db, ui)
  /\ \A k \in Browse!Keys : ListLoaded(cache[k], k[1], db, ui)

(* The keys of the queries.                                                 *)
LEMMA BrowseKeys ==
  /\ Browse!Keys = Browse!Filters \X Offsets /\ 0 \in Offsets /\ Offsets \subseteq Nat
  /\ \A k \in Browse!Keys : k[1] \in Browse!Filters /\ k[2] \in Offsets
<1>1. Browse!Keys = Browse!Filters \X Offsets
  BY DEF Browse!Keys, Offsets
<1>2. 0 \in Offsets /\ Offsets \subseteq Nat
  BY BoundsAssumption DEF Offsets
<1> QED
  BY <1>1, <1>2

LEMMA BrowseInit == Browse!Init => BrowseInv
<1> SUFFICES ASSUME Browse!Init PROVE BrowseInv
  OBVIOUS
<1>1. /\ db \in [Browse!Filters -> 0..MaxAssets] /\ cache = [k \in Browse!Keys |-> Undefined]
      /\ ui \in [filters : {"initial"}, offset : {0}, viewMode : {"list", "tree"}, shrunk : {{}}]
      /\ m \subseteq {<<"initial", 0>>}
  BY DEF Browse!Init
<1>2. /\ ui.filters = "initial" /\ ui.offset = 0
      /\ ui = [filters |-> ui.filters, offset |-> ui.offset, viewMode |-> ui.viewMode, shrunk |-> ui.shrunk]
  BY <1>1
<1>3. BrowseView(ui)
  BY <1>2, BrowseKeys DEF BrowseView, Browse!Filters
<1>4. PICK z : z = <<"initial", 0>>
  OBVIOUS
<1>5. m \subseteq Browse!Keys /\ \A k \in m : Inside(k[1], k[2], db, ui)
  <2>1. "initial" \in Browse!Filters /\ 0 \in Offsets
    BY BrowseKeys DEF Browse!Filters
  <2>2. z \in Browse!Filters \X Offsets /\ z[2] = 0
    BY <1>4, <2>1
  <2> QED
    BY <1>1, <1>4, <2>2, BrowseKeys DEF Inside
<1>6. Inside(ui.filters, ui.offset, db, ui)
  BY <1>2 DEF Inside
<1>7. cache = [k \in Browse!Keys |-> cache[k]] /\ \A k \in Browse!Keys : ListLoaded(cache[k], k[1], db, ui)
  BY <1>1 DEF ListLoaded
<1> QED
  BY <1>1, <1>3, <1>5, <1>6, <1>7 DEF BrowseInv

(* The page is shown with other filters or another offset: its query loads. *)
LEMMA BrowseShows ==
  ASSUME BrowseInv, UNCHANGED <<db, cache>>, m' = Browse!Shown(ui'), BrowseView(ui'), ui'.shrunk = ui.shrunk,
         Inside(ui'.filters, ui'.offset, db, ui)
  PROVE  BrowseInv'
<1>1. PICK z : z = <<ui'.filters, ui'.offset>>
  OBVIOUS
<1>2. z \in Browse!Keys /\ z[1] = ui'.filters /\ z[2] = ui'.offset
  BY <1>1, BrowseKeys DEF BrowseView
<1>3. m' \subseteq m \cup {z}
  BY <1>1 DEF Browse!Shown
<1>4. \A f, o : Inside(f, o, db', ui') = Inside(f, o, db, ui)
  BY DEF Inside
<1>5. \A q, f : ListLoaded(q, f, db', ui') = ListLoaded(q, f, db, ui)
  BY DEF ListLoaded
<1>6. m' \subseteq Browse!Keys /\ \A k \in m' : Inside(k[1], k[2], db, ui)
  BY <1>2, <1>3 DEF BrowseInv
<1>7. /\ db' \in [Browse!Filters -> 0..MaxAssets] /\ cache' = [k \in Browse!Keys |-> cache'[k]]
      /\ \A k \in Browse!Keys : ListLoaded(cache'[k], k[1], db, ui)
  BY DEF BrowseInv
<1> QED
  BY <1>4, <1>5, <1>6, <1>7 DEF BrowseInv

(* The fields of the page.                                                  *)
LEMMA BrowseFacts ==
  ASSUME BrowseInv
  PROVE  /\ ui = [filters |-> ui.filters, offset |-> ui.offset, viewMode |-> ui.viewMode, shrunk |-> ui.shrunk]
         /\ ui.filters \in Browse!Filters /\ ui.offset \in Offsets
         /\ db \in [Browse!Filters -> 0..MaxAssets] /\ Inside(ui.filters, ui.offset, db, ui)
         /\ Browse!key \in Browse!Keys /\ Browse!key[1] = ui.filters /\ Browse!key[2] = ui.offset
         /\ ListLoaded(cache[Browse!key], ui.filters, db, ui)
<1>1. /\ ui = [filters |-> ui.filters, offset |-> ui.offset, viewMode |-> ui.viewMode, shrunk |-> ui.shrunk]
      /\ ui.filters \in Browse!Filters /\ ui.offset \in Offsets
      /\ db \in [Browse!Filters -> 0..MaxAssets] /\ Inside(ui.filters, ui.offset, db, ui)
  BY DEF BrowseInv, BrowseView
<1>2. Browse!key \in Browse!Keys /\ Browse!key[1] = ui.filters /\ Browse!key[2] = ui.offset
  BY <1>1, BrowseKeys DEF Browse!key
<1>3. ListLoaded(cache[Browse!key], ui.filters, db, ui)
  BY <1>2 DEF BrowseInv
<1> QED
  BY <1>1, <1>2, <1>3

(* The controls of the page.                                                *)
LEMMA BrowseControls ==
  ASSUME BrowseInv, NEW f \in Browse!Filters, NEW o \in Offsets, NEW v, UNCHANGED <<db, cache>>, m' = Browse!Shown(ui'),
         ui' = [filters |-> f, offset |-> o, viewMode |-> v, shrunk |-> ui.shrunk], Inside(f, o, db, ui)
  PROVE  BrowseInv'
<1>1. /\ ui'.filters = f /\ ui'.offset = o /\ ui'.viewMode = v /\ ui'.shrunk = ui.shrunk
      /\ ui' = [filters |-> ui'.filters, offset |-> ui'.offset, viewMode |-> ui'.viewMode, shrunk |-> ui'.shrunk]
  OBVIOUS
<1>2. BrowseView(ui')
  BY <1>1 DEF BrowseView
<1> QED
  BY <1>1, <1>2, BrowseShows

LEMMA BrowseToolbar ==
  ASSUME BrowseInv, NEW f \in Browse!Filters, Browse!toolbar(f)
  PROVE  BrowseInv'
<1>1. UNCHANGED <<db, cache>> /\ m' = Browse!Shown(ui') /\ ui' = [ui EXCEPT !.filters = f, !.offset = 0]
  BY DEF Browse!toolbar, Browse!updateFilter
<1>2. ui = [filters |-> ui.filters, offset |-> ui.offset, viewMode |-> ui.viewMode, shrunk |-> ui.shrunk]
  BY BrowseFacts
<1>3. PICK o \in Offsets : o = 0
  BY BrowseKeys
<1>4. ui' = [filters |-> f, offset |-> o, viewMode |-> ui.viewMode, shrunk |-> ui.shrunk]
  BY <1>1, <1>2, <1>3
<1>5. Inside(f, o, db, ui)
  BY <1>3 DEF Inside
<1> QED
  BY <1>1, <1>4, <1>5, BrowseControls

LEMMA BrowseViewMode ==
  ASSUME BrowseInv, NEW v, Browse!setViewMode(v)
  PROVE  BrowseInv'
<1>1. UNCHANGED <<db, cache>> /\ m' = Browse!Shown(ui') /\ ui' = [ui EXCEPT !.viewMode = v]
  BY DEF Browse!setViewMode
<1>2. /\ ui = [filters |-> ui.filters, offset |-> ui.offset, viewMode |-> ui.viewMode, shrunk |-> ui.shrunk]
      /\ ui.filters \in Browse!Filters /\ ui.offset \in Offsets /\ Inside(ui.filters, ui.offset, db, ui)
  BY BrowseFacts
<1>3. ui' = [filters |-> ui.filters, offset |-> ui.offset, viewMode |-> v, shrunk |-> ui.shrunk]
  BY <1>1, <1>2
<1> QED
  BY <1>1, <1>2, <1>3, BrowseControls

(* The buttons of the pagination row.                                       *)
LEMMA BrowseGoes ==
  ASSUME BrowseInv, NEW o \in Offsets, Browse!goTo(o), Inside(ui.filters, o, db, ui)
  PROVE  BrowseInv'
<1>1. UNCHANGED <<db, cache>> /\ m' = Browse!Shown(ui') /\ ui' = [ui EXCEPT !.offset = o]
  BY DEF Browse!goTo
<1>2. /\ ui = [filters |-> ui.filters, offset |-> ui.offset, viewMode |-> ui.viewMode, shrunk |-> ui.shrunk]
      /\ ui.filters \in Browse!Filters
  BY BrowseFacts
<1>3. ui' = [filters |-> ui.filters, offset |-> o, viewMode |-> ui.viewMode, shrunk |-> ui.shrunk]
  BY <1>1, <1>2
<1> QED
  BY <1>1, <1>2, <1>3, BrowseControls

LEMMA BrowsePrevious ==
  ASSUME BrowseInv, Browse!goPrevious
  PROVE  BrowseInv'
<1>1. PICK p : p = Browse!previousAssetOffset /\ Browse!goTo(p)
  BY DEF Browse!goPrevious
<1>2. PICK o \in Nat : o = ui.offset /\ o \in 0..MaxAssets /\ o % 2 = 0
  BY BrowseFacts DEF Offsets
<1>3. p \in Offsets /\ p <= o
  <2>1. p = 0 \/ (p = o - 2 /\ ~ (o < 2))
    BY <1>1, <1>2 DEF Browse!previousAssetOffset
  <2>2. CASE p = 0
    BY <1>2, <2>2, BrowseKeys
  <2>3. CASE p = o - 2 /\ ~ (o < 2)
    BY <1>2, <2>3, BoundsAssumption DEF Offsets
  <2> QED
    BY <2>1, <2>2, <2>3
<1>4. db[ui.filters] \in Nat /\ Inside(ui.filters, o, db, ui)
  BY <1>2, BrowseFacts, BoundsAssumption
<1>5. p \in Nat
  BY <1>3, BrowseKeys
<1>6. Inside(ui.filters, p, db, ui)
  BY <1>2, <1>3, <1>4, <1>5 DEF Inside
<1> QED
  BY <1>1, <1>3, <1>6, BrowseGoes

LEMMA BrowseForward ==
  ASSUME BrowseInv, Browse!goNext
  PROVE  BrowseInv'
<1>1. PICK p : p = Browse!nextAssetOffset /\ Browse!goTo(p)
  BY DEF Browse!goNext
<1>2. PICK o \in Nat : o = ui.offset /\ o \in 0..MaxAssets /\ o % 2 = 0
  BY BrowseFacts DEF Offsets
<1>3. PICK q : q = cache[Browse!key] /\ ListLoaded(q, ui.filters, db, ui)
  BY BrowseFacts
<1>4. o + 2 < Browse!shown.total
  BY <1>2 DEF Browse!goNext, Browse!canGoNext
<1>5. q # Undefined
  BY <1>2, <1>3, <1>4 DEF Browse!shown, Browse!NoData
<1>6. Browse!shown = q
  BY <1>3, <1>5 DEF Browse!shown
<1>7. PICK t \in 0..MaxAssets : t = q.total /\ (ui.filters \notin ui.shrunk => t <= db[ui.filters])
  BY <1>3, <1>5 DEF ListLoaded
<1>8. o + 2 < t
  BY <1>4, <1>6, <1>7
<1>9. p = o + 2
  <2>1. ~ (o + 2 >= t)
    BY <1>2, <1>7, <1>8, BoundsAssumption
  <2> QED
    BY <1>1, <1>2, <1>6, <1>7, <2>1 DEF Browse!nextAssetOffset
<1>10. p \in Offsets
  BY <1>2, <1>7, <1>8, <1>9, BoundsAssumption DEF Offsets
<1>11. db[ui.filters] \in Nat
  BY BrowseFacts, BoundsAssumption
<1>12. Inside(ui.filters, p, db, ui)
  BY <1>2, <1>7, <1>8, <1>9, <1>11, BoundsAssumption DEF Inside
<1> QED
  BY <1>1, <1>10, <1>12, BrowseGoes

LEMMA BrowseRefetches ==
  ASSUME BrowseInv, Browse!refetch
  PROVE  BrowseInv'
<1>1. UNCHANGED <<db, cache, ui>> /\ m' = Browse!Shown(ui')
  BY DEF Browse!refetch
<1>2. BrowseView(ui') /\ Inside(ui'.filters, ui'.offset, db, ui)
  BY <1>1 DEF BrowseInv
<1> QED
  BY <1>1, <1>2, BrowseShows

(* What listAssets answers: items, if the position is inside the list.      *)
LEMMA ListAnswer ==
  ASSUME BrowseInv, NEW k \in Browse!Keys, Inside(k[1], k[2], db, ui), NEW q, q = Browse!page(k)
  PROVE  ListLoaded(q, k[1], db, ui)
<1>1. PICK t \in Nat : t = db[k[1]] /\ t \in 0..MaxAssets
  BY BrowseKeys, BoundsAssumption DEF BrowseInv
<1>2. PICK o \in Nat : o = k[2]
  BY BrowseKeys
<1>3. PICK rest : rest = IF o >= t THEN 0 ELSE t - o
  OBVIOUS
<1>4. PICK i : i = IF rest > 2 THEN 2 ELSE rest
  OBVIOUS
<1>5. q = [total |-> t, items |-> i]
  BY <1>1, <1>2, <1>3, <1>4 DEF Browse!page
<1>6. rest \in Nat /\ (rest = 0 => o >= t)
  BY <1>1, <1>2, <1>3
<1>7. i \in 0..2 /\ (i = 0 => o >= t)
  BY <1>4, <1>6
<1>8. q \in [total : 0..MaxAssets, items : 0..2] /\ q.total = t /\ q.items = i
  BY <1>1, <1>5, <1>7
<1>9. ASSUME k[1] \notin ui.shrunk, i = 0 PROVE t = 0
  <2>1. o = 0 \/ o < t
    BY <1>1, <1>2, <1>9 DEF Inside
  <2> QED
    BY <1>1, <1>2, <1>7, <1>9, <2>1
<1> QED
  BY <1>1, <1>8, <1>9 DEF ListLoaded

LEMMA BrowseLists ==
  ASSUME BrowseInv, NEW k \in Browse!Keys, Browse!listAssets(k)
  PROVE  BrowseInv'
<1>1. /\ k \in m /\ m' = m \ {k} /\ db' = db /\ ui' = ui
      /\ cache' = cache \/ cache' = [cache EXCEPT ![k] = Browse!page(k)]
  BY DEF Browse!listAssets
<1>2. PICK q : q = Browse!page(k)
  OBVIOUS
<1>3. ListLoaded(q, k[1], db, ui)
  BY <1>1, <1>2, ListAnswer DEF BrowseInv
<1>4. cache = [j \in Browse!Keys |-> cache[j]] /\ \A j \in Browse!Keys : ListLoaded(cache[j], j[1], db, ui)
  BY DEF BrowseInv
<1>5. cache' = [j \in Browse!Keys |-> cache'[j]] /\ \A j \in Browse!Keys : ListLoaded(cache'[j], j[1], db, ui)
  <2>1. CASE cache' = cache
    BY <1>4, <2>1
  <2>2. CASE cache' = [cache EXCEPT ![k] = q]
    <3>1. cache' = [j \in Browse!Keys |-> cache'[j]] /\ \A j \in Browse!Keys : cache'[j] = IF j = k THEN q ELSE cache[j]
      BY <1>4, <2>2
    <3> QED
      BY <1>3, <1>4, <3>1
  <2> QED
    BY <1>1, <1>2, <2>1, <2>2
<1> QED
  BY <1>1, <1>5 DEF BrowseInv

(* An asset is created, deleted or edited: the lists that have not become   *)
(* shorter have grown.                                                      *)
LEMMA BrowseDrifts ==
  ASSUME BrowseInv, cache' = cache, m' = m, db' \in [Browse!Filters -> 0..MaxAssets], BrowseView(ui'),
         ui'.filters = ui.filters, ui'.offset = ui.offset, ui.shrunk \subseteq ui'.shrunk,
         \A f \in Browse!Filters : f \in ui'.shrunk \/ db[f] <= db'[f]
  PROVE  BrowseInv'
<1>1. \A f \in Browse!Filters : db[f] \in Nat /\ db'[f] \in Nat
  BY BoundsAssumption DEF BrowseInv
<1>2. ASSUME NEW f \in Browse!Filters, NEW o \in Nat, Inside(f, o, db, ui) PROVE Inside(f, o, db', ui')
  <2>1. db[f] \in Nat /\ db'[f] \in Nat /\ (f \in ui'.shrunk \/ db[f] <= db'[f])
    BY <1>1
  <2> QED
    BY <1>2, <2>1 DEF Inside
<1>3. ASSUME NEW f \in Browse!Filters, NEW q, ListLoaded(q, f, db, ui) PROVE ListLoaded(q, f, db', ui')
  <2>1. db[f] \in Nat /\ db'[f] \in Nat /\ (f \in ui'.shrunk \/ db[f] <= db'[f])
    BY <1>1
  <2>2. CASE q = Undefined
    BY <2>2 DEF ListLoaded
  <2>3. CASE q # Undefined
    <3>1. q \in [total : 0..MaxAssets, items : 0..2] /\ (f \notin ui.shrunk => q.total <= db[f] /\ (q.items = 0 => q.total = 0))
      BY <1>3, <2>3 DEF ListLoaded
    <3>2. q.total \in Nat
      BY <3>1, BoundsAssumption
    <3>3. f \notin ui'.shrunk => q.total <= db'[f] /\ (q.items = 0 => q.total = 0)
      BY <2>1, <3>1, <3>2
    <3> QED
      BY <3>1, <3>3 DEF ListLoaded
  <2> QED
    BY <2>2, <2>3
<1>4. \A k \in Browse!Keys : ListLoaded(cache'[k], k[1], db', ui')
  BY <1>3, BrowseKeys DEF BrowseInv
<1>5. \A k \in m' : Inside(k[1], k[2], db', ui')
  <2>1. SUFFICES ASSUME NEW k \in m PROVE Inside(k[1], k[2], db', ui')
    OBVIOUS
  <2>2. k[1] \in Browse!Filters /\ k[2] \in Nat /\ Inside(k[1], k[2], db, ui)
    BY BrowseKeys DEF BrowseInv
  <2> QED
    BY <1>2, <2>2
<1>6. Inside(ui'.filters, ui'.offset, db', ui')
  <2>1. ui.filters \in Browse!Filters /\ ui.offset \in Nat /\ Inside(ui.filters, ui.offset, db, ui)
    BY BrowseKeys, BrowseFacts
  <2> QED
    BY <1>2, <2>1
<1> QED
  BY <1>4, <1>5, <1>6 DEF BrowseInv

LEMMA BrowseChanges ==
  ASSUME BrowseInv, Browse!AssetsChange
  PROVE  BrowseInv'
<1>1. /\ ui = [filters |-> ui.filters, offset |-> ui.offset, viewMode |-> ui.viewMode, shrunk |-> ui.shrunk]
      /\ ui.filters \in Browse!Filters /\ ui.offset \in Offsets /\ db \in [Browse!Filters -> 0..MaxAssets]
      /\ BrowseView(ui)
  BY BrowseFacts DEF BrowseInv
<1>2. UNCHANGED <<cache, m>>
  BY DEF Browse!AssetsChange
<1>3. PICK f \in Browse!Filters :
         \/ db[f] < MaxAssets /\ db' = [db EXCEPT ![f] = db[f] + 1] /\ ui' = ui
         \/ db[f] > 0 /\ db' = [db EXCEPT ![f] = db[f] - 1] /\ ui' = [ui EXCEPT !.shrunk = ui.shrunk \cup {f}]
  BY DEF Browse!AssetsChange
<1>4. PICK n \in Nat : n = db[f] /\ n \in 0..MaxAssets
  BY <1>1, BoundsAssumption
<1>5. \A g \in Browse!Filters : db[g] \in Nat
  BY <1>1, BoundsAssumption
<1>6. CASE db[f] < MaxAssets /\ db' = [db EXCEPT ![f] = db[f] + 1] /\ ui' = ui
  <2>1. PICK j \in 0..MaxAssets : j = n + 1
    BY <1>4, <1>6, BoundsAssumption
  <2>2. db' \in [Browse!Filters -> 0..MaxAssets] /\ \A g \in Browse!Filters : db'[g] = IF g = f THEN j ELSE db[g]
    BY <1>1, <1>4, <1>6, <2>1
  <2>3. ASSUME NEW g \in Browse!Filters PROVE db[g] <= db'[g]
    BY <1>4, <1>5, <2>1, <2>2
  <2> QED
    BY <1>1, <1>2, <1>6, <2>2, <2>3, BrowseDrifts
<1>7. CASE db[f] > 0 /\ db' = [db EXCEPT ![f] = db[f] - 1] /\ ui' = [ui EXCEPT !.shrunk = ui.shrunk \cup {f}]
  <2>1. PICK j \in 0..MaxAssets : j = n - 1
    BY <1>4, <1>7, BoundsAssumption
  <2>2. db' \in [Browse!Filters -> 0..MaxAssets] /\ \A g \in Browse!Filters : db'[g] = IF g = f THEN j ELSE db[g]
    BY <1>1, <1>4, <1>7, <2>1
  <2>3. ui' = [filters |-> ui.filters, offset |-> ui.offset, viewMode |-> ui.viewMode, shrunk |-> ui.shrunk \cup {f}]
    BY <1>1, <1>7
  <2>4. /\ ui'.filters = ui.filters /\ ui'.offset = ui.offset /\ ui'.shrunk = ui.shrunk \cup {f}
        /\ ui' = [filters |-> ui'.filters, offset |-> ui'.offset, viewMode |-> ui'.viewMode, shrunk |-> ui'.shrunk]
    BY <2>3
  <2>5. BrowseView(ui')
    BY <1>1, <2>4 DEF BrowseView
  <2>6. ASSUME NEW g \in Browse!Filters PROVE g \in ui'.shrunk \/ db[g] <= db'[g]
    BY <1>5, <2>2, <2>4
  <2>7. ui.shrunk \subseteq ui'.shrunk
    BY <2>4
  <2> QED
    BY <1>2, <2>2, <2>4, <2>5, <2>6, <2>7, BrowseDrifts
<1> QED
  BY <1>3, <1>6, <1>7

LEMMA BrowseNext == BrowseInv /\ Browse!Next => BrowseInv'
<1> SUFFICES ASSUME BrowseInv, Browse!Next PROVE BrowseInv'
  OBVIOUS
<1> QED
  BY BrowseToolbar, BrowseViewMode, BrowsePrevious, BrowseForward, BrowseRefetches, BrowseChanges, BrowseLists
     DEF Browse!Next

LEMMA BrowseSafe == BrowseInv => Browse!TypeOK /\ Browse!PageNotBlank
<1> SUFFICES ASSUME BrowseInv PROVE Browse!TypeOK /\ Browse!PageNotBlank
  OBVIOUS
<1>1. Browse!TypeOK
  <2>1. \A k \in Browse!Keys : cache[k] = Undefined \/ cache[k] \in [total : 0..MaxAssets, items : 0..2]
    BY DEF BrowseInv, ListLoaded
  <2>2. db \in [Browse!Filters -> 0..MaxAssets] /\ m \subseteq Browse!Keys /\ Browse!key \in Browse!Keys
    BY BrowseFacts DEF BrowseInv
  <2> QED
    BY <2>1, <2>2 DEF Browse!TypeOK
<1>2. Browse!PageNotBlank
  <2>1. SUFFICES ASSUME cache[Browse!key] # Undefined, Browse!shown.items = 0, Browse!shown.total > 0,
                        ui.filters \notin ui.shrunk
                 PROVE  FALSE
    BY DEF Browse!PageNotBlank, Browse!emptyPage
  <2>2. PICK q : q = cache[Browse!key] /\ ListLoaded(q, ui.filters, db, ui)
    BY BrowseFacts
  <2>3. q.total = 0
    BY <2>1, <2>2 DEF ListLoaded, Browse!shown
  <2> QED
    BY <2>1, <2>2, <2>3 DEF Browse!shown
<1> QED
  BY <1>1, <1>2

-----------------------------------------------------------------------------
(* The audit page.                                                          *)

AuditPlayer == [state : {"loading", "ready", "error"}, scripted : BOOLEAN, loaded : BOOLEAN,
                playing : BOOLEAN, button : BOOLEAN, replaced : BOOLEAN]

(* The button says what the recording does, or it was another one's.        *)
PlayerOk(p) == p \in AuditPlayer /\ (p.replaced \/ p.button = p.playing)

(* What the page lists and what its form shows come from its link, until    *)
(* the operator changes them.                                               *)
LinkOk(url, filters, draft, edited) ==
  /\ url \in Audit!Filters /\ filters \in Audit!Filters /\ draft \in Audit!Filters
  /\ edited \/ url = Audit!NoParams \/ (filters = url /\ draft = url)

AuditView(u) ==
  /\ u = [readAll |-> u.readAll, url |-> u.url, filters |-> u.filters, draft |-> u.draft, edited |-> u.edited,
          inspected |-> u.inspected, player |-> u.player, calls |-> u.calls]
  /\ LinkOk(u.url, u.filters, u.draft, u.edited)
  /\ u.inspected \in Things \cup {"none"} /\ PlayerOk(u.player)

AuditCalls(n) == MutationCalls(n, {"inspect"}) /\ (n["inspect"].phase # "idle" => n["inspect"].arg \in Things)

AuditInv == AuditView(ui) /\ AuditCalls(m)

(* A player and its fields.                                                 *)
LEMMA PlayerFields ==
  ASSUME NEW p \in AuditPlayer
  PROVE  /\ p = [state |-> p.state, scripted |-> p.scripted, loaded |-> p.loaded, playing |-> p.playing,
                 button |-> p.button, replaced |-> p.replaced]
         /\ p.state \in {"loading", "ready", "error"} /\ p.scripted \in BOOLEAN /\ p.loaded \in BOOLEAN
         /\ p.playing \in BOOLEAN /\ p.button \in BOOLEAN /\ p.replaced \in BOOLEAN
BY DEF AuditPlayer

(* A player made of given fields.                                           *)
LEMMA PlayerMade ==
  ASSUME NEW s \in {"loading", "ready", "error"}, NEW c \in BOOLEAN, NEW l \in BOOLEAN, NEW o \in BOOLEAN,
         NEW b \in BOOLEAN, NEW r \in BOOLEAN, r \/ b = o,
         NEW p, p = [state |-> s, scripted |-> c, loaded |-> l, playing |-> o, button |-> b, replaced |-> r]
  PROVE  PlayerOk(p)
<1>1. p \in AuditPlayer
  BY DEF AuditPlayer
<1>2. p.replaced = r /\ p.button = b /\ p.playing = o
  OBVIOUS
<1> QED
  BY <1>1, <1>2 DEF PlayerOk

LEMMA NewPlayerOk == PlayerOk(Audit!NewPlayer)
<1>1. PICK f \in BOOLEAN : f = FALSE
  OBVIOUS
<1>2. PICK p : p = [state |-> "loading", scripted |-> f, loaded |-> f, playing |-> f, button |-> f, replaced |-> f]
  OBVIOUS
<1>3. Audit!NewPlayer = p
  BY <1>1, <1>2 DEF Audit!NewPlayer
<1>4. PlayerOk(p)
  BY <1>2, PlayerMade
<1> QED
  BY <1>3, <1>4

(* The events of a player that change neither what it plays nor its button. *)
LEMMA PlayerLoads ==
  ASSUME NEW p, PlayerOk(p)
  PROVE  /\ PlayerOk([p EXCEPT !.scripted = TRUE]) /\ PlayerOk([p EXCEPT !.state = "error"])
         /\ PlayerOk([p EXCEPT !.loaded = TRUE, !.state = "ready"])
<1>1. /\ p = [state |-> p.state, scripted |-> p.scripted, loaded |-> p.loaded, playing |-> p.playing,
              button |-> p.button, replaced |-> p.replaced]
      /\ p.state \in {"loading", "ready", "error"} /\ p.scripted \in BOOLEAN /\ p.loaded \in BOOLEAN
      /\ p.playing \in BOOLEAN /\ p.button \in BOOLEAN /\ p.replaced \in BOOLEAN
      /\ p.replaced \/ p.button = p.playing
  BY PlayerFields DEF PlayerOk
<1>2. PICK t \in BOOLEAN : t = TRUE
  OBVIOUS
<1>3. PICK a : a = [p EXCEPT !.scripted = t]
  OBVIOUS
<1>4. a = [state |-> p.state, scripted |-> t, loaded |-> p.loaded, playing |-> p.playing,
           button |-> p.button, replaced |-> p.replaced]
  BY <1>1, <1>3
<1>5. PlayerOk(a)
  BY <1>1, <1>4, PlayerMade
<1>6. PICK e : e = [p EXCEPT !.state = "error"]
  OBVIOUS
<1>7. e = [state |-> "error", scripted |-> p.scripted, loaded |-> p.loaded, playing |-> p.playing,
           button |-> p.button, replaced |-> p.replaced]
  BY <1>1, <1>6
<1>8. PlayerOk(e)
  BY <1>1, <1>7, PlayerMade
<1>9. PICK l : l = [p EXCEPT !.loaded = t]
  OBVIOUS
<1>10. l = [state |-> p.state, scripted |-> p.scripted, loaded |-> t, playing |-> p.playing,
            button |-> p.button, replaced |-> p.replaced]
  BY <1>1, <1>9
<1>11. PICK r : r = [l EXCEPT !.state = "ready"]
  OBVIOUS
<1>12. r = [state |-> "ready", scripted |-> p.scripted, loaded |-> t, playing |-> p.playing,
            button |-> p.button, replaced |-> p.replaced]
  BY <1>10, <1>11
<1>13. PlayerOk(r)
  BY <1>1, <1>12, PlayerMade
<1>14. r = [p EXCEPT !.loaded = TRUE, !.state = "ready"]
  BY <1>2, <1>9, <1>11
<1> QED
  BY <1>2, <1>3, <1>5, <1>6, <1>8, <1>13, <1>14

(* onplay and onpause tell the button.                                      *)
LEMMA PlayerPlays ==
  ASSUME NEW p, PlayerOk(p), NEW on \in BOOLEAN
  PROVE  PlayerOk([p EXCEPT !.playing = on, !.button = on, !.replaced = FALSE])
<1>1. /\ p = [state |-> p.state, scripted |-> p.scripted, loaded |-> p.loaded, playing |-> p.playing,
              button |-> p.button, replaced |-> p.replaced]
      /\ p.state \in {"loading", "ready", "error"} /\ p.scripted \in BOOLEAN /\ p.loaded \in BOOLEAN
  BY PlayerFields DEF PlayerOk
<1>2. PICK f \in BOOLEAN : f = FALSE
  OBVIOUS
<1>3. PICK a : a = [p EXCEPT !.playing = on]
  OBVIOUS
<1>4. PICK b : b = [a EXCEPT !.button = on]
  OBVIOUS
<1>5. PICK c : c = [b EXCEPT !.replaced = f]
  OBVIOUS
<1>6. a = [state |-> p.state, scripted |-> p.scripted, loaded |-> p.loaded, playing |-> on,
           button |-> p.button, replaced |-> p.replaced]
  BY <1>1, <1>3
<1>7. b = [state |-> p.state, scripted |-> p.scripted, loaded |-> p.loaded, playing |-> on,
           button |-> on, replaced |-> p.replaced]
  BY <1>4, <1>6
<1>8. c = [state |-> p.state, scripted |-> p.scripted, loaded |-> p.loaded, playing |-> on, button |-> on, replaced |-> f]
  BY <1>5, <1>7
<1>9. PlayerOk(c)
  BY <1>1, <1>8, PlayerMade
<1>10. c = [p EXCEPT !.playing = on, !.button = on, !.replaced = FALSE]
  BY <1>2, <1>3, <1>4, <1>5
<1> QED
  BY <1>9, <1>10

(* Another recording takes the place of the one that the player has.        *)
LEMMA PlayerReplaced ==
  ASSUME PlayerOk(ui.player)
  PROVE  PlayerOk(Audit!blobChanged)
<1>1. PICK p : p = ui.player
  OBVIOUS
<1>2. /\ p = [state |-> p.state, scripted |-> p.scripted, loaded |-> p.loaded, playing |-> p.playing,
              button |-> p.button, replaced |-> p.replaced]
      /\ p.state \in {"loading", "ready", "error"} /\ p.button \in BOOLEAN /\ p.playing \in BOOLEAN
      /\ p.replaced \in BOOLEAN /\ (p.replaced \/ p.button = p.playing)
  BY <1>1, PlayerFields DEF PlayerOk
<1>3. PICK f \in BOOLEAN : f = FALSE
  OBVIOUS
<1>4. PICK g \in BOOLEAN : g = (p.replaced \/ p.playing)
  BY Zenon
<1>5. PICK a : a = [p EXCEPT !.scripted = f]
  OBVIOUS
<1>6. PICK b : b = [a EXCEPT !.loaded = f]
  OBVIOUS
<1>7. PICK c : c = [b EXCEPT !.playing = f]
  OBVIOUS
<1>8. PICK d : d = [c EXCEPT !.replaced = g]
  OBVIOUS
<1>9. a = [state |-> p.state, scripted |-> f, loaded |-> p.loaded, playing |-> p.playing,
           button |-> p.button, replaced |-> p.replaced]
  BY <1>2, <1>5
<1>10. b = [state |-> p.state, scripted |-> f, loaded |-> f, playing |-> p.playing,
            button |-> p.button, replaced |-> p.replaced]
  BY <1>6, <1>9
<1>11. c = [state |-> p.state, scripted |-> f, loaded |-> f, playing |-> f,
            button |-> p.button, replaced |-> p.replaced]
  BY <1>7, <1>10
<1>12. d = [state |-> p.state, scripted |-> f, loaded |-> f, playing |-> f, button |-> p.button, replaced |-> g]
  BY <1>8, <1>11
<1>13. g \/ p.button = f
  BY <1>2, <1>3, <1>4
<1>14. PlayerOk(d)
  BY <1>2, <1>12, <1>13, PlayerMade
<1>15. d = Audit!blobChanged
  BY <1>1, <1>3, <1>4, <1>5, <1>6, <1>7, <1>8 DEF Audit!blobChanged
<1> QED
  BY <1>14, <1>15

LEMMA AuditInit == Audit!Init => AuditInv
<1> SUFFICES ASSUME Audit!Init PROVE AuditInv
  OBVIOUS
<1>1. PICK url \in Audit!Filters, all \in BOOLEAN :
         ui = [readAll |-> all, url |-> url, filters |-> url, draft |-> url, edited |-> FALSE,
               inspected |-> Audit!None, player |-> Audit!NewPlayer, calls |-> 0]
  BY DEF Audit!Init
<1>2. PICK p, f : p = Audit!NewPlayer /\ f = FALSE /\ PlayerOk(p)
  BY NewPlayerOk
<1>3. ui = [readAll |-> all, url |-> url, filters |-> url, draft |-> url, edited |-> f,
            inspected |-> "none", player |-> p, calls |-> 0]
  BY <1>1, <1>2 DEF Audit!None
<1>4. /\ ui = [readAll |-> ui.readAll, url |-> ui.url, filters |-> ui.filters, draft |-> ui.draft, edited |-> ui.edited,
               inspected |-> ui.inspected, player |-> ui.player, calls |-> ui.calls]
      /\ ui.url = url /\ ui.filters = url /\ ui.draft = url /\ ui.inspected = "none" /\ ui.player = p
  BY <1>3
<1>5. AuditView(ui)
  BY <1>2, <1>4 DEF AuditView, LinkOk
<1>6. PICK c : c = [phase |-> "idle", arg |-> Undefined, ans |-> Undefined]
  OBVIOUS
<1>7. m = [x \in {"inspect"} |-> c]
  BY <1>6 DEF Audit!Init, Audit!Mutations, Audit!Idle
<1>8. AuditCalls(m)
  BY <1>6, <1>7 DEF AuditCalls, MutationCalls
<1> QED
  BY <1>5, <1>8 DEF AuditInv

(* A step that makes the page of given fields.                              *)
LEMMA AuditStep ==
  ASSUME AuditInv, NEW a, NEW url, NEW filters, NEW draft, NEW edited, NEW inspected, NEW player, NEW calls,
         ui' = [readAll |-> a, url |-> url, filters |-> filters, draft |-> draft, edited |-> edited,
                inspected |-> inspected, player |-> player, calls |-> calls],
         LinkOk(url, filters, draft, edited), inspected \in Things \cup {"none"}, PlayerOk(player), AuditCalls(m')
  PROVE  AuditInv'
<1>1. /\ ui' = [readAll |-> ui'.readAll, url |-> ui'.url, filters |-> ui'.filters, draft |-> ui'.draft,
                edited |-> ui'.edited, inspected |-> ui'.inspected, player |-> ui'.player, calls |-> ui'.calls]
      /\ ui'.url = url /\ ui'.filters = filters /\ ui'.draft = draft /\ ui'.edited = edited
      /\ ui'.inspected = inspected /\ ui'.player = player
  OBVIOUS
<1>2. AuditView(ui')
  BY <1>1 DEF AuditView
<1> QED
  BY <1>2 DEF AuditInv

LEMMA AuditFacts ==
  ASSUME AuditInv
  PROVE  /\ ui = [readAll |-> ui.readAll, url |-> ui.url, filters |-> ui.filters, draft |-> ui.draft,
                  edited |-> ui.edited, inspected |-> ui.inspected, player |-> ui.player, calls |-> ui.calls]
         /\ LinkOk(ui.url, ui.filters, ui.draft, ui.edited)
         /\ ui.inspected \in Things \cup {"none"} /\ PlayerOk(ui.player) /\ AuditCalls(m)
BY DEF AuditInv, AuditView

(* The filters.                                                             *)
LEMMA AuditFilters ==
  ASSUME AuditInv, m' = m, NEW url, NEW filters, NEW draft, NEW edited, LinkOk(url, filters, draft, edited),
         ui' = [ui EXCEPT !.url = url, !.filters = filters, !.draft = draft, !.edited = edited]
  PROVE  AuditInv'
<1>1. /\ ui = [readAll |-> ui.readAll, url |-> ui.url, filters |-> ui.filters, draft |-> ui.draft,
               edited |-> ui.edited, inspected |-> ui.inspected, player |-> ui.player, calls |-> ui.calls]
      /\ ui.inspected \in Things \cup {"none"} /\ PlayerOk(ui.player) /\ AuditCalls(m')
  BY AuditFacts
<1>2. PICK u1 : u1 = [ui EXCEPT !.url = url]
  OBVIOUS
<1>3. PICK u2 : u2 = [u1 EXCEPT !.filters = filters]
  OBVIOUS
<1>4. PICK u3 : u3 = [u2 EXCEPT !.draft = draft]
  OBVIOUS
<1>5. ui' = [u3 EXCEPT !.edited = edited]
  BY <1>2, <1>3, <1>4
<1>6. u1 = [readAll |-> ui.readAll, url |-> url, filters |-> ui.filters, draft |-> ui.draft,
            edited |-> ui.edited, inspected |-> ui.inspected, player |-> ui.player, calls |-> ui.calls]
  BY <1>1, <1>2
<1>7. u2 = [readAll |-> ui.readAll, url |-> url, filters |-> filters, draft |-> ui.draft,
            edited |-> ui.edited, inspected |-> ui.inspected, player |-> ui.player, calls |-> ui.calls]
  BY <1>3, <1>6
<1>8. u3 = [readAll |-> ui.readAll, url |-> url, filters |-> filters, draft |-> draft,
            edited |-> ui.edited, inspected |-> ui.inspected, player |-> ui.player, calls |-> ui.calls]
  BY <1>4, <1>7
<1>9. ui' = [readAll |-> ui.readAll, url |-> url, filters |-> filters, draft |-> draft,
             edited |-> edited, inspected |-> ui.inspected, player |-> ui.player, calls |-> ui.calls]
  BY <1>5, <1>8
<1> QED
  BY <1>1, <1>9, AuditStep

(* A filter: the user and the status.                                       *)
LEMMA EmptyFilters == Audit!emptyFilters \in Audit!Filters
BY DEF Audit!emptyFilters, Audit!Filters

LEMMA FilterOfUser ==
  ASSUME NEW f \in Audit!Filters, NEW u \in One \cup {"none"}
  PROVE  [f EXCEPT !.user = u] \in Audit!Filters
BY DEF Audit!Filters, Audit!None

LEMMA AuditNavigates ==
  ASSUME AuditInv, NEW link \in Audit!Filters, Audit!navigate(link)
  PROVE  AuditInv'
<1>1. m' = m /\ ui' = Audit!SeedFilters(link)
  BY DEF Audit!navigate
<1>2. /\ ui = [readAll |-> ui.readAll, url |-> ui.url, filters |-> ui.filters, draft |-> ui.draft,
               edited |-> ui.edited, inspected |-> ui.inspected, player |-> ui.player, calls |-> ui.calls]
      /\ ui.inspected \in Things \cup {"none"} /\ PlayerOk(ui.player) /\ AuditCalls(m')
      /\ LinkOk(ui.url, ui.filters, ui.draft, ui.edited)
  BY <1>1, AuditFacts
<1>3. CASE link = ui.url
  <2>1. ui' = ui
    BY <1>1, <1>3 DEF Audit!SeedFilters
  <2> QED
    BY <1>1, <2>1 DEF AuditInv
<1>4. CASE link # ui.url /\ link = Audit!NoParams
  <2>1. ui' = [ui EXCEPT !.url = link]
    BY <1>1, <1>4 DEF Audit!SeedFilters
  <2>2. ui' = [readAll |-> ui.readAll, url |-> link, filters |-> ui.filters, draft |-> ui.draft,
               edited |-> ui.edited, inspected |-> ui.inspected, player |-> ui.player, calls |-> ui.calls]
    BY <1>2, <2>1
  <2>3. LinkOk(link, ui.filters, ui.draft, ui.edited)
    BY <1>2, <1>4 DEF LinkOk
  <2> QED
    BY <1>2, <2>2, <2>3, AuditStep
<1>5. CASE link # ui.url /\ link # Audit!NoParams
  <2>1. PICK f : f = FALSE
    OBVIOUS
  <2>2. ui' = [ui EXCEPT !.url = link, !.filters = link, !.draft = link, !.edited = f]
    BY <1>1, <1>5, <2>1 DEF Audit!SeedFilters
  <2>3. LinkOk(link, link, link, f)
    BY DEF LinkOk
  <2> QED
    BY <1>1, <2>2, <2>3, AuditFilters
<1> QED
  BY <1>3, <1>4, <1>5

LEMMA AuditEdits ==
  ASSUME AuditInv, Audit!updateFilter \/ Audit!applyFilters \/ Audit!resetFilters
  PROVE  AuditInv'
<1>1. /\ ui = [readAll |-> ui.readAll, url |-> ui.url, filters |-> ui.filters, draft |-> ui.draft,
               edited |-> ui.edited, inspected |-> ui.inspected, player |-> ui.player, calls |-> ui.calls]
      /\ ui.inspected \in Things \cup {"none"} /\ PlayerOk(ui.player) /\ AuditCalls(m)
      /\ ui.url \in Audit!Filters /\ ui.filters \in Audit!Filters /\ ui.draft \in Audit!Filters
  BY AuditFacts DEF LinkOk
<1>2. PICK t \in BOOLEAN : t = TRUE
  OBVIOUS
<1>3. ASSUME NEW u, NEW f, NEW d, u \in Audit!Filters, f \in Audit!Filters, d \in Audit!Filters
      PROVE  LinkOk(u, f, d, t)
  BY <1>2, <1>3 DEF LinkOk
<1>4. CASE Audit!updateFilter
  <2>1. PICK f \in Audit!Filters : ui' = [ui EXCEPT !.draft = f, !.edited = t] /\ m' = m
    BY <1>2, <1>4 DEF Audit!updateFilter
  <2>2. PICK u : u = [ui EXCEPT !.draft = f]
    OBVIOUS
  <2>3. u = [readAll |-> ui.readAll, url |-> ui.url, filters |-> ui.filters, draft |-> f,
             edited |-> ui.edited, inspected |-> ui.inspected, player |-> ui.player, calls |-> ui.calls]
    BY <1>1, <2>2
  <2>4. ui' = [u EXCEPT !.edited = t]
    BY <2>1, <2>2
  <2>5. ui' = [readAll |-> ui.readAll, url |-> ui.url, filters |-> ui.filters, draft |-> f,
               edited |-> t, inspected |-> ui.inspected, player |-> ui.player, calls |-> ui.calls]
    BY <2>3, <2>4
  <2>6. LinkOk(ui.url, ui.filters, f, t) /\ AuditCalls(m')
    BY <1>1, <1>3, <2>1
  <2> QED
    BY <1>1, <2>5, <2>6, AuditStep
<1>5. CASE Audit!applyFilters
  <2>1. PICK w : w = IF ui.readAll THEN ui.draft.user ELSE "none"
    OBVIOUS
  <2>2. PICK f : f = [ui.draft EXCEPT !.user = w]
    OBVIOUS
  <2>3. w \in One \cup {"none"}
    BY <1>1, <2>1 DEF Audit!Filters, Audit!None
  <2>4. f \in Audit!Filters
    BY <1>1, <2>2, <2>3, FilterOfUser
  <2>5. ui' = [ui EXCEPT !.filters = f, !.edited = t] /\ m' = m
    BY <1>2, <1>5, <2>1, <2>2 DEF Audit!applyFilters, Audit!None
  <2>6. PICK u : u = [ui EXCEPT !.filters = f]
    OBVIOUS
  <2>7. u = [readAll |-> ui.readAll, url |-> ui.url, filters |-> f, draft |-> ui.draft,
             edited |-> ui.edited, inspected |-> ui.inspected, player |-> ui.player, calls |-> ui.calls]
    BY <1>1, <2>6
  <2>8. ui' = [u EXCEPT !.edited = t]
    BY <2>5, <2>6
  <2>9. ui' = [readAll |-> ui.readAll, url |-> ui.url, filters |-> f, draft |-> ui.draft,
               edited |-> t, inspected |-> ui.inspected, player |-> ui.player, calls |-> ui.calls]
    BY <2>7, <2>8
  <2>10. LinkOk(ui.url, f, ui.draft, t) /\ AuditCalls(m')
    BY <1>1, <1>3, <2>4, <2>5
  <2> QED
    BY <1>1, <2>9, <2>10, AuditStep
<1>6. CASE Audit!resetFilters
  <2>1. PICK f \in Audit!Filters : f = Audit!emptyFilters
    BY EmptyFilters
  <2>2. ui' = [ui EXCEPT !.filters = f, !.draft = f, !.edited = t] /\ m' = m
    BY <1>2, <1>6, <2>1 DEF Audit!resetFilters
  <2>3. PICK u : u = [ui EXCEPT !.filters = f]
    OBVIOUS
  <2>4. u = [readAll |-> ui.readAll, url |-> ui.url, filters |-> f, draft |-> ui.draft,
             edited |-> ui.edited, inspected |-> ui.inspected, player |-> ui.player, calls |-> ui.calls]
    BY <1>1, <2>3
  <2>5. PICK v : v = [u EXCEPT !.draft = f]
    OBVIOUS
  <2>6. v = [readAll |-> ui.readAll, url |-> ui.url, filters |-> f, draft |-> f,
             edited |-> ui.edited, inspected |-> ui.inspected, player |-> ui.player, calls |-> ui.calls]
    BY <2>4, <2>5
  <2>7. ui' = [v EXCEPT !.edited = t]
    BY <2>2, <2>3, <2>5
  <2>8. ui' = [readAll |-> ui.readAll, url |-> ui.url, filters |-> f, draft |-> f,
               edited |-> t, inspected |-> ui.inspected, player |-> ui.player, calls |-> ui.calls]
    BY <2>6, <2>7
  <2>9. LinkOk(ui.url, f, f, t) /\ AuditCalls(m')
    BY <1>1, <1>3, <2>1, <2>2
  <2> QED
    BY <1>1, <2>8, <2>9, AuditStep
<1> QED
  BY <1>4, <1>5, <1>6

(* The inspection of a recording.                                           *)
LEMMA AuditInspects ==
  ASSUME AuditInv, NEW r \in Things, Audit!inspect(r)
  PROVE  AuditInv'
<1>1. /\ CallSet("inspect", "sent", r, Undefined) /\ ui' = [ui EXCEPT !.calls = ui.calls + 1]
  BY DEF Audit!inspect, Audit!mutate, CallSet
<1>2. /\ ui = [readAll |-> ui.readAll, url |-> ui.url, filters |-> ui.filters, draft |-> ui.draft,
               edited |-> ui.edited, inspected |-> ui.inspected, player |-> ui.player, calls |-> ui.calls]
      /\ LinkOk(ui.url, ui.filters, ui.draft, ui.edited)
      /\ ui.inspected \in Things \cup {"none"} /\ PlayerOk(ui.player) /\ MutationCalls(m, {"inspect"})
  BY AuditFacts DEF AuditCalls
<1>3. PICK j : j = ui.calls + 1
  OBVIOUS
<1>4. ui' = [readAll |-> ui.readAll, url |-> ui.url, filters |-> ui.filters, draft |-> ui.draft,
             edited |-> ui.edited, inspected |-> ui.inspected, player |-> ui.player, calls |-> j]
  BY <1>1, <1>2, <1>3
<1>5. AuditCalls(m')
  BY <1>1, <1>2, CallMade DEF AuditCalls
<1> QED
  BY <1>2, <1>4, <1>5, AuditStep

LEMMA AuditAnswered ==
  ASSUME AuditInv, Audit!getSessionRecording \/ Audit!MutationFailed("inspect")
  PROVE  AuditInv'
<1>1. MutationCalls(m, {"inspect"}) /\ (m["inspect"].phase # "idle" => m["inspect"].arg \in Things)
  BY AuditFacts DEF AuditCalls
<1>2. AuditCalls(m') /\ ui' = ui
  <2>1. CASE Audit!getSessionRecording
    <3>1. CallAnswered("inspect", Undefined) /\ m["inspect"].phase = "sent" /\ ui' = ui
      BY <2>1 DEF Audit!getSessionRecording, Audit!Executed, CallAnswered
    <3> QED
      BY <1>1, <3>1, CallExecuted DEF AuditCalls
  <2>2. CASE Audit!MutationFailed("inspect")
    <3>1. CallSet("inspect", "idle", Undefined, Undefined) /\ ui' = ui
      BY <2>2 DEF Audit!MutationFailed, Audit!Ended, Audit!Idle, CallSet
    <3> QED
      BY <1>1, <3>1, CallMade DEF AuditCalls
  <2> QED
    BY <2>1, <2>2
<1> QED
  BY <1>2 DEF AuditInv

(* Another recording is shown, or none.                                     *)
LEMMA AuditShows ==
  ASSUME AuditInv, NEW r \in Things \cup {"none"}, NEW p, PlayerOk(p), AuditCalls(m'),
         ui' = [ui EXCEPT !.inspected = r, !.player = p]
  PROVE  AuditInv'
<1>1. /\ ui = [readAll |-> ui.readAll, url |-> ui.url, filters |-> ui.filters, draft |-> ui.draft,
               edited |-> ui.edited, inspected |-> ui.inspected, player |-> ui.player, calls |-> ui.calls]
      /\ LinkOk(ui.url, ui.filters, ui.draft, ui.edited)
  BY AuditFacts
<1>2. PICK u : u = [ui EXCEPT !.inspected = r]
  OBVIOUS
<1>3. u = [readAll |-> ui.readAll, url |-> ui.url, filters |-> ui.filters, draft |-> ui.draft,
           edited |-> ui.edited, inspected |-> r, player |-> ui.player, calls |-> ui.calls]
  BY <1>1, <1>2
<1>4. ui' = [u EXCEPT !.player = p]
  BY <1>2
<1>5. ui' = [readAll |-> ui.readAll, url |-> ui.url, filters |-> ui.filters, draft |-> ui.draft,
             edited |-> ui.edited, inspected |-> r, player |-> p, calls |-> ui.calls]
  BY <1>3, <1>4
<1> QED
  BY <1>1, <1>5, AuditStep

LEMMA AuditRecording ==
  ASSUME AuditInv, Audit!inspectRecording \/ Audit!closeInspected
  PROVE  AuditInv'
<1>1. /\ MutationCalls(m, {"inspect"}) /\ (m["inspect"].phase # "idle" => m["inspect"].arg \in Things)
      /\ AuditCalls(m) /\ PlayerOk(ui.player)
  BY AuditFacts DEF AuditCalls
<1>2. CASE Audit!inspectRecording
  <2>1. PICK r : r = m["inspect"].arg
    OBVIOUS
  <2>2. PICK p : p = IF Audit!playerShown /\ db.kind[r] = "guac" THEN Audit!blobChanged ELSE Audit!NewPlayer
    OBVIOUS
  <2>3. /\ m["inspect"].phase = "done" /\ ui' = [ui EXCEPT !.inspected = r, !.player = p]
        /\ CallSet("inspect", "idle", Undefined, Undefined)
    BY <1>2, <2>1, <2>2 DEF Audit!inspectRecording, Audit!Ended, Audit!Idle, CallSet
  <2>4. PlayerOk(p)
    BY <1>1, <2>2, PlayerReplaced, NewPlayerOk
  <2>5. AuditCalls(m')
    BY <1>1, <2>3, CallMade DEF AuditCalls
  <2>6. r \in Things
    BY <1>1, <2>1, <2>3
  <2> QED
    BY <2>3, <2>4, <2>5, <2>6, AuditShows
<1>3. CASE Audit!closeInspected
  <2>1. PICK p, r : p = Audit!NewPlayer /\ r = "none"
    OBVIOUS
  <2>2. ui' = [ui EXCEPT !.inspected = r, !.player = p] /\ m' = m
    BY <1>3, <2>1 DEF Audit!closeInspected, Audit!None
  <2>3. PlayerOk(p) /\ AuditCalls(m') /\ r \in Things \cup {"none"}
    BY <1>1, <2>1, <2>2, NewPlayerOk
  <2> QED
    BY <2>2, <2>3, AuditShows
<1> QED
  BY <1>2, <1>3

(* The player.                                                              *)
LEMMA AuditPlays ==
  ASSUME AuditInv, NEW p, PlayerOk(p), Audit!setPlayer(p)
  PROVE  AuditInv'
<1>1. ui' = [ui EXCEPT !.player = p] /\ m' = m
  BY DEF Audit!setPlayer
<1>2. /\ ui = [readAll |-> ui.readAll, url |-> ui.url, filters |-> ui.filters, draft |-> ui.draft,
               edited |-> ui.edited, inspected |-> ui.inspected, player |-> ui.player, calls |-> ui.calls]
      /\ LinkOk(ui.url, ui.filters, ui.draft, ui.edited) /\ ui.inspected \in Things \cup {"none"} /\ AuditCalls(m')
  BY <1>1, AuditFacts
<1>3. ui' = [readAll |-> ui.readAll, url |-> ui.url, filters |-> ui.filters, draft |-> ui.draft,
             edited |-> ui.edited, inspected |-> ui.inspected, player |-> p, calls |-> ui.calls]
  BY <1>1, <1>2
<1> QED
  BY <1>2, <1>3, AuditStep

LEMMA AuditPlayerNext ==
  ASSUME AuditInv,
         Audit!openRecording \/ Audit!onload \/ Audit!onerror \/ Audit!togglePlay \/ Audit!playedToTheEnd
  PROVE  AuditInv'
<1>1. PICK p : p = ui.player /\ PlayerOk(p)
  BY AuditFacts
<1>2. PICK s, e, l : /\ s = [p EXCEPT !.scripted = TRUE] /\ e = [p EXCEPT !.state = "error"]
                     /\ l = [p EXCEPT !.loaded = TRUE, !.state = "ready"]
  OBVIOUS
<1>3. PlayerOk(s) /\ PlayerOk(e) /\ PlayerOk(l)
  BY <1>1, <1>2, PlayerLoads
<1>4. CASE Audit!openRecording
  <2>1. Audit!setPlayer(s) \/ Audit!setPlayer(e)
    BY <1>1, <1>2, <1>4 DEF Audit!openRecording
  <2> QED
    BY <1>3, <2>1, AuditPlays
<1>5. CASE Audit!onload \/ Audit!onerror
  <2>1. Audit!setPlayer(l) \/ Audit!setPlayer(e)
    BY <1>1, <1>2, <1>5 DEF Audit!onload, Audit!onerror
  <2> QED
    BY <1>3, <2>1, AuditPlays
<1>6. CASE Audit!togglePlay \/ Audit!playedToTheEnd
  <2>1. PICK on \in BOOLEAN : Audit!setPlayer(Audit!onplay(on))
    BY <1>6, Zenon DEF Audit!togglePlay, Audit!playedToTheEnd
  <2>2. PICK q : q = [p EXCEPT !.playing = on, !.button = on, !.replaced = FALSE]
    OBVIOUS
  <2>3. PlayerOk(q) /\ Audit!setPlayer(q)
    BY <1>1, <2>1, <2>2, PlayerPlays DEF Audit!onplay
  <2> QED
    BY <2>3, AuditPlays
<1> QED
  BY <1>4, <1>5, <1>6

LEMMA AuditNext == AuditInv /\ Audit!Next => AuditInv'
<1> SUFFICES ASSUME AuditInv, Audit!Next PROVE AuditInv'
  OBVIOUS
<1> QED
  BY AuditNavigates, AuditEdits, AuditInspects, AuditAnswered, AuditRecording, AuditPlayerNext DEF Audit!Next

LEMMA AuditSafe == AuditInv => Audit!TypeOK /\ Audit!LinkApplied /\ Audit!ButtonTruthful
<1> SUFFICES ASSUME AuditInv PROVE Audit!TypeOK /\ Audit!LinkApplied /\ Audit!ButtonTruthful
  OBVIOUS
<1>1. /\ LinkOk(ui.url, ui.filters, ui.draft, ui.edited)
      /\ ui.inspected \in Things \cup {"none"} /\ PlayerOk(ui.player)
  BY AuditFacts
<1>2. Audit!TypeOK
  BY <1>1 DEF Audit!TypeOK, LinkOk, PlayerOk, AuditPlayer, Audit!None
<1>3. Audit!LinkApplied
  BY <1>1 DEF Audit!LinkApplied, Audit!Links, LinkOk
<1>4. Audit!ButtonTruthful
  BY <1>1 DEF Audit!ButtonTruthful, PlayerOk
<1> QED
  BY <1>2, <1>3, <1>4

-----------------------------------------------------------------------------
(* The connect page: the answers are kept under the assets they are about.  *)

ConnectView(u) ==
  u = [selected |-> u.selected, paletteOpen |-> u.paletteOpen, query |-> u.query,
       paletteActive |-> u.paletteActive, overrun |-> u.overrun, told |-> u.told, calls |-> u.calls]

ConnectInv ==
  /\ cache = [rail |-> cache.rail, access |-> cache.access, failed |-> cache.failed] /\ ConnectView(ui)
  /\ cache.access = ui.told
  /\ \A f \in m : f = [key |-> f.key, asset |-> f.asset] /\ f.key = f.asset

LEMMA ConnectInit == Connect!Init => ConnectInv
<1> SUFFICES ASSUME Connect!Init PROVE ConnectInv
  OBVIOUS
<1>1. PICK e, f, p : e = [a \in Things |-> Undefined] /\ f = FALSE /\ p = Connect!None
  OBVIOUS
<1>2. /\ cache = [rail |-> <<>>, access |-> e, failed |-> {}] /\ m = {}
      /\ ui = [selected |-> p, paletteOpen |-> f, query |-> Things, paletteActive |-> 0,
               overrun |-> f, told |-> e, calls |-> 0]
  BY <1>1 DEF Connect!Init
<1> QED
  BY <1>2 DEF ConnectInv, ConnectView

(* A change of a page that keeps what was told.                             *)
ConnectSet(u, w, v) ==
  \/ w = [u EXCEPT !.selected = v] \/ w = [u EXCEPT !.paletteOpen = v] \/ w = [u EXCEPT !.query = v]
  \/ w = [u EXCEPT !.paletteActive = v] \/ w = [u EXCEPT !.overrun = v] \/ w = [u EXCEPT !.calls = v]

LEMMA ConnectViews ==
  ASSUME NEW u, ConnectView(u), NEW w, NEW v, ConnectSet(u, w, v)
  PROVE  ConnectView(w) /\ w.told = u.told
BY DEF ConnectView, ConnectSet

(* An asset is selected: the question is asked under its own key.           *)
LEMMA ConnectSelects ==
  ASSUME ConnectInv, NEW a, NEW u, ConnectView(u), u.told = ui.told, Connect!selectAsset(a, u)
  PROVE  ConnectInv'
<1>1. PICK f : f = [key |-> a, asset |-> a]
  OBVIOUS
<1>2. f = [key |-> f.key, asset |-> f.asset] /\ f.key = f.asset
  BY <1>1
<1>3. cache' = cache /\ ui' = [u EXCEPT !.selected = a] /\ m' \subseteq m \cup {f}
  BY <1>1 DEF Connect!selectAsset, Connect!accessKey
<1>4. ConnectSet(u, ui', a)
  BY <1>3 DEF ConnectSet
<1>5. ConnectView(ui') /\ ui'.told = ui.told
  BY <1>4, ConnectViews
<1> QED
  BY <1>2, <1>3, <1>5 DEF ConnectInv

(* What happens on the page besides.                                        *)
LEMMA ConnectKept ==
  ASSUME ConnectInv, cache' = cache, m' = m, ConnectView(ui'), ui'.told = ui.told
  PROVE  ConnectInv'
BY DEF ConnectInv

(* A key of the palette.                                                    *)
KeyPressed(u, i, o, w) == w = [u EXCEPT !.paletteActive = i, !.overrun = o]

LEMMA PaletteKey ==
  ASSUME NEW u, ConnectView(u), NEW i, NEW o, NEW w, KeyPressed(u, i, o, w)
  PROVE  ConnectView(w) /\ w.told = u.told
<1>1. PICK a : a = [u EXCEPT !.paletteActive = i]
  OBVIOUS
<1>2. w = [a EXCEPT !.overrun = o]
  BY <1>1 DEF KeyPressed
<1>3. ConnectSet(u, a, i) /\ ConnectSet(a, w, o)
  BY <1>1, <1>2 DEF ConnectSet
<1>4. ConnectView(a) /\ a.told = u.told
  BY <1>3, ConnectViews
<1> QED
  BY <1>3, <1>4, ConnectViews

(* Another search in the palette.                                           *)
Searched(u, q, f, w) == w = [u EXCEPT !.query = q, !.paletteActive = 0, !.overrun = f]

LEMMA PaletteSearch ==
  ASSUME NEW u, ConnectView(u), NEW q, NEW f, NEW w, Searched(u, q, f, w)
  PROVE  ConnectView(w) /\ w.told = u.told
<1>1. PICK a : a = [u EXCEPT !.query = q]
  OBVIOUS
<1>2. w = [a EXCEPT !.paletteActive = 0, !.overrun = f]
  BY <1>1 DEF Searched
<1>3. ConnectSet(u, a, q)
  BY <1>1 DEF ConnectSet
<1>4. ConnectView(a) /\ a.told = u.told
  BY <1>3, ConnectViews
<1>5. PICK i : i = 0
  OBVIOUS
<1>6. KeyPressed(a, i, f, w)
  BY <1>2, <1>5 DEF KeyPressed
<1> QED
  BY <1>4, <1>6, PaletteKey

LEMMA ConnectPalette ==
  ASSUME ConnectInv,
         \/ Connect!setPaletteOpen \/ Connect!setPaletteQuery \/ Connect!onArrowDown \/ Connect!onArrowUp
         \/ \E index : Connect!onMouseEnter(index)
  PROVE  ConnectInv'
<1>1. ConnectView(ui)
  BY DEF ConnectInv
<1>2. PICK t, f : t = TRUE /\ f = FALSE
  OBVIOUS
<1>3. CASE Connect!setPaletteOpen
  <2>1. /\ cache' = cache /\ m' = m
        /\ \/ ui' = [ui EXCEPT !.paletteOpen = f]
           \/ ui' = [ui EXCEPT !.paletteOpen = t, !.query = Things, !.paletteActive = 0, !.overrun = f]
    BY <1>2, <1>3 DEF Connect!setPaletteOpen
  <2>2. CASE ui' = [ui EXCEPT !.paletteOpen = f]
    <3>1. ConnectSet(ui, ui', f)
      BY <2>2 DEF ConnectSet
    <3>2. ConnectView(ui') /\ ui'.told = ui.told
      BY <1>1, <3>1, ConnectViews
    <3> QED
      BY <2>1, <3>2, ConnectKept
  <2>3. CASE ui' = [ui EXCEPT !.paletteOpen = t, !.query = Things, !.paletteActive = 0, !.overrun = f]
    <3>1. PICK w : w = [ui EXCEPT !.paletteOpen = t]
      OBVIOUS
    <3>2. ConnectSet(ui, w, t)
      BY <3>1 DEF ConnectSet
    <3>3. ConnectView(w) /\ w.told = ui.told
      BY <1>1, <3>2, ConnectViews
    <3>4. Searched(w, Things, f, ui')
      BY <2>3, <3>1 DEF Searched
    <3>5. ConnectView(ui') /\ ui'.told = ui.told
      BY <3>3, <3>4, PaletteSearch
    <3> QED
      BY <2>1, <3>5, ConnectKept
  <2> QED
    BY <2>1, <2>2, <2>3
<1>4. CASE Connect!setPaletteQuery
  <2>1. PICK q : cache' = cache /\ m' = m /\ Searched(ui, q, f, ui')
    BY <1>2, <1>4 DEF Connect!setPaletteQuery, Searched
  <2>2. ConnectView(ui') /\ ui'.told = ui.told
    BY <1>1, <2>1, PaletteSearch
  <2> QED
    BY <2>1, <2>2, ConnectKept
<1>5. CASE Connect!onArrowDown \/ Connect!onArrowUp \/ \E index : Connect!onMouseEnter(index)
  <2>1. cache' = cache /\ m' = m /\ \E i, o : ui' = [ui EXCEPT !.paletteActive = i, !.overrun = o]
    BY <1>5, Zenon DEF Connect!onArrowDown, Connect!onArrowUp, Connect!onMouseEnter
  <2>2. PICK i, o : KeyPressed(ui, i, o, ui')
    BY <2>1 DEF KeyPressed
  <2>3. ConnectView(ui') /\ ui'.told = ui.told
    BY <1>1, <2>2, PaletteKey
  <2> QED
    BY <2>1, <2>3, ConnectKept
<1> QED
  BY <1>3, <1>4, <1>5

(* The server answers the question f, or does not.                          *)
LEMMA ConnectAnswered ==
  ASSUME ConnectInv, NEW f \in m, Connect!accessResolved(f) \/ Connect!accessFailed(f)
  PROVE  ConnectInv'
<1>1. /\ cache = [rail |-> cache.rail, access |-> cache.access, failed |-> cache.failed] /\ ConnectView(ui)
      /\ cache.access = ui.told /\ f.key = f.asset
      /\ \A e \in m : e = [key |-> e.key, asset |-> e.asset] /\ e.key = e.asset
  BY DEF ConnectInv
<1>2. m' \subseteq m
  BY DEF Connect!accessResolved, Connect!accessFailed
<1>3. CASE Connect!accessResolved(f)
  <2>1. PICK s : s = IF db.allowed[f.asset] THEN "allowed" ELSE "denied"
    OBVIOUS
  <2>2. PICK t, n : t = [ui.told EXCEPT ![f.asset] = s] /\ n = cache.failed \ {f.key}
    OBVIOUS
  <2>3. /\ cache' = [cache EXCEPT !.access[f.key] = s, !.failed = n] /\ ui' = [ui EXCEPT !.told[f.asset] = s]
    BY <1>3, <2>1, <2>2 DEF Connect!accessResolved
  <2>4. PICK c : c = [cache EXCEPT !.access = t]
    OBVIOUS
  <2>5. cache' = [c EXCEPT !.failed = n] /\ ui' = [ui EXCEPT !.told = t]
    BY <1>1, <2>2, <2>3, <2>4
  <2>6. c = [rail |-> cache.rail, access |-> t, failed |-> cache.failed]
    BY <1>1, <2>4
  <2>7. cache' = [rail |-> cache.rail, access |-> t, failed |-> n]
    BY <2>5, <2>6
  <2>8. ConnectView(ui') /\ ui'.told = t
    BY <1>1, <2>5 DEF ConnectView
  <2>9. cache' = [rail |-> cache'.rail, access |-> cache'.access, failed |-> cache'.failed] /\ cache'.access = t
    BY <2>7
  <2> QED
    BY <1>1, <1>2, <2>8, <2>9 DEF ConnectInv
<1>4. CASE Connect!accessFailed(f)
  <2>1. PICK n : n = cache.failed \cup {f.key}
    OBVIOUS
  <2>2. cache' = [cache EXCEPT !.failed = n] /\ ui' = ui
    BY <1>4, <2>1 DEF Connect!accessFailed
  <2>3. cache' = [rail |-> cache.rail, access |-> cache.access, failed |-> n]
    BY <1>1, <2>2
  <2>4. /\ cache' = [rail |-> cache'.rail, access |-> cache'.access, failed |-> cache'.failed]
        /\ cache'.access = cache.access
    BY <2>3
  <2> QED
    BY <1>1, <1>2, <2>2, <2>4 DEF ConnectInv
<1> QED
  BY <1>3, <1>4

LEMMA ConnectNext == ConnectInv /\ Connect!Next => ConnectInv'
<1> SUFFICES ASSUME ConnectInv, Connect!Next PROVE ConnectInv'
  OBVIOUS
<1>1. ConnectView(ui) /\ cache = [rail |-> cache.rail, access |-> cache.access, failed |-> cache.failed]
  BY DEF ConnectInv
<1>2. CASE Connect!railLoaded
  <2>1. cache' = [cache EXCEPT !.rail = db.assets] /\ m' = m /\ ui' = ui
    BY <1>2 DEF Connect!railLoaded
  <2>2. cache' = [rail |-> db.assets, access |-> cache.access, failed |-> cache.failed]
    BY <1>1, <2>1
  <2>3. /\ cache' = [rail |-> cache'.rail, access |-> cache'.access, failed |-> cache'.failed]
        /\ cache'.access = cache.access
    BY <2>2
  <2> QED
    BY <2>1, <2>3 DEF ConnectInv
<1>3. CASE Connect!openLive \/ \E a \in Things : Connect!AccessChanges(a)
  <2>1. /\ cache' = cache /\ m' = m
        /\ \E v : ui' = [ui EXCEPT !.selected = v] \/ ui' = [ui EXCEPT !.calls = v]
    BY <1>3 DEF Connect!openLive, Connect!AccessChanges
  <2>2. PICK v : ConnectSet(ui, ui', v)
    BY <2>1 DEF ConnectSet
  <2>3. ConnectView(ui') /\ ui'.told = ui.told
    BY <1>1, <2>2, ConnectViews
  <2> QED
    BY <2>1, <2>3, ConnectKept
<1>4. CASE \E a \in Things : Connect!onSelect(a)
  BY <1>1, <1>4, ConnectSelects DEF Connect!onSelect
<1>5. CASE Connect!choosePaletteAsset
  <2>1. PICK a, f, u : f = FALSE /\ u = [ui EXCEPT !.paletteOpen = f] /\ Connect!selectAsset(a, u)
    BY <1>5 DEF Connect!choosePaletteAsset
  <2>2. ConnectSet(ui, u, f)
    BY <2>1 DEF ConnectSet
  <2>3. ConnectView(u) /\ u.told = ui.told
    BY <1>1, <2>2, ConnectViews
  <2> QED
    BY <2>1, <2>3, ConnectSelects
<1>6. CASE \E f \in m : Connect!accessResolved(f) \/ Connect!accessFailed(f)
  BY <1>6, ConnectAnswered
<1>7. CASE \/ Connect!setPaletteOpen \/ Connect!setPaletteQuery \/ Connect!onArrowDown \/ Connect!onArrowUp
           \/ \E index \in 0..Cardinality(Things) - 1 : Connect!onMouseEnter(index)
  BY <1>7, ConnectPalette
<1>8. Connect!Cardinality(Things) = Cardinality(Things)
  BY Zenon DEF Cardinality, Connect!Cardinality
<1> QED
  BY <1>2, <1>3, <1>4, <1>5, <1>6, <1>7, <1>8 DEF Connect!Next

LEMMA ConnectSafe == ConnectInv => Connect!AccessOfSelected
BY DEF ConnectInv, Connect!AccessOfSelected, Connect!accessResult, Connect!accessKey

-----------------------------------------------------------------------------
(* The pages together: the operator is on one of them.                      *)

PageInv ==
  /\ part = "relations" => RelationsInv
  /\ part = "access" => AccessInv
  /\ part = "assets" => InventoryInv
  /\ part = "profiles" => ProfilesInv
  /\ part = "aws" => AwsInv
  /\ part = "proxies" => ProxyInv
  /\ part = "keys" => KeysInv
  /\ part = "oidc" => OidcInv
  /\ part = "iam" => IamInv
  /\ part = "cache" => CacheInv
  /\ part = "browse" => BrowseInv
  /\ part = "audit" => AuditInv
  /\ part = "connect" => ConnectInv

LEMMA PageInit == Init => PageInv
<1> SUFFICES ASSUME Init PROVE PageInv
  OBVIOUS
<1>1. /\ part = "relations" => Relations!Init
      /\ part = "access" => Access!Init
      /\ part = "assets" => Inventory!Init
      /\ part = "profiles" => Profiles!Init
      /\ part = "aws" => Aws!Init
      /\ part = "proxies" => SshProxies!Init
      /\ part = "keys" => Keys!Init
      /\ part = "oidc" => Oidc!Init
      /\ part = "iam" => Iam!Init
      /\ part = "cache" => Cache!Init
      /\ part = "browse" => Browse!Init
      /\ part = "audit" => Audit!Init
      /\ part = "connect" => Connect!Init
  BY DEF Init
<1> QED
  BY <1>1, RelationsInit, AccessInit, InventoryInit, ProfilesInit, AwsInit, ProxyInit, KeysInit,
     OidcInit, IamInit, CacheInit, BrowseInit, AuditInit, ConnectInit DEF PageInv

(* A step of the system is a step of the page that the operator is on.      *)
LEMMA StepOfPage ==
  ASSUME Next
  PROVE  /\ part' = part
         /\ part = "relations" => Relations!Next
         /\ part = "access" => Access!Next
         /\ part = "assets" => Inventory!Next
         /\ part = "profiles" => Profiles!Next
         /\ part = "aws" => Aws!Next
         /\ part = "proxies" => SshProxies!Next
         /\ part = "keys" => Keys!Next
         /\ part = "oidc" => Oidc!Next
         /\ part = "iam" => Iam!Next
         /\ part = "cache" => Cache!Next
         /\ part = "browse" => Browse!Next
         /\ part = "audit" => Audit!Next
         /\ part = "connect" => Connect!Next
BY DEF Next

LEMMA PageNext == PageInv /\ [Next]_vars => PageInv'
<1> SUFFICES ASSUME PageInv, [Next]_vars PROVE PageInv'
  OBVIOUS
<1>1. CASE Next
  BY <1>1, StepOfPage, RelationsNext, AccessNext, InventoryNext, ProfilesNext, AwsNext, ProxyNext, KeysNext,
     OidcNext, IamNext, CacheNext, BrowseNext, AuditNext, ConnectNext DEF PageInv
<1>2. CASE UNCHANGED vars
  <2>1. part' = part /\ db' = db /\ cache' = cache /\ m' = m /\ ui' = ui
    BY <1>2 DEF vars
  <2>2. RelationsInv => RelationsInv'
    BY <2>1 DEF RelationsInv, RelationsTypes, RemovalMarked, Relations!RemovingTruthful, Relations!underWay
  <2>3. AccessInv => AccessInv'
    BY <2>1 DEF AccessInv, AccessTypes, DraftsAccounted, Access!ownRequests
  <2>4. InventoryInv => InventoryInv'
    BY <2>1 DEF InventoryInv, InventoryTypes
  <2>5. ProfilesInv => ProfilesInv'
    BY <2>1 DEF ProfilesInv
  <2>6. AwsInv => AwsInv'
    BY <2>1 DEF AwsInv
  <2>7. ProxyInv => ProxyInv'
    BY <2>1 DEF ProxyInv
  <2>8. KeysInv => KeysInv'
    BY <2>1 DEF KeysInv
  <2>9. OidcInv => OidcInv'
    BY <2>1 DEF OidcInv
  <2>10. IamInv => IamInv'
    BY <2>1 DEF IamInv
  <2>11. CacheInv => CacheInv'
    BY <2>1 DEF CacheInv
  <2>12. BrowseInv => BrowseInv'
    BY <2>1 DEF BrowseInv
  <2>13. AuditInv => AuditInv'
    BY <2>1 DEF AuditInv
  <2>14. ConnectInv => ConnectInv'
    BY <2>1 DEF ConnectInv
  <2> QED
    BY <2>1, <2>2, <2>3, <2>4, <2>5, <2>6, <2>7, <2>8, <2>9, <2>10, <2>11, <2>12, <2>13, <2>14 DEF
       PageInv
<1> QED
  BY <1>1, <1>2

(* The inductive invariants of the pages hold: drafts are accounted for     *)
(* until their request is made, calls belong to what the page shows, marks  *)
(* to calls under way, and what a form or an answer is about is known from  *)
(* the mode, the selection and the call it came from.                       *)
THEOREM PagesInvariance == Spec => []PageInv
BY PageInit, PageNext, PTL DEF Spec

(* createRequest of AccessPage, createAssetMutation and                     *)
(* confirmDeleteRelation of AssetsPage: one draft makes one request, lost   *)
(* answers apart; the creation form has one creation under way until it is  *)
(* hidden; a relation is removed by one call, overlapping removals apart.   *)
THEOREM RequestsAreSentOnce == Spec => []SentOnce
<1>1. PageInv => SentOnce
  BY RelationsSafe, AccessSafe, InventorySafe DEF PageInv, SentOnce
<1> QED
  BY <1>1, PagesInvariance, PTL

(* The forms of AwsPage, ConnectivityPage, OidcPage and AssetsPage: values  *)
(* of another account count as unsaved changes, a saved SSH proxy has the   *)
(* credential it needs, a key read from a file is that of the file chosen   *)
(* last, the answer of an update closes no editor of another asset, and the *)
(* connection editor started from the profile the page has.                 *)
THEOREM FormsAreTheirOwn == Spec => []FormsHoldTheirOwn
<1>1. PageInv => FormsHoldTheirOwn
  BY AwsSafe, ProxySafe, KeysSafe, OidcSafe, InventorySafe, ProfilesSafe DEF PageInv, FormsHoldTheirOwn
<1> QED
  BY <1>1, PagesInvariance, PTL

(* The queries of the pages, ConnectPage, CapabilityMatrix, AuditPage and   *)
(* AssetsPage: a query that a mutation changed shows the change when the    *)
(* callbacks have ended; the access shown is that of the selected asset,    *)
(* the answer that to the last question, the list what the link asks for,   *)
(* the player's button what the recording does; a page of assets is blank   *)
(* only if the list has become shorter; a relation is shown as being        *)
(* removed only while it is.                                                *)
THEOREM PagesShowTheTruth == Spec => []ShownIsTrue
<1>1. PageInv => ShownIsTrue
  BY CacheSafe, ConnectSafe, IamSafe, AuditSafe, BrowseSafe, RelationsSafe DEF PageInv, ShownIsTrue
<1> QED
  BY <1>1, PagesInvariance, PTL

(* What a step of a page may not do.                                        *)
PageStep ==
  /\ part = "aws"     => Aws!ForeignFormOnlyLate
  /\ part = "proxies" => SshProxies!ForeignFormOnlyLate
  /\ part = "keys"    => Keys!KeypairDraftKept
  /\ part = "oidc"    => Oidc!EditsDiscarded /\ Oidc!SaveChangesOnlyEdits
  /\ part = "iam"     => Iam!BindsShownUser

LEMMA PageSteps == PageInv /\ [Next]_vars => [PageStep]_vars
<1> SUFFICES ASSUME PageInv, Next PROVE PageStep
  OBVIOUS
<1> QED
  BY StepOfPage, AwsSteps, ProxySteps, KeysSteps, OidcSteps, IamSteps DEF PageInv, PageStep

(* The callbacks of the mutations of AwsPage and ConnectivityPage, the      *)
(* effect of OidcPage and the bindings of IamPage: only a late answer of an *)
(* update brings the values of another account or proxy into a form, an     *)
(* answer discards no key typed since, edits of the OIDC settings are       *)
(* discarded by a save or by other settings only, a save of a fresh form    *)
(* changes the edited fields only, and a binding the user clicked at.       *)
THEOREM EditsMeant == Spec => EditsAreMeant
<1>1. Spec => [][PageStep]_vars
  BY PagesInvariance, PageSteps, PTL DEF Spec
<1> QED
  BY <1>1, Zenon DEF PageStep, EditsAreMeant
=============================================================================
