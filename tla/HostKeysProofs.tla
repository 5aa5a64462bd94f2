--------------------------- MODULE HostKeysProofs ---------------------------
(***************************************************************************)
(* The invariants of HostKeys, for every set of targets, keys and           *)
(* handshakes.                                                              *)
(***************************************************************************)
EXTENDS HostKeys, TLAPS

(* The empty table satisfies the invariant.                                 *)
LEMMA InitInv == Init => Inv
<1> SUFFICES ASSUME Init PROVE Inv
  OBVIOUS
<1>1. TypeOK
  BY HostKeyAssumption DEF Init, TypeOK, HostRow, NoRow, ShakeState, IdleShake
<1>2. OneTimeOverride /\ PendingPaid
  BY DEF Init, OneTimeOverride, PendingPaid, NoRow
<1>3. OneKeyPerEpoch /\ AcceptedPinned
  BY DEF Init, OneKeyPerEpoch, AcceptedPinned, IdleShake
<1> QED BY <1>1, <1>2, <1>3 DEF Inv

(* A handshake in the middle of the callback knows its target and its key.  *)
LEMMA ShakeFields ==
  ASSUME TypeOK, NEW h \in Handshake, shakes[h].pc # "idle"
  PROVE  shakes[h].target \in Target /\ shakes[h].key \in Key
BY DEF TypeOK

(* AcceptedPinned for one handshake, with the epoch spelt out.              *)
PinnedFor(shake) ==
  LET epoch == replaced[shake.target] + deleted[shake.target]
  IN  /\ shake.epoch <= epoch
      /\ shake.epoch = epoch => hosts[shake.target].pin = shake.key

(* The two ways of saying it agree.                                         *)
LEMMA AcceptedPinnedFor ==
  /\ AcceptedPinned <=> \A h \in Handshake : shakes[h].pc = "accepted" =>
                                              PinnedFor(shakes[h])
  /\ AcceptedPinned' <=> \A h \in Handshake : shakes'[h].pc = "accepted" =>
                                               PinnedFor(shakes[h])'
BY DEF AcceptedPinned, PinnedFor, Epoch

(* A handshake that moves on without being accepted, while no row changes,  *)
(* disturbs nothing.                                                        *)
LEMMA MoveOnInv ==
  ASSUME Inv, NEW h \in Handshake, shakes[h].pc \notin {"idle"},
         NEW pc \in {"get", "consume", "stamp", "rejected"},
         Goto(h, pc), UNCHANGED <<now, hosts, history>>
  PROVE  Inv'
<1> USE DEF history
<1>1. TypeOK'
  BY ShakeFields DEF Inv, TypeOK, Goto, ShakeState
<1>2. OneTimeOverride' /\ PendingPaid'
  BY DEF Inv, OneTimeOverride, PendingPaid
<1>3. \A g \in Handshake : shakes'[g].pc = "accepted" => shakes'[g] = shakes[g]
  BY DEF Inv, TypeOK, Goto, ShakeState
<1>4. OneKeyPerEpoch'
  BY <1>3 DEF Inv, OneKeyPerEpoch
<1>5. AcceptedPinned'
  BY <1>3 DEF Inv, AcceptedPinned, Epoch
<1> QED BY <1>1, <1>2, <1>4, <1>5 DEF Inv

(* First use: no accepted handshake relies on a row that is not there.      *)
LEMMA UpsertInv ==
  ASSUME Inv, NEW h \in Handshake, Upsert(h)
  PROVE  Inv'
<1> USE DEF history
<1> DEFINE t == shakes[h].target
           k == shakes[h].key
<1>1. t \in Target /\ k \in Key /\ k # NoKey
  BY ShakeFields, HostKeyAssumption DEF Inv, Upsert
<1>2. hosts[t] \in HostRow
  BY <1>1 DEF Inv, TypeOK
<1>3. /\ UpsertRow(hosts[t], k) \in HostRow
      /\ UpsertRow(hosts[t], k).pin # NoKey
      /\ hosts[t].pin # NoKey => UpsertRow(hosts[t], k) = hosts[t]
      /\ UpsertRow(hosts[t], k).status = "override_pending" =>
           hosts[t].status = "override_pending"
  BY <1>1, <1>2 DEF UpsertRow, HostRow, NoRow
<1> DEFINE row == UpsertRow(hosts[t], k)
<1>4. hosts' = [hosts EXCEPT ![t] = row] /\ Goto(h, "get")
      /\ UNCHANGED <<now, history>> /\ shakes[h].pc = "upsert"
  BY DEF Upsert
<1>5. \A g \in Handshake : shakes'[g].pc = "accepted" => shakes'[g] = shakes[g]
  BY <1>4 DEF Inv, TypeOK, Goto, ShakeState
<1> HIDE DEF row
<1>6. TypeOK'
  <2>1. /\ now' \in Nat /\ approved' \in [Target -> Nat]
        /\ replaced' \in [Target -> Nat] /\ deleted' \in [Target -> Nat]
    BY <1>4 DEF Inv, TypeOK
  <2>2. hosts' \in [Target -> HostRow]
    BY <1>3, <1>4 DEF Inv, TypeOK, row
  <2>3. \A u \in Target : hosts'[u].pin = NoKey => hosts'[u] = NoRow
    BY <1>1, <1>3, <1>4 DEF Inv, TypeOK, row
  <2>4. /\ shakes' \in [Handshake -> ShakeState]
        /\ \A g \in Handshake : shakes'[g].pc # "idle" =>
             shakes'[g].target \in Target /\ shakes'[g].key \in Key
    BY <1>1, <1>4 DEF Inv, TypeOK, Goto, ShakeState
  <2> QED BY <2>1, <2>2, <2>3, <2>4 DEF TypeOK
<1>7. OneTimeOverride'
  BY <1>4 DEF Inv, OneTimeOverride
<1>8. PendingPaid'
  BY <1>1, <1>3, <1>4 DEF Inv, TypeOK, PendingPaid, row
<1>9. OneKeyPerEpoch'
  BY <1>5 DEF Inv, OneKeyPerEpoch
<1>10. AcceptedPinned'
  <2> SUFFICES ASSUME NEW g \in Handshake, shakes'[g].pc = "accepted"
               PROVE  PinnedFor(shakes[g])'
    BY AcceptedPinnedFor
  <2> DEFINE u == shakes[g].target
  <2>1. shakes'[g] = shakes[g] /\ shakes[g].pc = "accepted"
    BY <1>5
  <2>2. u \in Target /\ shakes[g].key # NoKey
    BY <2>1, ShakeFields, HostKeyAssumption DEF Inv
  <2>3. replaced'[u] = replaced[u] /\ deleted'[u] = deleted[u]
    BY <1>4
  <2>4. PinnedFor(shakes[g])
    BY <2>1, AcceptedPinnedFor DEF Inv
  <2>5. hosts[u].pin # NoKey => hosts'[u] = hosts[u]
    BY <1>1, <1>3, <1>4, <2>2 DEF Inv, TypeOK, row
  <2> QED BY <2>1, <2>2, <2>3, <2>4, <2>5 DEF PinnedFor
<1> QED BY <1>6, <1>7, <1>8, <1>9, <1>10 DEF Inv

(* A handshake that is accepted at the current epoch, with the key that is  *)
(* pinned, agrees with all that were accepted at that epoch before.         *)
LEMMA AcceptInv ==
  ASSUME Inv, NEW h \in Handshake, shakes[h].pc # "idle",
         hosts[shakes[h].target].pin = shakes[h].key,
         shakes' = [shakes EXCEPT ![h].pc = "accepted",
                                  ![h].epoch = Epoch(shakes[h].target)],
         UNCHANGED <<now, hosts, history>>
  PROVE  Inv'
<1> USE DEF history
<1>1. shakes[h].target \in Target /\ shakes[h].key \in Key
  BY ShakeFields DEF Inv
<1>2. Epoch(shakes[h].target) \in Nat
  BY <1>1 DEF Inv, TypeOK, Epoch
<1>3. TypeOK'
  <2>1. PICK shake : shake = [shakes[h] EXCEPT !.pc = "accepted", !.epoch = Epoch(shakes[h].target)]
    OBVIOUS
  <2>2. shake \in ShakeState /\ shake.target \in Target /\ shake.key \in Key
    BY <1>1, <1>2, <2>1 DEF Inv, TypeOK, ShakeState
  <2>3. shakes' = [shakes EXCEPT ![h] = shake]
    BY <2>1 DEF Inv, TypeOK
  <2> QED BY <2>2, <2>3 DEF Inv, TypeOK
<1>4. OneTimeOverride' /\ PendingPaid'
  BY DEF Inv, OneTimeOverride, PendingPaid
<1>5. \A g \in Handshake : g # h => shakes'[g] = shakes[g]
  BY DEF Inv, TypeOK
<1>6. /\ shakes'[h].target = shakes[h].target /\ shakes'[h].key = shakes[h].key
      /\ shakes'[h].epoch = Epoch(shakes[h].target)
  BY DEF Inv, TypeOK, ShakeState
<1>7. AcceptedPinned'
  <2> SUFFICES ASSUME NEW g \in Handshake, shakes'[g].pc = "accepted"
               PROVE  PinnedFor(shakes[g])'
    BY AcceptedPinnedFor
  <2>1. CASE g = h
    BY <1>1, <1>2, <1>6, <2>1 DEF PinnedFor, Epoch
  <2>2. CASE g # h
    BY <1>5, <2>2, AcceptedPinnedFor DEF Inv, PinnedFor
  <2> QED BY <2>1, <2>2
<1>8. OneKeyPerEpoch'
  <2>1. ASSUME NEW g \in Handshake, g # h, shakes[g].pc = "accepted",
               shakes[g].target = shakes[h].target,
               shakes[g].epoch = Epoch(shakes[h].target)
        PROVE  shakes[g].key = shakes[h].key
    BY <2>1 DEF Inv, AcceptedPinned
  <2> SUFFICES ASSUME NEW f \in Handshake, NEW g \in Handshake,
                      shakes'[f].pc = "accepted", shakes'[g].pc = "accepted",
                      shakes'[f].target = shakes'[g].target,
                      shakes'[f].epoch = shakes'[g].epoch
               PROVE  shakes'[f].key = shakes'[g].key
    BY DEF OneKeyPerEpoch
  <2>2. CASE f # h /\ g # h
    BY <1>5, <2>2 DEF Inv, OneKeyPerEpoch
  <2>3. CASE f = h /\ g # h
    <3>1. shakes'[g] = shakes[g]
      BY <1>5, <2>3
    <3> QED BY <1>6, <2>1, <2>3, <3>1
  <2>4. CASE f # h /\ g = h
    <3>1. shakes'[f] = shakes[f]
      BY <1>5, <2>4
    <3> QED BY <1>6, <2>1, <2>4, <3>1
  <2> QED BY <2>2, <2>3, <2>4
<1> QED BY <1>3, <1>4, <1>7, <1>8 DEF Inv

(* A new handshake has not been accepted.                                   *)
LEMMA OfferInv ==
  ASSUME Inv, NEW h \in Handshake, NEW t \in Target, NEW k \in Key, Offer(h, t, k)
  PROVE  Inv'
<1> USE DEF history
<1>1. TypeOK'
  BY DEF Inv, TypeOK, Offer, ShakeState
<1>2. OneTimeOverride' /\ PendingPaid'
  BY DEF Inv, OneTimeOverride, PendingPaid, Offer
<1>3. \A g \in Handshake : shakes'[g].pc = "accepted" => shakes'[g] = shakes[g]
  BY DEF Inv, TypeOK, Offer
<1>4. OneKeyPerEpoch'
  BY <1>3 DEF Inv, OneKeyPerEpoch
<1>5. AcceptedPinned'
  BY <1>3 DEF Inv, AcceptedPinned, Epoch, Offer
<1> QED BY <1>1, <1>2, <1>4, <1>5 DEF Inv

(* Using an override up: it was paid for, and everything accepted so far    *)
(* belongs to an earlier epoch.                                             *)
LEMMA ConsumeInv ==
  ASSUME Inv, NEW h \in Handshake, ConsumeOverride(h), OverridePending(shakes[h].target)
  PROVE  Inv'
<1> DEFINE t == shakes[h].target
           k == shakes[h].key
           e == Epoch(t) + 1
<1>1. t \in Target /\ k \in Key /\ k # NoKey
  BY ShakeFields, HostKeyAssumption DEF Inv, ConsumeOverride
<1>2. /\ hosts' = [hosts EXCEPT ![t] = ReplacePin(hosts[t], k)]
      /\ replaced' = [replaced EXCEPT ![t] = @ + 1]
      /\ shakes' = [shakes EXCEPT ![h].pc = "accepted", ![h].epoch = e]
      /\ UNCHANGED <<now, approved, deleted>>
  BY DEF ConsumeOverride
<1>3. /\ ReplacePin(hosts[t], k) \in HostRow
      /\ ReplacePin(hosts[t], k).pin = k
      /\ ReplacePin(hosts[t], k).status = "active"
  BY <1>1 DEF ReplacePin, HostRow, NoRow
<1>4. /\ replaced[t] \in Nat /\ approved[t] \in Nat /\ deleted[t] \in Nat
      /\ e \in Nat /\ e = replaced[t] + 1 + deleted[t]
  BY <1>1 DEF Inv, TypeOK, Epoch
<1>5. \A g \in Handshake : g # h => shakes'[g] = shakes[g]
  BY <1>2 DEF Inv, TypeOK
<1>6. /\ shakes'[h].target = t /\ shakes'[h].key = k /\ shakes'[h].epoch = e
  BY <1>2 DEF Inv, TypeOK, ShakeState
<1>7. \A g \in Handshake :
        shakes[g].pc = "accepted" /\ shakes[g].target = t =>
          shakes[g].epoch \in Nat /\ shakes[g].epoch < e
  BY <1>4 DEF Inv, TypeOK, AcceptedPinned, Epoch, ShakeState
<1>8. TypeOK'
  <2>1. hosts' \in [Target -> HostRow]
    BY <1>2, <1>3 DEF Inv, TypeOK
  <2>2. \A u \in Target : hosts'[u].pin = NoKey => hosts'[u] = NoRow
    BY <1>1, <1>2, <1>3 DEF Inv, TypeOK
  <2>3. /\ shakes' \in [Handshake -> ShakeState]
        /\ \A g \in Handshake : shakes'[g].pc # "idle" =>
             shakes'[g].target \in Target /\ shakes'[g].key \in Key
    <3>1. \A g \in Handshake : shakes'[g] \in ShakeState
      <4>1. shakes'[h] = [shakes[h] EXCEPT !.pc = "accepted", !.epoch = e]
        <5> HIDE DEF e
        <5>1. shakes' = [shakes EXCEPT ![h].pc = "accepted", ![h].epoch = e]
          BY <1>2
        <5>2. DOMAIN shakes = Handshake
          BY DEF Inv, TypeOK
        <5> QED BY <5>1, <5>2
      <4>2. shakes'[h] \in ShakeState
        <5>1. e \in Nat /\ shakes[h] \in ShakeState
          BY <1>4 DEF Inv, TypeOK
        <5> HIDE DEF e
        <5> QED BY <4>1, <5>1 DEF ShakeState
      <4> QED BY <1>5, <4>2 DEF Inv, TypeOK
    <3>2. DOMAIN shakes' = Handshake /\ shakes' = [g \in Handshake |-> shakes'[g]]
      BY <1>2 DEF Inv, TypeOK
    <3>3. shakes' \in [Handshake -> ShakeState]
      BY <3>1, <3>2
    <3> QED BY <1>1, <1>5, <1>6, <3>3 DEF Inv, TypeOK
  <2>4. /\ now' \in Nat /\ approved' \in [Target -> Nat]
        /\ replaced' \in [Target -> Nat] /\ deleted' \in [Target -> Nat]
    <3>1. replaced' = [replaced EXCEPT ![t] = replaced[t] + 1]
      BY <1>2
    <3>2. replaced' \in [Target -> Nat]
      BY <1>1, <1>4, <3>1 DEF Inv, TypeOK
    <3> QED BY <1>2, <3>2 DEF Inv, TypeOK
  <2> QED BY <2>1, <2>2, <2>3, <2>4 DEF TypeOK
<1>9. replaced[t] < approved[t]
  BY <1>1 DEF Inv, PendingPaid, OverridePending
<1>10. OneTimeOverride'
  BY <1>1, <1>2, <1>4, <1>9 DEF Inv, TypeOK, OneTimeOverride
<1>11. PendingPaid'
  BY <1>1, <1>2, <1>3 DEF Inv, TypeOK, PendingPaid
<1>12. AcceptedPinned'
  <2> SUFFICES ASSUME NEW g \in Handshake, shakes'[g].pc = "accepted"
               PROVE  PinnedFor(shakes[g])'
    BY AcceptedPinnedFor
  <2>1. CASE g = h
    BY <1>1, <1>2, <1>3, <1>4, <1>6, <2>1 DEF Inv, TypeOK, PinnedFor
  <2>2. CASE g # h /\ shakes[g].target = t
    BY <1>1, <1>2, <1>4, <1>5, <1>7, <2>2 DEF Inv, TypeOK, PinnedFor
  <2>3. CASE g # h /\ shakes[g].target # t
    <3>1. shakes'[g] = shakes[g] /\ shakes[g].pc = "accepted"
      BY <1>5, <2>3
    <3>2. shakes[g].target \in Target
      BY <3>1, ShakeFields DEF Inv
    <3>3. PinnedFor(shakes[g])
      BY <3>1, AcceptedPinnedFor DEF Inv
    <3> QED BY <1>2, <2>3, <3>1, <3>2, <3>3 DEF Inv, TypeOK, PinnedFor
  <2> QED BY <2>1, <2>2, <2>3
<1>13. OneKeyPerEpoch'
  <2> SUFFICES ASSUME NEW f \in Handshake, NEW g \in Handshake,
                      shakes'[f].pc = "accepted", shakes'[g].pc = "accepted",
                      shakes'[f].target = shakes'[g].target,
                      shakes'[f].epoch = shakes'[g].epoch
               PROVE  shakes'[f].key = shakes'[g].key
    BY DEF OneKeyPerEpoch
  <2>1. CASE f # h /\ g # h
    BY <1>5, <2>1 DEF Inv, OneKeyPerEpoch
  <2>2. CASE f = h /\ g # h
    BY <1>4, <1>5, <1>6, <1>7, <2>2
  <2>3. CASE f # h /\ g = h
    BY <1>4, <1>5, <1>6, <1>7, <2>3
  <2> QED BY <2>1, <2>2, <2>3
<1> QED BY <1>8, <1>10, <1>11, <1>12, <1>13 DEF Inv

(* A stamp leaves pin and approval alone.                                   *)
LEMMA StampInv ==
  ASSUME Inv, NEW h \in Handshake, RecordMismatch(h)
  PROVE  Inv'
<1> USE DEF history
<1> DEFINE t == shakes[h].target
           k == shakes[h].key
           row == StampRow(hosts[t], k)
<1>1. t \in Target /\ k \in Key /\ shakes[h].pc = "stamp"
  BY ShakeFields DEF Inv, RecordMismatch
<1>2. hosts[t] \in HostRow /\ (hosts[t].pin = NoKey => hosts[t] = NoRow)
  BY <1>1 DEF Inv, TypeOK
<1>3. /\ row \in HostRow /\ row.pin = hosts[t].pin
      /\ row.status = hosts[t].status
      /\ row.pin = NoKey => row = NoRow
  BY <1>1, <1>2 DEF StampRow, HostRow, NoRow
<1>4. /\ hosts' = [hosts EXCEPT ![t] = row]
      /\ Goto(h, "rejected") /\ UNCHANGED <<now, history>>
  BY DEF RecordMismatch
<1> HIDE DEF row
<1>5. \A u \in Target : /\ hosts'[u].pin = hosts[u].pin
                        /\ hosts'[u].status = hosts[u].status
  BY <1>1, <1>3, <1>4 DEF Inv, TypeOK
<1>6. \A g \in Handshake : shakes'[g].pc = "accepted" => shakes'[g] = shakes[g]
  BY <1>4 DEF Inv, TypeOK, Goto, ShakeState
<1>7. TypeOK'
  <2>1. /\ hosts' \in [Target -> HostRow]
        /\ \A u \in Target : hosts'[u].pin = NoKey => hosts'[u] = NoRow
    BY <1>1, <1>3, <1>4 DEF Inv, TypeOK
  <2>2. /\ shakes' \in [Handshake -> ShakeState]
        /\ \A g \in Handshake : shakes'[g].pc # "idle" =>
             shakes'[g].target \in Target /\ shakes'[g].key \in Key
    BY <1>1, <1>4 DEF Inv, TypeOK, Goto, ShakeState
  <2> QED BY <1>4, <2>1, <2>2 DEF Inv, TypeOK
<1>8. OneTimeOverride' /\ PendingPaid'
  BY <1>4, <1>5 DEF Inv, OneTimeOverride, PendingPaid
<1>9. OneKeyPerEpoch'
  BY <1>6 DEF Inv, OneKeyPerEpoch
<1>10. AcceptedPinned'
  <2> SUFFICES ASSUME NEW g \in Handshake, shakes'[g].pc = "accepted"
               PROVE  PinnedFor(shakes[g])'
    BY AcceptedPinnedFor
  <2>1. shakes'[g] = shakes[g] /\ shakes[g].target \in Target
    BY <1>6, ShakeFields DEF Inv
  <2>2. PinnedFor(shakes[g])
    BY <1>6, AcceptedPinnedFor DEF Inv
  <2> QED BY <1>4, <1>5, <2>1, <2>2 DEF PinnedFor
<1> QED BY <1>7, <1>8, <1>9, <1>10 DEF Inv

(* An approval pays for one replacement.                                    *)
LEMMA ApproveInv ==
  ASSUME Inv, NEW t \in Target, ApproveOverride(t)
  PROVE  Inv'
<1>1. /\ hosts[t] \in HostRow /\ now + OverrideTTL \in Nat /\ approved[t] \in Nat
      /\ replaced[t] \in Nat /\ hosts[t].pin # NoKey
  BY HostKeyAssumption DEF Inv, TypeOK, ApproveOverride
<1> DEFINE row == [hosts[t] EXCEPT !.status = "override_pending",
                                   !.expires = now + OverrideTTL]
<1>2. /\ row \in HostRow /\ row.pin = hosts[t].pin
  BY <1>1 DEF HostRow
<1>3. /\ hosts' = [hosts EXCEPT ![t] = row]
      /\ approved' = [approved EXCEPT ![t] = @ + 1]
      /\ UNCHANGED <<now, shakes, replaced, deleted>>
  BY DEF ApproveOverride, Inv, TypeOK
<1> HIDE DEF row
<1>4. \A u \in Target : /\ hosts'[u].pin = hosts[u].pin
                        /\ u # t => hosts'[u] = hosts[u]
  BY <1>2, <1>3 DEF Inv, TypeOK
<1>5. TypeOK'
  BY <1>1, <1>2, <1>3 DEF Inv, TypeOK
<1>6. \A u \in Target : /\ replaced[u] \in Nat /\ approved[u] \in Nat
                        /\ replaced[u] <= approved[u]
                        /\ approved'[u] = IF u = t THEN approved[u] + 1
                                                   ELSE approved[u]
  BY <1>3 DEF Inv, TypeOK, OneTimeOverride
<1>7. OneTimeOverride'
  BY <1>3, <1>6 DEF OneTimeOverride
<1>8. PendingPaid'
  BY <1>3, <1>4, <1>6 DEF Inv, PendingPaid
<1>9. OneKeyPerEpoch'
  BY <1>3 DEF Inv, OneKeyPerEpoch
<1>10. AcceptedPinned'
  BY <1>3, <1>4, ShakeFields DEF Inv, AcceptedPinned, Epoch
<1> QED BY <1>5, <1>7, <1>8, <1>9, <1>10 DEF Inv

(* A deletion begins an epoch in which nothing has been accepted yet.       *)
LEMMA DeleteInv ==
  ASSUME Inv, NEW t \in Target, Delete(t)
  PROVE  Inv'
<1>1. /\ hosts' = [hosts EXCEPT ![t] = NoRow]
      /\ deleted' = [deleted EXCEPT ![t] = @ + 1]
      /\ UNCHANGED <<now, shakes, approved, replaced>>
  BY DEF Delete
<1>2. NoRow \in HostRow /\ NoRow.pin = NoKey /\ NoRow.status = "active"
  BY DEF NoRow, HostRow
<1>3. TypeOK'
  BY <1>1, <1>2 DEF Inv, TypeOK
<1>4. OneTimeOverride' /\ PendingPaid' /\ OneKeyPerEpoch'
  BY <1>1, <1>2 DEF Inv, TypeOK, OneTimeOverride, PendingPaid, OneKeyPerEpoch
<1>5. AcceptedPinned'
  <2> SUFFICES ASSUME NEW g \in Handshake, shakes[g].pc = "accepted"
               PROVE  PinnedFor(shakes[g])'
    BY <1>1, AcceptedPinnedFor
  <2>1. /\ shakes[g].target \in Target /\ shakes[g].epoch \in Nat
        /\ PinnedFor(shakes[g])
    BY ShakeFields, AcceptedPinnedFor DEF Inv, TypeOK, ShakeState
  <2> QED BY <1>1, <2>1 DEF Inv, TypeOK, PinnedFor
<1> QED BY <1>3, <1>4, <1>5 DEF Inv

(* Every step keeps the invariant.                                          *)
LEMMA StepInv == Inv /\ [Next]_vars => Inv'
<1> SUFFICES ASSUME Inv, [Next]_vars PROVE Inv'
  OBVIOUS
<1>1. ASSUME NEW h \in Handshake, NEW t \in Target, NEW k \in Key, Offer(h, t, k)
      PROVE  Inv'
  BY <1>1, OfferInv
<1>2. ASSUME NEW h \in Handshake, Upsert(h) PROVE Inv'
  BY <1>2, UpsertInv
<1>3. ASSUME NEW h \in Handshake, Get(h) PROVE Inv'
  BY <1>3, AcceptInv, MoveOnInv DEF Get
<1>4. ASSUME NEW h \in Handshake, ConsumeOverride(h) PROVE Inv'
  <2>1. CASE OverridePending(shakes[h].target)
    BY <1>4, <2>1, ConsumeInv
  <2>2. CASE ~ OverridePending(shakes[h].target)
    BY <1>4, <2>2, MoveOnInv DEF ConsumeOverride, history
  <2> QED BY <2>1, <2>2
<1>5. ASSUME NEW h \in Handshake, RecordMismatch(h) PROVE Inv'
  BY <1>5, StampInv
<1>6. ASSUME NEW h \in Handshake, Fail(h) PROVE Inv'
  BY <1>6, MoveOnInv DEF Fail
<1>7. ASSUME NEW t \in Target, ApproveOverride(t) PROVE Inv'
  BY <1>7, ApproveInv
<1>8. ASSUME NEW t \in Target, Delete(t) PROVE Inv'
  BY <1>8, DeleteInv
<1>9. CASE UNCHANGED <<hosts, shakes, history>> /\ now' \in Nat
  BY <1>9 DEF Inv, TypeOK, OneTimeOverride, PendingPaid, OneKeyPerEpoch,
              AcceptedPinned, Epoch, history
<1>10. CASE Tick
  BY <1>9, <1>10 DEF Inv, TypeOK, Tick
<1>11. CASE UNCHANGED vars
  BY <1>9, <1>11 DEF Inv, TypeOK, vars, history
<1> QED
  BY <1>1, <1>2, <1>3, <1>4, <1>5, <1>6, <1>7, <1>8, <1>10, <1>11 DEF Next, Callback

(* The inductive invariant holds throughout.                                *)
THEOREM Invariance == Spec => []Inv
BY InitInv, StepInv, PTL DEF Spec

(* Every variable keeps its type; no handshake that is over has lost track  *)
(* of its target or its key, and a row without a pin is no row.             *)
THEOREM TypeCorrect == Spec => []TypeOK
<1>1. Inv => TypeOK
  BY DEF Inv
<1>2. QED
  BY <1>1, Invariance, PTL

(* ConsumeOverride never spends an approval twice, whatever interleaves:    *)
(* pins are replaced at most as often as an administrator approved it.      *)
THEOREM OverridesAreOneTime == Spec => []OneTimeOverride
<1>1. Inv => OneTimeOverride
  BY DEF Inv
<1> QED BY <1>1, Invariance, PTL

(* Two handshakes with one target that the callback accepted between two    *)
(* replacements or deletions of its pin offered the same key.               *)
THEOREM EpochsHaveOneKey == Spec => []OneKeyPerEpoch
<1>1. Inv => OneKeyPerEpoch
  BY DEF Inv
<1> QED BY <1>1, Invariance, PTL

(* No step of the callback, the administrator or the clock replaces a pin   *)
(* without using up a valid approval.                                       *)
THEOREM PinsArePinned == Spec => PinnedUntilApproved
<1>1. Inv /\ [Next]_vars => [PinStep]_vars
  <2> SUFFICES ASSUME Inv, Next PROVE PinStep
    OBVIOUS
  <2> SUFFICES ASSUME NEW t \in Target, hosts[t].pin # NoKey, hosts'[t].pin # NoKey,
                      hosts'[t].pin # hosts[t].pin
               PROVE  /\ hosts[t].status = "override_pending"
                      /\ hosts[t].expires > now
                      /\ hosts'[t].status = "active"
                      /\ replaced'[t] = replaced[t] + 1
    BY DEF PinStep
  <2>1. PICK h \in Handshake : ConsumeOverride(h) /\ OverridePending(shakes[h].target)
    <3>1. CASE \E h \in Handshake : Upsert(h)
      BY <3>1, ShakeFields DEF Inv, TypeOK, Upsert, UpsertRow
    <3>2. CASE \E h \in Handshake : RecordMismatch(h)
      BY <3>2, ShakeFields DEF Inv, TypeOK, HostRow, RecordMismatch, StampRow
    <3>3. CASE \E u \in Target : ApproveOverride(u)
      BY <3>3 DEF Inv, TypeOK, HostRow, ApproveOverride
    <3>4. CASE \E u \in Target : Delete(u)
      BY <3>4 DEF Inv, TypeOK, Delete, NoRow
    <3>5. CASE \E h \in Handshake : ConsumeOverride(h)
      BY <3>5 DEF ConsumeOverride
    <3>6. CASE UNCHANGED hosts
      BY <3>6
    <3> QED BY <3>1, <3>2, <3>3, <3>4, <3>5, <3>6
            DEF Next, Callback, Offer, Get, Fail, Tick, Goto, history
  <2>2. shakes[h].target = t
    BY <2>1 DEF Inv, TypeOK, ConsumeOverride
  <2>3. ReplacePin(hosts[t], shakes[h].key).status = "active"
    BY DEF ReplacePin, NoRow
  <2> QED BY <2>1, <2>2, <2>3 DEF Inv, TypeOK, ConsumeOverride, OverridePending
<1> QED BY <1>1, Invariance, PTL DEF Spec, PinnedUntilApproved

=============================================================================
