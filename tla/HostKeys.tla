----------------------------- MODULE HostKeys -----------------------------
(***************************************************************************)
(* Trust-on-first-use pinning of SSH host keys (internal/hostkey): the      *)
(* ssh_known_host table, the handshake callback of the API server and of    *)
(* the probe worker, and the administrator's override and delete.           *)
(*                                                                          *)
(* The callback is a sequence of separate SQL statements, so handshakes     *)
(* with one target, and the administrator, interleave between them.         *)
(***************************************************************************)
EXTENDS Naturals

CONSTANTS Target,        \* (scope, target_id) pairs
          Key,           \* host keys, by fingerprint
          Handshake,     \* SSH handshakes
          NoKey,         \* no row, no fingerprint
          OverrideTTL,   \* lifetime of an approved override
          MaxApprovals,  \* bound on the approvals per target
          MaxDeletes,    \* bound on the deletions per target
          MaxNow         \* bound on the clock

ASSUME HostKeyAssumption ==
  /\ OverrideTTL \in Nat /\ MaxApprovals \in Nat /\ MaxDeletes \in Nat
  /\ MaxNow \in Nat
  /\ NoKey \notin Key

VARIABLES
  now,        \* wall clock
  hosts,      \* ssh_known_host
  shakes,     \* the handshakes
  approved,   \* history: approvals per target
  replaced,   \* history: pins replaced by an override, per target
  deleted     \* history: rows deleted, per target

vars    == <<now, hosts, shakes, approved, replaced, deleted>>
history == <<approved, replaced, deleted>>

(* pin = NoKey: there is no row.                                            *)
HostRow == [pin: Key \cup {NoKey}, status: {"active", "override_pending"},
            expires: Nat, mismatch: Key \cup {NoKey}]
NoRow   == [pin |-> NoKey, status |-> "active", expires |-> 0,
            mismatch |-> NoKey]

(* pc is the statement the callback executes next, or its answer.  epoch is *)
(* history: how often the pin had been replaced or deleted when the         *)
(* handshake was accepted.                                                  *)
ShakeState == [pc: {"idle", "upsert", "get", "consume", "stamp", "accepted",
                    "rejected"},
               target: Target \cup {NoKey}, key: Key \cup {NoKey}, epoch: Nat]
IdleShake  == [pc |-> "idle", target |-> NoKey, key |-> NoKey, epoch |-> 0]

TypeOK ==
  /\ now \in Nat
  /\ hosts \in [Target -> HostRow]
  /\ \A t \in Target : hosts[t].pin = NoKey => hosts[t] = NoRow
  /\ shakes \in [Handshake -> ShakeState]
  /\ \A h \in Handshake : shakes[h].pc # "idle" =>
       shakes[h].target \in Target /\ shakes[h].key \in Key
  /\ approved \in [Target -> Nat]
  /\ replaced \in [Target -> Nat]
  /\ deleted \in [Target -> Nat]

Init ==
  /\ now = 0
  /\ hosts = [t \in Target |-> NoRow]
  /\ shakes = [h \in Handshake |-> IdleShake]
  /\ approved = [t \in Target |-> 0]
  /\ replaced = [t \in Target |-> 0]
  /\ deleted = [t \in Target |-> 0]

Epoch(t) == replaced[t] + deleted[t]

Goto(h, pc) == shakes' = [shakes EXCEPT ![h].pc = pc]

-----------------------------------------------------------------------------
(* The callback.                                                            *)

Offer(h, t, k) ==
  /\ shakes[h].pc = "idle"
  /\ shakes' = [shakes EXCEPT ![h] = [pc |-> "upsert", target |-> t, key |-> k,
                                      epoch |-> 0]]
  /\ UNCHANGED <<now, hosts, history>>

(* Mutant: ON CONFLICT without the WHERE clause.                            *)
UpsertRowAlways(row, k) == [row EXCEPT !.pin = k]

(* INSERT ... ON CONFLICT DO UPDATE ... WHERE the fingerprints are equal:   *)
(* the conflicting update only touches columns no decision looks at.        *)
UpsertRow(row, k) == IF row.pin = NoKey THEN [NoRow EXCEPT !.pin = k] ELSE row

Upsert(h) ==
  LET t == shakes[h].target
  IN  /\ shakes[h].pc = "upsert"
      /\ hosts' = [hosts EXCEPT ![t] = UpsertRow(@, shakes[h].key)]
      /\ Goto(h, "get")
      /\ UNCHANGED <<now, history>>

(* Mutant: waits for a row that was deleted meanwhile.                      *)
GetOrWait(h) ==
  LET t == shakes[h].target
  IN  /\ shakes[h].pc = "get"
      /\ hosts[t].pin # NoKey
      /\ IF hosts[t].pin = shakes[h].key
         THEN shakes' = [shakes EXCEPT ![h].pc = "accepted",
                                       ![h].epoch = Epoch(t)]
         ELSE Goto(h, "consume")
      /\ UNCHANGED <<now, hosts, history>>

Get(h) ==
  LET t == shakes[h].target
  IN  /\ shakes[h].pc = "get"
      /\ \/ /\ hosts[t].pin = NoKey                  \* ErrNotFound
            /\ Goto(h, "rejected")
         \/ /\ hosts[t].pin = shakes[h].key
            /\ shakes' = [shakes EXCEPT ![h].pc = "accepted",
                                        ![h].epoch = Epoch(t)]
         \/ /\ hosts[t].pin \notin {NoKey, shakes[h].key}
            /\ Goto(h, "consume")
      /\ UNCHANGED <<now, hosts, history>>

(* Mutant: expired approvals still count.                                   *)
OverridePendingForever(t) ==
  hosts[t].pin # NoKey /\ hosts[t].status = "override_pending"

OverridePending(t) ==
  /\ hosts[t].pin # NoKey
  /\ hosts[t].status = "override_pending"
  /\ hosts[t].expires > now

(* Mutant: the approval is not used up.                                     *)
ReplacePinKeepingApproval(row, k) == [row EXCEPT !.pin = k, !.mismatch = NoKey]

ReplacePin(row, k) == [NoRow EXCEPT !.pin = k]

(* One conditional UPDATE.  It does not ask what the pin is by now.         *)
ConsumeOverride(h) ==
  LET t == shakes[h].target
  IN  /\ shakes[h].pc = "consume"
      /\ IF OverridePending(t)
         THEN /\ hosts' = [hosts EXCEPT ![t] = ReplacePin(@, shakes[h].key)]
              /\ replaced' = [replaced EXCEPT ![t] = @ + 1]
              /\ shakes' = [shakes EXCEPT ![h].pc = "accepted",
                                          ![h].epoch = Epoch(t) + 1]
         ELSE /\ Goto(h, "stamp")
              /\ UNCHANGED <<hosts, replaced>>
      /\ UNCHANGED <<now, approved, deleted>>

(* Mutant: an upsert instead of an update.                                  *)
StampRowAlways(row, k) == [row EXCEPT !.mismatch = k]

StampRow(row, k) == IF row.pin = NoKey THEN row ELSE [row EXCEPT !.mismatch = k]

(* The outcome is a rejection whether or not the row is still there, and    *)
(* whatever its pin is by now.                                              *)
RecordMismatch(h) ==
  LET t == shakes[h].target
  IN  /\ shakes[h].pc = "stamp"
      /\ hosts' = [hosts EXCEPT ![t] = StampRow(@, shakes[h].key)]
      /\ Goto(h, "rejected")
      /\ UNCHANGED <<now, history>>

(* A statement fails or the five seconds are over: the handshake is refused.*)
Fail(h) ==
  /\ shakes[h].pc \in {"upsert", "get", "consume", "stamp"}
  /\ Goto(h, "rejected")
  /\ UNCHANGED <<now, hosts, history>>

-----------------------------------------------------------------------------
(* The administrator, and time.                                             *)

ApproveOverride(t) ==
  /\ hosts[t].pin # NoKey
  /\ approved[t] < MaxApprovals
  /\ hosts' = [hosts EXCEPT ![t].status = "override_pending",
                            ![t].expires = now + OverrideTTL]
  /\ approved' = [approved EXCEPT ![t] = @ + 1]
  /\ UNCHANGED <<now, shakes, replaced, deleted>>

Delete(t) ==
  /\ hosts[t].pin # NoKey
  /\ deleted[t] < MaxDeletes
  /\ hosts' = [hosts EXCEPT ![t] = NoRow]
  /\ deleted' = [deleted EXCEPT ![t] = @ + 1]
  /\ UNCHANGED <<now, shakes, approved, replaced>>

Tick ==
  /\ now < MaxNow
  /\ now' = now + 1
  /\ UNCHANGED <<hosts, shakes, history>>

Callback(h) == Upsert(h) \/ Get(h) \/ ConsumeOverride(h) \/ RecordMismatch(h)

Next ==
  \/ \E h \in Handshake :
       \/ \E t \in Target, k \in Key : Offer(h, t, k)
       \/ Callback(h)
       \/ Fail(h)
  \/ \E t \in Target : ApproveOverride(t) \/ Delete(t)
  \/ Tick

Spec == Init /\ [][Next]_vars

(* A callback that has begun comes to an answer.                            *)
FairSpec == Spec /\ \A h \in Handshake : WF_vars(Callback(h))

-----------------------------------------------------------------------------
(* Properties.                                                              *)

(* "A one-time override": however approvals, handshakes and deletions       *)
(* interleave, a target's pin is replaced at most as often as an            *)
(* administrator approved it.                                               *)
OneTimeOverride == \A t \in Target : replaced[t] <= approved[t]

(* Between two replacements or deletions of a pin, every handshake that was *)
(* accepted offered the same key: two first connections that race with      *)
(* different keys, or a re-keyed server during an override, are never both  *)
(* trusted.                                                                 *)
OneKeyPerEpoch ==
  \A h1, h2 \in Handshake :
    /\ shakes[h1].pc = "accepted" /\ shakes[h2].pc = "accepted"
    /\ shakes[h1].target = shakes[h2].target
    /\ shakes[h1].epoch = shakes[h2].epoch
    => shakes[h1].key = shakes[h2].key

(* The four cases of Callback's comment, over whole steps: an existing pin  *)
(* gives way to another key only by using up an approval that has not       *)
(* expired, in the same step.                                               *)
PinStep ==
  \A t \in Target :
    /\ hosts[t].pin # NoKey /\ hosts'[t].pin # NoKey
    /\ hosts'[t].pin # hosts[t].pin
    => /\ hosts[t].status = "override_pending" /\ hosts[t].expires > now
       /\ hosts'[t].status = "active"
       /\ replaced'[t] = replaced[t] + 1

(* No step replaces a pin behind the administrator's back.                  *)
PinnedUntilApproved == [][PinStep]_vars

(* Every handshake is answered: the callback never waits for anybody.       *)
Answered ==
  \A h \in Handshake :
    shakes[h].pc = "upsert" ~> shakes[h].pc \in {"accepted", "rejected"}

(* What a pin is worth in terms of approvals, and what acceptance means     *)
(* while the epoch lasts.  OneTimeOverride and OneKeyPerEpoch are inductive *)
(* only together with it.                                                   *)
PendingPaid ==
  \A t \in Target :
    hosts[t].status = "override_pending" => replaced[t] < approved[t]

AcceptedPinned ==
  \A h \in Handshake : shakes[h].pc = "accepted" =>
    LET t == shakes[h].target
    IN  /\ shakes[h].epoch <= Epoch(t)
        /\ shakes[h].epoch = Epoch(t) => hosts[t].pin = shakes[h].key

Inv == TypeOK /\ OneTimeOverride /\ PendingPaid /\ OneKeyPerEpoch /\ AcceptedPinned

=============================================================================
