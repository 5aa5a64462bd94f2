------------------------- MODULE SessionAuditProofs -------------------------
(***************************************************************************)
(* The invariants of SessionAudit, for any set of sessions, any retention,  *)
(* any batch size, and any number of crashes and failures.                  *)
(***************************************************************************)
EXTENDS SessionAudit, SequenceTheorems, TLAPS

(* A row points to a recording only once its handler is through.            *)
LinkedWhenDone == \A s \in Session : rows[s].linked => handlers[s] = "done"

(* Between the upload and the pointer, the object is there.                 *)
UploadedBeforeLink ==
  \A s \in Session : handlers[s] = "link" => s \in objects

(* What a run of the janitor has chosen stays expired while it works on it. *)
BatchExpired ==
  \A i \in 1..Len(janitor.batch) : Expired(janitor.batch[i])

Inv ==
  /\ TypeOK
  /\ janitor \in [pc: {"idle", "remove", "clear"}, batch: Seq(Session)]
  /\ LinkedWhenDone
  /\ UploadedBeforeLink
  /\ BatchExpired
  /\ Playable
  /\ CastsDiscarded

(* The empty installation satisfies the invariant.                          *)
LEMMA InitInv == Init => Inv
<1> SUFFICES ASSUME Init PROVE Inv
  OBVIOUS
<1>1. TypeOK /\ janitor \in [pc: {"idle", "remove", "clear"}, batch: Seq(Session)]
  BY AuditAssumption DEF Init, TypeOK, SessionRow, NoRow, IdleJanitor
<1>2. LinkedWhenDone /\ Playable
  BY DEF Init, LinkedWhenDone, Playable, NoRow
<1>3. UploadedBeforeLink /\ BatchExpired /\ CastsDiscarded
  BY DEF Init, UploadedBeforeLink, BatchExpired, CastsDiscarded, IdleJanitor
<1>4. QED
  BY <1>1, <1>2, <1>3 DEF Inv

-----------------------------------------------------------------------------
(* The handlers.                                                            *)

(* A step of a handler leaves the clock and the janitor alone; what is      *)
(* expired stays so when pointers and start times of linked rows stay.      *)
LEMMA BatchKept ==
  ASSUME Inv, UNCHANGED <<now, janitor>>,
         \A s \in Session : rows[s].linked =>
           rows'[s].linked /\ rows'[s].started = rows[s].started
  PROVE  BatchExpired'
<1>1. \A i \in 1..Len(janitor.batch) : janitor.batch[i] \in Session
  BY DEF Inv, TypeOK
<1>2. QED
  BY <1>1 DEF Inv, BatchExpired, Expired

(* The session begins: its row is new and points to nothing.                *)
LEMMA StartInv ==
  ASSUME Inv, NEW s \in Session, NEW landed \in BOOLEAN,
         NEW recording \in BOOLEAN, Start(s, landed, recording)
  PROVE  Inv'
<1>1. handlers[s] = "idle" /\ UNCHANGED <<now, objects, janitor, crashes>>
      /\ rows' = (IF landed THEN [rows EXCEPT ![s] = OpenRow] ELSE rows)
      /\ casts' = (IF landed /\ recording THEN casts \cup {s} ELSE casts)
      /\ handlers' = [handlers EXCEPT ![s] = "running"]
  BY DEF Start, OpenRecorder, Goto
<1>2. OpenRow \in SessionRow /\ ~ OpenRow.linked
  BY DEF Inv, TypeOK, OpenRow, SessionRow
<1>3. \A r \in Session : /\ r # s => rows'[r] = rows[r]
                         /\ ~ rows[s].linked /\ ~ rows'[s].linked
                         /\ handlers'[r] = IF r = s THEN "running" ELSE handlers[r]
  BY <1>1, <1>2 DEF Inv, TypeOK, LinkedWhenDone
<1>4. TypeOK' /\ janitor' \in [pc: {"idle", "remove", "clear"}, batch: Seq(Session)]
  BY <1>1, <1>2 DEF Inv, TypeOK
<1>5. LinkedWhenDone' /\ UploadedBeforeLink' /\ Playable' /\ CastsDiscarded'
  BY <1>1, <1>3 DEF Inv, LinkedWhenDone, UploadedBeforeLink, Playable,
                    OverRetention, CastsDiscarded, TypeOK
<1>6. BatchExpired'
  BY <1>1, <1>3, BatchKept
<1>7. QED
  BY <1>4, <1>5, <1>6 DEF Inv

(* The session ends, noted in its row or not.                               *)
LEMMA EndInv ==
  ASSUME Inv, NEW s \in Session, NEW ok \in BOOLEAN, End(s, ok)
  PROVE  Inv'
<1> DEFINE pc == IF s \in casts THEN "upload" ELSE "done"
<1>1. /\ handlers[s] = "running" /\ UNCHANGED <<now, casts, objects, janitor, crashes>>
      /\ rows' \in {[rows EXCEPT ![s].state = "ended"], rows}
      /\ handlers' = [handlers EXCEPT ![s] = pc]
  BY DEF End, EndRow, Goto
<1>2. /\ rows' \in [Session -> SessionRow]
      /\ \A r \in Session : /\ rows'[r].linked = rows[r].linked
                            /\ rows'[r].started = rows[r].started
                            /\ handlers'[r] = IF r = s THEN pc ELSE handlers[r]
  <2>1. rows \in [Session -> SessionRow]
        /\ handlers \in [Session -> {"idle", "running", "upload", "link", "done", "lost"}]
    BY DEF Inv, TypeOK
  <2>2. \A r \in Session : handlers'[r] = IF r = s THEN pc ELSE handlers[r]
    BY <1>1, <2>1
  <2>3. CASE rows' = rows
    BY <2>1, <2>2, <2>3
  <2>4. CASE rows' = [rows EXCEPT ![s].state = "ended"]
    BY <2>1, <2>2, <2>4 DEF SessionRow
  <2>5. QED
    BY <1>1, <2>3, <2>4
<1>3. TypeOK' /\ janitor' \in [pc: {"idle", "remove", "clear"}, batch: Seq(Session)]
  BY <1>1, <1>2 DEF Inv, TypeOK
<1>4. LinkedWhenDone' /\ UploadedBeforeLink' /\ Playable' /\ CastsDiscarded'
  BY <1>1, <1>2 DEF Inv, LinkedWhenDone, UploadedBeforeLink, Playable,
                    OverRetention, CastsDiscarded, TypeOK
<1>5. BatchExpired'
  BY <1>1, <1>2, BatchKept
<1>6. QED
  BY <1>3, <1>4, <1>5 DEF Inv

(* The upload: only one the client knows to have succeeded leads on.        *)
LEMMA PutObjectInv ==
  ASSUME Inv, NEW s \in Session, NEW stored \in BOOLEAN, NEW ok \in BOOLEAN,
         PutObject(s, stored, ok)
  PROVE  Inv'
<1> DEFINE pc == IF ok THEN "link" ELSE "done"
<1>1. /\ handlers[s] = "upload" /\ UNCHANGED <<now, rows, janitor, crashes>>
      /\ objects' = (IF stored THEN objects \cup {s} ELSE objects)
      /\ casts' = (IF ok THEN casts ELSE casts \ {s})
      /\ handlers' = [handlers EXCEPT ![s] = pc]
      /\ ok => s \in objects'
  BY DEF PutObject, Discard, Goto
<1>2. \A r \in Session : handlers'[r] = IF r = s THEN pc ELSE handlers[r]
  BY <1>1 DEF Inv, TypeOK
<1>3. TypeOK' /\ janitor' \in [pc: {"idle", "remove", "clear"}, batch: Seq(Session)]
  BY <1>1 DEF Inv, TypeOK
<1>4. LinkedWhenDone' /\ UploadedBeforeLink' /\ Playable' /\ CastsDiscarded'
  BY <1>1, <1>2 DEF Inv, LinkedWhenDone, UploadedBeforeLink, Playable,
                    OverRetention, CastsDiscarded, TypeOK
<1>5. BatchExpired'
  BY <1>1, BatchKept
<1>6. QED
  BY <1>3, <1>4, <1>5 DEF Inv

(* The pointer is set, to an object that is there.                          *)
LEMMA SetRecordingInv ==
  ASSUME Inv, NEW s \in Session, NEW ok \in BOOLEAN, SetRecording(s, ok)
  PROVE  Inv'
<1>1. /\ handlers[s] = "link" /\ UNCHANGED <<now, objects, janitor, crashes>>
      /\ rows' = (IF ok THEN [rows EXCEPT ![s].linked = TRUE] ELSE rows)
      /\ casts' = casts \ {s}
      /\ handlers' = [handlers EXCEPT ![s] = "done"]
  BY DEF SetRecording, Discard, Goto
<1>2. /\ rows' \in [Session -> SessionRow]
      /\ \A r \in Session : /\ rows'[r].started = rows[r].started
                            /\ rows'[r].linked => rows[r].linked \/ r = s
                            /\ rows[r].linked => rows'[r].linked
                            /\ handlers'[r] = IF r = s THEN "done" ELSE handlers[r]
  BY <1>1 DEF Inv, TypeOK, SessionRow
<1>3. s \in objects
  BY <1>1 DEF Inv, UploadedBeforeLink
<1>4. TypeOK' /\ janitor' \in [pc: {"idle", "remove", "clear"}, batch: Seq(Session)]
  BY <1>1, <1>2 DEF Inv, TypeOK
<1>5. LinkedWhenDone' /\ UploadedBeforeLink' /\ Playable' /\ CastsDiscarded'
  BY <1>1, <1>2, <1>3 DEF Inv, LinkedWhenDone, UploadedBeforeLink, Playable,
                          OverRetention, CastsDiscarded, TypeOK
<1>6. BatchExpired'
  BY <1>1, <1>2, BatchKept
<1>7. QED
  BY <1>4, <1>5, <1>6 DEF Inv

-----------------------------------------------------------------------------
(* The janitor.                                                             *)

(* A run begins with rows that are expired.                                 *)
LEMMA ListExpiredInv ==
  ASSUME Inv, ListExpired
  PROVE  Inv'
<1>1. PICK batch \in Batches : ExpiredRecordings(batch)
  BY DEF ListExpired
<1>2. batch \in Seq(Session) /\ batch # <<>>
  BY <1>1 DEF Batches, SeqOf
<1>3. Len(batch) <= Limit /\ \A i \in 1..Len(batch) : Expired(batch[i])
  <2>1. IsExpiredRecordings(batch)
    BY <1>1 DEF ExpiredRecordings
  <2>2. \A i \in 1..Len(batch) : batch[i] \in ToSet(batch)
    BY <1>2 DEF ToSet
  <2>3. \A i \in 1..Len(batch) : Expired(batch[i])
    BY <2>1, <2>2 DEF IsExpiredRecordings
  <2>4. Len(batch) <= Limit
    BY <2>1, AuditAssumption DEF IsExpiredRecordings, BatchSize
  <2>5. QED
    BY <2>3, <2>4
<1>4. janitor' = [pc |-> "remove", batch |-> batch]
      /\ UNCHANGED <<now, rows, handlers, casts, objects, crashes>>
  BY <1>1 DEF ExpiredRecordings
<1>5. TypeOK' /\ janitor' \in [pc: {"idle", "remove", "clear"}, batch: Seq(Session)]
  BY <1>2, <1>3, <1>4 DEF Inv, TypeOK
<1>6. BatchExpired'
  BY <1>3, <1>4 DEF BatchExpired, Expired
<1>7. LinkedWhenDone' /\ UploadedBeforeLink' /\ Playable' /\ CastsDiscarded'
  BY <1>4 DEF Inv, LinkedWhenDone, UploadedBeforeLink, Playable,
              OverRetention, CastsDiscarded
<1>8. QED
  BY <1>5, <1>6, <1>7 DEF Inv

(* The recording a run works on is expired.                                 *)
LEMMA HeadExpired ==
  ASSUME Inv, janitor.pc # "idle"
  PROVE  /\ Head(janitor.batch) \in Session
         /\ Expired(Head(janitor.batch))
<1>1. janitor.batch \in Seq(Session) /\ janitor.batch # <<>>
  BY DEF Inv, TypeOK
<1>2. Len(janitor.batch) >= 1 /\ Head(janitor.batch) = janitor.batch[1]
  BY <1>1
<1>3. QED
  BY <1>1, <1>2 DEF Inv, BatchExpired

(* The rest of a batch is still one.                                        *)
LEMMA ContinueStep ==
  ASSUME Inv, janitor.pc # "idle", Continue, UNCHANGED <<now, rows>>
  PROVE  /\ janitor' \in [pc: {"idle", "remove", "clear"}, batch: Seq(Session)]
         /\ Len(janitor'.batch) <= Limit
         /\ janitor'.pc = "idle" <=> janitor'.batch = <<>>
         /\ BatchExpired'
<1> DEFINE batch == janitor.batch
           rest  == Tail(batch)
<1>1. batch \in Seq(Session) /\ batch # <<>> /\ Len(batch) <= Limit
  BY DEF Inv, TypeOK
<1>2. rest \in Seq(Session) /\ Len(rest) = Len(batch) - 1
      /\ \A i \in 1..Len(rest) : rest[i] = batch[i + 1] /\ i + 1 \in 1..Len(batch)
  BY <1>1
<1>3. janitor'.batch = rest
      /\ janitor'.pc = (IF rest = <<>> THEN "idle" ELSE "remove")
      /\ janitor' = [pc |-> IF rest = <<>> THEN "idle" ELSE "remove", batch |-> rest]
  BY DEF Continue
<1>4. Len(rest) <= Limit
  BY <1>1, <1>2, AuditAssumption
<1>5. BatchExpired'
  <2>1. \A i \in 1..Len(rest) : Expired(rest[i])
    BY <1>2 DEF Inv, BatchExpired
  <2> HIDE DEF rest
  <2>2. QED
    BY <1>3, <2>1 DEF BatchExpired, Expired
<1> HIDE DEF rest
<1>6. QED
  BY <1>2, <1>3, <1>4, <1>5

(* The object of an expired row is removed: no playable recording suffers,  *)
(* and no upload that waits for its pointer.                                *)
LEMMA RemoveObjectInv ==
  ASSUME Inv, NEW ok \in BOOLEAN, RemoveObject(ok)
  PROVE  Inv'
<1> DEFINE s == Head(janitor.batch)
<1>1. janitor.pc = "remove" /\ UNCHANGED <<now, rows, handlers, casts, crashes>>
  BY DEF RemoveObject
<1>2. s \in Session /\ rows[s].linked /\ rows[s].started + Retention < now
      /\ handlers[s] = "done"
  BY <1>1, HeadExpired DEF Expired, Inv, LinkedWhenDone
<1>3. CASE ok
  <2>1. objects' = objects \ {s} /\ janitor' = [janitor EXCEPT !.pc = "clear"]
    BY <1>3 DEF RemoveObject
  <2>2. janitor' \in [pc: {"idle", "remove", "clear"}, batch: Seq(Session)]
        /\ janitor'.batch = janitor.batch /\ janitor'.pc = "clear"
    BY <2>1 DEF Inv
  <2>3. TypeOK'
    BY <1>1, <2>1, <2>2 DEF Inv, TypeOK
  <2>4. BatchExpired'
    BY <1>1, <2>2 DEF Inv, BatchExpired, Expired
  <2>5. LinkedWhenDone' /\ UploadedBeforeLink' /\ CastsDiscarded'
    BY <1>1, <1>2, <2>1 DEF Inv, LinkedWhenDone, UploadedBeforeLink,
                            CastsDiscarded
  <2>6. Playable'
    BY <1>1, <1>2, <2>1 DEF Inv, Playable, OverRetention
  <2>7. QED
    BY <2>2, <2>3, <2>4, <2>5, <2>6 DEF Inv
<1>4. CASE ~ ok
  <2>1. Continue /\ UNCHANGED objects
    BY <1>4 DEF RemoveObject
  <2>2. /\ janitor' \in [pc: {"idle", "remove", "clear"}, batch: Seq(Session)]
        /\ Len(janitor'.batch) <= Limit
        /\ janitor'.pc = "idle" <=> janitor'.batch = <<>>
        /\ BatchExpired'
    BY <1>1, <2>1, ContinueStep
  <2>3. TypeOK'
    BY <1>1, <2>1, <2>2 DEF Inv, TypeOK
  <2>4. LinkedWhenDone' /\ UploadedBeforeLink' /\ Playable' /\ CastsDiscarded'
    BY <1>1, <2>1 DEF Inv, LinkedWhenDone, UploadedBeforeLink, Playable,
                      OverRetention, CastsDiscarded
  <2>5. QED
    BY <2>2, <2>3, <2>4 DEF Inv
<1>5. QED
  BY <1>3, <1>4

(* The pointer should be cleared; the statement fails on a NOT NULL column. *)
LEMMA ClearRecordingInv ==
  ASSUME Inv, ClearRecording
  PROVE  Inv'
<1>1. janitor.pc = "clear" /\ Continue
      /\ UNCHANGED <<now, rows, handlers, casts, objects, crashes>>
  BY DEF ClearRecording, RecordingNullable
<1>2. /\ janitor' \in [pc: {"idle", "remove", "clear"}, batch: Seq(Session)]
      /\ Len(janitor'.batch) <= Limit
      /\ janitor'.pc = "idle" <=> janitor'.batch = <<>>
      /\ BatchExpired'
  BY <1>1, ContinueStep
<1>3. TypeOK'
  BY <1>1, <1>2 DEF Inv, TypeOK
<1>4. LinkedWhenDone' /\ UploadedBeforeLink' /\ Playable' /\ CastsDiscarded'
  BY <1>1 DEF Inv, LinkedWhenDone, UploadedBeforeLink, Playable,
              OverRetention, CastsDiscarded
<1>5. QED
  BY <1>2, <1>3, <1>4 DEF Inv

-----------------------------------------------------------------------------
(* A crash loses the handlers and the run, and leaves a recording on disk   *)
(* only for a handler that is lost.                                         *)
LEMMA CrashInv ==
  ASSUME Inv, Crash
  PROVE  Inv'
<1>1. TypeOK' /\ janitor' \in [pc: {"idle", "remove", "clear"}, batch: Seq(Session)]
  BY AuditAssumption DEF Crash, Inv, TypeOK, IdleJanitor
<1>2. BatchExpired'
  BY DEF Crash, IdleJanitor, BatchExpired
<1>3. LinkedWhenDone' /\ UploadedBeforeLink' /\ Playable' /\ CastsDiscarded'
  BY DEF Crash, Inv, LinkedWhenDone, UploadedBeforeLink, Playable,
         OverRetention, CastsDiscarded, TypeOK
<1>4. QED
  BY <1>1, <1>2, <1>3 DEF Inv

(* Time passes: what is expired stays expired.                              *)
LEMMA TickInv ==
  ASSUME Inv, Tick
  PROVE  Inv'
<1>1. now \in Nat /\ now' = now + 1
      /\ UNCHANGED <<rows, handlers, casts, objects, janitor, crashes>>
  BY DEF Tick, Inv, TypeOK
<1>2. TypeOK' /\ janitor' \in [pc: {"idle", "remove", "clear"}, batch: Seq(Session)]
  BY <1>1 DEF Inv, TypeOK
<1>3. \A s \in Session : rows[s].started + Retention \in Nat
  BY AuditAssumption DEF Inv, TypeOK, SessionRow
<1>4. BatchExpired'
  <2>1. \A i \in 1..Len(janitor.batch) : janitor.batch[i] \in Session
    BY DEF Inv, TypeOK
  <2>2. QED
    BY <1>1, <1>3, <2>1 DEF Inv, BatchExpired, Expired
<1>5. Playable'
  BY <1>1, <1>3 DEF Inv, Playable, OverRetention
<1>6. LinkedWhenDone' /\ UploadedBeforeLink' /\ CastsDiscarded'
  BY <1>1 DEF Inv, LinkedWhenDone, UploadedBeforeLink, CastsDiscarded
<1>7. QED
  BY <1>2, <1>4, <1>5, <1>6 DEF Inv

-----------------------------------------------------------------------------
(* Every step keeps the invariant.                                          *)
LEMMA NextInv == Inv /\ [Next]_vars => Inv'
<1> SUFFICES ASSUME Inv, [Next]_vars PROVE Inv'
  OBVIOUS
<1>1. CASE UNCHANGED vars
  BY <1>1 DEF vars, Inv, TypeOK, LinkedWhenDone, UploadedBeforeLink,
              BatchExpired, Expired, Playable, OverRetention, CastsDiscarded
<1>2. CASE Next
  BY <1>2, StartInv, EndInv, PutObjectInv, SetRecordingInv, ListExpiredInv,
     RemoveObjectInv, ClearRecordingInv, CrashInv, TickInv DEF Next
<1>3. QED
  BY <1>1, <1>2

(* The invariant of sessions, recordings and the janitor.                   *)
THEOREM Invariance == Spec => []Inv
BY InitInv, NextInv, PTL DEF Spec

(* Every variable keeps its type, and a run of the janitor its bound.       *)
THEOREM TypeCorrect == Spec => []TypeOK
<1>1. Inv => TypeOK
  BY DEF Inv
<1>2. QED
  BY <1>1, Invariance, PTL

(* A pointer that has not expired leads to an object, through failed and    *)
(* half-failed uploads, crashes and purges of other sessions.               *)
THEOREM RecordingsArePlayable == Spec => []Playable
<1>1. Inv => Playable
  BY DEF Inv
<1>2. QED
  BY <1>1, Invariance, PTL

(* Only a crash leaves a recording on the server's disk.                    *)
THEOREM CastsAreDiscarded == Spec => []CastsDiscarded
<1>1. Inv => CastsDiscarded
  BY DEF Inv
<1>2. QED
  BY <1>1, Invariance, PTL

(* The step formula of NoEarlyPurge.                                        *)
PurgeStep == \A s \in objects \ objects' : rows[s].linked /\ OverRetention(s)

(* Only RemoveObject takes an object away, and the one it takes is expired. *)
LEMMA PurgeLemma == Inv /\ [Next]_vars => [PurgeStep]_vars
<1> SUFFICES ASSUME Inv, Next PROVE PurgeStep
  BY DEF vars, PurgeStep
<1>1. ASSUME NEW ok \in BOOLEAN, RemoveObject(ok) PROVE PurgeStep
  <2>1. janitor.pc # "idle" /\ objects \ objects' \subseteq {Head(janitor.batch)}
    BY <1>1 DEF RemoveObject
  <2>2. LET s == Head(janitor.batch)
        IN  s \in Session /\ rows[s].linked /\ rows[s].started + Retention < now
    BY <2>1, HeadExpired DEF Expired
  <2>3. QED
    BY <2>1, <2>2 DEF PurgeStep, OverRetention
<1>2. ASSUME objects \subseteq objects' PROVE PurgeStep
  BY <1>2 DEF PurgeStep
<1>3. QED
  BY <1>1, <1>2 DEF Next, Start, End, PutObject, SetRecording, ListExpired,
                    ExpiredRecordings, ClearRecording, Crash, Tick

(* The janitor removes nothing before its retention is over, however old    *)
(* the list it works from.                                                  *)
THEOREM NothingPurgedEarly == Spec => NoEarlyPurge
<1>1. [PurgeStep]_vars =>
        [\A s \in objects \ objects' : rows[s].linked /\ OverRetention(s)]_vars
  BY DEF PurgeStep
<1>2. QED
  BY <1>1, PurgeLemma, Invariance, PTL DEF Spec, NoEarlyPurge

=============================================================================
