---------------------------- MODULE SessionAudit ----------------------------
(***************************************************************************)
(* What is left of a session: its terminal_session row, the recording on    *)
(* the API server's disk, the object in storage and the row's pointer to    *)
(* it (the second half of ServeWS in terminal and guacproxy,                *)
(* internal/sessions), and the janitor that purges old recordings.  A       *)
(* database session has a row and no recording.                             *)
(*                                                                          *)
(* The row, the file and the object live in three places and every write to *)
(* one of them can fail or be the last before a crash.                      *)
(***************************************************************************)
EXTENDS FiniteSets, Naturals, SequencesExt

CONSTANTS Session,
          Retention,    \* age above which a recording is purged
          Limit,        \* rows one run of the janitor looks at
          MaxCrashes,   \* bound on the crashes of the API server
          MaxNow        \* bound on the clock

ASSUME AuditAssumption ==
  /\ Retention \in Nat \ {0} /\ Limit \in Nat \ {0}
  /\ MaxCrashes \in Nat /\ MaxNow \in Nat

VARIABLES
  now,       \* wall clock
  rows,      \* terminal_session
  handlers,  \* where each ServeWS is
  casts,     \* recordings on the server's disk
  objects,   \* recordings in object storage
  janitor,   \* the run of runRecordingGC in progress
  crashes    \* history: crashes so far

vars == <<now, rows, handlers, casts, objects, janitor, crashes>>

(* linked: recording_uri is not empty.                                      *)
SessionRow == [state: {"none", "open", "ended"}, started: Nat, linked: BOOLEAN]
NoRow      == [state |-> "none", started |-> 0, linked |-> FALSE]

(* batch: expired rows still to be dealt with, oldest first.  "clear": the  *)
(* object of its head has been removed.                                     *)
IdleJanitor == [pc |-> "idle", batch |-> <<>>]

TypeOK ==
  /\ now \in Nat
  /\ rows \in [Session -> SessionRow]
  /\ handlers \in [Session -> {"idle", "running", "upload", "link", "done", "lost"}]
  /\ casts \subseteq Session
  /\ objects \subseteq Session
  /\ janitor.pc \in {"idle", "remove", "clear"}
  /\ janitor.batch \in Seq(Session) /\ Len(janitor.batch) <= Limit
  /\ janitor.pc = "idle" <=> janitor.batch = <<>>
  /\ crashes \in Nat

Init ==
  /\ now = 0
  /\ rows = [s \in Session |-> NoRow]
  /\ handlers = [s \in Session |-> "idle"]
  /\ casts = {}
  /\ objects = {}
  /\ janitor = IdleJanitor
  /\ crashes = 0

Goto(s, pc) == handlers' = [handlers EXCEPT ![s] = pc]

Audited(s) == rows[s].state # "none"

-----------------------------------------------------------------------------
(* ServeWS, from the open socket to the end.                                *)

OpenRow == [state |-> "open", started |-> now, linked |-> FALSE]

(* No storage, or no file: recording = FALSE.                               *)
OpenRecorder(s, landed, recording) ==
  casts' = IF landed /\ recording THEN casts \cup {s} ELSE casts

(* A failed INSERT does not stop the session, but it goes unrecorded.       *)
Start(s, landed, recording) ==
  /\ handlers[s] = "idle"
  /\ rows' = IF landed THEN [rows EXCEPT ![s] = OpenRow] ELSE rows
  /\ OpenRecorder(s, landed, recording)
  /\ Goto(s, "running")
  /\ UNCHANGED <<now, objects, janitor, crashes>>

EndRow(s) == rows' = [rows EXCEPT ![s].state = "ended"]

(* The session is over: End, whose failure is ignored.                      *)
End(s, ok) ==
  /\ handlers[s] = "running"
  /\ IF Audited(s) /\ ok THEN EndRow(s) ELSE UNCHANGED rows
  /\ Goto(s, IF s \in casts THEN "upload" ELSE "done")
  /\ UNCHANGED <<now, casts, objects, janitor, crashes>>

(* The deferred os.Remove, on every way out of finalizeRecording.           *)
Discard(s) == /\ casts' = casts \ {s}
              /\ Goto(s, "done")

(* Mutant: the result of PutObject is not looked at.                        *)
PutObjectUnchecked(s, stored, ok) ==
  /\ handlers[s] = "upload"
  /\ objects' = IF stored THEN objects \cup {s} ELSE objects
  /\ Goto(s, "link")
  /\ UNCHANGED <<now, rows, casts, janitor, crashes>>

(* Mutant: the file is only removed at the end of the good path.            *)
PutObjectLeaky(s, stored, ok) ==
  /\ handlers[s] = "upload"
  /\ ok => stored
  /\ objects' = IF stored THEN objects \cup {s} ELSE objects
  /\ Goto(s, IF ok THEN "link" ELSE "done")
  /\ UNCHANGED <<now, rows, casts, janitor, crashes>>

(* ok is what the client learns, stored what happened: an upload that runs  *)
(* into its deadline, or whose answer is lost, may have stored the object.  *)
(* With an empty file neither is true.                                      *)
PutObject(s, stored, ok) ==
  /\ handlers[s] = "upload"
  /\ ok => stored
  /\ objects' = IF stored THEN objects \cup {s} ELSE objects
  /\ IF ok THEN Goto(s, "link") /\ UNCHANGED casts ELSE Discard(s)
  /\ UNCHANGED <<now, rows, janitor, crashes>>

SetRecording(s, ok) ==
  /\ handlers[s] = "link"
  /\ rows' = IF ok THEN [rows EXCEPT ![s].linked = TRUE] ELSE rows
  /\ Discard(s)
  /\ UNCHANGED <<now, objects, janitor, crashes>>

-----------------------------------------------------------------------------
(* The janitor.                                                             *)

(* Mutant: off by one at the cutoff.                                        *)
ExpiredEarly(s) == rows[s].linked /\ rows[s].started + Retention <= now

(* Mutant: only sessions that ended count.                                  *)
ExpiredIfEnded(s) ==
  rows[s].linked /\ rows[s].started + Retention < now /\ rows[s].state = "ended"

Expired(s) == rows[s].linked /\ rows[s].started + Retention < now

BatchSize(n) == IF n <= Limit THEN n ELSE Limit

(* ORDER BY started_at ASC LIMIT: rows of the same age come in any order.   *)
IsExpiredRecordings(batch) ==
  LET expired == {s \in Session : Expired(s)}
      chosen  == ToSet(batch)
  IN  /\ chosen \subseteq expired
      /\ Len(batch) = BatchSize(Cardinality(expired))
      /\ Cardinality(chosen) = Len(batch)
      /\ \A s \in chosen, t \in expired \ chosen : rows[s].started <= rows[t].started
      /\ \A i, j \in 1..Len(batch) :
           i < j => rows[batch[i]].started <= rows[batch[j]].started

ExpiredRecordings(batch) ==
  /\ janitor.pc = "idle"
  /\ batch # <<>>
  /\ IsExpiredRecordings(batch)
  /\ janitor' = [pc |-> "remove", batch |-> batch]
  /\ UNCHANGED <<now, rows, handlers, casts, objects, crashes>>

(* Mutant: the run does not notice that it is at its end.                   *)
ContinueAlways ==
  janitor' = [janitor EXCEPT !.pc = "remove", !.batch = Tail(@)]

(* On to the next recording of the run.                                     *)
Continue ==
  LET rest == Tail(janitor.batch)
  IN  janitor' = [pc |-> IF rest = <<>> THEN "idle" ELSE "remove", batch |-> rest]

(* Removing what is not there is no error.                                  *)
RemoveObject(ok) ==
  /\ janitor.pc = "remove"
  /\ IF ok THEN /\ objects' = objects \ {Head(janitor.batch)}
                /\ janitor' = [janitor EXCEPT !.pc = "clear"]
           ELSE Continue /\ UNCHANGED objects
  /\ UNCHANGED <<now, rows, handlers, casts, crashes>>

(* The columns are declared NOT NULL.                                       *)
RecordingNullable == FALSE

(* SET recording_uri = NULL: without nullable columns the statement fails   *)
(* and the row stays as it is.                                              *)
ClearRecording ==
  LET s == Head(janitor.batch)
  IN  /\ janitor.pc = "clear"
      /\ rows' = IF RecordingNullable THEN [rows EXCEPT ![s].linked = FALSE]
                                      ELSE rows
      /\ Continue
      /\ UNCHANGED <<now, handlers, casts, objects, crashes>>

-----------------------------------------------------------------------------
(* The API server dies with every handler and the janitor's run; what is in *)
(* the database, in storage and on disk stays.                              *)
Crash ==
  /\ crashes < MaxCrashes
  /\ crashes' = crashes + 1
  /\ handlers' = [s \in Session |->
                    IF handlers[s] \in {"running", "upload", "link"} THEN "lost"
                    ELSE handlers[s]]
  /\ janitor' = IdleJanitor
  /\ UNCHANGED <<now, rows, casts, objects>>

Tick ==
  /\ now < MaxNow
  /\ now' = now + 1
  /\ UNCHANGED <<rows, handlers, casts, objects, janitor, crashes>>

Batches == {batch \in SeqOf(Session, Cardinality(Session)) : batch # <<>>}

ListExpired == \E batch \in Batches : ExpiredRecordings(batch)

Next ==
  \/ \E s \in Session, ok \in BOOLEAN :
       \/ \E recording \in BOOLEAN : Start(s, ok, recording)
       \/ End(s, ok)
       \/ \E stored \in BOOLEAN : PutObject(s, stored, ok)
       \/ SetRecording(s, ok)
  \/ ListExpired
  \/ \E ok \in BOOLEAN : RemoveObject(ok)
  \/ ClearRecording
  \/ Crash
  \/ Tick

Spec == Init /\ [][Next]_vars

(* The ticker keeps starting runs, a run keeps going, and storage does not  *)
(* fail the same removal for ever.                                          *)
Fairness ==
  /\ WF_vars(Tick)
  /\ WF_vars(ListExpired)
  /\ WF_vars(\E ok \in BOOLEAN : RemoveObject(ok))
  /\ \A s \in Session :
       SF_vars(RemoveObject(TRUE) /\ Head(janitor.batch) = s)
  /\ WF_vars(ClearRecording)

FairSpec == Spec /\ Fairness

-----------------------------------------------------------------------------
(* Properties.                                                              *)

OverRetention(s) == now > rows[s].started + Retention

(* finalizeRecording links after PutObject succeeded and the janitor only   *)
(* touches what is past the cutoff: through failed uploads, crashes and     *)
(* purges of other sessions, a pointer that has not expired leads to an     *)
(* object.                                                                  *)
Playable ==
  \A s \in Session : rows[s].linked /\ ~ OverRetention(s) => s \in objects

(* The janitor never removes a recording before its retention is over,      *)
(* whatever the clock and the handlers did since the run began.             *)
NoEarlyPurge ==
  [][\A s \in objects \ objects' : rows[s].linked /\ OverRetention(s)]_vars

(* The recording is taken off the disk on every way out of ServeWS; only a  *)
(* crash leaves one behind.                                                 *)
CastsDiscarded == \A s \in casts : handlers[s] \notin {"idle", "done"}

(* The janitor's promise: "purges recordings older than retention".         *)
ExpiredArePurged ==
  \A s \in Session :
    rows[s].linked /\ OverRetention(s) /\ s \in objects ~> s \notin objects

(* ClearRecording's promise: once the object has been purged, "Inspect no   *)
(* longer offers a broken playback".                                        *)
BrokenPointersCleared ==
  \A s \in Session : rows[s].linked /\ s \notin objects ~> ~ rows[s].linked

=============================================================================
