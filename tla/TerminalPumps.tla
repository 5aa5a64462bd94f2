---------------------------- MODULE TerminalPumps ----------------------------
(***************************************************************************)
(* The goroutines of one SSH terminal (runSession and the end of ServeWS   *)
(* in internal/terminal/handler.go, and recorder.go): a pump for each      *)
(* output stream, the input loop, and the handler itself, which returns    *)
(* without waiting for them.  Output is counted in chunks.                 *)
(***************************************************************************)
EXTENDS Naturals, FiniteSets

CONSTANTS Streams, MaxChunks    \* bound on the chunks of a stream

VARIABLES ssh,    \* the shell: output not yet read, whether it runs, the connection
          pcs,    \* the pumps, the input loop, and whether sessionCtx is done
          main,   \* the handler: where it is, bytes and exit for the audit row, and
                  \* whether the session has a recorder
          log     \* outBytes, the cast, what the browser got, what came too late for
                  \* the cast and what was lost to it

vars == <<ssh, pcs, main, log>>

Init ==
    /\ ssh = [unread |-> [s \in Streams |-> 0], left |-> [s \in Streams |-> MaxChunks],
              exited |-> FALSE, open |-> TRUE]
    /\ pcs = [pump |-> [s \in Streams |-> "read"], input |-> "read", done |-> FALSE]
    \* openRecorder: no recorder without storage or audit row, or when its file
    \* could not be made.
    /\ \E recorder \in BOOLEAN :
         main = [pc |-> "select", bytes |-> 0, exit |-> FALSE, recorder |-> recorder]
    /\ log = [outBytes |-> 0, cast |-> 0, shown |-> 0, late |-> 0, lost |-> 0]

running == main.pc # "crashed"

\* Mutant: the recorder is closed with the context of the session.
recorderOpenInContext == ~pcs.done

\* finalizeRecording has not closed the recorder.
recorderOpen == main.pc \in {"select", "exit", "returned"}
wsOpen == main.pc # "closed"

-----------------------------------------------------------------------------
(* The shell and the browser.                                              *)

Output(s) ==
    /\ running /\ ssh.open /\ ~ssh.exited /\ ssh.left[s] > 0
    /\ ssh' = [ssh EXCEPT !.unread[s] = @ + 1, !.left[s] = @ - 1]
    /\ UNCHANGED <<pcs, main, log>>

Exit ==
    /\ running /\ ssh.open /\ ~ssh.exited
    /\ ssh' = [ssh EXCEPT !.exited = TRUE]
    /\ UNCHANGED <<pcs, main, log>>

\* The connection to the host is lost.
ConnectionLost ==
    /\ running /\ ssh.open
    /\ ssh' = [ssh EXCEPT !.open = FALSE]
    /\ UNCHANGED <<pcs, main, log>>

-----------------------------------------------------------------------------
(* ssh -> ws                                                               *)

\* Mutant: the output of a stream is forwarded and not recorded.
pumpReadUnrecorded(s) ==
    /\ running /\ pcs.pump[s] = "read" /\ ssh.unread[s] > 0
    /\ ssh' = [ssh EXCEPT !.unread[s] = @ - 1]
    /\ log' = [log EXCEPT !.outBytes = @ + 1]
    /\ pcs' = [pcs EXCEPT !.pump[s] = "write"]
    /\ UNCHANGED main

\* What was received is read even when the connection is closed by now.
pumpRead(s) ==
    /\ running /\ pcs.pump[s] = "read" /\ ssh.unread[s] > 0
    /\ ssh' = [ssh EXCEPT !.unread[s] = @ - 1]
    /\ log' = [log EXCEPT !.outBytes = @ + 1]
    /\ pcs' = [pcs EXCEPT !.pump[s] = "record"]
    /\ UNCHANGED main

\* A chunk that was written is in the cast; a recorder that is closed drops it
\* and says nothing; a write that fails is logged, and the chunk goes on to the
\* browser, as it does without a recorder.
WriteOutput(s) ==
    /\ running /\ pcs.pump[s] = "record"
    /\ \/ main.recorder /\ recorderOpen /\ log' = [log EXCEPT !.cast = @ + 1]
       \/ main.recorder /\ ~recorderOpen /\ log' = [log EXCEPT !.late = @ + 1]
       \/ (main.recorder => recorderOpen) /\ log' = [log EXCEPT !.lost = @ + 1]
    /\ pcs' = [pcs EXCEPT !.pump[s] = "write"]
    /\ UNCHANGED <<ssh, main>>

\* The message is under way to the browser ...
pumpWrite(s) ==
    /\ running /\ pcs.pump[s] = "write" /\ wsOpen
    /\ log' = [log EXCEPT !.shown = @ + 1]
    /\ pcs' = [pcs EXCEPT !.pump[s] = "writing"]
    /\ UNCHANGED <<ssh, main>>

\* ... and the pump reads again.
pumpWritten(s) ==
    /\ running /\ pcs.pump[s] = "writing"
    /\ pcs' = [pcs EXCEPT !.pump[s] = "read"]
    /\ UNCHANGED <<ssh, main, log>>

\* The end of the stream, or a browser that is gone.
pumpReturn(s) ==
    /\ running
    /\ \/ pcs.pump[s] = "read" /\ ssh.unread[s] = 0 /\ (ssh.exited \/ ~ssh.open)
       \/ pcs.pump[s] = "write"
    /\ pcs' = [pcs EXCEPT !.pump[s] = "returned", !.done = TRUE]
    /\ UNCHANGED <<ssh, main, log>>

-----------------------------------------------------------------------------
(* ws -> ssh.  Of what the browser sends a ping is answered.               *)

inputPing ==
    /\ running /\ wsOpen
    /\ \/ pcs.input = "read" /\ pcs' = [pcs EXCEPT !.input = "writing"]
       \/ pcs.input = "writing" /\ pcs' = [pcs EXCEPT !.input = "read"]
    /\ UNCHANGED <<ssh, main, log>>

\* The browser leaves, the idle timeout passes, or the context is done.
inputReturn ==
    /\ running /\ pcs.input # "returned"
    /\ pcs' = [pcs EXCEPT !.input = "returned", !.done = TRUE]
    /\ UNCHANGED <<ssh, main, log>>

\* Two goroutines in WriteJSON at once: the connection may panic, which ends the
\* process.
Crash ==
    /\ running
    /\ Cardinality({s \in Streams : pcs.pump[s] = "writing"})
         + (IF pcs.input = "writing" THEN 1 ELSE 0) + (IF main.pc = "exit" THEN 1 ELSE 0) > 1
    /\ main' = [main EXCEPT !.pc = "crashed"]
    /\ UNCHANGED <<ssh, pcs, log>>

-----------------------------------------------------------------------------
(* runSession: select, return; then ServeWS.                               *)

\* The shell has ended: its status is sent to the browser.
selectWait ==
    /\ main.pc = "select" /\ ssh.exited
    /\ main' = [main EXCEPT !.pc = "exit", !.exit = TRUE]
    /\ UNCHANGED <<ssh, pcs, log>>

\* With the status sent, the context done or the connection lost, the counters
\* are read and the deferred calls close the connection.
runSessionReturn ==
    /\ main.pc = "exit" \/ (main.pc = "select" /\ (pcs.done \/ ~ssh.open))
    /\ main' = [main EXCEPT !.pc = "returned", !.bytes = log.outBytes]
    /\ ssh' = [ssh EXCEPT !.open = FALSE]
    /\ pcs' = [pcs EXCEPT !.done = TRUE]
    /\ UNCHANGED log

\* The row is written with what runSession returned; finalizeRecording closes the
\* recorder and uploads the cast.
closeRecorder ==
    /\ main.pc = "returned"
    /\ main' = [main EXCEPT !.pc = "recorded"]
    /\ UNCHANGED <<ssh, pcs, log>>

closeWS ==
    /\ main.pc = "recorded"
    /\ main' = [main EXCEPT !.pc = "closed"]
    /\ UNCHANGED <<ssh, pcs, log>>

Next ==
    \/ \E s \in Streams : \/ Output(s) \/ pumpRead(s) \/ WriteOutput(s) \/ pumpWrite(s)
                          \/ pumpWritten(s) \/ pumpReturn(s)
    \/ Exit \/ ConnectionLost \/ inputPing \/ inputReturn \/ Crash
    \/ selectWait \/ runSessionReturn \/ closeRecorder \/ closeWS

Spec == Init /\ [][Next]_vars
-----------------------------------------------------------------------------
TypeOK ==
    /\ \A s \in Streams : pcs.pump[s] \in {"read", "record", "write", "writing", "returned"}
    /\ pcs.input \in {"read", "writing", "returned"}
    /\ main.pc \in {"select", "exit", "returned", "recorded", "closed", "crashed"}

\* What the browser was sent is in the cast, whichever goroutine is slow, except
\* for chunks that found the recorder closed (the pumps outlive runSession) and
\* those lost: their write failed, or the session has no recorder.
ShownIsRecorded == log.shown <= log.cast + log.late + log.lost

\* What the audit row counts is in the cast, chunks lost apart, up to the one that
\* each pump may have counted and not yet recorded when the recorder was closed.
AuditedIsRecorded == main.bytes <= log.cast + log.lost + Cardinality(Streams)
=============================================================================
