------------------------------- MODULE AwsSync -------------------------------
(***************************************************************************)
(* The AWS synchronisation (internal/awssync with internal/cmdb/           *)
(* aws_writer.go), for one resource of one region: the worker runs it on   *)
(* its interval, the API runs it on request, and neither knows of the      *)
(* other.  Users edit and delete the asset in the meantime.  A row has     *)
(* what AWS was seen to say, as the version of it, and what users curate.  *)
(***************************************************************************)
EXTENDS Naturals, FiniteSets

CONSTANTS MaxCloud,    \* bound on the changes of the resource at AWS
          MaxRows,     \* bound on the rows of cmdb_asset for the resource
          MaxRuns,     \* bound on the rows of aws_sync_run
          MaxEdits     \* bound on the edits

VARIABLES db,      \* cmdb_asset, aws_sync_run, and what AWS says
          procs,   \* the two processes, each in RunOnce or not
          edit,    \* an UpdateAsset under way
          runner   \* Runner.running in the API process

vars == <<db, procs, edit, runner>>

Procs == {"api", "worker"}
NoRow == [live |-> FALSE, observed |-> 0, curated |-> 0]
NoRun == [status |-> "none", lost |-> FALSE]
Idle  == [pc |-> "idle", seen |-> 0, run |-> 0, failed |-> FALSE, overtaken |-> FALSE]
NoEdit == [row |-> 0, observed |-> 0]

Init ==
    /\ db = [cloud |-> 1, rows |-> [r \in 1..MaxRows |-> NoRow], used |-> 0,
             runs |-> [r \in 1..MaxRuns |-> NoRun]]
    /\ procs = [p \in Procs |-> Idle]
    /\ edit = NoEdit
    /\ runner = FALSE

\* The resource changes at AWS (external).
CloudChange ==
    /\ db.cloud < MaxCloud
    /\ db' = [db EXCEPT !.cloud = @ + 1]
    /\ UNCHANGED <<procs, edit, runner>>

-----------------------------------------------------------------------------
(* RunOnce.                                                                *)

\* POST /aws/sync/run: refused while a run of this process is under way.
Trigger ==
    /\ ~runner
    /\ runner' = TRUE
    /\ procs' = [procs EXCEPT !["api"].pc = "start"]
    /\ UNCHANGED <<db, edit>>

\* The worker's ticker.
RunLoop ==
    /\ procs["worker"].pc = "idle"
    /\ procs' = [procs EXCEPT !["worker"].pc = "start"]
    /\ UNCHANGED <<db, edit, runner>>

StartSyncRun(p) ==
    /\ procs[p].pc = "start"
    /\ \E r \in 1..MaxRuns :
           /\ db.runs[r] = NoRun /\ \A q \in 1..MaxRuns : db.runs[q] = NoRun => r <= q
           /\ db' = [db EXCEPT !.runs[r].status = "running"]
           /\ procs' = [procs EXCEPT ![p].pc = "describe", ![p].run = r]
    /\ UNCHANGED <<edit, runner>>

\* Mutant: what an earlier round saw is used again.
describeCached(p) ==
    /\ procs[p].pc = "describe"
    /\ \E v \in 1..db.cloud : procs' = [procs EXCEPT ![p].pc = "upsert", ![p].seen = v]
    /\ UNCHANGED <<db, edit, runner>>

describe(p) ==
    /\ procs[p].pc = "describe"
    /\ procs' = [procs EXCEPT ![p].pc = "upsert", ![p].seen = db.cloud]
    /\ UNCHANGED <<db, edit, runner>>

liveRows == {r \in 1..MaxRows : db.rows[r].live}

\* Mutant: the key of the conflict is not that of the index.
conflictNone == {}

\* The row that idx_cmdb_asset_cloud_unique finds in the way of an insert.
conflict == liveRows

\* Mutant: the update takes the labels and the owner of AWS as well.
refreshedWhole(row, v) == [row EXCEPT !.observed = v, !.curated = 0]

refreshed(row, v) == [row EXCEPT !.observed = v]

\* INSERT ... ON CONFLICT, in one statement.
UpsertAsset(p) ==
    LET v == procs[p].seen IN
    /\ procs[p].pc = "upsert"
    /\ IF conflict # {}
       THEN db' = [db EXCEPT !.rows = [r \in 1..MaxRows |->
                      IF r \in conflict THEN refreshed(@[r], v) ELSE @[r]]]
       ELSE /\ db.used < MaxRows
            /\ db' = [db EXCEPT !.used = @ + 1,
                          !.rows[db.used + 1] = [live |-> TRUE, observed |-> v, curated |-> 0]]
    /\ procs' = [q \in Procs |-> IF q = p THEN [procs[p] EXCEPT !.pc = "finish"]
                                ELSE [procs[q] EXCEPT !.overtaken = @ \/ procs[q].pc = "upsert"]]
    /\ UNCHANGED <<edit, runner>>

\* Mutant: a failure goes on to the next resource at once.
resourceFailedUnfinished(p) ==
    /\ procs[p].pc \in {"describe", "upsert"}
    /\ procs' = [procs EXCEPT ![p].pc = "link"]
    /\ UNCHANGED <<db, edit, runner>>

resourceFailed(p) ==
    /\ procs[p].pc \in {"describe", "upsert"}
    /\ procs' = [procs EXCEPT ![p].pc = "finish", ![p].failed = TRUE]
    /\ UNCHANGED <<db, edit, runner>>

\* The row gets its end, unless the statement fails as well.
FinishSyncRun(p) ==
    /\ procs[p].pc = "finish"
    /\ \/ db' = [db EXCEPT !.runs[procs[p].run].status = IF procs[p].failed THEN "failed" ELSE "success"]
       \/ db' = [db EXCEPT !.runs[procs[p].run].lost = TRUE]
    /\ procs' = [procs EXCEPT ![p].pc = "link"]
    /\ UNCHANGED <<edit, runner>>

\* Relations and proxies are done, or StartSyncRun has failed: RunOnce returns,
\* and in the API process the goroutine of Trigger resets running.
RunOnceReturn(p) ==
    /\ procs[p].pc \in {"start", "link"}
    /\ procs' = [procs EXCEPT ![p] = Idle]
    /\ runner' = (runner /\ p # "api")
    /\ UNCHANGED <<db, edit>>

\* A process dies and is started again.
Restart(p) ==
    /\ procs[p].pc # "idle"
    /\ db' = IF procs[p].pc \in {"describe", "upsert", "finish"}
             THEN [db EXCEPT !.runs[procs[p].run].lost = TRUE] ELSE db
    /\ procs' = [procs EXCEPT ![p] = Idle]
    /\ runner' = (runner /\ p # "api")
    /\ UNCHANGED edit

-----------------------------------------------------------------------------
(* The asset in the CMDB.                                                  *)

\* UpdateAsset reads the row ...
GetAsset(r) ==
    /\ edit = NoEdit /\ db.rows[r].live
    /\ edit' = [row |-> r, observed |-> db.rows[r].observed]
    /\ UNCHANGED <<db, procs, runner>>

\* ... and writes all of it, what AWS said included; or it fails.
UpdateAsset ==
    LET r == edit.row IN
    /\ edit # NoEdit
    /\ db' = IF db.rows[r].live /\ db.rows[r].curated < MaxEdits
             THEN [db EXCEPT !.rows[r].observed = edit.observed, !.rows[r].curated = @ + 1] ELSE db
    /\ edit' = NoEdit
    /\ UNCHANGED <<procs, runner>>

DeleteAsset(r) ==
    /\ db.rows[r].live
    /\ db' = [db EXCEPT !.rows[r].live = FALSE]
    /\ UNCHANGED <<procs, edit, runner>>

Next ==
    \/ CloudChange \/ Trigger \/ RunLoop \/ UpdateAsset
    \/ \E p \in Procs : \/ StartSyncRun(p) \/ describe(p) \/ UpsertAsset(p) \/ resourceFailed(p)
                        \/ FinishSyncRun(p) \/ RunOnceReturn(p) \/ Restart(p)
    \/ \E r \in 1..MaxRows : GetAsset(r) \/ DeleteAsset(r)

Spec == Init /\ [][Next]_vars
-----------------------------------------------------------------------------
TypeOK ==
    /\ db.rows \in [1..MaxRows -> [live : BOOLEAN, observed : 0..MaxCloud, curated : 0..MaxEdits]]
    /\ db.runs \in [1..MaxRuns -> [status : {"none", "running", "success", "failed"}, lost : BOOLEAN]]
    /\ \A p \in Procs : procs[p].seen \in 0..MaxCloud /\ procs[p].run \in 0..MaxRuns

\* However the two processes and a deletion interleave, the resource has at most
\* one live row.
OneRowPerResource == Cardinality(liveRows) <= 1

\* A run that is shown as running is being worked on by a process that is in
\* RunOnce; the exceptions are runs whose process died or whose end was not
\* written.
RunsEnd ==
    \A r \in 1..MaxRuns : db.runs[r].status = "running" /\ ~db.runs[r].lost =>
        \E p \in Procs : procs[p].run = r /\ procs[p].pc \in {"describe", "upsert", "finish"}

\* What users curate is changed by their edits alone, whatever is synchronised.
CurationKept ==
    \A r \in 1..MaxRows : db.rows[r].live /\ db'.rows[r].curated # db.rows[r].curated
        => edit # NoEdit /\ edit' = NoEdit

\* What a row says of AWS goes back in time only by an edit, which writes what it
\* read, or by a run that another run has overtaken between its look at AWS
\* and its write.
ObservedAdvances ==
    \A r \in 1..MaxRows : db.rows[r].live /\ db'.rows[r].observed < db.rows[r].observed
        => edit # edit' \/ \E p \in Procs : procs[p].overtaken /\ procs[p].pc = "upsert"
=============================================================================
