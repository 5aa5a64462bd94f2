----------------------------- MODULE PortalPage -----------------------------
(***************************************************************************)
(* What the editor pages of the web portal share: the data they edit on    *)
(* the server, the copy of it their queries have loaded, the mutations     *)
(* under way, and the local state of the page (its useState hooks).  A     *)
(* mutation is called, executed by the server, answered at the page, and   *)
(* stays pending until the queries that its onSuccess invalidates have     *)
(* been loaded again; the operator goes on using the page in between, so   *)
(* every answer may find another editor open than the one it was sent      *)
(* from.  A load is one step here; PortalCache takes it apart.             *)
(***************************************************************************)
EXTENDS Naturals, FiniteSets

CONSTANTS Undefined,    \* no data, no value
          MaxCalls      \* bound on the mutations the operator calls

VARIABLES db,      \* the server's data behind the page
          cache,   \* what the page's queries have: a copy of db, or Undefined
          m,       \* m[x]: the mutation x
          ui       \* the page's local state; ui.calls counts the mutations called

vars == <<db, cache, m, ui>>

\* A mutation that has not been called, or has ended.
Idle == [phase |-> "idle", arg |-> Undefined, ans |-> Undefined]

isPending(x) == m[x].phase # "idle"

mutate(x, arg) ==
    /\ ui.calls < MaxCalls
    /\ m' = [m EXCEPT ![x] = [phase |-> "sent", arg |-> arg, ans |-> Undefined]]
    /\ ui' = [ui EXCEPT !.calls = @ + 1]

\* The server has executed x and answers ans.
Executed(x, ans) == m' = [m EXCEPT ![x].phase = "done", ![x].ans = ans]

\* onSuccess has run and awaits the queries it invalidated, or awaits nothing.
Succeeded(x) == m' = [m EXCEPT ![x].phase = "settling"]
Ended(x) == m' = [m EXCEPT ![x] = Idle]

\* onError, which only reports: the call is refused or lost, or its answer is.
MutationFailed(x) ==
    /\ m[x].phase \in {"sent", "done"}
    /\ Ended(x)
    /\ UNCHANGED <<db, cache, ui>>

\* The queries that onSuccess of x awaited have been loaded, or failed to load
\* and keep what they had.
Settle(x) ==
    /\ m[x].phase = "settling"
    /\ cache' \in {cache, db}
    /\ Ended(x)
    /\ UNCHANGED <<db, ui>>

\* The first load of the page, and the refresh button.
Load ==
    /\ cache # db
    /\ cache' = db
    /\ UNCHANGED <<db, m, ui>>
=============================================================================
