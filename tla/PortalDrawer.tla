---------------------------- MODULE PortalDrawer ----------------------------
(***************************************************************************)
(* What the parts of the CMDB page (features/cmdb/AssetsPage.tsx) share:   *)
(* the drawer of the selected asset, one editor open in it, and the calls  *)
(* under way.  The page resets mutations that are still under way: such a  *)
(* call is no longer observed, yet its callbacks run when it is answered.  *)
(* What is written is a version: 0 is none, every write makes the next.    *)
(***************************************************************************)
EXTENDS Naturals, FiniteSets

CONSTANTS Assets,
          MaxCalls     \* bound on the mutations the operator calls

VARIABLES db, cache,
          m,       \* the calls under way
          ui

vars == <<db, cache, m, ui>>

None == "none"
MaxVersion == MaxCalls + 2    \* bound on the versions, a background write included

\* base: the version that the fields of the editor were set from.
NoEditor == [open |-> FALSE, base |-> 0]

canWriteAssets == ui.can = "write"
drawer == ui.selected # None

isPending(x) == \E c \in m : c.x = x /\ c.observed

resetCalls(xs, cs) == {IF c.x \in xs THEN [c EXCEPT !.observed = FALSE] ELSE c : c \in cs}

\* A component that unmounts is not reached by what its handler awaits.
unmounted(cs) == {[c EXCEPT !.mounted = FALSE] : c \in cs}

mutate(x, a) ==
    /\ ui.calls < MaxCalls
    /\ m' = resetCalls({x}, m) \cup {[id |-> ui.calls, x |-> x, asset |-> a, phase |-> "sent",
                                      ans |-> 0, observed |-> TRUE, mounted |-> TRUE]}
    /\ ui' = [ui EXCEPT !.calls = @ + 1]
    /\ UNCHANGED <<db, cache>>

\* The server has executed c, which is about a, and answers the version v.
answered(c, a, v) == (m \ {c}) \cup {[c EXCEPT !.phase = "done", !.asset = a, !.ans = v]}

\* The callback of c awaits the queries it invalidated.
settling(c) == (m \ {c}) \cup {[c EXCEPT !.phase = "settling"]}

\* onError, which only reports.
failed(c) ==
    /\ c.phase \in {"sent", "done"}
    /\ m' = m \ {c}
    /\ UNCHANGED <<db, cache, ui>>

\* The effect on selectedAssetID, and the drawer that is mounted anew with it.
Selected(a, u) ==
    IF a = ui.selected THEN u ELSE [u EXCEPT !.selected = a, !.editor = NoEditor]
SelectedCalls(a, cs) ==
    IF a = ui.selected THEN cs
    ELSE unmounted(resetCalls({"save", "test", "probe", "promote", "demote"}, cs))

openAssetDetails(a) ==
    /\ ~drawer
    /\ ui' = Selected(a, [ui EXCEPT !.tab = "summary"])
    /\ m' = SelectedCalls(a, m)
    /\ UNCHANGED <<db, cache>>

closeAssetDetail ==
    /\ drawer
    /\ ui' = Selected(None, ui)
    /\ m' = SelectedCalls(None, m)
    /\ UNCHANGED <<db, cache>>
=============================================================================
