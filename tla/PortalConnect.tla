---------------------------- MODULE PortalConnect ----------------------------
(***************************************************************************)
(* The connect page (features/connect/ConnectPage.tsx): selecting an asset *)
(* in the rail or in the search palette, the question to the server        *)
(* whether the operator may connect to it, and the buttons that open a     *)
(* session.  db says whether the server admits the operator to an asset,   *)
(* cache has the answers under the keys of their queries, m the queries    *)
(* under way.                                                              *)
(***************************************************************************)
EXTENDS PortalPage, Integers, Sequences

CONSTANT Assets

None == "none"

\* Mutant: the key of the query leaves the asset out.
accessKeyShared(a) == CHOOSE x \in Assets : TRUE

\* The key of the query that resolves the access to the asset a.
accessKey(a) == a

Init ==
    /\ db \in [allowed : [Assets -> BOOLEAN], assets : {s \in [1..Cardinality(Assets) -> Assets] :
                                                        \A i, j \in DOMAIN s : s[i] = s[j] => i = j}]
    /\ cache = [rail |-> <<>>, access |-> [a \in Assets |-> Undefined], failed |-> {}]
    /\ m = {}
    /\ ui = [selected |-> None, paletteOpen |-> FALSE, query |-> Assets, paletteActive |-> 0,
             overrun |-> FALSE, told |-> [a \in Assets |-> Undefined], calls |-> 0]

accessResult == IF ui.selected = None THEN Undefined ELSE cache.access[accessKey(ui.selected)]

accessUnavailable == ui.selected # None /\ accessKey(ui.selected) \in cache.failed

\* Only an answer that says no disables the buttons; without one, and when the
\* last question failed, the server decides.
canOpen == ui.selected # None /\ (accessResult # "denied" \/ accessUnavailable)

\* Selecting an asset enables its queries; one that is under way is joined.
selectAsset(a, u) ==
    /\ ui' = [u EXCEPT !.selected = a]
    /\ m' = IF a = ui.selected THEN m ELSE m \cup {[key |-> accessKey(a), asset |-> a]}
    /\ UNCHANGED <<db, cache>>

railRow(a) == ~ui.paletteOpen /\ a \in {cache.rail[i] : i \in DOMAIN cache.rail}

onSelect(a) ==
    /\ railRow(a)
    /\ selectAsset(a, ui)

railLoaded ==
    /\ cache.rail = <<>>
    /\ cache' = [cache EXCEPT !.rail = db.assets]
    /\ UNCHANGED <<db, m, ui>>

\* resolveCapability answers, or fails and leaves what the query had.
accessResolved(f) ==
    LET says == IF db.allowed[f.asset] THEN "allowed" ELSE "denied" IN
    /\ f \in m
    /\ m' = m \ {f}
    /\ cache' = [cache EXCEPT !.access[f.key] = says, !.failed = @ \ {f.key}]
    /\ ui' = [ui EXCEPT !.told[f.asset] = says]
    /\ UNCHANGED db

accessFailed(f) ==
    /\ f \in m
    /\ m' = m \ {f}
    /\ cache' = [cache EXCEPT !.failed = @ \cup {f.key}]
    /\ UNCHANGED <<db, ui>>

\* A grant is made, expires or is revoked (bound: MaxCalls).
AccessChanges(a) ==
    /\ ui.calls < MaxCalls
    /\ db' = [db EXCEPT !.allowed[a] = ~@]
    /\ ui' = [ui EXCEPT !.calls = @ + 1]
    /\ UNCHANGED <<cache, m>>

\* The SSH and RDP buttons of the selected asset.
launchButtons == canOpen /\ ~ui.paletteOpen

\* The page is left for /sessions?launch=...; the operator comes back to a
\* page that is mounted anew.
openLive ==
    /\ launchButtons
    /\ ui' = [ui EXCEPT !.selected = None]
    /\ UNCHANGED <<db, cache, m>>

-----------------------------------------------------------------------------
\* The palette.

paletteResults == SelectSeq(cache.rail, LAMBDA a : a \in ui.query)
min(a, b) == IF a < b THEN a ELSE b
activeIndex == IF paletteResults = <<>> THEN -1 ELSE min(ui.paletteActive, Len(paletteResults) - 1)

setPaletteOpen ==
    /\ ui' = IF ui.paletteOpen THEN [ui EXCEPT !.paletteOpen = FALSE]
             ELSE [ui EXCEPT !.paletteOpen = TRUE, !.query = Assets, !.paletteActive = 0, !.overrun = FALSE]
    /\ UNCHANGED <<db, cache, m>>

setPaletteQuery ==
    /\ ui.paletteOpen
    /\ \E hits \in SUBSET Assets :
           ui' = [ui EXCEPT !.query = hits, !.paletteActive = 0, !.overrun = FALSE]
    /\ UNCHANGED <<db, cache, m>>

\* Mutant: the down key does not stop at the last result.
onArrowDownUnbounded ==
    /\ ui.paletteOpen
    /\ ui' = [ui EXCEPT !.paletteActive = @ + 1,
                        !.overrun = paletteResults = <<>>]
    /\ UNCHANGED <<db, cache, m>>

onArrowDown ==
    /\ ui.paletteOpen
    /\ ui' = [ui EXCEPT !.paletteActive = min(@ + 1, Len(paletteResults) - 1),
                        !.overrun = paletteResults = <<>>]
    /\ UNCHANGED <<db, cache, m>>

\* Mutant: the up key does not stop at the first result.
onArrowUpUnbounded ==
    /\ ui.paletteOpen
    /\ ui' = [ui EXCEPT !.paletteActive = @ - 1, !.overrun = FALSE]
    /\ UNCHANGED <<db, cache, m>>

onArrowUp ==
    /\ ui.paletteOpen
    /\ ui' = [ui EXCEPT !.paletteActive = IF @ > 0 THEN @ - 1 ELSE 0, !.overrun = FALSE]
    /\ UNCHANGED <<db, cache, m>>

onMouseEnter(index) ==
    /\ ui.paletteOpen /\ index < Len(paletteResults)
    /\ ui' = [ui EXCEPT !.paletteActive = index, !.overrun = FALSE]
    /\ UNCHANGED <<db, cache, m>>

\* Enter, and a click on a result.
choosePaletteAsset ==
    /\ ui.paletteOpen
    /\ activeIndex \in 0..Len(paletteResults) - 1
    /\ selectAsset(paletteResults[activeIndex + 1], [ui EXCEPT !.paletteOpen = FALSE])

Next ==
    \/ railLoaded \/ openLive
    \/ \E a \in Assets : onSelect(a) \/ AccessChanges(a)
    \/ \E f \in m : accessResolved(f) \/ accessFailed(f)
    \/ setPaletteOpen \/ setPaletteQuery \/ onArrowDown \/ onArrowUp \/ choosePaletteAsset
    \/ \E index \in 0..Cardinality(Assets) - 1 : onMouseEnter(index)

-----------------------------------------------------------------------------
TypeOK ==
    /\ db.allowed \in [Assets -> BOOLEAN] /\ ui.selected \in Assets \cup {None}
    /\ ui.query \subseteq Assets /\ ui.paletteActive \in -1..Cardinality(Assets)

\* What the page says about the access to the selected asset is what the server
\* answered last about that asset: not about the one selected before, whose
\* answer may still arrive.
AccessOfSelected == accessResult # Undefined => accessResult = ui.told[ui.selected]

\* As soon as the palette has results Enter chooses one of them, unless the
\* down key was pressed while it had none (paletteActive is then -1).
PaletteHighlights ==
    ui.paletteOpen /\ paletteResults # <<>> /\ ~ui.overrun => activeIndex >= 0
=============================================================================
