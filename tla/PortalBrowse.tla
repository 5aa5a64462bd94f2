---------------------------- MODULE PortalBrowse ----------------------------
(***************************************************************************)
(* The list of the CMDB page (features/cmdb/AssetsPage.tsx, lib/assets.ts):*)
(* filters, pages and the query behind them.  Every filter and offset is a *)
(* query of its own, which keeps what it loaded; the number of assets that *)
(* match changes on the server meanwhile.  Of a page the number of its     *)
(* items matters, and the total the server says.                           *)
(***************************************************************************)
EXTENDS Naturals, FiniteSets

CONSTANTS Undefined,
          pageSize,
          MaxAssets    \* bound on the assets

VARIABLES db,      \* db[f]: the assets that match the filters f
          cache,   \* cache[k]: what the query with key k has loaded
          m,       \* the queries that are fetching
          ui       \* and history: the filters whose list has become shorter

vars == <<db, cache, m, ui>>

Filters == {"initial", "other"}    \* what is listed by default, and another choice
Keys == Filters \X {o \in 0..MaxAssets : o % pageSize = 0}

Init ==
    /\ db \in [Filters -> 0..MaxAssets]
    /\ cache = [k \in Keys |-> Undefined]
    /\ ui \in [filters : {"initial"}, offset : {0}, viewMode : {"list", "tree"}, shrunk : {{}}]
    /\ m = IF ui.viewMode = "list" THEN {<<"initial", 0>>} ELSE {}

key == <<ui.filters, ui.offset>>
enabled == ui.viewMode = "list"
isFetching == key \in m

\* What the page takes for its items and their total while a query has no data.
NoData == [total |-> 0, items |-> 0]
shown == IF cache[key] = Undefined THEN NoData ELSE cache[key]

\* The query that the page shows with ui' loads, whether it has data or not.
Shown(u) == m \cup (IF u.viewMode = "list" THEN {<<u.filters, u.offset>>} ELSE {})

\* Mutant: the filters change under the offset.
updateFilterKeepingOffset(f) == [ui EXCEPT !.filters = f]

\* updateFilter and resetFilters.
updateFilter(f) == [ui EXCEPT !.filters = f, !.offset = 0]

\* The controls of the toolbar; the reset button is there if a filter is set.
toolbar(f) ==
    /\ f # ui.filters
    /\ ui' = updateFilter(f)
    /\ m' = Shown(ui')
    /\ UNCHANGED <<db, cache>>

setViewMode(v) ==
    /\ v # ui.viewMode
    /\ ui' = [ui EXCEPT !.viewMode = v]
    /\ m' = Shown(ui')
    /\ UNCHANGED <<db, cache>>

paginationRow == enabled /\ shown.total > pageSize
canGoPrevious == ui.offset > 0
canGoNext == ui.offset + pageSize < shown.total

previousAssetOffset == IF ui.offset < pageSize THEN 0 ELSE ui.offset - pageSize
nextAssetOffset == IF ui.offset + pageSize >= shown.total THEN ui.offset ELSE ui.offset + pageSize

\* The buttons of the pagination row; it is there only if the total needs it.
goTo(offset) ==
    /\ ui' = [ui EXCEPT !.offset = offset]
    /\ m' = Shown(ui')
    /\ UNCHANGED <<db, cache>>
goPrevious == paginationRow /\ canGoPrevious /\ ~isFetching /\ goTo(previousAssetOffset)
goNext == paginationRow /\ canGoNext /\ ~isFetching /\ goTo(nextAssetOffset)

\* The refresh button, and the invalidations of the page's mutations.
refetch ==
    /\ enabled /\ ~isFetching
    /\ m' = Shown(ui)
    /\ UNCHANGED <<db, cache, ui>>

\* listAssets on the server: the total, and the items from the offset on.
page(k) ==
    LET total == db[k[1]]   rest == IF k[2] >= total THEN 0 ELSE total - k[2] IN
    [total |-> total, items |-> IF rest > pageSize THEN pageSize ELSE rest]

listAssets(k) ==
    /\ k \in m
    /\ cache' \in {cache, [cache EXCEPT ![k] = page(k)]}    \* failed, or loaded
    /\ m' = m \ {k}
    /\ UNCHANGED <<db, ui>>

\* An asset is created, deleted or edited, here or elsewhere (bound: a list that
\* has become shorter stays so).
AssetsChange ==
    /\ \E f \in Filters :
           \/ /\ db[f] < MaxAssets /\ f \notin ui.shrunk
              /\ db' = [db EXCEPT ![f] = @ + 1]
              /\ UNCHANGED ui
           \/ /\ db[f] > 0
              /\ db' = [db EXCEPT ![f] = @ - 1]
              /\ ui' = [ui EXCEPT !.shrunk = @ \cup {f}]
    /\ UNCHANGED <<cache, m>>

Next ==
    \/ \E f \in Filters : toolbar(f)
    \/ \E v \in {"list", "tree"} : setViewMode(v)
    \/ goPrevious \/ goNext \/ refetch \/ AssetsChange
    \/ \E k \in Keys : listAssets(k)

\* "No assets yet", or none that match.
emptyPage == enabled /\ cache[key] # Undefined /\ shown.items = 0

-----------------------------------------------------------------------------
TypeOK ==
    /\ db \in [Filters -> 0..MaxAssets]
    /\ m \subseteq Keys /\ key \in Keys
    /\ \A k \in Keys : cache[k] = Undefined \/ cache[k] \in [total : 0..MaxAssets, items : 0..pageSize]

\* The page is blank although assets match only if the list behind it has become
\* shorter: neither the buttons nor the filters lead to a page beyond its end.
\* (What remains may then fit on one page: the pagination row is gone, and nothing
\* but a change of the filters leads back.)
PageNotBlank == emptyPage /\ shown.total > 0 => ui.filters \in ui.shrunk
=============================================================================
