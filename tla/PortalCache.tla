----------------------------- MODULE PortalCache -----------------------------
(***************************************************************************)
(* What the pages show after a mutation.  Every page keeps its queries in  *)
(* the cache of the query library and names, in the callbacks of its       *)
(* mutations, the queries to put data into and those to load again.  Here  *)
(* a load takes time: the request is on its way ("asked"), then the answer *)
(* is ("answered", with the version of the data that the server read).     *)
(* The tables give, for each mutation of a page, the queries whose data    *)
(* the server changes, those it puts data into, and those it loads again,  *)
(* one set after the other.  A page is shown to an operator with all       *)
(* capabilities; the drawer of the CMDB page shows one asset or none.      *)
(***************************************************************************)
EXTENDS PortalPage, Sequences

Mutation(writes, sets, awaited) == [writes |-> writes, sets |-> sets, awaited |-> awaited]

AwsQueries == {"accounts", "sync status", "sync runs"}
\* Mutant: saving an account loads the synchronisation again only.
AwsMutationsPartial ==
    LET account == Mutation({"accounts"}, {}, <<{"sync status", "sync runs"}>>)
    IN  [create |-> account, update |-> account,
         sync |-> Mutation({"sync status"}, {}, <<{"sync status", "sync runs"}>>)]

\* The runs show the name of their account.  When sync is answered, the
\* synchronisation has begun (Trigger) and has written none of its runs.
AwsMutations ==
    [create |-> Mutation({"accounts"}, {}, <<AwsQueries>>),
     update |-> Mutation({"accounts", "sync runs"}, {}, <<AwsQueries>>),
     sync |-> Mutation({"sync status"}, {}, <<{"sync status", "sync runs"}>>)]

ConnectivityQueries == {"ssh-proxies", "ssh-keypairs", "hostkeys"}
ConnectivityMutations ==
    LET proxy == Mutation({"ssh-proxies"}, {}, <<ConnectivityQueries>>)
        keypair == Mutation({"ssh-keypairs"}, {}, <<{"ssh-keypairs"}>>)
        hostkey == Mutation({"hostkeys"}, {}, <<{"hostkeys"}>>)
    IN  [createProxy |-> proxy, updateProxy |-> proxy, removeProxy |-> proxy,
         uploadKeypair |-> keypair, removeKeypair |-> keypair,
         approveOverride |-> hostkey, forgetHostKey |-> hostkey]

AccessQueries == {"requests mine", "grants mine", "pending-approvals"}
AccessMutations ==
    LET request == Mutation({"requests mine", "pending-approvals"}, {}, <<AccessQueries>>)
    IN  [createRequest |-> request, cancelRequest |-> request,
         decideRequest |-> Mutation(AccessQueries, {}, <<AccessQueries>>)]

IamQueries == {"users", "roles", "identity", "role permissions"}
IamMutations ==
    LET binding == Mutation({"users", "identity"}, {}, <<IamQueries>>)
    IN  [bindRole |-> binding, unbindRole |-> binding]

OidcQueries == {"settings"}
OidcMutations == [saveSettings |-> Mutation(OidcQueries, {}, <<OidcQueries>>)]

\* The list and the tree are queries of their own, one of them enabled; the
\* last four are enabled while the drawer is open.
DrawerQueries == {"detail", "connection", "probe", "relations"}
CmdbQueries == {"list", "tree", "facets"} \cup DrawerQueries
CmdbMutations ==
    LET lists == {"list", "tree", "facets"}
    IN  [saveConnection |-> Mutation({"connection"}, {"connection"}, <<{"connection"}>>),
         testConnection |-> Mutation({"connection"}, {}, <<{"connection"}>>),
         createAsset |-> Mutation(lists, {}, <<{"list"}, {"facets"}>>),
         updateAsset |-> Mutation(lists \cup {"detail", "relations"}, {"detail"}, <<{"list"}>>),
         deleteAsset |-> Mutation(lists, {}, <<{"list"}, {"facets"}>>),
         runProbe |-> Mutation({"probe", "connection", "list", "tree", "detail"}, {"probe"},
                               <<{"probe"}, {"connection"}>>),
         promoteVPCProxy |-> Mutation({"list", "tree", "detail", "connection"}, {"detail"}, <<{"list"}>>),
         demoteVPCProxy |-> Mutation({"list", "tree", "detail"}, {}, <<{"list"}, {"detail"}>>),
         deleteRelation |-> Mutation({"relations"}, {}, <<{"relations"}>>)]

\* What the mutations change and do not load again: relations show the name of
\* the asset; a probe writes the tags and the time of change of the asset, by
\* which the list and the tree are sorted.
Forgotten ==
    {<<"updateAsset", "facets">>, <<"updateAsset", "relations">>, <<"promoteVPCProxy", "connection">>} \cup
    ({"runProbe"} \X {"list", "tree", "detail"}) \cup
    ({"createAsset", "updateAsset", "deleteAsset", "promoteVPCProxy", "demoteVPCProxy"} \X {"tree"})

Tables == [aws |-> AwsMutations, connectivity |-> ConnectivityMutations, access |-> AccessMutations,
           iam |-> IamMutations, oidc |-> OidcMutations, cmdb |-> CmdbMutations]
Queries == [aws |-> AwsQueries, connectivity |-> ConnectivityQueries, access |-> AccessQueries,
            iam |-> IamQueries, oidc |-> OidcQueries, cmdb |-> CmdbQueries]

table == Tables[ui.page]

enabled(k, view, drawer) ==
    /\ k = "list" => view = "list"
    /\ k = "tree" => view = "tree"
    /\ k \in DrawerQueries => drawer
shown(k) == enabled(k, ui.view, ui.drawer)

-----------------------------------------------------------------------------
\* A query: its data (0: none), its load.  late: the load under way, or the
\* one that brought the data, was begun before a write that it should show, or
\* the data were put there by an answer that another one had overtaken.
Query(v) == [data |-> v, load |-> "idle", got |-> 0, failed |-> FALSE, late |-> FALSE]

begun(q) == [q EXCEPT !.load = "asked", !.got = 0, !.late = FALSE]

\* A refetch joins the first load of a query and replaces any later one.
refetched(q) == IF q.load # "idle" /\ q.data = 0 THEN [q EXCEPT !.late = TRUE] ELSE begun(q)

\* A query that is enabled is loaded, whatever it has (staleTime 0), or joins
\* the load that was begun before it was disabled.
mounted(q) == IF q.load # "idle" THEN [q EXCEPT !.late = TRUE] ELSE begun(q)

\* invalidateQueries loads only those that are enabled.
invalidateQueries(keys, qs) == [k \in DOMAIN qs |-> IF k \in keys /\ shown(k) THEN refetched(qs[k]) ELSE qs[k]]

\* setQueryData neither stops a load that is under way nor minds what is there;
\* it hides that a load has failed.
setQueryData(keys, version, qs) ==
    [k \in DOMAIN qs |-> IF k \in keys
                         THEN [qs[k] EXCEPT !.data = version[k], !.failed = FALSE, 
                                                !.late = \/ qs[k].late \/ qs[k].failed
                                                           \/ qs[k].load # "idle"
                                                           \/ qs[k].data > version[k]]
                         ELSE qs[k]]

-----------------------------------------------------------------------------
\* db[k] is the version of the data behind k; ui.owed[k] is the version that k
\* owes the operator, whose mutation has ended; ui.gone: the asset of the drawer
\* has been deleted.
Init ==
    \E p \in DOMAIN Tables :
        /\ db = [k \in Queries[p] |-> 1]
        /\ \E first \in SUBSET Queries[p] :
               /\ Cardinality(first) <= 1 /\ (p = "cmdb" => first \subseteq {"detail"})
               /\ cache = [k \in Queries[p] |->
                               IF k = "tree" THEN Query(0) ELSE IF k \in first THEN begun(Query(0)) ELSE Query(1)]
        /\ m = {}
        /\ ui = [page |-> p, view |-> "list", drawer |-> TRUE, gone |-> FALSE,
                 calls |-> 0, owed |-> [k \in Queries[p] |-> 0]]

calling(x) == \E c \in m : c.x = x

NoWrites == [k \in {} |-> 0]

\* The button of a mutation is disabled while it is pending.
call(x) ==
    /\ ~calling(x) /\ ui.calls < MaxCalls
    /\ (x = "createAsset") = ~ui.drawer
    /\ m' = m \cup {[x |-> x, phase |-> "sent", wrote |-> NoWrites, left |-> <<>>]}
    /\ ui' = [ui EXCEPT !.calls = @ + 1]
    /\ UNCHANGED <<db, cache>>

executed(c) ==
    /\ c.phase = "sent"
    /\ db' = [k \in DOMAIN db |-> IF k \in table[c.x].writes THEN db[k] + 1 ELSE db[k]]
    /\ m' = (m \ {c}) \cup {[c EXCEPT !.phase = "done", !.wrote = [k \in table[c.x].writes |-> db'[k]]]}
    /\ UNCHANGED <<cache, ui>>

\* A synchronisation, the one that sync has begun, another operator's or the
\* worker's: it inserts and ends its runs, and ends (bound: it counts as a call).
RunOnce ==
    /\ ui.page = "aws" /\ ui.calls < MaxCalls
    /\ \E k \in {"sync runs", "sync status"} : db' = [db EXCEPT ![k] = @ + 1]
    /\ ui' = [ui EXCEPT !.calls = @ + 1]
    /\ UNCHANGED <<cache, m>>

\* The callback: deleting the asset closes the drawer first.
onSuccess(c) ==
    LET t == table[c.x] IN
    /\ c.phase = "done"
    /\ cache' = invalidateQueries(Head(t.awaited), setQueryData(t.sets, c.wrote, cache))
    /\ m' = (m \ {c}) \cup {[c EXCEPT !.phase = "settling", !.left = t.awaited]}
    /\ ui' = IF c.x = "deleteAsset" THEN [ui EXCEPT !.drawer = FALSE, !.gone = TRUE] ELSE ui
    /\ UNCHANGED db

owes(c, k) == k \in DOMAIN c.wrote /\ shown(k) /\ c.wrote[k] > ui.owed[k] /\ <<c.x, k>> \notin Forgotten

\* The queries awaited have been loaded, or could not be; the next ones are, or
\* the mutation has ended.
awaited(c) ==
    /\ c.phase = "settling" /\ \A k \in Head(c.left) : shown(k) => cache[k].load = "idle"
    /\ IF Len(c.left) > 1
       THEN /\ cache' = invalidateQueries(c.left[2], cache)
            /\ m' = (m \ {c}) \cup {[c EXCEPT !.left = Tail(@)]}
            /\ UNCHANGED ui
       ELSE /\ m' = m \ {c}
            /\ ui' = [ui EXCEPT !.owed = [k \in DOMAIN db |->
                          IF owes(c, k) THEN c.wrote[k] ELSE @[k]]]
            /\ UNCHANGED cache
    /\ UNCHANGED db

\* The call failed or its answer is lost; onSettled loads the queries all the same.
callFailed(c) ==
    /\ c.phase \in {"sent", "done"}
    /\ IF c.x \in {"testConnection", "runProbe", "deleteRelation"}
       THEN /\ cache' = invalidateQueries(Head(table[c.x].awaited), cache)
            /\ m' = (m \ {c}) \cup {[c EXCEPT !.phase = "settling", !.wrote = NoWrites, !.left = table[c.x].awaited]}
       ELSE m' = m \ {c} /\ UNCHANGED cache
    /\ UNCHANGED <<db, ui>>

-----------------------------------------------------------------------------
\* The loads.

answered(k) ==
    /\ cache[k].load = "asked"
    /\ cache' = [cache EXCEPT ![k].load = "answered", ![k].got = db[k]]
    /\ UNCHANGED <<db, m, ui>>

received(k) ==
    /\ cache[k].load = "answered"
    /\ cache' = [cache EXCEPT ![k] = [Query(@.got) EXCEPT !.late = cache[k].late]]
    /\ UNCHANGED <<db, m, ui>>

\* The load failed, and failed again when it was retried: the data stay.
loadFailed(k) ==
    /\ cache[k].load # "idle"
    /\ cache' = [cache EXCEPT ![k] = [@ EXCEPT !.load = "idle", !.got = 0, !.failed = TRUE]]
    /\ UNCHANGED <<db, m, ui>>

\* The refresh button of a page (bound: it counts as a call).
refresh(keys) ==
    /\ ui.calls < MaxCalls /\ \A k \in keys : cache[k].load = "idle"
    /\ cache' = invalidateQueries(keys, cache)
    /\ ui' = [ui EXCEPT !.calls = @ + 1]
    /\ UNCHANGED <<db, m>>

\* The view or the drawer changes: the queries that are enabled by it are loaded.
changed(view, drawer) ==
    /\ ui.page = "cmdb" /\ ui.calls < MaxCalls
    /\ cache' = [k \in DOMAIN cache |->
                     IF ~shown(k) /\ enabled(k, view, drawer) THEN mounted(cache[k]) ELSE cache[k]]
    /\ ui' = [ui EXCEPT !.view = view, !.drawer = drawer, !.calls = @ + 1,
                        !.owed = [k \in DOMAIN db |-> IF enabled(k, view, drawer) THEN @[k] ELSE 0]]
    /\ UNCHANGED <<db, m>>

setViewMode == \E v \in {"list", "tree"} \ {ui.view} : changed(v, ui.drawer)
openOrCloseDrawer == ~ui.gone /\ changed(ui.view, ~ui.drawer)

refreshed == IF ui.page = "cmdb" THEN {ui.view} ELSE Queries[ui.page]

Next ==
    \/ \E x \in DOMAIN table : call(x)
    \/ \E c \in m : executed(c) \/ onSuccess(c) \/ awaited(c) \/ callFailed(c)
    \/ \E k \in DOMAIN cache : answered(k) \/ received(k) \/ loadFailed(k)
    \/ RunOnce \/ refresh(refreshed) \/ setViewMode \/ openOrCloseDrawer

Spec == Init /\ [][Next]_vars
-----------------------------------------------------------------------------
TypeOK ==
    /\ DOMAIN cache = Queries[ui.page] /\ DOMAIN db = DOMAIN cache
    /\ \A k \in DOMAIN cache : cache[k] \in [data : 0..MaxCalls + 1, load : {"idle", "asked", "answered"},
                                             got : 0..MaxCalls + 1, failed : BOOLEAN, late : BOOLEAN]

\* Read your writes: when a mutation has ended, the queries of the page that it
\* had changed when it was answered show the change, or say that they could not be
\* loaded.  The exceptions are the Forgotten pairs, and what a synchronisation
\* writes after the call that began it is answered (RunOnce).
ReadYourWrites ==
    \A k \in DOMAIN cache :
        shown(k) /\ cache[k].load = "idle" /\ ~cache[k].failed /\ ~cache[k].late
            => cache[k].data >= ui.owed[k]
=============================================================================
