----------------------------- MODULE VpcProxies -----------------------------
(***************************************************************************)
(* The SSH proxy of a VPC (internal/cmdb/vpcproxy.go and                   *)
(* vpcproxy_service.go): one asset of the VPC is promoted, gets a row in   *)
(* cmdb_ssh_proxy, and the connections of its peers are routed through it, *)
(* except those a user has edited.  Promote and Demote read before their   *)
(* transaction begins; ReapplyPropagation, which follows a synchronisation,*)
(* lists the proxies and then works through the list.                      *)
(*                                                                         *)
(* A transaction is one step for the locks it takes first and one for its  *)
(* commit.  It may fail, or be the victim of a deadlock, at any time.      *)
(***************************************************************************)
EXTENDS Naturals, FiniteSets

CONSTANTS Assets, Calls,
          ProxyIds       \* bound on the rows of cmdb_ssh_proxy: naturals

VARIABLES db,      \* cmdb_asset, cmdb_ssh_proxy and cmdb_asset_connection
          calls,   \* the calls of the service under way
          loose    \* history: proxies that went away with peers left behind

vars == <<db, calls, loose>>

None  == "none"
NoVpc == ""
Vpcs  == {"vpc", NoVpc}

NoProxyRow == [src |-> None, live |-> FALSE]
NoConnection == [by |-> None, proxy |-> 0]
Idle == [op |-> "idle", asset |-> None, vpc |-> NoVpc, proxy |-> 0, peers |-> {},
         todo |-> {}, overlapped |-> FALSE]

Init ==
    /\ db = [asset |-> [a \in Assets |-> [vpc |-> "vpc", proxy |-> FALSE, deleted |-> FALSE]],
             proxy |-> [p \in ProxyIds |-> NoProxyRow],
             conn  |-> [a \in Assets |-> NoConnection]]
    /\ calls = [c \in Calls |-> Idle]
    /\ loose = {}

\* The other promoted assets of a VPC.
promoted(vpc, a) ==
    {b \in Assets \ {a} : db.asset[b].proxy /\ ~db.asset[b].deleted /\ db.asset[b].vpc = vpc}

\* Mutant: the partial unique index is missing.
indexAdmitsAlways(vpc, a) == TRUE

\* idx_cmdb_asset_vpc_proxy_unique admits a as the promoted asset of vpc: no other
\* is, and none is being promoted by a transaction under way.
indexAdmits(vpc, a) ==
    \/ vpc = NoVpc \/ db.asset[a].deleted
    \/ /\ promoted(vpc, a) = {}
       /\ \A c \in Calls : calls[c].op = "promoting" => db.asset[calls[c].asset].vpc # vpc

assetLocked(a) == \E c \in Calls : calls[c].op = "promoting" /\ calls[c].asset = a
connLocked(as) == \E c \in Calls : calls[c].op = "demoting" /\ calls[c].peers \cap as # {}

\* A call has returned; Demotes under way whose proxy gets new peers, p, are marked.
Returned(c) == [calls EXCEPT ![c] = Idle]
Overlapped(cs, p) ==
    [d \in Calls |-> IF cs[d].op = "demoting" /\ cs[d].proxy = p
                     THEN [cs[d] EXCEPT !.overlapped = TRUE] ELSE cs[d]]

-----------------------------------------------------------------------------
(* Promote.                                                                *)

\* The reads before the transaction, taken together: of the asset, and of another
\* proxy of its VPC.  What they found may be out of date in every later step.
PromoteCheck(c, a) ==
    /\ calls[c].op = "idle" /\ ~db.asset[a].deleted /\ db.asset[a].vpc # NoVpc
    /\ promoted(db.asset[a].vpc, a) = {}
    /\ calls' = [calls EXCEPT ![c] = [Idle EXCEPT !.op = "checked", !.asset = a, !.vpc = db.asset[a].vpc]]
    /\ UNCHANGED <<db, loose>>

\* The first statement of the transaction locks the asset's row and its entry in
\* the unique index: a second promotion in the VPC waits, and fails.
PromoteBegin(c) ==
    LET a == calls[c].asset IN
    /\ calls[c].op = "checked" /\ ~assetLocked(a) /\ indexAdmits(db.asset[a].vpc, a)
    /\ calls' = [calls EXCEPT ![c].op = "promoting"]
    /\ UNCHANGED <<db, loose>>

rowsOf(a) == {p \in ProxyIds : db.proxy[p].src = a}

\* Mutant: only a live row of the asset is taken up again.
upsertProxyForLiveAsset(a, p) ==
    IF \E q \in rowsOf(a) : db.proxy[q].live THEN p \in rowsOf(a) /\ db.proxy[p].live
    ELSE db.proxy[p].src = None /\ \A q \in ProxyIds : db.proxy[q].src = None => p <= q

\* p is the row of the asset, a soft-deleted one included, or a new one.
upsertProxyForAsset(a, p) ==
    IF rowsOf(a) # {} THEN p \in rowsOf(a)
    ELSE db.proxy[p].src = None /\ \A q \in ProxyIds : db.proxy[q].src = None => p <= q

\* Mutant: the connections of users are repointed as well.
peersAll(vpc, a) == {b \in Assets \ {a} : ~db.asset[b].deleted /\ db.asset[b].vpc = vpc}

\* The peers that propagation writes: all but those a user has edited.
peers(vpc, a) ==
    {b \in Assets \ {a} : ~db.asset[b].deleted /\ db.asset[b].vpc = vpc /\ db.conn[b].by # "user"}

propagateProxyToVPCPeers(conn, vpc, a, p) ==
    [b \in Assets |-> IF b \in peers(vpc, a) THEN [by |-> "auto", proxy |-> p] ELSE conn[b]]

ensureProxyAssetConnection(a) ==
    IF db.conn[a].by = "user" THEN db.conn ELSE [db.conn EXCEPT ![a] = [by |-> "auto", proxy |-> 0]]

PromoteCommit(c) ==
    LET a == calls[c].asset   vpc == calls[c].vpc IN
    /\ calls[c].op = "promoting" /\ ~connLocked(peers(vpc, a) \cup {a})
    /\ \E p \in ProxyIds :
           /\ upsertProxyForAsset(a, p)
           /\ db' = [asset |-> [db.asset EXCEPT ![a].proxy = TRUE],
                     proxy |-> [db.proxy EXCEPT ![p] = [src |-> a, live |-> TRUE]],
                     conn  |-> propagateProxyToVPCPeers(ensureProxyAssetConnection(a), vpc, a, p)]
           /\ calls' = Overlapped(Returned(c), p)
           /\ loose' = loose \ {p}

-----------------------------------------------------------------------------
(* Demote.                                                                 *)

DemoteRead(c, a) ==
    /\ calls[c].op = "idle" /\ ~db.asset[a].deleted /\ db.asset[a].proxy
    /\ calls' = [calls EXCEPT ![c] = [Idle EXCEPT !.op = "demote", !.asset = a]]
    /\ UNCHANGED <<db, loose>>

\* The proxy is looked up and the rows of its peers are locked.
DemotePeers(c) ==
    LET ps == {p \in rowsOf(calls[c].asset) : db.proxy[p].live} IN
    /\ calls[c].op = "demote"
    /\ \E p \in IF ps = {} THEN {0} ELSE ps :
           LET bs == {b \in Assets : p # 0 /\ db.conn[b] = [by |-> "auto", proxy |-> p]} IN
           /\ ~connLocked(bs)
           /\ calls' = [calls EXCEPT ![c].op = "demoting", ![c].proxy = p, ![c].peers = bs]
    /\ UNCHANGED <<db, loose>>

\* Mutant: the peers keep the demoted proxy.
clearedNot(conn, bs) == conn

cleared(conn, bs) == [b \in Assets |-> IF b \in bs THEN [conn[b] EXCEPT !.proxy = 0] ELSE conn[b]]

DemoteCommit(c) ==
    LET k == calls[c] IN
    /\ k.op = "demoting" /\ ~assetLocked(k.asset)
    /\ db' = [asset |-> [db.asset EXCEPT ![k.asset].proxy = FALSE],
              proxy |-> [p \in ProxyIds |->
                            IF p = k.proxy THEN [db.proxy[p] EXCEPT !.live = FALSE] ELSE db.proxy[p]],
              conn  |-> cleared(db.conn, k.peers)]
    /\ loose' = IF k.overlapped THEN loose \cup {k.proxy} ELSE loose
    /\ calls' = Returned(c)

-----------------------------------------------------------------------------
(* ReapplyPropagation: one transaction for each proxy listed.              *)

ReapplyList(c) ==
    LET ts == {t \in Assets \X ProxyIds : /\ db.asset[t[1]].proxy /\ ~db.asset[t[1]].deleted
                                          /\ db.proxy[t[2]] = [src |-> t[1], live |-> TRUE]} IN
    /\ calls[c].op = "idle" /\ ts # {}
    /\ calls' = [calls EXCEPT ![c] = [Idle EXCEPT !.op = "reapply",
                                          !.todo = {<<t[1], t[2], db.asset[t[1]].vpc>> : t \in ts}]]
    /\ UNCHANGED <<db, loose>>

ReapplyPropagation(c) ==
    \E t \in calls[c].todo :
        /\ ~connLocked(peers(t[3], t[1]))
        /\ db' = [db EXCEPT !.conn = propagateProxyToVPCPeers(@, t[3], t[1], t[2])]
        /\ loose' = IF db.proxy[t[2]].live THEN loose ELSE loose \cup {t[2]}
        /\ calls' = Overlapped(IF calls[c].todo = {t} THEN Returned(c)
                               ELSE [calls EXCEPT ![c].todo = @ \ {t}], t[2])

\* A check refuses, a statement fails, or the transaction is rolled back.
Fail(c) ==
    /\ calls[c].op # "idle"
    /\ calls' = Returned(c)
    /\ UNCHANGED <<db, loose>>

-----------------------------------------------------------------------------
(* What else writes these rows.                                            *)

\* A user saves the connection of an asset that is there, through no proxy or
\* through one of the table, a soft-deleted one too.
UpsertAssetConnectionProfile(a) ==
    /\ ~connLocked({a}) /\ ~db.asset[a].deleted
    /\ \E p \in {0} \cup {q \in ProxyIds : db.proxy[q].src # None} :
           db' = [db EXCEPT !.conn[a] = [by |-> "user", proxy |-> p]]
    /\ UNCHANGED <<calls, loose>>

\* The connectivity page deletes a proxy row, a managed one too.
DeleteProxy(p) ==
    /\ db.proxy[p].live
    /\ db' = [db EXCEPT !.proxy[p].live = FALSE]
    /\ loose' = loose \cup {p}
    /\ UNCHANGED calls

DeleteAsset(a) ==
    /\ ~db.asset[a].deleted /\ ~assetLocked(a)
    /\ db' = [db EXCEPT !.asset[a].deleted = TRUE]
    /\ UNCHANGED <<calls, loose>>

\* An edit or a synchronisation takes an asset out of its VPC (bound: it does not
\* return, and there is one VPC).
UpdateAsset(a) ==
    /\ ~db.asset[a].deleted /\ ~assetLocked(a) /\ db.asset[a].vpc # NoVpc
    /\ db' = [db EXCEPT !.asset[a].vpc = NoVpc]
    /\ UNCHANGED <<calls, loose>>

Next ==
    \/ \E c \in Calls : \/ \E a \in Assets : PromoteCheck(c, a) \/ DemoteRead(c, a)
                        \/ PromoteBegin(c) \/ PromoteCommit(c)
                        \/ DemotePeers(c) \/ DemoteCommit(c)
                        \/ ReapplyList(c) \/ ReapplyPropagation(c) \/ Fail(c)
    \/ \E p \in ProxyIds : DeleteProxy(p)
    \/ \E a \in Assets : \/ UpsertAssetConnectionProfile(a) \/ DeleteAsset(a) \/ UpdateAsset(a)

Spec == Init /\ [][Next]_vars
-----------------------------------------------------------------------------
TypeOK ==
    /\ db.asset \in [Assets -> [vpc : Vpcs, proxy : BOOLEAN, deleted : BOOLEAN]]
    /\ db.proxy \in [ProxyIds -> [src : Assets \cup {None}, live : BOOLEAN]]
    /\ db.conn \in [Assets -> [by : {None, "auto", "user"}, proxy : ProxyIds \cup {0}]]
    /\ loose \subseteq ProxyIds

\* At most one asset of a VPC is promoted: the check of Promote is made before
\* its transaction, so two promotions may both pass it.
OneProxyPerVpc ==
    \A a \in Assets : db.asset[a].proxy /\ ~db.asset[a].deleted /\ db.asset[a].vpc # NoVpc
        => promoted(db.asset[a].vpc, a) = {}

\* The proxy of an asset stays the same row through every promotion and
\* demotion, so that what refers to it keeps working.
StableProxyRow == \A a \in Assets : Cardinality(rowsOf(a)) <= 1

\* A managed connection goes through a proxy that is there.  The exceptions: a
\* proxy deleted by hand, one that a propagation got new peers for while it was
\* being demoted, and one that ReapplyPropagation listed before the demotion.
RoutedThroughLiveProxy ==
    \A a \in Assets : db.conn[a].by = "auto" /\ db.conn[a].proxy # 0 =>
        db.proxy[db.conn[a].proxy].live \/ db.conn[a].proxy \in loose

\* A connection that a user has edited is changed by users only: whatever is
\* promoted, demoted or synchronised leaves it alone.
UserRouteKept ==
    \A a \in Assets : db.conn[a].by = "user" /\ db'.conn[a] # db.conn[a]
        => db'.conn[a].by = "user" /\ calls' = calls
=============================================================================
