-------------------------- MODULE ComponentsProofs --------------------------
(***************************************************************************)
(* The components of MCComponents, for any assets, users, logins and number *)
(* of calls: an inductive invariant for each one on the server and what     *)
(* follows for the runs' properties, and the inductive invariants of five   *)
(* pages of the portal: the relations and the assets of the CMDB page, the  *)
(* access page, the AWS page and the editor of SSH proxies.  PagesProofs    *)
(* goes on from these with the other pages.                                 *)
(***************************************************************************)
EXTENDS MCComponents, Sequences, FiniteSetTheorems, TLAPS

(* The instances take Cardinality from the same module.                     *)
LEMMA SameCardinality ==
  ASSUME NEW S
  PROVE  /\ Vpc!Cardinality(S) = Cardinality(S) /\ Sync!Cardinality(S) = Cardinality(S)
         /\ Login!Cardinality(S) = Cardinality(S) /\ Terminal!Cardinality(S) = Cardinality(S)
BY Zenon DEF Cardinality, Vpc!Cardinality, Sync!Cardinality, Login!Cardinality, Terminal!Cardinality

(* A set whose elements are equal has one at most.                          *)
LEMMA AtMostOne ==
  ASSUME NEW S, \A x, y \in S : x = y
  PROVE  Cardinality(S) <= 1 /\ IsFiniteSet(S)
<1>1. CASE S = {}
  BY <1>1, FS_EmptySet
<1>2. CASE S # {}
  <2>1. PICK x \in S : TRUE
    BY <1>2
  <2>2. S = {x}
    BY <2>1
  <2>3. Cardinality({x}) = 1 /\ IsFiniteSet({x})
    BY FS_Singleton
  <2> QED
    BY <2>2, <2>3
<1> QED
  BY <1>1, <1>2

-----------------------------------------------------------------------------
(* The proxies of VPCs.                                                     *)

ProxyRows == 1..MaxProxies

AssetRow == [vpc : {"vpc", ""}, proxy : BOOLEAN, deleted : BOOLEAN]
ProxyRow == [src : Things \cup {"none"}, live : BOOLEAN]
ConnRow == [by : {"none", "auto", "user"}, proxy : ProxyRows \cup {0}]
VpcDb == [asset : [Things -> AssetRow], proxy : [ProxyRows -> ProxyRow], conn : [Things -> ConnRow]]

VpcCall == [op : {"idle", "checked", "promoting", "demote", "demoting", "reapply"},
            asset : Things \cup {"none"}, vpc : {"vpc", ""}, proxy : ProxyRows \cup {0},
            peers : SUBSET Things, todo : SUBSET (Things \X ProxyRows \X {"vpc", ""}),
            overlapped : BOOLEAN]

VpcTypes == db \in VpcDb /\ m \in [Jobs -> VpcCall] /\ ui \subseteq ProxyRows

(* A call knows its asset, only a proxy that is there gets new peers, and   *)
(* only ReapplyPropagation has a list.                                      *)
VpcCalls ==
  \A c \in Jobs :
     /\ m[c].op \in {"checked", "promoting", "demote", "demoting"} => m[c].asset \in Things
     /\ m[c].overlapped => m[c].op = "demoting" /\ m[c].proxy # 0
     /\ m[c].todo # {} => m[c].op = "reapply"

(* An asset holds the entry of its VPC in the unique index: it is promoted, *)
(* or a transaction under way promotes it.                                  *)
Claims(a) ==
  /\ ~ db.asset[a].deleted /\ db.asset[a].vpc # ""
  /\ db.asset[a].proxy \/ \E c \in Jobs : m[c].op = "promoting" /\ m[c].asset = a

OneClaim ==
  \A a, b \in Things : Claims(a) /\ Claims(b) /\ db.asset[a].vpc = db.asset[b].vpc => a = b

(* A row of cmdb_ssh_proxy is the only one of its asset.                    *)
RowsUnique ==
  \A p, q \in ProxyRows : db.proxy[p].src = db.proxy[q].src /\ db.proxy[p].src # "none" => p = q

Routed ==
  \A a \in Things : db.conn[a].by = "auto" /\ db.conn[a].proxy # 0 =>
     db.proxy[db.conn[a].proxy].live \/ db.conn[a].proxy \in ui

(* A Demote has locked managed connections, and all those of its proxy      *)
(* unless a propagation has overlapped it.                                  *)
DemotesComplete ==
  \A c \in Jobs : m[c].op = "demoting" =>
     /\ \A b \in m[c].peers : db.conn[b].by = "auto"
     /\ ~ m[c].overlapped /\ m[c].proxy # 0 =>
           \A b \in Things : db.conn[b].by = "auto" /\ db.conn[b].proxy = m[c].proxy => b \in m[c].peers

VpcInv == VpcTypes /\ VpcCalls /\ OneClaim /\ RowsUnique /\ Routed /\ DemotesComplete

LEMMA VpcInit == Vpc!Init => VpcInv
<1> SUFFICES ASSUME Vpc!Init PROVE VpcInv
  OBVIOUS
<1> USE DEF Vpc!Init, Vpc!NoProxyRow, Vpc!NoConnection, Vpc!Idle, Vpc!None, Vpc!NoVpc
<1>1. VpcTypes
  <2>1. db \in VpcDb
    BY DEF VpcDb, AssetRow, ProxyRow, ConnRow, ProxyRows
  <2>2. m \in [Jobs -> VpcCall]
    BY DEF VpcCall
  <2> QED
    BY <2>1, <2>2 DEF VpcTypes
<1>2. /\ \A c \in Jobs : m[c].op = "idle" /\ ~ m[c].overlapped /\ m[c].todo = {}
      /\ \A a \in Things : ~ db.asset[a].proxy /\ db.conn[a].by = "none"
      /\ \A p \in ProxyRows : db.proxy[p].src = "none"
  BY DEF ProxyRows
<1> QED
  BY <1>1, <1>2 DEF VpcInv, VpcCalls, OneClaim, Claims, RowsUnique, Routed, DemotesComplete

(* The rows of the tables.                                                  *)
LEMMA VpcRows ==
  ASSUME VpcInv
  PROVE  /\ db \in VpcDb /\ db.asset \in [Things -> AssetRow] /\ db.proxy \in [ProxyRows -> ProxyRow]
         /\ db.conn \in [Things -> ConnRow] /\ m \in [Jobs -> VpcCall] /\ ui \subseteq ProxyRows
         /\ \A a \in Things : db.asset[a] \in AssetRow /\ db.conn[a] \in ConnRow
         /\ \A p \in ProxyRows : db.proxy[p] \in ProxyRow
         /\ \A c \in Jobs : m[c] \in VpcCall
BY DEF VpcInv, VpcTypes, VpcDb

(* No asset comes to hold an entry of the index, or changes its VPC.        *)
LEMMA ClaimsStay ==
  ASSUME VpcInv, \A a \in Things : Claims(a)' => Claims(a) /\ db'.asset[a].vpc = db.asset[a].vpc
  PROVE  OneClaim'
BY DEF VpcInv, OneClaim

(* A call takes a step that writes no table: k is what it knows then.       *)
LEMMA VpcCallMoves ==
  ASSUME VpcInv, NEW c \in Jobs, NEW k \in VpcCall, UNCHANGED <<db, ui>>,
         m' = [m EXCEPT ![c] = k], ~ k.overlapped, k.todo # {} => k.op = "reapply",
         k.op \in {"checked", "promoting", "demote", "demoting"} => k.asset \in Things,
         k.op = "promoting" /\ ~ db.asset[k.asset].deleted /\ db.asset[k.asset].vpc # "" =>
            \A b \in Things \ {k.asset} : Claims(b) => db.asset[b].vpc # db.asset[k.asset].vpc,
         k.op = "demoting" =>
            /\ \A b \in k.peers : db.conn[b].by = "auto"
            /\ k.proxy # 0 => \A b \in Things : db.conn[b].by = "auto" /\ db.conn[b].proxy = k.proxy
                                                  => b \in k.peers
  PROVE  VpcInv'
<1>1. m' \in [Jobs -> VpcCall] /\ m'[c] = k /\ \A d \in Jobs \ {c} : m'[d] = m[d]
  BY VpcRows
<1>2. VpcTypes'
  BY <1>1 DEF VpcInv, VpcTypes
<1>3. VpcCalls'
  BY <1>1 DEF VpcInv, VpcCalls
<1>4. RowsUnique' /\ Routed'
  BY DEF VpcInv, RowsUnique, Routed
<1>5. DemotesComplete'
  BY <1>1 DEF VpcInv, DemotesComplete
<1>6. OneClaim'
  <2>1. ASSUME NEW a \in Things, Claims(a)'
        PROVE  Claims(a) \/ (k.op = "promoting" /\ k.asset = a)
    BY <1>1, <2>1 DEF Claims
  <2>2. ASSUME NEW a \in Things, Claims(a)' PROVE ~ db.asset[a].deleted /\ db.asset[a].vpc # ""
    BY <2>2 DEF Claims
  <2>3. ASSUME NEW a \in Things, NEW b \in Things, Claims(a)', Claims(b)',
               db.asset[a].vpc = db.asset[b].vpc
        PROVE  a = b
    <3>1. CASE Claims(a) /\ Claims(b)
      BY <2>3, <3>1 DEF VpcInv, OneClaim
    <3>2. CASE k.op = "promoting" /\ k.asset = a
      <4>1. CASE Claims(b)
        BY <2>2, <2>3, <3>2, <4>1
      <4>2. CASE ~ Claims(b)
        BY <2>1, <2>3, <3>2, <4>2
      <4> QED
        BY <4>1, <4>2
    <3>3. CASE k.op = "promoting" /\ k.asset = b
      <4>1. CASE Claims(a)
        BY <2>2, <2>3, <3>3, <4>1
      <4>2. CASE ~ Claims(a)
        BY <2>1, <2>3, <3>3, <4>2
      <4> QED
        BY <4>1, <4>2
    <3> QED
      BY <2>1, <2>3, <3>1, <3>2, <3>3
  <2> QED
    BY <2>3 DEF OneClaim
<1> QED
  BY <1>2, <1>3, <1>4, <1>5, <1>6 DEF VpcInv

LEMMA PromoteCheckInv ==
  ASSUME VpcInv, NEW c \in Jobs, NEW a \in Things, Vpc!PromoteCheck(c, a)
  PROVE  VpcInv'
<1>1. PICK k : k = [Vpc!Idle EXCEPT !.op = "checked", !.asset = a, !.vpc = db.asset[a].vpc]
  OBVIOUS
<1>2. m' = [m EXCEPT ![c] = k] /\ UNCHANGED <<db, ui>>
  BY <1>1 DEF Vpc!PromoteCheck
<1>3. db.asset[a].vpc \in {"vpc", ""}
  BY VpcRows DEF AssetRow
<1>4. k \in VpcCall /\ k.op = "checked" /\ k.asset = a /\ ~ k.overlapped /\ k.todo = {}
  BY <1>1, <1>3 DEF Vpc!Idle, Vpc!None, Vpc!NoVpc, VpcCall
<1> QED
  BY <1>2, <1>4, VpcCallMoves

LEMMA DemoteReadInv ==
  ASSUME VpcInv, NEW c \in Jobs, NEW a \in Things, Vpc!DemoteRead(c, a)
  PROVE  VpcInv'
<1>1. PICK k : k = [Vpc!Idle EXCEPT !.op = "demote", !.asset = a]
  OBVIOUS
<1>2. m' = [m EXCEPT ![c] = k] /\ UNCHANGED <<db, ui>>
  BY <1>1 DEF Vpc!DemoteRead
<1>3. k \in VpcCall /\ k.op = "demote" /\ k.asset = a /\ ~ k.overlapped /\ k.todo = {}
  BY <1>1 DEF Vpc!Idle, Vpc!None, Vpc!NoVpc, VpcCall
<1> QED
  BY <1>2, <1>3, VpcCallMoves

LEMMA VpcFailInv ==
  ASSUME VpcInv, NEW c \in Jobs, Vpc!Fail(c)
  PROVE  VpcInv'
<1>1. m' = [m EXCEPT ![c] = Vpc!Idle] /\ UNCHANGED <<db, ui>>
  BY DEF Vpc!Fail, Vpc!Returned
<1>2. Vpc!Idle \in VpcCall /\ Vpc!Idle.op = "idle" /\ ~ Vpc!Idle.overlapped /\ Vpc!Idle.todo = {}
  BY DEF Vpc!Idle, Vpc!None, Vpc!NoVpc, VpcCall
<1> QED
  BY <1>1, <1>2, VpcCallMoves

LEMMA ReapplyListInv ==
  ASSUME VpcInv, NEW c \in Jobs, Vpc!ReapplyList(c)
  PROVE  VpcInv'
<1>1. PICK ts : ts = {t \in Things \X ProxyRows : /\ db.asset[t[1]].proxy /\ ~ db.asset[t[1]].deleted
                                                  /\ db.proxy[t[2]] = [src |-> t[1], live |-> TRUE]}
  OBVIOUS
<1>2. PICK td : td = {<<t[1], t[2], db.asset[t[1]].vpc>> : t \in ts}
  OBVIOUS
<1>3. PICK k : k = [Vpc!Idle EXCEPT !.op = "reapply", !.todo = td]
  OBVIOUS
<1>4. m' = [m EXCEPT ![c] = k] /\ UNCHANGED <<db, ui>>
  BY <1>1, <1>2, <1>3 DEF Vpc!ReapplyList, ProxyRows
<1>5. td \subseteq Things \X ProxyRows \X {"vpc", ""}
  <2>1. \A a \in Things : db.asset[a].vpc \in {"vpc", ""}
    BY VpcRows DEF AssetRow
  <2>2. \A t \in ts : t[1] \in Things /\ t[2] \in ProxyRows
    BY <1>1
  <2>3. ASSUME NEW x \in td PROVE x \in Things \X ProxyRows \X {"vpc", ""}
    <3>1. PICK t \in ts : x = <<t[1], t[2], db.asset[t[1]].vpc>>
      BY <1>2
    <3> QED
      BY <2>1, <2>2, <3>1
  <2> QED
    BY <2>3
<1>6. k \in VpcCall /\ k.op = "reapply" /\ ~ k.overlapped
  BY <1>3, <1>5 DEF Vpc!Idle, Vpc!None, Vpc!NoVpc, VpcCall
<1> QED
  BY <1>4, <1>6, VpcCallMoves

(* The unique index admits a promotion only when no other asset of the VPC  *)
(* has its entry: the check of Promote is not relied on.                    *)
LEMMA PromoteBeginInv ==
  ASSUME VpcInv, NEW c \in Jobs, Vpc!PromoteBegin(c)
  PROVE  VpcInv'
<1>1. PICK a : a = m[c].asset
  OBVIOUS
<1>2. PICK k : k = [m[c] EXCEPT !.op = "promoting"]
  OBVIOUS
<1>3. /\ m[c].op = "checked" /\ m' = [m EXCEPT ![c] = k] /\ UNCHANGED <<db, ui>>
      /\ Vpc!indexAdmits(db.asset[a].vpc, a)
  BY <1>1, <1>2 DEF Vpc!PromoteBegin
<1>4. a \in Things /\ ~ m[c].overlapped /\ m[c].todo = {}
  BY <1>1, <1>3 DEF VpcInv, VpcCalls
<1>5. k \in VpcCall /\ k.op = "promoting" /\ k.asset = a /\ ~ k.overlapped /\ k.todo = {}
  <2>1. m[c] \in VpcCall
    BY VpcRows
  <2> QED
    BY <1>1, <1>2, <1>4, <2>1 DEF VpcCall
<1>6. ASSUME ~ db.asset[a].deleted, db.asset[a].vpc # "", NEW b \in Things \ {a}, Claims(b)
      PROVE  db.asset[b].vpc # db.asset[a].vpc
  <2>1. /\ Vpc!promoted(db.asset[a].vpc, a) = {}
        /\ \A d \in Jobs : m[d].op = "promoting" => db.asset[m[d].asset].vpc # db.asset[a].vpc
    BY <1>3, <1>6 DEF Vpc!indexAdmits, Vpc!NoVpc
  <2> QED
    BY <1>6, <2>1 DEF Vpc!promoted, Claims
<1> QED
  BY <1>3, <1>4, <1>5, <1>6, VpcCallMoves

LEMMA DemotePeersInv ==
  ASSUME VpcInv, NEW c \in Jobs, Vpc!DemotePeers(c)
  PROVE  VpcInv'
<1>1. PICK ps : ps = {p \in Vpc!rowsOf(m[c].asset) : db.proxy[p].live}
  OBVIOUS
<1>2. PICK p \in IF ps = {} THEN {0} ELSE ps :
             m' = [m EXCEPT ![c].op = "demoting", ![c].proxy = p,
                            ![c].peers = {b \in Things : p # 0 /\ db.conn[b] = [by |-> "auto", proxy |-> p]}]
  BY <1>1 DEF Vpc!DemotePeers
<1>3. PICK bs : bs = {b \in Things : p # 0 /\ db.conn[b] = [by |-> "auto", proxy |-> p]}
  OBVIOUS
<1>4. m[c].op = "demote" /\ UNCHANGED <<db, ui>>
  BY DEF Vpc!DemotePeers
<1>5. /\ m[c] \in VpcCall /\ m[c].asset \in Things /\ ~ m[c].overlapped /\ m[c].todo = {}
      /\ m \in [Jobs -> VpcCall]
  BY <1>4, VpcRows DEF VpcInv, VpcCalls
<1>6. p \in ProxyRows \cup {0}
  BY <1>1, <1>2 DEF Vpc!rowsOf, ProxyRows
<1>7. PICK k1, k2, k : /\ k1 = [m[c] EXCEPT !.op = "demoting"] /\ k2 = [k1 EXCEPT !.proxy = p]
                       /\ k = [k2 EXCEPT !.peers = bs]
  OBVIOUS
<1>8. k1 \in VpcCall /\ k1.op = "demoting" /\ k1.asset = m[c].asset /\ ~ k1.overlapped /\ k1.todo = {}
  BY <1>5, <1>7 DEF VpcCall
<1>9. /\ k2 \in VpcCall /\ k2.op = "demoting" /\ k2.asset = m[c].asset /\ ~ k2.overlapped /\ k2.proxy = p
      /\ k2.todo = {}
  BY <1>6, <1>7, <1>8 DEF VpcCall
<1>10. /\ k \in VpcCall /\ k.op = "demoting" /\ k.asset = m[c].asset /\ ~ k.overlapped /\ k.proxy = p
       /\ k.peers = bs /\ k.todo = {}
  <2>1. bs \in SUBSET Things
    BY <1>3
  <2> QED
    BY <1>7, <1>9, <2>1 DEF VpcCall
<1>11. m' = [m EXCEPT ![c] = k]
  <2>1. PICK m1 : m1 = [m EXCEPT ![c].op = "demoting"]
    OBVIOUS
  <2>2. PICK m2 : m2 = [m1 EXCEPT ![c].proxy = p]
    OBVIOUS
  <2>3. m' = [m2 EXCEPT ![c].peers = bs]
    BY <1>2, <1>3, <2>1, <2>2
  <2>4. m1 = [m EXCEPT ![c] = k1]
    BY <1>7, <2>1
  <2>5. m2 = [m1 EXCEPT ![c] = k2] /\ m1[c] = k1
    BY <1>5, <1>7, <2>2, <2>4
  <2>6. m' = [m2 EXCEPT ![c] = k]
    BY <1>5, <1>7, <2>3, <2>4, <2>5
  <2> QED
    BY <1>5, <2>4, <2>5, <2>6
<1>12. \A b \in bs : db.conn[b].by = "auto"
  BY <1>3
<1>13. p # 0 => \A b \in Things : db.conn[b].by = "auto" /\ db.conn[b].proxy = p => b \in bs
  <2> SUFFICES ASSUME p # 0, NEW b \in Things, db.conn[b].by = "auto", db.conn[b].proxy = p
               PROVE  db.conn[b] = [by |-> "auto", proxy |-> p]
    BY <1>3
  <2>1. db.conn[b] \in ConnRow
    BY VpcRows
  <2> QED
    BY <2>1 DEF ConnRow
<1> QED
  BY <1>4, <1>5, <1>10, <1>11, <1>12, <1>13, VpcCallMoves

(* What a commit may do to the calls: nothing that is locked is let go but  *)
(* by the call itself, and a mark of an overlap stays.                      *)
CallsGoOn ==
  /\ m' \in [Jobs -> VpcCall] /\ VpcCalls'
  /\ \A d \in Jobs : m'[d].op \in {"promoting", "demoting"} =>
        /\ m[d].op = m'[d].op /\ m[d].asset = m'[d].asset /\ m[d].peers = m'[d].peers
        /\ m[d].proxy = m'[d].proxy /\ (m[d].overlapped => m'[d].overlapped)

(* Demotes whose proxy gets new peers are marked.                           *)
LEMMA OverlappedCalls ==
  ASSUME VpcInv, NEW c \in Jobs, NEW p \in ProxyRows, NEW cs \in [Jobs -> VpcCall],
         \A d \in Jobs \ {c} : cs[d] = m[d], ~ cs[c].overlapped,
         cs[c].op = "reapply" \/ (cs[c].op = "idle" /\ cs[c].todo = {}),
         m' = Vpc!Overlapped(cs, p)
  PROVE  /\ CallsGoOn
         /\ \A d \in Jobs : m'[d].op = "demoting" /\ m'[d].proxy = p => m'[d].overlapped
<1>1. cs \in [Jobs -> VpcCall] /\ \A d \in Jobs \ {c} : cs[d] = m[d]
  OBVIOUS
<1>2. m' = [d \in Jobs |-> IF cs[d].op = "demoting" /\ cs[d].proxy = p
                           THEN [cs[d] EXCEPT !.overlapped = TRUE] ELSE cs[d]]
  BY DEF Vpc!Overlapped
<1>3. ASSUME NEW d \in Jobs
      PROVE  /\ m'[d] \in VpcCall /\ m'[d].op = cs[d].op /\ m'[d].asset = cs[d].asset
             /\ m'[d].peers = cs[d].peers /\ m'[d].proxy = cs[d].proxy /\ m'[d].todo = cs[d].todo
             /\ cs[d].overlapped => m'[d].overlapped
             /\ m'[d].overlapped => cs[d].overlapped \/ (cs[d].op = "demoting" /\ cs[d].proxy = p)
             /\ cs[d].op = "demoting" /\ cs[d].proxy = p => m'[d].overlapped
  <2>1. cs[d] \in VpcCall
    BY <1>1
  <2>2. CASE cs[d].op = "demoting" /\ cs[d].proxy = p
    <3>1. m'[d] = [cs[d] EXCEPT !.overlapped = TRUE]
      BY <1>2, <2>2
    <3>2. /\ m'[d] \in VpcCall /\ m'[d].op = cs[d].op /\ m'[d].asset = cs[d].asset
          /\ m'[d].peers = cs[d].peers /\ m'[d].proxy = cs[d].proxy /\ m'[d].todo = cs[d].todo
      BY <2>1, <3>1 DEF VpcCall
    <3>3. m'[d].overlapped
      BY <2>1, <3>1 DEF VpcCall
    <3> QED
      BY <2>2, <3>2, <3>3
  <2>3. CASE ~ (cs[d].op = "demoting" /\ cs[d].proxy = p)
    <3>1. m'[d] = cs[d]
      BY <1>2, <2>3
    <3> QED
      BY <2>1, <2>3, <3>1
  <2> QED
    BY <2>2, <2>3
<1>4. m' \in [Jobs -> VpcCall]
  BY <1>2, <1>3
<1>5. p # 0
  BY BoundsAssumption DEF ProxyRows
<1>6. VpcCalls'
  <2> SUFFICES ASSUME NEW d \in Jobs
               PROVE  /\ m'[d].op \in {"checked", "promoting", "demote", "demoting"} => m'[d].asset \in Things
                      /\ m'[d].overlapped => m'[d].op = "demoting" /\ m'[d].proxy # 0
                      /\ m'[d].todo # {} => m'[d].op = "reapply"
    BY DEF VpcCalls
  <2>1. CASE d = c
    BY <1>1, <1>3, <2>1
  <2>2. CASE d # c
    <3>1. cs[d] = m[d]
      BY <1>1, <2>2
    <3>2. /\ m'[d].op = m[d].op /\ m'[d].asset = m[d].asset /\ m'[d].proxy = m[d].proxy
          /\ m'[d].todo = m[d].todo
      BY <1>3, <3>1
    <3>3. m'[d].overlapped => m[d].overlapped \/ (m[d].op = "demoting" /\ m[d].proxy = p)
      <4>1. m'[d].overlapped => cs[d].overlapped \/ (cs[d].op = "demoting" /\ cs[d].proxy = p)
        BY <1>3
      <4> QED
        BY <3>1, <4>1
    <3>4. /\ m[d].op \in {"checked", "promoting", "demote", "demoting"} => m[d].asset \in Things
          /\ m[d].overlapped => m[d].op = "demoting" /\ m[d].proxy # 0
          /\ m[d].todo # {} => m[d].op = "reapply"
      BY DEF VpcInv, VpcCalls
    <3> QED
      BY <1>5, <3>2, <3>3, <3>4
  <2> QED
    BY <2>1, <2>2
<1>7. CallsGoOn
  BY <1>1, <1>3, <1>4, <1>6 DEF CallsGoOn
<1> QED
  BY <1>3, <1>7

(* The connections that a commit writes are locked by no Demote, so a       *)
(* Demote under way still has the peers of its proxy, or is marked.         *)
LEMMA WrittenConnections ==
  ASSUME VpcInv, NEW bs, ~ Vpc!connLocked(bs), CallsGoOn,
         \A b \in Things \ bs : db'.conn[b] = db.conn[b],
         \A b \in bs \cap Things, d \in Jobs :
            /\ db'.conn[b].by = "auto" /\ db'.conn[b].proxy # 0
            /\ m'[d].op = "demoting" /\ m'[d].proxy = db'.conn[b].proxy
            => m'[d].overlapped
  PROVE  DemotesComplete'
<1> SUFFICES ASSUME NEW d \in Jobs, m'[d].op = "demoting"
             PROVE  /\ \A b \in m'[d].peers : db'.conn[b].by = "auto"
                    /\ ~ m'[d].overlapped /\ m'[d].proxy # 0 =>
                          \A b \in Things : db'.conn[b].by = "auto" /\ db'.conn[b].proxy = m'[d].proxy
                                              => b \in m'[d].peers
  BY DEF DemotesComplete
<1>1. /\ m[d].op = "demoting" /\ m[d].peers = m'[d].peers /\ m[d].proxy = m'[d].proxy
      /\ m[d].overlapped => m'[d].overlapped
  BY DEF CallsGoOn
<1>2. m[d].peers \cap bs = {} /\ m[d].peers \subseteq Things
  BY <1>1, VpcRows DEF Vpc!connLocked, VpcCall
<1>3. \A b \in m[d].peers : db'.conn[b] = db.conn[b] /\ db.conn[b].by = "auto"
  BY <1>1, <1>2 DEF VpcInv, DemotesComplete
<1>4. ASSUME ~ m'[d].overlapped, m'[d].proxy # 0, NEW b \in Things,
             db'.conn[b].by = "auto", db'.conn[b].proxy = m'[d].proxy
      PROVE  b \in m[d].peers
  <2>1. b \notin bs
    BY <1>4
  <2>2. db'.conn[b] = db.conn[b]
    BY <2>1
  <2> QED
    BY <1>1, <1>4, <2>2 DEF VpcInv, DemotesComplete
<1> QED
  BY <1>1, <1>3, <1>4

(* The peers of a proxy are routed through it.                              *)
LEMMA Propagated ==
  ASSUME VpcInv, NEW conn \in [Things -> ConnRow], NEW vpc, NEW a, NEW p \in ProxyRows, NEW g,
         g = Vpc!propagateProxyToVPCPeers(conn, vpc, a, p)
  PROVE  /\ g \in [Things -> ConnRow]
         /\ Vpc!peers(vpc, a) \subseteq Things
         /\ \A b \in Vpc!peers(vpc, a) : g[b].by = "auto" /\ g[b].proxy = p /\ db.conn[b].by # "user"
         /\ \A b \in Things \ Vpc!peers(vpc, a) : g[b] = conn[b]
<1>1. [by |-> "auto", proxy |-> p] \in ConnRow
  BY DEF ConnRow
<1>2. Vpc!peers(vpc, a) \subseteq Things /\ \A b \in Vpc!peers(vpc, a) : db.conn[b].by # "user"
  BY DEF Vpc!peers
<1>3. g = [b \in Things |-> IF b \in Vpc!peers(vpc, a) THEN [by |-> "auto", proxy |-> p] ELSE conn[b]]
  BY DEF Vpc!propagateProxyToVPCPeers
<1> QED
  BY <1>1, <1>2, <1>3

(* What a commit of Promote writes.                                         *)
LEMMA PromoteCommitRows ==
  ASSUME VpcInv, NEW c \in Jobs, Vpc!PromoteCommit(c)
  PROVE  \E a \in Things, p \in ProxyRows, bs \in SUBSET Things :
            /\ m[c].op = "promoting" /\ m[c].asset = a /\ Vpc!upsertProxyForAsset(a, p)
            /\ db' \in VpcDb /\ ui' = ui \ {p} /\ CallsGoOn /\ m'[c].op = "idle"
            /\ \A d \in Jobs : m'[d].op = "demoting" /\ m'[d].proxy = p => m'[d].overlapped
            /\ \A x \in Things \ {a} : db'.asset[x] = db.asset[x]
            /\ db'.asset[a].vpc = db.asset[a].vpc /\ db'.asset[a].deleted = db.asset[a].deleted
            /\ db'.proxy[p].src = a /\ db'.proxy[p].live
            /\ \A q \in ProxyRows \ {p} : db'.proxy[q] = db.proxy[q]
            /\ ~ Vpc!connLocked(bs)
            /\ \A b \in Things \ bs : db'.conn[b] = db.conn[b]
            /\ \A b \in bs : \/ db'.conn[b] = db.conn[b] /\ db.conn[b].by = "user"
                             \/ db.conn[b].by # "user" /\ db'.conn[b].by = "auto" /\ db'.conn[b].proxy \in {0, p}
<1>1. PICK a, vpc : a = m[c].asset /\ vpc = m[c].vpc
  OBVIOUS
<1>2. PICK bs : bs = Vpc!peers(vpc, a) \cup {a}
  OBVIOUS
<1>3. PICK p \in ProxyRows :
           /\ Vpc!upsertProxyForAsset(a, p)
           /\ db' = [asset |-> [db.asset EXCEPT ![a].proxy = TRUE],
                     proxy |-> [db.proxy EXCEPT ![p] = [src |-> a, live |-> TRUE]],
                     conn  |-> Vpc!propagateProxyToVPCPeers(Vpc!ensureProxyAssetConnection(a), vpc, a, p)]
           /\ m' = Vpc!Overlapped(Vpc!Returned(c), p)
           /\ ui' = ui \ {p}
  BY <1>1 DEF Vpc!PromoteCommit, ProxyRows
<1>4. m[c].op = "promoting" /\ ~ Vpc!connLocked(bs)
  BY <1>1, <1>2 DEF Vpc!PromoteCommit
<1>5. a \in Things
  BY <1>1, <1>4 DEF VpcInv, VpcCalls
<1>6. CallsGoOn /\ \A d \in Jobs : m'[d].op = "demoting" /\ m'[d].proxy = p => m'[d].overlapped
  <2>1. Vpc!Idle \in VpcCall /\ Vpc!Idle.op = "idle" /\ ~ Vpc!Idle.overlapped /\ Vpc!Idle.todo = {}
    BY DEF Vpc!Idle, Vpc!None, Vpc!NoVpc, VpcCall
  <2>2. PICK cs : cs = Vpc!Returned(c)
    OBVIOUS
  <2>3. cs = [m EXCEPT ![c] = Vpc!Idle] /\ m' = Vpc!Overlapped(cs, p)
    BY <1>3, <2>2 DEF Vpc!Returned
  <2>4. cs \in [Jobs -> VpcCall] /\ cs[c] = Vpc!Idle /\ \A d \in Jobs \ {c} : cs[d] = m[d]
    BY <2>1, <2>3, VpcRows
  <2> QED
    BY <2>1, <2>3, <2>4, OverlappedCalls
<1>7. m'[c].op = "idle"
  <2>1. Vpc!Returned(c)[c].op = "idle"
    BY VpcRows DEF Vpc!Returned, Vpc!Idle
  <2> QED
    BY <1>3, <2>1 DEF Vpc!Overlapped
<1>8. PICK as, ps, e, g : /\ as = [db.asset EXCEPT ![a].proxy = TRUE]
                          /\ ps = [db.proxy EXCEPT ![p] = [src |-> a, live |-> TRUE]]
                          /\ e = Vpc!ensureProxyAssetConnection(a)
                          /\ g = Vpc!propagateProxyToVPCPeers(e, vpc, a, p)
  OBVIOUS
<1>9. /\ as \in [Things -> AssetRow] /\ \A x \in Things \ {a} : as[x] = db.asset[x]
      /\ as[a].vpc = db.asset[a].vpc /\ as[a].deleted = db.asset[a].deleted
  <2>1. PICK k : k = [db.asset[a] EXCEPT !.proxy = TRUE]
    OBVIOUS
  <2>2. k \in AssetRow /\ k.vpc = db.asset[a].vpc /\ k.deleted = db.asset[a].deleted
    BY <1>5, <2>1, VpcRows DEF AssetRow
  <2>3. as = [db.asset EXCEPT ![a] = k]
    BY <1>8, <2>1
  <2> QED
    BY <1>5, <2>2, <2>3, VpcRows
<1>10. /\ ps \in [ProxyRows -> ProxyRow] /\ \A q \in ProxyRows \ {p} : ps[q] = db.proxy[q]
       /\ ps[p].src = a /\ ps[p].live
  <2>1. PICK k : k = [src |-> a, live |-> TRUE]
    OBVIOUS
  <2>2. k \in ProxyRow /\ k.src = a /\ k.live
    BY <1>5, <2>1 DEF ProxyRow
  <2>3. ps = [db.proxy EXCEPT ![p] = k]
    BY <1>8, <2>1
  <2> QED
    BY <2>2, <2>3, VpcRows
<1>11. /\ e \in [Things -> ConnRow] /\ \A b \in Things \ {a} : e[b] = db.conn[b]
       /\ \/ e[a] = db.conn[a] /\ db.conn[a].by = "user"
          \/ db.conn[a].by # "user" /\ e[a].by = "auto" /\ e[a].proxy = 0
  <2>1. CASE db.conn[a].by = "user"
    BY <1>5, <1>8, <2>1, VpcRows DEF Vpc!ensureProxyAssetConnection
  <2>2. CASE db.conn[a].by # "user"
    <3>1. PICK k : k = [by |-> "auto", proxy |-> 0]
      OBVIOUS
    <3>2. k \in ConnRow /\ k.by = "auto" /\ k.proxy = 0
      BY <3>1 DEF ConnRow
    <3>3. e = [db.conn EXCEPT ![a] = k]
      BY <1>8, <2>2, <3>1 DEF Vpc!ensureProxyAssetConnection
    <3> QED
      BY <1>5, <2>2, <3>2, <3>3, VpcRows
  <2> QED
    BY <2>1, <2>2
<1>12. /\ g \in [Things -> ConnRow] /\ Vpc!peers(vpc, a) \subseteq Things
       /\ \A b \in Vpc!peers(vpc, a) : g[b].by = "auto" /\ g[b].proxy = p /\ db.conn[b].by # "user"
       /\ \A b \in Things \ Vpc!peers(vpc, a) : g[b] = e[b]
  BY <1>8, <1>11, Propagated
<1>13. db' = [asset |-> as, proxy |-> ps, conn |-> g]
  BY <1>3, <1>8
<1>14. db' \in VpcDb /\ db'.asset = as /\ db'.proxy = ps /\ db'.conn = g
  BY <1>9, <1>10, <1>12, <1>13 DEF VpcDb
<1>15. bs \in SUBSET Things
  BY <1>2, <1>5, <1>12
<1>16. /\ \A b \in Things \ bs : db'.conn[b] = db.conn[b]
       /\ \A b \in bs : \/ db'.conn[b] = db.conn[b] /\ db.conn[b].by = "user"
                        \/ db.conn[b].by # "user" /\ db'.conn[b].by = "auto" /\ db'.conn[b].proxy \in {0, p}
  BY <1>2, <1>5, <1>11, <1>12, <1>14
<1>17. /\ \A x \in Things \ {a} : db'.asset[x] = db.asset[x]
       /\ db'.asset[a].vpc = db.asset[a].vpc /\ db'.asset[a].deleted = db.asset[a].deleted
  BY <1>9, <1>14
<1>18. /\ db'.proxy[p].src = a /\ db'.proxy[p].live
       /\ \A q \in ProxyRows \ {p} : db'.proxy[q] = db.proxy[q]
  BY <1>10, <1>14
<1>19. /\ m[c].op = "promoting" /\ m[c].asset = a /\ Vpc!upsertProxyForAsset(a, p)
       /\ db' \in VpcDb /\ ui' = ui \ {p}
  BY <1>1, <1>3, <1>4, <1>14
<1> QED
  BY <1>4, <1>5, <1>6, <1>7, <1>15, <1>16, <1>17, <1>18, <1>19, Zenon

LEMMA PromoteCommitInv ==
  ASSUME VpcInv, NEW c \in Jobs, Vpc!PromoteCommit(c)
  PROVE  VpcInv'
<1>1. PICK a \in Things, p \in ProxyRows, bs \in SUBSET Things :
            /\ m[c].op = "promoting" /\ m[c].asset = a /\ Vpc!upsertProxyForAsset(a, p)
            /\ db' \in VpcDb /\ ui' = ui \ {p} /\ CallsGoOn /\ m'[c].op = "idle"
            /\ \A d \in Jobs : m'[d].op = "demoting" /\ m'[d].proxy = p => m'[d].overlapped
            /\ \A x \in Things \ {a} : db'.asset[x] = db.asset[x]
            /\ db'.asset[a].vpc = db.asset[a].vpc /\ db'.asset[a].deleted = db.asset[a].deleted
            /\ db'.proxy[p].src = a /\ db'.proxy[p].live
            /\ \A q \in ProxyRows \ {p} : db'.proxy[q] = db.proxy[q]
            /\ ~ Vpc!connLocked(bs)
            /\ \A b \in Things \ bs : db'.conn[b] = db.conn[b]
            /\ \A b \in bs : \/ db'.conn[b] = db.conn[b] /\ db.conn[b].by = "user"
                             \/ db.conn[b].by # "user" /\ db'.conn[b].by = "auto" /\ db'.conn[b].proxy \in {0, p}
  BY PromoteCommitRows
<1>2. VpcTypes' /\ VpcCalls'
  BY <1>1, VpcRows DEF VpcTypes, CallsGoOn
<1>3. OneClaim'
  <2>1. ASSUME NEW x \in Things, Claims(x)' PROVE Claims(x) /\ db'.asset[x].vpc = db.asset[x].vpc
    <3>1. /\ ~ db'.asset[x].deleted /\ db'.asset[x].vpc # ""
          /\ db'.asset[x].proxy \/ \E d \in Jobs : m'[d].op = "promoting" /\ m'[d].asset = x
      BY <2>1 DEF Claims
    <3>2. \A d \in Jobs : m'[d].op = "promoting" => m[d].op = "promoting" /\ m[d].asset = m'[d].asset
      BY <1>1 DEF CallsGoOn
    <3>3. CASE x = a
      BY <1>1, <3>1, <3>3 DEF Claims
    <3>4. CASE x # a
      <4>1. db'.asset[x] = db.asset[x]
        BY <1>1, <3>4
      <4>2. ~ db.asset[x].deleted /\ db.asset[x].vpc # ""
        BY <3>1, <4>1
      <4>3. db.asset[x].proxy \/ \E d \in Jobs : m[d].op = "promoting" /\ m[d].asset = x
        BY <3>1, <3>2, <4>1
      <4> QED
        BY <4>1, <4>2, <4>3 DEF Claims
    <3> QED
      BY <3>3, <3>4
  <2> QED
    BY <2>1, ClaimsStay
<1>4. RowsUnique'
  <2>1. \A q \in ProxyRows : db.proxy[q].src = a => q = p
    <3>1. CASE Vpc!rowsOf(a) # {}
      <4>1. db.proxy[p].src = a
        BY <1>1, <3>1 DEF Vpc!upsertProxyForAsset, Vpc!rowsOf
      <4> QED
        BY <4>1, NamesAssumption DEF VpcInv, RowsUnique
    <3>2. CASE Vpc!rowsOf(a) = {}
      BY <3>2 DEF Vpc!rowsOf, ProxyRows
    <3> QED
      BY <3>1, <3>2
  <2> QED
    BY <1>1, <2>1 DEF VpcInv, RowsUnique
<1>5. Routed'
  <2> SUFFICES ASSUME NEW b \in Things, db'.conn[b].by = "auto", db'.conn[b].proxy # 0
               PROVE  db'.proxy[db'.conn[b].proxy].live \/ db'.conn[b].proxy \in ui'
    BY DEF Routed
  <2>1. CASE db'.conn[b].proxy = p
    BY <1>1, <2>1
  <2>2. CASE db'.conn[b].proxy # p
    <3>1. db'.conn[b] = db.conn[b]
      BY <1>1, <2>2
    <3>2. db.conn[b].proxy \in ProxyRows
      BY <3>1, VpcRows DEF ConnRow
    <3>3. db.proxy[db.conn[b].proxy].live \/ db.conn[b].proxy \in ui
      BY <3>1 DEF VpcInv, Routed
    <3> QED
      BY <1>1, <2>2, <3>1, <3>2, <3>3
  <2> QED
    BY <2>1, <2>2
<1>6. DemotesComplete'
  <2>1. \A b \in bs \cap Things, d \in Jobs :
            /\ db'.conn[b].by = "auto" /\ db'.conn[b].proxy # 0
            /\ m'[d].op = "demoting" /\ m'[d].proxy = db'.conn[b].proxy
            => m'[d].overlapped
    BY <1>1
  <2> QED
    BY <1>1, <2>1, WrittenConnections
<1> QED
  BY <1>2, <1>3, <1>4, <1>5, <1>6 DEF VpcInv

(* What a commit of Demote writes.                                          *)
LEMMA DemoteCommitRows ==
  ASSUME VpcInv, NEW c \in Jobs, Vpc!DemoteCommit(c)
  PROVE  /\ m[c].op = "demoting" /\ m[c].asset \in Things /\ db' \in VpcDb /\ CallsGoOn /\ m'[c].op = "idle"
         /\ ui' = IF m[c].overlapped THEN ui \cup {m[c].proxy} ELSE ui
         /\ \A x \in Things : /\ db'.asset[x].proxy => db.asset[x].proxy
                              /\ db'.asset[x].vpc = db.asset[x].vpc
                              /\ db'.asset[x].deleted = db.asset[x].deleted
         /\ \A q \in ProxyRows : /\ db'.proxy[q].src = db.proxy[q].src
                                 /\ q # m[c].proxy => db'.proxy[q] = db.proxy[q]
         /\ \A b \in Things \ m[c].peers : db'.conn[b] = db.conn[b]
         /\ \A b \in m[c].peers : db'.conn[b].by = db.conn[b].by /\ db'.conn[b].proxy = 0
<1>1. PICK a, p, bs : a = m[c].asset /\ p = m[c].proxy /\ bs = m[c].peers
  OBVIOUS
<1>2. PICK as, ps, g : /\ as = [db.asset EXCEPT ![a].proxy = FALSE]
                       /\ ps = [q \in ProxyRows |-> IF q = p THEN [db.proxy[q] EXCEPT !.live = FALSE]
                                                    ELSE db.proxy[q]]
                       /\ g = Vpc!cleared(db.conn, bs)
  OBVIOUS
<1>3. /\ m[c].op = "demoting" /\ db' = [asset |-> as, proxy |-> ps, conn |-> g]
      /\ ui' = (IF m[c].overlapped THEN ui \cup {m[c].proxy} ELSE ui)
      /\ m' = [m EXCEPT ![c] = Vpc!Idle]
  BY <1>1, <1>2 DEF Vpc!DemoteCommit, Vpc!Returned, ProxyRows
<1>4. a \in Things /\ bs \subseteq Things
  BY <1>1, <1>3, VpcRows DEF VpcInv, VpcCalls, VpcCall
<1>5. /\ as \in [Things -> AssetRow] /\ \A x \in Things \ {a} : as[x] = db.asset[x]
      /\ as[a].vpc = db.asset[a].vpc /\ as[a].deleted = db.asset[a].deleted /\ ~ as[a].proxy
  <2>1. PICK k : k = [db.asset[a] EXCEPT !.proxy = FALSE]
    OBVIOUS
  <2>2. k \in AssetRow /\ k.vpc = db.asset[a].vpc /\ k.deleted = db.asset[a].deleted /\ ~ k.proxy
    BY <1>4, <2>1, VpcRows DEF AssetRow
  <2>3. as = [db.asset EXCEPT ![a] = k]
    BY <1>2, <2>1
  <2> QED
    BY <1>4, <2>2, <2>3, VpcRows
<1>6. /\ ps \in [ProxyRows -> ProxyRow]
      /\ \A q \in ProxyRows : ps[q].src = db.proxy[q].src /\ (q # p => ps[q] = db.proxy[q])
  <2>1. ASSUME NEW q \in ProxyRows
        PROVE  ps[q] \in ProxyRow /\ ps[q].src = db.proxy[q].src /\ (q # p => ps[q] = db.proxy[q])
    <3>1. db.proxy[q] \in ProxyRow
      BY VpcRows
    <3>2. CASE q = p
      <4>1. ps[q] = [db.proxy[q] EXCEPT !.live = FALSE]
        BY <1>2, <3>2
      <4> QED
        BY <3>1, <3>2, <4>1 DEF ProxyRow
    <3>3. CASE q # p
      BY <1>2, <3>1, <3>3
    <3> QED
      BY <3>2, <3>3
  <2> QED
    BY <1>2, <2>1
<1>7. /\ g \in [Things -> ConnRow] /\ \A b \in Things \ bs : g[b] = db.conn[b]
      /\ \A b \in bs : g[b].by = db.conn[b].by /\ g[b].proxy = 0
  <2>1. g = [b \in Things |-> IF b \in bs THEN [db.conn[b] EXCEPT !.proxy = 0] ELSE db.conn[b]]
    BY <1>2 DEF Vpc!cleared
  <2>2. ASSUME NEW b \in bs
        PROVE  g[b] \in ConnRow /\ g[b].by = db.conn[b].by /\ g[b].proxy = 0
    <3>1. db.conn[b] \in ConnRow /\ g[b] = [db.conn[b] EXCEPT !.proxy = 0]
      BY <1>4, <2>1, VpcRows
    <3> QED
      BY <3>1 DEF ConnRow
  <2>3. \A b \in Things \ bs : g[b] = db.conn[b] /\ g[b] \in ConnRow
    BY <2>1, VpcRows
  <2> QED
    BY <2>1, <2>2, <2>3
<1>8. db' \in VpcDb /\ db'.asset = as /\ db'.proxy = ps /\ db'.conn = g
  BY <1>3, <1>5, <1>6, <1>7 DEF VpcDb
<1>9. CallsGoOn /\ m'[c].op = "idle"
  <2>1. Vpc!Idle \in VpcCall /\ Vpc!Idle.op = "idle" /\ ~ Vpc!Idle.overlapped /\ Vpc!Idle.todo = {}
    BY DEF Vpc!Idle, Vpc!None, Vpc!NoVpc, VpcCall
  <2>2. /\ m' \in [Jobs -> VpcCall] /\ m'[c] = Vpc!Idle
        /\ \A d \in Jobs \ {c} : m'[d] = m[d]
    BY <1>3, <2>1, VpcRows
  <2>3. VpcCalls'
    BY <2>1, <2>2 DEF VpcInv, VpcCalls
  <2> QED
    BY <2>1, <2>2, <2>3 DEF CallsGoOn
<1> QED
  BY <1>1, <1>3, <1>4, <1>5, <1>6, <1>7, <1>8, <1>9

LEMMA DemoteCommitInv ==
  ASSUME VpcInv, NEW c \in Jobs, Vpc!DemoteCommit(c)
  PROVE  VpcInv'
<1>1. PICK p, bs : p = m[c].proxy /\ bs = m[c].peers
  OBVIOUS
<1>2. /\ m[c].op = "demoting" /\ m[c].asset \in Things /\ db' \in VpcDb /\ CallsGoOn /\ m'[c].op = "idle"
      /\ ui' = IF m[c].overlapped THEN ui \cup {p} ELSE ui
      /\ \A x \in Things : /\ db'.asset[x].proxy => db.asset[x].proxy
                           /\ db'.asset[x].vpc = db.asset[x].vpc
                           /\ db'.asset[x].deleted = db.asset[x].deleted
      /\ \A q \in ProxyRows : db'.proxy[q].src = db.proxy[q].src /\ (q # p => db'.proxy[q] = db.proxy[q])
      /\ \A b \in Things \ bs : db'.conn[b] = db.conn[b]
      /\ \A b \in bs : db'.conn[b].by = db.conn[b].by /\ db'.conn[b].proxy = 0
  BY <1>1, DemoteCommitRows
<1>3. p \in ProxyRows \cup {0} /\ bs \subseteq Things /\ (m[c].overlapped => p # 0) /\ m[c].overlapped \in BOOLEAN
  BY <1>1, VpcRows DEF VpcInv, VpcCalls, VpcCall
<1>4. VpcTypes' /\ VpcCalls'
  <2>1. ui' \subseteq ProxyRows
    BY <1>2, <1>3, VpcRows
  <2> QED
    BY <1>2, <2>1 DEF VpcTypes, CallsGoOn
<1>5. OneClaim'
  <2>1. \A d \in Jobs : m'[d].op = "promoting" => m[d].op = "promoting" /\ m[d].asset = m'[d].asset
    BY <1>2 DEF CallsGoOn
  <2>2. ASSUME NEW x \in Things, Claims(x)' PROVE Claims(x) /\ db'.asset[x].vpc = db.asset[x].vpc
    <3>1. /\ ~ db'.asset[x].deleted /\ db'.asset[x].vpc # ""
          /\ db'.asset[x].proxy \/ \E d \in Jobs : m'[d].op = "promoting" /\ m'[d].asset = x
      BY <2>2 DEF Claims
    <3>2. /\ db'.asset[x].proxy => db.asset[x].proxy
          /\ db'.asset[x].vpc = db.asset[x].vpc /\ db'.asset[x].deleted = db.asset[x].deleted
      BY <1>2
    <3>3. db.asset[x].proxy \/ \E d \in Jobs : m[d].op = "promoting" /\ m[d].asset = x
      BY <2>1, <3>1, <3>2
    <3> QED
      BY <3>1, <3>2, <3>3 DEF Claims
  <2> QED
    BY <2>2, ClaimsStay
<1>6. RowsUnique'
  BY <1>2 DEF VpcInv, RowsUnique
<1>7. Routed'
  <2> SUFFICES ASSUME NEW b \in Things, db'.conn[b].by = "auto", db'.conn[b].proxy # 0
               PROVE  db'.proxy[db'.conn[b].proxy].live \/ db'.conn[b].proxy \in ui'
    BY DEF Routed
  <2>1. b \notin bs /\ db'.conn[b] = db.conn[b]
    BY <1>2
  <2>2. db.conn[b].proxy \in ProxyRows
    BY <2>1, VpcRows DEF ConnRow
  <2>3. db.proxy[db.conn[b].proxy].live \/ db.conn[b].proxy \in ui
    BY <2>1 DEF VpcInv, Routed
  <2>4. CASE db.conn[b].proxy = p
    <3>1. m[c].overlapped
      BY <1>1, <1>2, <2>1, <2>4 DEF VpcInv, DemotesComplete
    <3> QED
      BY <1>2, <2>1, <2>4, <3>1
  <2>5. CASE db.conn[b].proxy # p
    BY <1>2, <1>3, <2>1, <2>2, <2>3, <2>5
  <2> QED
    BY <2>4, <2>5
<1>8. DemotesComplete'
  <2> SUFFICES ASSUME NEW d \in Jobs, m'[d].op = "demoting"
               PROVE  /\ \A b \in m'[d].peers : db'.conn[b].by = "auto"
                      /\ ~ m'[d].overlapped /\ m'[d].proxy # 0 =>
                            \A b \in Things : db'.conn[b].by = "auto" /\ db'.conn[b].proxy = m'[d].proxy
                                                => b \in m'[d].peers
    BY DEF DemotesComplete
  <2>1. /\ m[d].op = "demoting" /\ m[d].peers = m'[d].peers /\ m[d].proxy = m'[d].proxy
        /\ m[d].overlapped => m'[d].overlapped
    BY <1>2 DEF CallsGoOn
  <2>2. m[d].peers \subseteq Things /\ \A b \in m[d].peers : db.conn[b].by = "auto"
    BY <2>1, VpcRows DEF VpcInv, DemotesComplete, VpcCall
  <2>3. \A b \in m'[d].peers : db'.conn[b].by = "auto"
    BY <1>2, <2>1, <2>2
  <2>4. ASSUME ~ m'[d].overlapped, m'[d].proxy # 0, NEW b \in Things,
               db'.conn[b].by = "auto", db'.conn[b].proxy = m'[d].proxy
        PROVE  b \in m[d].peers
    <3>1. db'.conn[b] = db.conn[b]
      BY <1>2, <2>4
    <3> QED
      BY <2>1, <2>4, <3>1 DEF VpcInv, DemotesComplete
  <2> QED
    BY <2>1, <2>3, <2>4
<1> QED
  BY <1>4, <1>5, <1>6, <1>7, <1>8 DEF VpcInv

(* What one transaction of ReapplyPropagation writes.                       *)
LEMMA ReapplyRows ==
  ASSUME VpcInv, NEW c \in Jobs, Vpc!ReapplyPropagation(c)
  PROVE  \E p \in ProxyRows, bs \in SUBSET Things :
            /\ db' \in VpcDb /\ db'.asset = db.asset /\ db'.proxy = db.proxy /\ CallsGoOn
            /\ ui' = IF db.proxy[p].live THEN ui ELSE ui \cup {p}
            /\ \A d \in Jobs : m'[d].op = "demoting" /\ m'[d].proxy = p => m'[d].overlapped
            /\ ~ Vpc!connLocked(bs)
            /\ \A b \in Things \ bs : db'.conn[b] = db.conn[b]
            /\ \A b \in bs : db.conn[b].by # "user" /\ db'.conn[b].by = "auto" /\ db'.conn[b].proxy = p
<1>1. PICK t \in m[c].todo :
        /\ ~ Vpc!connLocked(Vpc!peers(t[3], t[1]))
        /\ db' = [db EXCEPT !.conn = Vpc!propagateProxyToVPCPeers(@, t[3], t[1], t[2])]
        /\ ui' = IF db.proxy[t[2]].live THEN ui ELSE ui \cup {t[2]}
        /\ m' = Vpc!Overlapped(IF m[c].todo = {t} THEN Vpc!Returned(c)
                               ELSE [m EXCEPT ![c].todo = @ \ {t}], t[2])
  BY DEF Vpc!ReapplyPropagation
<1>2. m[c] \in VpcCall /\ m[c].todo \subseteq Things \X ProxyRows \X {"vpc", ""}
  BY VpcRows DEF VpcCall
<1>3. PICK a, p, vpc : a = t[1] /\ p = t[2] /\ vpc = t[3]
  OBVIOUS
<1>4. p \in ProxyRows
  BY <1>2, <1>3
<1>5. PICK g, bs : g = Vpc!propagateProxyToVPCPeers(db.conn, vpc, a, p) /\ bs = Vpc!peers(vpc, a)
  OBVIOUS
<1>6. /\ g \in [Things -> ConnRow] /\ bs \subseteq Things
      /\ \A b \in bs : g[b].by = "auto" /\ g[b].proxy = p /\ db.conn[b].by # "user"
      /\ \A b \in Things \ bs : g[b] = db.conn[b]
  <2>1. db.conn \in [Things -> ConnRow]
    BY VpcRows
  <2> QED
    BY <1>4, <1>5, <2>1, Propagated
<1>7. db' = [db EXCEPT !.conn = g]
  <2>1. db' = [db EXCEPT !.conn = Vpc!propagateProxyToVPCPeers(db.conn, t[3], t[1], t[2])]
    BY <1>1, VpcRows DEF VpcDb
  <2> QED
    BY <1>3, <1>5, <2>1
<1>8. db' \in VpcDb /\ db'.asset = db.asset /\ db'.proxy = db.proxy /\ db'.conn = g
  BY <1>6, <1>7, VpcRows DEF VpcDb
<1>9. PICK cs : cs = IF m[c].todo = {t} THEN Vpc!Returned(c) ELSE [m EXCEPT ![c].todo = @ \ {t}]
  OBVIOUS
<1>10. m' = Vpc!Overlapped(cs, p)
  BY <1>1, <1>3, <1>9
<1>11. CallsGoOn /\ \A d \in Jobs : m'[d].op = "demoting" /\ m'[d].proxy = p => m'[d].overlapped
  <2>1. m[c].op = "reapply" /\ ~ m[c].overlapped
    BY <1>1 DEF VpcInv, VpcCalls
  <2>2. PICK k \in VpcCall : /\ cs = [m EXCEPT ![c] = k] /\ ~ k.overlapped
                             /\ k.op = "reapply" \/ (k.op = "idle" /\ k.todo = {})
    <3>1. CASE m[c].todo = {t}
      <4>1. Vpc!Idle \in VpcCall /\ Vpc!Idle.op = "idle" /\ ~ Vpc!Idle.overlapped /\ Vpc!Idle.todo = {}
        BY DEF Vpc!Idle, Vpc!None, Vpc!NoVpc, VpcCall
      <4>2. cs = [m EXCEPT ![c] = Vpc!Idle]
        BY <1>9, <3>1 DEF Vpc!Returned
      <4> QED
        BY <4>1, <4>2
    <3>2. CASE m[c].todo # {t}
      <4>1. PICK k : k = [m[c] EXCEPT !.todo = m[c].todo \ {t}]
        OBVIOUS
      <4>2. k \in VpcCall /\ k.op = "reapply" /\ ~ k.overlapped
        BY <1>2, <2>1, <4>1 DEF VpcCall
      <4>3. cs = [m EXCEPT ![c] = k]
        BY <1>2, <1>9, <3>2, <4>1, VpcRows DEF VpcCall
      <4> QED
        BY <4>2, <4>3
    <3> QED
      BY <3>1, <3>2
  <2>3. cs \in [Jobs -> VpcCall] /\ cs[c] = k /\ \A d \in Jobs \ {c} : cs[d] = m[d]
    BY <2>2, VpcRows
  <2>4. ~ cs[c].overlapped /\ (cs[c].op = "reapply" \/ (cs[c].op = "idle" /\ cs[c].todo = {}))
    BY <2>2, <2>3
  <2> QED
    BY <1>4, <1>10, <2>3, <2>4, OverlappedCalls
<1>12. ui' = IF db.proxy[p].live THEN ui ELSE ui \cup {p}
  BY <1>1, <1>3
<1>13. ~ Vpc!connLocked(bs)
  BY <1>1, <1>3, <1>5
<1> QED
  BY <1>4, <1>6, <1>8, <1>11, <1>12, <1>13

LEMMA ReapplyInv ==
  ASSUME VpcInv, NEW c \in Jobs, Vpc!ReapplyPropagation(c)
  PROVE  VpcInv'
<1>1. PICK p \in ProxyRows, bs \in SUBSET Things :
            /\ db' \in VpcDb /\ db'.asset = db.asset /\ db'.proxy = db.proxy /\ CallsGoOn
            /\ ui' = IF db.proxy[p].live THEN ui ELSE ui \cup {p}
            /\ \A d \in Jobs : m'[d].op = "demoting" /\ m'[d].proxy = p => m'[d].overlapped
            /\ ~ Vpc!connLocked(bs)
            /\ \A b \in Things \ bs : db'.conn[b] = db.conn[b]
            /\ \A b \in bs : db.conn[b].by # "user" /\ db'.conn[b].by = "auto" /\ db'.conn[b].proxy = p
  BY ReapplyRows
<1>2. VpcTypes' /\ VpcCalls'
  <2>1. ui' \subseteq ProxyRows
    BY <1>1, VpcRows
  <2> QED
    BY <1>1, <2>1 DEF VpcTypes, CallsGoOn
<1>3. OneClaim'
  <2>1. \A d \in Jobs : m'[d].op = "promoting" => m[d].op = "promoting" /\ m[d].asset = m'[d].asset
    BY <1>1 DEF CallsGoOn
  <2>2. \A x \in Things : Claims(x)' => Claims(x) /\ db'.asset[x].vpc = db.asset[x].vpc
    BY <1>1, <2>1 DEF Claims
  <2> QED
    BY <2>2, ClaimsStay
<1>4. RowsUnique'
  BY <1>1 DEF VpcInv, RowsUnique
<1>5. Routed'
  <2>1. \A q : q \in ui => q \in ui'
    BY <1>1
  <2>2. db.proxy[p].live \/ p \in ui'
    BY <1>1
  <2> QED
    BY <1>1, <2>1, <2>2 DEF VpcInv, Routed
<1>6. DemotesComplete'
  <2>1. \A b \in bs \cap Things, d \in Jobs :
            /\ db'.conn[b].by = "auto" /\ db'.conn[b].proxy # 0
            /\ m'[d].op = "demoting" /\ m'[d].proxy = db'.conn[b].proxy
            => m'[d].overlapped
    BY <1>1
  <2> QED
    BY <1>1, <2>1, WrittenConnections
<1> QED
  BY <1>2, <1>3, <1>4, <1>5, <1>6 DEF VpcInv

(* A user saves a connection.                                               *)
LEMMA SaveConnectionInv ==
  ASSUME VpcInv, NEW a \in Things, Vpc!UpsertAssetConnectionProfile(a)
  PROVE  /\ VpcInv' /\ m' = m /\ db'.conn[a].by = "user"
         /\ \A b \in Things \ {a} : db'.conn[b] = db.conn[b]
<1>1. PICK p \in {0} \cup ProxyRows : db' = [db EXCEPT !.conn[a] = [by |-> "user", proxy |-> p]]
  BY DEF Vpc!UpsertAssetConnectionProfile, ProxyRows
<1>2. ~ Vpc!connLocked({a}) /\ UNCHANGED <<m, ui>>
  BY DEF Vpc!UpsertAssetConnectionProfile
<1>3. PICK k : k = [by |-> "user", proxy |-> p]
  OBVIOUS
<1>4. k \in ConnRow /\ k.by = "user"
  BY <1>3 DEF ConnRow
<1>5. PICK g : g = [db.conn EXCEPT ![a] = k]
  OBVIOUS
<1>6. g \in [Things -> ConnRow] /\ g[a].by = "user" /\ \A b \in Things \ {a} : g[b] = db.conn[b]
  BY <1>4, <1>5, VpcRows
<1>7. db' = [db EXCEPT !.conn = g]
  BY <1>1, <1>3, <1>5
<1>8. db' \in VpcDb /\ db'.asset = db.asset /\ db'.proxy = db.proxy /\ db'.conn = g
  BY <1>6, <1>7, VpcRows DEF VpcDb
<1>9. VpcTypes' /\ VpcCalls' /\ RowsUnique'
  BY <1>2, <1>8 DEF VpcInv, VpcTypes, VpcCalls, RowsUnique
<1>10. OneClaim'
  BY <1>2, <1>8, ClaimsStay DEF Claims
<1>11. Routed'
  BY <1>2, <1>6, <1>8 DEF VpcInv, Routed
<1>12. DemotesComplete'
  <2>1. CallsGoOn
    BY <1>2, VpcRows DEF CallsGoOn, VpcInv, VpcCalls
  <2>2. \A b \in {a} \cap Things : db'.conn[b].by # "auto"
    BY <1>6, <1>8
  <2> QED
    BY <1>2, <1>6, <1>8, <2>1, <2>2, WrittenConnections
<1> QED
  BY <1>2, <1>6, <1>8, <1>9, <1>10, <1>11, <1>12 DEF VpcInv

(* A proxy row or an asset is deleted, or an asset leaves its VPC.          *)
LEMMA VpcDeletesInv ==
  ASSUME VpcInv, \/ \E p \in ProxyRows : Vpc!DeleteProxy(p)
                 \/ \E a \in Things : Vpc!DeleteAsset(a) \/ Vpc!UpdateAsset(a)
  PROVE  VpcInv' /\ db'.conn = db.conn
<1>1. SUFFICES ASSUME db' \in VpcDb, db'.conn = db.conn, m' = m, ui' \subseteq ProxyRows, ui \subseteq ui',
                      \A x \in Things : /\ db'.asset[x].proxy = db.asset[x].proxy
                                        /\ db'.asset[x].vpc = db.asset[x].vpc \/ db'.asset[x].vpc = ""
                                        /\ db.asset[x].deleted => db'.asset[x].deleted,
                      \A q \in ProxyRows : /\ db'.proxy[q].src = db.proxy[q].src
                                           /\ db'.proxy[q].live = db.proxy[q].live \/ q \in ui'
               PROVE  VpcInv'
  <2>1. ASSUME NEW p \in ProxyRows, Vpc!DeleteProxy(p) PROVE VpcInv' /\ db'.conn = db.conn
    <3>1. db' = [db EXCEPT !.proxy[p].live = FALSE] /\ ui' = ui \cup {p} /\ m' = m
      BY <2>1 DEF Vpc!DeleteProxy
    <3>2. PICK k : k = [db.proxy[p] EXCEPT !.live = FALSE]
      OBVIOUS
    <3>3. k \in ProxyRow /\ k.src = db.proxy[p].src
      BY <3>2, VpcRows DEF ProxyRow
    <3>4. PICK ps : ps = [db.proxy EXCEPT ![p] = k]
      OBVIOUS
    <3>5. ps \in [ProxyRows -> ProxyRow] /\ ps[p].src = db.proxy[p].src
            /\ \A q \in ProxyRows \ {p} : ps[q] = db.proxy[q]
      BY <3>3, <3>4, VpcRows
    <3>6. db' = [db EXCEPT !.proxy = ps]
      BY <3>1, <3>2, <3>4
    <3>7. db' \in VpcDb /\ db'.asset = db.asset /\ db'.proxy = ps /\ db'.conn = db.conn
      BY <3>5, <3>6, VpcRows DEF VpcDb
    <3>8. ui' \subseteq ProxyRows /\ ui \subseteq ui'
      BY <3>1, VpcRows
    <3> QED
      BY <1>1, <3>1, <3>5, <3>7, <3>8
  <2>2. ASSUME NEW a \in Things, Vpc!DeleteAsset(a) \/ Vpc!UpdateAsset(a) PROVE VpcInv' /\ db'.conn = db.conn
    <3>1. m' = m /\ ui' = ui
      BY <2>2 DEF Vpc!DeleteAsset, Vpc!UpdateAsset
    <3>2. PICK k : /\ k \in AssetRow /\ k.proxy = db.asset[a].proxy
                   /\ k.vpc = db.asset[a].vpc \/ k.vpc = ""
                   /\ db.asset[a].deleted => k.deleted
                   /\ db' = [db EXCEPT !.asset = [db.asset EXCEPT ![a] = k]]
      <4>1. db.asset[a] \in AssetRow
        BY VpcRows
      <4>2. CASE Vpc!DeleteAsset(a)
        <5>1. PICK k : k = [db.asset[a] EXCEPT !.deleted = TRUE]
          OBVIOUS
        <5>2. db' = [db EXCEPT !.asset = [db.asset EXCEPT ![a] = k]]
          BY <4>2, <5>1 DEF Vpc!DeleteAsset
        <5>3. k \in AssetRow /\ k.proxy = db.asset[a].proxy /\ k.vpc = db.asset[a].vpc /\ k.deleted
          BY <4>1, <5>1 DEF AssetRow
        <5> QED
          BY <5>2, <5>3
      <4>3. CASE Vpc!UpdateAsset(a)
        <5>1. PICK k : k = [db.asset[a] EXCEPT !.vpc = ""]
          OBVIOUS
        <5>2. db' = [db EXCEPT !.asset = [db.asset EXCEPT ![a] = k]]
          BY <4>3, <5>1 DEF Vpc!UpdateAsset, Vpc!NoVpc
        <5>3. k \in AssetRow /\ k.proxy = db.asset[a].proxy /\ k.vpc = "" /\ k.deleted = db.asset[a].deleted
          BY <4>1, <5>1 DEF AssetRow
        <5> QED
          BY <5>2, <5>3
      <4> QED
        BY <2>2, <4>2, <4>3
    <3>3. PICK as : as = [db.asset EXCEPT ![a] = k]
      OBVIOUS
    <3>4. as \in [Things -> AssetRow] /\ as[a] = k /\ \A x \in Things \ {a} : as[x] = db.asset[x]
      BY <3>2, <3>3, VpcRows
    <3>5. db' \in VpcDb /\ db'.asset = as /\ db'.proxy = db.proxy /\ db'.conn = db.conn
      BY <3>2, <3>3, <3>4, VpcRows DEF VpcDb
    <3> QED
      BY <1>1, <3>1, <3>2, <3>4, <3>5, VpcRows
  <2> QED
    BY <2>1, <2>2
<1>2. VpcTypes' /\ VpcCalls' /\ RowsUnique' /\ DemotesComplete'
  <2>1. VpcTypes' /\ VpcCalls'
    BY <1>1 DEF VpcInv, VpcTypes, VpcCalls
  <2>2. RowsUnique'
    BY <1>1 DEF VpcInv, RowsUnique
  <2>3. DemotesComplete'
    BY <1>1 DEF VpcInv, DemotesComplete
  <2> QED
    BY <2>1, <2>2, <2>3
<1>3. OneClaim'
  BY <1>1, ClaimsStay DEF Claims
<1>4. Routed'
  <2> SUFFICES ASSUME NEW b \in Things, db.conn[b].by = "auto", db.conn[b].proxy # 0
               PROVE  db'.proxy[db.conn[b].proxy].live \/ db.conn[b].proxy \in ui'
    BY <1>1 DEF Routed
  <2>1. db.conn[b].proxy \in ProxyRows
    BY VpcRows DEF ConnRow
  <2>2. db.proxy[db.conn[b].proxy].live \/ db.conn[b].proxy \in ui
    BY DEF VpcInv, Routed
  <2> QED
    BY <1>1, <2>1, <2>2
<1> QED
  BY <1>2, <1>3, <1>4 DEF VpcInv

LEMMA VpcNext == VpcInv /\ Vpc!Next => VpcInv'
<1> SUFFICES ASSUME VpcInv, Vpc!Next PROVE VpcInv'
  OBVIOUS
<1>1. ASSUME NEW c \in Jobs,
             \/ \E a \in Things : Vpc!PromoteCheck(c, a) \/ Vpc!DemoteRead(c, a)
             \/ Vpc!PromoteBegin(c) \/ Vpc!PromoteCommit(c) \/ Vpc!DemotePeers(c) \/ Vpc!DemoteCommit(c)
             \/ Vpc!ReapplyList(c) \/ Vpc!ReapplyPropagation(c) \/ Vpc!Fail(c)
      PROVE  VpcInv'
  BY <1>1, PromoteCheckInv, DemoteReadInv, PromoteBeginInv, PromoteCommitInv, DemotePeersInv,
     DemoteCommitInv, ReapplyListInv, ReapplyInv, VpcFailInv
<1>2. ASSUME NEW a \in Things, Vpc!UpsertAssetConnectionProfile(a) PROVE VpcInv'
  BY <1>2, SaveConnectionInv
<1>3. CASE \/ \E p \in ProxyRows : Vpc!DeleteProxy(p)
           \/ \E a \in Things : Vpc!DeleteAsset(a) \/ Vpc!UpdateAsset(a)
  BY <1>3, VpcDeletesInv
<1> QED
  BY <1>1, <1>2, <1>3 DEF Vpc!Next, ProxyRows

(* What the run says about the proxies.                                     *)
LEMMA VpcSafe ==
  VpcInv => Vpc!TypeOK /\ Vpc!OneProxyPerVpc /\ Vpc!StableProxyRow /\ Vpc!RoutedThroughLiveProxy
<1> SUFFICES ASSUME VpcInv
             PROVE  Vpc!TypeOK /\ Vpc!OneProxyPerVpc /\ Vpc!StableProxyRow /\ Vpc!RoutedThroughLiveProxy
  OBVIOUS
<1>1. Vpc!TypeOK
  BY VpcRows DEF Vpc!TypeOK, Vpc!Vpcs, Vpc!NoVpc, Vpc!None, AssetRow, ProxyRow, ConnRow, ProxyRows
<1>2. Vpc!OneProxyPerVpc
  BY DEF VpcInv, OneClaim, Claims, Vpc!OneProxyPerVpc, Vpc!promoted, Vpc!NoVpc
<1>3. Vpc!StableProxyRow
  <2> SUFFICES ASSUME NEW a \in Things PROVE Vpc!Cardinality(Vpc!rowsOf(a)) <= 1
    BY DEF Vpc!StableProxyRow
  <2>1. \A p, q \in Vpc!rowsOf(a) : p = q
    BY NamesAssumption DEF VpcInv, RowsUnique, Vpc!rowsOf, ProxyRows
  <2>2. Cardinality(Vpc!rowsOf(a)) <= 1
    BY <2>1, AtMostOne
  <2> QED
    BY <2>2, SameCardinality
<1>4. Vpc!RoutedThroughLiveProxy
  BY DEF VpcInv, Routed, Vpc!RoutedThroughLiveProxy
<1> QED
  BY <1>1, <1>2, <1>3, <1>4

(* A connection that a user has edited is left alone but by users.          *)
LEMMA VpcSteps == VpcInv /\ Vpc!Next => Vpc!UserRouteKept
<1> SUFFICES ASSUME VpcInv, Vpc!Next, NEW a \in Things, db.conn[a].by = "user", db'.conn[a] # db.conn[a]
             PROVE  db'.conn[a].by = "user" /\ m' = m
  BY DEF Vpc!UserRouteKept
<1>1. ASSUME NEW b \in Things, Vpc!UpsertAssetConnectionProfile(b)
      PROVE  db'.conn[a].by = "user" /\ m' = m
  BY <1>1, SaveConnectionInv
<1>2. ASSUME NEW c \in Jobs, Vpc!PromoteCommit(c) PROVE FALSE
  <2>1. PICK bs \in SUBSET Things :
            /\ \A b \in Things \ bs : db'.conn[b] = db.conn[b]
            /\ \A b \in bs : db'.conn[b] = db.conn[b] \/ db.conn[b].by # "user"
    BY <1>2, PromoteCommitRows
  <2> QED
    BY <2>1
<1>3. ASSUME NEW c \in Jobs, Vpc!ReapplyPropagation(c) PROVE FALSE
  <2>1. PICK bs \in SUBSET Things : /\ \A b \in Things \ bs : db'.conn[b] = db.conn[b]
                                    /\ \A b \in bs : db.conn[b].by # "user"
    BY <1>3, ReapplyRows
  <2> QED
    BY <2>1
<1>4. ASSUME NEW c \in Jobs, Vpc!DemoteCommit(c) PROVE FALSE
  <2>1. m[c].op = "demoting" /\ \A b \in Things \ m[c].peers : db'.conn[b] = db.conn[b]
    BY <1>4, DemoteCommitRows
  <2>2. \A b \in m[c].peers : db.conn[b].by = "auto"
    BY <2>1 DEF VpcInv, DemotesComplete
  <2> QED
    BY <2>1, <2>2
<1>5. CASE \/ \E p \in ProxyRows : Vpc!DeleteProxy(p)
           \/ \E b \in Things : Vpc!DeleteAsset(b) \/ Vpc!UpdateAsset(b)
  BY <1>5, VpcDeletesInv
<1>6. ASSUME NEW c \in Jobs,
             \/ \E b \in Things : Vpc!PromoteCheck(c, b) \/ Vpc!DemoteRead(c, b)
             \/ Vpc!PromoteBegin(c) \/ Vpc!DemotePeers(c) \/ Vpc!ReapplyList(c) \/ Vpc!Fail(c)
      PROVE  db' = db
  BY <1>6 DEF Vpc!PromoteCheck, Vpc!DemoteRead, Vpc!PromoteBegin, Vpc!DemotePeers, Vpc!ReapplyList, Vpc!Fail
<1> QED
  BY <1>1, <1>2, <1>3, <1>4, <1>5, <1>6 DEF Vpc!Next, ProxyRows

-----------------------------------------------------------------------------
(* The AWS synchronisation.                                                 *)

SyncRow == [live : BOOLEAN, observed : 0..MaxCloud, curated : 0..MaxEdits]
SyncRun == [status : {"none", "running", "success", "failed"}, lost : BOOLEAN]
SyncDb == [cloud : 1..MaxCloud, rows : [1..MaxRows -> SyncRow], used : 0..MaxRows,
           runs : [1..MaxRuns -> SyncRun]]
SyncProc == [pc : {"idle", "start", "describe", "upsert", "finish", "link"}, seen : 0..MaxCloud,
             run : 0..MaxRuns, failed : BOOLEAN, overtaken : BOOLEAN]

SyncTypes ==
  /\ db \in SyncDb /\ cache \in [{"api", "worker"} -> SyncProc]
  /\ m \in [row : 0..MaxRows, observed : 0..MaxCloud] /\ ui \in BOOLEAN
  /\ m.row = 0 => m = [row |-> 0, observed |-> 0]

Working == {"describe", "upsert", "finish"}

(* A process that works on a run has the row of one, and the API process is *)
(* idle when its Runner says so.                                            *)
SyncProcs ==
  /\ \A p \in {"api", "worker"} : cache[p].pc \in Working => cache[p].run # 0
  /\ ~ ui => cache["api"].pc = "idle"

OneLiveRow == \A r, s \in 1..MaxRows : db.rows[r].live /\ db.rows[s].live => r = s

RunsWorkedOn ==
  \A r \in 1..MaxRuns : db.runs[r].status = "running" /\ ~ db.runs[r].lost =>
     \E p \in {"api", "worker"} : cache[p].run = r /\ cache[p].pc \in Working

(* Nothing is newer than AWS, and a run that has not been overtaken is not  *)
(* older than what it is about to write over.                               *)
SeenInOrder ==
  /\ \A r \in 1..MaxRows : db.rows[r].observed <= db.cloud
  /\ m.observed <= db.cloud
  /\ \A p \in {"api", "worker"} : cache[p].seen <= db.cloud
  /\ \A p \in {"api", "worker"} : cache[p].pc = "upsert" /\ ~ cache[p].overtaken =>
        /\ \A r \in 1..MaxRows : db.rows[r].live => db.rows[r].observed <= cache[p].seen
        /\ m.row # 0 => m.observed <= cache[p].seen

SyncInv == SyncTypes /\ SyncProcs /\ OneLiveRow /\ RunsWorkedOn /\ SeenInOrder

LEMMA SyncInit == Sync!Init => SyncInv
<1> SUFFICES ASSUME Sync!Init PROVE SyncInv
  OBVIOUS
<1> USE DEF Sync!Init, Sync!NoRow, Sync!NoRun, Sync!NoEdit, Sync!Idle, Sync!Procs
<1>1. SyncTypes
  <2>1. db \in SyncDb
    BY BoundsAssumption DEF SyncDb, SyncRow, SyncRun
  <2>2. cache \in [{"api", "worker"} -> SyncProc]
    BY BoundsAssumption DEF SyncProc
  <2>3. m = [row |-> 0, observed |-> 0] /\ ui \in BOOLEAN
    BY Zenon
  <2>4. 0 \in 0..MaxRows /\ 0 \in 0..MaxCloud
    BY BoundsAssumption
  <2> HIDE DEF Sync!Init
  <2> QED
    BY <2>1, <2>2, <2>3, <2>4 DEF SyncTypes
<1>2. /\ \A r \in 1..MaxRows : ~ db.rows[r].live /\ db.rows[r].observed = 0
      /\ \A r \in 1..MaxRuns : db.runs[r].status = "none"
      /\ \A p \in {"api", "worker"} : cache[p].pc = "idle" /\ cache[p].seen = 0
      /\ db.cloud = 1 /\ m.observed = 0
  OBVIOUS
<1> QED
  BY <1>1, <1>2 DEF SyncInv, SyncProcs, Working, OneLiveRow, RunsWorkedOn, SeenInOrder

(* What is seen of AWS is counted in naturals.                              *)
LEMMA SyncNumbers ==
  ASSUME SyncInv
  PROVE  /\ db \in SyncDb /\ db.cloud \in Nat /\ m.observed \in Nat
         /\ \A r \in 1..MaxRows : db.rows[r] \in SyncRow /\ db.rows[r].observed \in Nat
         /\ \A p \in {"api", "worker"} : cache[p] \in SyncProc /\ cache[p].seen \in Nat
<1>1. 1..MaxCloud \subseteq Nat /\ 0..MaxCloud \subseteq Nat
  BY BoundsAssumption
<1>2. db \in SyncDb /\ db.rows \in [1..MaxRows -> SyncRow] /\ db.cloud \in Nat
  BY <1>1 DEF SyncInv, SyncTypes, SyncDb
<1>3. m.observed \in Nat
  BY <1>1 DEF SyncInv, SyncTypes
<1>4. \A r \in 1..MaxRows : db.rows[r] \in SyncRow /\ db.rows[r].observed \in Nat
  BY <1>1, <1>2 DEF SyncRow
<1>5. \A p \in {"api", "worker"} : cache[p] \in SyncProc /\ cache[p].seen \in Nat
  BY <1>1 DEF SyncInv, SyncTypes, SyncProc
<1> QED
  BY <1>2, <1>3, <1>4, <1>5

(* What a step does that leaves the rows of the asset alone.                *)
LEMMA RowsStayInv ==
  ASSUME SyncInv, db' \in SyncDb, db'.rows = db.rows, db'.cloud >= db.cloud, m' = m,
         cache' \in [{"api", "worker"} -> SyncProc], ui' \in BOOLEAN, SyncProcs',
         \A p \in {"api", "worker"} :
            /\ cache'[p].seen <= db'.cloud
            /\ cache'[p].pc = "upsert" =>
                 \/ cache'[p].seen = db.cloud
                 \/ /\ cache[p].pc = "upsert" /\ cache'[p].seen = cache[p].seen
                    /\ cache'[p].overtaken = cache[p].overtaken,
         RunsWorkedOn'
  PROVE  SyncInv'
<1>1. SyncTypes'
  BY DEF SyncInv, SyncTypes
<1>2. OneLiveRow'
  BY DEF SyncInv, OneLiveRow
<1>3. SeenInOrder'
  <2>1. /\ db.cloud \in Nat /\ db'.cloud \in Nat /\ m.observed \in Nat
        /\ \A r \in 1..MaxRows : db.rows[r].observed \in Nat
        /\ \A p \in {"api", "worker"} : cache[p].seen \in Nat
    BY SyncNumbers DEF SyncDb
  <2>2. /\ \A r \in 1..MaxRows : db'.rows[r].observed <= db'.cloud
        /\ m'.observed <= db'.cloud
    BY <2>1 DEF SyncInv, SeenInOrder
  <2>3. ASSUME NEW p \in {"api", "worker"}, cache'[p].pc = "upsert", ~ cache'[p].overtaken
        PROVE  /\ \A r \in 1..MaxRows : db'.rows[r].live => db'.rows[r].observed <= cache'[p].seen
               /\ m'.row # 0 => m'.observed <= cache'[p].seen
    <3>1. CASE cache'[p].seen = db.cloud
      BY <2>1, <3>1 DEF SyncInv, SeenInOrder
    <3>2. CASE /\ cache[p].pc = "upsert" /\ cache'[p].seen = cache[p].seen
               /\ cache'[p].overtaken = cache[p].overtaken
      BY <2>3, <3>2 DEF SyncInv, SeenInOrder
    <3> QED
      BY <2>3, <3>1, <3>2
  <2> QED
    BY <2>2, <2>3 DEF SeenInOrder
<1> QED
  BY <1>1, <1>2, <1>3 DEF SyncInv

(* Where the processes are when none of them moves but p.                   *)
LEMMA SyncProcMoves ==
  ASSUME SyncInv, NEW p \in {"api", "worker"}, NEW k \in SyncProc,
         cache' = [cache EXCEPT ![p] = k]
  PROVE  /\ cache' \in [{"api", "worker"} -> SyncProc] /\ cache'[p] = k
         /\ \A q \in {"api", "worker"} \ {p} : cache'[q] = cache[q]
BY DEF SyncInv, SyncTypes

LEMMA CloudChangeInv ==
  ASSUME SyncInv, Sync!CloudChange
  PROVE  SyncInv'
<1>1. db.cloud < MaxCloud /\ db' = [db EXCEPT !.cloud = @ + 1] /\ UNCHANGED <<cache, m, ui>>
  BY DEF Sync!CloudChange
<1>2. /\ db' \in SyncDb /\ db'.rows = db.rows /\ db'.runs = db.runs /\ db'.cloud = db.cloud + 1
      /\ db.cloud \in Nat
  <2>1. db \in SyncDb /\ db.cloud \in Nat
    BY SyncNumbers
  <2>2. db.cloud + 1 \in 1..MaxCloud
    BY <1>1, <2>1, BoundsAssumption
  <2>3. PICK n : n = db.cloud + 1
    OBVIOUS
  <2>4. db' = [db EXCEPT !.cloud = n] /\ n \in 1..MaxCloud
    BY <1>1, <2>2, <2>3
  <2> QED
    BY <2>1, <2>3, <2>4 DEF SyncDb
<1>3. SyncProcs' /\ RunsWorkedOn'
  BY <1>1, <1>2 DEF SyncInv, SyncProcs, RunsWorkedOn
<1>4. \A p \in {"api", "worker"} : cache[p].seen <= db.cloud + 1
  BY SyncNumbers DEF SyncInv, SeenInOrder
<1>5. cache' \in [{"api", "worker"} -> SyncProc] /\ ui' \in BOOLEAN
  BY <1>1 DEF SyncInv, SyncTypes
<1> QED
  BY <1>1, <1>2, <1>3, <1>4, <1>5, RowsStayInv

(* A process begins a round: it was idle, so no run loses its worker.       *)
LEMMA SyncBeginsInv ==
  ASSUME SyncInv, Sync!Trigger \/ Sync!RunLoop
  PROVE  SyncInv'
<1>1. PICK p \in {"api", "worker"} : /\ cache[p].pc = "idle" /\ cache' = [cache EXCEPT ![p].pc = "start"]
                                     /\ UNCHANGED <<db, m>> /\ ui' \in BOOLEAN
                                     /\ IF p = "api" THEN ui' = TRUE ELSE ui' = ui
  BY DEF Sync!Trigger, Sync!RunLoop, SyncInv, SyncProcs, SyncTypes
<1>2. PICK k : k = [cache[p] EXCEPT !.pc = "start"]
  OBVIOUS
<1>3. k \in SyncProc /\ k.pc = "start" /\ k.run = cache[p].run /\ k.seen = cache[p].seen
  BY <1>2 DEF SyncInv, SyncTypes, SyncProc
<1>4. /\ cache' \in [{"api", "worker"} -> SyncProc] /\ cache'[p] = k
      /\ \A q \in {"api", "worker"} \ {p} : cache'[q] = cache[q]
  BY <1>1, <1>2, <1>3, SyncProcMoves
<1>5. SyncProcs'
  BY <1>1, <1>3, <1>4 DEF SyncInv, SyncProcs, Working
<1>6. RunsWorkedOn'
  BY <1>1, <1>4 DEF SyncInv, RunsWorkedOn, Working
<1>7. db.cloud \in Nat /\ db \in SyncDb
  BY BoundsAssumption DEF SyncInv, SyncTypes, SyncDb
<1>8. \A q \in {"api", "worker"} : cache[q].seen <= db.cloud
  BY DEF SyncInv, SeenInOrder
<1> QED
  BY <1>1, <1>3, <1>4, <1>5, <1>6, <1>7, <1>8, RowsStayInv

SyncPc == {"idle", "start", "describe", "upsert", "finish", "link"}

MovedTo(f, p, x) == [f EXCEPT ![p].pc = x]
RunLost(d, r) == [d EXCEPT !.runs[r].lost = TRUE]
RunEnded(d, r, x) == [d EXCEPT !.runs[r].status = x]

(* A process moves on within RunOnce.                                       *)
LEMMA PcMoves ==
  ASSUME NEW f \in [{"api", "worker"} -> SyncProc], NEW p \in {"api", "worker"}, NEW x \in SyncPc,
         NEW g, g = MovedTo(f, p, x)
  PROVE  /\ g \in [{"api", "worker"} -> SyncProc]
         /\ g[p].pc = x /\ g[p].run = f[p].run /\ g[p].seen = f[p].seen
         /\ \A q \in {"api", "worker"} \ {p} : g[q] = f[q]
<1>1. PICK k : k = [f[p] EXCEPT !.pc = x]
  OBVIOUS
<1>2. k \in SyncProc /\ k.pc = x /\ k.run = f[p].run /\ k.seen = f[p].seen
  BY <1>1 DEF SyncProc, SyncPc
<1>3. g = [f EXCEPT ![p] = k]
  BY <1>1 DEF MovedTo
<1> QED
  BY <1>2, <1>3

(* A step of a process that starts, leaves or goes on with its run.         *)
LEMMA SyncRunsInv ==
  ASSUME SyncInv, NEW p \in {"api", "worker"},
         cache' \in [{"api", "worker"} -> SyncProc],
         \A q \in {"api", "worker"} \ {p} : cache'[q] = cache[q],
         cache'[p].seen <= db.cloud,
         cache'[p].pc = "upsert" => cache'[p].seen = db.cloud,
         cache'[p].pc \in Working => cache'[p].run # 0,
         ui' \in BOOLEAN, p = "worker" => ui' = ui,
         p = "api" /\ ~ ui' => cache'[p].pc = "idle",
         m' = m, db' \in SyncDb, db'.rows = db.rows, db'.cloud = db.cloud,
         \A r \in 1..MaxRuns : db'.runs[r].status = "running" /\ ~ db'.runs[r].lost =>
            \/ cache'[p].run = r /\ cache'[p].pc \in Working
            \/ /\ db.runs[r].status = "running" /\ ~ db.runs[r].lost
               /\ cache[p].run # r \/ cache[p].pc \notin Working
  PROVE  SyncInv'
<1>1. SyncProcs'
  BY DEF SyncInv, SyncProcs
<1>2. RunsWorkedOn'
  <2> SUFFICES ASSUME NEW r \in 1..MaxRuns, db'.runs[r].status = "running", ~ db'.runs[r].lost
               PROVE  \E q \in {"api", "worker"} : cache'[q].run = r /\ cache'[q].pc \in Working
    BY DEF RunsWorkedOn
  <2>1. CASE cache'[p].run = r /\ cache'[p].pc \in Working
    BY <2>1
  <2>2. CASE /\ db.runs[r].status = "running" /\ ~ db.runs[r].lost
             /\ cache[p].run # r \/ cache[p].pc \notin Working
    <3>1. PICK q \in {"api", "worker"} : cache[q].run = r /\ cache[q].pc \in Working
      BY <2>2 DEF SyncInv, RunsWorkedOn
    <3> QED
      BY <2>2, <3>1
  <2> QED
    BY <2>1, <2>2
<1>3. \A q \in {"api", "worker"} : cache[q].seen <= db.cloud
  BY DEF SyncInv, SeenInOrder
<1>4. db'.cloud >= db.cloud
  BY SyncNumbers
<1> QED
  BY <1>1, <1>2, <1>3, <1>4, RowsStayInv

LEMMA StartSyncRunInv ==
  ASSUME SyncInv, NEW p \in {"api", "worker"}, Sync!StartSyncRun(p)
  PROVE  SyncInv'
<1>1. PICK r \in 1..MaxRuns : /\ db' = [db EXCEPT !.runs[r].status = "running"]
                              /\ cache' = [cache EXCEPT ![p].pc = "describe", ![p].run = r]
                              /\ cache[p].pc = "start" /\ UNCHANGED <<m, ui>>
  BY DEF Sync!StartSyncRun
<1>2. PICK g : g = MovedTo(cache, p, "describe")
  OBVIOUS
<1>3. cache \in [{"api", "worker"} -> SyncProc] /\ db \in SyncDb /\ ui \in BOOLEAN
  BY DEF SyncInv, SyncTypes
<1>4. /\ g \in [{"api", "worker"} -> SyncProc] /\ g[p].pc = "describe" /\ g[p].seen = cache[p].seen
      /\ \A q \in {"api", "worker"} \ {p} : g[q] = cache[q]
  BY <1>2, <1>3, PcMoves DEF SyncPc
<1>5. /\ cache' \in [{"api", "worker"} -> SyncProc] /\ cache'[p].pc = "describe" /\ cache'[p].run = r
      /\ cache'[p].seen = cache[p].seen /\ \A q \in {"api", "worker"} \ {p} : cache'[q] = cache[q]
  <2>1. cache' = [g EXCEPT ![p].run = r]
    BY <1>1, <1>2 DEF MovedTo
  <2>2. PICK k : k = [g[p] EXCEPT !.run = r]
    OBVIOUS
  <2>3. k \in SyncProc /\ k.pc = "describe" /\ k.run = r /\ k.seen = cache[p].seen
    BY <1>4, <2>2, BoundsAssumption DEF SyncProc
  <2>4. cache' = [g EXCEPT ![p] = k]
    BY <2>1, <2>2
  <2> QED
    BY <1>4, <2>3, <2>4
<1>6. /\ db' \in SyncDb /\ db'.rows = db.rows /\ db'.cloud = db.cloud
      /\ \A q \in 1..MaxRuns \ {r} : db'.runs[q] = db.runs[q]
  <2>1. PICK rs : rs = [db.runs EXCEPT ![r].status = "running"]
    OBVIOUS
  <2>2. rs \in [1..MaxRuns -> SyncRun] /\ \A q \in 1..MaxRuns \ {r} : rs[q] = db.runs[q]
    BY <1>3, <2>1 DEF SyncDb, SyncRun
  <2>3. db' = [db EXCEPT !.runs = rs]
    BY <1>1, <2>1
  <2> QED
    BY <1>3, <2>2, <2>3 DEF SyncDb
<1>7. cache[p].seen <= db.cloud /\ (p = "api" => ui)
  BY <1>1, <1>3 DEF SyncInv, SeenInOrder, SyncProcs
<1>8. r # 0 /\ cache[p].pc \notin Working
  BY <1>1, BoundsAssumption DEF Working
<1> QED
  BY <1>1, <1>3, <1>5, <1>6, <1>7, <1>8, SyncRunsInv DEF Working

LEMMA DescribeInv ==
  ASSUME SyncInv, NEW p \in {"api", "worker"}, Sync!describe(p)
  PROVE  SyncInv'
<1>1. /\ cache[p].pc = "describe" /\ UNCHANGED <<db, m, ui>>
      /\ cache' = [cache EXCEPT ![p].pc = "upsert", ![p].seen = db.cloud]
  BY DEF Sync!describe
<1>2. PICK g : g = MovedTo(cache, p, "upsert")
  OBVIOUS
<1>3. cache \in [{"api", "worker"} -> SyncProc] /\ db \in SyncDb /\ ui \in BOOLEAN
  BY DEF SyncInv, SyncTypes
<1>4. /\ g \in [{"api", "worker"} -> SyncProc] /\ g[p].pc = "upsert" /\ g[p].run = cache[p].run
      /\ \A q \in {"api", "worker"} \ {p} : g[q] = cache[q]
  BY <1>2, <1>3, PcMoves DEF SyncPc
<1>5. /\ cache' \in [{"api", "worker"} -> SyncProc] /\ cache'[p].pc = "upsert"
      /\ cache'[p].run = cache[p].run /\ cache'[p].seen = db.cloud
      /\ \A q \in {"api", "worker"} \ {p} : cache'[q] = cache[q]
  <2>1. cache' = [g EXCEPT ![p].seen = db.cloud]
    BY <1>1, <1>2 DEF MovedTo
  <2>2. PICK k : k = [g[p] EXCEPT !.seen = db.cloud]
    OBVIOUS
  <2>3. db.cloud \in 0..MaxCloud
    BY <1>3, BoundsAssumption DEF SyncDb
  <2>4. k \in SyncProc /\ k.pc = "upsert" /\ k.run = cache[p].run /\ k.seen = db.cloud
    BY <1>4, <2>2, <2>3 DEF SyncProc
  <2>5. cache' = [g EXCEPT ![p] = k]
    BY <2>1, <2>2
  <2> QED
    BY <1>4, <2>4, <2>5
<1>6. cache[p].run # 0 /\ (p = "api" => ui) /\ db.cloud <= db.cloud
  BY <1>1, <1>3, SyncNumbers DEF SyncInv, SyncProcs, Working
<1> QED
  BY <1>1, <1>3, <1>5, <1>6, SyncRunsInv DEF Working

LEMMA ResourceFailedInv ==
  ASSUME SyncInv, NEW p \in {"api", "worker"}, Sync!resourceFailed(p)
  PROVE  SyncInv'
<1>1. /\ cache[p].pc \in {"describe", "upsert"} /\ UNCHANGED <<db, m, ui>>
      /\ cache' = [cache EXCEPT ![p].pc = "finish", ![p].failed = TRUE]
  BY DEF Sync!resourceFailed
<1>2. PICK g : g = MovedTo(cache, p, "finish")
  OBVIOUS
<1>3. cache \in [{"api", "worker"} -> SyncProc] /\ db \in SyncDb /\ ui \in BOOLEAN
  BY DEF SyncInv, SyncTypes
<1>4. /\ g \in [{"api", "worker"} -> SyncProc] /\ g[p].pc = "finish" /\ g[p].run = cache[p].run
      /\ g[p].seen = cache[p].seen /\ \A q \in {"api", "worker"} \ {p} : g[q] = cache[q]
  BY <1>2, <1>3, PcMoves DEF SyncPc
<1>5. /\ cache' \in [{"api", "worker"} -> SyncProc] /\ cache'[p].pc = "finish"
      /\ cache'[p].run = cache[p].run /\ cache'[p].seen = cache[p].seen
      /\ \A q \in {"api", "worker"} \ {p} : cache'[q] = cache[q]
  <2>1. cache' = [g EXCEPT ![p].failed = TRUE]
    BY <1>1, <1>2 DEF MovedTo
  <2>2. PICK k : k = [g[p] EXCEPT !.failed = TRUE]
    OBVIOUS
  <2>3. k \in SyncProc /\ k.pc = "finish" /\ k.run = cache[p].run /\ k.seen = cache[p].seen
    BY <1>4, <2>2 DEF SyncProc
  <2>4. cache' = [g EXCEPT ![p] = k]
    BY <2>1, <2>2
  <2> QED
    BY <1>4, <2>3, <2>4
<1>6. cache[p].run # 0 /\ (p = "api" => ui) /\ cache[p].seen <= db.cloud
  BY <1>1, <1>3 DEF SyncInv, SyncProcs, SeenInOrder, Working
<1> QED
  BY <1>1, <1>3, <1>5, <1>6, SyncRunsInv DEF Working

(* A run of the table gets its end, or is lost.                             *)
LEMMA RunEnds ==
  ASSUME NEW d \in SyncDb, NEW r \in 1..MaxRuns, NEW e,
         \/ \E x \in {"failed", "success"} : e = RunEnded(d, r, x)
         \/ e = RunLost(d, r)
  PROVE  /\ e \in SyncDb /\ e.rows = d.rows /\ e.cloud = d.cloud
         /\ \A q \in 1..MaxRuns \ {r} : e.runs[q] = d.runs[q]
         /\ e.runs[r].status # "running" \/ e.runs[r].lost
<1>1. PICK k \in SyncRun : /\ k.status # "running" \/ k.lost
                           /\ e = [d EXCEPT !.runs = [d.runs EXCEPT ![r] = k]]
  <2>1. d.runs[r] \in SyncRun
    BY DEF SyncDb
  <2>2. ASSUME NEW x \in {"failed", "success"}, e = RunEnded(d, r, x)
        PROVE  \E k \in SyncRun : /\ k.status # "running" \/ k.lost
                                  /\ e = [d EXCEPT !.runs = [d.runs EXCEPT ![r] = k]]
    <3>1. PICK k : k = [d.runs[r] EXCEPT !.status = x]
      OBVIOUS
    <3>2. k \in SyncRun /\ k.status = x
      BY <2>1, <3>1 DEF SyncRun
    <3> QED
      BY <2>2, <3>1, <3>2 DEF RunEnded
  <2>3. CASE e = RunLost(d, r)
    <3>1. PICK k : k = [d.runs[r] EXCEPT !.lost = TRUE]
      OBVIOUS
    <3>2. k \in SyncRun /\ k.lost
      BY <2>1, <3>1 DEF SyncRun
    <3> QED
      BY <2>3, <3>1, <3>2 DEF RunLost
  <2> QED
    BY <2>2, <2>3
<1>2. PICK rs : rs = [d.runs EXCEPT ![r] = k]
  OBVIOUS
<1>3. rs \in [1..MaxRuns -> SyncRun] /\ rs[r] = k /\ \A q \in 1..MaxRuns \ {r} : rs[q] = d.runs[q]
  BY <1>2 DEF SyncDb
<1>4. e = [d EXCEPT !.runs = rs]
  BY <1>1, <1>2
<1> QED
  BY <1>1, <1>3, <1>4 DEF SyncDb

LEMMA FinishSyncRunInv ==
  ASSUME SyncInv, NEW p \in {"api", "worker"}, Sync!FinishSyncRun(p)
  PROVE  SyncInv'
<1>1. /\ cache[p].pc = "finish" /\ cache' = MovedTo(cache, p, "link") /\ UNCHANGED <<m, ui>>
  BY DEF Sync!FinishSyncRun, MovedTo
<1>2. cache \in [{"api", "worker"} -> SyncProc] /\ db \in SyncDb /\ ui \in BOOLEAN
  BY DEF SyncInv, SyncTypes
<1>3. PICK r : r = cache[p].run
  OBVIOUS
<1>4. r \in 1..MaxRuns
  <2>1. r \in 0..MaxRuns /\ r # 0
    BY <1>1, <1>2, <1>3 DEF SyncProc, SyncInv, SyncProcs, Working
  <2> QED
    BY <2>1, BoundsAssumption
<1>5. \/ \E x \in {"failed", "success"} : db' = RunEnded(db, r, x)
      \/ db' = RunLost(db, r)
  BY <1>3 DEF Sync!FinishSyncRun, RunEnded, RunLost
<1>6. /\ db' \in SyncDb /\ db'.rows = db.rows /\ db'.cloud = db.cloud
      /\ \A q \in 1..MaxRuns \ {r} : db'.runs[q] = db.runs[q]
      /\ db'.runs[r].status # "running" \/ db'.runs[r].lost
  BY <1>2, <1>4, <1>5, RunEnds
<1>7. /\ cache' \in [{"api", "worker"} -> SyncProc] /\ cache'[p].pc = "link"
      /\ cache'[p].seen = cache[p].seen /\ \A q \in {"api", "worker"} \ {p} : cache'[q] = cache[q]
  BY <1>1, <1>2, PcMoves DEF SyncPc
<1>8. (p = "api" => ui) /\ cache[p].seen <= db.cloud
  BY <1>1, <1>2 DEF SyncInv, SyncProcs, SeenInOrder
<1>9. \A q \in 1..MaxRuns : db'.runs[q].status = "running" /\ ~ db'.runs[q].lost =>
          /\ db.runs[q].status = "running" /\ ~ db.runs[q].lost
          /\ cache[p].run # q \/ cache[p].pc \notin Working
  BY <1>3, <1>6
<1> QED
  BY <1>1, <1>2, <1>6, <1>7, <1>8, <1>9, SyncRunsInv DEF Working

(* RunOnce is over, or its process is: a run that was under way then is     *)
(* lost.                                                                    *)
LEMMA RunOnceReturnInv ==
  ASSUME SyncInv, NEW p \in {"api", "worker"}, Sync!RunOnceReturn(p) \/ Sync!Restart(p)
  PROVE  SyncInv'
<1>1. cache' = [cache EXCEPT ![p] = Sync!Idle] /\ m' = m /\ ui' = (ui /\ p # "api")
  BY DEF Sync!RunOnceReturn, Sync!Restart
<1>2. cache \in [{"api", "worker"} -> SyncProc] /\ db \in SyncDb /\ ui \in BOOLEAN
  BY DEF SyncInv, SyncTypes
<1>3. Sync!Idle \in SyncProc /\ Sync!Idle.pc = "idle" /\ Sync!Idle.seen = 0
  BY BoundsAssumption DEF Sync!Idle, SyncProc
<1>4. /\ cache' \in [{"api", "worker"} -> SyncProc] /\ cache'[p].pc = "idle" /\ cache'[p].seen = 0
      /\ \A q \in {"api", "worker"} \ {p} : cache'[q] = cache[q]
  BY <1>1, <1>2, <1>3
<1>5. ui' \in BOOLEAN /\ (p = "worker" => ui' = ui)
  BY <1>1, <1>2
<1>6. /\ db' \in SyncDb /\ db'.rows = db.rows /\ db'.cloud = db.cloud
      /\ \A q \in 1..MaxRuns : db'.runs[q].status = "running" /\ ~ db'.runs[q].lost =>
          /\ db.runs[q].status = "running" /\ ~ db.runs[q].lost
          /\ cache[p].run # q \/ cache[p].pc \notin Working
  <2>1. CASE cache[p].pc \in Working
    <3>1. PICK r : r = cache[p].run
      OBVIOUS
    <3>2. r \in 1..MaxRuns
      <4>1. r \in 0..MaxRuns /\ r # 0
        BY <1>2, <2>1, <3>1 DEF SyncProc, SyncInv, SyncProcs
      <4> QED
        BY <4>1, BoundsAssumption
    <3>3. db' = RunLost(db, r)
      BY <2>1, <3>1 DEF Sync!RunOnceReturn, Sync!Restart, Working, RunLost
    <3>4. /\ db' \in SyncDb /\ db'.rows = db.rows /\ db'.cloud = db.cloud
          /\ \A q \in 1..MaxRuns \ {r} : db'.runs[q] = db.runs[q]
          /\ db'.runs[r].status # "running" \/ db'.runs[r].lost
      BY <1>2, <3>2, <3>3, RunEnds
    <3> QED
      BY <3>1, <3>4
  <2>2. CASE cache[p].pc \notin Working
    <3>1. db' = db
      BY <2>2 DEF Sync!RunOnceReturn, Sync!Restart, Working
    <3> QED
      BY <1>2, <2>2, <3>1
  <2> QED
    BY <2>1, <2>2
<1>7. 0 <= db.cloud
  BY SyncNumbers
<1> QED
  BY <1>1, <1>4, <1>5, <1>6, <1>7, SyncRunsInv DEF Working

(* The statement that writes what a run has seen.  The run of the other     *)
(* process is overtaken if it has looked already.                           *)
LEMMA UpsertProcs ==
  ASSUME SyncInv, NEW p \in {"api", "worker"}, Sync!UpsertAsset(p)
  PROVE  /\ cache[p].pc = "upsert" /\ m' = m /\ ui' = ui
         /\ cache' \in [{"api", "worker"} -> SyncProc] /\ cache'[p].pc = "finish"
         /\ \A q \in {"api", "worker"} :
               /\ cache'[q].run = cache[q].run /\ cache'[q].seen = cache[q].seen
               /\ q # p => /\ cache'[q].pc = cache[q].pc
                           /\ cache[q].pc = "upsert" => cache'[q].overtaken
<1>1. /\ cache[p].pc = "upsert" /\ m' = m /\ ui' = ui
      /\ cache' = [q \in {"api", "worker"} |->
                     IF q = p THEN [cache[p] EXCEPT !.pc = "finish"]
                     ELSE [cache[q] EXCEPT !.overtaken = @ \/ cache[q].pc = "upsert"]]
  BY DEF Sync!UpsertAsset, Sync!Procs
<1>2. \A q \in {"api", "worker"} : cache[q] \in SyncProc
  BY SyncNumbers
<1>3. cache'[p] \in SyncProc /\ cache'[p].pc = "finish" /\ cache'[p].run = cache[p].run
        /\ cache'[p].seen = cache[p].seen
  BY <1>1, <1>2 DEF SyncProc
<1>4. ASSUME NEW q \in {"api", "worker"}, q # p
      PROVE  /\ cache'[q] \in SyncProc /\ cache'[q].pc = cache[q].pc /\ cache'[q].run = cache[q].run
             /\ cache'[q].seen = cache[q].seen /\ (cache[q].pc = "upsert" => cache'[q].overtaken)
  <2>1. PICK ov \in BOOLEAN : ov = (cache[q].overtaken \/ cache[q].pc = "upsert")
    OBVIOUS
  <2>2. cache'[q] = [cache[q] EXCEPT !.overtaken = ov]
    BY <1>1, <1>4, <2>1
  <2>3. cache[q].pc = "upsert" => ov
    BY <2>1
  <2> QED
    BY <1>2, <2>2, <2>3 DEF SyncProc
<1>5. cache' \in [{"api", "worker"} -> SyncProc]
  <2>1. \A q \in {"api", "worker"} : cache'[q] \in SyncProc
    BY <1>3, <1>4
  <2> QED
    BY <1>1, <2>1
<1> QED
  BY <1>1, <1>3, <1>4, <1>5

(* A row of the table is written.                                           *)
LEMMA UpsertRows ==
  ASSUME SyncInv, NEW p \in {"api", "worker"}, Sync!UpsertAsset(p)
  PROVE  /\ db' \in SyncDb /\ db'.cloud = db.cloud /\ db'.runs = db.runs
         /\ \/ \A r \in 1..MaxRows :
                 /\ db'.rows[r].live = db.rows[r].live /\ db'.rows[r].curated = db.rows[r].curated
                 /\ db'.rows[r].observed = IF db.rows[r].live THEN cache[p].seen ELSE db.rows[r].observed
            \/ /\ \A r \in 1..MaxRows : ~ db.rows[r].live
               /\ \E n \in 1..MaxRows : /\ db'.rows[n].observed = cache[p].seen
                                        /\ \A r \in 1..MaxRows \ {n} : db'.rows[r] = db.rows[r]
<1>1. /\ db \in SyncDb /\ db.rows \in [1..MaxRows -> SyncRow] /\ db.used \in 0..MaxRows
      /\ \A r \in 1..MaxRows : db.rows[r] \in SyncRow
  BY SyncNumbers DEF SyncDb
<1>2. PICK v : v = cache[p].seen
  OBVIOUS
<1>3. v \in 0..MaxCloud
  BY <1>2, SyncNumbers DEF SyncProc
<1>4. CASE Sync!conflict # {}
  <2>1. PICK rs : rs = [r \in 1..MaxRows |-> IF r \in Sync!conflict THEN Sync!refreshed(db.rows[r], v)
                                             ELSE db.rows[r]]
    OBVIOUS
  <2>2. db' = [db EXCEPT !.rows = rs]
    BY <1>2, <1>4, <2>1 DEF Sync!UpsertAsset
  <2>3. ASSUME NEW r \in 1..MaxRows
        PROVE  /\ rs[r] \in SyncRow /\ rs[r].live = db.rows[r].live /\ rs[r].curated = db.rows[r].curated
               /\ rs[r].observed = IF db.rows[r].live THEN v ELSE db.rows[r].observed
    <3>1. r \in Sync!conflict <=> db.rows[r].live
      BY DEF Sync!conflict, Sync!liveRows
    <3>2. CASE db.rows[r].live
      <4>1. rs[r] = [db.rows[r] EXCEPT !.observed = v]
        BY <2>1, <3>1, <3>2 DEF Sync!refreshed
      <4>2. db.rows[r] \in SyncRow
        BY <1>1
      <4> QED
        BY <1>3, <3>2, <4>1, <4>2 DEF SyncRow
    <3>3. CASE ~ db.rows[r].live
      <4>1. rs[r] = db.rows[r]
        BY <2>1, <3>1, <3>3
      <4> QED
        BY <1>1, <3>3, <4>1
    <3> QED
      BY <3>2, <3>3
  <2>4. rs \in [1..MaxRows -> SyncRow]
    BY <2>1, <2>3
  <2>5. db' \in SyncDb /\ db'.cloud = db.cloud /\ db'.runs = db.runs /\ db'.rows = rs
    BY <1>1, <2>2, <2>4 DEF SyncDb
  <2> QED
    BY <1>2, <2>3, <2>5
<1>5. CASE Sync!conflict = {}
  <2>1. PICK n : n = db.used + 1
    OBVIOUS
  <2>2. PICK k : k = [live |-> TRUE, observed |-> v, curated |-> 0]
    OBVIOUS
  <2>3. /\ db.used < MaxRows
        /\ db' = [db EXCEPT !.used = @ + 1, !.rows[n] = k]
    BY <1>2, <1>5, <2>1, <2>2 DEF Sync!UpsertAsset
  <2>4. n \in 1..MaxRows /\ n \in 0..MaxRows
    BY <1>1, <2>1, <2>3, BoundsAssumption
  <2>5. k \in SyncRow /\ k.observed = v
    BY <1>3, <2>2, BoundsAssumption DEF SyncRow
  <2>6. PICK rs : rs = [db.rows EXCEPT ![n] = k]
    OBVIOUS
  <2>7. rs \in [1..MaxRows -> SyncRow] /\ rs[n] = k /\ \A r \in 1..MaxRows \ {n} : rs[r] = db.rows[r]
    BY <1>1, <2>4, <2>5, <2>6
  <2>8. db' = [cloud |-> db.cloud, rows |-> rs, used |-> n, runs |-> db.runs]
    BY <1>1, <2>1, <2>3, <2>6 DEF SyncDb
  <2>9. db' \in SyncDb /\ db'.cloud = db.cloud /\ db'.runs = db.runs /\ db'.rows = rs
    BY <1>1, <2>4, <2>7, <2>8 DEF SyncDb
  <2>10. \A r \in 1..MaxRows : ~ db.rows[r].live
    BY <1>5 DEF Sync!conflict, Sync!liveRows
  <2> QED
    BY <1>2, <2>4, <2>5, <2>7, <2>9, <2>10
<1> QED
  BY <1>4, <1>5

LEMMA UpsertAssetInv ==
  ASSUME SyncInv, NEW p \in {"api", "worker"}, Sync!UpsertAsset(p)
  PROVE  SyncInv'
<1>1. /\ cache[p].pc = "upsert" /\ m' = m /\ ui' = ui
      /\ cache' \in [{"api", "worker"} -> SyncProc] /\ cache'[p].pc = "finish"
      /\ \A q \in {"api", "worker"} :
            /\ cache'[q].run = cache[q].run /\ cache'[q].seen = cache[q].seen
            /\ q # p => /\ cache'[q].pc = cache[q].pc
                        /\ cache[q].pc = "upsert" => cache'[q].overtaken
  BY UpsertProcs
<1>2. /\ db' \in SyncDb /\ db'.cloud = db.cloud /\ db'.runs = db.runs
      /\ \/ \A r \in 1..MaxRows :
              /\ db'.rows[r].live = db.rows[r].live
              /\ db'.rows[r].observed = IF db.rows[r].live THEN cache[p].seen ELSE db.rows[r].observed
         \/ /\ \A r \in 1..MaxRows : ~ db.rows[r].live
            /\ \E n \in 1..MaxRows : /\ db'.rows[n].observed = cache[p].seen
                                     /\ \A r \in 1..MaxRows \ {n} : db'.rows[r] = db.rows[r]
  BY UpsertRows
<1>3. SyncTypes'
  BY <1>1, <1>2 DEF SyncInv, SyncTypes
<1>4. SyncProcs'
  BY <1>1 DEF SyncInv, SyncProcs, Working
<1>5. OneLiveRow'
  BY <1>2 DEF SyncInv, OneLiveRow
<1>6. RunsWorkedOn'
  <2>1. \A q \in {"api", "worker"} : cache'[q].run = cache[q].run /\ (cache[q].pc \in Working => cache'[q].pc \in Working)
    BY <1>1 DEF Working
  <2> QED
    BY <1>2, <2>1 DEF SyncInv, RunsWorkedOn
<1>7. SeenInOrder'
  <2>1. /\ \A r \in 1..MaxRows : db.rows[r].observed <= db.cloud
        /\ m.observed <= db.cloud
        /\ \A q \in {"api", "worker"} : cache[q].seen <= db.cloud
    BY DEF SyncInv, SeenInOrder
  <2>2. \A r \in 1..MaxRows : db'.rows[r].observed <= db'.cloud
    BY <1>2, <2>1
  <2>3. \A q \in {"api", "worker"} : cache'[q].pc = "upsert" => cache'[q].overtaken
    BY <1>1
  <2> QED
    BY <1>1, <1>2, <2>1, <2>2, <2>3 DEF SeenInOrder
<1> QED
  BY <1>3, <1>4, <1>5, <1>6, <1>7 DEF SyncInv

(* A user looks at the asset, saves it or deletes it: no process notices.   *)
LEMMA SyncEditsInv ==
  ASSUME SyncInv, db' \in SyncDb, db'.cloud = db.cloud, db'.runs = db.runs,
         UNCHANGED <<cache, ui>>, m' \in [row : 0..MaxRows, observed : 0..MaxCloud],
         m'.row = 0 => m' = [row |-> 0, observed |-> 0],
         \A r \in 1..MaxRows : db'.rows[r].live => db.rows[r].live,
         \A r \in 1..MaxRows : \/ db'.rows[r].observed = db.rows[r].observed
                               \/ m.row # 0 /\ db'.rows[r].observed = m.observed,
         \/ m'.row = 0 \/ m' = m
         \/ \E r \in 1..MaxRows : db.rows[r].live /\ m'.observed = db.rows[r].observed
  PROVE  SyncInv'
<1>1. SyncTypes'
  BY DEF SyncInv, SyncTypes
<1>2. SyncProcs' /\ OneLiveRow' /\ RunsWorkedOn'
  BY DEF SyncInv, SyncProcs, OneLiveRow, RunsWorkedOn
<1>3. SeenInOrder'
  <2>1. 0 <= db.cloud
    BY SyncNumbers
  <2>2. \A r \in 1..MaxRows : db'.rows[r].observed <= db'.cloud
    BY DEF SyncInv, SeenInOrder
  <2>3. m'.observed <= db'.cloud
    BY <2>1 DEF SyncInv, SeenInOrder
  <2>4. \A p \in {"api", "worker"} : cache[p].pc = "upsert" /\ ~ cache[p].overtaken =>
          /\ \A r \in 1..MaxRows : db'.rows[r].live => db'.rows[r].observed <= cache[p].seen
          /\ m'.row # 0 => m'.observed <= cache[p].seen
    BY DEF SyncInv, SeenInOrder
  <2> QED
    BY <2>2, <2>3, <2>4 DEF SyncInv, SeenInOrder
<1> QED
  BY <1>1, <1>2, <1>3 DEF SyncInv

LEMMA GetAssetInv ==
  ASSUME SyncInv, NEW r \in 1..MaxRows, Sync!GetAsset(r)
  PROVE  SyncInv'
<1>1. /\ db.rows[r].live /\ m' = [row |-> r, observed |-> db.rows[r].observed] /\ UNCHANGED <<db, cache, ui>>
  BY DEF Sync!GetAsset
<1>2. db.rows[r].observed \in 0..MaxCloud /\ db \in SyncDb
  BY SyncNumbers DEF SyncRow
<1>3. r \in 0..MaxRows /\ r # 0
  BY BoundsAssumption
<1>4. m' \in [row : 0..MaxRows, observed : 0..MaxCloud] /\ m'.row # 0 /\ m'.observed = db.rows[r].observed
  BY <1>1, <1>2, <1>3
<1> QED
  BY <1>1, <1>2, <1>4, SyncEditsInv

LEMMA SyncDeleteInv ==
  ASSUME SyncInv, NEW r \in 1..MaxRows, Sync!DeleteAsset(r)
  PROVE  SyncInv' /\ db'.rows[r].curated = db.rows[r].curated
         /\ \A s \in 1..MaxRows : db'.rows[s].observed = db.rows[s].observed
                                  /\ db'.rows[s].curated = db.rows[s].curated
<1>1. db' = [db EXCEPT !.rows[r].live = FALSE] /\ UNCHANGED <<cache, m, ui>>
  BY DEF Sync!DeleteAsset
<1>2. db \in SyncDb /\ db.rows \in [1..MaxRows -> SyncRow] /\ db.rows[r] \in SyncRow
  BY SyncNumbers DEF SyncDb
<1>3. PICK k : k = [db.rows[r] EXCEPT !.live = FALSE]
  OBVIOUS
<1>4. k \in SyncRow /\ ~ k.live /\ k.observed = db.rows[r].observed /\ k.curated = db.rows[r].curated
  BY <1>2, <1>3 DEF SyncRow
<1>5. PICK rs : rs = [db.rows EXCEPT ![r] = k]
  OBVIOUS
<1>6. rs \in [1..MaxRows -> SyncRow] /\ rs[r] = k /\ \A s \in 1..MaxRows \ {r} : rs[s] = db.rows[s]
  BY <1>2, <1>4, <1>5
<1>7. db' = [db EXCEPT !.rows = rs]
  BY <1>1, <1>3, <1>5
<1>8. db' \in SyncDb /\ db'.cloud = db.cloud /\ db'.runs = db.runs /\ db'.rows = rs
  BY <1>2, <1>6, <1>7 DEF SyncDb
<1>9. m \in [row : 0..MaxRows, observed : 0..MaxCloud] /\ (m.row = 0 => m = [row |-> 0, observed |-> 0])
  BY DEF SyncInv, SyncTypes
<1>10. \A s \in 1..MaxRows : /\ db'.rows[s].live => db.rows[s].live
                             /\ db'.rows[s].observed = db.rows[s].observed
                             /\ db'.rows[s].curated = db.rows[s].curated
  BY <1>4, <1>6, <1>8
<1>11. SyncInv'
  BY <1>1, <1>8, <1>9, <1>10, SyncEditsInv
<1> QED
  BY <1>10, <1>11

LEMMA UpdateAssetInv ==
  ASSUME SyncInv, Sync!UpdateAsset
  PROVE  SyncInv' /\ m # Sync!NoEdit /\ m' = Sync!NoEdit
<1>1. m # Sync!NoEdit /\ m' = Sync!NoEdit /\ UNCHANGED <<cache, ui>>
  BY DEF Sync!UpdateAsset
<1>2. m'.row = 0 /\ m' = [row |-> 0, observed |-> 0]
  BY <1>1 DEF Sync!NoEdit
<1>3. m' \in [row : 0..MaxRows, observed : 0..MaxCloud]
  BY <1>2, BoundsAssumption
<1>4. PICK r : r = m.row
  OBVIOUS
<1>5. r \in 1..MaxRows /\ r # 0 /\ m.observed \in 0..MaxCloud
  <2>1. m \in [row : 0..MaxRows, observed : 0..MaxCloud] /\ m.row # 0
    BY <1>1 DEF SyncInv, SyncTypes, Sync!NoEdit
  <2> QED
    BY <1>4, <2>1, BoundsAssumption
<1>6. db \in SyncDb /\ db.rows \in [1..MaxRows -> SyncRow] /\ db.rows[r] \in SyncRow
  BY <1>5, SyncNumbers DEF SyncDb
<1>7. /\ db' \in SyncDb /\ db'.cloud = db.cloud /\ db'.runs = db.runs
      /\ \A s \in 1..MaxRows : db'.rows[s].live => db.rows[s].live
      /\ \A s \in 1..MaxRows : \/ db'.rows[s].observed = db.rows[s].observed
                               \/ m.row # 0 /\ db'.rows[s].observed = m.observed
  <2>1. CASE db.rows[r].live /\ db.rows[r].curated < MaxEdits
    <3>1. PICK n : n = db.rows[r].curated + 1
      OBVIOUS
    <3>2. n \in 0..MaxEdits
      <4>1. PICK h \in 0..MaxEdits : h = db.rows[r].curated
        BY <1>6 DEF SyncRow
      <4>2. h < MaxEdits /\ n = h + 1 /\ MaxEdits \in Nat
        BY <2>1, <3>1, <4>1, BoundsAssumption
      <4> QED
        BY <4>2
    <3>3. PICK r1 : r1 = [db.rows[r] EXCEPT !.observed = m.observed]
      OBVIOUS
    <3>4. r1 \in SyncRow /\ r1.live = db.rows[r].live /\ r1.observed = m.observed
      BY <1>5, <1>6, <3>3 DEF SyncRow
    <3>5. PICK k : k = [r1 EXCEPT !.curated = n]
      OBVIOUS
    <3>6. k \in SyncRow /\ k.live = db.rows[r].live /\ k.observed = m.observed
      BY <3>2, <3>4, <3>5 DEF SyncRow
    <3>7. PICK rs : rs = [db.rows EXCEPT ![r] = k]
      OBVIOUS
    <3>8. rs \in [1..MaxRows -> SyncRow] /\ rs[r] = k /\ \A s \in 1..MaxRows \ {r} : rs[s] = db.rows[s]
      BY <1>5, <1>6, <3>6, <3>7
    <3>9. db' = [db EXCEPT !.rows[r].observed = m.observed, !.rows[r].curated = n]
      <4>1. db' = [db EXCEPT !.rows[r].observed = m.observed, !.rows[r].curated = @ + 1]
        BY <1>4, <2>1 DEF Sync!UpdateAsset
      <4> QED
        BY <1>5, <1>6, <3>1, <4>1 DEF SyncDb, SyncRow
    <3>10. db' = [db EXCEPT !.rows = rs]
      BY <1>5, <1>6, <3>3, <3>5, <3>7, <3>9 DEF SyncDb
    <3>11. db' \in SyncDb /\ db'.cloud = db.cloud /\ db'.runs = db.runs /\ db'.rows = rs
      BY <1>6, <3>8, <3>10 DEF SyncDb
    <3> QED
      BY <1>4, <1>5, <3>6, <3>8, <3>11
  <2>2. CASE ~ (db.rows[r].live /\ db.rows[r].curated < MaxEdits)
    <3>1. db' = db
      BY <1>4, <2>2 DEF Sync!UpdateAsset
    <3> QED
      BY <1>6, <3>1
  <2> QED
    BY <2>1, <2>2
<1>8. SyncInv'
  BY <1>1, <1>2, <1>3, <1>7, SyncEditsInv
<1> QED
  BY <1>1, <1>8

LEMMA SyncNext == SyncInv /\ Sync!Next => SyncInv'
<1> SUFFICES ASSUME SyncInv, Sync!Next PROVE SyncInv'
  OBVIOUS
<1>1. CASE Sync!CloudChange \/ Sync!Trigger \/ Sync!RunLoop \/ Sync!UpdateAsset
  BY <1>1, CloudChangeInv, SyncBeginsInv, UpdateAssetInv
<1>2. ASSUME NEW p \in {"api", "worker"},
             \/ Sync!StartSyncRun(p) \/ Sync!describe(p) \/ Sync!UpsertAsset(p) \/ Sync!resourceFailed(p)
             \/ Sync!FinishSyncRun(p) \/ Sync!RunOnceReturn(p) \/ Sync!Restart(p)
      PROVE  SyncInv'
  BY <1>2, StartSyncRunInv, DescribeInv, UpsertAssetInv, ResourceFailedInv, FinishSyncRunInv,
     RunOnceReturnInv
<1>3. ASSUME NEW r \in 1..MaxRows, Sync!GetAsset(r) \/ Sync!DeleteAsset(r) PROVE SyncInv'
  BY <1>3, GetAssetInv, SyncDeleteInv
<1> QED
  BY <1>1, <1>2, <1>3 DEF Sync!Next, Sync!Procs

(* A resource has at most one live row, and a run shown as running is.      *)
LEMMA SyncSafe ==
  SyncInv => Sync!TypeOK /\ Sync!OneRowPerResource /\ Sync!RunsEnd
<1> SUFFICES ASSUME SyncInv PROVE Sync!TypeOK /\ Sync!OneRowPerResource /\ Sync!RunsEnd
  OBVIOUS
<1>1. Sync!TypeOK
  <2>1. \A p \in {"api", "worker"} : cache[p].seen \in 0..MaxCloud /\ cache[p].run \in 0..MaxRuns
    BY SyncNumbers DEF SyncProc
  <2> QED
    BY <2>1, SyncNumbers DEF SyncDb, SyncRow, SyncRun, Sync!TypeOK, Sync!Procs
<1>2. Sync!OneRowPerResource
  <2>1. \A r, s \in Sync!liveRows : r = s
    BY DEF SyncInv, OneLiveRow, Sync!liveRows
  <2>2. Cardinality(Sync!liveRows) <= 1
    BY <2>1, AtMostOne
  <2> QED
    BY <2>2, SameCardinality DEF Sync!OneRowPerResource
<1>3. Sync!RunsEnd
  BY DEF SyncInv, RunsWorkedOn, Working, Sync!RunsEnd, Sync!Procs
<1> QED
  BY <1>1, <1>2, <1>3

(* What users curate stays, and what is known of AWS advances, but for an   *)
(* edit or an overtaken run.                                                *)
LEMMA SyncSteps ==
  SyncInv /\ Sync!Next => Sync!CurationKept /\ Sync!ObservedAdvances
<1> SUFFICES ASSUME SyncInv, Sync!Next PROVE Sync!CurationKept /\ Sync!ObservedAdvances
  OBVIOUS
<1>1. \A r \in 1..MaxRows : ~ (db.rows[r].observed < db.rows[r].observed)
  BY SyncNumbers
<1>2. CASE db'.rows = db.rows
  BY <1>1, <1>2 DEF Sync!CurationKept, Sync!ObservedAdvances
<1>3. CASE Sync!UpdateAsset
  BY <1>3, UpdateAssetInv DEF Sync!CurationKept, Sync!ObservedAdvances
<1>4. ASSUME NEW r \in 1..MaxRows, Sync!DeleteAsset(r)
      PROVE  Sync!CurationKept /\ Sync!ObservedAdvances
  BY <1>1, <1>4, SyncDeleteInv DEF Sync!CurationKept, Sync!ObservedAdvances
<1>5. ASSUME NEW p \in {"api", "worker"}, Sync!UpsertAsset(p)
      PROVE  Sync!CurationKept /\ Sync!ObservedAdvances
  <2>1. cache[p].pc = "upsert"
    BY <1>5, UpsertProcs
  <2>2. \/ \A r \in 1..MaxRows :
             /\ db'.rows[r].curated = db.rows[r].curated
             /\ db'.rows[r].observed = IF db.rows[r].live THEN cache[p].seen ELSE db.rows[r].observed
        \/ \A r \in 1..MaxRows : ~ db.rows[r].live
    BY <1>5, UpsertRows
  <2>3. Sync!CurationKept
    BY <2>2 DEF Sync!CurationKept
  <2>4. ASSUME NEW r \in 1..MaxRows, db.rows[r].live, db'.rows[r].observed < db.rows[r].observed
        PROVE  cache[p].overtaken
    <3>1. cache[p].seen < db.rows[r].observed
      BY <2>2, <2>4
    <3>2. ~ cache[p].overtaken => db.rows[r].observed <= cache[p].seen
      BY <2>1, <2>4 DEF SyncInv, SeenInOrder
    <3> QED
      BY <3>1, <3>2, SyncNumbers
  <2> QED
    BY <2>1, <2>3, <2>4 DEF Sync!ObservedAdvances, Sync!Procs
<1>6. ASSUME NEW p \in {"api", "worker"},
             \/ Sync!StartSyncRun(p) \/ Sync!describe(p) \/ Sync!resourceFailed(p)
             \/ Sync!FinishSyncRun(p) \/ Sync!RunOnceReturn(p) \/ Sync!Restart(p)
      PROVE  db'.rows = db.rows
  BY <1>6, SyncNumbers DEF Sync!StartSyncRun, Sync!describe, Sync!resourceFailed, Sync!FinishSyncRun,
     Sync!RunOnceReturn, Sync!Restart, SyncDb
<1>7. CASE Sync!CloudChange \/ Sync!Trigger \/ Sync!RunLoop \/ \E r \in 1..MaxRows : Sync!GetAsset(r)
  <2>1. db'.rows = db.rows
    BY <1>7, SyncNumbers DEF Sync!CloudChange, Sync!Trigger, Sync!RunLoop, Sync!GetAsset, SyncDb
  <2> QED
    BY <1>2, <2>1
<1> QED
  BY <1>2, <1>3, <1>4, <1>5, <1>6, <1>7 DEF Sync!Next, Sync!Procs

-----------------------------------------------------------------------------
(* The OIDC login.                                                          *)

People == Things \cup One

LoginCall == [pc : {"idle", "exchange", "binding", "bind", "issue"}, state : Logins \cup {"none"},
              by : People \cup {"none"}, alone : BOOLEAN]
LoginTokens == [begun : SUBSET Logins, issued : [Logins -> Nat], unlisted : SUBSET People,
                raced : BOOLEAN]

LoginTypes ==
  /\ cache \in [DOMAIN cache -> [by : People, expired : BOOLEAN]] /\ DOMAIN cache \subseteq Logins
  /\ m \in [Jobs -> LoginCall]
  /\ db \in [users : SUBSET People, admins : SUBSET People]
  /\ ui \in LoginTokens

(* A callback under way has taken a state, of somebody; one that is not is  *)
(* as good as new.                                                          *)
LoginCalls ==
  \A c \in Jobs :
     IF m[c].pc = "idle" THEN m[c] = [pc |-> "idle", state |-> "none", by |-> "none", alone |-> TRUE]
     ELSE m[c].state \in Logins /\ m[c].by \in People

(* A login state is in one place: not begun, in the store, with one         *)
(* callback, or spent.                                                      *)
StatesInOnePlace ==
  /\ \A s \in DOMAIN cache : s \in ui.begun /\ ui.issued[s] = 0 /\ \A c \in Jobs : m[c].state # s
  /\ \A c \in Jobs : m[c].pc # "idle" => m[c].state \in ui.begun /\ ui.issued[m[c].state] = 0
  /\ \A c, d \in Jobs : c # d /\ m[c].pc # "idle" => m[c].state # m[d].state
  /\ \A s \in Logins : ui.issued[s] <= 1 /\ (s \notin ui.begun => ui.issued[s] = 0)

(* Who was let through without being the first is on the list.              *)
FirstAdmins ==
  /\ ui.unlisted \subseteq db.admins
  /\ \A c \in Jobs : m[c].pc = "bind" /\ ~ m[c].alone => m[c].by \in One
  /\ ~ ui.raced => \A u, v \in ui.unlisted : u = v

LoginInv == LoginTypes /\ LoginCalls /\ StatesInOnePlace /\ FirstAdmins

IdleLogin == [pc |-> "idle", state |-> "none", by |-> "none", alone |-> TRUE]

LEMMA LoginInit == Login!Init => LoginInv
<1> SUFFICES ASSUME Login!Init PROVE LoginInv
  OBVIOUS
<1> USE DEF Login!Init, Login!Idle, Login!None
<1>1. DOMAIN cache = {} /\ \A c \in Jobs : m[c] = IdleLogin
  BY DEF IdleLogin
<1>2. LoginTypes
  <2>1. cache \in [DOMAIN cache -> [by : People, expired : BOOLEAN]]
    BY <1>1
  <2>2. m \in [Jobs -> LoginCall]
    BY DEF LoginCall
  <2>3. ui \in LoginTokens /\ db \in [users : SUBSET People, admins : SUBSET People]
    BY DEF LoginTokens
  <2> QED
    BY <1>1, <2>1, <2>2, <2>3 DEF LoginTypes
<1>3. LoginCalls
  BY <1>1 DEF LoginCalls, IdleLogin
<1>4. StatesInOnePlace
  BY <1>1 DEF StatesInOnePlace, IdleLogin
<1>5. FirstAdmins
  BY <1>1 DEF FirstAdmins, IdleLogin
<1> QED
  BY <1>2, <1>3, <1>4, <1>5 DEF LoginInv

(* A login begins: its state was nowhere before.                            *)
LEMMA OIDCLoginInv ==
  ASSUME LoginInv, NEW s \in Logins, NEW u \in People, Login!OIDCLogin(s, u)
  PROVE  LoginInv'
<1>1. PICK old : old = {t \in DOMAIN cache : cache[t].expired}
  OBVIOUS
<1>2. /\ s \notin ui.begun
      /\ cache' = [t \in (DOMAIN cache \ old) \cup {s} |->
                     IF t = s THEN [by |-> u, expired |-> FALSE] ELSE [r \in DOMAIN cache \ old |-> cache[r]][t]]
      /\ ui' = [ui EXCEPT !.begun = @ \cup {s}]
      /\ UNCHANGED <<m, db>>
  BY <1>1 DEF Login!OIDCLogin, Login!with, Login!without
<1>3. DOMAIN cache' = (DOMAIN cache \ old) \cup {s} /\ DOMAIN cache' \subseteq Logins
  BY <1>2 DEF LoginInv, LoginTypes
<1>4. cache' \in [DOMAIN cache' -> [by : People, expired : BOOLEAN]]
  BY <1>2, <1>3 DEF LoginInv, LoginTypes
<1>5. /\ ui' \in LoginTokens /\ ui'.begun = ui.begun \cup {s} /\ ui'.issued = ui.issued
      /\ ui'.unlisted = ui.unlisted /\ ui'.raced = ui.raced
  BY <1>2 DEF LoginInv, LoginTypes, LoginTokens
<1>6. LoginTypes'
  BY <1>2, <1>3, <1>4, <1>5 DEF LoginInv, LoginTypes
<1>7. LoginCalls'
  BY <1>2 DEF LoginInv, LoginCalls
<1>8. StatesInOnePlace'
  <2>1. \A c \in Jobs : m[c].state # s
    BY <1>2, NamesAssumption DEF LoginInv, LoginCalls, StatesInOnePlace
  <2>2. ui.issued[s] = 0
    BY <1>2 DEF LoginInv, StatesInOnePlace
  <2>3. \A t \in DOMAIN cache' : t \in ui'.begun /\ ui'.issued[t] = 0 /\ \A c \in Jobs : m[c].state # t
    BY <1>3, <1>5, <2>1, <2>2 DEF LoginInv, StatesInOnePlace
  <2> QED
    BY <1>2, <1>5, <2>3 DEF LoginInv, StatesInOnePlace
<1>9. FirstAdmins'
  BY <1>2, <1>5 DEF LoginInv, FirstAdmins
<1> QED
  BY <1>6, <1>7, <1>8, <1>9 DEF LoginInv

LEMMA ExpireInv ==
  ASSUME LoginInv, NEW s \in Logins, Login!Expire(s)
  PROVE  LoginInv'
<1>1. /\ s \in DOMAIN cache /\ cache' = [cache EXCEPT ![s].expired = TRUE] /\ UNCHANGED <<m, db, ui>>
  BY DEF Login!Expire
<1>2. DOMAIN cache' = DOMAIN cache /\ cache' \in [DOMAIN cache' -> [by : People, expired : BOOLEAN]]
  BY <1>1 DEF LoginInv, LoginTypes
<1>3. LoginTypes'
  BY <1>1, <1>2 DEF LoginInv, LoginTypes
<1>4. LoginCalls' /\ StatesInOnePlace' /\ FirstAdmins'
  BY <1>1, <1>2 DEF LoginInv, LoginCalls, StatesInOnePlace, FirstAdmins
<1> QED
  BY <1>3, <1>4 DEF LoginInv

(* A callback takes the state out of the store: from then on it has it      *)
(* alone, and a repeated callback finds nothing.                            *)
LEMMA ConsumeInv ==
  ASSUME LoginInv, NEW c \in Jobs, NEW s \in Logins, Login!Consume(c, s)
  PROVE  LoginInv'
<1>1. /\ m[c] = IdleLogin /\ s \in DOMAIN cache /\ UNCHANGED <<db, ui>>
      /\ cache' = [t \in DOMAIN cache \ {s} |-> cache[t]]
  BY DEF Login!Consume, Login!taken, Login!without, Login!Idle, Login!None, IdleLogin
<1>2. /\ DOMAIN cache' = DOMAIN cache \ {s} /\ DOMAIN cache' \subseteq Logins
      /\ cache' \in [DOMAIN cache' -> [by : People, expired : BOOLEAN]]
      /\ cache[s].by \in People
  BY <1>1 DEF LoginInv, LoginTypes
<1>3. /\ s \in ui.begun /\ ui.issued[s] = 0 /\ \A d \in Jobs : m[d].state # s
  BY <1>1 DEF LoginInv, StatesInOnePlace
<1>4. CASE cache[s].expired
  <2>1. m' = m
    BY <1>4 DEF Login!Consume
  <2>2. LoginTypes'
    BY <1>1, <1>2, <2>1 DEF LoginInv, LoginTypes
  <2>3. LoginCalls' /\ StatesInOnePlace' /\ FirstAdmins'
    BY <1>1, <1>2, <2>1 DEF LoginInv, LoginCalls, StatesInOnePlace, FirstAdmins
  <2> QED
    BY <2>2, <2>3 DEF LoginInv
<1>5. CASE ~ cache[s].expired
  <2>1. PICK k : k = [Login!Idle EXCEPT !.pc = "exchange", !.state = s, !.by = cache[s].by]
    OBVIOUS
  <2>2. /\ m' \in [Jobs -> LoginCall] /\ \A d \in Jobs \ {c} : m'[d] = m[d]
        /\ m'[c].pc = "exchange" /\ m'[c].state = s /\ m'[c].by = cache[s].by
    <3>1. k \in LoginCall /\ k.pc = "exchange" /\ k.state = s /\ k.by = cache[s].by
      BY <1>2, <2>1 DEF Login!Idle, LoginCall
    <3>2. m' = [m EXCEPT ![c] = k]
      BY <1>5, <2>1 DEF Login!Consume
    <3> QED
      BY <3>1, <3>2 DEF LoginInv, LoginTypes
  <2>3. LoginTypes'
    BY <1>1, <1>2, <2>2 DEF LoginInv, LoginTypes
  <2>4. LoginCalls'
    BY <1>2, <2>2 DEF LoginInv, LoginCalls
  <2>5. StatesInOnePlace'
    <3>1. \A t \in DOMAIN cache' : t \in ui.begun /\ ui.issued[t] = 0 /\ \A d \in Jobs : m'[d].state # t
      BY <1>2, <2>2 DEF LoginInv, StatesInOnePlace
    <3>2. \A d \in Jobs : m'[d].pc # "idle" => m'[d].state \in ui.begun /\ ui.issued[m'[d].state] = 0
      BY <1>3, <2>2 DEF LoginInv, StatesInOnePlace
    <3>3. \A d, e \in Jobs : d # e /\ m'[d].pc # "idle" => m'[d].state # m'[e].state
      BY <1>3, <2>2 DEF LoginInv, StatesInOnePlace
    <3> QED
      BY <1>1, <3>1, <3>2, <3>3 DEF LoginInv, StatesInOnePlace
  <2>6. FirstAdmins'
    BY <1>1, <2>2 DEF LoginInv, FirstAdmins
  <2> QED
    BY <2>3, <2>4, <2>5, <2>6 DEF LoginInv
<1> QED
  BY <1>4, <1>5

(* A callback goes on with its state and its user.                          *)
LEMMA LoginStepInv ==
  ASSUME LoginInv, NEW c \in Jobs, m[c].pc # "idle",
         m' \in [Jobs -> LoginCall], \A d \in Jobs \ {c} : m'[d] = m[d],
         m'[c].pc # "idle", m'[c].state = m[c].state, m'[c].by = m[c].by,
         cache' = cache, ui' \in LoginTokens, ui'.begun = ui.begun, ui'.issued = ui.issued,
         db' \in [users : SUBSET People, admins : SUBSET People]
  PROVE  LoginTypes' /\ LoginCalls' /\ StatesInOnePlace'
<1>1. LoginTypes'
  BY DEF LoginInv, LoginTypes
<1>2. LoginCalls'
  BY DEF LoginInv, LoginCalls
<1>3. \A d \in Jobs : m'[d].state = m[d].state /\ (m'[d].pc = "idle" <=> m[d].pc = "idle")
  OBVIOUS
<1>4. StatesInOnePlace'
  BY <1>3 DEF LoginInv, StatesInOnePlace
<1> QED
  BY <1>1, <1>2, <1>4

LEMMA UpsertUserInv ==
  ASSUME LoginInv, NEW c \in Jobs, Login!UpsertUser(c)
  PROVE  LoginInv'
<1>1. /\ m[c].pc = "exchange" /\ m' = [m EXCEPT ![c].pc = "binding"]
      /\ db' = [db EXCEPT !.users = @ \cup {m[c].by}] /\ UNCHANGED <<cache, ui>>
  BY DEF Login!UpsertUser
<1>2. /\ m' \in [Jobs -> LoginCall] /\ \A d \in Jobs \ {c} : m'[d] = m[d]
      /\ m'[c].pc = "binding" /\ m'[c].state = m[c].state /\ m'[c].by = m[c].by
  BY <1>1 DEF LoginInv, LoginTypes, LoginCall
<1>3. m[c].by \in People
  BY <1>1 DEF LoginInv, LoginCalls
<1>4. db' \in [users : SUBSET People, admins : SUBSET People] /\ db'.admins = db.admins
  BY <1>1, <1>3 DEF LoginInv, LoginTypes
<1>5. LoginTypes' /\ LoginCalls' /\ StatesInOnePlace'
  <2>1. ui' \in LoginTokens
    BY <1>1 DEF LoginInv, LoginTypes
  <2> QED
    BY <1>1, <1>2, <1>4, <2>1, LoginStepInv
<1>6. FirstAdmins'
  BY <1>1, <1>2, <1>4 DEF LoginInv, FirstAdmins
<1> QED
  BY <1>5, <1>6 DEF LoginInv

(* Whoever is not on the list is let through only while there is no admin.  *)
LEMMA EnsureAdminBindingInv ==
  ASSUME LoginInv, NEW c \in Jobs, Login!EnsureAdminBinding(c)
  PROVE  LoginInv'
<1>1. PICK to : to = IF Login!allowBootstrap(m[c].by) THEN "bind" ELSE "issue"
  OBVIOUS
<1>2. PICK al \in BOOLEAN : al <=> db.admins = {}
  OBVIOUS
<1>3. m[c].pc = "binding" /\ UNCHANGED <<cache, db, ui>>
  BY DEF Login!EnsureAdminBinding
<1>4. m[c] \in LoginCall /\ m \in [Jobs -> LoginCall] /\ to \in {"bind", "issue"}
  BY <1>1 DEF LoginInv, LoginTypes
<1>5. /\ m' \in [Jobs -> LoginCall] /\ \A d \in Jobs \ {c} : m'[d] = m[d]
      /\ m'[c].pc = to /\ m'[c].state = m[c].state /\ m'[c].by = m[c].by /\ m'[c].alone = al
  <2>1. al = (db.admins = {})
    BY <1>2
  <2>2. m' = [m EXCEPT ![c].pc = to, ![c].alone = al]
    BY <1>1, <2>1 DEF Login!EnsureAdminBinding
  <2>3. PICK k : k = [m[c] EXCEPT !.pc = to]
    OBVIOUS
  <2>4. k \in LoginCall /\ k.pc = to /\ k.state = m[c].state /\ k.by = m[c].by
    BY <1>4, <2>3 DEF LoginCall
  <2>5. PICK n : n = [k EXCEPT !.alone = al]
    OBVIOUS
  <2>6. n \in LoginCall /\ n.pc = to /\ n.state = m[c].state /\ n.by = m[c].by /\ n.alone = al
    BY <2>4, <2>5 DEF LoginCall
  <2>7. PICK m1 : m1 = [m EXCEPT ![c].pc = to]
    OBVIOUS
  <2>8. m1[c] = k /\ m1 \in [Jobs -> LoginCall] /\ \A d \in Jobs \ {c} : m1[d] = m[d]
    BY <1>4, <2>3, <2>4, <2>7
  <2>9. m' = [m1 EXCEPT ![c].alone = al]
    BY <2>2, <2>7
  <2>10. m'[c] = n /\ m' \in [Jobs -> LoginCall] /\ \A d \in Jobs \ {c} : m'[d] = m1[d]
    BY <2>5, <2>6, <2>8, <2>9
  <2> QED
    BY <2>6, <2>8, <2>10
<1>6. LoginTypes' /\ LoginCalls' /\ StatesInOnePlace'
  <2>1. ui' \in LoginTokens /\ db' \in [users : SUBSET People, admins : SUBSET People]
    BY <1>3 DEF LoginInv, LoginTypes
  <2> QED
    BY <1>3, <1>4, <1>5, <2>1, LoginStepInv
<1>7. FirstAdmins'
  <2>1. to = "bind" /\ ~ al => m[c].by \in One
    BY <1>1, <1>2 DEF Login!allowBootstrap
  <2> QED
    BY <1>3, <1>5, <2>1 DEF LoginInv, FirstAdmins
<1> QED
  BY <1>6, <1>7 DEF LoginInv

(* The binding is made.  Another one that was made since the look counts as *)
(* a race.                                                                  *)
LEMMA BindAdminInv ==
  ASSUME LoginInv, NEW c \in Jobs, Login!BindAdmin(c)
  PROVE  LoginInv'
<1>1. PICK u : u = m[c].by
  OBVIOUS
<1>2. /\ m[c].pc = "bind" /\ m' = [m EXCEPT ![c].pc = "issue"]
      /\ db' = [db EXCEPT !.admins = @ \cup {u}] /\ UNCHANGED cache
  BY <1>1 DEF Login!BindAdmin
<1>3. PICK un, ra : /\ un = IF u \in db.admins \cup One THEN ui.unlisted ELSE ui.unlisted \cup {u}
                    /\ ra = (ui.raced \/ (m[c].alone /\ db.admins # {}))
  OBVIOUS
<1>4. ui' = [ui EXCEPT !.unlisted = un, !.raced = ra]
  BY <1>1, <1>3 DEF Login!BindAdmin
<1>5. u \in People
  BY <1>1, <1>2 DEF LoginInv, LoginCalls
<1>6. /\ ui \in LoginTokens /\ ui.unlisted \subseteq People /\ ui.raced \in BOOLEAN
      /\ m[c].alone \in BOOLEAN /\ db \in [users : SUBSET People, admins : SUBSET People]
  BY DEF LoginInv, LoginTypes, LoginTokens, LoginCall
<1>7. un \in SUBSET People /\ ra \in BOOLEAN
  BY <1>3, <1>5, <1>6
<1>8. ui' = [begun |-> ui.begun, issued |-> ui.issued, unlisted |-> un, raced |-> ra]
  BY <1>4, <1>6 DEF LoginTokens
<1>9. /\ ui' \in LoginTokens /\ ui'.begun = ui.begun /\ ui'.issued = ui.issued
      /\ ui'.unlisted = un /\ ui'.raced = ra
  BY <1>6, <1>7, <1>8 DEF LoginTokens
<1>10. db' \in [users : SUBSET People, admins : SUBSET People] /\ db'.admins = db.admins \cup {u}
  BY <1>2, <1>5, <1>6
<1>11. /\ m' \in [Jobs -> LoginCall] /\ \A d \in Jobs \ {c} : m'[d] = m[d]
       /\ m'[c].pc = "issue" /\ m'[c].state = m[c].state /\ m'[c].by = m[c].by
  BY <1>2 DEF LoginInv, LoginTypes, LoginCall
<1>12. LoginTypes' /\ LoginCalls' /\ StatesInOnePlace'
  BY <1>2, <1>9, <1>10, <1>11, LoginStepInv
<1>13. FirstAdmins'
  <2>1. ui.unlisted \subseteq db.admins /\ (~ m[c].alone => u \in One)
    BY <1>1, <1>2 DEF LoginInv, FirstAdmins
  <2>2. un \subseteq db.admins \cup {u}
    BY <1>3, <2>1
  <2>3. \A d \in Jobs : m'[d].pc = "bind" /\ ~ m'[d].alone => m'[d].by \in One
    BY <1>11 DEF LoginInv, FirstAdmins
  <2>4. ASSUME ~ ra PROVE \A x, y \in un : x = y
    <3>1. ~ ui.raced /\ (m[c].alone => db.admins = {})
      BY <1>3, <1>6, <2>4
    <3>2. \A x, y \in ui.unlisted : x = y
      BY <3>1 DEF LoginInv, FirstAdmins
    <3>3. CASE u \in db.admins \cup One
      BY <1>3, <3>2, <3>3
    <3>4. CASE u \notin db.admins \cup One
      <4>1. ui.unlisted = {}
        BY <2>1, <3>1, <3>4
      <4> QED
        BY <1>3, <3>4, <4>1
    <3> QED
      BY <3>3, <3>4
  <2> QED
    BY <1>9, <1>10, <2>2, <2>3, <2>4 DEF FirstAdmins
<1> QED
  BY <1>12, <1>13 DEF LoginInv

LEMMA UnbindInv ==
  ASSUME LoginInv, NEW u \in People, Login!UnbindRoleFromUser(u)
  PROVE  LoginInv'
<1>1. /\ db' = [db EXCEPT !.admins = @ \ {u}] /\ ui' = [ui EXCEPT !.unlisted = @ \ {u}]
      /\ UNCHANGED <<cache, m>>
  BY DEF Login!UnbindRoleFromUser
<1>2. /\ db' \in [users : SUBSET People, admins : SUBSET People] /\ db'.admins = db.admins \ {u}
      /\ ui' \in LoginTokens /\ ui'.begun = ui.begun /\ ui'.issued = ui.issued
      /\ ui'.unlisted = ui.unlisted \ {u} /\ ui'.raced = ui.raced
  BY <1>1 DEF LoginInv, LoginTypes, LoginTokens
<1>3. LoginTypes' /\ LoginCalls' /\ StatesInOnePlace'
  BY <1>1, <1>2 DEF LoginInv, LoginTypes, LoginCalls, StatesInOnePlace
<1>4. FirstAdmins'
  BY <1>1, <1>2 DEF LoginInv, FirstAdmins
<1> QED
  BY <1>3, <1>4 DEF LoginInv

(* The token is issued, the callback fails, or the server restarts: the     *)
(* states of the callbacks that end are spent.                              *)
LEMMA LoginEndInv ==
  ASSUME LoginInv, NEW ended \in SUBSET Jobs,
         m' \in [Jobs -> LoginCall], \A d \in ended : m'[d] = IdleLogin,
         \A d \in Jobs \ ended : m'[d] = m[d],
         cache' \in [DOMAIN cache' -> [by : People, expired : BOOLEAN]],
         DOMAIN cache' \subseteq DOMAIN cache, db' = db,
         ui' \in LoginTokens, ui'.begun = ui.begun, ui'.unlisted = ui.unlisted, ui'.raced = ui.raced,
         \A s \in Logins : \/ ui'.issued[s] = ui.issued[s]
                           \/ \E d \in ended : /\ m[d].pc # "idle" /\ m[d].state = s
                                               /\ ui'.issued[s] = ui.issued[s] + 1
  PROVE  LoginInv'
<1>1. DOMAIN cache \subseteq Logins /\ \A d \in Jobs : m[d].pc # "idle" => m[d].state \in Logins
  BY DEF LoginInv, LoginTypes, LoginCalls
<1>2. LoginTypes'
  BY <1>1 DEF LoginInv, LoginTypes
<1>3. LoginCalls'
  BY DEF LoginInv, LoginCalls, IdleLogin
<1>4. ASSUME NEW s \in Logins, ui'.issued[s] # ui.issued[s]
      PROVE  /\ ui'.issued[s] = 1 /\ s \in ui.begun /\ s \notin DOMAIN cache
             /\ \A d \in Jobs \ ended : m[d].state # s
  <2>1. PICK d \in ended : m[d].pc # "idle" /\ m[d].state = s /\ ui'.issued[s] = ui.issued[s] + 1
    BY <1>4
  <2> QED
    BY <2>1 DEF LoginInv, StatesInOnePlace
<1>5. StatesInOnePlace'
  <2>1. \A s \in DOMAIN cache' : s \in ui'.begun /\ ui'.issued[s] = 0 /\ \A d \in Jobs : m'[d].state # s
    <3> SUFFICES ASSUME NEW s \in DOMAIN cache'
                 PROVE  s \in ui'.begun /\ ui'.issued[s] = 0 /\ \A d \in Jobs : m'[d].state # s
      OBVIOUS
    <3>1. s \in Logins /\ s \in ui.begun /\ ui.issued[s] = 0 /\ \A d \in Jobs : m[d].state # s
      BY <1>1 DEF LoginInv, StatesInOnePlace
    <3>2. ui'.issued[s] = 0
      BY <1>4, <3>1
    <3> QED
      BY <3>1, <3>2, NamesAssumption DEF IdleLogin
  <2>2. \A d \in Jobs : m'[d].pc # "idle" => m'[d].state \in ui'.begun /\ ui'.issued[m'[d].state] = 0
    <3> SUFFICES ASSUME NEW d \in Jobs, m'[d].pc # "idle"
                 PROVE  m'[d].state \in ui'.begun /\ ui'.issued[m'[d].state] = 0
      OBVIOUS
    <3>1. d \notin ended /\ m'[d] = m[d]
      BY DEF IdleLogin
    <3>2. m[d].state \in Logins /\ m[d].state \in ui.begun /\ ui.issued[m[d].state] = 0
      BY <1>1, <3>1 DEF LoginInv, StatesInOnePlace
    <3> QED
      BY <1>4, <3>1, <3>2
  <2>3. \A d, e \in Jobs : d # e /\ m'[d].pc # "idle" => m'[d].state # m'[e].state
    <3> SUFFICES ASSUME NEW d \in Jobs, NEW e \in Jobs, d # e, m'[d].pc # "idle"
                 PROVE  m'[d].state # m'[e].state
      OBVIOUS
    <3>1. d \notin ended /\ m'[d] = m[d]
      BY DEF IdleLogin
    <3>2. m[d].state \in Logins
      BY <1>1, <3>1
    <3>3. CASE e \in ended
      BY <3>1, <3>2, <3>3, NamesAssumption DEF IdleLogin
    <3>4. CASE e \notin ended
      BY <3>1, <3>4 DEF LoginInv, StatesInOnePlace
    <3> QED
      BY <3>3, <3>4
  <2>4. \A s \in Logins : ui'.issued[s] <= 1 /\ (s \notin ui'.begun => ui'.issued[s] = 0)
    BY <1>4 DEF LoginInv, StatesInOnePlace
  <2> QED
    BY <2>1, <2>2, <2>3, <2>4 DEF StatesInOnePlace
<1>6. FirstAdmins'
  BY DEF LoginInv, FirstAdmins, IdleLogin
<1> QED
  BY <1>2, <1>3, <1>5, <1>6 DEF LoginInv

LEMMA IssueInv ==
  ASSUME LoginInv, NEW c \in Jobs, Login!Issue(c) \/ Login!Fail(c)
  PROVE  LoginInv'
<1>1. m' = [m EXCEPT ![c] = IdleLogin] /\ UNCHANGED <<cache, db>>
  BY DEF Login!Issue, Login!Fail, Login!Idle, Login!None, IdleLogin
<1>2. /\ m' \in [Jobs -> LoginCall] /\ \A d \in {c} : m'[d] = IdleLogin
      /\ \A d \in Jobs \ {c} : m'[d] = m[d]
  <2>1. m \in [Jobs -> LoginCall] /\ IdleLogin \in LoginCall
    BY DEF LoginInv, LoginTypes, LoginCall, IdleLogin
  <2> QED
    BY <1>1, <2>1
<1>3. /\ ui' \in LoginTokens /\ ui'.begun = ui.begun /\ ui'.unlisted = ui.unlisted /\ ui'.raced = ui.raced
      /\ \A s \in Logins : \/ ui'.issued[s] = ui.issued[s]
                           \/ \E d \in {c} : /\ m[d].pc # "idle" /\ m[d].state = s
                                             /\ ui'.issued[s] = ui.issued[s] + 1
  <2>1. CASE Login!Fail(c)
    BY <2>1 DEF Login!Fail, LoginInv, LoginTypes
  <2>2. CASE Login!Issue(c)
    <3>1. PICK s : s = m[c].state
      OBVIOUS
    <3>2. m[c].pc = "issue" /\ ui' = [ui EXCEPT !.issued[s] = @ + 1]
      BY <2>2, <3>1 DEF Login!Issue
    <3>3. s \in Logins
      BY <3>1, <3>2 DEF LoginInv, LoginCalls
    <3>4. ui \in LoginTokens /\ ui.issued \in [Logins -> Nat]
      BY DEF LoginInv, LoginTypes, LoginTokens
    <3>5. PICK is : is = [ui.issued EXCEPT ![s] = @ + 1]
      OBVIOUS
    <3>6. is \in [Logins -> Nat] /\ is[s] = ui.issued[s] + 1 /\ \A t \in Logins \ {s} : is[t] = ui.issued[t]
      BY <3>3, <3>4, <3>5
    <3>7. ui' = [ui EXCEPT !.issued = is]
      BY <3>2, <3>5
    <3>8. /\ ui' \in LoginTokens /\ ui'.begun = ui.begun /\ ui'.unlisted = ui.unlisted
          /\ ui'.raced = ui.raced /\ ui'.issued = is
      BY <3>4, <3>6, <3>7 DEF LoginTokens
    <3> QED
      BY <3>1, <3>2, <3>6, <3>8
  <2> QED
    BY <2>1, <2>2
<1>4. cache' \in [DOMAIN cache' -> [by : People, expired : BOOLEAN]] /\ DOMAIN cache' \subseteq DOMAIN cache
  BY <1>1 DEF LoginInv, LoginTypes
<1>5. PICK ended \in SUBSET Jobs : ended = {c}
  OBVIOUS
<1>6. /\ \A d \in ended : m'[d] = IdleLogin
      /\ \A d \in Jobs \ ended : m'[d] = m[d]
  BY <1>2, <1>5
<1>7. \A s \in Logins : \/ ui'.issued[s] = ui.issued[s]
                         \/ \E d \in ended : /\ m[d].pc # "idle" /\ m[d].state = s
                                             /\ ui'.issued[s] = ui.issued[s] + 1
  BY <1>3, <1>5, Zenon
<1> QED
  BY <1>1, <1>2, <1>3, <1>4, <1>6, <1>7, LoginEndInv

LEMMA LoginRestartInv ==
  ASSUME LoginInv, Login!Restart
  PROVE  LoginInv'
<1>1. /\ cache' = [s \in DOMAIN cache \ Logins |-> cache[s]] /\ UNCHANGED <<db, ui>>
      /\ m' = [c \in Jobs |-> IdleLogin]
  BY DEF Login!Restart, Login!without, Login!Idle, Login!None, IdleLogin
<1>2. m' \in [Jobs -> LoginCall] /\ \A d \in Jobs : m'[d] = IdleLogin
  <2>1. IdleLogin \in LoginCall
    BY DEF LoginCall, IdleLogin
  <2> QED
    BY <1>1, <2>1
<1>3. /\ cache' \in [DOMAIN cache' -> [by : People, expired : BOOLEAN]]
      /\ DOMAIN cache' \subseteq DOMAIN cache /\ ui' \in LoginTokens
  BY <1>1 DEF LoginInv, LoginTypes
<1> QED
  BY <1>1, <1>2, <1>3, LoginEndInv

LEMMA LoginNext == LoginInv /\ Login!Next => LoginInv'
<1> SUFFICES ASSUME LoginInv, Login!Next PROVE LoginInv'
  OBVIOUS
<1>1. ASSUME NEW s \in Logins, Login!Expire(s) \/ \E u \in People : Login!OIDCLogin(s, u) PROVE LoginInv'
  BY <1>1, ExpireInv, OIDCLoginInv
<1>2. ASSUME NEW c \in Jobs,
             \/ \E s \in Logins : Login!Consume(c, s)
             \/ Login!UpsertUser(c) \/ Login!EnsureAdminBinding(c) \/ Login!BindAdmin(c)
             \/ Login!Issue(c) \/ Login!Fail(c)
      PROVE  LoginInv'
  BY <1>2, ConsumeInv, UpsertUserInv, EnsureAdminBindingInv, BindAdminInv, IssueInv
<1>3. ASSUME NEW u \in People, Login!UnbindRoleFromUser(u) PROVE LoginInv'
  BY <1>3, UnbindInv
<1>4. CASE Login!Restart
  BY <1>4, LoginRestartInv
<1> QED
  BY <1>1, <1>2, <1>3, <1>4 DEF Login!Next, People

(* One login leads to one token, and one administrator at most comes from   *)
(* being the first.                                                         *)
LEMMA LoginSafe ==
  LoginInv => Login!TypeOK /\ Login!OneTokenPerLogin /\ Login!OneFirstAdmin
<1> SUFFICES ASSUME LoginInv PROVE Login!TypeOK /\ Login!OneTokenPerLogin /\ Login!OneFirstAdmin
  OBVIOUS
<1>1. Login!TypeOK
  BY DEF LoginInv, LoginTypes, Login!TypeOK, Login!Entry, People
<1>2. \A c \in Jobs : m[c] # Login!Idle => m[c].pc # "idle"
  BY DEF LoginInv, LoginCalls, Login!Idle, Login!None
<1>3. Login!OneTokenPerLogin
  BY <1>2 DEF LoginInv, StatesInOnePlace, Login!OneTokenPerLogin
<1>4. Login!OneFirstAdmin
  <2>1. CASE ui.raced
    BY <2>1 DEF Login!OneFirstAdmin
  <2>2. CASE ~ ui.raced
    <3>1. \A u, v \in ui.unlisted : u = v
      BY <2>2 DEF LoginInv, FirstAdmins
    <3>2. Cardinality(ui.unlisted) <= 1
      BY <3>1, AtMostOne
    <3> QED
      BY <3>2, SameCardinality DEF Login!OneFirstAdmin
  <2> QED
    BY <2>1, <2>2
<1> QED
  BY <1>1, <1>3, <1>4

-----------------------------------------------------------------------------
(* The goroutines of a terminal.                                            *)

Pumps == {"stdout", "stderr"}
At(pump, pc) == {s \in Pumps : pump[s] = pc}

TerminalTypes ==
  /\ db \in [unread : [Pumps -> Nat], left : [Pumps -> Nat], exited : BOOLEAN, open : BOOLEAN]
  /\ cache \in [pump : [Pumps -> {"read", "record", "write", "writing", "returned"}],
                input : {"read", "writing", "returned"}, done : BOOLEAN]
  /\ m \in [pc : {"select", "exit", "returned", "recorded", "closed", "crashed"},
            bytes : Nat, exit : BOOLEAN, recorder : BOOLEAN]
  /\ ui \in [outBytes : Nat, cast : Nat, shown : Nat, late : Nat, lost : Nat]

(* Every chunk that was counted is in the cast, came too late for it, was   *)
(* lost, or is on its way to the recorder.                                  *)
ChunksAccounted ==
  /\ ui.outBytes = ui.cast + ui.late + ui.lost + Cardinality(At(cache.pump, "record"))
  /\ m.pc \in {"select", "exit", "returned"} => ui.late = 0

(* What is about to be sent has been through the recorder.                  *)
ShownAfterRecorded == ui.shown + Cardinality(At(cache.pump, "write")) <= ui.cast + ui.late + ui.lost

TerminalInv ==
  TerminalTypes /\ ChunksAccounted /\ ShownAfterRecorded /\ m.bytes <= ui.cast + ui.lost + Cardinality(Pumps)

LEMMA PumpsFinite == IsFiniteSet(Pumps)
<1>1. IsFiniteSet({"stdout"})
  BY FS_Singleton
<1>2. IsFiniteSet({"stdout"} \cup {"stderr"})
  BY <1>1, FS_AddElement
<1>3. Pumps = {"stdout"} \cup {"stderr"}
  BY DEF Pumps
<1> QED
  BY <1>2, <1>3

(* A pump goes from one place to another.                                   *)
LEMMA PumpMoves ==
  ASSUME NEW f \in [Pumps -> {"read", "record", "write", "writing", "returned"}], NEW s \in Pumps,
         NEW y \in {"read", "record", "write", "writing", "returned"}, f[s] # y,
         NEW g \in [Pumps -> {"read", "record", "write", "writing", "returned"}],
         g[s] = y, \A t \in Pumps \ {s} : g[t] = f[t]
  PROVE  /\ Cardinality(At(g, y)) = Cardinality(At(f, y)) + 1
         /\ Cardinality(At(g, f[s])) = Cardinality(At(f, f[s])) - 1
         /\ \A x : x # y /\ x # f[s] => At(g, x) = At(f, x)
<1>1. IsFiniteSet(Pumps)
  BY PumpsFinite
<1>2. \A x : IsFiniteSet(At(f, x))
  BY <1>1, FS_Subset DEF At
<1>3. At(g, y) = At(f, y) \cup {s} /\ s \notin At(f, y)
  BY DEF At
<1>4. At(g, f[s]) = At(f, f[s]) \ {s} /\ s \in At(f, f[s])
  BY DEF At
<1>5. Cardinality(At(g, y)) = Cardinality(At(f, y)) + 1
  BY <1>2, <1>3, FS_AddElement
<1>6. Cardinality(At(g, f[s])) = Cardinality(At(f, f[s])) - 1
  BY <1>2, <1>4, FS_RemoveElement
<1>7. \A x : x # y /\ x # f[s] => At(g, x) = At(f, x)
  BY DEF At
<1> QED
  BY <1>5, <1>6, <1>7

(* There are no more pumps at a place than there are pumps.                 *)
LEMMA PumpsBounded ==
  ASSUME NEW f, NEW x
  PROVE  Cardinality(At(f, x)) \in Nat /\ Cardinality(Pumps) \in Nat
         /\ Cardinality(At(f, x)) <= Cardinality(Pumps)
<1>1. IsFiniteSet(Pumps)
  BY PumpsFinite
<1> QED
  BY <1>1, FS_Subset, FS_CardinalityType DEF At

LEMMA TerminalInit == Terminal!Init => TerminalInv
<1> SUFFICES ASSUME Terminal!Init PROVE TerminalInv
  OBVIOUS
<1> USE DEF Terminal!Init
<1>1. TerminalTypes
  BY BoundsAssumption DEF TerminalTypes, Pumps
<1>2. At(cache.pump, "record") = {} /\ At(cache.pump, "write") = {}
  BY DEF At, Pumps
<1>3. Cardinality(At(cache.pump, "record")) = 0 /\ Cardinality(At(cache.pump, "write")) = 0
  BY <1>2, FS_EmptySet
<1>4. Cardinality(Pumps) \in Nat
  BY PumpsBounded
<1> QED
  BY <1>1, <1>3, <1>4 DEF TerminalInv, ChunksAccounted, ShownAfterRecorded

(* What the steps of the pumps do to the places of the pumps and the log.   *)
LEMMA PumpStep ==
  ASSUME TerminalInv, NEW s \in Pumps,
         Terminal!pumpRead(s) \/ Terminal!WriteOutput(s) \/ Terminal!pumpWrite(s)
           \/ Terminal!pumpWritten(s) \/ Terminal!pumpReturn(s)
  PROVE  TerminalInv'
<1>1. /\ cache \in [pump : [Pumps -> {"read", "record", "write", "writing", "returned"}],
                    input : {"read", "writing", "returned"}, done : BOOLEAN]
      /\ db \in [unread : [Pumps -> Nat], left : [Pumps -> Nat], exited : BOOLEAN, open : BOOLEAN]
      /\ m \in [pc : {"select", "exit", "returned", "recorded", "closed", "crashed"},
                bytes : Nat, exit : BOOLEAN, recorder : BOOLEAN]
      /\ ui \in [outBytes : Nat, cast : Nat, shown : Nat, late : Nat, lost : Nat]
  BY DEF TerminalInv, TerminalTypes
<1>2. PICK f : f = cache.pump
  OBVIOUS
<1>3. f \in [Pumps -> {"read", "record", "write", "writing", "returned"}]
  BY <1>1, <1>2
<1>4. /\ ui.outBytes = ui.cast + ui.late + ui.lost + Cardinality(At(f, "record"))
      /\ ui.shown + Cardinality(At(f, "write")) <= ui.cast + ui.late + ui.lost
      /\ m.pc \in {"select", "exit", "returned"} => ui.late = 0
      /\ m.bytes <= ui.cast + ui.lost + Cardinality(Pumps)
      /\ Cardinality(At(f, "record")) \in Nat /\ Cardinality(At(f, "write")) \in Nat
      /\ Cardinality(Pumps) \in Nat
  BY <1>2, PumpsBounded DEF TerminalInv, ChunksAccounted, ShownAfterRecorded
<1>5. m' = m
  BY DEF Terminal!pumpRead, Terminal!WriteOutput, Terminal!pumpWrite, Terminal!pumpWritten,
     Terminal!pumpReturn
<1>6. SUFFICES ASSUME NEW y \in {"read", "record", "write", "writing", "returned"}, f[s] # y,
                      cache' \in [pump : [Pumps -> {"read", "record", "write", "writing", "returned"}],
                                  input : {"read", "writing", "returned"}, done : BOOLEAN],
                      cache'.pump = [f EXCEPT ![s] = y],
                      \/ /\ f[s] = "read" /\ y = "record"
                         /\ db' = [db EXCEPT !.unread[s] = @ - 1] /\ db.unread[s] > 0
                         /\ ui' = [ui EXCEPT !.outBytes = @ + 1]
                      \/ /\ f[s] = "record" /\ y = "write" /\ db' = db
                         /\ \/ Terminal!recorderOpen /\ ui' = [ui EXCEPT !.cast = @ + 1]
                            \/ ~ Terminal!recorderOpen /\ ui' = [ui EXCEPT !.late = @ + 1]
                            \/ ui' = [ui EXCEPT !.lost = @ + 1]
                      \/ /\ f[s] = "write" /\ y = "writing" /\ db' = db
                         /\ ui' = [ui EXCEPT !.shown = @ + 1]
                      \/ f[s] # "record" /\ y = "read" /\ db' = db /\ ui' = ui
                      \/ f[s] # "record" /\ y = "returned" /\ db' = db /\ ui' = ui
              PROVE   TerminalInv'
  <2>1. CASE Terminal!pumpRead(s)
    <3>1. cache' = [cache EXCEPT !.pump[s] = "record"]
      BY <2>1 DEF Terminal!pumpRead
    <3>2. /\ cache' \in [pump : [Pumps -> {"read", "record", "write", "writing", "returned"}],
                         input : {"read", "writing", "returned"}, done : BOOLEAN]
          /\ cache'.pump = [f EXCEPT ![s] = "record"]
      BY <1>1, <1>2, <3>1
    <3> QED
      BY <1>2, <1>6, <2>1, <3>2 DEF Terminal!pumpRead
  <2>2. CASE Terminal!WriteOutput(s)
    <3>1. cache' = [cache EXCEPT !.pump[s] = "write"]
      BY <2>2 DEF Terminal!WriteOutput
    <3>2. /\ cache' \in [pump : [Pumps -> {"read", "record", "write", "writing", "returned"}],
                         input : {"read", "writing", "returned"}, done : BOOLEAN]
          /\ cache'.pump = [f EXCEPT ![s] = "write"]
      BY <1>1, <1>2, <3>1
    <3> QED
      BY <1>2, <1>6, <2>2, <3>2 DEF Terminal!WriteOutput
  <2>3. CASE Terminal!pumpWrite(s)
    <3>1. cache' = [cache EXCEPT !.pump[s] = "writing"]
      BY <2>3 DEF Terminal!pumpWrite
    <3>2. /\ cache' \in [pump : [Pumps -> {"read", "record", "write", "writing", "returned"}],
                         input : {"read", "writing", "returned"}, done : BOOLEAN]
          /\ cache'.pump = [f EXCEPT ![s] = "writing"]
      BY <1>1, <1>2, <3>1
    <3> QED
      BY <1>2, <1>6, <2>3, <3>2 DEF Terminal!pumpWrite
  <2>4. CASE Terminal!pumpWritten(s)
    <3>1. cache' = [cache EXCEPT !.pump[s] = "read"]
      BY <2>4 DEF Terminal!pumpWritten
    <3>2. /\ cache' \in [pump : [Pumps -> {"read", "record", "write", "writing", "returned"}],
                         input : {"read", "writing", "returned"}, done : BOOLEAN]
          /\ cache'.pump = [f EXCEPT ![s] = "read"]
      BY <1>1, <1>2, <3>1
    <3> QED
      BY <1>2, <1>6, <2>4, <3>2 DEF Terminal!pumpWritten
  <2>5. CASE Terminal!pumpReturn(s)
    <3>1. cache' = [cache EXCEPT !.pump[s] = "returned", !.done = TRUE]
      BY <2>5 DEF Terminal!pumpReturn
    <3>2. /\ cache' \in [pump : [Pumps -> {"read", "record", "write", "writing", "returned"}],
                         input : {"read", "writing", "returned"}, done : BOOLEAN]
          /\ cache'.pump = [f EXCEPT ![s] = "returned"]
      <4>1. PICK g : g = [f EXCEPT ![s] = "returned"]
        OBVIOUS
      <4>2. cache' = [pump |-> g, input |-> cache.input, done |-> TRUE]
        BY <1>1, <1>2, <3>1, <4>1
      <4> QED
        BY <1>1, <1>3, <4>1, <4>2
    <3> QED
      BY <1>2, <1>6, <2>5, <3>2 DEF Terminal!pumpReturn
  <2> QED
    BY <2>1, <2>2, <2>3, <2>4, <2>5
<1>7. PICK g : g = [f EXCEPT ![s] = y]
  OBVIOUS
<1>8. /\ Cardinality(At(g, y)) = Cardinality(At(f, y)) + 1
      /\ Cardinality(At(g, f[s])) = Cardinality(At(f, f[s])) - 1
      /\ \A x : x # y /\ x # f[s] => At(g, x) = At(f, x)
  <2>1. f[s] # y
    BY <1>6
  <2>2. /\ g \in [Pumps -> {"read", "record", "write", "writing", "returned"}]
        /\ g[s] = y /\ \A t \in Pumps \ {s} : g[t] = f[t]
    BY <1>3, <1>7
  <2> HIDE <1>6
  <2> QED
    BY <1>3, <2>1, <2>2, PumpMoves
<1>9. cache'.pump = g
  BY <1>6, <1>7
<1>10. SUFFICES /\ db' \in [unread : [Pumps -> Nat], left : [Pumps -> Nat], exited : BOOLEAN, open : BOOLEAN]
                /\ ui' \in [outBytes : Nat, cast : Nat, shown : Nat, late : Nat, lost : Nat]
                /\ ui'.outBytes = ui'.cast + ui'.late + ui'.lost + Cardinality(At(g, "record"))
                /\ ui'.shown + Cardinality(At(g, "write")) <= ui'.cast + ui'.late + ui'.lost
                /\ m.pc \in {"select", "exit", "returned"} => ui'.late = 0
                /\ m.bytes <= ui'.cast + ui'.lost + Cardinality(Pumps)
  <2>1. TerminalTypes'
    BY <1>1, <1>5, <1>6, <1>10 DEF TerminalTypes
  <2>2. ChunksAccounted' /\ ShownAfterRecorded' /\ (m.bytes <= ui.cast + ui.lost + Cardinality(Pumps))'
    BY <1>5, <1>9, <1>10 DEF ChunksAccounted, ShownAfterRecorded
  <2> QED
    BY <2>1, <2>2 DEF TerminalInv
<1>11. CASE f[s] = "read" /\ y = "record"
  <2>1. /\ ui' = [ui EXCEPT !.outBytes = @ + 1]
        /\ db' = [db EXCEPT !.unread[s] = @ - 1] /\ db.unread[s] > 0
    BY <1>6, <1>11
  <2>2. db' \in [unread : [Pumps -> Nat], left : [Pumps -> Nat], exited : BOOLEAN, open : BOOLEAN]
    <3>1. db.unread[s] - 1 \in Nat
      BY <1>1, <2>1
    <3> QED
      BY <1>1, <2>1, <3>1
  <2>3. /\ ui' \in [outBytes : Nat, cast : Nat, shown : Nat, late : Nat, lost : Nat]
        /\ ui'.outBytes = ui.outBytes + 1 /\ ui'.cast = ui.cast /\ ui'.late = ui.late
        /\ ui'.shown = ui.shown /\ ui'.lost = ui.lost
    BY <1>1, <2>1
  <2>4. At(g, "write") = At(f, "write")
    BY <1>8, <1>11
  <2> QED
    BY <1>1, <1>4, <1>8, <1>11, <2>2, <2>3, <2>4
<1>12. CASE f[s] = "record" /\ y = "write"
  <2>1. /\ db' = db
        /\ \/ Terminal!recorderOpen /\ ui' = [ui EXCEPT !.cast = @ + 1]
           \/ ~ Terminal!recorderOpen /\ ui' = [ui EXCEPT !.late = @ + 1]
           \/ ui' = [ui EXCEPT !.lost = @ + 1]
    BY <1>6, <1>12
  <2>2. CASE ui' = [ui EXCEPT !.cast = @ + 1]
    <3>1. /\ ui' \in [outBytes : Nat, cast : Nat, shown : Nat, late : Nat, lost : Nat]
          /\ ui'.outBytes = ui.outBytes /\ ui'.cast = ui.cast + 1 /\ ui'.late = ui.late
          /\ ui'.shown = ui.shown /\ ui'.lost = ui.lost
      BY <1>1, <2>2
    <3> QED
      BY <1>1, <1>4, <1>8, <1>12, <2>1, <3>1
  <2>3. CASE ~ Terminal!recorderOpen /\ ui' = [ui EXCEPT !.late = @ + 1]
    <3>1. /\ ui' \in [outBytes : Nat, cast : Nat, shown : Nat, late : Nat, lost : Nat]
          /\ ui'.outBytes = ui.outBytes /\ ui'.cast = ui.cast /\ ui'.late = ui.late + 1
          /\ ui'.shown = ui.shown /\ ui'.lost = ui.lost
      BY <1>1, <2>3
    <3>2. m.pc \notin {"select", "exit", "returned"}
      BY <2>3 DEF Terminal!recorderOpen
    <3> QED
      BY <1>1, <1>4, <1>8, <1>12, <2>1, <3>1, <3>2
  <2>4. CASE ui' = [ui EXCEPT !.lost = @ + 1]
    <3>1. /\ ui' \in [outBytes : Nat, cast : Nat, shown : Nat, late : Nat, lost : Nat]
          /\ ui'.outBytes = ui.outBytes /\ ui'.cast = ui.cast /\ ui'.late = ui.late
          /\ ui'.shown = ui.shown /\ ui'.lost = ui.lost + 1
      BY <1>1, <2>4
    <3> QED
      BY <1>1, <1>4, <1>8, <1>12, <2>1, <3>1
  <2> QED
    BY <2>1, <2>2, <2>3, <2>4
<1>13. CASE f[s] = "write" /\ y = "writing"
  <2>1. db' = db /\ ui' = [ui EXCEPT !.shown = @ + 1]
    BY <1>6, <1>13
  <2>2. /\ ui' \in [outBytes : Nat, cast : Nat, shown : Nat, late : Nat, lost : Nat]
        /\ ui'.outBytes = ui.outBytes /\ ui'.cast = ui.cast /\ ui'.late = ui.late
        /\ ui'.shown = ui.shown + 1 /\ ui'.lost = ui.lost
    BY <1>1, <2>1
  <2>3. At(g, "record") = At(f, "record")
    BY <1>8, <1>13
  <2> QED
    BY <1>1, <1>4, <1>8, <1>13, <2>1, <2>2, <2>3
<1>14. CASE f[s] # "record" /\ y \in {"read", "returned"} /\ db' = db /\ ui' = ui
  <2>1. At(g, "record") = At(f, "record")
    BY <1>8, <1>14
  <2>2. Cardinality(At(g, "write")) <= Cardinality(At(f, "write"))
    <3>1. CASE f[s] = "write"
      BY <1>4, <1>8, <3>1
    <3>2. CASE f[s] # "write"
      BY <1>4, <1>8, <1>14, <3>2
    <3> QED
      BY <3>1, <3>2
  <2>3. Cardinality(At(g, "write")) \in Nat
    BY PumpsBounded
  <2> QED
    BY <1>1, <1>4, <1>14, <2>1, <2>2, <2>3
<1> QED
  BY <1>6, <1>11, <1>12, <1>13, <1>14

(* The chunks stay where they are, and the counter is read, if at all,      *)
(* before the recorder is closed.                                           *)
ChunksStay ==
  /\ db' \in [unread : [Pumps -> Nat], left : [Pumps -> Nat], exited : BOOLEAN, open : BOOLEAN]
  /\ cache' \in [pump : [Pumps -> {"read", "record", "write", "writing", "returned"}],
                 input : {"read", "writing", "returned"}, done : BOOLEAN]
  /\ cache'.pump = cache.pump /\ ui' = ui
  /\ m' \in [pc : {"select", "exit", "returned", "recorded", "closed", "crashed"},
             bytes : Nat, exit : BOOLEAN, recorder : BOOLEAN]
  /\ m'.pc \in {"select", "exit", "returned"} => m.pc \in {"select", "exit", "returned"}
  /\ m'.bytes = m.bytes \/ (m'.bytes = ui.outBytes /\ m.pc \in {"select", "exit"})

LEMMA ChunksStayInv == TerminalInv /\ ChunksStay => TerminalInv'
<1> SUFFICES ASSUME TerminalInv, ChunksStay PROVE TerminalInv'
  OBVIOUS
<1>1. TerminalTypes'
  BY DEF ChunksStay, TerminalInv, TerminalTypes
<1>2. ChunksAccounted' /\ ShownAfterRecorded'
  BY DEF ChunksStay, TerminalInv, ChunksAccounted, ShownAfterRecorded
<1>3. (m.bytes <= ui.cast + ui.lost + Cardinality(Pumps))'
  <2>1. /\ Cardinality(At(cache.pump, "record")) \in Nat /\ Cardinality(Pumps) \in Nat
        /\ Cardinality(At(cache.pump, "record")) <= Cardinality(Pumps)
    BY PumpsBounded
  <2>2. m.pc \in {"select", "exit"} => ui.outBytes <= ui.cast + ui.lost + Cardinality(Pumps)
    BY <2>1 DEF TerminalInv, TerminalTypes, ChunksAccounted
  <2> QED
    BY <2>2 DEF ChunksStay, TerminalInv
<1> QED
  BY <1>1, <1>2, <1>3 DEF TerminalInv

(* The shell, the input loop and the handler leave the chunks alone.        *)
LEMMA TerminalOther ==
  ASSUME TerminalInv,
         \/ \E s \in Pumps : Terminal!Output(s)
         \/ Terminal!Exit \/ Terminal!ConnectionLost \/ Terminal!inputPing \/ Terminal!inputReturn
         \/ Terminal!Crash \/ Terminal!selectWait \/ Terminal!closeRecorder \/ Terminal!closeWS
         \/ Terminal!runSessionReturn
  PROVE  TerminalInv'
<1>1. /\ cache \in [pump : [Pumps -> {"read", "record", "write", "writing", "returned"}],
                    input : {"read", "writing", "returned"}, done : BOOLEAN]
      /\ db \in [unread : [Pumps -> Nat], left : [Pumps -> Nat], exited : BOOLEAN, open : BOOLEAN]
      /\ m \in [pc : {"select", "exit", "returned", "recorded", "closed", "crashed"},
                bytes : Nat, exit : BOOLEAN, recorder : BOOLEAN]
      /\ ui \in [outBytes : Nat, cast : Nat, shown : Nat, late : Nat, lost : Nat]
  BY DEF TerminalInv, TerminalTypes
<1>2. SUFFICES ChunksStay
  BY ChunksStayInv
<1>3. ASSUME NEW s \in Pumps, Terminal!Output(s) PROVE ChunksStay
  <2>1. /\ db' = [db EXCEPT !.unread[s] = @ + 1, !.left[s] = @ - 1] /\ db.left[s] > 0
        /\ UNCHANGED <<cache, m, ui>>
    BY <1>3 DEF Terminal!Output
  <2> DEFINE u == [db.unread EXCEPT ![s] = @ + 1]
             l == [db.left EXCEPT ![s] = @ - 1]
  <2>2. u \in [Pumps -> Nat] /\ l \in [Pumps -> Nat]
    BY <1>1, <2>1
  <2>3. db' = [unread |-> u, left |-> l, exited |-> db.exited, open |-> db.open]
    BY <1>1, <2>1
  <2> HIDE DEF u, l
  <2>4. db' \in [unread : [Pumps -> Nat], left : [Pumps -> Nat], exited : BOOLEAN, open : BOOLEAN]
    BY <1>1, <2>2, <2>3
  <2> QED
    BY <1>1, <2>1, <2>4 DEF ChunksStay
<1>4. CASE Terminal!Exit \/ Terminal!ConnectionLost
  <2>1. PICK e \in BOOLEAN, o \in BOOLEAN :
          db' = [unread |-> db.unread, left |-> db.left, exited |-> e, open |-> o]
    <3>1. CASE Terminal!Exit
      <4>1. db' = [db EXCEPT !.exited = TRUE]
        BY <3>1 DEF Terminal!Exit
      <4>2. db' = [unread |-> db.unread, left |-> db.left, exited |-> TRUE, open |-> db.open]
        BY <1>1, <4>1
      <4> QED
        BY <1>1, <4>2
    <3>2. CASE Terminal!ConnectionLost
      <4>1. db' = [db EXCEPT !.open = FALSE]
        BY <3>2 DEF Terminal!ConnectionLost
      <4>2. db' = [unread |-> db.unread, left |-> db.left, exited |-> db.exited, open |-> FALSE]
        BY <1>1, <4>1
      <4> QED
        BY <1>1, <4>2
    <3> QED
      BY <1>4, <3>1, <3>2
  <2>2. UNCHANGED <<cache, m, ui>>
    BY <1>4 DEF Terminal!Exit, Terminal!ConnectionLost
  <2>3. db' \in [unread : [Pumps -> Nat], left : [Pumps -> Nat], exited : BOOLEAN, open : BOOLEAN]
    BY <1>1, <2>1
  <2> QED
    BY <1>1, <2>2, <2>3 DEF ChunksStay
<1>5. CASE Terminal!inputPing \/ Terminal!inputReturn
  <2>1. /\ cache' \in [pump : [Pumps -> {"read", "record", "write", "writing", "returned"}],
                       input : {"read", "writing", "returned"}, done : BOOLEAN]
        /\ cache'.pump = cache.pump
    <3>1. CASE Terminal!inputPing
      <4>1. PICK i \in {"read", "writing"} : cache' = [cache EXCEPT !.input = i]
        BY <3>1 DEF Terminal!inputPing
      <4> QED
        BY <1>1, <4>1
    <3>2. CASE Terminal!inputReturn
      <4>1. cache' = [cache EXCEPT !.input = "returned", !.done = TRUE]
        BY <3>2 DEF Terminal!inputReturn
      <4>2. cache' = [pump |-> cache.pump, input |-> "returned", done |-> TRUE]
        BY <1>1, <4>1
      <4> QED
        BY <1>1, <4>2
    <3> QED
      BY <1>5, <3>1, <3>2
  <2>2. UNCHANGED <<db, m, ui>>
    BY <1>5 DEF Terminal!inputPing, Terminal!inputReturn
  <2> QED
    BY <1>1, <2>1, <2>2 DEF ChunksStay
<1>6. CASE Terminal!Crash \/ Terminal!selectWait \/ Terminal!closeRecorder \/ Terminal!closeWS
  <2>1. UNCHANGED <<db, cache, ui>>
    BY <1>6 DEF Terminal!Crash, Terminal!selectWait, Terminal!closeRecorder, Terminal!closeWS
  <2>2. /\ m' \in [pc : {"select", "exit", "returned", "recorded", "closed", "crashed"},
                   bytes : Nat, exit : BOOLEAN, recorder : BOOLEAN]
        /\ m'.bytes = m.bytes
        /\ m'.pc \in {"select", "exit", "returned"} => m.pc \in {"select", "exit", "returned"}
    <3>1. CASE Terminal!selectWait
      <4>1. m' = [m EXCEPT !.pc = "exit", !.exit = TRUE] /\ m.pc = "select"
        BY <3>1 DEF Terminal!selectWait
      <4>2. m' = [pc |-> "exit", bytes |-> m.bytes, exit |-> TRUE, recorder |-> m.recorder]
        BY <1>1, <4>1
      <4> QED
        BY <1>1, <4>1, <4>2
    <3>2. CASE Terminal!Crash \/ Terminal!closeRecorder \/ Terminal!closeWS
      <4>1. PICK pc \in {"recorded", "closed", "crashed"} : m' = [m EXCEPT !.pc = pc]
        BY <3>2 DEF Terminal!Crash, Terminal!closeRecorder, Terminal!closeWS
      <4> QED
        BY <1>1, <4>1
    <3> QED
      BY <1>6, <3>1, <3>2
  <2> QED
    BY <1>1, <2>1, <2>2 DEF ChunksStay
<1>7. CASE Terminal!runSessionReturn
  <2>1. /\ m.pc \in {"select", "exit"} /\ m' = [m EXCEPT !.pc = "returned", !.bytes = ui.outBytes]
        /\ db' = [db EXCEPT !.open = FALSE] /\ cache' = [cache EXCEPT !.done = TRUE] /\ ui' = ui
    BY <1>7 DEF Terminal!runSessionReturn
  <2>2. /\ m' = [pc |-> "returned", bytes |-> ui.outBytes, exit |-> m.exit, recorder |-> m.recorder]
        /\ db' = [unread |-> db.unread, left |-> db.left, exited |-> db.exited, open |-> FALSE]
        /\ cache' = [pump |-> cache.pump, input |-> cache.input, done |-> TRUE]
    BY <1>1, <2>1
  <2> QED
    BY <1>1, <2>1, <2>2 DEF ChunksStay
<1> QED
  BY <1>3, <1>4, <1>5, <1>6, <1>7

LEMMA TerminalNext == TerminalInv /\ Terminal!Next => TerminalInv'
BY PumpStep, TerminalOther DEF Terminal!Next, Pumps

(* What the browser saw and what the audit row counts is in the cast, late  *)
(* and lost chunks apart.                                                   *)
LEMMA TerminalSafe ==
  TerminalInv => Terminal!TypeOK /\ Terminal!ShownIsRecorded /\ Terminal!AuditedIsRecorded
<1> SUFFICES ASSUME TerminalInv
             PROVE  Terminal!TypeOK /\ Terminal!ShownIsRecorded /\ Terminal!AuditedIsRecorded
  OBVIOUS
<1>1. TerminalTypes
  BY DEF TerminalInv
<1>2. Terminal!TypeOK
  BY <1>1 DEF TerminalTypes, Terminal!TypeOK, Pumps
<1>3. Cardinality(At(cache.pump, "write")) \in Nat
  BY PumpsBounded
<1>4. Terminal!ShownIsRecorded
  BY <1>1, <1>3 DEF TerminalTypes, TerminalInv, ShownAfterRecorded, Terminal!ShownIsRecorded
<1>5. Terminal!AuditedIsRecorded
  <2>1. m.bytes <= ui.cast + ui.lost + Cardinality(Pumps) /\ Pumps = {"stdout", "stderr"}
    BY DEF TerminalInv, Pumps
  <2> QED
    BY <2>1, SameCardinality DEF Terminal!AuditedIsRecorded
<1> QED
  BY <1>2, <1>4, <1>5

-----------------------------------------------------------------------------
(* The components of the server together: only one of them is under way.    *)

ServerInv ==
  /\ part = "vpc" => VpcInv
  /\ part = "sync" => SyncInv
  /\ part = "login" => LoginInv
  /\ part = "terminal" => TerminalInv

LEMMA ServerInit == Init => ServerInv
<1> SUFFICES ASSUME Init PROVE ServerInv
  OBVIOUS
<1>1. /\ part = "vpc" => Vpc!Init
      /\ part = "sync" => Sync!Init
      /\ part = "login" => Login!Init
      /\ part = "terminal" => Terminal!Init
  BY DEF Init
<1> QED
  BY <1>1, VpcInit, SyncInit, LoginInit, TerminalInit DEF ServerInv

(* A step is one of the component's own.                                    *)
LEMMA ServerSteps ==
  ASSUME Next
  PROVE  /\ part' = part
         /\ part = "vpc" => Vpc!Next
         /\ part = "sync" => Sync!Next
         /\ part = "login" => Login!Next
         /\ part = "terminal" => Terminal!Next
BY DEF Next

LEMMA ServerNext == ServerInv /\ [Next]_vars => ServerInv'
<1> SUFFICES ASSUME ServerInv, [Next]_vars PROVE ServerInv'
  OBVIOUS
<1>1. CASE Next
  BY <1>1, ServerSteps, VpcNext, SyncNext, LoginNext, TerminalNext DEF ServerInv
<1>2. CASE UNCHANGED vars
  <2>1. part' = part /\ db' = db /\ cache' = cache /\ m' = m /\ ui' = ui
    BY <1>2 DEF vars
  <2>2. VpcInv => VpcInv'
    BY <2>1 DEF VpcInv, VpcTypes, VpcCalls, OneClaim, Claims, RowsUnique, Routed, DemotesComplete
  <2>3. SyncInv => SyncInv'
    BY <2>1 DEF SyncInv, SyncTypes, SyncProcs, OneLiveRow, RunsWorkedOn, SeenInOrder
  <2>4. LoginInv => LoginInv'
    BY <2>1 DEF LoginInv, LoginTypes, LoginCalls, StatesInOnePlace, FirstAdmins
  <2>5. TerminalInv => TerminalInv'
    BY <2>1 DEF TerminalInv, TerminalTypes, ChunksAccounted, ShownAfterRecorded
  <2> QED
    BY <2>1, <2>2, <2>3, <2>4, <2>5 DEF ServerInv
<1> QED
  BY <1>1, <1>2

(* The four inductive invariants hold of the components of the server: the  *)
(* unique indexes, the locks of the transactions, the one place of a login  *)
(* state and the counts of the terminal's chunks.                           *)
THEOREM Invariance == Spec => []ServerInv
BY ServerInit, ServerNext, PTL DEF Spec

(* What Promote, Demote and ReapplyPropagation, RunOnce, the OIDC callback  *)
(* and runSession leave behind, however they and the edits of users         *)
(* overlap: one promoted asset for a VPC at most, one proxy row for an      *)
(* asset, and managed connections through live proxies, but for the         *)
(* overlaps that the statement names; one live row for a resource and runs  *)
(* that end; one token for a login and one administrator who was the first; *)
(* casts with what was shown and counted.                                   *)
THEOREM RecordsAreSafe == Spec => []RecordsSafe
<1>1. ServerInv => RecordsSafe
  BY VpcSafe, SyncSafe, LoginSafe, TerminalSafe DEF ServerInv, RecordsSafe
<1> QED
  BY <1>1, Invariance, PTL

(* What one step of the server may do to what users have decided.           *)
UserStep ==
  /\ part = "vpc"  => Vpc!UserRouteKept
  /\ part = "sync" => Sync!CurationKept /\ Sync!ObservedAdvances

LEMMA UserSteps == ServerInv /\ [Next]_vars => [UserStep]_vars
<1> SUFFICES ASSUME ServerInv, Next PROVE UserStep
  OBVIOUS
<1> QED
  BY ServerSteps, VpcSteps, SyncSteps DEF ServerInv, UserStep

(* The promotion of a proxy, its demotion and the synchronisation leave a   *)
(* connection that a user edited, and what users curate, as they are; what  *)
(* AWS was seen to say goes back by an edit or an overtaken run only.       *)
THEOREM UsersAreHeard == Spec => UsersPrevail
<1>1. Spec => [][UserStep]_vars
  BY Invariance, UserSteps, PTL DEF Spec
<1> QED
  BY <1>1, Zenon DEF UserStep, UsersPrevail

-----------------------------------------------------------------------------
(* The relations of the CMDB page.                                          *)

Drawers == One \cup {"two"}

RelationsTypes ==
  /\ db \subseteq Things /\ cache \in [Drawers -> SUBSET Things]
  /\ ui \in [canWrite : BOOLEAN, selected : Drawers \cup {"none"},
             deletingRelationID : Things \cup {"none"}, calls : Nat, overlapped : BOOLEAN]
  /\ m \subseteq [id : Nat, asset : Drawers, rel : Things, phase : {"sent", "done", "settling"}]

(* As long as no removals of two relations have overlapped, there is one    *)
(* removal under way at most, and the marker is its relation.               *)
RemovalMarked ==
  ~ ui.overlapped => \A c, d \in Relations!underWay : c = d /\ c.rel = ui.deletingRelationID

RelationsInv == RelationsTypes /\ RemovalMarked /\ Relations!RemovingTruthful

LEMMA RelationsInit == Relations!Init => RelationsInv
<1> SUFFICES ASSUME Relations!Init PROVE RelationsInv
  OBVIOUS
<1>1. RelationsTypes
  <2>1. PICK w \in BOOLEAN : ui = [canWrite |-> w, selected |-> "none", deletingRelationID |-> "none",
                                   calls |-> 0, overlapped |-> FALSE]
    BY DEF Relations!Init, Relations!None
  <2> QED
    BY <2>1 DEF Relations!Init, RelationsTypes, Drawers
<1>2. RemovalMarked /\ Relations!RemovingTruthful
  BY DEF Relations!Init, Relations!None, Relations!underWay, RemovalMarked, Relations!RemovingTruthful
<1> QED
  BY <1>1, <1>2 DEF RelationsInv

(* A call that moves to another phase keeps its relation.                   *)
LEMMA CallMoves ==
  ASSUME RelationsInv, NEW c \in m, NEW p \in {"done", "settling"}, m' = Relations!becomes(c, p)
  PROVE  \E e : /\ m' = (m \ {c}) \cup {e} /\ e.rel = c.rel /\ e.phase = p
                /\ e \in [id : Nat, asset : Drawers, rel : Things, phase : {"sent", "done", "settling"}]
<1>1. PICK e : e = [c EXCEPT !.phase = p]
  OBVIOUS
<1>2. c \in [id : Nat, asset : Drawers, rel : Things, phase : {"sent", "done", "settling"}]
  BY DEF RelationsInv, RelationsTypes
<1>3. /\ e.rel = c.rel /\ e.phase = p
      /\ e \in [id : Nat, asset : Drawers, rel : Things, phase : {"sent", "done", "settling"}]
  BY <1>1, <1>2
<1> QED
  BY <1>1, <1>3 DEF Relations!becomes

LEMMA RelationsNext ==
  ASSUME RelationsInv, Relations!Next
  PROVE  RelationsInv'
<1> USE DEF RelationsInv, RelationsTypes, Relations!None
<1>1. ASSUME NEW a \in Drawers \cup {"none"}, Relations!select(a)
      PROVE  RelationsInv'
  BY <1>1 DEF Relations!select, RemovalMarked, Relations!RemovingTruthful, Relations!underWay
<1>2. ASSUME NEW r \in Things, Relations!confirmDeleteRelation(r)
      PROVE  RelationsInv'
  <2>1. PICK e : e = [id |-> ui.calls, asset |-> ui.selected, rel |-> r, phase |-> "sent"]
    OBVIOUS
  <2>2. /\ m' = m \cup {e} /\ UNCHANGED <<db, cache>> /\ e.rel = r
        /\ ui.deletingRelationID # r
        /\ ui'.deletingRelationID = r
        /\ ui'.overlapped = (ui.overlapped \/ \E c \in Relations!underWay : c.rel # r)
    BY <1>2, <2>1 DEF Relations!confirmDeleteRelation, Relations!forgetButton, Relations!isDeleting
  <2>3. RelationsTypes'
    <3>1. e \in [id : Nat, asset : Drawers, rel : Things, phase : {"sent", "done", "settling"}]
      BY <1>2, <2>1 DEF Relations!confirmDeleteRelation, Relations!forgetButton
    <3>2. ui' \in [canWrite : BOOLEAN, selected : Drawers \cup {"none"},
                   deletingRelationID : Things \cup {"none"}, calls : Nat, overlapped : BOOLEAN]
      <4>1. PICK b \in BOOLEAN : b = (ui.overlapped \/ \E c \in Relations!underWay : c.rel # r)
        BY Zenon
      <4>2. ui' = [ui EXCEPT !.calls = ui.calls + 1, !.deletingRelationID = r, !.overlapped = b]
        BY <1>2, <4>1 DEF Relations!confirmDeleteRelation
      <4>3. PICK v : v = [ui EXCEPT !.overlapped = b]
        OBVIOUS
      <4>4. v \in [canWrite : BOOLEAN, selected : Drawers \cup {"none"},
                   deletingRelationID : Things \cup {"none"}, calls : Nat, overlapped : BOOLEAN]
        BY <4>1, <4>3
      <4>5. PICK w : w = [v EXCEPT !.calls = ui.calls + 1]
        OBVIOUS
      <4>6. w \in [canWrite : BOOLEAN, selected : Drawers \cup {"none"},
                   deletingRelationID : Things \cup {"none"}, calls : Nat, overlapped : BOOLEAN]
        BY <4>4, <4>5
      <4>7. ui' = [w EXCEPT !.deletingRelationID = r]
        BY <4>2, <4>3, <4>5
      <4> QED
        BY <1>2, <4>6, <4>7
    <3> QED
      BY <2>2, <3>1, <3>2
  <2>4. ~ ui'.overlapped => Relations!underWay = {}
    BY <2>2 DEF RemovalMarked
  <2>5. RemovalMarked' /\ Relations!RemovingTruthful'
    <3>1. e.phase = "sent"
      BY <2>1
    <3>2. Relations!underWay' = Relations!underWay \cup {e}
      BY <2>2, <3>1 DEF Relations!underWay
    <3> QED
      BY <2>2, <2>4, <3>2 DEF RemovalMarked, Relations!RemovingTruthful
  <2> QED
    BY <2>3, <2>5
<1>3. ASSUME NEW r \in Things, Relations!RelationFound(r)
      PROVE  RelationsInv'
  BY <1>3 DEF Relations!RelationFound, RemovalMarked, Relations!RemovingTruthful, Relations!underWay
<1>4. ASSUME NEW c \in m, Relations!deleteAssetRelation(c)
      PROVE  RelationsInv'
  <2>1. PICK e : /\ m' = (m \ {c}) \cup {e} /\ e.rel = c.rel /\ e.phase = "done"
                 /\ e \in [id : Nat, asset : Drawers, rel : Things, phase : {"sent", "done", "settling"}]
    BY <1>4, CallMoves DEF Relations!deleteAssetRelation
  <2>2. c.phase = "sent" /\ db' = db \ {c.rel} /\ UNCHANGED <<cache, ui>>
    BY <1>4 DEF Relations!deleteAssetRelation
  <2>3. RelationsTypes'
    BY <2>1, <2>2
  <2>4. /\ c \in Relations!underWay
        /\ Relations!underWay' = (Relations!underWay \ {c}) \cup {e}
    BY <2>1, <2>2 DEF Relations!underWay
  <2>5. RemovalMarked' /\ Relations!RemovingTruthful'
    BY <2>1, <2>2, <2>4 DEF RemovalMarked, Relations!RemovingTruthful
  <2> QED
    BY <2>3, <2>5
<1>5. ASSUME NEW c \in m, Relations!onSettled(c)
      PROVE  RelationsInv'
  <2>1. PICK e : /\ m' = (m \ {c}) \cup {e} /\ e.rel = c.rel /\ e.phase = "settling"
                 /\ e \in [id : Nat, asset : Drawers, rel : Things, phase : {"sent", "done", "settling"}]
    BY <1>5, CallMoves DEF Relations!onSettled
  <2>2. /\ c.phase \in {"sent", "done"} /\ UNCHANGED <<db, cache>>
        /\ ui' = [ui EXCEPT !.deletingRelationID = "none"]
    BY <1>5 DEF Relations!onSettled
  <2>3. RelationsTypes'
    BY <2>1, <2>2
  <2>4. /\ c \in Relations!underWay
        /\ Relations!underWay' = Relations!underWay \ {c}
    BY <2>1, <2>2 DEF Relations!underWay
  <2>5. ui'.deletingRelationID = "none" /\ ui'.overlapped = ui.overlapped
    BY <2>2
  <2>6. RemovalMarked' /\ Relations!RemovingTruthful'
    BY <2>4, <2>5 DEF RemovalMarked, Relations!RemovingTruthful
  <2> QED
    BY <2>3, <2>6
<1>6. ASSUME NEW c \in m, Relations!Settle(c)
      PROVE  RelationsInv'
  BY <1>6 DEF Relations!Settle, RemovalMarked, Relations!RemovingTruthful, Relations!underWay
<1>7. ASSUME Relations!listAssetRelations
      PROVE  RelationsInv'
  BY <1>7 DEF Relations!listAssetRelations, RemovalMarked, Relations!RemovingTruthful, Relations!underWay
<1> QED
  BY <1>1, <1>2, <1>3, <1>4, <1>5, <1>6, <1>7 DEF Relations!Next, Drawers

LEMMA RelationsSafe == RelationsInv => Relations!TypeOK /\ Relations!RemovedOnce /\ Relations!RemovingTruthful
BY DEF RelationsInv, RelationsTypes, RemovalMarked, Drawers, Relations!TypeOK, Relations!RemovedOnce, Relations!None

-----------------------------------------------------------------------------
(* The access page.                                                         *)

RequestRow == [mine : BOOLEAN, asset : Things, status : {"pending", "approved", "rejected", "cancelled"}]

AccessPage == [can : SUBSET Access!Caps, tab : {"mine", "approve"}, modal : BOOLEAN,
               asset : Things \cup {"none"}, assetItems : SUBSET Things,
               drafts : Nat, lost : Nat, calls : Nat]

(* A mutation on its way: what it was called with.                          *)
AccessCall(x, c) ==
  /\ c = [phase |-> c.phase, arg |-> c.arg, ans |-> c.ans]
  /\ c.phase \in {"idle", "sent", "done", "settling"}
  /\ c.phase = "sent" /\ x = "create" => c.arg \in Things
  /\ c.phase = "sent" /\ x = "decide" => c.arg.decision \in {"approved", "rejected"}

AccessTypes ==
  /\ db = [requests |-> db.requests] /\ db.requests \in Seq(RequestRow)
  /\ m = [x \in Access!Mutations |-> m[x]]
  /\ \A x \in Access!Mutations : AccessCall(x, m[x])
  /\ ui \in AccessPage

Owed(phase, asset) == IF phase # "done" /\ asset # "none" THEN 1 ELSE 0

(* A draft that the server has not got yet is still to make its request;    *)
(* one that has been sent is still in the form.                             *)
DraftsAccounted ==
  /\ IsFiniteSet(Access!ownRequests)
  /\ Cardinality(Access!ownRequests) + Owed(m["create"].phase, ui.asset) <= ui.drafts + ui.lost
  /\ m["create"].phase = "sent" => ui.asset # "none"

AccessInv == AccessTypes /\ DraftsAccounted

LEMMA AccessInit == Access!Init => AccessInv
<1> SUFFICES ASSUME Access!Init PROVE AccessInv
  OBVIOUS
<1> USE DEF Access!Init, Access!None, Access!Mutations, Access!Idle
<1>1. PICK a \in Things : db = [requests |-> <<[mine |-> FALSE, asset |-> a, status |-> "pending"]>>]
  OBVIOUS
<1>2. db = [requests |-> db.requests] /\ db.requests \in Seq(RequestRow)
  BY <1>1 DEF RequestRow
<1>3. /\ m = [x \in Access!Mutations |-> m[x]]
      /\ \A x \in Access!Mutations : AccessCall(x, m[x])
  BY DEF AccessCall
<1>4. PICK cs \in {Access!Caps, {}}, t \in {"mine", "approve"} :
         ui = [can |-> cs, tab |-> t, modal |-> FALSE, asset |-> "none", assetItems |-> Things,
               drafts |-> 0, lost |-> 0, calls |-> 0]
  OBVIOUS
<1>5. ui \in AccessPage
  BY <1>4 DEF AccessPage
<1>6. AccessTypes
  BY <1>2, <1>3, <1>5 DEF AccessTypes
<1>7. Access!ownRequests = {}
  BY <1>1 DEF Access!ownRequests
<1>8. IsFiniteSet(Access!ownRequests) /\ Cardinality(Access!ownRequests) = 0
  BY <1>7, FS_EmptySet
<1>9. ui.asset = "none" /\ ui.drafts = 0 /\ ui.lost = 0 /\ m["create"].phase = "idle"
  BY <1>4
<1>10. DraftsAccounted
  BY <1>8, <1>9 DEF DraftsAccounted, Owed
<1> QED
  BY <1>6, <1>10 DEF AccessInv

(* A mutation moves on; the others stay as they are.                        *)
LEMMA AccessCallMoves ==
  ASSUME AccessInv, NEW x \in Access!Mutations, NEW c, AccessCall(x, c),
         m' = [m EXCEPT ![x] = c]
  PROVE  /\ m' = [y \in Access!Mutations |-> m'[y]]
         /\ \A y \in Access!Mutations : AccessCall(y, m'[y])
         /\ m'[x] = c /\ \A y \in Access!Mutations \ {x} : m'[y] = m[y]
<1>1. m = [y \in Access!Mutations |-> m[y]] /\ \A y \in Access!Mutations : AccessCall(y, m[y])
  BY DEF AccessInv, AccessTypes
<1>2. m'[x] = c /\ \A y \in Access!Mutations \ {x} : m'[y] = m[y]
  BY <1>1
<1>3. m' = [y \in Access!Mutations |-> m'[y]]
  BY <1>1
<1> QED
  BY <1>1, <1>2, <1>3

(* What the steps of the mutations make of m.                               *)
LEMMA AccessPhases ==
  ASSUME AccessInv, NEW x \in Access!Mutations
  PROVE  /\ Access!Ended(x) => \E c : AccessCall(x, c) /\ c.phase = "idle" /\ m' = [m EXCEPT ![x] = c]
         /\ Access!Succeeded(x) => \E c : AccessCall(x, c) /\ c.phase = "settling" /\ m' = [m EXCEPT ![x] = c]
         /\ \A a : Access!Executed(x, a) => \E c : AccessCall(x, c) /\ c.phase = "done" /\ m' = [m EXCEPT ![x] = c]
<1>1. m = [y \in Access!Mutations |-> m[y]] /\ AccessCall(x, m[x])
  BY DEF AccessInv, AccessTypes
<1>2. PICK p, a, b : m[x] = [phase |-> p, arg |-> a, ans |-> b]
  BY <1>1 DEF AccessCall
<1>3. ASSUME Access!Ended(x)
      PROVE  \E c : AccessCall(x, c) /\ c.phase = "idle" /\ m' = [m EXCEPT ![x] = c]
  BY <1>3 DEF Access!Ended, Access!Idle, AccessCall
<1>4. ASSUME Access!Succeeded(x)
      PROVE  \E c : AccessCall(x, c) /\ c.phase = "settling" /\ m' = [m EXCEPT ![x] = c]
  <2>1. PICK c : c = [phase |-> "settling", arg |-> a, ans |-> b]
    OBVIOUS
  <2>2. [m[x] EXCEPT !.phase = "settling"] = c
    BY <1>2, <2>1
  <2>3. m' = [m EXCEPT ![x] = [m[x] EXCEPT !.phase = "settling"]]
    BY <1>1, <1>4 DEF Access!Succeeded
  <2> QED
    BY <2>1, <2>2, <2>3 DEF AccessCall
<1>5. ASSUME NEW r, Access!Executed(x, r)
      PROVE  \E c : AccessCall(x, c) /\ c.phase = "done" /\ m' = [m EXCEPT ![x] = c]
  <2>1. PICK c : c = [phase |-> "done", arg |-> a, ans |-> r]
    OBVIOUS
  <2>2. PICK n : n = [m EXCEPT ![x].phase = "done"]
    OBVIOUS
  <2>3. n = [m EXCEPT ![x] = [m[x] EXCEPT !.phase = "done"]]
    BY <1>1, <2>2
  <2>4. n[x] = [phase |-> "done", arg |-> a, ans |-> b] /\ [n[x] EXCEPT !.ans = r] = c
    <3>1. n[x] = [m[x] EXCEPT !.phase = "done"]
      BY <1>1, <2>3
    <3>2. n[x] = [phase |-> "done", arg |-> a, ans |-> b]
      BY <1>2, <3>1
    <3> QED
      BY <2>1, <3>2
  <2>5. m' = [n EXCEPT ![x].ans = r]
    BY <1>5, <2>2 DEF Access!Executed
  <2>6. m' = [m EXCEPT ![x] = c]
    BY <1>1, <2>3, <2>4, <2>5
  <2> QED
    BY <2>1, <2>6 DEF AccessCall
<1> QED
  BY <1>3, <1>4, <1>5

(* Steps of the page that write no request.                                 *)
LEMMA AccessPageStep ==
  ASSUME AccessInv, UNCHANGED db, ui' \in AccessPage,
         m' = [x \in Access!Mutations |-> m'[x]], \A x \in Access!Mutations : AccessCall(x, m'[x]),
         Owed(m'["create"].phase, ui'.asset) + ui.drafts + ui.lost
           <= Owed(m["create"].phase, ui.asset) + ui'.drafts + ui'.lost,
         m'["create"].phase = "sent" => ui'.asset # "none"
  PROVE  AccessInv'
<1>1. AccessTypes'
  BY DEF AccessInv, AccessTypes
<1>2. Access!ownRequests' = Access!ownRequests
  BY DEF Access!ownRequests
<1>3. ui \in AccessPage /\ Cardinality(Access!ownRequests) \in Nat
  BY FS_CardinalityType DEF AccessInv, AccessTypes, DraftsAccounted
<1>4. /\ ui.drafts \in Nat /\ ui.lost \in Nat /\ ui'.drafts \in Nat /\ ui'.lost \in Nat
      /\ Owed(m["create"].phase, ui.asset) \in Nat /\ Owed(m'["create"].phase, ui'.asset) \in Nat
  BY <1>3 DEF AccessPage, Owed
<1>5. DraftsAccounted'
  BY <1>2, <1>3, <1>4 DEF AccessInv, DraftsAccounted
<1> QED
  BY <1>1, <1>5 DEF AccessInv

(* A row is given another status: whose it is stays.                        *)
LEMMA StatusWritten ==
  ASSUME AccessInv, NEW i, NEW st \in {"approved", "rejected", "cancelled"}, NEW x \in {"decide", "cancel"},
         db' = [db EXCEPT !.requests[i].status = st], Access!Executed(x, Undefined), ui' = ui
  PROVE  AccessInv'
<1>1. db = [requests |-> db.requests] /\ db.requests \in Seq(RequestRow)
  BY DEF AccessInv, AccessTypes
<1>2. PICK rs : rs = [db.requests EXCEPT ![i].status = st]
  OBVIOUS
<1>3. db' = [requests |-> rs] /\ db'.requests = rs
  BY <1>1, <1>2
<1>4. \A j \in DOMAIN db.requests :
         /\ db.requests[j] \in RequestRow /\ [db.requests[j] EXCEPT !.status = st] \in RequestRow
         /\ [db.requests[j] EXCEPT !.status = st].mine = db.requests[j].mine
  <2>1. SUFFICES ASSUME NEW row \in RequestRow
                 PROVE  /\ [row EXCEPT !.status = st] \in RequestRow
                        /\ [row EXCEPT !.status = st].mine = row.mine
    BY <1>1
  <2>2. PICK b \in BOOLEAN, a \in Things, old \in {"pending", "approved", "rejected", "cancelled"} :
          row = [mine |-> b, asset |-> a, status |-> old]
    BY DEF RequestRow
  <2>3. [row EXCEPT !.status = st] = [mine |-> b, asset |-> a, status |-> st]
    BY <2>2
  <2> QED
    BY <2>2, <2>3 DEF RequestRow
<1>5. DOMAIN rs = DOMAIN db.requests
      /\ \A j \in DOMAIN rs : rs[j] = IF j = i THEN [db.requests[j] EXCEPT !.status = st] ELSE db.requests[j]
  BY <1>1, <1>2
<1>6. rs \in Seq(RequestRow) /\ \A j \in DOMAIN rs : rs[j].mine = db.requests[j].mine
  <2>1. rs \in [1..Len(db.requests) -> RequestRow] /\ Len(db.requests) \in Nat
    <3>1. DOMAIN db.requests = 1..Len(db.requests) /\ Len(db.requests) \in Nat
      BY <1>1
    <3>2. \A j \in 1..Len(db.requests) : rs[j] \in RequestRow
      BY <1>4, <1>5, <3>1
    <3>3. rs = [j \in 1..Len(db.requests) |-> rs[j]]
      BY <1>2, <3>1
    <3> QED
      BY <3>1, <3>2, <3>3
  <2>2. rs \in Seq(RequestRow)
    BY <2>1
  <2>3. \A j \in DOMAIN rs : rs[j].mine = db.requests[j].mine
    BY <1>4, <1>5
  <2> QED
    BY <2>2, <2>3
<1>7. Access!ownRequests' = Access!ownRequests
  BY <1>3, <1>5, <1>6 DEF Access!ownRequests
<1>8. x \in Access!Mutations /\ x # "create" /\ "create" \in Access!Mutations
  BY DEF Access!Mutations
<1>9. /\ m' = [y \in Access!Mutations |-> m'[y]]
      /\ \A y \in Access!Mutations : AccessCall(y, m'[y])
      /\ m'["create"] = m["create"]
  BY <1>8, AccessPhases, AccessCallMoves
<1>10. AccessTypes'
  BY <1>3, <1>6, <1>9 DEF AccessInv, AccessTypes
<1>11. DraftsAccounted'
  BY <1>7, <1>9 DEF AccessInv, DraftsAccounted
<1> QED
  BY <1>10, <1>11 DEF AccessInv

(* A request has come in: one row of the operator's more.                   *)
LEMMA RequestCreated ==
  ASSUME AccessInv, Access!createBastionRequest
  PROVE  AccessInv'
<1>1. /\ m["create"].phase = "sent" /\ Access!Executed("create", Undefined) /\ ui' = ui
      /\ db' = [db EXCEPT !.requests =
                  Append(@, [mine |-> TRUE, asset |-> m["create"].arg, status |-> "pending"])]
  BY DEF Access!createBastionRequest
<1>2. db = [requests |-> db.requests] /\ db.requests \in Seq(RequestRow) /\ ui \in AccessPage
  BY DEF AccessInv, AccessTypes
<1>3. "create" \in Access!Mutations
  BY DEF Access!Mutations
<1>4. PICK row : row = [mine |-> TRUE, asset |-> m["create"].arg, status |-> "pending"]
  OBVIOUS
<1>5. row \in RequestRow /\ row.mine
  <2>1. m["create"].arg \in Things
    BY <1>1, <1>3 DEF AccessInv, AccessTypes, AccessCall
  <2> QED
    BY <1>4, <2>1 DEF RequestRow
<1>6. db' = [requests |-> Append(db.requests, row)]
  BY <1>1, <1>2, <1>4
<1>7. PICK n \in Nat : n = Len(db.requests) /\ DOMAIN db.requests = 1..n
  BY <1>2
<1>8. /\ db'.requests \in Seq(RequestRow) /\ DOMAIN db'.requests = 1..(n + 1)
      /\ db'.requests[n + 1] = row /\ \A i \in 1..n : db'.requests[i] = db.requests[i]
  BY <1>2, <1>5, <1>6, <1>7
<1>9. Access!ownRequests' = Access!ownRequests \cup {n + 1} /\ (n + 1) \notin Access!ownRequests
  BY <1>5, <1>7, <1>8 DEF Access!ownRequests
<1>10. /\ m' = [y \in Access!Mutations |-> m'[y]]
       /\ \A y \in Access!Mutations : AccessCall(y, m'[y])
       /\ m'["create"].phase = "done"
  BY <1>1, <1>3, AccessPhases, AccessCallMoves
<1>11. AccessTypes'
  BY <1>1, <1>2, <1>6, <1>8, <1>10 DEF AccessTypes
<1>12. /\ IsFiniteSet(Access!ownRequests') /\ Cardinality(Access!ownRequests) \in Nat
       /\ Cardinality(Access!ownRequests') = Cardinality(Access!ownRequests) + 1
  BY <1>9, FS_AddElement, FS_CardinalityType DEF AccessInv, DraftsAccounted
<1>13. DraftsAccounted'
  <2>1. Owed(m["create"].phase, ui.asset) = 1 /\ Owed(m'["create"].phase, ui'.asset) = 0
    BY <1>1, <1>10 DEF AccessInv, DraftsAccounted, Owed
  <2>2. ui.drafts \in Nat /\ ui.lost \in Nat
    BY <1>2 DEF AccessPage
  <2> QED
    BY <1>1, <1>10, <1>12, <2>1, <2>2 DEF AccessInv, DraftsAccounted
<1> QED
  BY <1>11, <1>13 DEF AccessInv

(* The fields of the page that the steps of the operator change.            *)
LEMMA AccessFields ==
  ASSUME NEW u \in AccessPage
  PROVE  /\ u.drafts \in Nat /\ u.lost \in Nat /\ u.calls \in Nat
         /\ \A b \in BOOLEAN : [u EXCEPT !.modal = b] \in AccessPage
         /\ \A t \in {"mine", "approve"} : [u EXCEPT !.tab = t] \in AccessPage
         /\ \A hits \in SUBSET Things : [u EXCEPT !.assetItems = hits] \in AccessPage
         /\ \A a \in Things \cup {"none"} : [u EXCEPT !.asset = a] \in AccessPage
         /\ \A n \in Nat : /\ [u EXCEPT !.drafts = n] \in AccessPage
                            /\ [u EXCEPT !.lost = n] \in AccessPage
                            /\ [u EXCEPT !.calls = n] \in AccessPage
<1>1. /\ u = [can |-> u.can, tab |-> u.tab, modal |-> u.modal, asset |-> u.asset,
              assetItems |-> u.assetItems, drafts |-> u.drafts, lost |-> u.lost, calls |-> u.calls]
      /\ u.modal \in BOOLEAN
  BY DEF AccessPage
<1> QED
  BY <1>1 DEF AccessPage

(* A step of the operator that calls nothing and begins no draft.           *)
LEMMA AccessViewStep ==
  ASSUME AccessInv, UNCHANGED <<db, m>>, ui' \in AccessPage, ui'.asset = ui.asset,
         ui'.drafts = ui.drafts, ui'.lost = ui.lost
  PROVE  AccessInv'
<1>1. /\ ui \in AccessPage /\ m = [x \in Access!Mutations |-> m[x]]
      /\ \A x \in Access!Mutations : AccessCall(x, m[x])
      /\ m["create"].phase = "sent" => ui.asset # "none"
  BY DEF AccessInv, AccessTypes, DraftsAccounted
<1>2. ui.drafts \in Nat /\ ui.lost \in Nat /\ Owed(m["create"].phase, ui.asset) \in Nat
  BY <1>1, AccessFields DEF Owed
<1>3. /\ m' = [x \in Access!Mutations |-> m'[x]]
      /\ \A x \in Access!Mutations : AccessCall(x, m'[x])
      /\ m'["create"].phase = "sent" => ui'.asset # "none"
      /\ Owed(m'["create"].phase, ui'.asset) = Owed(m["create"].phase, ui.asset)
  BY <1>1
<1> QED
  BY <1>2, <1>3, AccessPageStep

(* A call of a mutation, with an argument of its kind.                      *)
LEMMA AccessCalled ==
  ASSUME AccessInv, NEW x \in Access!Mutations, NEW arg, UNCHANGED db, Access!mutate(x, arg),
         x = "create" => arg \in Things /\ ui.asset # "none" /\ m["create"].phase = "idle",
         x = "decide" => arg.decision \in {"approved", "rejected"}
  PROVE  AccessInv'
<1>1. PICK c : c = [phase |-> "sent", arg |-> arg, ans |-> Undefined]
  OBVIOUS
<1>2. m' = [m EXCEPT ![x] = c] /\ ui' = [ui EXCEPT !.calls = ui.calls + 1]
  BY <1>1 DEF Access!mutate
<1>3. c.phase = "sent" /\ AccessCall(x, c)
  BY <1>1 DEF AccessCall
<1>4. /\ m' = [y \in Access!Mutations |-> m'[y]]
      /\ \A y \in Access!Mutations : AccessCall(y, m'[y])
      /\ m'[x] = c /\ \A y \in Access!Mutations \ {x} : m'[y] = m[y]
  BY <1>2, <1>3, AccessCallMoves
<1>5. ui \in AccessPage /\ "create" \in Access!Mutations
  BY DEF AccessInv, AccessTypes, Access!Mutations
<1>6. ui' \in AccessPage
  <2>1. ui.calls \in Nat
    BY <1>5 DEF AccessPage
  <2>2. PICK n \in Nat : n = ui.calls + 1
    BY <2>1
  <2> QED
    BY <1>2, <1>5, <2>2, AccessFields
<1>7. ui'.asset = ui.asset /\ ui'.drafts = ui.drafts /\ ui'.lost = ui.lost
  BY <1>2, <1>5 DEF AccessPage
<1>8. ui.drafts \in Nat /\ ui.lost \in Nat
  BY <1>5, AccessFields
<1>9. Owed(m'["create"].phase, ui.asset) = Owed(m["create"].phase, ui.asset)
      /\ Owed(m["create"].phase, ui.asset) \in Nat
  BY <1>3, <1>4, <1>5 DEF Owed
<1>10. m'["create"].phase = "sent" => ui.asset # "none"
  BY <1>4, <1>5 DEF AccessInv, DraftsAccounted
<1> QED
  BY <1>4, <1>6, <1>7, <1>8, <1>9, <1>10, AccessPageStep

(* A mutation other than a creation moves on or ends.                       *)
LEMMA AccessOtherMoves ==
  ASSUME AccessInv, NEW x \in {"decide", "cancel"}, UNCHANGED <<db, ui>>,
         Access!Ended(x) \/ Access!Succeeded(x)
  PROVE  AccessInv'
<1>1. x \in Access!Mutations /\ x # "create" /\ "create" \in Access!Mutations
  BY DEF Access!Mutations
<1>2. /\ m' = [y \in Access!Mutations |-> m'[y]]
      /\ \A y \in Access!Mutations : AccessCall(y, m'[y])
      /\ m'["create"] = m["create"]
  BY <1>1, AccessPhases, AccessCallMoves
<1>3. ui \in AccessPage
  BY DEF AccessInv, AccessTypes
<1>4. ui.drafts \in Nat /\ ui.lost \in Nat /\ Owed(m["create"].phase, ui.asset) \in Nat
  BY <1>3, AccessFields DEF Owed
<1>5. m["create"].phase = "sent" => ui.asset # "none"
  BY DEF AccessInv, DraftsAccounted
<1> QED
  BY <1>2, <1>3, <1>4, <1>5, AccessPageStep

(* A creation moves on or ends, and the draft with it: the form is cleared  *)
(* when the answer has arrived, and kept when the call has failed.          *)
LEMMA CreationMoves ==
  ASSUME AccessInv, UNCHANGED db,
         \/ Access!createRequest
         \/ Access!createFailed
         \/ Access!Settle("create")
  PROVE  AccessInv'
<1>1. "create" \in Access!Mutations /\ ui \in AccessPage
  BY DEF AccessInv, AccessTypes, Access!Mutations
<1>2. ui.drafts \in Nat /\ ui.lost \in Nat
  BY <1>1, AccessFields
<1>3. CASE Access!createRequest
  <2>1. /\ m["create"].phase = "done" /\ Access!Succeeded("create")
        /\ ui' = [ui EXCEPT !.asset = "none", !.modal = FALSE]
    BY <1>3 DEF Access!createRequest, Access!None
  <2>2. PICK v : v = [ui EXCEPT !.asset = "none"]
    OBVIOUS
  <2>3. v \in AccessPage /\ ui' = [v EXCEPT !.modal = FALSE]
    BY <1>1, <2>1, <2>2, AccessFields
  <2>4. ui' \in AccessPage
    BY <2>3, AccessFields
  <2>5. ui'.asset = "none" /\ ui'.drafts = ui.drafts /\ ui'.lost = ui.lost
    BY <1>1, <2>1 DEF AccessPage
  <2>6. /\ m' = [y \in Access!Mutations |-> m'[y]]
        /\ \A y \in Access!Mutations : AccessCall(y, m'[y])
        /\ m'["create"].phase = "settling"
    BY <1>1, <2>1, AccessPhases, AccessCallMoves
  <2>7. Owed(m["create"].phase, ui.asset) = 0 /\ Owed(m'["create"].phase, ui'.asset) = 0
    BY <2>1, <2>5 DEF Owed
  <2> QED
    BY <1>2, <2>4, <2>5, <2>6, <2>7, AccessPageStep
<1>4. CASE Access!createFailed
  <2>1. /\ m["create"].phase \in {"sent", "done"} /\ Access!Ended("create")
        /\ ui' = [ui EXCEPT !.lost = IF m["create"].phase = "done" THEN ui.lost + 1 ELSE ui.lost]
    BY <1>4 DEF Access!createFailed
  <2>2. PICK n \in Nat : n = IF m["create"].phase = "done" THEN ui.lost + 1 ELSE ui.lost
    BY <1>2
  <2>3. ui' \in AccessPage /\ ui'.lost = n /\ ui'.drafts = ui.drafts /\ ui'.asset = ui.asset
    <3>1. ui' = [ui EXCEPT !.lost = n]
      BY <2>1, <2>2
    <3>2. ui' \in AccessPage
      BY <1>1, <3>1, AccessFields
    <3> QED
      BY <1>1, <3>1, <3>2 DEF AccessPage
  <2>4. /\ m' = [y \in Access!Mutations |-> m'[y]]
        /\ \A y \in Access!Mutations : AccessCall(y, m'[y])
        /\ m'["create"].phase = "idle"
    BY <1>1, <2>1, AccessPhases, AccessCallMoves
  <2>5. Owed(m'["create"].phase, ui'.asset) + ui.drafts + ui.lost
           <= Owed(m["create"].phase, ui.asset) + ui'.drafts + ui'.lost
    BY <1>2, <2>1, <2>2, <2>3, <2>4 DEF Owed
  <2> QED
    BY <2>3, <2>4, <2>5, AccessPageStep
<1>5. CASE Access!Settle("create")
  <2>1. m["create"].phase = "settling" /\ Access!Ended("create") /\ ui' = ui
    BY <1>5 DEF Access!Settle
  <2>2. /\ m' = [y \in Access!Mutations |-> m'[y]]
        /\ \A y \in Access!Mutations : AccessCall(y, m'[y])
        /\ m'["create"].phase = "idle"
    BY <1>1, <2>1, AccessPhases, AccessCallMoves
  <2>3. Owed(m'["create"].phase, ui'.asset) = Owed(m["create"].phase, ui.asset)
        /\ Owed(m["create"].phase, ui.asset) \in Nat
    BY <2>1, <2>2 DEF Owed
  <2> QED
    BY <1>1, <1>2, <2>1, <2>2, <2>3, AccessPageStep
<1> QED
  BY <1>3, <1>4, <1>5

LEMMA AccessNext ==
  ASSUME AccessInv, Access!Next
  PROVE  AccessInv'
<1> USE DEF Access!None
<1>1. ui \in AccessPage /\ ui.drafts \in Nat /\ ui.lost \in Nat
  BY AccessFields DEF AccessInv, AccessTypes
<1>2. CASE Access!setAccessTab
  <2>1. PICK t \in {"mine", "approve"} : ui' = [ui EXCEPT !.tab = t]
    BY <1>2 DEF Access!setAccessTab
  <2>2. ui' \in AccessPage
    BY <1>1, <2>1, AccessFields
  <2>3. ui'.asset = ui.asset /\ ui'.drafts = ui.drafts /\ ui'.lost = ui.lost
    BY <1>1, <2>1 DEF AccessPage
  <2> QED
    BY <1>2, <2>2, <2>3, AccessViewStep DEF Access!setAccessTab
<1>3. CASE Access!openRequestModal \/ Access!closeRequestModal
  <2>1. PICK b \in BOOLEAN : ui' = [ui EXCEPT !.modal = b]
    BY <1>3 DEF Access!openRequestModal, Access!closeRequestModal
  <2>2. ui' \in AccessPage
    BY <1>1, <2>1, AccessFields
  <2>3. ui'.asset = ui.asset /\ ui'.drafts = ui.drafts /\ ui'.lost = ui.lost
    BY <1>1, <2>1 DEF AccessPage
  <2> QED
    BY <1>3, <2>2, <2>3, AccessViewStep DEF Access!openRequestModal, Access!closeRequestModal
<1>4. CASE Access!setAssetQuery
  <2>1. PICK hits \in SUBSET Things : ui' = [ui EXCEPT !.assetItems = hits]
    BY <1>4 DEF Access!setAssetQuery
  <2>2. ui' \in AccessPage
    BY <1>1, <2>1, AccessFields
  <2>3. ui'.asset = ui.asset /\ ui'.drafts = ui.drafts /\ ui'.lost = ui.lost
    BY <1>1, <2>1 DEF AccessPage
  <2> QED
    BY <1>4, <2>2, <2>3, AccessViewStep DEF Access!setAssetQuery
<1>5. CASE Access!createAccessRequest
  <2>1. /\ ui.asset # "none" /\ m["create"].phase = "idle" /\ UNCHANGED db
        /\ Access!mutate("create", ui.asset) /\ "create" \in Access!Mutations
    BY <1>5 DEF Access!createAccessRequest, Access!requestModalFoot, Access!isPending, Access!Mutations
  <2>2. ui.asset \in Things
    BY <1>1, <2>1 DEF AccessPage
  <2> QED
    BY <2>1, <2>2, AccessCalled
<1>6. ASSUME NEW a \in Things, Access!setSelectedAssetID(a)
      PROVE  AccessInv'
  <2>1. /\ UNCHANGED <<db, m>>
        /\ ui' = [ui EXCEPT !.asset = a, !.drafts = IF ui.asset = "none" THEN ui.drafts + 1 ELSE ui.drafts]
    BY <1>6 DEF Access!setSelectedAssetID
  <2>2. PICK n \in Nat : n = IF ui.asset = "none" THEN ui.drafts + 1 ELSE ui.drafts
    BY <1>1
  <2>3. PICK v : v = [ui EXCEPT !.asset = a]
    OBVIOUS
  <2>4. v \in AccessPage /\ ui' = [v EXCEPT !.drafts = n]
    BY <1>1, <1>6, <2>1, <2>2, <2>3, AccessFields
  <2>5. ui' \in AccessPage
    BY <2>2, <2>4, AccessFields
  <2>6. ui'.asset = a /\ ui'.drafts = n /\ ui'.lost = ui.lost
    BY <1>1, <2>1, <2>2 DEF AccessPage
  <2>7. a # "none"
    BY <1>6, NamesAssumption
  <2>8. Owed(m'["create"].phase, ui'.asset) + ui.drafts + ui.lost
           <= Owed(m["create"].phase, ui.asset) + ui'.drafts + ui'.lost
    BY <1>1, <2>1, <2>2, <2>6, <2>7 DEF Owed
  <2>9. /\ m' = [x \in Access!Mutations |-> m'[x]]
        /\ \A x \in Access!Mutations : AccessCall(x, m'[x])
    BY <2>1 DEF AccessInv, AccessTypes
  <2> QED
    BY <2>1, <2>5, <2>6, <2>7, <2>8, <2>9, AccessPageStep
<1>7. ASSUME NEW i, Access!cancelOwnRequest(i)
      PROVE  AccessInv'
  <2>1. Access!mutate("cancel", i) /\ UNCHANGED db /\ "cancel" \in Access!Mutations
    BY <1>7 DEF Access!cancelOwnRequest, Access!Mutations
  <2> QED
    BY <2>1, AccessCalled
<1>8. ASSUME NEW i, NEW d \in {"approved", "rejected"}, Access!decidePendingRequest(i, d)
      PROVE  AccessInv'
  <2>1. /\ Access!mutate("decide", [id |-> i, decision |-> d]) /\ UNCHANGED db
        /\ "decide" \in Access!Mutations /\ [id |-> i, decision |-> d].decision = d
    BY <1>8 DEF Access!decidePendingRequest, Access!Mutations
  <2> QED
    BY <1>8, <2>1, AccessCalled
<1>9. CASE Access!createBastionRequest
  BY <1>9, RequestCreated
<1>10. CASE Access!decideBastionRequest
  <2>1. PICK i, st : /\ st = m["decide"].arg.decision
                     /\ db' = [db EXCEPT !.requests[i].status = st]
    BY <1>10 DEF Access!decideBastionRequest
  <2>2. m["decide"].phase = "sent" /\ Access!Executed("decide", Undefined) /\ ui' = ui
    BY <1>10 DEF Access!decideBastionRequest
  <2>3. st \in {"approved", "rejected"}
    BY <2>1, <2>2 DEF AccessInv, AccessTypes, AccessCall, Access!Mutations
  <2> QED
    BY <2>1, <2>2, <2>3, StatusWritten
<1>11. CASE Access!cancelBastionRequest
  <2>1. PICK i : db' = [db EXCEPT !.requests[i].status = "cancelled"]
    BY <1>11 DEF Access!cancelBastionRequest
  <2>2. Access!Executed("cancel", Undefined) /\ ui' = ui
    BY <1>11 DEF Access!cancelBastionRequest
  <2> QED
    BY <2>1, <2>2, StatusWritten
<1>12. CASE Access!createRequest \/ Access!createFailed \/ Access!Settle("create")
  BY <1>12, CreationMoves DEF Access!createRequest, Access!createFailed, Access!Settle
<1>13. ASSUME NEW x \in {"decide", "cancel"},
              Access!listChanged(x) \/ Access!MutationFailed(x) \/ Access!Settle(x)
       PROVE  AccessInv'
  BY <1>13, AccessOtherMoves DEF Access!listChanged, Access!MutationFailed, Access!Settle
<1>14. CASE Access!Load
  BY <1>1, <1>14, AccessViewStep DEF Access!Load
<1> QED
  BY <1>2, <1>3, <1>4, <1>5, <1>6, <1>7, <1>8, <1>9, <1>10, <1>11, <1>12, <1>13, <1>14
     DEF Access!Next, Access!Mutations

LEMMA AccessSafe == AccessInv => Access!TypeOK /\ Access!NoDoubleRequest
<1> SUFFICES ASSUME AccessInv PROVE Access!TypeOK /\ Access!NoDoubleRequest
  OBVIOUS
<1>1. ui \in AccessPage /\ ui.drafts \in Nat /\ ui.lost \in Nat
  BY AccessFields DEF AccessInv, AccessTypes
<1>2. Access!TypeOK
  BY <1>1 DEF AccessInv, AccessTypes, AccessPage, RequestRow, Access!TypeOK, Access!None
<1>3. Cardinality(Access!ownRequests) \in Nat /\ Owed(m["create"].phase, ui.asset) \in Nat
  BY FS_CardinalityType DEF AccessInv, DraftsAccounted, Owed
<1>4. Access!Cardinality(Access!ownRequests) = Cardinality(Access!ownRequests)
  BY Zenon DEF Cardinality, Access!Cardinality
<1>5. Access!NoDoubleRequest
  BY <1>1, <1>3, <1>4 DEF AccessInv, DraftsAccounted, Access!NoDoubleRequest
<1> QED
  BY <1>2, <1>5

-----------------------------------------------------------------------------
(* The assets of the CMDB page.                                             *)

AssetCall == [id : Nat, x : {"create", "update", "delete"}, asset : Things \cup {"none"},
              phase : {"sent", "done", "settling"}, ans : Nat, observed : BOOLEAN, mounted : BOOLEAN]

Editor == [open : BOOLEAN, base : Nat]

InventoryPage == [can : {"read", "write"}, selected : Things \cup {"none"}, tab : {"summary", "metadata"},
                  creating : BOOLEAN, editor : Editor, hidden : BOOLEAN, calls : Nat]

(* A call that the creation form may have sent and not been told about.     *)
CreationUnderWay(c) == c.x = "create" /\ c.phase \in {"sent", "done"}

(* The calls n that a page u can have under way.  There is one update at    *)
(* most: the page resets it only when none is pending, so it is always      *)
(* observed, and an open editor is that of its asset.  There is one         *)
(* creation at most, and it is observed, until its form is hidden.          *)
CallsOfPage(n, u) ==
  /\ n \subseteq AssetCall /\ \A c \in n : c.x # "create" => c.asset \in Things
  /\ \A c \in n : c.x = "update" => c.observed /\ (u.editor.open => c.asset = u.selected)
  /\ \A c, d \in n : c.x = "update" /\ d.x = "update" => c = d
  /\ ~ u.hidden => \A c, d \in n : CreationUnderWay(c) /\ CreationUnderWay(d) => c = d /\ c.observed

(* Every version but the first two was written by an update: the version    *)
(* that one under way will write is within the bound, too.                  *)
VersionsOfCalls(n, v, w, u) ==
  /\ \A a \in Things : v[a] <= u.calls + 2 /\ w[a] <= u.calls + 2
  /\ \A c \in n : c.ans <= u.calls + 2
  /\ \A c \in n : c.x = "update" /\ c.phase = "sent" =>
        u.calls > 0 /\ \A a \in Things : v[a] < u.calls + 2

InventoryTypes ==
  /\ db = [asset |-> db.asset] /\ db.asset \in [Things -> Nat]
  /\ cache = [list |-> cache.list, asset |-> cache.asset]
  /\ cache.list \subseteq Things /\ cache.asset \in [Things -> Nat]
  /\ ui \in InventoryPage /\ ui.calls <= MaxCalls

InventoryInv ==
  InventoryTypes /\ CallsOfPage(m, ui) /\ VersionsOfCalls(m, db.asset, cache.asset, ui)

LEMMA InventoryInit == Inventory!Init => InventoryInv
<1> SUFFICES ASSUME Inventory!Init PROVE InventoryInv
  OBVIOUS
<1> USE DEF Inventory!Init, Inventory!None, Inventory!NoEditor
<1>1. PICK v \in [Things -> {0, 1}] : db = [asset |-> v]
  OBVIOUS
<1>2. PICK w \in {"read", "write"} :
         ui = [can |-> w, selected |-> "none", tab |-> "summary", creating |-> FALSE,
               editor |-> [open |-> FALSE, base |-> 0], hidden |-> FALSE, calls |-> 0]
  OBVIOUS
<1>3. ui \in InventoryPage /\ ui.calls = 0
  BY <1>2 DEF InventoryPage, Editor
<1>4. db.asset = v /\ cache = [list |-> {a \in Things : v[a] > 0}, asset |-> [a \in Things |-> 0]] /\ m = {}
  BY <1>1
<1>5. InventoryTypes
  BY <1>1, <1>3, <1>4, BoundsAssumption DEF InventoryTypes
<1>6. CallsOfPage(m, ui)
  BY <1>4 DEF CallsOfPage
<1>7. VersionsOfCalls(m, db.asset, cache.asset, ui)
  BY <1>3, <1>4 DEF VersionsOfCalls
<1> QED
  BY <1>5, <1>6, <1>7 DEF InventoryInv

(* A call with one field changed.                                           *)
LEMMA AssetCallFields ==
  ASSUME NEW c \in AssetCall
  PROVE  /\ c.observed \in BOOLEAN /\ c.asset \in Things \cup {"none"} /\ c.ans \in Nat
         /\ c.x \in {"create", "update", "delete"}
         /\ [c EXCEPT !.mounted = FALSE] \in AssetCall
         /\ [c EXCEPT !.observed = FALSE] \in AssetCall
         /\ ~ c.observed => [c EXCEPT !.observed = FALSE] = c
         /\ [c EXCEPT !.phase = "settling"] \in AssetCall
         /\ [c EXCEPT !.phase = "settling"].x = c.x
         /\ [c EXCEPT !.phase = "settling"].asset = c.asset
         /\ [c EXCEPT !.phase = "settling"].ans = c.ans
         /\ [c EXCEPT !.phase = "settling"].observed = c.observed
         /\ [c EXCEPT !.phase = "settling"].phase = "settling"
<1>1. /\ c = [id |-> c.id, x |-> c.x, asset |-> c.asset, phase |-> c.phase, ans |-> c.ans,
              observed |-> c.observed, mounted |-> c.mounted]
      /\ c.observed \in BOOLEAN /\ c.mounted \in BOOLEAN
      /\ c.id \in Nat /\ c.x \in {"create", "update", "delete"} /\ c.asset \in Things \cup {"none"}
      /\ c.phase \in {"sent", "done", "settling"} /\ c.ans \in Nat
  BY DEF AssetCall
<1>2. [c EXCEPT !.mounted = FALSE] \in AssetCall
  BY <1>1 DEF AssetCall
<1>3. /\ [c EXCEPT !.observed = FALSE] \in AssetCall
      /\ ~ c.observed => [c EXCEPT !.observed = FALSE] = c
  BY <1>1 DEF AssetCall
<1>4. [c EXCEPT !.phase = "settling"] \in AssetCall
  BY <1>1 DEF AssetCall
<1>5. /\ [c EXCEPT !.phase = "settling"].x = c.x
      /\ [c EXCEPT !.phase = "settling"].asset = c.asset
      /\ [c EXCEPT !.phase = "settling"].ans = c.ans
      /\ [c EXCEPT !.phase = "settling"].observed = c.observed
      /\ [c EXCEPT !.phase = "settling"].phase = "settling"
  BY <1>1
<1> QED
  BY <1>1, <1>2, <1>3, <1>4, <1>5

(* The page with one field changed.                                         *)
LEMMA InventoryFields ==
  ASSUME NEW u \in InventoryPage
  PROVE  /\ u.calls \in Nat /\ u.hidden \in BOOLEAN /\ u.creating \in BOOLEAN /\ u.editor \in Editor
         /\ \A b \in BOOLEAN : /\ [u EXCEPT !.creating = b] \in InventoryPage
                               /\ [u EXCEPT !.hidden = b] \in InventoryPage
         /\ \A t \in {"summary", "metadata"} : [u EXCEPT !.tab = t] \in InventoryPage
         /\ \A e \in Editor : [u EXCEPT !.editor = e] \in InventoryPage
         /\ \A a \in Things \cup {"none"} : [u EXCEPT !.selected = a] \in InventoryPage
         /\ \A n \in Nat : [u EXCEPT !.calls = n] \in InventoryPage
<1>1. /\ u = [can |-> u.can, selected |-> u.selected, tab |-> u.tab, creating |-> u.creating,
              editor |-> u.editor, hidden |-> u.hidden, calls |-> u.calls]
      /\ u.creating \in BOOLEAN /\ u.hidden \in BOOLEAN
      /\ u.can \in {"read", "write"} /\ u.selected \in Things \cup {"none"}
      /\ u.tab \in {"summary", "metadata"} /\ u.editor \in Editor /\ u.calls \in Nat
  BY DEF InventoryPage
<1> QED
  BY <1>1 DEF InventoryPage

(* Every selection of another asset unmounts the drawer, and resets no call *)
(* of this part of the page.                                                *)
LEMMA SelectionOfCalls ==
  ASSUME NEW n, NEW u, CallsOfPage(n, u), NEW a
  PROVE  \/ Inventory!SelectedCalls(a, n) = n /\ a = ui.selected
         \/ Inventory!SelectedCalls(a, n) = {[c EXCEPT !.mounted = FALSE] : c \in n} /\ a # ui.selected
<1>1. \A c \in n : c.x \notin {"save", "test", "probe", "promote", "demote"}
  BY AssetCallFields DEF CallsOfPage
<1>2. Inventory!resetCalls({"save", "test", "probe", "promote", "demote"}, n) = n
  BY <1>1 DEF Inventory!resetCalls
<1> QED
  BY <1>2 DEF Inventory!SelectedCalls, Inventory!unmounted

(* Calls that lose their component stay what they are.                      *)
LEMMA UnmountedCalls ==
  ASSUME NEW n, NEW u, CallsOfPage(n, u), NEW k, k = {[c EXCEPT !.mounted = FALSE] : c \in n}
  PROVE  /\ CallsOfPage(k, u)
         /\ \A v, w : VersionsOfCalls(n, v, w, u) => VersionsOfCalls(k, v, w, u)
<1>1. ASSUME NEW c \in n, NEW d, d = [c EXCEPT !.mounted = FALSE]
      PROVE  d.x = c.x /\ d.asset = c.asset /\ d.phase = c.phase /\ d.ans = c.ans /\ d.observed = c.observed
  <2>1. c = [id |-> c.id, x |-> c.x, asset |-> c.asset, phase |-> c.phase, ans |-> c.ans,
             observed |-> c.observed, mounted |-> c.mounted]
    BY DEF CallsOfPage, AssetCall
  <2> QED
    BY <1>1, <2>1
<1>2. ASSUME NEW d \in k PROVE d \in AssetCall
  <2>1. PICK c \in n : d = [c EXCEPT !.mounted = FALSE]
    OBVIOUS
  <2>2. c \in AssetCall
    BY DEF CallsOfPage
  <2> QED
    BY <2>1, <2>2, AssetCallFields
<1>3. \A d \in k : \E c \in n :
         /\ d = [c EXCEPT !.mounted = FALSE]
         /\ d.x = c.x /\ d.asset = c.asset /\ d.phase = c.phase /\ d.ans = c.ans /\ d.observed = c.observed
  BY <1>1
<1>4. /\ \A d \in k : d.x # "create" => d.asset \in Things
      /\ \A d \in k : d.x = "update" => d.observed /\ (u.editor.open => d.asset = u.selected)
  BY <1>3 DEF CallsOfPage
<1>5. ASSUME NEW d \in k, NEW e \in k, d.x = "update", e.x = "update" PROVE d = e
  <2>1. PICK b \in n : d = [b EXCEPT !.mounted = FALSE] /\ d.x = b.x
    BY <1>3
  <2>2. PICK c \in n : e = [c EXCEPT !.mounted = FALSE] /\ e.x = c.x
    BY <1>3
  <2>3. b = c
    BY <1>5, <2>1, <2>2 DEF CallsOfPage
  <2> QED
    BY <2>1, <2>2, <2>3
<1>6. ASSUME ~ u.hidden, NEW d \in k, NEW e \in k, CreationUnderWay(d), CreationUnderWay(e)
      PROVE  d = e /\ d.observed
  <2>1. PICK b \in n : d = [b EXCEPT !.mounted = FALSE] /\ d.x = b.x /\ d.phase = b.phase /\ d.observed = b.observed
    BY <1>3
  <2>2. PICK c \in n : e = [c EXCEPT !.mounted = FALSE] /\ e.x = c.x /\ e.phase = c.phase
    BY <1>3
  <2>3. b = c /\ b.observed
    BY <1>6, <2>1, <2>2 DEF CallsOfPage, CreationUnderWay
  <2> QED
    BY <2>1, <2>2, <2>3
<1>7. CallsOfPage(k, u)
  BY <1>2, <1>4, <1>5, <1>6 DEF CallsOfPage
<1>8. ASSUME NEW v, NEW w, VersionsOfCalls(n, v, w, u) PROVE VersionsOfCalls(k, v, w, u)
  BY <1>3, <1>8 DEF VersionsOfCalls
<1> QED
  BY <1>7, <1>8

(* The page changes: no editor is opened, or there is no update under way.  *)
LEMMA PageChanged ==
  ASSUME NEW n, NEW u, CallsOfPage(n, u), NEW w, u.hidden => w.hidden,
         w.editor.open => \/ u.editor.open /\ w.selected = u.selected
                          \/ \A c \in n : c.x # "update"
  PROVE  CallsOfPage(n, w)
BY DEF CallsOfPage

(* Calls that have ended are gone.                                          *)
LEMMA CallsRemoved ==
  ASSUME NEW n, NEW u, CallsOfPage(n, u), NEW k, k \subseteq n
  PROVE  /\ CallsOfPage(k, u)
         /\ \A v, w : VersionsOfCalls(n, v, w, u) => VersionsOfCalls(k, v, w, u)
BY DEF CallsOfPage, VersionsOfCalls

(* A call gets on: it has been executed, or its answer has arrived.         *)
LEMMA CallGetsOn ==
  ASSUME NEW n, NEW u, CallsOfPage(n, u), NEW c \in n, c.phase \in {"sent", "done"},
         NEW e \in AssetCall, e.x = c.x, e.observed = c.observed, e.phase \in {"done", "settling"},
         c.x # "create" => e.asset = c.asset,
         NEW k, k = (n \ {c}) \cup {e}
  PROVE  CallsOfPage(k, u)
<1>1. k \subseteq AssetCall /\ \A d \in k : d.x # "create" => d.asset \in Things
  BY DEF CallsOfPage
<1>2. \A d \in k : d.x = "update" => d.observed /\ (u.editor.open => d.asset = u.selected)
  BY DEF CallsOfPage
<1>3. \A d, f \in k : d.x = "update" /\ f.x = "update" => d = f
  BY DEF CallsOfPage
<1>4. ~ u.hidden => \A d, f \in k : CreationUnderWay(d) /\ CreationUnderWay(f) => d = f /\ d.observed
  BY DEF CallsOfPage, CreationUnderWay
<1> QED
  BY <1>1, <1>2, <1>3, <1>4 DEF CallsOfPage

(* A mutation that is not pending is reset in vain.                         *)
LEMMA NothingReset ==
  ASSUME InventoryInv, NEW x, ~ Inventory!isPending(x)
  PROVE  /\ Inventory!resetCalls({x}, m) = m
         /\ x = "update" => \A c \in m : c.x # "update"
<1>1. \A c \in m : c \in AssetCall
  BY DEF InventoryInv, CallsOfPage
<1>2. \A c \in m : c.x = x => ~ c.observed /\ [c EXCEPT !.observed = FALSE] = c
  BY <1>1, AssetCallFields DEF Inventory!isPending
<1>3. Inventory!resetCalls({x}, m) = m
  BY <1>2 DEF Inventory!resetCalls
<1>4. x = "update" => \A c \in m : c.x # "update"
  BY <1>2 DEF InventoryInv, CallsOfPage
<1> QED
  BY <1>3, <1>4

(* A mutation is called while none of its kind is pending; an update is     *)
(* that of the selected asset.                                              *)
LEMMA InventoryCalled ==
  ASSUME InventoryInv, NEW x \in {"create", "update", "delete"}, NEW a \in Things \cup {"none"},
         ~ Inventory!isPending(x), Inventory!mutate(x, a), x # "create" => a \in Things /\ a = ui.selected
  PROVE  InventoryInv'
<1>1. PICK e : e = [id |-> ui.calls, x |-> x, asset |-> a, phase |-> "sent", ans |-> 0,
                    observed |-> TRUE, mounted |-> TRUE]
  OBVIOUS
<1>2. /\ ui.calls < MaxCalls /\ m' = m \cup {e} /\ ui' = [ui EXCEPT !.calls = ui.calls + 1]
      /\ UNCHANGED <<db, cache>>
  BY <1>1, NothingReset DEF Inventory!mutate
<1>3. ui \in InventoryPage /\ ui.calls \in Nat
  BY InventoryFields DEF InventoryInv, InventoryTypes
<1>4. e \in AssetCall /\ e.x = x /\ e.asset = a /\ e.phase = "sent" /\ e.ans = 0 /\ e.observed
  BY <1>1, <1>3 DEF AssetCall
<1>5. ui' \in InventoryPage
  <2>1. PICK n \in Nat : n = ui.calls + 1
    BY <1>3
  <2> QED
    BY <1>2, <1>3, <2>1, InventoryFields
<1>6. /\ ui'.calls = ui.calls + 1 /\ ui'.editor = ui.editor /\ ui'.selected = ui.selected
      /\ ui'.hidden = ui.hidden
  BY <1>2, <1>3 DEF InventoryPage
<1>7. InventoryTypes'
  <2>1. ui.calls + 1 <= MaxCalls
    BY <1>2, <1>3, BoundsAssumption
  <2> QED
    BY <1>2, <1>5, <1>6, <2>1 DEF InventoryInv, InventoryTypes
<1>8. CallsOfPage(m', ui')
  <2>1. \A c \in m : c \in AssetCall
    BY DEF InventoryInv, CallsOfPage
  <2>2. x = "update" => \A c \in m : c.x # "update"
    BY NothingReset
  <2>3. x = "create" /\ ~ ui.hidden => \A c \in m : ~ CreationUnderWay(c)
    BY DEF InventoryInv, CallsOfPage, CreationUnderWay, Inventory!isPending
  <2>4. /\ \A c \in m' : c.x # "create" => c.asset \in Things
        /\ \A c \in m' : c.x = "update" => c.observed /\ (ui'.editor.open => c.asset = ui'.selected)
    BY <1>2, <1>4, <1>6 DEF InventoryInv, CallsOfPage
  <2>5. \A c, d \in m' : c.x = "update" /\ d.x = "update" => c = d
    BY <1>2, <1>4, <2>2 DEF InventoryInv, CallsOfPage
  <2>6. ~ ui'.hidden => \A c, d \in m' : CreationUnderWay(c) /\ CreationUnderWay(d) => c = d /\ c.observed
    BY <1>2, <1>4, <1>6, <2>3 DEF InventoryInv, CallsOfPage, CreationUnderWay
  <2> QED
    BY <1>2, <1>4, <2>1, <2>4, <2>5, <2>6 DEF CallsOfPage
<1>9. VersionsOfCalls(m', db'.asset, cache'.asset, ui')
  <2>1. db.asset \in [Things -> Nat] /\ cache.asset \in [Things -> Nat] /\ \A c \in m : c.ans \in Nat
    BY AssetCallFields DEF InventoryInv, InventoryTypes, CallsOfPage
  <2>2. \A b \in Things : db.asset[b] \in Nat /\ cache.asset[b] \in Nat
    BY <2>1
  <2> QED
    BY <1>2, <1>3, <1>4, <1>6, <2>1, <2>2 DEF InventoryInv, VersionsOfCalls
<1> QED
  BY <1>7, <1>8, <1>9 DEF InventoryInv

(* The operator looks at something else: the server and the calls stay.     *)
LEMMA InventoryViewStep ==
  ASSUME InventoryInv, UNCHANGED <<db, cache, m>>, ui' \in InventoryPage, ui'.calls = ui.calls,
         ui.hidden => ui'.hidden,
         ui'.editor.open => \/ ui.editor.open /\ ui'.selected = ui.selected
                            \/ \A c \in m : c.x # "update"
  PROVE  InventoryInv'
<1>1. InventoryTypes'
  BY DEF InventoryInv, InventoryTypes
<1>2. CallsOfPage(m', ui')
  BY PageChanged DEF InventoryInv
<1>3. VersionsOfCalls(m', db'.asset, cache'.asset, ui')
  BY DEF InventoryInv, VersionsOfCalls
<1> QED
  BY <1>1, <1>2, <1>3 DEF InventoryInv

(* The header of the page and the form for a new asset.                     *)
LEMMA CreateFormSteps ==
  ASSUME InventoryInv, Inventory!toggleCreating \/ Inventory!cancelCreate
  PROVE  InventoryInv'
<1>1. ui \in InventoryPage
  BY DEF InventoryInv, InventoryTypes
<1>2. CASE Inventory!cancelCreate
  <2>1. ui' = [ui EXCEPT !.creating = FALSE] /\ UNCHANGED <<db, cache, m>>
    BY <1>2 DEF Inventory!cancelCreate
  <2>2. ui' \in InventoryPage
    BY <1>1, <2>1, InventoryFields
  <2>3. /\ ui'.calls = ui.calls /\ ui'.hidden = ui.hidden /\ ui'.editor = ui.editor
        /\ ui'.selected = ui.selected
    BY <1>1, <2>1 DEF InventoryPage
  <2> QED
    BY <2>1, <2>2, <2>3, InventoryViewStep
<1>3. CASE Inventory!toggleCreating
  <2>1. PICK b \in BOOLEAN, h \in BOOLEAN :
           /\ b = ~ ui.creating /\ h = (ui.hidden \/ Inventory!isPending("create"))
    BY <1>1, InventoryFields, Zenon
  <2>2. /\ ui' = [ui EXCEPT !.creating = b, !.hidden = h] /\ UNCHANGED <<db, cache>>
        /\ m' = Inventory!resetCalls({"create"}, m)
    BY <1>3, <2>1 DEF Inventory!toggleCreating
  <2>3. PICK v : v = [ui EXCEPT !.creating = b]
    OBVIOUS
  <2>4. v \in InventoryPage /\ ui' = [v EXCEPT !.hidden = h]
    BY <1>1, <2>1, <2>2, <2>3, InventoryFields
  <2>5. ui' \in InventoryPage
    BY <2>1, <2>4, InventoryFields
  <2>6. /\ ui'.calls = ui.calls /\ ui'.editor = ui.editor /\ ui'.selected = ui.selected /\ ui'.hidden = h
    BY <1>1, <2>2 DEF InventoryPage
  <2>7. CASE ~ Inventory!isPending("create")
    <3>1. m' = m
      BY <2>2, <2>7, NothingReset
    <3> QED
      BY <2>1, <2>2, <2>5, <2>6, <3>1, InventoryViewStep
  <2>8. CASE Inventory!isPending("create")
    <3>1. h
      BY <2>1, <2>8
    <3>2. ASSUME NEW d \in m'
          PROVE  /\ d \in AssetCall
                 /\ \E c \in m : /\ d.x = c.x /\ d.ans = c.ans /\ d.phase = c.phase
                                 /\ d.asset = c.asset /\ (c.x = "update" => d = c)
      <4>1. PICK c \in m : d = IF c.x \in {"create"} THEN [c EXCEPT !.observed = FALSE] ELSE c
        BY <2>2 DEF Inventory!resetCalls
      <4>2. c \in AssetCall
        BY DEF InventoryInv, CallsOfPage
      <4>3. /\ c = [id |-> c.id, x |-> c.x, asset |-> c.asset, phase |-> c.phase, ans |-> c.ans,
                    observed |-> c.observed, mounted |-> c.mounted]
        BY <4>2 DEF AssetCall
      <4>4. d.x = c.x /\ d.ans = c.ans /\ d.phase = c.phase /\ d.asset = c.asset /\ (c.x = "update" => d = c)
        BY <4>1, <4>3
      <4> QED
        BY <4>1, <4>2, <4>4, AssetCallFields
    <3>3. InventoryTypes'
      BY <2>2, <2>5, <2>6 DEF InventoryInv, InventoryTypes
    <3>4. CallsOfPage(m', ui')
      BY <2>6, <3>1, <3>2 DEF InventoryInv, CallsOfPage
    <3>5. VersionsOfCalls(m', db'.asset, cache'.asset, ui')
      BY <2>2, <2>6, <3>2 DEF InventoryInv, VersionsOfCalls
    <3> QED
      BY <3>3, <3>4, <3>5 DEF InventoryInv
  <2> QED
    BY <2>7, <2>8
<1> QED
  BY <1>2, <1>3

(* The page with another asset, or none, in its drawer: u is the page but   *)
(* for that, n its calls.                                                   *)
LEMMA InventorySelects ==
  ASSUME InventoryInv, NEW a \in Things \cup {"none"}, NEW u \in InventoryPage, NEW n,
         u.calls = ui.calls, u.selected = ui.selected, CallsOfPage(n, u),
         VersionsOfCalls(n, db.asset, cache'.asset, ui),
         ui' = Inventory!Selected(a, u), m' = Inventory!SelectedCalls(a, n), db' = db,
         cache' = [list |-> cache'.list, asset |-> cache'.asset],
         cache'.list \subseteq Things, cache'.asset \in [Things -> Nat]
  PROVE  InventoryInv'
<1>1. CASE a = ui.selected
  <2>1. ui' = u /\ m' = n
    BY <1>1 DEF Inventory!Selected, Inventory!SelectedCalls
  <2>2. InventoryTypes'
    BY <2>1 DEF InventoryInv, InventoryTypes
  <2>3. VersionsOfCalls(m', db'.asset, cache'.asset, ui')
    BY <2>1 DEF VersionsOfCalls
  <2> QED
    BY <2>1, <2>2, <2>3 DEF InventoryInv
<1>2. CASE a # ui.selected
  <2>1. PICK v : v = [u EXCEPT !.selected = a]
    OBVIOUS
  <2>2. ui' = [v EXCEPT !.editor = [open |-> FALSE, base |-> 0]]
    BY <1>2, <2>1 DEF Inventory!Selected, Inventory!NoEditor
  <2>3. v \in InventoryPage /\ [open |-> FALSE, base |-> 0] \in Editor
    BY <2>1, InventoryFields DEF Editor
  <2>4. ui' \in InventoryPage
    <3>1. PICK e \in Editor : e = [open |-> FALSE, base |-> 0]
      BY <2>3
    <3>2. [v EXCEPT !.editor = e] \in InventoryPage
      BY <2>3, InventoryFields
    <3> QED
      BY <2>2, <3>1, <3>2
  <2>5. ui'.calls = ui.calls /\ ui'.hidden = u.hidden /\ ~ ui'.editor.open
    BY <2>1, <2>2 DEF InventoryPage
  <2>6. m' = {[c EXCEPT !.mounted = FALSE] : c \in n}
    BY <1>2, SelectionOfCalls
  <2>7. CallsOfPage(m', u)
    BY <2>6, UnmountedCalls
  <2>8. CallsOfPage(m', ui')
    BY <2>5, <2>7, PageChanged
  <2>9. VersionsOfCalls(n, db.asset, cache'.asset, u)
    BY DEF VersionsOfCalls
  <2>10. VersionsOfCalls(m', db.asset, cache'.asset, u)
    BY <2>6, <2>9, UnmountedCalls
  <2>11. VersionsOfCalls(m', db'.asset, cache'.asset, ui')
    BY <2>5, <2>10 DEF VersionsOfCalls
  <2>12. InventoryTypes'
    BY <2>4, <2>5 DEF InventoryInv, InventoryTypes
  <2> QED
    BY <2>8, <2>11, <2>12 DEF InventoryInv
<1> QED
  BY <1>1, <1>2

(* The drawer: opening and closing it, its tabs and its editor.             *)
LEMMA DrawerSteps ==
  ASSUME InventoryInv,
         \/ \E a \in cache.list : Inventory!openAssetDetails(a)
         \/ Inventory!closeAssetDetail
         \/ \E t \in {"summary", "metadata"} : Inventory!setActiveDrawerTab(t)
         \/ Inventory!toggleEditing
  PROVE  InventoryInv'
<1> USE DEF Inventory!None
<1>1. /\ ui \in InventoryPage /\ cache = [list |-> cache.list, asset |-> cache.asset]
      /\ cache.list \subseteq Things /\ cache.asset \in [Things -> Nat]
      /\ CallsOfPage(m, ui) /\ VersionsOfCalls(m, db.asset, cache.asset, ui)
  BY DEF InventoryInv, InventoryTypes
<1>2. ASSUME NEW a \in cache.list, Inventory!openAssetDetails(a)
      PROVE  InventoryInv'
  <2>1. PICK u : u = [ui EXCEPT !.tab = "summary"]
    OBVIOUS
  <2>2. /\ ui' = Inventory!Selected(a, u) /\ m' = Inventory!SelectedCalls(a, m)
        /\ UNCHANGED <<db, cache>>
    BY <1>2, <2>1 DEF Inventory!openAssetDetails
  <2>3. u \in InventoryPage
    BY <1>1, <2>1, InventoryFields
  <2>4. u.calls = ui.calls /\ u.selected = ui.selected /\ u.editor = ui.editor /\ u.hidden = ui.hidden
    BY <1>1, <2>1 DEF InventoryPage
  <2>5. CallsOfPage(m, u)
    BY <1>1, <2>4, PageChanged
  <2> QED
    BY <1>1, <1>2, <2>2, <2>3, <2>4, <2>5, InventorySelects
<1>3. CASE Inventory!closeAssetDetail
  <2>1. /\ ui' = Inventory!Selected("none", ui) /\ m' = Inventory!SelectedCalls("none", m)
        /\ UNCHANGED <<db, cache>>
    BY <1>3 DEF Inventory!closeAssetDetail
  <2> QED
    BY <1>1, <2>1, InventorySelects
<1>4. ui.selected # "none" => [open |-> TRUE, base |-> cache.asset[ui.selected]] \in Editor
  <2>1. ui.selected # "none" => cache.asset[ui.selected] \in Nat
    BY <1>1 DEF InventoryPage
  <2> QED
    BY <2>1 DEF Editor
<1>5. [open |-> FALSE, base |-> 0] \in Editor /\ ui.editor \in Editor
  BY <1>1, InventoryFields DEF Editor
<1>6. ASSUME NEW t \in {"summary", "metadata"}, Inventory!setActiveDrawerTab(t)
      PROVE  InventoryInv'
  <2>1. PICK e : e = IF ui.editor.open /\ t = "summary" THEN Inventory!mountAssetForm ELSE ui.editor
    OBVIOUS
  <2>2. ui.selected # "none" /\ ui' = [ui EXCEPT !.tab = t, !.editor = e] /\ UNCHANGED <<db, cache, m>>
    BY <1>6, <2>1 DEF Inventory!setActiveDrawerTab, Inventory!selectedAsset, Inventory!drawer
  <2>3. e \in Editor /\ (e.open => ui.editor.open)
    BY <1>4, <1>5, <2>1, <2>2 DEF Inventory!mountAssetForm
  <2>4. PICK v : v = [ui EXCEPT !.tab = t]
    OBVIOUS
  <2>5. v \in InventoryPage /\ ui' = [v EXCEPT !.editor = e]
    BY <1>1, <1>6, <2>2, <2>4, InventoryFields
  <2>6. ui' \in InventoryPage
    BY <2>3, <2>5, InventoryFields
  <2>7. ui'.calls = ui.calls /\ ui'.selected = ui.selected /\ ui'.hidden = ui.hidden /\ ui'.editor = e
    BY <1>1, <2>2 DEF InventoryPage
  <2> QED
    BY <2>2, <2>3, <2>6, <2>7, InventoryViewStep
<1>7. CASE Inventory!toggleEditing
  <2>1. PICK e : e = IF ui.editor.open THEN Inventory!NoEditor ELSE Inventory!mountAssetForm
    OBVIOUS
  <2>2. /\ ui.selected # "none" /\ ui' = [ui EXCEPT !.tab = "summary", !.editor = e] /\ UNCHANGED <<db, cache>>
        /\ ~ Inventory!isPending("update") /\ m' = Inventory!resetCalls({"update"}, m)
    BY <1>7, <2>1 DEF Inventory!toggleEditing, Inventory!drawerHead, Inventory!selectedAsset, Inventory!drawer
  <2>3. e \in Editor
    BY <1>4, <1>5, <2>1, <2>2 DEF Inventory!mountAssetForm, Inventory!NoEditor
  <2>4. PICK v : v = [ui EXCEPT !.tab = "summary"]
    OBVIOUS
  <2>5. v \in InventoryPage /\ ui' = [v EXCEPT !.editor = e]
    BY <1>1, <2>2, <2>4, InventoryFields
  <2>6. ui' \in InventoryPage
    BY <2>3, <2>5, InventoryFields
  <2>7. ui'.calls = ui.calls /\ ui'.selected = ui.selected /\ ui'.hidden = ui.hidden
    BY <1>1, <2>2 DEF InventoryPage
  <2>8. m' = m /\ \A c \in m : c.x # "update"
    BY <2>2, NothingReset
  <2> QED
    BY <2>2, <2>6, <2>7, <2>8, InventoryViewStep
<1> QED
  BY <1>2, <1>3, <1>6, <1>7

(* The server executes a call and answers the version that it has written.  *)
LEMMA ServerExecutes ==
  ASSUME InventoryInv, NEW c \in m, c.phase = "sent", NEW a \in Things, NEW v \in Nat,
         db' = [db EXCEPT !.asset[a] = v], m' = Inventory!answered(c, a, v), UNCHANGED <<cache, ui>>,
         c.x # "create" => a = c.asset,
         c.x = "update" => v = db.asset[a] + 1,
         c.x # "update" => v <= 2 /\ (\A d \in m : d.x = "update" /\ d.phase = "sent" => v < ui.calls + 2)
  PROVE  InventoryInv'
<1>1. /\ c \in AssetCall /\ CallsOfPage(m, ui) /\ ui \in InventoryPage /\ ui.calls \in Nat
      /\ db = [asset |-> db.asset] /\ db.asset \in [Things -> Nat] /\ cache.asset \in [Things -> Nat]
  BY InventoryFields DEF InventoryInv, InventoryTypes, CallsOfPage
<1>2. PICK w : w = [db.asset EXCEPT ![a] = v]
  OBVIOUS
<1>3. /\ db' = [asset |-> w] /\ db'.asset = w /\ w \in [Things -> Nat]
      /\ w[a] = v /\ \A b \in Things \ {a} : w[b] = db.asset[b]
  BY <1>1, <1>2
<1>4. PICK e : /\ e = [id |-> c.id, x |-> c.x, asset |-> a, phase |-> "done", ans |-> v,
                       observed |-> c.observed, mounted |-> c.mounted]
               /\ m' = (m \ {c}) \cup {e}
  <2>1. c = [id |-> c.id, x |-> c.x, asset |-> c.asset, phase |-> c.phase, ans |-> c.ans,
             observed |-> c.observed, mounted |-> c.mounted]
    BY <1>1 DEF AssetCall
  <2>2. PICK p : p = [c EXCEPT !.phase = "done"]
    OBVIOUS
  <2>3. p = [id |-> c.id, x |-> c.x, asset |-> c.asset, phase |-> "done", ans |-> c.ans,
             observed |-> c.observed, mounted |-> c.mounted]
    BY <2>1, <2>2
  <2>4. PICK q : q = [p EXCEPT !.asset = a]
    OBVIOUS
  <2>5. q = [id |-> c.id, x |-> c.x, asset |-> a, phase |-> "done", ans |-> c.ans,
             observed |-> c.observed, mounted |-> c.mounted]
    BY <2>3, <2>4
  <2>6. [q EXCEPT !.ans = v] = [id |-> c.id, x |-> c.x, asset |-> a, phase |-> "done", ans |-> v,
                               observed |-> c.observed, mounted |-> c.mounted]
    BY <2>5
  <2>7. m' = (m \ {c}) \cup {[q EXCEPT !.ans = v]}
    BY <2>2, <2>4 DEF Inventory!answered
  <2> QED
    BY <2>6, <2>7
<1>5. /\ e.x = c.x /\ e.asset = a /\ e.phase = "done" /\ e.ans = v /\ e.observed = c.observed
  BY <1>4
<1>6. e \in AssetCall
  <2>1. /\ c.id \in Nat /\ c.x \in {"create", "update", "delete"} /\ c.observed \in BOOLEAN
        /\ c.mounted \in BOOLEAN
    BY <1>1 DEF AssetCall
  <2> QED
    BY <1>4, <2>1 DEF AssetCall
<1>7. CallsOfPage(m', ui')
  BY <1>1, <1>4, <1>5, <1>6, CallGetsOn
<1>8. InventoryTypes'
  BY <1>1, <1>3 DEF InventoryInv, InventoryTypes
<1>9. VersionsOfCalls(m', db'.asset, cache'.asset, ui')
  <2>1. /\ \A b \in Things : db.asset[b] \in Nat /\ db.asset[b] <= ui.calls + 2 /\ cache.asset[b] <= ui.calls + 2
        /\ \A d \in m : d.ans <= ui.calls + 2
        /\ \A d \in m : d.x = "update" /\ d.phase = "sent" =>
              ui.calls > 0 /\ \A b \in Things : db.asset[b] < ui.calls + 2
    BY <1>1 DEF InventoryInv, VersionsOfCalls
  <2>2. v <= ui.calls + 2
    BY <1>1, <2>1 DEF InventoryInv
  <2>3. ASSUME NEW d \in m', d.x = "update", d.phase = "sent", NEW b \in Things
        PROVE  ui.calls > 0 /\ w[b] < ui.calls + 2
    <3>1. d \in m /\ d # c
      BY <1>4, <1>5, <2>3
    <3>2. c.x # "update"
      BY <1>1, <2>3, <3>1 DEF CallsOfPage
    <3> QED
      BY <1>3, <2>1, <2>3, <3>1, <3>2
  <2> QED
    BY <1>3, <1>4, <1>5, <2>1, <2>2, <2>3 DEF VersionsOfCalls
<1> QED
  BY <1>7, <1>8, <1>9 DEF InventoryInv

(* The server's side of the page.                                           *)
LEMMA InventoryServerSteps ==
  ASSUME InventoryInv, NEW c \in m,
         Inventory!createAsset(c) \/ Inventory!updateAsset(c) \/ Inventory!deleteAsset(c)
  PROVE  InventoryInv'
<1>1. /\ c \in AssetCall /\ c.asset \in Things \cup {"none"} /\ ui.calls \in Nat
      /\ db = [asset |-> db.asset] /\ db.asset \in [Things -> Nat]
  BY InventoryFields, AssetCallFields DEF InventoryInv, InventoryTypes, CallsOfPage
<1>2. ASSUME NEW d \in m, d.x = "update", d.phase = "sent", NEW a \in Things
      PROVE  db.asset[a] \in Nat /\ db.asset[a] < ui.calls + 2
  BY <1>1, <1>2 DEF InventoryInv, VersionsOfCalls
<1>3. CASE Inventory!createAsset(c)
  <2>1. PICK a \in Things : /\ c.x = "create" /\ c.phase = "sent" /\ db.asset[a] = 0 /\ UNCHANGED <<cache, ui>>
                            /\ db' = [db EXCEPT !.asset[a] = 1] /\ m' = Inventory!answered(c, a, 1)
    BY <1>3 DEF Inventory!createAsset
  <2>2. 1 < ui.calls + 2
    BY <1>1
  <2> QED
    BY <2>1, <2>2, ServerExecutes
<1>4. CASE Inventory!updateAsset(c)
  <2>1. /\ c.x = "update" /\ c.phase = "sent" /\ UNCHANGED <<cache, ui>>
        /\ db' = [db EXCEPT !.asset[c.asset] = db.asset[c.asset] + 1]
        /\ m' = Inventory!answered(c, c.asset, db'.asset[c.asset])
    BY <1>4 DEF Inventory!updateAsset
  <2>2. c.asset \in Things
    BY <2>1 DEF InventoryInv, CallsOfPage
  <2>3. PICK v \in Nat : v = db.asset[c.asset] + 1
    BY <1>1, <2>2
  <2>4. db' = [db EXCEPT !.asset[c.asset] = v] /\ db'.asset[c.asset] = v
    BY <1>1, <2>1, <2>2, <2>3
  <2> QED
    BY <2>1, <2>2, <2>3, <2>4, ServerExecutes
<1>5. CASE Inventory!deleteAsset(c)
  <2>1. /\ c.x = "delete" /\ c.phase = "sent" /\ UNCHANGED <<cache, ui>>
        /\ db' = [db EXCEPT !.asset[c.asset] = 0] /\ m' = Inventory!answered(c, c.asset, 0)
    BY <1>5 DEF Inventory!deleteAsset
  <2>2. c.asset \in Things /\ 0 < ui.calls + 2
    BY <1>1, <2>1 DEF InventoryInv, CallsOfPage
  <2> QED
    BY <2>1, <2>2, ServerExecutes
<1> QED
  BY <1>3, <1>4, <1>5

(* An answer arrives: the callback has run and awaits the queries.          *)
LEMMA CallSettles ==
  ASSUME InventoryInv, NEW c \in m, c.phase = "done"
  PROVE  /\ CallsOfPage(Inventory!settling(c), ui)
         /\ \A v, w : VersionsOfCalls(m, v, w, ui) => VersionsOfCalls(Inventory!settling(c), v, w, ui)
<1>1. PICK e : e = [c EXCEPT !.phase = "settling"]
  OBVIOUS
<1>2. c \in AssetCall /\ CallsOfPage(m, ui)
  BY DEF InventoryInv, CallsOfPage
<1>3. /\ e \in AssetCall /\ e.x = c.x /\ e.asset = c.asset /\ e.ans = c.ans
      /\ e.observed = c.observed /\ e.phase = "settling"
  BY <1>1, <1>2, AssetCallFields
<1>4. Inventory!settling(c) = (m \ {c}) \cup {e}
  BY <1>1 DEF Inventory!settling
<1>5. CallsOfPage(Inventory!settling(c), ui)
  BY <1>2, <1>3, <1>4, CallGetsOn
<1>6. \A v, w : VersionsOfCalls(m, v, w, ui) => VersionsOfCalls(Inventory!settling(c), v, w, ui)
  BY <1>3, <1>4 DEF VersionsOfCalls
<1> QED
  BY <1>5, <1>6

(* The answers at the page.                                                 *)
LEMMA InventoryAnswers ==
  ASSUME InventoryInv, NEW c \in m,
         \/ Inventory!createAssetMutation(c)
         \/ Inventory!updateAssetMutation(c)
         \/ Inventory!deleteAssetMutation(c)
         \/ Inventory!failed(c)
  PROVE  InventoryInv'
<1> USE DEF Inventory!None, Inventory!NoEditor
<1>1. /\ ui \in InventoryPage /\ ui.calls \in Nat /\ cache = [list |-> cache.list, asset |-> cache.asset]
      /\ cache.list \subseteq Things /\ cache.asset \in [Things -> Nat]
      /\ CallsOfPage(m, ui) /\ VersionsOfCalls(m, db.asset, cache.asset, ui)
      /\ c \in AssetCall /\ c.ans \in Nat
  BY InventoryFields, AssetCallFields DEF InventoryInv, InventoryTypes, CallsOfPage
<1>2. [open |-> FALSE, base |-> 0] \in Editor
  BY DEF Editor
<1>3. CASE Inventory!createAssetMutation(c)
  <2>1. /\ c.phase = "done" /\ ui' = [ui EXCEPT !.creating = FALSE] /\ m' = Inventory!settling(c)
        /\ UNCHANGED <<db, cache>>
    BY <1>3 DEF Inventory!createAssetMutation
  <2>2. ui' \in InventoryPage
    BY <1>1, <2>1, InventoryFields
  <2>3. /\ ui'.calls = ui.calls /\ ui'.hidden = ui.hidden /\ ui'.editor = ui.editor
        /\ ui'.selected = ui.selected
    BY <1>1, <2>1 DEF InventoryPage
  <2>4. CallsOfPage(m', ui) /\ VersionsOfCalls(m', db.asset, cache.asset, ui)
    BY <1>1, <2>1, CallSettles
  <2>5. CallsOfPage(m', ui')
    BY <2>3, <2>4, PageChanged
  <2>6. VersionsOfCalls(m', db'.asset, cache'.asset, ui')
    BY <2>1, <2>3, <2>4 DEF VersionsOfCalls
  <2>7. InventoryTypes'
    BY <2>1, <2>2, <2>3 DEF InventoryInv, InventoryTypes
  <2> QED
    BY <2>5, <2>6, <2>7 DEF InventoryInv
<1>4. CASE Inventory!updateAssetMutation(c)
  <2>1. /\ c.x = "update" /\ c.phase = "done" /\ db' = db /\ m' = Inventory!settling(c)
        /\ ui' = [ui EXCEPT !.editor = [open |-> FALSE, base |-> 0]]
        /\ cache' = [cache EXCEPT !.asset[c.asset] = c.ans]
    BY <1>4 DEF Inventory!updateAssetMutation
  <2>2. ui' \in InventoryPage
    BY <1>1, <1>2, <2>1, InventoryFields
  <2>3. ui'.calls = ui.calls /\ ui'.hidden = ui.hidden /\ ~ ui'.editor.open
    BY <1>1, <2>1 DEF InventoryPage
  <2>4. c.asset \in Things /\ c.ans <= ui.calls + 2
    BY <1>1, <2>1 DEF CallsOfPage, VersionsOfCalls
  <2>5. PICK w : w = [cache.asset EXCEPT ![c.asset] = c.ans]
    OBVIOUS
  <2>6. /\ cache' = [list |-> cache.list, asset |-> w] /\ cache'.list = cache.list /\ cache'.asset = w
        /\ w \in [Things -> Nat] /\ \A b \in Things : w[b] = c.ans \/ w[b] = cache.asset[b]
    BY <1>1, <2>1, <2>5
  <2>7. CallsOfPage(m', ui) /\ VersionsOfCalls(m', db.asset, cache.asset, ui)
    BY <1>1, <2>1, CallSettles
  <2>8. CallsOfPage(m', ui')
    BY <2>3, <2>7, PageChanged
  <2>9. VersionsOfCalls(m', db'.asset, cache'.asset, ui')
    BY <2>1, <2>3, <2>4, <2>6, <2>7 DEF VersionsOfCalls
  <2>10. InventoryTypes'
    BY <1>1, <2>1, <2>2, <2>3, <2>6 DEF InventoryInv, InventoryTypes
  <2> QED
    BY <2>8, <2>9, <2>10 DEF InventoryInv
<1>5. CASE Inventory!deleteAssetMutation(c)
  <2>1. PICK u : u = [ui EXCEPT !.editor = [open |-> FALSE, base |-> 0]]
    OBVIOUS
  <2>2. /\ c.phase = "done" /\ UNCHANGED <<db, cache>>
        /\ ui' = [Inventory!Selected("none", ui) EXCEPT !.editor = [open |-> FALSE, base |-> 0]]
        /\ m' = Inventory!SelectedCalls("none", Inventory!settling(c))
    BY <1>5 DEF Inventory!deleteAssetMutation
  <2>3. u \in InventoryPage
    BY <1>1, <1>2, <2>1, InventoryFields
  <2>4. u.calls = ui.calls /\ u.hidden = ui.hidden /\ ~ u.editor.open /\ u.selected = ui.selected
    BY <1>1, <2>1 DEF InventoryPage
  <2>5. ui' = Inventory!Selected("none", u)
    <3>1. ui = [can |-> ui.can, selected |-> ui.selected, tab |-> ui.tab, creating |-> ui.creating,
                editor |-> ui.editor, hidden |-> ui.hidden, calls |-> ui.calls]
      BY <1>1 DEF InventoryPage
    <3>2. CASE ui.selected = "none"
      BY <2>1, <2>2, <3>2 DEF Inventory!Selected
    <3>3. CASE ui.selected # "none"
      <4>1. ui' = [[ui EXCEPT !.selected = "none", !.editor = [open |-> FALSE, base |-> 0]]
                     EXCEPT !.editor = [open |-> FALSE, base |-> 0]]
        BY <2>2, <3>3 DEF Inventory!Selected
      <4>2. Inventory!Selected("none", u) =
              [u EXCEPT !.selected = "none", !.editor = [open |-> FALSE, base |-> 0]]
        BY <3>3 DEF Inventory!Selected
      <4> QED
        BY <2>1, <3>1, <4>1, <4>2
    <3> QED
      BY <3>2, <3>3
  <2>6. /\ CallsOfPage(Inventory!settling(c), ui)
        /\ VersionsOfCalls(Inventory!settling(c), db.asset, cache.asset, ui)
    BY <1>1, <2>2, CallSettles
  <2>7. CallsOfPage(Inventory!settling(c), u)
    BY <2>4, <2>6, PageChanged
  <2> QED
    BY <1>1, <2>2, <2>3, <2>4, <2>5, <2>6, <2>7, InventorySelects
<1>6. CASE Inventory!failed(c)
  <2>1. m' = m \ {c} /\ UNCHANGED <<db, cache, ui>>
    BY <1>6 DEF Inventory!failed
  <2>2. CallsOfPage(m', ui') /\ VersionsOfCalls(m', db'.asset, cache'.asset, ui')
    BY <1>1, <2>1, CallsRemoved
  <2>3. InventoryTypes'
    BY <2>1 DEF InventoryInv, InventoryTypes
  <2> QED
    BY <2>2, <2>3 DEF InventoryInv
<1> QED
  BY <1>3, <1>4, <1>5, <1>6

(* The callback of a call comes to its end.                                 *)
LEMMA InventorySettle ==
  ASSUME InventoryInv, NEW c \in m, Inventory!Settle(c)
  PROVE  InventoryInv'
<1> USE DEF Inventory!None, Inventory!NoEditor
<1>1. /\ ui \in InventoryPage /\ ui.calls \in Nat /\ cache = [list |-> cache.list, asset |-> cache.asset]
      /\ cache.list \subseteq Things /\ cache.asset \in [Things -> Nat]
      /\ CallsOfPage(m, ui) /\ VersionsOfCalls(m, db.asset, cache.asset, ui)
      /\ c \in AssetCall /\ c.asset \in Things \cup {"none"}
  BY InventoryFields, AssetCallFields DEF InventoryInv, InventoryTypes, CallsOfPage
<1>2. PICK l \in {cache.list, Inventory!listed} :
         cache' = [cache EXCEPT !.list = l,
                                !.asset[c.asset] = IF c.x = "delete" THEN 0 ELSE cache.asset[c.asset]]
  BY DEF Inventory!Settle
<1>3. PICK w : w = [cache.asset EXCEPT ![c.asset] = IF c.x = "delete" THEN 0 ELSE cache.asset[c.asset]]
  OBVIOUS
<1>4. l \subseteq Things
  BY <1>1 DEF Inventory!listed
<1>5. w \in [Things -> Nat] /\ \A b \in Things : w[b] = 0 \/ w[b] = cache.asset[b]
  BY <1>1, <1>3
<1>6. cache' = [list |-> l, asset |-> w] /\ cache'.list = l /\ cache'.asset = w
  BY <1>1, <1>2, <1>3
<1>7. VersionsOfCalls(m, db.asset, w, ui)
  BY <1>1, <1>5 DEF VersionsOfCalls
<1>8. CallsOfPage(m \ {c}, ui) /\ VersionsOfCalls(m \ {c}, db.asset, w, ui)
  BY <1>1, <1>7, CallsRemoved
<1>9. CASE c.x # "create"
  <2>1. ui' = ui /\ m' = m \ {c} /\ db' = db
    BY <1>9 DEF Inventory!Settle
  <2>2. CallsOfPage(m', ui') /\ VersionsOfCalls(m', db'.asset, cache'.asset, ui')
    BY <1>6, <1>8, <2>1
  <2>3. InventoryTypes'
    BY <1>4, <1>5, <1>6, <2>1 DEF InventoryInv, InventoryTypes
  <2> QED
    BY <2>2, <2>3 DEF InventoryInv
<1>10. CASE c.x = "create"
  <2>1. /\ ui' = [Inventory!Selected(c.asset, ui) EXCEPT !.tab = "summary", !.editor = [open |-> FALSE, base |-> 0]]
        /\ m' = Inventory!SelectedCalls(c.asset, m \ {c}) /\ db' = db
    BY <1>10 DEF Inventory!Settle
  <2>2. PICK v : v = [ui EXCEPT !.tab = "summary"]
    OBVIOUS
  <2>3. PICK u : u = [v EXCEPT !.editor = [open |-> FALSE, base |-> 0]]
    OBVIOUS
  <2>4. v \in InventoryPage /\ [open |-> FALSE, base |-> 0] \in Editor
    BY <1>1, <2>2, InventoryFields DEF Editor
  <2>5. u \in InventoryPage
    BY <2>3, <2>4, InventoryFields
  <2>6. u.calls = ui.calls /\ u.hidden = ui.hidden /\ ~ u.editor.open /\ u.selected = ui.selected
    BY <1>1, <2>2, <2>3 DEF InventoryPage
  <2>7. ui' = Inventory!Selected(c.asset, u)
    <3>1. ui = [can |-> ui.can, selected |-> ui.selected, tab |-> ui.tab, creating |-> ui.creating,
                editor |-> ui.editor, hidden |-> ui.hidden, calls |-> ui.calls]
      BY <1>1 DEF InventoryPage
    <3>2. u = [can |-> ui.can, selected |-> ui.selected, tab |-> "summary", creating |-> ui.creating,
               editor |-> [open |-> FALSE, base |-> 0], hidden |-> ui.hidden, calls |-> ui.calls]
      <4>1. v = [can |-> ui.can, selected |-> ui.selected, tab |-> "summary", creating |-> ui.creating,
                 editor |-> ui.editor, hidden |-> ui.hidden, calls |-> ui.calls]
        BY <2>2, <3>1
      <4> QED
        BY <2>3, <4>1
    <3>3. CASE c.asset = ui.selected
      BY <2>1, <2>2, <2>3, <3>3 DEF Inventory!Selected
    <3>4. CASE c.asset # ui.selected
      <4>1. Inventory!Selected(c.asset, ui) =
              [ui EXCEPT !.selected = c.asset, !.editor = [open |-> FALSE, base |-> 0]]
        BY <3>4 DEF Inventory!Selected
      <4>2. Inventory!Selected(c.asset, ui) =
              [can |-> ui.can, selected |-> c.asset, tab |-> ui.tab, creating |-> ui.creating,
               editor |-> [open |-> FALSE, base |-> 0], hidden |-> ui.hidden, calls |-> ui.calls]
        BY <3>1, <4>1
      <4>3. Inventory!Selected(c.asset, u) =
              [can |-> ui.can, selected |-> c.asset, tab |-> "summary", creating |-> ui.creating,
               editor |-> [open |-> FALSE, base |-> 0], hidden |-> ui.hidden, calls |-> ui.calls]
        BY <3>2, <3>4 DEF Inventory!Selected
      <4>4. PICK q : q = Inventory!Selected(c.asset, ui)
        OBVIOUS
      <4>5. PICK p : p = [q EXCEPT !.tab = "summary"]
        OBVIOUS
      <4>6. q = [can |-> ui.can, selected |-> c.asset, tab |-> ui.tab, creating |-> ui.creating,
                 editor |-> [open |-> FALSE, base |-> 0], hidden |-> ui.hidden, calls |-> ui.calls]
        BY <4>2, <4>4
      <4>7. p = [can |-> ui.can, selected |-> c.asset, tab |-> "summary", creating |-> ui.creating,
                 editor |-> [open |-> FALSE, base |-> 0], hidden |-> ui.hidden, calls |-> ui.calls]
        BY <4>5, <4>6
      <4>8. ui' = [p EXCEPT !.editor = [open |-> FALSE, base |-> 0]]
        BY <2>1, <4>4, <4>5
      <4>9. [p EXCEPT !.editor = [open |-> FALSE, base |-> 0]] = p
        <5>1. PICK e : e = [open |-> FALSE, base |-> 0]
          OBVIOUS
        <5>2. p = [can |-> ui.can, selected |-> c.asset, tab |-> "summary", creating |-> ui.creating,
                   editor |-> e, hidden |-> ui.hidden, calls |-> ui.calls]
          BY <4>7, <5>1
        <5>3. [p EXCEPT !.editor = e] = p
          BY <5>2
        <5> QED
          BY <5>1, <5>3
      <4> QED
        BY <4>3, <4>7, <4>8, <4>9
    <3> QED
      BY <3>3, <3>4
  <2>8. CallsOfPage(m \ {c}, u)
    BY <1>8, <2>6, PageChanged
  <2> QED
    BY <1>1, <1>4, <1>5, <1>6, <1>8, <2>1, <2>5, <2>6, <2>7, <2>8, InventorySelects
<1> QED
  BY <1>9, <1>10

LEMMA InventoryNext ==
  ASSUME InventoryInv, Inventory!Next
  PROVE  InventoryInv'
<1> USE DEF Inventory!None
<1>1. /\ ui \in InventoryPage /\ ui.calls \in Nat /\ cache = [list |-> cache.list, asset |-> cache.asset]
      /\ cache.list \subseteq Things /\ cache.asset \in [Things -> Nat]
      /\ db = [asset |-> db.asset] /\ db.asset \in [Things -> Nat]
      /\ CallsOfPage(m, ui) /\ VersionsOfCalls(m, db.asset, cache.asset, ui)
  BY InventoryFields DEF InventoryInv, InventoryTypes
<1>2. CASE Inventory!submitCreate \/ Inventory!submitUpdate \/ Inventory!confirmDeleteAsset
  <2>1. ui.selected \in Things \cup {"none"}
    BY <1>1 DEF InventoryPage
  <2> QED
    BY <1>2, <2>1, InventoryCalled DEF Inventory!submitCreate, Inventory!submitUpdate,
       Inventory!confirmDeleteAsset, Inventory!editForm, Inventory!drawerHead, Inventory!selectedAsset,
       Inventory!drawer
<1>3. CASE Inventory!LoadList
  <2>1. cache' = [cache EXCEPT !.list = Inventory!listed] /\ UNCHANGED <<db, m, ui>>
    BY <1>3 DEF Inventory!LoadList
  <2>2. /\ cache' = [list |-> Inventory!listed, asset |-> cache.asset]
        /\ cache'.list = Inventory!listed /\ cache'.asset = cache.asset /\ Inventory!listed \subseteq Things
    BY <1>1, <2>1 DEF Inventory!listed
  <2>3. InventoryTypes'
    BY <1>1, <2>1, <2>2 DEF InventoryInv, InventoryTypes
  <2>4. CallsOfPage(m', ui') /\ VersionsOfCalls(m', db'.asset, cache'.asset, ui')
    BY <1>1, <2>1, <2>2
  <2> QED
    BY <2>3, <2>4 DEF InventoryInv
<1>4. CASE Inventory!LoadDetail
  <2>1. /\ cache' = [cache EXCEPT !.asset[ui.selected] = db.asset[ui.selected]] /\ UNCHANGED <<db, m, ui>>
        /\ ui.selected # "none"
    BY <1>4 DEF Inventory!LoadDetail, Inventory!drawer
  <2>2. ui.selected \in Things
    BY <1>1, <2>1 DEF InventoryPage
  <2>3. PICK w : w = [cache.asset EXCEPT ![ui.selected] = db.asset[ui.selected]]
    OBVIOUS
  <2>4. /\ cache' = [list |-> cache.list, asset |-> w] /\ cache'.list = cache.list /\ cache'.asset = w
        /\ w \in [Things -> Nat] /\ \A b \in Things : w[b] = db.asset[b] \/ w[b] = cache.asset[b]
    BY <1>1, <2>1, <2>2, <2>3
  <2>5. InventoryTypes'
    BY <1>1, <2>1, <2>4 DEF InventoryInv, InventoryTypes
  <2>6. VersionsOfCalls(m', db'.asset, cache'.asset, ui')
    BY <1>1, <2>1, <2>4 DEF VersionsOfCalls
  <2> QED
    BY <1>1, <2>1, <2>5, <2>6 DEF InventoryInv
<1>5. ASSUME NEW a \in Things, Inventory!BackgroundWrite(a)
      PROVE  InventoryInv'
  <2>1. db.asset[a] = 1 /\ db' = [db EXCEPT !.asset[a] = 2] /\ UNCHANGED <<cache, m, ui>>
    BY <1>5 DEF Inventory!BackgroundWrite
  <2>2. PICK v : v = [db.asset EXCEPT ![a] = 2]
    OBVIOUS
  <2>3. /\ db' = [asset |-> v] /\ db'.asset = v /\ v \in [Things -> Nat]
        /\ v[a] = 2 /\ \A b \in Things \ {a} : v[b] = db.asset[b]
    BY <1>1, <2>1, <2>2
  <2>4. InventoryTypes'
    BY <1>1, <2>1, <2>3 DEF InventoryInv, InventoryTypes
  <2>5. VersionsOfCalls(m', db'.asset, cache'.asset, ui')
    BY <1>1, <2>1, <2>3 DEF VersionsOfCalls
  <2> QED
    BY <1>1, <2>1, <2>4, <2>5 DEF InventoryInv
<1> QED
  BY <1>2, <1>3, <1>4, <1>5, CreateFormSteps, DrawerSteps, InventoryServerSteps, InventoryAnswers, InventorySettle
     DEF Inventory!Next

LEMMA InventorySafe == InventoryInv => Inventory!TypeOK /\ Inventory!EditKept /\ Inventory!OneCreation
<1> SUFFICES ASSUME InventoryInv PROVE Inventory!TypeOK /\ Inventory!EditKept /\ Inventory!OneCreation
  OBVIOUS
<1>1. /\ ui \in InventoryPage /\ ui.calls \in Nat /\ ui.calls <= MaxCalls
      /\ CallsOfPage(m, ui) /\ VersionsOfCalls(m, db.asset, cache.asset, ui)
  BY InventoryFields DEF InventoryInv, InventoryTypes
<1>2. Inventory!TypeOK
  <2>1. \A a \in Things : db.asset[a] \in 0..(MaxCalls + 2) /\ cache.asset[a] \in 0..(MaxCalls + 2)
    BY <1>1, BoundsAssumption DEF InventoryInv, InventoryTypes, VersionsOfCalls
  <2>2. db.asset \in [Things -> 0..(MaxCalls + 2)] /\ cache.asset \in [Things -> 0..(MaxCalls + 2)]
    BY <2>1 DEF InventoryInv, InventoryTypes
  <2>3. cache.list \subseteq Things /\ ui.selected \in Things \cup {"none"}
    BY <1>1 DEF InventoryInv, InventoryTypes, InventoryPage
  <2>4. \A c \in m : c.x \in {"create", "update", "delete"}
    BY <1>1, AssetCallFields DEF CallsOfPage
  <2> QED
    BY <2>2, <2>3, <2>4 DEF Inventory!TypeOK, Inventory!MaxVersion, Inventory!None, Inventory!Mutations
<1>3. Inventory!EditKept
  BY <1>1 DEF CallsOfPage, Inventory!EditKept
<1>4. Inventory!OneCreation
  <2>1. SUFFICES ASSUME ~ ui.hidden
                 PROVE  ~ Inventory!Cardinality({c \in m : c.x = "create" /\ c.phase \in {"sent", "done"}}) > 1
    BY DEF Inventory!OneCreation
  <2>2. PICK S : S = {c \in m : c.x = "create" /\ c.phase \in {"sent", "done"}}
    OBVIOUS
  <2>3. \A c, d \in S : c = d
    BY <1>1, <2>1, <2>2 DEF CallsOfPage, CreationUnderWay
  <2>4. Cardinality(S) <= 1 /\ Cardinality(S) \in Nat
    BY <2>3, AtMostOne, FS_CardinalityType
  <2>5. Inventory!Cardinality(S) = Cardinality(S)
    BY Zenon DEF Cardinality, Inventory!Cardinality
  <2> QED
    BY <2>2, <2>4, <2>5
<1> QED
  BY <1>2, <1>3, <1>4

-----------------------------------------------------------------------------
(* The mutations of the editor pages, as the pages keep them: f[x] is the   *)
(* call of x.                                                               *)

MutationCalls(f, X) ==
  /\ f = [x \in X |-> f[x]]
  /\ \A x \in X : f[x] = [phase |-> f[x].phase, arg |-> f[x].arg, ans |-> f[x].ans]

(* What mutate and Ended, Succeeded, and Executed of PortalPage do to m.    *)
CallSet(x, p, arg, ans) == m' = [m EXCEPT ![x] = [phase |-> p, arg |-> arg, ans |-> ans]]
CallMoved(x, p) == m' = [m EXCEPT ![x].phase = p]
CallAnswered(x, ans) == m' = [m EXCEPT ![x].phase = "done", ![x].ans = ans]

(* A call that is made, or ends.                                            *)
LEMMA CallMade ==
  ASSUME NEW X, MutationCalls(m, X), NEW x \in X, NEW p, NEW arg, NEW ans, CallSet(x, p, arg, ans)
  PROVE  /\ MutationCalls(m', X) /\ m'[x].phase = p /\ m'[x].arg = arg /\ m'[x].ans = ans
         /\ \A y \in X \ {x} : m'[y] = m[y]
<1>1. PICK c : c = [phase |-> p, arg |-> arg, ans |-> ans]
  OBVIOUS
<1>2. c = [phase |-> c.phase, arg |-> c.arg, ans |-> c.ans] /\ c.phase = p /\ c.arg = arg /\ c.ans = ans
  BY <1>1
<1>3. m' = [m EXCEPT ![x] = c]
  BY <1>1 DEF CallSet
<1> QED
  BY <1>2, <1>3 DEF MutationCalls

(* A call that moves to another phase.                                      *)
LEMMA CallGoesOn ==
  ASSUME NEW X, MutationCalls(m, X), NEW x \in X, NEW p, CallMoved(x, p)
  PROVE  /\ MutationCalls(m', X) /\ m'[x].phase = p /\ m'[x].arg = m[x].arg /\ m'[x].ans = m[x].ans
         /\ \A y \in X \ {x} : m'[y] = m[y]
<1>1. PICK c : c = [m[x] EXCEPT !.phase = p]
  OBVIOUS
<1>2. m[x] = [phase |-> m[x].phase, arg |-> m[x].arg, ans |-> m[x].ans]
  BY DEF MutationCalls
<1>3. /\ c = [phase |-> c.phase, arg |-> c.arg, ans |-> c.ans]
      /\ c.phase = p /\ c.arg = m[x].arg /\ c.ans = m[x].ans
  BY <1>1, <1>2
<1>4. m' = [m EXCEPT ![x] = c]
  BY <1>1 DEF CallMoved
<1> QED
  BY <1>3, <1>4 DEF MutationCalls

(* A call that the server executes.                                         *)
LEMMA CallExecuted ==
  ASSUME NEW X, MutationCalls(m, X), NEW x \in X, NEW ans, CallAnswered(x, ans)
  PROVE  /\ MutationCalls(m', X) /\ m'[x].phase = "done" /\ m'[x].arg = m[x].arg /\ m'[x].ans = ans
         /\ \A y \in X \ {x} : m'[y] = m[y]
<1>1. PICK c : c = [m[x] EXCEPT !.phase = "done", !.ans = ans]
  OBVIOUS
<1>2. m = [y \in X |-> m[y]] /\ m[x] = [phase |-> m[x].phase, arg |-> m[x].arg, ans |-> m[x].ans]
  BY DEF MutationCalls
<1>3. /\ c = [phase |-> c.phase, arg |-> c.arg, ans |-> c.ans]
      /\ c.phase = "done" /\ c.arg = m[x].arg /\ c.ans = ans
  BY <1>1, <1>2
<1>4. m' = [m EXCEPT ![x] = c]
  BY <1>1, <1>2 DEF CallAnswered
<1> QED
  BY <1>3, <1>4 DEF MutationCalls

-----------------------------------------------------------------------------
(* The AWS page.                                                            *)

AwsDb == [running : BOOLEAN, accounts : [Things -> Aws!Values \cup {Aws!Blank}]]
AwsPage == [can : {"read", "write"}, mode : {"create", "edit"}, form : Aws!Values \cup {Aws!Blank},
            selected : Things \cup {"none"}, modal : BOOLEAN, calls : Nat]

(* A row of the table is about its account.                                 *)
OwnRow(a, row) == row = Aws!Blank \/ (row \in Aws!Values /\ row.of = a)

(* The data d and the copy k of it that the page has: accounts are never    *)
(* removed.                                                                 *)
AwsData(d, k) ==
  /\ d \in AwsDb /\ \A a \in Things : OwnRow(a, d.accounts[a])
  /\ \/ k = Undefined
     \/ /\ k \in AwsDb
        /\ \A a \in Things : /\ OwnRow(a, k.accounts[a])
                             /\ k.accounts[a] # Aws!Blank => d.accounts[a] # Aws!Blank

(* The open editor of an account is that of an account the page has.        *)
AwsEditor(u, k) ==
  /\ u \in AwsPage
  /\ u.mode = "edit" => u.selected \in Things
  /\ u.modal /\ u.mode = "edit" => k # Undefined /\ k.accounts[u.selected] # Aws!Blank

(* What the calls were called with, and what they are answered.             *)
AwsCalls(n) ==
  /\ MutationCalls(n, Aws!Mutations)
  /\ n["create"].phase = "sent" => n["create"].arg.id \in Things /\ n["create"].arg.payload \in {0, 1}
  /\ n["create"].phase = "done" => n["create"].ans \in Things
  /\ n["update"].phase = "sent" => n["update"].arg.id \in Things /\ n["update"].arg.payload \in {0, 1}
  /\ n["update"].phase = "done" => n["update"].ans \in Aws!Values /\ n["update"].ans.of = n["update"].arg.id

AwsInv == AwsData(db, cache) /\ AwsEditor(ui, cache) /\ AwsCalls(m)

LEMMA AwsInit == Aws!Init => AwsInv
<1> SUFFICES ASSUME Aws!Init PROVE AwsInv
  OBVIOUS
<1>1. PICK rows : \E reg \in SUBSET Things :
           /\ rows = [a \in Things |-> IF a \in reg THEN [of |-> a, val |-> 0] ELSE Aws!Blank]
           /\ db = [running |-> FALSE, accounts |-> rows]
  BY DEF Aws!Init
<1>2. rows \in [Things -> Aws!Values \cup {Aws!Blank}] /\ \A a \in Things : OwnRow(a, rows[a])
  BY <1>1 DEF OwnRow, Aws!Values
<1>3. db \in AwsDb /\ db.accounts = rows
  BY <1>1, <1>2 DEF AwsDb
<1>4. AwsData(db, cache)
  BY <1>2, <1>3 DEF AwsData, Aws!Init
<1>5. AwsEditor(ui, cache)
  <2>1. ui \in [can : {"read", "write"}, mode : {"create"}, form : {Aws!Blank},
                selected : {"none"}, modal : {FALSE}, calls : {0}]
    BY DEF Aws!Init, Aws!None
  <2>2. PICK w \in {"read", "write"} : ui = [can |-> w, mode |-> "create", form |-> Aws!Blank,
                                             selected |-> "none", modal |-> FALSE, calls |-> 0]
    BY <2>1
  <2>3. ui \in AwsPage /\ ui.mode = "create"
    BY <2>2 DEF AwsPage
  <2> QED
    BY <2>3 DEF AwsEditor
<1>6. AwsCalls(m)
  <2>1. m = [x \in Aws!Mutations |-> [phase |-> "idle", arg |-> Undefined, ans |-> Undefined]]
    BY DEF Aws!Init, Aws!Idle
  <2>2. /\ MutationCalls(m, Aws!Mutations)
        /\ \A x \in Aws!Mutations : m[x].phase = "idle"
    BY <2>1 DEF MutationCalls
  <2> QED
    BY <2>2 DEF AwsCalls, Aws!Mutations
<1> QED
  BY <1>4, <1>5, <1>6 DEF AwsInv

(* The fields of the page.                                                  *)
LEMMA AwsFields ==
  ASSUME NEW u \in AwsPage
  PROVE  /\ u = [can |-> u.can, mode |-> u.mode, form |-> u.form,
                 selected |-> u.selected, modal |-> u.modal, calls |-> u.calls]
         /\ u.can \in {"read", "write"} /\ u.mode \in {"create", "edit"}
         /\ u.form \in Aws!Values \cup {Aws!Blank} /\ u.selected \in Things \cup {"none"}
         /\ u.modal \in BOOLEAN /\ u.calls \in Nat
BY DEF AwsPage

(* A step of the operator that calls nothing.                               *)
LEMMA AwsViewSteps ==
  ASSUME AwsInv,
         \/ Aws!startCreate \/ Aws!closeAccountModal \/ Aws!updateForm
         \/ \E a \in Things : Aws!editAccount(a)
  PROVE  AwsEditor(ui, cache)' /\ UNCHANGED <<db, cache, m>>
<1>1. /\ ui \in AwsPage /\ AwsEditor(ui, cache) /\ AwsData(db, cache)
      /\ ui = [can |-> ui.can, mode |-> ui.mode, form |-> ui.form,
               selected |-> ui.selected, modal |-> ui.modal, calls |-> ui.calls]
      /\ ui.can \in {"read", "write"} /\ ui.mode \in {"create", "edit"}
      /\ ui.form \in Aws!Values \cup {Aws!Blank} /\ ui.selected \in Things \cup {"none"}
      /\ ui.modal \in BOOLEAN /\ ui.calls \in Nat
  BY AwsFields DEF AwsInv, AwsEditor
<1>2. CASE Aws!startCreate
  <2>1. ui' = [can |-> ui.can, mode |-> "create", form |-> Aws!Blank,
               selected |-> "none", modal |-> TRUE, calls |-> ui.calls]
    BY <1>1, <1>2 DEF Aws!startCreate, Aws!None
  <2>2. ui' \in AwsPage /\ ui'.mode = "create"
    BY <1>1, <2>1 DEF AwsPage
  <2> QED
    BY <1>2, <2>2 DEF Aws!startCreate, AwsEditor
<1>3. CASE Aws!closeAccountModal
  <2>1. ui' = [can |-> ui.can, mode |-> ui.mode, form |-> ui.form,
               selected |-> ui.selected, modal |-> FALSE, calls |-> ui.calls]
    BY <1>1, <1>3 DEF Aws!closeAccountModal
  <2>2. ui' \in AwsPage /\ ui'.mode = ui.mode /\ ui'.selected = ui.selected /\ ~ ui'.modal
    BY <1>1, <2>1 DEF AwsPage
  <2> QED
    BY <1>1, <1>3, <2>2 DEF Aws!closeAccountModal, AwsEditor
<1>4. CASE Aws!updateForm
  <2>1. PICK v \in Aws!Values : ui' = [ui EXCEPT !.form = v]
    BY <1>4 DEF Aws!updateForm
  <2>2. ui' = [can |-> ui.can, mode |-> ui.mode, form |-> v,
               selected |-> ui.selected, modal |-> ui.modal, calls |-> ui.calls]
    BY <1>1, <2>1
  <2>3. ui' \in AwsPage /\ ui'.mode = ui.mode /\ ui'.selected = ui.selected /\ ui'.modal = ui.modal
    BY <1>1, <2>2 DEF AwsPage
  <2> QED
    BY <1>1, <1>4, <2>3 DEF Aws!updateForm, AwsEditor
<1>5. ASSUME NEW a \in Things, Aws!editAccount(a)
      PROVE  AwsEditor(ui, cache)' /\ UNCHANGED <<db, cache, m>>
  <2>1. cache # Undefined /\ cache.accounts[a] # Aws!Blank
    BY <1>5 DEF Aws!editAccount, Aws!accountRow, Aws!accountItems
  <2>2. cache.accounts[a] \in Aws!Values
    BY <1>1, <2>1 DEF AwsData, OwnRow
  <2>3. ui' = [can |-> ui.can, mode |-> "edit", form |-> cache.accounts[a],
               selected |-> a, modal |-> TRUE, calls |-> ui.calls]
    BY <1>1, <1>5 DEF Aws!editAccount, Aws!awsAccountToForm
  <2>4. ui' \in AwsPage /\ ui'.selected = a
    BY <1>1, <2>2, <2>3 DEF AwsPage
  <2> QED
    BY <1>5, <2>1, <2>4 DEF Aws!editAccount, AwsEditor
<1> QED
  BY <1>2, <1>3, <1>4, <1>5

(* A call of the operator.                                                  *)
LEMMA AwsCalled ==
  ASSUME AwsInv, NEW x \in Aws!Mutations, NEW arg, Aws!mutate(x, arg), UNCHANGED <<db, cache>>,
         x \in {"create", "update"} => arg.id \in Things /\ arg.payload \in {0, 1}
  PROVE  AwsInv'
<1>1. ui' = [ui EXCEPT !.calls = ui.calls + 1]
  BY DEF Aws!mutate
<1>2. AwsEditor(ui, cache)'
  <2>1. ui \in AwsPage /\ AwsEditor(ui, cache)
    BY DEF AwsInv, AwsEditor
  <2>2. PICK n \in Nat : n = ui.calls + 1
    BY <2>1, AwsFields
  <2>3. ui' = [can |-> ui.can, mode |-> ui.mode, form |-> ui.form,
               selected |-> ui.selected, modal |-> ui.modal, calls |-> n]
    BY <1>1, <2>1, <2>2, AwsFields
  <2>4. ui' \in AwsPage /\ ui'.mode = ui.mode /\ ui'.selected = ui.selected /\ ui'.modal = ui.modal
    BY <2>1, <2>3, AwsFields DEF AwsPage
  <2> QED
    BY <2>1, <2>4 DEF AwsEditor
<1>3. AwsCalls(m)'
  <2>1. /\ MutationCalls(m', Aws!Mutations) /\ m'[x].phase = "sent" /\ m'[x].arg = arg
        /\ \A y \in Aws!Mutations \ {x} : m'[y] = m[y]
    <3>1. CallSet(x, "sent", arg, Undefined)
      BY DEF Aws!mutate, CallSet
    <3> QED
      BY <3>1, CallMade DEF AwsInv, AwsCalls
  <2> QED
    BY <2>1 DEF AwsInv, AwsCalls, Aws!Mutations
<1> QED
  BY <1>2, <1>3 DEF AwsInv

(* A call that is answered, or ends.                                        *)
LEMMA AwsCallEnds ==
  ASSUME AwsInv, NEW x \in Aws!Mutations, Aws!Succeeded(x) \/ Aws!Ended(x)
  PROVE  AwsCalls(m)' /\ (Aws!Succeeded(x) => m'[x].phase = "settling")
<1>1. MutationCalls(m, Aws!Mutations) /\ AwsCalls(m)
  BY DEF AwsInv, AwsCalls
<1>2. CASE Aws!Succeeded(x)
  <2>1. CallMoved(x, "settling")
    BY <1>2 DEF Aws!Succeeded, CallMoved
  <2>2. /\ MutationCalls(m', Aws!Mutations) /\ m'[x].phase = "settling"
        /\ \A y \in Aws!Mutations \ {x} : m'[y] = m[y]
    BY <1>1, <2>1, CallGoesOn
  <2> QED
    BY <1>1, <2>2 DEF AwsCalls, Aws!Mutations
<1>3. CASE Aws!Ended(x)
  <2>1. CallSet(x, "idle", Undefined, Undefined)
    BY <1>3 DEF Aws!Ended, Aws!Idle, CallSet
  <2>2. /\ MutationCalls(m', Aws!Mutations) /\ m'[x].phase = "idle"
        /\ \A y \in Aws!Mutations \ {x} : m'[y] = m[y]
    BY <1>1, <2>1, CallMade
  <2>3. AwsCalls(m)'
    BY <1>1, <2>2 DEF AwsCalls, Aws!Mutations
  <2>4. ~ Aws!Succeeded(x) \/ m'[x].phase = "settling"
    BY <1>1, <1>2
  <2> QED
    BY <2>3, <2>4
<1> QED
  BY <1>2, <1>3

(* The server executes a call.                                              *)
LEMMA AwsCallExecuted ==
  ASSUME AwsInv, NEW x \in Aws!Mutations, NEW ans, Aws!Executed(x, ans),
         x = "create" => ans \in Things,
         x = "update" => ans \in Aws!Values /\ ans.of = m["update"].arg.id
  PROVE  AwsCalls(m)'
<1>1. MutationCalls(m, Aws!Mutations) /\ AwsCalls(m)
  BY DEF AwsInv, AwsCalls
<1>2. CallAnswered(x, ans)
  BY DEF Aws!Executed, CallAnswered
<1>3. /\ MutationCalls(m', Aws!Mutations) /\ m'[x].phase = "done" /\ m'[x].arg = m[x].arg /\ m'[x].ans = ans
      /\ \A y \in Aws!Mutations \ {x} : m'[y] = m[y]
  BY <1>1, <1>2, CallExecuted
<1> QED
  BY <1>1, <1>3 DEF AwsCalls, Aws!Mutations

(* An account is written.                                                   *)
LEMMA AwsStored ==
  ASSUME AwsInv, NEW a \in Things, NEW v \in {0, 1}, Aws!store(a, v), UNCHANGED <<cache, ui>>
  PROVE  /\ AwsData(db, cache)' /\ AwsEditor(ui, cache)'
         /\ db'.accounts[a] \in Aws!Values /\ db'.accounts[a].of = a
<1>1. AwsData(db, cache) /\ AwsEditor(ui, cache) /\ db \in AwsDb
  BY DEF AwsInv, AwsData
<1>2. PICK r : r = [of |-> a, val |-> v]
  OBVIOUS
<1>3. r \in Aws!Values /\ r.of = a /\ r # Aws!Blank
  BY <1>2, NamesAssumption DEF Aws!Values, Aws!Blank, Aws!None
<1>4. PICK rows : rows = [db.accounts EXCEPT ![a] = r]
  OBVIOUS
<1>5. db = [running |-> db.running, accounts |-> db.accounts] /\ db.running \in BOOLEAN
      /\ db.accounts \in [Things -> Aws!Values \cup {Aws!Blank}]
  BY <1>1 DEF AwsDb
<1>6. db' = [db EXCEPT !.accounts = rows]
  BY <1>2, <1>4 DEF Aws!store
<1>7. db' = [running |-> db.running, accounts |-> rows]
  BY <1>5, <1>6
<1>8. rows \in [Things -> Aws!Values \cup {Aws!Blank}] /\ rows[a] = r /\ \A b \in Things \ {a} : rows[b] = db.accounts[b]
  BY <1>3, <1>4, <1>5
<1>9. db' \in AwsDb /\ db'.accounts = rows
  BY <1>5, <1>7, <1>8 DEF AwsDb
<1>10. AwsData(db, cache)'
  BY <1>1, <1>3, <1>8, <1>9 DEF AwsData, OwnRow
<1> QED
  BY <1>1, <1>3, <1>8, <1>9, <1>10

LEMMA AwsServerSteps ==
  ASSUME AwsInv,
         \/ Aws!createAwsAccount \/ Aws!updateAwsAccount \/ Aws!testAwsAccount \/ Aws!triggerAwsSync
         \/ Aws!SyncEnds
  PROVE  AwsInv'
<1>1. AwsData(db, cache) /\ AwsEditor(ui, cache) /\ AwsCalls(m) /\ MutationCalls(m, Aws!Mutations)
  BY DEF AwsInv, AwsCalls
<1>2. CASE Aws!createAwsAccount
  <2>1. PICK a \in Things, v \in {0, 1} : a = m["create"].arg.id /\ v = m["create"].arg.payload
    BY <1>1, <1>2 DEF Aws!createAwsAccount, AwsCalls
  <2>2. Aws!store(a, v) /\ Aws!Executed("create", a) /\ UNCHANGED <<cache, ui>>
    BY <1>2, <2>1 DEF Aws!createAwsAccount
  <2>3. AwsData(db, cache)' /\ AwsEditor(ui, cache)'
    BY <2>2, AwsStored
  <2>4. AwsCalls(m)'
    BY <2>2, AwsCallExecuted DEF Aws!Mutations
  <2> QED
    BY <2>3, <2>4 DEF AwsInv
<1>3. CASE Aws!updateAwsAccount
  <2>1. PICK a \in Things, v \in {0, 1} : a = m["update"].arg.id /\ v = m["update"].arg.payload
    BY <1>1, <1>3 DEF Aws!updateAwsAccount, AwsCalls
  <2>2. Aws!store(a, v) /\ Aws!Executed("update", db'.accounts[a]) /\ UNCHANGED <<cache, ui>>
    BY <1>3, <2>1 DEF Aws!updateAwsAccount
  <2>3. /\ AwsData(db, cache)' /\ AwsEditor(ui, cache)'
        /\ db'.accounts[a] \in Aws!Values /\ db'.accounts[a].of = a
    BY <2>2, AwsStored
  <2>4. PICK r : r = db'.accounts[a]
    OBVIOUS
  <2>5. Aws!Executed("update", r) /\ r \in Aws!Values /\ r.of = m["update"].arg.id
    BY <2>1, <2>2, <2>3, <2>4
  <2>6. AwsCalls(m)'
    BY <2>5, AwsCallExecuted DEF Aws!Mutations
  <2> QED
    BY <2>3, <2>6 DEF AwsInv
<1>4. CASE Aws!testAwsAccount
  <2>1. Aws!Executed("test", Undefined) /\ UNCHANGED <<db, cache, ui>>
    BY <1>4 DEF Aws!testAwsAccount
  <2>2. AwsCalls(m)'
    BY <2>1, AwsCallExecuted DEF Aws!Mutations
  <2> QED
    BY <1>1, <2>1, <2>2 DEF AwsInv
<1>5. ASSUME NEW b \in BOOLEAN, db' = [db EXCEPT !.running = b], UNCHANGED <<cache, ui>>
      PROVE  AwsData(db, cache)' /\ AwsEditor(ui, cache)'
  <2>1. db = [running |-> db.running, accounts |-> db.accounts]
        /\ db.accounts \in [Things -> Aws!Values \cup {Aws!Blank}]
    BY <1>1 DEF AwsData, AwsDb
  <2>2. db' = [running |-> b, accounts |-> db.accounts]
    BY <1>5, <2>1
  <2>3. db' \in AwsDb /\ db'.accounts = db.accounts
    BY <1>5, <2>1, <2>2 DEF AwsDb
  <2> QED
    BY <1>1, <1>5, <2>3 DEF AwsData
<1>6. CASE Aws!triggerAwsSync
  <2>1. Aws!Executed("sync", Undefined) /\ db' = [db EXCEPT !.running = TRUE] /\ UNCHANGED <<cache, ui>>
    BY <1>6 DEF Aws!triggerAwsSync
  <2>2. AwsCalls(m)'
    BY <2>1, AwsCallExecuted DEF Aws!Mutations
  <2> QED
    BY <1>5, <2>1, <2>2 DEF AwsInv
<1>7. CASE Aws!SyncEnds
  <2>1. db' = [db EXCEPT !.running = FALSE] /\ UNCHANGED <<cache, m, ui>>
    BY <1>7 DEF Aws!SyncEnds
  <2> QED
    BY <1>1, <1>5, <2>1 DEF AwsInv
<1> QED
  BY <1>2, <1>3, <1>4, <1>6, <1>7

(* The calls of the operator.                                               *)
LEMMA AwsOperatorCalls ==
  ASSUME AwsInv,
         \/ Aws!submitAccount \/ Aws!runSync
         \/ \E a \in Things : Aws!testSelectedOrAccount(a)
  PROVE  AwsInv'
<1>1. ui \in AwsPage /\ ui.form \in Aws!Values \cup {Aws!Blank} /\ (ui.mode = "edit" => ui.selected \in Things)
      /\ ui.mode \in {"create", "edit"}
  BY AwsFields DEF AwsInv, AwsEditor
<1>2. CASE Aws!submitAccount
  <2>1. ui.form.of \in Things /\ ui.form.val \in {0, 1}
    BY <1>1, <1>2 DEF Aws!submitAccount, Aws!validateAwsAccountForm, Aws!Values
  <2>2. CASE ui.mode = "create"
    <3>1. PICK arg : arg = [id |-> ui.form.of, payload |-> ui.form.val]
      OBVIOUS
    <3>2. Aws!mutate("create", arg) /\ UNCHANGED <<db, cache>>
      BY <1>2, <2>2, <3>1 DEF Aws!submitAccount
    <3>3. arg.id \in Things /\ arg.payload \in {0, 1}
      BY <2>1, <3>1
    <3> QED
      BY <3>2, <3>3, AwsCalled DEF Aws!Mutations
  <2>3. CASE ui.mode = "edit"
    <3>1. PICK arg : arg = [id |-> ui.selected, payload |-> ui.form.val]
      OBVIOUS
    <3>2. Aws!mutate("update", arg) /\ UNCHANGED <<db, cache>>
      BY <1>2, <2>3, <3>1 DEF Aws!submitAccount, Aws!awsFormToUpdatePayload
    <3>3. arg.id \in Things /\ arg.payload \in {0, 1}
      BY <1>1, <2>1, <2>3, <3>1
    <3> QED
      BY <3>2, <3>3, AwsCalled DEF Aws!Mutations
  <2> QED
    BY <1>1, <2>2, <2>3
<1>3. CASE Aws!runSync
  <2>1. Aws!mutate("sync", Undefined) /\ UNCHANGED <<db, cache>>
    BY <1>3 DEF Aws!runSync
  <2> QED
    BY <2>1, AwsCalled DEF Aws!Mutations
<1>4. ASSUME NEW a \in Things, Aws!testSelectedOrAccount(a)
      PROVE  AwsInv'
  <2>1. PICK arg : arg = [id |-> a]
    OBVIOUS
  <2>2. Aws!mutate("test", arg) /\ UNCHANGED <<db, cache>>
    BY <1>4, <2>1 DEF Aws!testSelectedOrAccount
  <2> QED
    BY <2>2, AwsCalled DEF Aws!Mutations
<1> QED
  BY <1>2, <1>3, <1>4

(* The answers at the page.                                                 *)
LEMMA AwsAnswers ==
  ASSUME AwsInv, Aws!createAccount \/ Aws!updateAccount \/ Aws!testAccount \/ Aws!runSyncDone
  PROVE  AwsInv'
<1>1. /\ AwsData(db, cache) /\ AwsEditor(ui, cache) /\ AwsCalls(m) /\ ui \in AwsPage
      /\ ui = [can |-> ui.can, mode |-> ui.mode, form |-> ui.form,
               selected |-> ui.selected, modal |-> ui.modal, calls |-> ui.calls]
      /\ ui.can \in {"read", "write"} /\ ui.mode \in {"create", "edit"}
      /\ ui.form \in Aws!Values \cup {Aws!Blank} /\ ui.selected \in Things \cup {"none"}
      /\ ui.modal \in BOOLEAN /\ ui.calls \in Nat
  BY AwsFields DEF AwsInv, AwsEditor
<1>2. CASE Aws!createAccount
  <2>1. m["create"].ans \in Things
    BY <1>1, <1>2 DEF Aws!createAccount, AwsCalls
  <2>2. ui' = [can |-> ui.can, mode |-> "edit", form |-> Aws!Blank,
               selected |-> m["create"].ans, modal |-> FALSE, calls |-> ui.calls]
    BY <1>1, <1>2 DEF Aws!createAccount
  <2>3. ui' \in AwsPage /\ ui'.selected \in Things /\ ~ ui'.modal
    BY <1>1, <2>1, <2>2 DEF AwsPage
  <2>4. AwsCalls(m)'
    BY <1>2, AwsCallEnds DEF Aws!createAccount, Aws!Mutations
  <2> QED
    BY <1>1, <1>2, <2>3, <2>4 DEF Aws!createAccount, AwsInv, AwsEditor
<1>3. CASE Aws!updateAccount
  <2>1. m["update"].ans \in Aws!Values
    BY <1>1, <1>3 DEF Aws!updateAccount, AwsCalls
  <2>2. ui' = [can |-> ui.can, mode |-> ui.mode, form |-> m["update"].ans,
               selected |-> ui.selected, modal |-> ui.modal, calls |-> ui.calls]
    BY <1>1, <1>3 DEF Aws!updateAccount, Aws!awsAccountToForm
  <2>3. ui' \in AwsPage /\ ui'.mode = ui.mode /\ ui'.selected = ui.selected /\ ui'.modal = ui.modal
    BY <1>1, <2>1, <2>2 DEF AwsPage
  <2>4. AwsCalls(m)'
    BY <1>3, AwsCallEnds DEF Aws!updateAccount, Aws!Mutations
  <2> QED
    BY <1>1, <1>3, <2>3, <2>4 DEF Aws!updateAccount, AwsInv, AwsEditor
<1>4. CASE Aws!testAccount
  <2>1. Aws!Ended("test") /\ UNCHANGED <<db, cache, ui>>
    BY <1>4 DEF Aws!testAccount
  <2>2. AwsCalls(m)'
    BY <2>1, AwsCallEnds DEF Aws!Mutations
  <2> QED
    BY <1>1, <2>1, <2>2 DEF AwsInv
<1>5. CASE Aws!runSyncDone
  <2>1. Aws!Succeeded("sync") /\ UNCHANGED <<db, cache, ui>>
    BY <1>5 DEF Aws!runSyncDone
  <2>2. AwsCalls(m)'
    BY <2>1, AwsCallEnds DEF Aws!Mutations
  <2> QED
    BY <1>1, <2>1, <2>2 DEF AwsInv
<1> QED
  BY <1>2, <1>3, <1>4, <1>5

(* The page's data is loaded.                                               *)
LEMMA AwsLoaded ==
  ASSUME AwsInv, cache' = db, UNCHANGED <<db, ui>>
  PROVE  AwsData(db, cache)' /\ AwsEditor(ui, cache)'
<1>1. AwsData(db, cache) /\ AwsEditor(ui, cache) /\ db \in AwsDb
  BY DEF AwsInv, AwsData
<1>2. db # Undefined
  BY <1>1, UndefinedAssumption DEF AwsDb
<1>3. AwsData(db, cache)'
  BY <1>1 DEF AwsData
<1>4. AwsEditor(ui, cache)'
  <2>1. ui.modal /\ ui.mode = "edit" => db.accounts[ui.selected] # Aws!Blank
    BY <1>1 DEF AwsData, AwsEditor
  <2> QED
    BY <1>1, <1>2, <2>1 DEF AwsEditor
<1> QED
  BY <1>3, <1>4

LEMMA AwsNext == AwsInv /\ Aws!Next => AwsInv'
<1> SUFFICES ASSUME AwsInv, Aws!Next PROVE AwsInv'
  OBVIOUS
<1>1. AwsData(db, cache) /\ AwsEditor(ui, cache) /\ AwsCalls(m)
  BY DEF AwsInv
<1>2. CASE \/ Aws!startCreate \/ Aws!closeAccountModal \/ Aws!updateForm
           \/ \E a \in Things : Aws!editAccount(a)
  <2>1. AwsEditor(ui, cache)' /\ UNCHANGED <<db, cache, m>>
    BY <1>2, AwsViewSteps
  <2> QED
    BY <1>1, <2>1 DEF AwsInv
<1>3. CASE \/ Aws!submitAccount \/ Aws!runSync
           \/ \E a \in Things : Aws!testSelectedOrAccount(a)
  BY <1>3, AwsOperatorCalls
<1>4. CASE \/ Aws!createAwsAccount \/ Aws!updateAwsAccount \/ Aws!testAwsAccount \/ Aws!triggerAwsSync
           \/ Aws!SyncEnds
  BY <1>4, AwsServerSteps
<1>5. CASE Aws!createAccount \/ Aws!updateAccount \/ Aws!testAccount \/ Aws!runSyncDone
  BY <1>5, AwsAnswers
<1>6. ASSUME NEW x \in Aws!Mutations, Aws!MutationFailed(x)
      PROVE  AwsInv'
  <2>1. Aws!Ended(x) /\ UNCHANGED <<db, cache, ui>>
    BY <1>6 DEF Aws!MutationFailed
  <2>2. AwsCalls(m)'
    BY <2>1, AwsCallEnds
  <2> QED
    BY <1>1, <2>1, <2>2 DEF AwsInv
<1>7. ASSUME NEW x \in Aws!Mutations, Aws!Settle(x)
      PROVE  AwsInv'
  <2>1. Aws!Ended(x) /\ UNCHANGED <<db, ui>> /\ (cache' = cache \/ cache' = db)
    BY <1>7 DEF Aws!Settle
  <2>2. AwsCalls(m)'
    BY <2>1, AwsCallEnds
  <2>3. AwsData(db, cache)' /\ AwsEditor(ui, cache)'
    BY <1>1, <2>1, AwsLoaded
  <2> QED
    BY <2>2, <2>3 DEF AwsInv
<1>8. CASE Aws!Load
  <2>1. AwsData(db, cache)' /\ AwsEditor(ui, cache)' /\ UNCHANGED m
    BY <1>8, AwsLoaded DEF Aws!Load
  <2> QED
    BY <1>1, <2>1 DEF AwsInv
<1> QED
  BY <1>2, <1>3, <1>4, <1>5, <1>6, <1>7, <1>8 DEF Aws!Next

LEMMA AwsSafe == AwsInv => Aws!TypeOK /\ Aws!ForeignFormFlagged
<1> SUFFICES ASSUME AwsInv PROVE Aws!TypeOK /\ Aws!ForeignFormFlagged
  OBVIOUS
<1>1. AwsData(db, cache) /\ AwsEditor(ui, cache) /\ AwsCalls(m) /\ ui \in AwsPage /\ db \in AwsDb
  BY DEF AwsInv, AwsData, AwsEditor
<1>2. Aws!TypeOK
  <2>1. db.running \in BOOLEAN /\ db.accounts \in [Things -> Aws!Values \cup {Aws!Blank}]
    BY <1>1 DEF AwsDb
  <2>2. ui.form \in Aws!Values \cup {Aws!Blank} /\ ui.selected \in Things \cup {"none"}
    BY <1>1, AwsFields
  <2>3. DOMAIN m = Aws!Mutations
    BY <1>1 DEF AwsCalls, MutationCalls
  <2> QED
    BY <2>1, <2>2, <2>3 DEF Aws!TypeOK, Aws!None
<1>3. Aws!ForeignFormFlagged
  <2> SUFFICES ASSUME Aws!ForeignForm(ui) PROVE Aws!isFormDirty
    BY DEF Aws!ForeignFormFlagged
  <2>1. ui.modal /\ ui.mode = "edit" /\ ui.form.of # ui.selected /\ ui.selected \in Things
    BY <1>1 DEF Aws!ForeignForm, AwsEditor
  <2>2. cache # Undefined /\ cache.accounts[ui.selected] # Aws!Blank
    BY <1>1, <2>1 DEF AwsEditor
  <2>3. cache.accounts[ui.selected] \in Aws!Values /\ cache.accounts[ui.selected].of = ui.selected
    BY <1>1, <2>1, <2>2 DEF AwsData, OwnRow
  <2>4. Aws!selectedAccount = cache.accounts[ui.selected]
    BY <2>1, <2>2 DEF Aws!selectedAccount, Aws!accountItems
  <2>5. Aws!selectedAccount # Undefined
    BY <2>3, <2>4, UndefinedAssumption
  <2>6. ui.form # Aws!selectedAccount
    BY <2>1, <2>3, <2>4
  <2> QED
    BY <2>1, <2>5, <2>6 DEF Aws!isFormDirty, Aws!awsAccountToForm
<1> QED
  BY <1>2, <1>3

(* The editor comes to hold another account's values by a late answer only. *)
LEMMA AwsSteps == AwsInv /\ Aws!Next => Aws!ForeignFormOnlyLate
<1> SUFFICES ASSUME AwsInv, Aws!Next, ~ Aws!ForeignForm(ui), Aws!ForeignForm(ui')
             PROVE  /\ m["update"].phase = "done" /\ m'["update"].phase = "settling"
                    /\ m["update"].arg.id # ui.selected
  BY DEF Aws!ForeignFormOnlyLate
<1>1. /\ AwsData(db, cache) /\ AwsEditor(ui, cache) /\ AwsCalls(m) /\ ui \in AwsPage
      /\ ui = [can |-> ui.can, mode |-> ui.mode, form |-> ui.form,
               selected |-> ui.selected, modal |-> ui.modal, calls |-> ui.calls]
  BY AwsFields DEF AwsInv, AwsEditor
<1>2. ui'.modal /\ ui'.mode = "edit" /\ ui'.form.of # ui'.selected
  BY DEF Aws!ForeignForm
<1>3. CASE Aws!updateAccount
  <2>1. m["update"].phase = "done" /\ m["update"].ans.of = m["update"].arg.id
    BY <1>1, <1>3 DEF Aws!updateAccount, AwsCalls
  <2>2. m'["update"].phase = "settling"
    BY <1>3, AwsCallEnds DEF Aws!updateAccount, Aws!Mutations
  <2>3. ui'.form = m["update"].ans /\ ui'.selected = ui.selected
    BY <1>1, <1>3 DEF Aws!updateAccount, Aws!awsAccountToForm
  <2> QED
    BY <1>2, <2>1, <2>2, <2>3
<1>4. ASSUME NEW a \in Things, Aws!editAccount(a)
      PROVE  FALSE
  <2>1. cache # Undefined /\ cache.accounts[a] # Aws!Blank
    BY <1>4 DEF Aws!editAccount, Aws!accountRow, Aws!accountItems
  <2>2. cache.accounts[a].of = a
    BY <1>1, <2>1 DEF AwsData, OwnRow
  <2>3. ui'.form = cache.accounts[a] /\ ui'.selected = a
    BY <1>1, <1>4 DEF Aws!editAccount, Aws!awsAccountToForm
  <2> QED
    BY <1>2, <2>2, <2>3
<1>5. CASE Aws!startCreate \/ Aws!closeAccountModal \/ Aws!createAccount
  <2>1. ui'.mode = "create" \/ ~ ui'.modal
    BY <1>1, <1>5 DEF Aws!startCreate, Aws!closeAccountModal, Aws!createAccount
  <2> QED
    BY <1>2, <2>1
<1>6. CASE Aws!updateForm
  <2>1. PICK v \in Aws!Values : (v.of = ui.form.of \/ ui.mode = "create") /\ ui' = [ui EXCEPT !.form = v]
    BY <1>6 DEF Aws!updateForm
  <2>2. ui'.form = v /\ ui'.selected = ui.selected /\ ui'.mode = ui.mode /\ ui'.modal = ui.modal
    BY <1>1, <2>1
  <2> QED
    BY <1>2, <2>1, <2>2 DEF Aws!ForeignForm
<1>7. ASSUME ui' = ui \/ ui' = [ui EXCEPT !.calls = ui.calls + 1]
      PROVE  FALSE
  <2>1. ui'.form = ui.form /\ ui'.selected = ui.selected /\ ui'.mode = ui.mode /\ ui'.modal = ui.modal
    BY <1>1, <1>7
  <2> QED
    BY <1>2, <2>1 DEF Aws!ForeignForm
<1>8. CASE \/ Aws!submitAccount \/ Aws!runSync \/ \E a \in Things : Aws!testSelectedOrAccount(a)
  <2>1. ui' = [ui EXCEPT !.calls = ui.calls + 1]
    BY <1>8 DEF Aws!submitAccount, Aws!runSync, Aws!testSelectedOrAccount, Aws!mutate
  <2> QED
    BY <1>7, <2>1
<1>9. CASE \/ Aws!createAwsAccount \/ Aws!updateAwsAccount \/ Aws!testAwsAccount \/ Aws!triggerAwsSync
           \/ Aws!SyncEnds \/ Aws!testAccount \/ Aws!runSyncDone \/ Aws!Load
           \/ \E x \in Aws!Mutations : Aws!MutationFailed(x) \/ Aws!Settle(x)
  <2>1. ui' = ui
    BY <1>9 DEF Aws!createAwsAccount, Aws!updateAwsAccount, Aws!testAwsAccount, Aws!triggerAwsSync,
       Aws!SyncEnds, Aws!testAccount, Aws!runSyncDone, Aws!Load, Aws!MutationFailed, Aws!Settle
  <2> QED
    BY <1>7, <2>1
<1> QED
  BY <1>3, <1>4, <1>5, <1>6, <1>8, <1>9 DEF Aws!Next

-----------------------------------------------------------------------------
(* The editor of SSH proxies.                                               *)

AuthWays == {"password", "key"}
ProxyDb == [proxies : [Things -> SshProxies!ProxyRows \cup {SshProxies!NoProxy}]]
ProxyForm == [of : Things \cup {"none", "typed"}, auth : AuthWays, has : SUBSET AuthWays, secret : SUBSET AuthWays]
ProxyPage == [can : {"read", "write"}, mode : {"create", "edit"}, form : ProxyForm,
              selected : Things \cup {"none"}, modal : BOOLEAN, crossed : BOOLEAN, calls : Nat]

(* The proxy p has the credentials has in d: a row keeps what it has,       *)
(* deleted or not.                                                          *)
Stored(p, has, d) == d.proxies[p] # SshProxies!NoProxy /\ has \subseteq d.proxies[p].has

ProxyData(d, k) ==
  /\ d \in ProxyDb
  /\ \/ k = Undefined
     \/ /\ k.proxies \in [Things -> SshProxies!ProxyRows \cup {SshProxies!NoProxy}]
        /\ \A p \in Things : k.proxies[p] # SshProxies!NoProxy => Stored(p, k.proxies[p].has, d)

ProxyEditor(u, d) ==
  /\ u \in ProxyPage
  /\ u.mode = "edit" => u.selected \in Things
  /\ u.mode = "create" => u.selected = "none"
  /\ u.form.of \in Things => Stored(u.form.of, u.form.has, d)

Payload == [auth : AuthWays, secret : SUBSET AuthWays]

(* A save that was not crossed sends the credential of its type, or that is *)
(* stored.                                                                  *)
ProxyCall(x, c, d, crossed) ==
  /\ c.phase = "sent" /\ x # "remove" => c.arg.payload \in Payload
  /\ c.phase = "sent" /\ x = "create" => c.arg.payload.auth \in c.arg.payload.secret
  /\ c.phase = "sent" /\ x = "update" =>
       /\ c.arg.id \in Things
       /\ crossed \/ c.arg.payload.auth \in c.arg.payload.secret \/ Stored(c.arg.id, {c.arg.payload.auth}, d)
  /\ c.phase = "sent" /\ x = "remove" => c.arg \in Things
  /\ c.phase = "done" /\ x # "remove" =>
       c.ans \in ProxyForm /\ c.ans.of \in Things /\ Stored(c.ans.of, c.ans.has, d)
  /\ c.phase = "done" /\ x = "update" => c.ans.of = c.arg.id

ProxyCalls(n, d, crossed) ==
  MutationCalls(n, SshProxies!Mutations) /\ \A x \in SshProxies!Mutations : ProxyCall(x, n[x], d, crossed)

RowUsable(r) == r.by \in {"page", "saved"} => r.auth \in r.has

Usable(d, crossed) == crossed \/ \A p \in Things : RowUsable(d.proxies[p])

ProxyInv ==
  ProxyData(db, cache) /\ ProxyEditor(ui, db) /\ ProxyCalls(m, db, ui.crossed) /\ Usable(db, ui.crossed)

LEMMA NoProxyIsNone ==
  /\ SshProxies!NoProxy \notin SshProxies!ProxyRows
  /\ SshProxies!NoProxy.has = {} /\ ~ SshProxies!NoProxy.live /\ SshProxies!NoProxy.by = "none"
BY DEF SshProxies!NoProxy, SshProxies!ProxyRows, SshProxies!AuthTypes, SshProxies!None

LEMMA ProxyFields ==
  ASSUME NEW u \in ProxyPage
  PROVE  /\ u = [can |-> u.can, mode |-> u.mode, form |-> u.form, selected |-> u.selected,
                 modal |-> u.modal, crossed |-> u.crossed, calls |-> u.calls]
         /\ u.can \in {"read", "write"} /\ u.mode \in {"create", "edit"} /\ u.form \in ProxyForm
         /\ u.selected \in Things \cup {"none"}
         /\ u.modal \in BOOLEAN /\ u.crossed \in BOOLEAN /\ u.calls \in Nat
BY DEF ProxyPage

LEMMA FormFields ==
  ASSUME NEW f \in ProxyForm
  PROVE  /\ f = [of |-> f.of, auth |-> f.auth, has |-> f.has, secret |-> f.secret]
         /\ f.of \in Things \cup {"none", "typed"} /\ f.auth \in AuthWays
         /\ f.has \in SUBSET AuthWays /\ f.secret \in SUBSET AuthWays
BY DEF ProxyForm

LEMMA EmptyForm ==
  SshProxies!emptySSHProxyForm \in ProxyForm /\ SshProxies!emptySSHProxyForm.of \notin Things
<1>1. SshProxies!emptySSHProxyForm = [of |-> "none", auth |-> "password", has |-> {}, secret |-> {}]
  BY DEF SshProxies!emptySSHProxyForm, SshProxies!None
<1> QED
  BY <1>1, NamesAssumption DEF ProxyForm, AuthWays

(* The form of a stored proxy.                                              *)
LEMMA FormOfRow ==
  ASSUME NEW p \in Things, NEW r \in SshProxies!ProxyRows
  PROVE  /\ SshProxies!sshProxyToForm(p, r) \in ProxyForm
         /\ SshProxies!sshProxyToForm(p, r).of = p /\ SshProxies!sshProxyToForm(p, r).has = r.has
<1>1. r.auth \in AuthWays /\ r.has \in SUBSET AuthWays
  BY DEF SshProxies!ProxyRows, SshProxies!AuthTypes, AuthWays
<1> QED
  BY <1>1 DEF SshProxies!sshProxyToForm, ProxyForm

LEMMA ProxyInit == SshProxies!Init => ProxyInv
<1> SUFFICES ASSUME SshProxies!Init PROVE ProxyInv
  OBVIOUS
<1>1. PICK reg \in SUBSET Things, a \in AuthWays :
           db = [proxies |-> [p \in Things |->
                   IF p \in reg THEN [auth |-> a, has |-> {a}, live |-> TRUE, by |-> "page"]
                   ELSE SshProxies!NoProxy]]
  BY DEF SshProxies!Init, SshProxies!AuthTypes, AuthWays
<1>a. PICK r : r = [auth |-> a, has |-> {a}, live |-> TRUE, by |-> "page"]
  OBVIOUS
<1>b. r \in SshProxies!ProxyRows /\ RowUsable(r)
  BY <1>a DEF SshProxies!ProxyRows, SshProxies!AuthTypes, AuthWays, RowUsable
<1>c. RowUsable(SshProxies!NoProxy)
  BY NoProxyIsNone DEF RowUsable
<1>d. PICK rows : rows = [p \in Things |-> IF p \in reg THEN r ELSE SshProxies!NoProxy]
  OBVIOUS
<1>2. /\ rows \in [Things -> SshProxies!ProxyRows \cup {SshProxies!NoProxy}]
      /\ \A p \in Things : RowUsable(rows[p])
  BY <1>b, <1>c, <1>d
<1>3. db \in ProxyDb /\ db.proxies = rows
  <2>1. db = [proxies |-> rows]
    BY <1>1, <1>a, <1>d
  <2> QED
    BY <1>2, <2>1 DEF ProxyDb
<1>4. ProxyData(db, cache)
  <2>1. \A p \in Things : db.proxies[p] # SshProxies!NoProxy => Stored(p, db.proxies[p].has, db)
    BY DEF Stored
  <2>2. cache = Undefined \/ cache = db
    BY DEF SshProxies!Init
  <2> QED
    BY <1>2, <1>3, <2>1, <2>2 DEF ProxyData
<1>5. ProxyEditor(ui, db) /\ ~ ui.crossed
  <2>1. ui \in [can : {"read", "write"}, mode : {"create"}, form : {SshProxies!emptySSHProxyForm},
                selected : {"none"}, modal : {FALSE}, crossed : {FALSE}, calls : {0}]
    BY DEF SshProxies!Init, SshProxies!None
  <2>2. PICK w \in {"read", "write"} :
           ui = [can |-> w, mode |-> "create", form |-> SshProxies!emptySSHProxyForm,
                 selected |-> "none", modal |-> FALSE, crossed |-> FALSE, calls |-> 0]
    BY <2>1
  <2>3. ui \in ProxyPage /\ ui.mode = "create" /\ ui.selected = "none" /\ ~ ui.crossed
        /\ ui.form = SshProxies!emptySSHProxyForm
    BY <2>2, EmptyForm DEF ProxyPage
  <2> QED
    BY <2>3, EmptyForm DEF ProxyEditor
<1>6. ProxyCalls(m, db, ui.crossed)
  <2>1. m = [x \in SshProxies!Mutations |-> [phase |-> "idle", arg |-> Undefined, ans |-> Undefined]]
    BY DEF SshProxies!Init, SshProxies!Idle
  <2>2. /\ MutationCalls(m, SshProxies!Mutations)
        /\ \A x \in SshProxies!Mutations : m[x].phase = "idle"
    BY <2>1 DEF MutationCalls
  <2> QED
    BY <2>2 DEF ProxyCalls, ProxyCall
<1>7. Usable(db, ui.crossed)
  BY <1>2, <1>3 DEF Usable
<1> QED
  BY <1>4, <1>5, <1>6, <1>7 DEF ProxyInv

(* A step of the operator that calls nothing.                               *)
LEMMA ProxyViewSteps ==
  ASSUME ProxyInv,
         \/ SshProxies!startCreate \/ SshProxies!closeProxyModal \/ SshProxies!updateForm
         \/ \E p \in Things : SshProxies!editProxy(p)
  PROVE  ProxyEditor(ui, db)' /\ ui'.crossed = ui.crossed /\ UNCHANGED <<db, cache, m>>
<1>1. /\ ui \in ProxyPage /\ ProxyEditor(ui, db) /\ ProxyData(db, cache)
      /\ ui = [can |-> ui.can, mode |-> ui.mode, form |-> ui.form, selected |-> ui.selected,
               modal |-> ui.modal, crossed |-> ui.crossed, calls |-> ui.calls]
      /\ ui.can \in {"read", "write"} /\ ui.mode \in {"create", "edit"} /\ ui.form \in ProxyForm
      /\ ui.selected \in Things \cup {"none"}
      /\ ui.modal \in BOOLEAN /\ ui.crossed \in BOOLEAN /\ ui.calls \in Nat
  BY ProxyFields DEF ProxyInv, ProxyEditor
<1>2. CASE SshProxies!startCreate
  <2>1. PICK f : f = SshProxies!emptySSHProxyForm
    OBVIOUS
  <2>2. ui' = [can |-> ui.can, mode |-> "create", form |-> f, selected |-> "none",
               modal |-> TRUE, crossed |-> ui.crossed, calls |-> ui.calls]
    BY <1>1, <1>2, <2>1 DEF SshProxies!startCreate, SshProxies!None
  <2>3. f \in ProxyForm /\ f.of \notin Things
    BY <2>1, EmptyForm
  <2>4. ui' \in ProxyPage /\ ui'.mode = "create" /\ ui'.selected = "none" /\ ui'.form = f /\ ui'.crossed = ui.crossed
    BY <1>1, <2>2, <2>3 DEF ProxyPage
  <2> QED
    BY <1>2, <2>3, <2>4 DEF SshProxies!startCreate, ProxyEditor
<1>3. CASE SshProxies!closeProxyModal
  <2>1. ui' = [can |-> ui.can, mode |-> ui.mode, form |-> ui.form, selected |-> ui.selected,
               modal |-> FALSE, crossed |-> ui.crossed, calls |-> ui.calls]
    BY <1>1, <1>3 DEF SshProxies!closeProxyModal
  <2>2. /\ ui' \in ProxyPage /\ ui'.mode = ui.mode /\ ui'.selected = ui.selected
        /\ ui'.form = ui.form /\ ui'.crossed = ui.crossed
    BY <1>1, <2>1 DEF ProxyPage
  <2> QED
    BY <1>1, <1>3, <2>2 DEF SshProxies!closeProxyModal, ProxyEditor
<1>4. CASE SshProxies!updateForm
  <2>1. PICK f \in ProxyForm : ui' = [ui EXCEPT !.form = f] /\ f.has = ui.form.has /\ (f.of = ui.form.of \/ f.of = "typed")
    <3>1. /\ ui.form = [of |-> ui.form.of, auth |-> ui.form.auth, has |-> ui.form.has, secret |-> ui.form.secret]
          /\ ui.form.of \in Things \cup {"none", "typed"} /\ ui.form.auth \in AuthWays
          /\ ui.form.has \in SUBSET AuthWays /\ ui.form.secret \in SUBSET AuthWays
      BY <1>1, FormFields
    <3>2. CASE ui' = [ui EXCEPT !.form.of = "typed"]
      <4>1. PICK f : f = [of |-> "typed", auth |-> ui.form.auth, has |-> ui.form.has, secret |-> ui.form.secret]
        OBVIOUS
      <4>2. f \in ProxyForm /\ f.has = ui.form.has /\ f.of = "typed"
        BY <3>1, <4>1 DEF ProxyForm
      <4>3. [ui.form EXCEPT !.of = "typed"] = f
        BY <3>1, <4>1
      <4>4. ui' = [ui EXCEPT !.form = f]
        BY <1>1, <3>2, <4>3
      <4> QED
        BY <4>2, <4>4
    <3>3. ASSUME NEW a \in AuthWays, ui' = [ui EXCEPT !.form.auth = a]
          PROVE  \E f \in ProxyForm : ui' = [ui EXCEPT !.form = f] /\ f.has = ui.form.has /\ f.of = ui.form.of
      <4>1. PICK f : f = [of |-> ui.form.of, auth |-> a, has |-> ui.form.has, secret |-> ui.form.secret]
        OBVIOUS
      <4>2. f \in ProxyForm /\ f.has = ui.form.has /\ f.of = ui.form.of
        BY <3>1, <4>1 DEF ProxyForm
      <4>3. [ui.form EXCEPT !.auth = a] = f
        BY <3>1, <4>1
      <4>4. ui' = [ui EXCEPT !.form = f]
        BY <1>1, <3>3, <4>3
      <4> QED
        BY <4>2, <4>4
    <3>4. CASE ui' = [ui EXCEPT !.form.secret = @ \cup {ui.form.auth}]
      <4>1. PICK f : f = [of |-> ui.form.of, auth |-> ui.form.auth, has |-> ui.form.has,
                          secret |-> ui.form.secret \cup {ui.form.auth}]
        OBVIOUS
      <4>2. f \in ProxyForm /\ f.has = ui.form.has /\ f.of = ui.form.of
        BY <3>1, <4>1 DEF ProxyForm
      <4>3. [ui.form EXCEPT !.secret = @ \cup {ui.form.auth}] = f
        BY <3>1, <4>1
      <4>4. ui' = [ui EXCEPT !.form = f]
        BY <1>1, <3>4, <4>3
      <4> QED
        BY <4>2, <4>4
    <3> QED
      BY <1>4, <3>2, <3>3, <3>4 DEF SshProxies!updateForm, SshProxies!Typed, SshProxies!AuthTypes, AuthWays
  <2>2. ui' = [can |-> ui.can, mode |-> ui.mode, form |-> f, selected |-> ui.selected,
               modal |-> ui.modal, crossed |-> ui.crossed, calls |-> ui.calls]
    BY <1>1, <2>1
  <2>3. /\ ui' \in ProxyPage /\ ui'.mode = ui.mode /\ ui'.selected = ui.selected
        /\ ui'.form = f /\ ui'.crossed = ui.crossed
    BY <1>1, <2>2 DEF ProxyPage
  <2>4. f.of \in Things => f.of = ui.form.of
    BY <2>1, NamesAssumption
  <2>5. UNCHANGED <<db, cache, m>>
    BY <1>4 DEF SshProxies!updateForm
  <2> QED
    BY <1>1, <2>1, <2>3, <2>4, <2>5 DEF ProxyEditor
<1>5. ASSUME NEW p \in Things, SshProxies!editProxy(p)
      PROVE  ProxyEditor(ui, db)' /\ ui'.crossed = ui.crossed /\ UNCHANGED <<db, cache, m>>
  <2>1. cache # Undefined /\ cache.proxies[p] # SshProxies!NoProxy
    BY <1>5, NoProxyIsNone DEF SshProxies!editProxy, SshProxies!proxyRow, SshProxies!proxyItems
  <2>2. cache.proxies[p] \in SshProxies!ProxyRows /\ Stored(p, cache.proxies[p].has, db)
    BY <1>1, <2>1 DEF ProxyData
  <2>3. PICK f : f = SshProxies!sshProxyToForm(p, cache.proxies[p])
    OBVIOUS
  <2>4. f \in ProxyForm /\ f.of = p /\ f.has = cache.proxies[p].has
    BY <2>2, <2>3, FormOfRow
  <2>5. ui' = [can |-> ui.can, mode |-> "edit", form |-> f, selected |-> p,
               modal |-> TRUE, crossed |-> ui.crossed, calls |-> ui.calls]
    BY <1>1, <1>5, <2>3 DEF SshProxies!editProxy
  <2>6. ui' \in ProxyPage /\ ui'.mode = "edit" /\ ui'.selected = p /\ ui'.form = f /\ ui'.crossed = ui.crossed
    BY <1>1, <2>4, <2>5 DEF ProxyPage
  <2>7. UNCHANGED <<db, cache, m>>
    BY <1>5 DEF SshProxies!editProxy
  <2> QED
    BY <2>2, <2>4, <2>6, <2>7 DEF ProxyEditor
<1> QED
  BY <1>2, <1>3, <1>4, <1>5

(* What is stored of proxies in d is in e.                                  *)
Kept(d, e) == \A p \in Things, has \in SUBSET AuthWays : Stored(p, has, d) => Stored(p, has, e)

LEMMA ProxyCallsKept ==
  ASSUME NEW n, NEW d, NEW e, NEW b, NEW c, ProxyCalls(n, d, b), Kept(d, e), b => c
  PROVE  ProxyCalls(n, e, c)
<1> SUFFICES ASSUME NEW x \in SshProxies!Mutations PROVE ProxyCall(x, n[x], e, c)
  BY DEF ProxyCalls
<1>1. ProxyCall(x, n[x], d, b)
  BY DEF ProxyCalls
<1>2. n[x].phase = "sent" /\ x = "update" =>
        (Stored(n[x].arg.id, {n[x].arg.payload.auth}, d) => Stored(n[x].arg.id, {n[x].arg.payload.auth}, e))
  BY <1>1 DEF ProxyCall, Payload, Kept
<1>3. n[x].phase = "done" /\ x # "remove" => Stored(n[x].ans.of, n[x].ans.has, e)
  BY <1>1, FormFields DEF ProxyCall, Kept
<1> QED
  BY <1>1, <1>2, <1>3 DEF ProxyCall

(* The call of x becomes one that is in order.                              *)
LEMMA ProxyCallChanged ==
  ASSUME NEW x \in SshProxies!Mutations, NEW d, NEW b, ProxyCalls(m, d, b), MutationCalls(m', SshProxies!Mutations),
         \A y \in SshProxies!Mutations \ {x} : m'[y] = m[y], ProxyCall(x, m'[x], d, b)
  PROVE  ProxyCalls(m', d, b)
BY DEF ProxyCalls

LEMMA ProxyCallEnds ==
  ASSUME NEW x \in SshProxies!Mutations, NEW d, NEW b, ProxyCalls(m, d, b),
         SshProxies!Succeeded(x) \/ SshProxies!Ended(x)
  PROVE  ProxyCalls(m', d, b) /\ (SshProxies!Succeeded(x) => m'[x].phase = "settling")
<1>1. MutationCalls(m, SshProxies!Mutations)
  BY DEF ProxyCalls
<1>2. SshProxies!Succeeded(x) => ProxyCalls(m', d, b) /\ m'[x].phase = "settling"
  <2> SUFFICES ASSUME SshProxies!Succeeded(x) PROVE ProxyCalls(m', d, b) /\ m'[x].phase = "settling"
    OBVIOUS
  <2>1. CallMoved(x, "settling")
    BY DEF SshProxies!Succeeded, CallMoved
  <2>2. /\ MutationCalls(m', SshProxies!Mutations) /\ m'[x].phase = "settling"
        /\ \A y \in SshProxies!Mutations \ {x} : m'[y] = m[y]
    BY <1>1, <2>1, CallGoesOn
  <2>3. ProxyCall(x, m'[x], d, b)
    BY <2>2 DEF ProxyCall
  <2> QED
    BY <2>2, <2>3, ProxyCallChanged
<1>3. SshProxies!Ended(x) => ProxyCalls(m', d, b)
  <2> SUFFICES ASSUME SshProxies!Ended(x) PROVE ProxyCalls(m', d, b)
    OBVIOUS
  <2>1. CallSet(x, "idle", Undefined, Undefined)
    BY DEF SshProxies!Ended, SshProxies!Idle, CallSet
  <2>2. /\ MutationCalls(m', SshProxies!Mutations) /\ m'[x].phase = "idle"
        /\ \A y \in SshProxies!Mutations \ {x} : m'[y] = m[y]
    BY <1>1, <2>1, CallMade
  <2>3. ProxyCall(x, m'[x], d, b)
    BY <2>2 DEF ProxyCall
  <2> QED
    BY <2>2, <2>3, ProxyCallChanged
<1> QED
  BY <1>2, <1>3

(* A save: crossed when the form is that of another proxy.                  *)
LEMMA ProxySubmitted ==
  ASSUME ProxyInv, SshProxies!submitProxy
  PROVE  ProxyInv'
<1>1. /\ ui \in ProxyPage /\ ProxyEditor(ui, db) /\ ProxyData(db, cache)
      /\ ProxyCalls(m, db, ui.crossed) /\ Usable(db, ui.crossed)
      /\ ui = [can |-> ui.can, mode |-> ui.mode, form |-> ui.form, selected |-> ui.selected,
               modal |-> ui.modal, crossed |-> ui.crossed, calls |-> ui.calls]
      /\ ui.can \in {"read", "write"} /\ ui.mode \in {"create", "edit"} /\ ui.form \in ProxyForm
      /\ ui.selected \in Things \cup {"none"}
      /\ ui.modal \in BOOLEAN /\ ui.crossed \in BOOLEAN /\ ui.calls \in Nat
  BY ProxyFields DEF ProxyInv, ProxyEditor
<1>2. PICK b \in BOOLEAN : b = (ui.crossed \/ SshProxies!ForeignForm(ui))
  OBVIOUS
<1>3. PICK n \in Nat : n = ui.calls + 1
  BY <1>1
<1>4. ui' = [can |-> ui.can, mode |-> ui.mode, form |-> ui.form, selected |-> ui.selected,
             modal |-> ui.modal, crossed |-> b, calls |-> n]
  BY <1>1, <1>2, <1>3 DEF SshProxies!submitProxy
<1>5. /\ ui' \in ProxyPage /\ ui'.mode = ui.mode /\ ui'.selected = ui.selected
      /\ ui'.form = ui.form /\ ui'.crossed = b
  BY <1>1, <1>4 DEF ProxyPage
<1>6. UNCHANGED <<db, cache>>
  BY DEF SshProxies!submitProxy
<1>7. ProxyEditor(ui, db)' /\ ProxyData(db, cache)' /\ Usable(db, ui.crossed)'
  BY <1>1, <1>2, <1>5, <1>6 DEF ProxyEditor, Usable
<1>8. ProxyCalls(m, db, b) /\ MutationCalls(m, SshProxies!Mutations)
  <2>1. Kept(db, db)
    BY DEF Kept
  <2>2. ProxyCalls(m, db, b)
    BY <1>1, <1>2, <2>1, ProxyCallsKept
  <2> QED
    BY <2>2 DEF ProxyCalls
<1>9. PICK load : load = SshProxies!sshProxyFormToPayload(ui.form)
  OBVIOUS
<1>10. /\ load \in Payload /\ load.auth = ui.form.auth
       /\ ui.form.auth \in ui.form.secret => load.auth \in load.secret
  <2>1. load = [auth |-> ui.form.auth, secret |-> ui.form.secret \cap {ui.form.auth}]
    BY <1>9 DEF SshProxies!sshProxyFormToPayload
  <2> QED
    BY <1>1, <2>1, FormFields DEF Payload
<1>11. PICK arg : arg = [id |-> ui.selected, payload |-> load]
  OBVIOUS
<1>12. arg.id = ui.selected /\ arg.payload = load
  BY <1>11
<1>13. CASE ui.mode = "create"
  <2>1. CallSet("create", "sent", arg, Undefined)
    BY <1>9, <1>11, <1>13 DEF SshProxies!submitProxy, CallSet
  <2>2. /\ MutationCalls(m', SshProxies!Mutations) /\ m'["create"].phase = "sent" /\ m'["create"].arg = arg
        /\ \A y \in SshProxies!Mutations \ {"create"} : m'[y] = m[y]
    BY <1>8, <2>1, CallMade DEF SshProxies!Mutations
  <2>3. ui.form.auth \in ui.form.secret
    BY <1>13 DEF SshProxies!submitProxy, SshProxies!validateSSHProxyForm
  <2>4. ProxyCall("create", m'["create"], db, b)
    BY <1>10, <1>12, <2>2, <2>3 DEF ProxyCall
  <2>5. ProxyCalls(m', db, b)
    BY <1>8, <2>2, <2>4, ProxyCallChanged DEF SshProxies!Mutations
  <2> QED
    BY <1>5, <1>6, <1>7, <2>5 DEF ProxyInv
<1>14. CASE ui.mode = "edit"
  <2>1. CallSet("update", "sent", arg, Undefined)
    BY <1>9, <1>11, <1>14 DEF SshProxies!submitProxy, CallSet
  <2>2. /\ MutationCalls(m', SshProxies!Mutations) /\ m'["update"].phase = "sent" /\ m'["update"].arg = arg
        /\ \A y \in SshProxies!Mutations \ {"update"} : m'[y] = m[y]
    BY <1>8, <2>1, CallMade DEF SshProxies!Mutations
  <2>3. ui.selected \in Things
    BY <1>1, <1>14 DEF ProxyEditor
  <2>4. b \/ ui.form.auth \in ui.form.secret \/ Stored(ui.selected, {ui.form.auth}, db)
    <3> SUFFICES ASSUME ~ b, ui.form.auth \notin ui.form.secret
                 PROVE  Stored(ui.selected, {ui.form.auth}, db)
      OBVIOUS
    <3>1. ui.form.of = ui.selected
      BY <1>2, <1>14 DEF SshProxies!ForeignForm, SshProxies!submitProxy, SshProxies!proxyModalFoot, SshProxies!proxyForm
    <3>2. ui.form.auth \in ui.form.has
      BY DEF SshProxies!submitProxy, SshProxies!validateSSHProxyForm
    <3>3. Stored(ui.selected, ui.form.has, db)
      BY <1>1, <2>3, <3>1 DEF ProxyEditor
    <3> QED
      BY <3>2, <3>3 DEF Stored
  <2>5. ProxyCall("update", m'["update"], db, b)
    BY <1>10, <1>12, <2>2, <2>3, <2>4 DEF ProxyCall
  <2>6. ProxyCalls(m', db, b)
    BY <1>8, <2>2, <2>5, ProxyCallChanged DEF SshProxies!Mutations
  <2> QED
    BY <1>5, <1>6, <1>7, <2>6 DEF ProxyInv
<1> QED
  BY <1>1, <1>13, <1>14

LEMMA ProxyRemovalCalled ==
  ASSUME ProxyInv, NEW p \in Things, SshProxies!deleteSelectedProxy(p)
  PROVE  ProxyInv'
<1>1. /\ ui \in ProxyPage /\ ProxyEditor(ui, db) /\ ProxyData(db, cache)
      /\ ProxyCalls(m, db, ui.crossed) /\ Usable(db, ui.crossed) /\ MutationCalls(m, SshProxies!Mutations)
      /\ ui = [can |-> ui.can, mode |-> ui.mode, form |-> ui.form, selected |-> ui.selected,
               modal |-> ui.modal, crossed |-> ui.crossed, calls |-> ui.calls]
      /\ ui.can \in {"read", "write"} /\ ui.mode \in {"create", "edit"} /\ ui.form \in ProxyForm
      /\ ui.selected \in Things \cup {"none"}
      /\ ui.modal \in BOOLEAN /\ ui.crossed \in BOOLEAN /\ ui.calls \in Nat
  BY ProxyFields DEF ProxyInv, ProxyEditor, ProxyCalls
<1>2. PICK n \in Nat : n = ui.calls + 1
  BY <1>1
<1>3. ui' = [can |-> ui.can, mode |-> ui.mode, form |-> ui.form, selected |-> ui.selected,
             modal |-> ui.modal, crossed |-> ui.crossed, calls |-> n]
  BY <1>1, <1>2 DEF SshProxies!deleteSelectedProxy, SshProxies!mutate
<1>4. /\ ui' \in ProxyPage /\ ui'.mode = ui.mode /\ ui'.selected = ui.selected
      /\ ui'.form = ui.form /\ ui'.crossed = ui.crossed
  BY <1>1, <1>3 DEF ProxyPage
<1>5. UNCHANGED <<db, cache>> /\ CallSet("remove", "sent", p, Undefined)
  BY DEF SshProxies!deleteSelectedProxy, SshProxies!mutate, CallSet
<1>6. ProxyEditor(ui, db)'
  BY <1>1, <1>4, <1>5 DEF ProxyEditor
<1>7. /\ MutationCalls(m', SshProxies!Mutations) /\ m'["remove"].phase = "sent" /\ m'["remove"].arg = p
      /\ \A y \in SshProxies!Mutations \ {"remove"} : m'[y] = m[y]
  BY <1>1, <1>5, CallMade DEF SshProxies!Mutations
<1>8. ProxyCall("remove", m'["remove"], db, ui.crossed)
  BY <1>7 DEF ProxyCall
<1>9. ProxyCalls(m', db, ui.crossed)
  BY <1>1, <1>7, <1>8, ProxyCallChanged DEF SshProxies!Mutations
<1> QED
  BY <1>1, <1>4, <1>5, <1>6, <1>9 DEF ProxyInv

(* The server's rows change and what is stored is kept.                     *)
LEMMA ProxyDataKept ==
  ASSUME ProxyInv, db' \in ProxyDb, Kept(db, db'), UNCHANGED <<cache, ui>>
  PROVE  ProxyData(db, cache)' /\ ProxyEditor(ui, db)'
<1>1. ProxyData(db, cache) /\ ProxyEditor(ui, db) /\ ui.form \in ProxyForm
  BY ProxyFields DEF ProxyInv, ProxyEditor
<1>2. ui.form.of \in Things => Stored(ui.form.of, ui.form.has, db')
  BY <1>1, FormFields DEF ProxyEditor, Kept
<1>3. ASSUME cache # Undefined, NEW p \in Things, cache.proxies[p] # SshProxies!NoProxy
      PROVE  Stored(p, cache.proxies[p].has, db')
  <2>1. Stored(p, cache.proxies[p].has, db) /\ cache.proxies[p] \in SshProxies!ProxyRows
    BY <1>1, <1>3 DEF ProxyData
  <2>2. cache.proxies[p].has \in SUBSET AuthWays
    BY <2>1 DEF SshProxies!ProxyRows, SshProxies!AuthTypes, AuthWays
  <2> QED
    BY <2>1, <2>2 DEF Kept
<1>4. ProxyEditor(ui, db)'
  BY <1>1, <1>2 DEF ProxyEditor
<1>5. ProxyData(db, cache)'
  BY <1>1, <1>3 DEF ProxyData
<1> QED
  BY <1>4, <1>5

(* A row is written: a new one, or one that keeps its credentials.          *)
RowWritten(p, r) == db' = [db EXCEPT !.proxies[p] = r]

LEMMA RowsAfter ==
  ASSUME ProxyInv, NEW p \in Things, NEW r \in SshProxies!ProxyRows, RowWritten(p, r),
         db.proxies[p].has \subseteq r.has, ui.crossed \/ RowUsable(r)
  PROVE  /\ db' \in ProxyDb /\ Kept(db, db') /\ Usable(db', ui.crossed)
         /\ db'.proxies[p] = r /\ Stored(p, r.has, db')
<1>1. /\ db \in ProxyDb /\ db = [proxies |-> db.proxies]
      /\ db.proxies \in [Things -> SshProxies!ProxyRows \cup {SshProxies!NoProxy}]
  BY DEF ProxyInv, ProxyData, ProxyDb
<1>2. PICK rows : rows = [db.proxies EXCEPT ![p] = r]
  OBVIOUS
<1>3. /\ rows \in [Things -> SshProxies!ProxyRows \cup {SshProxies!NoProxy}]
      /\ rows[p] = r /\ \A q \in Things \ {p} : rows[q] = db.proxies[q]
  BY <1>1, <1>2
<1>4. db' = [proxies |-> rows]
  BY <1>1, <1>2 DEF RowWritten
<1>5. db' \in ProxyDb /\ db'.proxies = rows
  BY <1>3, <1>4 DEF ProxyDb
<1>6. r # SshProxies!NoProxy
  BY NoProxyIsNone
<1>7. Kept(db, db')
  <2> SUFFICES ASSUME NEW q \in Things, NEW has \in SUBSET AuthWays, Stored(q, has, db)
               PROVE  Stored(q, has, db')
    BY DEF Kept
  <2>1. CASE q = p
    BY <1>3, <1>5, <1>6, <2>1 DEF Stored
  <2>2. CASE q # p
    BY <1>3, <1>5, <2>2 DEF Stored
  <2> QED
    BY <2>1, <2>2
<1>9. Usable(db', ui.crossed)
  <2>1. Usable(db, ui.crossed)
    BY DEF ProxyInv
  <2>2. PICK e : e = db'
    OBVIOUS
  <2>3. Usable(e, ui.crossed)
    BY <1>3, <1>5, <2>1, <2>2 DEF Usable
  <2> QED
    BY <2>2, <2>3
<1>10. Stored(p, r.has, db')
  BY <1>3, <1>5, <1>6 DEF Stored
<1> QED
  BY <1>3, <1>5, <1>7, <1>9, <1>10

LEMMA ProxyWritten ==
  ASSUME ProxyInv, NEW p \in Things, NEW r \in SshProxies!ProxyRows, RowWritten(p, r), UNCHANGED <<cache, ui>>,
         db.proxies[p].has \subseteq r.has, ui.crossed \/ RowUsable(r)
  PROVE  /\ ProxyData(db, cache)' /\ ProxyEditor(ui, db)' /\ Usable(db, ui.crossed)'
         /\ Kept(db, db') /\ db'.proxies[p] = r /\ Stored(p, r.has, db')
<1>1. /\ db' \in ProxyDb /\ Kept(db, db') /\ Usable(db', ui.crossed)
      /\ db'.proxies[p] = r /\ Stored(p, r.has, db')
  BY RowsAfter
<1>2. ProxyData(db, cache)' /\ ProxyEditor(ui, db)'
  BY <1>1, ProxyDataKept
<1> QED
  BY <1>1, <1>2

(* A deleted row keeps its values.                                          *)
LEMMA RowDeleted ==
  ASSUME db \in ProxyDb, Usable(db, ui.crossed), NEW p \in Things, db.proxies[p] \in SshProxies!ProxyRows,
         db' = [db EXCEPT !.proxies[p].live = FALSE]
  PROVE  \E r \in SshProxies!ProxyRows :
           RowWritten(p, r) /\ r.has = db.proxies[p].has /\ (ui.crossed \/ RowUsable(r))
<1>1. PICK o : o = db.proxies[p]
  OBVIOUS
<1>2. /\ o \in SshProxies!ProxyRows
      /\ o = [auth |-> o.auth, has |-> o.has, live |-> o.live, by |-> o.by]
  BY <1>1 DEF SshProxies!ProxyRows
<1>3. PICK r : r = [auth |-> o.auth, has |-> o.has, live |-> FALSE, by |-> o.by]
  OBVIOUS
<1>4. r \in SshProxies!ProxyRows /\ r.has = o.has /\ r.auth = o.auth /\ r.by = o.by
  <2>1. o.auth \in SshProxies!AuthTypes /\ o.has \in SUBSET SshProxies!AuthTypes
        /\ o.by \in {"page", "promotion", "saved"}
    BY <1>2 DEF SshProxies!ProxyRows
  <2>2. r \in SshProxies!ProxyRows
    BY <1>3, <2>1 DEF SshProxies!ProxyRows
  <2>3. r.has = o.has /\ r.auth = o.auth /\ r.by = o.by
    BY <1>3
  <2> QED
    BY <2>2, <2>3
<1>5. [o EXCEPT !.live = FALSE] = r
  <2>1. PICK a, h, l, w : o = [auth |-> a, has |-> h, live |-> l, by |-> w]
    BY <1>2
  <2>2. r = [auth |-> a, has |-> h, live |-> FALSE, by |-> w]
    <3>1. o.auth = a /\ o.has = h /\ o.by = w
      BY <2>1
    <3> QED
      BY <1>3, <3>1
  <2>3. PICK t : t = FALSE
    OBVIOUS
  <2>4. [[auth |-> a, has |-> h, live |-> l, by |-> w] EXCEPT !.live = t]
          = [auth |-> a, has |-> h, live |-> t, by |-> w]
    OBVIOUS
  <2> QED
    BY <2>1, <2>2, <2>3, <2>4, Zenon
<1>6. RowWritten(p, r)
  BY <1>1, <1>5 DEF RowWritten
<1>7. ui.crossed \/ RowUsable(r)
  BY <1>1, <1>4 DEF Usable, RowUsable
<1> QED
  BY <1>1, <1>4, <1>6, <1>7

LEMMA ProxyCallExecuted ==
  ASSUME NEW x \in {"create", "update"}, NEW ans \in ProxyForm, NEW d, NEW b, ProxyCalls(m, d, b),
         SshProxies!Executed(x, ans), ans.of \in Things, Stored(ans.of, ans.has, d),
         x = "update" => ans.of = m["update"].arg.id
  PROVE  ProxyCalls(m', d, b)
<1>1. MutationCalls(m, SshProxies!Mutations) /\ x \in SshProxies!Mutations
  BY DEF ProxyCalls, SshProxies!Mutations
<1>2. CallAnswered(x, ans)
  BY DEF SshProxies!Executed, CallAnswered
<1>3. /\ MutationCalls(m', SshProxies!Mutations) /\ m'[x].phase = "done" /\ m'[x].arg = m[x].arg /\ m'[x].ans = ans
      /\ \A y \in SshProxies!Mutations \ {x} : m'[y] = m[y]
  BY <1>1, <1>2, CallExecuted
<1>4. ProxyCall(x, m'[x], d, b)
  BY <1>3 DEF ProxyCall
<1> QED
  BY <1>1, <1>3, <1>4, ProxyCallChanged

LEMMA ProxyServerSteps ==
  ASSUME ProxyInv, SshProxies!createSSHProxy \/ SshProxies!updateSSHProxy \/ SshProxies!deleteSSHProxy
  PROVE  ProxyInv'
<1>1. /\ db \in ProxyDb /\ db = [proxies |-> db.proxies]
      /\ db.proxies \in [Things -> SshProxies!ProxyRows \cup {SshProxies!NoProxy}]
  BY DEF ProxyInv, ProxyData, ProxyDb
<1>2. ProxyCalls(m, db, ui.crossed) /\ MutationCalls(m, SshProxies!Mutations) /\ Usable(db, ui.crossed)
  BY DEF ProxyInv, ProxyCalls
<1>3. CASE SshProxies!createSSHProxy
  <2>1. PICK load : load = m["create"].arg.payload
    OBVIOUS
  <2>2. load \in Payload /\ load.auth \in load.secret
    BY <1>2, <1>3, <2>1 DEF SshProxies!createSSHProxy, ProxyCalls, ProxyCall, SshProxies!Mutations
  <2>3. PICK r : r = [auth |-> load.auth, has |-> load.secret, live |-> TRUE, by |-> "page"]
    OBVIOUS
  <2>4. r \in SshProxies!ProxyRows /\ RowUsable(r)
    BY <2>2, <2>3 DEF Payload, SshProxies!ProxyRows, SshProxies!AuthTypes, AuthWays, RowUsable
  <2>5. PICK p \in SshProxies!Fresh :
           /\ db' = [db EXCEPT !.proxies[p] = r]
           /\ SshProxies!Executed("create", SshProxies!sshProxyToForm(p, db'.proxies[p]))
    BY <1>3, <2>1, <2>3 DEF SshProxies!createSSHProxy
  <2>6. p \in Things /\ db.proxies[p].has \subseteq r.has
    BY <2>5, NoProxyIsNone DEF SshProxies!Fresh
  <2>7. RowWritten(p, r) /\ UNCHANGED <<cache, ui>>
    BY <1>3, <2>5 DEF RowWritten, SshProxies!createSSHProxy
  <2>8. /\ ProxyData(db, cache)' /\ ProxyEditor(ui, db)' /\ Usable(db, ui.crossed)'
        /\ Kept(db, db') /\ db'.proxies[p] = r /\ Stored(p, r.has, db')
    BY <2>4, <2>6, <2>7, ProxyWritten
  <2>9. PICK f : f = SshProxies!sshProxyToForm(p, r)
    OBVIOUS
  <2>10. f \in ProxyForm /\ f.of = p /\ f.has = r.has /\ SshProxies!Executed("create", f)
    BY <2>4, <2>5, <2>6, <2>8, <2>9, FormOfRow
  <2>11. ProxyCalls(m, db', ui.crossed)
    BY <1>2, <2>8, ProxyCallsKept
  <2>12. PICK e : e = db'
    OBVIOUS
  <2>13. ProxyCalls(m', e, ui.crossed)
    BY <2>6, <2>8, <2>10, <2>11, <2>12, ProxyCallExecuted
  <2> QED
    BY <2>7, <2>8, <2>12, <2>13 DEF ProxyInv
<1>4. CASE SshProxies!updateSSHProxy
  <2>1. PICK p : p = m["update"].arg.id
    OBVIOUS
  <2>2. PICK load : load = m["update"].arg.payload
    OBVIOUS
  <2>3. /\ p \in Things /\ load \in Payload
        /\ ui.crossed \/ load.auth \in load.secret \/ Stored(p, {load.auth}, db)
    BY <1>2, <1>4, <2>1, <2>2 DEF SshProxies!updateSSHProxy, ProxyCalls, ProxyCall, SshProxies!Mutations
  <2>4. db.proxies[p].live /\ db.proxies[p] \in SshProxies!ProxyRows
    BY <1>1, <1>4, <2>1, <2>3, NoProxyIsNone DEF SshProxies!updateSSHProxy
  <2>a. PICK w \in {"page", "saved"} : w = IF db.proxies[p].by = "page" THEN "page" ELSE "saved"
    OBVIOUS
  <2>5. PICK r : r = [auth |-> load.auth, has |-> db.proxies[p].has \cup load.secret, live |-> TRUE, by |-> w]
    OBVIOUS
  <2>6. r \in SshProxies!ProxyRows /\ r.has = db.proxies[p].has \cup load.secret /\ r.auth = load.auth
    BY <2>3, <2>4, <2>5 DEF Payload, SshProxies!ProxyRows, SshProxies!AuthTypes, AuthWays
  <2>7. ui.crossed \/ RowUsable(r)
    BY <2>3, <2>4, <2>6 DEF Stored, RowUsable
  <2>8. RowWritten(p, r) /\ UNCHANGED <<cache, ui>>
        /\ SshProxies!Executed("update", SshProxies!sshProxyToForm(p, db'.proxies[p]))
    BY <1>1, <1>4, <2>1, <2>2, <2>3, <2>a, <2>5 DEF RowWritten, SshProxies!updateSSHProxy
  <2>9. /\ ProxyData(db, cache)' /\ ProxyEditor(ui, db)' /\ Usable(db, ui.crossed)'
        /\ Kept(db, db') /\ db'.proxies[p] = r /\ Stored(p, r.has, db')
    BY <2>3, <2>6, <2>7, <2>8, ProxyWritten
  <2>10. PICK f : f = SshProxies!sshProxyToForm(p, r)
    OBVIOUS
  <2>11. f \in ProxyForm /\ f.of = p /\ f.has = r.has /\ SshProxies!Executed("update", f)
    BY <2>3, <2>6, <2>8, <2>9, <2>10, FormOfRow
  <2>12. ProxyCalls(m, db', ui.crossed)
    BY <1>2, <2>9, ProxyCallsKept
  <2>13. PICK e : e = db'
    OBVIOUS
  <2>14. ProxyCalls(m', e, ui.crossed)
    BY <2>1, <2>3, <2>9, <2>11, <2>12, <2>13, ProxyCallExecuted
  <2> QED
    BY <2>8, <2>9, <2>13, <2>14 DEF ProxyInv
<1>5. CASE SshProxies!deleteSSHProxy
  <2>1. PICK p : p = m["remove"].arg
    OBVIOUS
  <2>2. p \in Things
    BY <1>2, <1>5, <2>1 DEF SshProxies!deleteSSHProxy, ProxyCalls, ProxyCall, SshProxies!Mutations
  <2>3. db.proxies[p] \in SshProxies!ProxyRows /\ db' = [db EXCEPT !.proxies[p].live = FALSE]
    BY <1>1, <1>5, <2>1, <2>2, NoProxyIsNone DEF SshProxies!deleteSSHProxy
  <2>4. PICK r \in SshProxies!ProxyRows : RowWritten(p, r) /\ r.has = db.proxies[p].has /\ (ui.crossed \/ RowUsable(r))
    BY <1>1, <1>2, <2>2, <2>3, RowDeleted
  <2>10. SshProxies!Executed("remove", Undefined) /\ UNCHANGED <<cache, ui>>
    BY <1>5 DEF SshProxies!deleteSSHProxy
  <2>11. /\ ProxyData(db, cache)' /\ ProxyEditor(ui, db)' /\ Usable(db, ui.crossed)' /\ Kept(db, db')
    BY <2>2, <2>4, <2>10, ProxyWritten
  <2>13. PICK e : e = db'
    OBVIOUS
  <2>14. ProxyCalls(m, e, ui.crossed)
    BY <1>2, <2>11, <2>13, ProxyCallsKept
  <2>15. ProxyCalls(m', e, ui.crossed)
    <3>1. CallAnswered("remove", Undefined)
      BY <2>10 DEF SshProxies!Executed, CallAnswered
    <3>2. /\ MutationCalls(m', SshProxies!Mutations) /\ m'["remove"].phase = "done"
          /\ \A y \in SshProxies!Mutations \ {"remove"} : m'[y] = m[y]
      BY <1>2, <3>1, CallExecuted DEF SshProxies!Mutations
    <3>3. ProxyCall("remove", m'["remove"], e, ui.crossed)
      BY <3>2 DEF ProxyCall
    <3> QED
      BY <2>14, <3>2, <3>3, ProxyCallChanged DEF SshProxies!Mutations
  <2> QED
    BY <2>10, <2>11, <2>13, <2>15 DEF ProxyInv
<1> QED
  BY <1>3, <1>4, <1>5

(* Promotion and demotion write rows and call nothing of the page.          *)
LEMMA ProxyPromotions ==
  ASSUME ProxyInv, SshProxies!upsertProxyForAsset \/ SshProxies!Demote
  PROVE  ProxyInv'
<1>1. /\ db \in ProxyDb /\ db = [proxies |-> db.proxies] /\ Usable(db, ui.crossed)
      /\ db.proxies \in [Things -> SshProxies!ProxyRows \cup {SshProxies!NoProxy}]
      /\ ProxyCalls(m, db, ui.crossed) /\ ProxyData(db, cache) /\ ProxyEditor(ui, db)
  BY DEF ProxyInv, ProxyData, ProxyDb
<1>2. /\ ui = [can |-> ui.can, mode |-> ui.mode, form |-> ui.form, selected |-> ui.selected,
               modal |-> ui.modal, crossed |-> ui.crossed, calls |-> ui.calls]
      /\ ui \in ProxyPage /\ ui.form \in ProxyForm /\ ui.calls \in Nat
  BY <1>1, ProxyFields DEF ProxyEditor
<1>3. PICK p \in Things, r \in SshProxies!ProxyRows :
        RowWritten(p, r) /\ r.has = db.proxies[p].has /\ (ui.crossed \/ RowUsable(r))
  <2>1. CASE SshProxies!upsertProxyForAsset
    <3>1. PICK p \in Things, a \in AuthWays :
            db' = [db EXCEPT !.proxies[p] = [auth |-> a, has |-> @.has, live |-> TRUE, by |-> "promotion"]]
      BY <2>1 DEF SshProxies!upsertProxyForAsset, SshProxies!AuthTypes, AuthWays
    <3>2. PICK r : r = [auth |-> a, has |-> db.proxies[p].has, live |-> TRUE, by |-> "promotion"]
      OBVIOUS
    <3>3. db.proxies[p].has \in SUBSET AuthWays
      BY <1>1, NoProxyIsNone DEF SshProxies!ProxyRows, SshProxies!AuthTypes, AuthWays
    <3>4. r \in SshProxies!ProxyRows /\ r.has = db.proxies[p].has /\ RowUsable(r)
      BY <3>2, <3>3 DEF SshProxies!ProxyRows, SshProxies!AuthTypes, AuthWays, RowUsable
    <3>5. RowWritten(p, r)
      BY <1>1, <3>1, <3>2 DEF RowWritten
    <3> QED
      BY <3>4, <3>5
  <2>2. CASE SshProxies!Demote
    <3>1. PICK p \in Things : db.proxies[p].live /\ db' = [db EXCEPT !.proxies[p].live = FALSE]
      BY <2>2 DEF SshProxies!Demote
    <3>2. db.proxies[p] \in SshProxies!ProxyRows
      BY <1>1, <3>1, NoProxyIsNone
    <3> QED
      BY <1>1, <3>1, <3>2, RowDeleted
  <2> QED
    BY <2>1, <2>2
<1>4. UNCHANGED <<cache, m>>
  BY DEF SshProxies!upsertProxyForAsset, SshProxies!Demote
<1>5. PICK n \in Nat : ui' = [can |-> ui.can, mode |-> ui.mode, form |-> ui.form, selected |-> ui.selected,
                              modal |-> ui.modal, crossed |-> ui.crossed, calls |-> n]
  <2>1. ui' = [ui EXCEPT !.calls = @ + 1] \/ ui' = ui
    BY DEF SshProxies!upsertProxyForAsset, SshProxies!Demote
  <2>2. ui.calls + 1 \in Nat
    BY <1>2
  <2> QED
    BY <1>2, <2>1, <2>2
<1>6. /\ ui' \in ProxyPage /\ ui'.mode = ui.mode /\ ui'.selected = ui.selected
      /\ ui'.form = ui.form /\ ui'.crossed = ui.crossed
  BY <1>2, <1>5, ProxyFields DEF ProxyPage
<1>7. /\ db' \in ProxyDb /\ Kept(db, db') /\ Usable(db', ui.crossed)
  BY <1>3, RowsAfter
<1>8. PICK e : e = db'
  OBVIOUS
<1>9. ProxyCalls(m, e, ui.crossed)
  BY <1>1, <1>7, <1>8, ProxyCallsKept
<1>10. ui.form.of \in Things => Stored(ui.form.of, ui.form.has, e)
  BY <1>1, <1>2, <1>7, <1>8, FormFields DEF ProxyEditor, Kept
<1>11. ProxyEditor(ui, db)'
  BY <1>1, <1>6, <1>8, <1>10 DEF ProxyEditor
<1>12. ProxyData(e, cache)
  <2> SUFFICES ASSUME cache # Undefined, NEW q \in Things, cache.proxies[q] # SshProxies!NoProxy
               PROVE  Stored(q, cache.proxies[q].has, e)
    BY <1>1, <1>7, <1>8 DEF ProxyData
  <2>1. Stored(q, cache.proxies[q].has, db) /\ cache.proxies[q] \in SshProxies!ProxyRows
    BY <1>1 DEF ProxyData
  <2>2. cache.proxies[q].has \in SUBSET AuthWays
    BY <2>1 DEF SshProxies!ProxyRows, SshProxies!AuthTypes, AuthWays
  <2> QED
    BY <1>7, <1>8, <2>1, <2>2 DEF Kept
<1> QED
  BY <1>4, <1>6, <1>7, <1>8, <1>9, <1>11, <1>12 DEF ProxyInv

(* The answers at the page.                                                 *)
LEMMA ProxyAnswers ==
  ASSUME ProxyInv, SshProxies!createProxy \/ SshProxies!updateProxy \/ SshProxies!removeProxy
  PROVE  ProxyInv'
<1>1. /\ ui \in ProxyPage /\ ProxyEditor(ui, db) /\ ProxyData(db, cache)
      /\ ProxyCalls(m, db, ui.crossed) /\ Usable(db, ui.crossed)
      /\ ui = [can |-> ui.can, mode |-> ui.mode, form |-> ui.form, selected |-> ui.selected,
               modal |-> ui.modal, crossed |-> ui.crossed, calls |-> ui.calls]
      /\ ui.can \in {"read", "write"} /\ ui.mode \in {"create", "edit"} /\ ui.form \in ProxyForm
      /\ ui.selected \in Things \cup {"none"}
      /\ ui.modal \in BOOLEAN /\ ui.crossed \in BOOLEAN /\ ui.calls \in Nat
  BY ProxyFields DEF ProxyInv, ProxyEditor
<1>2. CASE SshProxies!createProxy
  <2>1. PICK f : f = m["create"].ans
    OBVIOUS
  <2>2. f \in ProxyForm /\ f.of \in Things /\ Stored(f.of, f.has, db)
    BY <1>1, <1>2, <2>1 DEF SshProxies!createProxy, ProxyCalls, ProxyCall, SshProxies!Mutations
  <2>3. ui' = [can |-> ui.can, mode |-> "edit", form |-> f, selected |-> f.of,
               modal |-> FALSE, crossed |-> ui.crossed, calls |-> ui.calls]
    BY <1>1, <1>2, <2>1 DEF SshProxies!createProxy
  <2>4. /\ ui' \in ProxyPage /\ ui'.mode = "edit" /\ ui'.selected = f.of
        /\ ui'.form = f /\ ui'.crossed = ui.crossed
    BY <1>1, <2>2, <2>3 DEF ProxyPage
  <2>5. SshProxies!Succeeded("create") /\ UNCHANGED <<db, cache>>
    BY <1>2 DEF SshProxies!createProxy
  <2>6. ProxyEditor(ui, db)'
    BY <2>2, <2>4, <2>5 DEF ProxyEditor
  <2>7. ProxyCalls(m', db, ui.crossed)
    BY <1>1, <2>5, ProxyCallEnds DEF SshProxies!Mutations
  <2> QED
    BY <1>1, <2>4, <2>5, <2>6, <2>7 DEF ProxyInv
<1>3. CASE SshProxies!updateProxy
  <2>1. PICK f : f = m["update"].ans
    OBVIOUS
  <2>2. f \in ProxyForm /\ f.of \in Things /\ Stored(f.of, f.has, db)
    BY <1>1, <1>3, <2>1 DEF SshProxies!updateProxy, ProxyCalls, ProxyCall, SshProxies!Mutations
  <2>3. ui' = [can |-> ui.can, mode |-> ui.mode, form |-> f, selected |-> ui.selected,
               modal |-> ui.modal, crossed |-> ui.crossed, calls |-> ui.calls]
    BY <1>1, <1>3, <2>1 DEF SshProxies!updateProxy
  <2>4. /\ ui' \in ProxyPage /\ ui'.mode = ui.mode /\ ui'.selected = ui.selected
        /\ ui'.form = f /\ ui'.crossed = ui.crossed
    BY <1>1, <2>2, <2>3 DEF ProxyPage
  <2>5. SshProxies!Succeeded("update") /\ UNCHANGED <<db, cache>>
    BY <1>3 DEF SshProxies!updateProxy
  <2>6. ProxyEditor(ui, db)'
    BY <1>1, <2>2, <2>4, <2>5 DEF ProxyEditor
  <2>7. ProxyCalls(m', db, ui.crossed)
    BY <1>1, <2>5, ProxyCallEnds DEF SshProxies!Mutations
  <2> QED
    BY <1>1, <2>4, <2>5, <2>6, <2>7 DEF ProxyInv
<1>4. CASE SshProxies!removeProxy
  <2>1. PICK f : f = SshProxies!emptySSHProxyForm
    OBVIOUS
  <2>2. f \in ProxyForm /\ f.of \notin Things
    BY <2>1, EmptyForm
  <2>3. ui' = [can |-> ui.can, mode |-> "create", form |-> f, selected |-> "none",
               modal |-> FALSE, crossed |-> ui.crossed, calls |-> ui.calls]
    BY <1>1, <1>4, <2>1 DEF SshProxies!removeProxy, SshProxies!None
  <2>4. /\ ui' \in ProxyPage /\ ui'.mode = "create" /\ ui'.selected = "none"
        /\ ui'.form = f /\ ui'.crossed = ui.crossed
    BY <1>1, <2>2, <2>3 DEF ProxyPage
  <2>5. SshProxies!Succeeded("remove") /\ UNCHANGED <<db, cache>>
    BY <1>4 DEF SshProxies!removeProxy
  <2>6. ProxyEditor(ui, db)'
    BY <2>2, <2>4, <2>5 DEF ProxyEditor
  <2>7. ProxyCalls(m', db, ui.crossed)
    BY <1>1, <2>5, ProxyCallEnds DEF SshProxies!Mutations
  <2> QED
    BY <1>1, <2>4, <2>5, <2>6, <2>7 DEF ProxyInv
<1> QED
  BY <1>2, <1>3, <1>4

LEMMA ProxyNext == ProxyInv /\ SshProxies!Next => ProxyInv'
<1> SUFFICES ASSUME ProxyInv, SshProxies!Next PROVE ProxyInv'
  OBVIOUS
<1>1. ProxyData(db, cache) /\ ProxyEditor(ui, db) /\ ProxyCalls(m, db, ui.crossed) /\ Usable(db, ui.crossed)
  BY DEF ProxyInv
<1>2. CASE \/ SshProxies!startCreate \/ SshProxies!closeProxyModal \/ SshProxies!updateForm
           \/ \E p \in Things : SshProxies!editProxy(p)
  <2>1. ProxyEditor(ui, db)' /\ ui'.crossed = ui.crossed /\ UNCHANGED <<db, cache, m>>
    BY <1>2, ProxyViewSteps
  <2> QED
    BY <1>1, <2>1 DEF ProxyInv
<1>3. CASE SshProxies!submitProxy
  BY <1>3, ProxySubmitted
<1>4. ASSUME NEW p \in Things, SshProxies!deleteSelectedProxy(p)
      PROVE  ProxyInv'
  BY <1>4, ProxyRemovalCalled
<1>5. CASE SshProxies!createSSHProxy \/ SshProxies!updateSSHProxy \/ SshProxies!deleteSSHProxy
  BY <1>5, ProxyServerSteps
<1>6. CASE SshProxies!createProxy \/ SshProxies!updateProxy \/ SshProxies!removeProxy
  BY <1>6, ProxyAnswers
<1>a. CASE SshProxies!upsertProxyForAsset \/ SshProxies!Demote
  BY <1>a, ProxyPromotions
<1>7. ASSUME cache' = db, UNCHANGED <<db, ui>>
      PROVE  ProxyData(db, cache)'
  <2>1. db.proxies \in [Things -> SshProxies!ProxyRows \cup {SshProxies!NoProxy}]
    BY <1>1 DEF ProxyData, ProxyDb
  <2>2. \A p \in Things : db.proxies[p] # SshProxies!NoProxy => Stored(p, db.proxies[p].has, db)
    BY DEF Stored
  <2> QED
    BY <1>1, <1>7, <2>1, <2>2 DEF ProxyData
<1>8. ASSUME NEW x \in SshProxies!Mutations, SshProxies!MutationFailed(x) \/ SshProxies!Settle(x)
      PROVE  ProxyInv'
  <2>1. SshProxies!Ended(x) /\ UNCHANGED <<db, ui>> /\ (cache' = cache \/ cache' = db)
    BY <1>8 DEF SshProxies!MutationFailed, SshProxies!Settle
  <2>2. ProxyCalls(m', db, ui.crossed)
    BY <1>1, <2>1, ProxyCallEnds
  <2>3. ProxyData(db, cache)'
    BY <1>1, <1>7, <2>1
  <2> QED
    BY <1>1, <2>1, <2>2, <2>3 DEF ProxyInv
<1>9. CASE SshProxies!Load
  <2>1. ProxyData(db, cache)' /\ UNCHANGED <<db, m, ui>>
    BY <1>7, <1>9 DEF SshProxies!Load
  <2> QED
    BY <1>1, <2>1 DEF ProxyInv
<1> QED
  BY <1>2, <1>3, <1>4, <1>5, <1>6, <1>a, <1>8, <1>9 DEF SshProxies!Next

LEMMA ProxySafe == ProxyInv => SshProxies!TypeOK /\ SshProxies!ProxyUsable
<1> SUFFICES ASSUME ProxyInv PROVE SshProxies!TypeOK /\ SshProxies!ProxyUsable
  OBVIOUS
<1>1. ProxyData(db, cache) /\ ProxyEditor(ui, db) /\ ProxyCalls(m, db, ui.crossed) /\ Usable(db, ui.crossed)
  BY DEF ProxyInv
<1>2. db.proxies \in [Things -> SshProxies!ProxyRows \cup {SshProxies!NoProxy}]
  BY <1>1 DEF ProxyData, ProxyDb
<1>3. ui.form \in ProxyForm
  BY <1>1, ProxyFields DEF ProxyEditor
<1>4. DOMAIN m = SshProxies!Mutations
  BY <1>1 DEF ProxyCalls, MutationCalls
<1>5. SshProxies!TypeOK
  BY <1>2, <1>3, <1>4 DEF SshProxies!TypeOK, ProxyForm, AuthWays, SshProxies!AuthTypes, SshProxies!None, SshProxies!Typed
<1>6. SshProxies!ProxyUsable
  BY <1>1 DEF Usable, RowUsable, SshProxies!ProxyUsable
<1> QED
  BY <1>5, <1>6

(* The editor comes to hold another proxy's values by a late answer only.   *)
LEMMA ProxySteps == ProxyInv /\ SshProxies!Next => SshProxies!ForeignFormOnlyLate
<1> SUFFICES ASSUME ProxyInv, SshProxies!Next, ~ SshProxies!ForeignForm(ui), SshProxies!ForeignForm(ui')
             PROVE  /\ m["update"].phase = "done" /\ m'["update"].phase = "settling"
                    /\ m["update"].arg.id # ui.selected
  BY DEF SshProxies!ForeignFormOnlyLate
<1>1. /\ ui \in ProxyPage /\ ProxyEditor(ui, db) /\ ProxyData(db, cache) /\ ProxyCalls(m, db, ui.crossed)
      /\ ui = [can |-> ui.can, mode |-> ui.mode, form |-> ui.form, selected |-> ui.selected,
               modal |-> ui.modal, crossed |-> ui.crossed, calls |-> ui.calls]
      /\ ui.mode \in {"create", "edit"} /\ ui.form \in ProxyForm
  BY ProxyFields DEF ProxyInv, ProxyEditor
<1>2. /\ ui'.modal
      /\ ui'.mode = "edit" => ui'.form.of # ui'.selected
      /\ ui'.mode # "edit" => ui'.form.of # "none" /\ ui'.form.of # "typed"
  BY DEF SshProxies!ForeignForm, SshProxies!None, SshProxies!Typed
<1>3. CASE SshProxies!updateProxy
  <2>1. m["update"].phase = "done" /\ m["update"].ans.of = m["update"].arg.id /\ m["update"].ans.of \in Things
    BY <1>1, <1>3 DEF SshProxies!updateProxy, ProxyCalls, ProxyCall, SshProxies!Mutations
  <2>2. m'["update"].phase = "settling"
    BY <1>1, <1>3, ProxyCallEnds DEF SshProxies!updateProxy, SshProxies!Mutations
  <2>3. ui'.form = m["update"].ans /\ ui'.selected = ui.selected /\ ui'.mode = ui.mode
    BY <1>1, <1>3 DEF SshProxies!updateProxy
  <2>4. ui.mode = "create" => ui.selected = "none"
    BY <1>1 DEF ProxyEditor
  <2> QED
    BY <1>1, <1>2, <2>1, <2>2, <2>3, <2>4, NamesAssumption
<1>4. ASSUME NEW p \in Things, SshProxies!editProxy(p)
      PROVE  FALSE
  <2>1. ui'.form = SshProxies!sshProxyToForm(p, cache.proxies[p]) /\ ui'.selected = p /\ ui'.mode = "edit"
    BY <1>1, <1>4 DEF SshProxies!editProxy
  <2>2. ui'.form.of = p
    BY <2>1 DEF SshProxies!sshProxyToForm
  <2> QED
    BY <1>2, <2>1, <2>2
<1>5. CASE SshProxies!startCreate
  <2>1. ui'.form = SshProxies!emptySSHProxyForm /\ ui'.mode = "create"
    BY <1>1, <1>5 DEF SshProxies!startCreate
  <2>2. ui'.form.of = "none"
    BY <2>1 DEF SshProxies!emptySSHProxyForm, SshProxies!None
  <2> QED
    BY <1>2, <2>1, <2>2
<1>6. CASE SshProxies!closeProxyModal \/ SshProxies!createProxy \/ SshProxies!removeProxy
  <2>1. ~ ui'.modal
    BY <1>1, <1>6 DEF SshProxies!closeProxyModal, SshProxies!createProxy, SshProxies!removeProxy
  <2> QED
    BY <1>2, <2>1
<1>7. CASE SshProxies!updateForm
  <2>1. /\ ui'.selected = ui.selected /\ ui'.mode = ui.mode /\ ui'.modal = ui.modal
        /\ ui'.form.of = ui.form.of \/ (ui.form.of = "none" /\ ui'.form.of = "typed")
    <3>1. ui.form = [of |-> ui.form.of, auth |-> ui.form.auth, has |-> ui.form.has, secret |-> ui.form.secret]
      BY <1>1, FormFields
    <3> QED
      BY <1>1, <1>7, <3>1 DEF SshProxies!updateForm, SshProxies!None, SshProxies!Typed
  <2>2. ui.mode = "edit" => ui.selected \in Things
    BY <1>1 DEF ProxyEditor
  <2> QED
    BY <1>1, <1>2, <2>1, <2>2, NamesAssumption DEF SshProxies!ForeignForm, SshProxies!None, SshProxies!Typed
<1>8. ASSUME ui'.form = ui.form, ui'.selected = ui.selected, ui'.mode = ui.mode, ui'.modal = ui.modal
      PROVE  FALSE
  BY <1>8 DEF SshProxies!ForeignForm
<1>9. CASE \/ SshProxies!submitProxy \/ SshProxies!upsertProxyForAsset
           \/ \E p \in Things : SshProxies!deleteSelectedProxy(p)
  <2>1. \/ ui' = [ui EXCEPT !.calls = @ + 1, !.crossed = @ \/ SshProxies!ForeignForm(ui)]
        \/ ui' = [ui EXCEPT !.calls = @ + 1]
    BY <1>9 DEF SshProxies!submitProxy, SshProxies!deleteSelectedProxy, SshProxies!mutate,
       SshProxies!upsertProxyForAsset
  <2>2. ui'.form = ui.form /\ ui'.selected = ui.selected /\ ui'.mode = ui.mode /\ ui'.modal = ui.modal
    BY <1>1, <2>1
  <2> QED
    BY <1>8, <2>2
<1>10. CASE \/ SshProxies!createSSHProxy \/ SshProxies!updateSSHProxy \/ SshProxies!deleteSSHProxy
            \/ SshProxies!Demote \/ SshProxies!Load \/ \E x \in SshProxies!Mutations : SshProxies!MutationFailed(x) \/ SshProxies!Settle(x)
  <2>1. ui' = ui
    BY <1>10 DEF SshProxies!createSSHProxy, SshProxies!updateSSHProxy, SshProxies!deleteSSHProxy,
       SshProxies!Demote, SshProxies!Load, SshProxies!MutationFailed, SshProxies!Settle
  <2> QED
    BY <1>8, <2>1
<1> QED
  BY <1>3, <1>4, <1>5, <1>6, <1>7, <1>9, <1>10 DEF SshProxies!Next
=============================================================================
