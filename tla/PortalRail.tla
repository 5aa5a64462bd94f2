----------------------------- MODULE PortalRail -----------------------------
(***************************************************************************)
(* The asset rail of the connect and sessions pages (AssetRail.tsx) over   *)
(* the grouping and filtering of lib/launch.ts, which the tree view of the *)
(* CMDB page shares.  An asset is a row of the loaded list: its            *)
(* environment (0: none given; DefaultEnv is the name that then stands for *)
(* it), its VPC (0: none), whether it is a bastion, whether its type can   *)
(* be connected to.  A search is the set of positions it matches; the      *)
(* empty search matches all.                                               *)
(***************************************************************************)
EXTENDS PortalPage, Sequences, SequencesExt

CONSTANT MaxAssets    \* bound on the length of the list

DefaultEnv == 1
NO_VPC_KEY == 0
All == 0              \* the environment filter that lets every asset pass
Rows == [env : 0..2, vpc : 0..1, proxy : BOOLEAN, host : {TRUE}]
            \cup {[env |-> 2, vpc |-> 1, proxy |-> FALSE, host |-> FALSE]}

isConnectableAsset(asset) == asset.host

assetEnvKey(asset) == IF asset.env = 0 THEN DefaultEnv ELSE asset.env

\* Mutant: the VPCs are sorted by key alone.
vpcBeforePlain(a, b) == a < b

\* The sort of the VPCs of an environment: no VPC comes last.
vpcBefore(a, b) == IF a = NO_VPC_KEY THEN FALSE ELSE b = NO_VPC_KEY \/ a < b

vpcBucket(assets, env, vpc) ==
    LET bucket == SelectSeq(assets, LAMBDA a : assetEnvKey(a) = env /\ a.vpc = vpc)
    IN  [vpcKey |-> vpc,
         bastions |-> SelectSeq(bucket, LAMBDA a : a.proxy),
         members |-> SelectSeq(bucket, LAMBDA a : ~a.proxy)]

envBucket(assets, env) ==
    LET keys == SetToSortSeq({a.vpc : a \in {x \in ToSet(assets) : assetEnvKey(x) = env}}, vpcBefore)
        vpcs == [i \in DOMAIN keys |-> vpcBucket(assets, env, keys[i])]
    IN  [envName |-> env, vpcs |-> vpcs,
         total |-> FoldLeft(LAMBDA sum, v : sum + Len(v.bastions) + Len(v.members), 0, vpcs)]

buildAssetTree(assets) ==
    LET envs == SetToSortSeq({assetEnvKey(a) : a \in ToSet(assets)}, <)
    IN  [i \in DOMAIN envs |-> envBucket(assets, envs[i])]

-----------------------------------------------------------------------------
\* The rail.

\* The rows of the list with their positions, which stand for their ids.
Numbered(rows) == [i \in DOMAIN rows |-> [id |-> i] @@ rows[i]]

connectableAssets ==
    IF cache = Undefined THEN <<>> ELSE SelectSeq(Numbered(cache.assets), isConnectableAsset)

envOptions == {assetEnvKey(a) : a \in ToSet(connectableAssets)}

\* Mutant: the facet compares the environment as it is stored.
facetFilteredRaw(env) == SelectSeq(connectableAssets, LAMBDA a : env = All \/ a.env = env)

facetFiltered(env) == SelectSeq(connectableAssets, LAMBDA a : env = All \/ assetEnvKey(a) = env)

filterConnectableAssets(assets, search) ==
    SelectSeq(assets, LAMBDA a : a.id \in search)

filteredConnectables == filterConnectableAssets(facetFiltered(ui.envFilter), ui.search)

assetTree == buildAssetTree(filteredConnectables)

Init ==
    /\ \E n \in 0..MaxAssets : db \in [assets : [1..n -> Rows]]
    /\ cache = Undefined
    /\ m = Undefined
    /\ ui = [envFilter |-> All, search |-> 1..MaxAssets]

setEnvFilter(env) ==
    /\ env \in envOptions \cup {All} /\ env # ui.envFilter
    /\ ui' = [ui EXCEPT !.envFilter = env]
    /\ UNCHANGED <<db, cache, m>>

setSearch ==
    /\ cache # Undefined
    /\ \E i \in DOMAIN db.assets : ui' = [ui EXCEPT !.search = DOMAIN db.assets \ {i}]
    /\ UNCHANGED <<db, cache, m>>

Next ==
    \/ Load
    \/ \E env \in 0..2 : setEnvFilter(env)
    \/ setSearch

-----------------------------------------------------------------------------
TypeOK == ui.envFilter \in 0..2 /\ Len(db.assets) <= MaxAssets

\* The rows of the tree from top to bottom.
Leaves(tree) ==
    FlattenSeq([i \in DOMAIN tree |->
        FlattenSeq([j \in DOMAIN tree[i].vpcs |-> tree[i].vpcs[j].bastions \o tree[i].vpcs[j].members])])

\* The tree shows every asset that passes the filters exactly once, counts each
\* environment right, and keeps the assets without a VPC below the others.
TreeComplete ==
    LET shown == Leaves(assetTree) IN
    /\ ToSet(shown) = ToSet(filteredConnectables) /\ Len(shown) = Len(filteredConnectables)
    /\ FoldLeft(LAMBDA sum, e : sum + e.total, 0, assetTree) = Len(shown)
    /\ \A i \in DOMAIN shown, j \in DOMAIN shown :
           i < j /\ assetEnvKey(shown[i]) = assetEnvKey(shown[j]) /\ shown[i].vpc = NO_VPC_KEY
               => shown[j].vpc = NO_VPC_KEY

\* The environment facet and the headings of the tree agree, "1:1": choosing an
\* environment leaves exactly what stood under its heading.
FacetMatchesTree ==
    LET whole == buildAssetTree(connectableAssets) IN
    /\ {whole[i].envName : i \in DOMAIN whole} = envOptions
    /\ \A i \in DOMAIN whole : buildAssetTree(facetFiltered(whole[i].envName)) = <<whole[i]>>
=============================================================================
