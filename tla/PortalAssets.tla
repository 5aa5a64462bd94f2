---------------------------- MODULE PortalAssets ----------------------------
(***************************************************************************)
(* The assets of the CMDB page (features/cmdb/AssetsPage.tsx with          *)
(* AssetForm.tsx): the form for a new asset, and the drawer's editor and   *)
(* delete button.                                                          *)
(***************************************************************************)
EXTENDS PortalDrawer

Mutations == {"create", "update", "delete"}

Init ==
    /\ db \in [asset : [Assets -> {0, 1}]]
    /\ cache = [list |-> {a \in Assets : db.asset[a] > 0}, asset |-> [a \in Assets |-> 0]]
    /\ m = {}
    /\ ui \in [can : {"read", "write"}, selected : {None}, tab : {"summary"}, creating : {FALSE},
               editor : {NoEditor}, hidden : {FALSE}, calls : {0}]

\* assetDetail.data of the selected asset is there.
selectedAsset == drawer /\ cache.asset[ui.selected] > 0

\* AssetForm sets its fields from the asset when it is mounted.
mountAssetForm == [open |-> TRUE, base |-> cache.asset[ui.selected]]

\* The controls that the page renders and enables: its header and the form for a
\* new asset, which the drawer covers, the head of the drawer and its edit form.
pageHeader == canWriteAssets /\ ~drawer
createForm == ui.creating /\ pageHeader
drawerHead == selectedAsset /\ canWriteAssets
editForm == drawerHead /\ ui.tab = "summary" /\ ui.editor.open

toggleCreating ==
    /\ pageHeader
    /\ ui' = [ui EXCEPT !.creating = ~@, !.hidden = @ \/ isPending("create")]
    /\ m' = resetCalls({"create"}, m)
    /\ UNCHANGED <<db, cache>>

\* The buttons of AssetForm are disabled while it is submitting.
cancelCreate ==
    /\ createForm /\ ~isPending("create")
    /\ ui' = [ui EXCEPT !.creating = FALSE]
    /\ UNCHANGED <<db, cache, m>>

\* Mutant: the form can be sent again while a creation is pending.
submitCreateAgain ==
    /\ createForm
    /\ mutate("create", None)

submitCreate ==
    /\ createForm /\ ~isPending("create")
    /\ mutate("create", None)

\* The editor is kept open behind another tab, its form is not.
setActiveDrawerTab(t) ==
    /\ selectedAsset /\ t # ui.tab
    /\ ui' = [ui EXCEPT !.tab = t, !.editor = IF @.open /\ t = "summary" THEN mountAssetForm ELSE @]
    /\ UNCHANGED <<db, cache, m>>

\* Mutant: the toggle stays enabled while an update is pending.
toggleEditingWhilePending ==
    /\ drawerHead
    /\ ui' = [ui EXCEPT !.tab = "summary", !.editor = IF @.open THEN NoEditor ELSE mountAssetForm]
    /\ m' = resetCalls({"update"}, m)
    /\ UNCHANGED <<db, cache>>

toggleEditing ==
    /\ drawerHead /\ ~isPending("update")
    /\ ui' = [ui EXCEPT !.tab = "summary", !.editor = IF @.open THEN NoEditor ELSE mountAssetForm]
    /\ m' = resetCalls({"update"}, m)
    /\ UNCHANGED <<db, cache>>

submitUpdate ==
    /\ editForm /\ ~isPending("update")
    /\ mutate("update", ui.selected)

confirmDeleteAsset ==
    /\ drawerHead /\ ~isPending("delete")
    /\ mutate("delete", ui.selected)

-----------------------------------------------------------------------------
\* The server's side of the calls; an update has every field of the form.

createAsset(c) ==
    /\ c.x = "create" /\ c.phase = "sent"
    /\ \E a \in Assets : /\ db.asset[a] = 0
                         /\ db' = [db EXCEPT !.asset[a] = 1]
                         /\ m' = answered(c, a, 1)
    /\ UNCHANGED <<cache, ui>>

updateAsset(c) ==
    /\ c.x = "update" /\ c.phase = "sent" /\ db.asset[c.asset] > 0
    /\ db' = [db EXCEPT !.asset[c.asset] = @ + 1]
    /\ m' = answered(c, c.asset, db'.asset[c.asset])
    /\ UNCHANGED <<cache, ui>>

deleteAsset(c) ==
    /\ c.x = "delete" /\ c.phase = "sent" /\ db.asset[c.asset] > 0
    /\ db' = [db EXCEPT !.asset[c.asset] = 0]
    /\ m' = answered(c, c.asset, 0)
    /\ UNCHANGED <<cache, ui>>

-----------------------------------------------------------------------------
\* The answers at the page, and what the callbacks do after the queries they
\* await: a creation selects the new asset, a deletion drops the detail.

createAssetMutation(c) ==
    /\ c.x = "create" /\ c.phase = "done"
    /\ ui' = [ui EXCEPT !.creating = FALSE]
    /\ m' = settling(c)
    /\ UNCHANGED <<db, cache>>

updateAssetMutation(c) ==
    /\ c.x = "update" /\ c.phase = "done"
    /\ ui' = [ui EXCEPT !.editor = NoEditor]
    /\ cache' = [cache EXCEPT !.asset[c.asset] = c.ans]
    /\ m' = settling(c)
    /\ UNCHANGED db

\* The drawer is closed, whichever asset it shows by now.
deleteAssetMutation(c) ==
    /\ c.x = "delete" /\ c.phase = "done"
    /\ ui' = [Selected(None, ui) EXCEPT !.editor = NoEditor]
    /\ m' = SelectedCalls(None, settling(c))
    /\ UNCHANGED <<db, cache>>

listed == {a \in Assets : db.asset[a] > 0}

Settle(c) ==
    /\ c.phase = "settling"
    /\ \E l \in {cache.list, listed} :
           cache' = [cache EXCEPT !.list = l, !.asset[c.asset] = IF c.x = "delete" THEN 0 ELSE @]
    /\ IF c.x = "create"
       THEN /\ ui' = [Selected(c.asset, ui) EXCEPT !.tab = "summary", !.editor = NoEditor]
            /\ m' = SelectedCalls(c.asset, m \ {c})
       ELSE ui' = ui /\ m' = m \ {c}
    /\ UNCHANGED db

\* The queries of the list and of the selected asset.
LoadList ==
    /\ cache.list # listed
    /\ cache' = [cache EXCEPT !.list = listed]
    /\ UNCHANGED <<db, m, ui>>

LoadDetail ==
    /\ drawer /\ db.asset[ui.selected] \notin {0, cache.asset[ui.selected]}
    /\ cache' = [cache EXCEPT !.asset[ui.selected] = db.asset[ui.selected]]
    /\ UNCHANGED <<db, m, ui>>

\* Another operator or the AWS synchronisation (bound: to a first version).
BackgroundWrite(a) ==
    /\ db.asset[a] = 1
    /\ db' = [db EXCEPT !.asset[a] = 2]
    /\ UNCHANGED <<cache, m, ui>>

Next ==
    \/ toggleCreating \/ cancelCreate \/ submitCreate
    \/ \E a \in cache.list : openAssetDetails(a)
    \/ closeAssetDetail \/ toggleEditing \/ submitUpdate \/ confirmDeleteAsset
    \/ \E t \in {"summary", "metadata"} : setActiveDrawerTab(t)
    \/ \E c \in m : \/ createAsset(c) \/ updateAsset(c) \/ deleteAsset(c)
                    \/ createAssetMutation(c) \/ updateAssetMutation(c) \/ deleteAssetMutation(c)
                    \/ failed(c) \/ Settle(c)
    \/ LoadList \/ LoadDetail
    \/ \E a \in Assets : BackgroundWrite(a)

-----------------------------------------------------------------------------
TypeOK ==
    /\ db.asset \in [Assets -> 0..MaxVersion] /\ cache.asset \in [Assets -> 0..MaxVersion]
    /\ cache.list \subseteq Assets /\ ui.selected \in Assets \cup {None}
    /\ \A c \in m : c.x \in Mutations

\* The answer of an update closes the editor of the asset it is about or none:
\* no edits of another asset are discarded by it.
EditKept ==
    \A c \in m : c.x = "update" /\ c.phase = "done" /\ ui.editor.open => c.asset = ui.selected

\* Two creations are under way at once only after the form of the first was
\* hidden, which resets the mutation: the form itself sends one at a time.
OneCreation ==
    Cardinality({c \in m : c.x = "create" /\ c.phase \in {"sent", "done"}}) > 1 => ui.hidden
=============================================================================
