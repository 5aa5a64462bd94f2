--------------------------- MODULE PortalProfiles ---------------------------
(***************************************************************************)
(* The connection and probe tabs of the drawer of the CMDB page            *)
(* (ConnectionSection, VPCProxyControl and ProbeSection of                 *)
(* features/cmdb/AssetsPage.tsx).  A profile is a version; tests and       *)
(* probes write their outcome to it as well.                               *)
(***************************************************************************)
EXTENDS PortalDrawer

Mutations == {"save", "test", "probe", "promote", "demote"}

Init ==
    /\ db \in [proxy : [Assets -> {FALSE}], profile : {[a \in Assets |-> v] : v \in {0, 1}}]
    /\ cache = [proxy |-> db.proxy, profile |-> [a \in Assets |-> 0]]
    /\ m = {}
    /\ ui \in [can : {"read", "write"}, selected : {None}, tab : {"summary"},
               editor : {NoEditor}, calls : {0}]

\* Mutant: the effect does not depend on updated_at.
ProfileChangedUnseen(profile) == ui

\* The effect on the profile's updated_at: the form is set anew and closed.
ProfileChanged(profile) ==
    IF drawer /\ profile[ui.selected] # cache.profile[ui.selected]
    THEN [ui EXCEPT !.editor = NoEditor] ELSE ui

setActiveDrawerTab(t) ==
    /\ drawer /\ t # ui.tab
    /\ ui' = [ui EXCEPT !.tab = t, !.editor = NoEditor]
    /\ m' = unmounted(m)
    /\ UNCHANGED <<db, cache>>

\* What the tabs render and enable for an operator who may write: the control of
\* the VPC proxy and the connection section with its form, the probe section.
connectionTab == drawer /\ ui.tab = "connection" /\ canWriteAssets
VPCProxyControl == connectionTab /\ ~isPending("promote") /\ ~isPending("demote")
ConnectionHeader == connectionTab /\ ~isPending("save") /\ ~isPending("test")
connectionForm == connectionTab /\ ui.editor.open /\ ~isPending("save")
ProbeSection == drawer /\ ui.tab = "probe" /\ canWriteAssets /\ ~isPending("probe")

\* Edit, Create and Cancel: the form is set from the profile.
toggleConnectionEditor ==
    /\ ConnectionHeader
    /\ ui' = [ui EXCEPT !.editor = IF @.open THEN NoEditor
                                   ELSE [open |-> TRUE, base |-> cache.profile[ui.selected]]]
    /\ UNCHANGED <<db, cache, m>>

submitConnection ==
    /\ connectionForm
    /\ mutate("save", ui.selected)

onTest ==
    /\ ConnectionHeader /\ ~ui.editor.open /\ cache.profile[ui.selected] > 0
    /\ mutate("test", ui.selected)

onPromote ==
    /\ VPCProxyControl
    /\ mutate(IF cache.proxy[ui.selected] THEN "demote" ELSE "promote", ui.selected)

onRunProbe ==
    /\ ProbeSection
    /\ mutate("probe", ui.selected)

-----------------------------------------------------------------------------
\* The server's side of the calls.

updateAssetConnectionProfile(c) ==
    /\ c.x = "save" /\ c.phase = "sent"
    /\ db' = [db EXCEPT !.profile[c.asset] = @ + 1]
    /\ m' = answered(c, c.asset, db'.profile[c.asset])
    /\ UNCHANGED <<cache, ui>>

\* A test and a probe write their outcome to the profile, if there is one.
UpdateConnectionProbeStatus(c) ==
    /\ c.x \in {"test", "probe"} /\ c.phase = "sent"
    /\ db' = [db EXCEPT !.profile[c.asset] = IF @ > 0 THEN @ + 1 ELSE 0]
    /\ m' = answered(c, c.asset, 0)
    /\ UNCHANGED <<cache, ui>>

written(as) == [a \in Assets |-> IF a \in as THEN db.profile[a] + 1 ELSE db.profile[a]]

\* Promote makes the profile of the new proxy and those of its peers, and writes
\* again those that no user has edited.
promoteAssetToVPCProxy(c) ==
    /\ c.x = "promote" /\ c.phase = "sent"
    /\ \E as \in SUBSET Assets :
           /\ db.profile[c.asset] = 0 => c.asset \in as
           /\ db' = [proxy |-> [db.proxy EXCEPT ![c.asset] = TRUE], profile |-> written(as)]
    /\ m' = answered(c, c.asset, 0)
    /\ UNCHANGED <<cache, ui>>

\* Demote takes the proxy out of the profiles of the peers that have it.
demoteAssetVPCProxy(c) ==
    /\ c.x = "demote" /\ c.phase = "sent"
    /\ \E as \in SUBSET {a \in Assets \ {c.asset} : db.profile[a] > 0} :
           db' = [proxy |-> [db.proxy EXCEPT ![c.asset] = FALSE], profile |-> written(as)]
    /\ m' = answered(c, c.asset, 0)
    /\ UNCHANGED <<cache, ui>>

\* The probe worker or another operator (bound: to a first version).
BackgroundWrite(a) ==
    /\ db.profile[a] = 1
    /\ db' = [db EXCEPT !.profile[a] = 2]
    /\ UNCHANGED <<cache, m, ui>>

-----------------------------------------------------------------------------
\* The answers at the page.

saveConnection(c) ==
    /\ c.x = "save" /\ c.phase = "done"
    /\ cache' = [cache EXCEPT !.profile[c.asset] = c.ans]
    /\ ui' = ProfileChanged(cache'.profile)
    /\ m' = settling(c)
    /\ UNCHANGED db

promoteVPCProxyMutation(c) ==
    /\ c.x = "promote" /\ c.phase = "done"
    /\ cache' = [cache EXCEPT !.proxy[c.asset] = TRUE]
    /\ m' = settling(c)
    /\ UNCHANGED <<db, ui>>

\* demote awaits the detail; test and probe run onSettled when they failed too.
settledOnly(c) ==
    /\ \/ c.x \in {"test", "probe"} /\ c.phase \in {"sent", "done"}
       \/ c.x = "demote" /\ c.phase = "done"
    /\ m' = settling(c)
    /\ UNCHANGED <<db, cache, ui>>

callFailed(c) == c.x \in {"save", "promote", "demote"} /\ failed(c)

\* The queries are loaded again, or fail to load and keep what they had; then
\* submitConnection goes on and closes the editor it was sent from.
Settle(c) ==
    /\ c.phase = "settling"
    /\ cache' \in {cache,
           CASE c.x = "promote" -> cache
             [] c.x = "demote" -> [cache EXCEPT !.proxy[c.asset] = db.proxy[c.asset]]
             [] OTHER -> [cache EXCEPT !.profile[c.asset] = db.profile[c.asset]]}
    /\ ui' = IF c.x = "save" /\ c.mounted THEN [ui EXCEPT !.editor = NoEditor]
             ELSE ProfileChanged(cache'.profile)
    /\ m' = m \ {c}
    /\ UNCHANGED db

\* The queries of the selected asset and of its profile.
LoadDetail ==
    /\ drawer /\ cache.proxy[ui.selected] # db.proxy[ui.selected]
    /\ cache' = [cache EXCEPT !.proxy[ui.selected] = db.proxy[ui.selected]]
    /\ UNCHANGED <<db, m, ui>>

LoadProfile ==
    /\ drawer /\ cache.profile[ui.selected] # db.profile[ui.selected]
    /\ cache' = [cache EXCEPT !.profile[ui.selected] = db.profile[ui.selected]]
    /\ ui' = ProfileChanged(cache'.profile)
    /\ UNCHANGED <<db, m>>

Next ==
    \/ \E a \in Assets : openAssetDetails(a) \/ BackgroundWrite(a)
    \/ closeAssetDetail
    \/ \E t \in {"summary", "connection", "probe"} : setActiveDrawerTab(t)
    \/ toggleConnectionEditor \/ submitConnection \/ onTest \/ onPromote \/ onRunProbe
    \/ \E c \in m : \/ updateAssetConnectionProfile(c) \/ UpdateConnectionProbeStatus(c)
                    \/ promoteAssetToVPCProxy(c) \/ demoteAssetVPCProxy(c)
                    \/ saveConnection(c) \/ promoteVPCProxyMutation(c) \/ settledOnly(c)
                    \/ callFailed(c) \/ Settle(c)
    \/ LoadDetail \/ LoadProfile

-----------------------------------------------------------------------------
TypeOK ==
    /\ db.profile \in [Assets -> 0..MaxVersion] /\ cache.profile \in [Assets -> 0..MaxVersion]
    /\ ui.selected \in Assets \cup {None} /\ \A c \in m : c.x \in Mutations

\* The open editor of a connection profile started from the profile that the
\* page has now: whatever replaces it there (a save, a test or a probe that
\* wrote its outcome, another operator) closes the editor, so that a save
\* never puts back values from before a change the page already knew.
ConnectionEditorFresh == ui.editor.open => ui.editor.base = cache.profile[ui.selected]
=============================================================================
