------------------------ MODULE PortalSessionsProofs ------------------------
(***************************************************************************)
(* The invariants of PortalSessions, for any assets and their profiles and *)
(* any number of launches and of mounts of the workspace.                  *)
(***************************************************************************)
EXTENDS PortalSessions, SequenceTheorems, FiniteSetTheorems, TLAPS

Ended == {"error", "closed", "disconnected"}

(* The types that TypeOK leaves open.                                       *)
Types ==
  /\ TypeOK
  /\ tabs \in [open : Seq(Launches), active : 0..MaxLaunches]
  /\ links \in [followed : Nat, launched : Nat]

(* Launches are numbered in the order in which they start.                  *)
LaunchesInOrder ==
  \E n \in 0..MaxLaunches : \A i \in Launches : launch[i].phase = "none" <=> n < i

(* A ticket is asked for only with a profile that can be used.              *)
TicketsLaunchable ==
  \A i \in Launches : launch[i].phase = "ticket" => Launchable(Profile(launch[i].asset))

(* Every launch was started by the workspace mounted now or an earlier one. *)
LaunchMounts == \A i \in Launches : launch[i].mount <= page.mount

(* What isPending looks at: a launch of this mount under way is its last.   *)
LastPending == \A i, j \in Mine : InFlight(i) => j <= i

(* The parameter is in the URL of the workspace only, and one that has been *)
(* consumed is about to be cleared from it.                                 *)
LinkConsumed ==
  /\ url.launch # None => page.at = "sessions"
  /\ url.launch # None /\ url.consumed = url.launch => url.clearing

(* The effect of a deep link is due before anything else was launched.      *)
EffectFirst == EffectDue => Mine = {}

(* A link whose effect is due has been followed and has launched nothing.   *)
LinksOwed == links.launched + (IF EffectDue THEN 1 ELSE 0) <= links.followed

LaunchInv ==
  /\ LaunchesInOrder /\ TicketsLaunchable /\ LaunchMounts /\ LastPending
  /\ LinkConsumed /\ EffectFirst /\ LinksOwed

(* A tab is the outcome of a launch that has succeeded.                     *)
TabsOfDone == \A i \in Range(tabs.open) : launch[i].phase = "done"

(* A launch that has not succeeded has no pane.                             *)
PanesOfDone ==
  \A i \in Launches : launch[i].phase # "done" => pane[i].status = "none" /\ pane[i].conn = "none"

(* Only a mounted pane shows a status, and one that shows an end waits for  *)
(* no script and no handshake.                                              *)
StatusOfTab ==
  \A i \in Launches :
     /\ ~ IsMounted(i) => pane[i].status = "none"
     /\ pane[i].status \in Ended => pane[i].conn \notin {"loading", "opening"}

TabInv ==
  /\ TabsOfDone /\ PanesOfDone /\ StatusOfTab
  /\ NoOrphanConnection /\ OneTabShown /\ StatusOfConnection

Inv == Types /\ LaunchInv /\ TabInv
-----------------------------------------------------------------------------
(* Sequences without duplicates: the list of tabs.                          *)

(* Appending adds the new element to the range, and keeps a list that has   *)
(* not got it free of duplicates.                                           *)
LEMMA AppendTab ==
  ASSUME NEW s \in Seq(Launches), NEW i \in Launches
  PROVE  /\ Append(s, i) \in Seq(Launches) /\ Append(s, i) # <<>>
         /\ Range(Append(s, i)) = Range(s) \cup {i}
         /\ IsInjective(s) /\ i \notin Range(s) => IsInjective(Append(s, i))
<1>1. /\ Append(s, i) \in Seq(Launches) /\ Len(Append(s, i)) = Len(s) + 1
      /\ \A k \in 1..Len(s) : Append(s, i)[k] = s[k]
      /\ Append(s, i)[Len(s) + 1] = i
  BY AppendProperties
<1>2. DOMAIN s = 1..Len(s) /\ DOMAIN Append(s, i) = 1..(Len(s) + 1) /\ Len(s) \in Nat
  BY <1>1, LenProperties
<1>3. Range(Append(s, i)) = Range(s) \cup {i}
  BY <1>1, <1>2 DEF Range
<1>4. IsInjective(s) /\ i \notin Range(s) => IsInjective(Append(s, i))
  BY <1>1, <1>2 DEF IsInjective, Range
<1> QED
  BY <1>1, <1>3, <1>4

(* Removing an element of a list without duplicates removes it altogether,  *)
(* and leaves such a list.                                                  *)
LEMMA RemoveTab ==
  ASSUME NEW s \in Seq(Launches), IsInjective(s), NEW i \in Range(s)
  PROVE  /\ RemoveFirst(s, i) \in Seq(Launches)
         /\ Range(RemoveFirst(s, i)) = Range(s) \ {i}
         /\ IsInjective(RemoveFirst(s, i))
<1>1. DOMAIN s = 1..Len(s) /\ Len(s) \in Nat /\ s \in [1..Len(s) -> Launches]
  BY LenProperties
<1>2. PICK k \in 1..Len(s) : s[k] = i
  BY <1>1 DEF Range
<1>3. {j \in 1..Len(s) : s[j] = i} = {k}
  BY <1>1, <1>2 DEF IsInjective
<1>4. Min({k}) = k
  BY <1>1 DEF Min
<1>5. SelectInSeq(s, LAMBDA v : v = i) = k
  BY <1>3, <1>4 DEF SelectInSeq
<1>6. RemoveFirst(s, i) = SubSeq(s, 1, k - 1) \o SubSeq(s, k + 1, Len(s))
  BY <1>2, <1>5 DEF RemoveFirst, RemoveAt
<1> DEFINE u == SubSeq(s, 1, k - 1)
           v == SubSeq(s, k + 1, Len(s))
<1>7. /\ u \in Seq(Launches) /\ Len(u) = k - 1
      /\ \A j \in 1..(k - 1) : u[j] = s[j]
  BY <1>1, <1>2, SubSeqProperties
<1>8. /\ v \in Seq(Launches) /\ Len(v) = Len(s) - k
      /\ \A j \in 1..(Len(s) - k) : v[j] = s[k + j]
  <2>1. \A j \in (k + 1)..Len(s) : s[j] \in Launches
    BY <1>1, <1>2
  <2>2. /\ v \in Seq(Launches)
        /\ Len(v) = IF k + 1 <= Len(s) THEN Len(s) - (k + 1) + 1 ELSE 0
        /\ \A j \in 1..(Len(s) - (k + 1) + 1) : v[j] = s[(k + 1) + j - 1]
    <3>1. k + 1 \in Int /\ Len(s) \in Int
      BY <1>1, <1>2
    <3> QED
      BY <2>1, <3>1, SubSeqProperties
  <2>3. Len(s) - (k + 1) + 1 = Len(s) - k /\ (k + 1 <= Len(s) \/ Len(s) - k = 0)
    <3>1. Len(s) \in Int /\ k \in Int /\ k <= Len(s)
      BY <1>1, <1>2
    <3>2. ASSUME NEW n \in Int, NEW l \in Int, l <= n
          PROVE  n - (l + 1) + 1 = n - l /\ (l + 1 <= n \/ n - l = 0)
      BY <3>2
    <3> QED
      BY <3>1, <3>2
  <2>4. \A j \in 1..(Len(s) - k) : (k + 1) + j - 1 = k + j
    BY <1>1, <1>2
  <2> HIDE DEF v
  <2> QED
    BY <2>2, <2>3, <2>4
<1> HIDE DEF u, v
<1>9. PICK w : w = u \o v
  OBVIOUS
<1>10. RemoveFirst(s, i) = w
  BY <1>6, <1>9 DEF u, v
<1>11. /\ w \in Seq(Launches)
       /\ DOMAIN w = 1..(Len(s) - 1)
       /\ \A j \in 1..(Len(s) - 1) : w[j] = IF j < k THEN s[j] ELSE s[j + 1]
  <2>1. /\ w \in Seq(Launches) /\ Len(w) = Len(u) + Len(v)
        /\ \A j \in 1..(Len(u) + Len(v)) :
               w[j] = IF j <= Len(u) THEN u[j] ELSE v[j - Len(u)]
    BY <1>7, <1>8, <1>9, ConcatProperties
  <2>2. Len(u) + Len(v) = Len(s) - 1 /\ DOMAIN w = 1..(Len(s) - 1)
    BY <1>1, <1>2, <1>7, <1>8, <2>1, LenProperties
  <2>3. ASSUME NEW j \in 1..(Len(s) - 1), j < k PROVE w[j] = s[j]
    BY <1>1, <1>2, <1>7, <2>1, <2>2, <2>3
  <2>4. ASSUME NEW j \in 1..(Len(s) - 1), ~ (j < k) PROVE w[j] = s[j + 1]
    <3>1. j - (k - 1) \in 1..(Len(s) - k) /\ k + (j - (k - 1)) = j + 1
      BY <1>1, <1>2, <2>4
    <3>2. w[j] = v[j - (k - 1)]
      <4>1. j \in 1..(Len(u) + Len(v)) /\ ~ (j <= Len(u)) /\ Len(u) = k - 1
        BY <1>1, <1>2, <1>7, <2>2, <2>4
      <4> QED
        BY <2>1, <4>1
    <3> QED
      BY <1>8, <3>1, <3>2
  <2> QED
    BY <2>1, <2>2, <2>3, <2>4
<1>12. Range(w) = Range(s) \ {i}
  <2>1. ASSUME NEW x \in Range(w) PROVE x \in Range(s) /\ x # i
    <3>1. PICK j \in 1..(Len(s) - 1) : x = IF j < k THEN s[j] ELSE s[j + 1]
      BY <1>11, <2>1 DEF Range
    <3> QED
      BY <1>1, <1>2, <3>1 DEF Range, IsInjective
  <2>2. ASSUME NEW x \in Range(s), x # i PROVE x \in Range(w)
    <3>1. PICK j \in 1..Len(s) : x = s[j]
      BY <1>1 DEF Range
    <3>2. j # k
      BY <1>2, <2>2, <3>1
    <3>3. CASE j < k
      <4>1. j \in 1..(Len(s) - 1) /\ w[j] = x
        BY <1>1, <1>2, <1>11, <3>1, <3>3
      <4> QED
        BY <1>11, <4>1 DEF Range
    <3>4. CASE j > k
      <4>1. j - 1 \in 1..(Len(s) - 1) /\ w[j - 1] = x
        BY <1>1, <1>2, <1>11, <3>1, <3>4
      <4> QED
        BY <1>11, <4>1 DEF Range
    <3> QED
      BY <1>1, <1>2, <3>2, <3>3, <3>4
  <2> QED
    BY <2>1, <2>2
<1>13. IsInjective(w)
  <2> SUFFICES ASSUME NEW a \in 1..(Len(s) - 1), NEW b \in 1..(Len(s) - 1), w[a] = w[b]
               PROVE  a = b
    BY <1>11 DEF IsInjective
  <2>1. PICK c \in 1..Len(s) : w[a] = s[c] /\ c = IF a < k THEN a ELSE a + 1
    BY <1>1, <1>11
  <2>2. PICK d \in 1..Len(s) : w[b] = s[d] /\ d = IF b < k THEN b ELSE b + 1
    BY <1>1, <1>11
  <2>3. c = d
    BY <1>1, <2>1, <2>2 DEF IsInjective
  <2> QED
    BY <1>1, <2>1, <2>2, <2>3
<1> QED
  BY <1>10, <1>11, <1>12, <1>13
-----------------------------------------------------------------------------
(* The portal starts in the invariant.                                      *)
LEMMA InitInv == Init => Inv
<1> SUFFICES ASSUME Init PROVE Inv
  OBVIOUS
<1> USE DEF Init
<1>1. Types
  BY BoundsAssumption DEF Types, TypeOK, Launches, NoLaunch, NoPane
<1>2. LaunchInv
  <2>1. \A i \in Launches : launch[i] = NoLaunch
    OBVIOUS
  <2>2. LaunchesInOrder
    <3>1. 0 \in 0..MaxLaunches /\ \A i \in Launches : 0 < i
      BY BoundsAssumption DEF Launches
    <3> QED
      BY <2>1, <3>1 DEF LaunchesInOrder, NoLaunch
  <2>3. ~ EffectDue /\ Mine = {}
    BY <2>1 DEF EffectDue, Mine, NoLaunch
  <2> QED
    BY <2>1, <2>2, <2>3 DEF LaunchInv, TicketsLaunchable, LaunchMounts, LastPending, LinkConsumed,
       EffectFirst, LinksOwed, NoLaunch
<1>3. TabInv
  <2>1. Range(tabs.open) = {} /\ IsInjective(tabs.open)
    BY DEF Range, IsInjective
  <2> QED
    BY <2>1 DEF TabInv, TabsOfDone, PanesOfDone, StatusOfTab, NoOrphanConnection, OneTabShown,
       StatusOfConnection, IsMounted, NoPane, Ended
<1> QED
  BY <1>1, <1>2, <1>3 DEF Inv

(* LaunchInv is about the launches, the page and its link only.             *)
LEMMA LaunchInvFrame ==
  LaunchInv /\ UNCHANGED <<page, url, links, launch>> => LaunchInv'
BY DEF LaunchInv, LaunchesInOrder, TicketsLaunchable, LaunchMounts, LastPending, LinkConsumed,
   EffectFirst, LinksOwed, EffectDue, Mine, InFlight

(* TabInv is about the tabs, the panes, their tickets, and which launches   *)
(* have succeeded.                                                          *)
LEMMA TabInvFrame ==
  ASSUME TabInv, Types, UNCHANGED <<tabs, pane, ticket>>,
         \A i \in Launches : launch'[i].phase = "done" <=> launch[i].phase = "done"
  PROVE  TabInv'
<1>1. Range(tabs.open) \subseteq Launches
  <2>1. tabs.open \in Seq(Launches)
    BY DEF Types
  <2> QED
    BY <2>1, LenProperties DEF Range
<1>2. TabsOfDone' /\ PanesOfDone'
  BY <1>1 DEF TabInv, TabsOfDone, PanesOfDone
<1>3. StatusOfTab' /\ NoOrphanConnection' /\ OneTabShown' /\ StatusOfConnection'
  BY DEF TabInv, StatusOfTab, NoOrphanConnection, OneTabShown, StatusOfConnection, IsMounted
<1> QED
  BY <1>2, <1>3 DEF TabInv

(* Steps of the connect page that stay on it.                               *)
LEMMA ConnectInv ==
  ASSUME Inv, (\E a \in Assets : selectAsset(a)) \/ connectAccess
  PROVE  Inv'
<1>1. UNCHANGED <<ticket, page, url, links, launch, tabs, card, pane, loader>>
  BY DEF selectAsset, connectAccess
<1>2. Types'
  <2>1. connect' \in [asset : Assets \cup {None}, access : {"none", "loading", "error", "allowed", "denied"}]
    BY DEF Inv, Types, TypeOK, selectAsset, connectAccess
  <2> QED
    BY <1>1, <2>1 DEF Inv, Types, TypeOK
<1>3. LaunchInv' /\ TabInv'
  BY <1>1, LaunchInvFrame, TabInvFrame DEF Inv
<1> QED
  BY <1>2, <1>3 DEF Inv

(* Entering the workspace, by a deep link or by the sidebar.                *)
LEMMA MountInv ==
  ASSUME Inv, openLive \/ navigateSessions
  PROVE  Inv'
<1>1. PICK u \in Assets \cup {None} :
         /\ page.at = "connect" /\ page.mount < MaxMounts
         /\ page' = [at |-> "sessions", mount |-> page.mount + 1]
         /\ url' = [launch |-> u, consumed |-> None, clearing |-> FALSE]
         /\ links' = IF u = None THEN links ELSE [links EXCEPT !.followed = @ + 1]
  <2>1. CASE openLive
    BY <2>1 DEF openLive, MountSessions, Inv, Types, TypeOK
  <2>2. CASE navigateSessions
    BY <2>2 DEF navigateSessions, MountSessions
  <2> QED
    BY <2>1, <2>2
<1>2. /\ connect' = [asset |-> None, access |-> "none"]
      /\ UNCHANGED <<ticket, launch, tabs, card, pane, loader>>
  BY DEF openLive, navigateSessions
<1>3. /\ page \in [at : {"connect", "sessions"}, mount : 0..MaxMounts]
      /\ links \in [followed : Nat, launched : Nat]
      /\ \A i \in Launches : launch[i].mount \in 0..MaxMounts /\ launch[i].mount <= page.mount
  BY DEF Inv, Types, TypeOK, LaunchInv, LaunchMounts
<1>4. /\ page' \in [at : {"connect", "sessions"}, mount : 0..MaxMounts]
      /\ page'.mount = page.mount + 1 /\ page.mount + 1 \in 0..MaxMounts /\ page.mount \in Nat
      /\ page'.at = "sessions"
  BY <1>1, <1>3, BoundsAssumption
<1>5. /\ links' \in [followed : Nat, launched : Nat]
      /\ links'.launched = links.launched
      /\ links'.followed = links.followed + (IF u = None THEN 0 ELSE 1)
  BY <1>1, <1>3
<1>6. Types'
  BY <1>1, <1>2, <1>4, <1>5 DEF Inv, Types, TypeOK
<1>7. Mine' = {}
  <2>1. \A i \in Launches : launch[i].mount # page.mount + 1
    BY <1>3, <1>4
  <2> QED
    BY <1>2, <1>4, <2>1 DEF Mine
<1>8. LinksOwed'
  <2>1. links.launched <= links.followed
    BY <1>1, <1>3 DEF Inv, LaunchInv, LinksOwed, EffectDue
  <2>2. EffectDue' => u # None
    BY <1>1 DEF EffectDue
  <2> QED
    BY <1>3, <1>5, <2>1, <2>2 DEF LinksOwed
<1>9. LaunchesInOrder' /\ TicketsLaunchable'
  BY <1>2 DEF Inv, LaunchInv, LaunchesInOrder, TicketsLaunchable
<1>10. LaunchMounts'
  BY <1>2, <1>3, <1>4 DEF LaunchMounts
<1>11. LastPending' /\ LinkConsumed' /\ EffectFirst'
  BY <1>1, <1>4, <1>7 DEF LastPending, LinkConsumed, EffectFirst
<1>12. TabInv'
  BY <1>2, TabInvFrame DEF Inv
<1> QED
  BY <1>6, <1>8, <1>9, <1>10, <1>11, <1>12 DEF Inv, LaunchInv
(* A launch starts while the mounted workspace has none under way.          *)
LEMMA MutateInv ==
  ASSUME Inv, NEW a \in Assets, mutate(a), UNCHANGED page, \A i \in Mine : ~ InFlight(i)
  PROVE  /\ launch' \in [Launches -> [asset : Assets \cup {None}, mount : 0..MaxMounts,
                                phase : {"none", "asset", "profile", "ticket", "done", "failed"}]]
         /\ LaunchesInOrder' /\ TicketsLaunchable' /\ LaunchMounts' /\ LastPending'
         /\ \A i \in Launches : launch'[i].phase = "done" <=> launch[i].phase = "done"
<1>1. PICK n \in 0..MaxLaunches : \A i \in Launches : launch[i].phase = "none" <=> n < i
  BY DEF Inv, LaunchInv, LaunchesInOrder
<1>2. n \in Int /\ MaxLaunches \in Int /\ \A i \in Launches : i \in Int /\ 1 <= i /\ i <= MaxLaunches
  BY BoundsAssumption DEF Launches
<1>3. n + 1 \in Launches /\ n + 1 \in Fresh /\ \A j \in Fresh : n + 1 <= j
  <2>1. PICK j \in Launches : launch[j].phase = "none"
    BY DEF mutate, Fresh
  <2>2. n < j
    BY <1>1, <2>1
  <2>3. n + 1 \in Launches
    BY <1>2, <2>2, BoundsAssumption DEF Launches
  <2> QED
    BY <1>1, <1>2, <2>3 DEF Fresh
<1>4. (CHOOSE i \in Fresh : \A j \in Fresh : i <= j) = n + 1
  <2>1. \A i \in Fresh : (\A j \in Fresh : i <= j) => i = n + 1
    BY <1>2, <1>3 DEF Fresh
  <2> QED
    BY <1>3, <2>1
<1>5. PICK k \in Launches : k = n + 1
  BY <1>3
<1>6. /\ launch \in [Launches -> [asset : Assets \cup {None}, mount : 0..MaxMounts,
                                phase : {"none", "asset", "profile", "ticket", "done", "failed"}]]
      /\ page.mount \in 0..MaxMounts
  BY DEF Inv, Types, TypeOK
<1>7. launch' = [launch EXCEPT ![k] = [asset |-> a, phase |-> "asset", mount |-> page.mount]]
  BY <1>4, <1>5 DEF mutate
<1>8. /\ launch'[k] = [asset |-> a, phase |-> "asset", mount |-> page.mount]
      /\ \A i \in Launches \ {k} : launch'[i] = launch[i]
      /\ launch[k].phase = "none"
  BY <1>1, <1>2, <1>5, <1>6, <1>7
<1>9. launch' \in [Launches -> [asset : Assets \cup {None}, mount : 0..MaxMounts,
                                phase : {"none", "asset", "profile", "ticket", "done", "failed"}]]
  BY <1>6, <1>7
<1>10. \A i \in Launches : launch'[i].phase = "none" <=> k < i
  <2> SUFFICES ASSUME NEW i \in Launches PROVE launch'[i].phase = "none" <=> k < i
    OBVIOUS
  <2>1. CASE i = k
    BY <1>2, <1>8, <2>1
  <2>2. CASE i # k
    <3>1. launch'[i].phase = "none" <=> n < i
      BY <1>1, <1>8, <2>2
    <3>2. n < i <=> k < i
      BY <1>2, <1>5, <2>2
    <3> QED
      BY <3>1, <3>2
  <2> QED
    BY <2>1, <2>2
<1>11. LaunchesInOrder'
  <2>1. k \in 0..MaxLaunches
    BY <1>2
  <2> QED
    BY <1>10, <2>1 DEF LaunchesInOrder
<1>12. TicketsLaunchable'
  BY <1>8 DEF Inv, LaunchInv, TicketsLaunchable
<1>13. LaunchMounts'
  BY <1>6, <1>8 DEF Inv, LaunchInv, LaunchMounts
<1>14. \A i \in Launches : i \in Mine' => i = k \/ i \in Mine
  BY <1>8 DEF Mine
<1>15. \A i \in Mine' : i <= k
  <2>1. \A i \in Mine' : i \in Launches /\ launch'[i].phase # "none"
    BY DEF Mine
  <2> QED
    BY <1>2, <1>10, <2>1
<1>16. \A i \in Mine' : InFlight(i)' => i = k
  <2> SUFFICES ASSUME NEW i \in Launches, i \in Mine', InFlight(i)', i # k PROVE FALSE
    BY DEF Mine
  <2> QED
    BY <1>8, <1>14 DEF InFlight
<1>17. LastPending'
  BY <1>15, <1>16 DEF LastPending
<1> QED
  BY <1>8, <1>9, <1>11, <1>12, <1>13, <1>17

(* A launch from the rail or from the dialog.                               *)
LEMMA QuickLaunchInv ==
  ASSUME Inv, NEW a \in Assets, quickLaunch(a) \/ launchSelectedAsset(a)
  PROVE  Inv'
<1>1. /\ page.at = "sessions" /\ ~ EffectDue /\ ~ isPending /\ mutate(a)
      /\ UNCHANGED <<ticket, page, connect, url, links, tabs, card, pane, loader>>
  BY DEF quickLaunch, launchSelectedAsset, view
<1>2. \A i \in Mine : ~ InFlight(i)
  <2> SUFFICES ASSUME NEW i \in Mine, InFlight(i) PROVE FALSE
    OBVIOUS
  <2>1. \A j \in Mine : j <= i
    BY DEF Inv, LaunchInv, LastPending
  <2>2. \A j \in Mine : j \in Int
    BY BoundsAssumption DEF Mine, Launches
  <2>3. (CHOOSE k \in Mine : \A j \in Mine : j <= k) = i
    <3>1. \A k \in Mine : (\A j \in Mine : j <= k) => k = i
      BY <2>1, <2>2
    <3> QED
      BY <2>1, <3>1
  <2> QED
    BY <1>1, <2>3 DEF isPending
<1>3. /\ launch' \in [Launches -> [asset : Assets \cup {None}, mount : 0..MaxMounts,
                                phase : {"none", "asset", "profile", "ticket", "done", "failed"}]]
      /\ LaunchesInOrder' /\ TicketsLaunchable' /\ LaunchMounts' /\ LastPending'
      /\ \A i \in Launches : launch'[i].phase = "done" <=> launch[i].phase = "done"
  BY <1>1, <1>2, MutateInv
<1>4. Types'
  BY <1>1, <1>3 DEF Inv, Types, TypeOK
<1>5. LinkConsumed' /\ EffectFirst' /\ LinksOwed'
  <2>1. ~ EffectDue'
    BY <1>1 DEF EffectDue
  <2> QED
    BY <1>1, <2>1 DEF Inv, LaunchInv, LinkConsumed, EffectFirst, LinksOwed
<1>6. TabInv'
  BY <1>1, <1>3, TabInvFrame DEF Inv
<1> QED
  BY <1>3, <1>4, <1>5, <1>6 DEF Inv, LaunchInv

(* The effect of a deep link: it is consumed, and the debt is paid.         *)
LEMMA AutoLaunchInv ==
  ASSUME Inv, autoLaunch
  PROVE  Inv'
<1>1. /\ EffectDue /\ mutate(url.launch) /\ url.launch # None
      /\ url' = [url EXCEPT !.consumed = url.launch, !.clearing = TRUE]
      /\ links' = [links EXCEPT !.launched = @ + 1]
      /\ UNCHANGED <<ticket, page, connect, tabs, card, pane, loader>>
  BY DEF autoLaunch, EffectDue
<1>2. /\ url \in [launch : Assets \cup {None}, consumed : Assets \cup {None}, clearing : BOOLEAN]
      /\ links \in [followed : Nat, launched : Nat]
  BY DEF Inv, Types, TypeOK
<1>3. /\ url' \in [launch : Assets \cup {None}, consumed : Assets \cup {None}, clearing : BOOLEAN]
      /\ url'.launch = url.launch /\ url'.consumed = url.launch /\ url'.clearing
      /\ links' \in [followed : Nat, launched : Nat]
      /\ links'.launched = links.launched + 1 /\ links'.followed = links.followed
  <2>1. url' = [launch |-> url.launch, consumed |-> url.launch, clearing |-> TRUE]
    BY <1>1, <1>2
  <2>2. links' = [followed |-> links.followed, launched |-> links.launched + 1]
    BY <1>1, <1>2
  <2> QED
    BY <1>2, <2>1, <2>2
<1>4. \A i \in Mine : ~ InFlight(i)
  BY <1>1 DEF Inv, LaunchInv, EffectFirst
<1>5. /\ launch' \in [Launches -> [asset : Assets \cup {None}, mount : 0..MaxMounts,
                                phase : {"none", "asset", "profile", "ticket", "done", "failed"}]]
      /\ LaunchesInOrder' /\ TicketsLaunchable' /\ LaunchMounts' /\ LastPending'
      /\ \A i \in Launches : launch'[i].phase = "done" <=> launch[i].phase = "done"
  <2>1. url.launch \in Assets
    BY <1>1, <1>2
  <2> QED
    BY <1>1, <1>4, <2>1, MutateInv
<1>6. Types'
  BY <1>1, <1>3, <1>5 DEF Inv, Types, TypeOK
<1>7. LinkConsumed' /\ EffectFirst' /\ LinksOwed'
  <2>1. ~ EffectDue'
    BY <1>3 DEF EffectDue
  <2>2. page'.at = "sessions"
    BY <1>1 DEF EffectDue
  <2>3. links.launched + 1 <= links.followed
    BY <1>1 DEF Inv, LaunchInv, LinksOwed
  <2> QED
    BY <1>2, <1>3, <2>1, <2>2, <2>3 DEF LinkConsumed, EffectFirst, LinksOwed
<1>8. TabInv'
  BY <1>1, <1>5, TabInvFrame DEF Inv
<1> QED
  BY <1>5, <1>6, <1>7, <1>8 DEF Inv, LaunchInv

(* The parameters leave the URL.                                            *)
LEMMA SetSearchParamsInv ==
  ASSUME Inv, setSearchParams
  PROVE  Inv'
<1>1. /\ url' = [url EXCEPT !.launch = None, !.clearing = FALSE]
      /\ UNCHANGED <<ticket, page, connect, links, launch, tabs, card, pane, loader>>
  BY DEF setSearchParams
<1>2. /\ url' \in [launch : Assets \cup {None}, consumed : Assets \cup {None}, clearing : BOOLEAN]
      /\ url'.launch = None
  BY <1>1 DEF Inv, Types, TypeOK
<1>3. Types'
  BY <1>1, <1>2 DEF Inv, Types, TypeOK
<1>4. LaunchInv'
  <2>1. ~ EffectDue' /\ (\A i \in Launches : InFlight(i)' = InFlight(i)) /\ Mine' = Mine
    BY <1>1, <1>2 DEF EffectDue, InFlight, Mine
  <2>2. LaunchesInOrder' /\ TicketsLaunchable' /\ LaunchMounts' /\ LinkConsumed' /\ EffectFirst'
    BY <1>1, <1>2, <2>1 DEF Inv, LaunchInv, LaunchesInOrder, TicketsLaunchable, LaunchMounts,
       LinkConsumed, EffectFirst
  <2>3. LastPending'
    BY <1>1, <2>1 DEF Inv, LaunchInv, LastPending, Mine
  <2>4. LinksOwed'
    <3>1. links \in [followed : Nat, launched : Nat]
      BY DEF Inv, Types
    <3> QED
      BY <1>1, <2>1, <3>1 DEF Inv, LaunchInv, LinksOwed
  <2> QED
    BY <2>2, <2>3, <2>4 DEF LaunchInv
<1>5. TabInv'
  BY <1>1, TabInvFrame DEF Inv
<1> QED
  BY <1>3, <1>4, <1>5 DEF Inv
-----------------------------------------------------------------------------
(* A launch goes on: what LaunchInv asks of its new phase.                  *)
LEMMA PhaseInv ==
  ASSUME Inv, NEW i \in Launches, InFlight(i),
         NEW ph \in {"profile", "ticket", "done", "failed"},
         ph = "ticket" => Launchable(Profile(launch[i].asset)),
         launch' = [launch EXCEPT ![i].phase = ph], UNCHANGED <<page, url, links>>
  PROVE  /\ launch' \in [Launches -> [asset : Assets \cup {None}, mount : 0..MaxMounts,
                                phase : {"none", "asset", "profile", "ticket", "done", "failed"}]]
         /\ launch'[i].phase = ph /\ \A j \in Launches \ {i} : launch'[j] = launch[j]
         /\ LaunchInv'
<1>1. launch \in [Launches -> [asset : Assets \cup {None}, mount : 0..MaxMounts,
                                phase : {"none", "asset", "profile", "ticket", "done", "failed"}]]
  BY DEF Inv, Types, TypeOK
<1>2. /\ launch' \in [Launches -> [asset : Assets \cup {None}, mount : 0..MaxMounts,
                                phase : {"none", "asset", "profile", "ticket", "done", "failed"}]]
      /\ launch'[i].phase = ph /\ launch'[i].asset = launch[i].asset /\ launch'[i].mount = launch[i].mount
      /\ \A j \in Launches \ {i} : launch'[j] = launch[j]
  BY <1>1
<1>3. \A j \in Launches : launch'[j].mount = launch[j].mount /\ launch'[j].asset = launch[j].asset
                          /\ (launch'[j].phase = "none" <=> launch[j].phase = "none")
                          /\ (InFlight(j)' => InFlight(j))
  <2> SUFFICES ASSUME NEW j \in Launches
               PROVE  launch'[j].mount = launch[j].mount /\ launch'[j].asset = launch[j].asset
                          /\ (launch'[j].phase = "none" <=> launch[j].phase = "none")
                          /\ (InFlight(j)' => InFlight(j))
    OBVIOUS
  <2>1. CASE j = i
    BY <1>2, <2>1 DEF InFlight
  <2>2. CASE j # i
    BY <1>2, <2>2 DEF InFlight
  <2> QED
    BY <2>1, <2>2
<1>4. Mine' = Mine /\ (EffectDue' <=> EffectDue)
  BY <1>3 DEF Mine, EffectDue
<1>5. LaunchesInOrder' /\ LaunchMounts'
  BY <1>3 DEF Inv, LaunchInv, LaunchesInOrder, LaunchMounts
<1>6. TicketsLaunchable'
  BY <1>2 DEF Inv, LaunchInv, TicketsLaunchable
<1>7. LastPending'
  BY <1>3, <1>4 DEF Inv, LaunchInv, LastPending, Mine
<1>8. LinkConsumed' /\ EffectFirst' /\ LinksOwed'
  BY <1>4 DEF Inv, LaunchInv, LinkConsumed, EffectFirst, LinksOwed
<1> QED
  BY <1>2, <1>5, <1>6, <1>7, <1>8 DEF LaunchInv

(* The calls for the asset and its profile, and the failure of any call.    *)
LEMMA AdvanceInv ==
  ASSUME Inv, NEW i \in Launches,
         getAsset(i) \/ getAssetConnectionProfile(i) \/ launchFailed(i)
  PROVE  Inv'
<1>1. PICK ph \in {"profile", "ticket", "failed"} :
        /\ InFlight(i) /\ (ph = "ticket" => Launchable(Profile(launch[i].asset)))
        /\ launch' = [launch EXCEPT ![i].phase = ph]
  BY DEF getAsset, getAssetConnectionProfile, launchFailed, Advance, InFlight
<1>2. UNCHANGED <<ticket, page, connect, url, links, tabs, card, pane, loader>>
  BY DEF getAsset, getAssetConnectionProfile, launchFailed, Advance, view
<1>3. /\ launch' \in [Launches -> [asset : Assets \cup {None}, mount : 0..MaxMounts,
                                phase : {"none", "asset", "profile", "ticket", "done", "failed"}]]
      /\ launch'[i].phase = ph /\ \A j \in Launches \ {i} : launch'[j] = launch[j]
      /\ LaunchInv'
  BY <1>1, <1>2, PhaseInv
<1>4. \A j \in Launches : launch'[j].phase = "done" <=> launch[j].phase = "done"
  BY <1>1, <1>3 DEF InFlight
<1>5. Types'
  BY <1>2, <1>3 DEF Inv, Types, TypeOK
<1>6. TabInv'
  BY <1>2, <1>4, TabInvFrame DEF Inv
<1> QED
  BY <1>3, <1>5, <1>6 DEF Inv

(* The ticket is issued, and a tab opens unless it is one of a database or  *)
(* the page that launched it is gone.                                       *)
LEMMA IssueTicketInv ==
  ASSUME Inv, NEW i \in Launches, issueTicket(i)
  PROVE  Inv'
<1>1. PICK kind : kind = Profile(launch[i].asset).kind
  OBVIOUS
<1>2. PICK here \in BOOLEAN : here <=> page.at = "sessions" /\ launch[i].mount = page.mount
  OBVIOUS
<1>3. /\ launch[i].phase = "ticket" /\ launch' = [launch EXCEPT ![i].phase = "done"]
      /\ ticket' = [ticket EXCEPT ![i] = "issued"]
      /\ card' = IF here /\ kind = "db" THEN i ELSE card
      /\ UNCHANGED <<page, connect, url, links>>
  BY <1>1, <1>2 DEF issueTicket, view
<1>4. IF here /\ kind # "db"
      THEN /\ tabs' = [open |-> Append(tabs.open, i), active |-> i]
           /\ pane' = [pane EXCEPT ![i] = Mounted(kind)]
           /\ loader' = [loader EXCEPT ![kind] = IF @ = "none" THEN "loading" ELSE @]
      ELSE UNCHANGED <<tabs, pane, loader>>
  BY <1>1, <1>2 DEF issueTicket
<1>5. /\ launch' \in [Launches -> [asset : Assets \cup {None}, mount : 0..MaxMounts,
                                phase : {"none", "asset", "profile", "ticket", "done", "failed"}]]
      /\ launch'[i].phase = "done" /\ \A j \in Launches \ {i} : launch'[j] = launch[j]
      /\ LaunchInv'
  BY <1>3, PhaseInv DEF InFlight
<1>6. kind \in {"ssh", "rdp", "db"}
  BY <1>1, <1>3 DEF Inv, LaunchInv, TicketsLaunchable, Launchable, Kinds
<1>7. /\ tabs \in [open : Seq(Launches), active : 0..MaxLaunches] /\ tabs.open \in Seq(Launches)
      /\ pane \in [Launches -> [kind : {None, "ssh", "rdp"},
                              status : {"none", "connecting", "connected", "error", "closed", "disconnected"},
                              conn : {"none", "loading", "opening", "open", "closed"}]]
      /\ ticket \in [Launches -> {"none", "issued", "used", "expired"}]
      /\ loader \in [{"ssh", "rdp"} -> {"none", "loading", "ready", "failed"}]
      /\ card \in 0..MaxLaunches /\ Launches \subseteq 0..MaxLaunches
  BY DEF Inv, Types, TypeOK, Launches
<1>8. /\ ticket' \in [Launches -> {"none", "issued", "used", "expired"}]
      /\ \A j \in Launches \ {i} : ticket'[j] = ticket[j]
      /\ card' \in 0..MaxLaunches
  BY <1>3, <1>7
<1>9. /\ i \notin Range(tabs.open) /\ Range(tabs.open) \subseteq Launches
      /\ pane[i].status = "none" /\ pane[i].conn = "none"
  <2>1. Range(tabs.open) \subseteq Launches
    BY <1>7, LenProperties DEF Range
  <2> QED
    BY <1>3, <2>1 DEF Inv, TabInv, TabsOfDone, PanesOfDone
<1>10. CASE here /\ kind # "db"
  <2>1. /\ tabs' = [open |-> Append(tabs.open, i), active |-> i]
        /\ pane' = [pane EXCEPT ![i] = [kind |-> kind, status |-> "connecting", conn |-> "loading"]]
        /\ loader' = [loader EXCEPT ![kind] = IF loader[kind] = "none" THEN "loading" ELSE loader[kind]]
        /\ kind \in {"ssh", "rdp"}
    BY <1>4, <1>6, <1>10 DEF Mounted
  <2>2. /\ tabs'.open \in Seq(Launches) /\ tabs'.open # <<>> /\ tabs'.active = i
        /\ Range(tabs'.open) = Range(tabs.open) \cup {i}
        /\ IsInjective(tabs'.open)
        /\ tabs' \in [open : Seq(Launches), active : 0..MaxLaunches]
    <3>1. IsInjective(tabs.open)
      BY DEF Inv, TabInv, OneTabShown
    <3> QED
      BY <1>7, <1>9, <2>1, <3>1, AppendTab
  <2>3. /\ pane'[i] = [kind |-> kind, status |-> "connecting", conn |-> "loading"]
        /\ \A j \in Launches \ {i} : pane'[j] = pane[j]
        /\ pane' \in [Launches -> [kind : {None, "ssh", "rdp"},
                              status : {"none", "connecting", "connected", "error", "closed", "disconnected"},
                              conn : {"none", "loading", "opening", "open", "closed"}]]
    BY <1>7, <2>1
  <2>4. loader' \in [{"ssh", "rdp"} -> {"none", "loading", "ready", "failed"}]
    BY <1>7, <2>1
  <2>5. Types'
    BY <1>3, <1>5, <1>8, <2>2, <2>3, <2>4 DEF Inv, Types, TypeOK
  <2>6. TabsOfDone' /\ PanesOfDone'
    <3>1. TabsOfDone /\ PanesOfDone
      BY DEF Inv, TabInv
    <3>2. ASSUME NEW j \in Range(tabs'.open) PROVE launch'[j].phase = "done"
      <4>1. CASE j = i
        BY <1>5, <4>1
      <4>2. CASE j # i
        BY <1>5, <1>9, <2>2, <3>1, <4>2 DEF TabsOfDone
      <4> QED
        BY <4>1, <4>2
    <3>3. TabsOfDone'
      BY <3>2 DEF TabsOfDone
    <3>4. PanesOfDone'
      BY <1>5, <2>3, <3>1 DEF PanesOfDone
    <3> QED
      BY <3>3, <3>4
  <2>7. StatusOfTab' /\ NoOrphanConnection'
    <3>1. \A j \in Launches : IsMounted(j)' <=> IsMounted(j) \/ j = i
      BY <2>2 DEF IsMounted
    <3>2. StatusOfTab /\ NoOrphanConnection
      BY DEF Inv, TabInv
    <3>3. pane'[i].status \notin Ended /\ pane'[i].conn = "loading"
      BY <2>3 DEF Ended
    <3>4. StatusOfTab'
      BY <2>3, <3>1, <3>2, <3>3 DEF StatusOfTab
    <3> QED
      BY <2>3, <3>1, <3>2, <3>3, <3>4 DEF NoOrphanConnection
  <2>8. OneTabShown'
    BY <2>2 DEF OneTabShown
  <2>9. StatusOfConnection'
    BY <1>8, <1>9, <2>2, <2>3 DEF Inv, TabInv, StatusOfConnection
  <2> QED
    BY <1>5, <2>5, <2>6, <2>7, <2>8, <2>9 DEF Inv, TabInv
<1>11. CASE ~ (here /\ kind # "db")
  <2>1. UNCHANGED <<tabs, pane, loader>>
    BY <1>4, <1>11
  <2>2. Types'
    BY <1>3, <1>5, <1>8, <2>1 DEF Inv, Types, TypeOK
  <2>3. TabsOfDone' /\ PanesOfDone'
    BY <1>5, <1>9, <2>1 DEF Inv, TabInv, TabsOfDone, PanesOfDone
  <2>4. StatusOfTab' /\ NoOrphanConnection' /\ OneTabShown'
    BY <2>1 DEF Inv, TabInv, StatusOfTab, NoOrphanConnection, OneTabShown, IsMounted
  <2>5. StatusOfConnection'
    BY <1>8, <1>9, <2>1 DEF Inv, TabInv, StatusOfConnection
  <2> QED
    BY <1>5, <2>2, <2>3, <2>4, <2>5 DEF Inv, TabInv
<1> QED
  BY <1>10, <1>11
-----------------------------------------------------------------------------
(* The card of a database ticket, the selection of a tab, the loaders.      *)
LEMMA CardInv ==
  ASSUME Inv, closeDbAccess
  PROVE  Inv'
<1>1. card' = 0 /\ UNCHANGED <<ticket, page, connect, url, links, launch, tabs, pane, loader>>
  BY DEF closeDbAccess, view
<1>2. Types'
  BY <1>1, BoundsAssumption DEF Inv, Types, TypeOK
<1> QED
  BY <1>1, <1>2, LaunchInvFrame, TabInvFrame DEF Inv

LEMMA SetActiveInv ==
  ASSUME Inv, NEW i \in Launches, setActive(i)
  PROVE  Inv'
<1>1. /\ i \in Range(tabs.open) /\ tabs' = [tabs EXCEPT !.active = i]
      /\ UNCHANGED <<ticket, page, connect, url, links, launch, card, pane, loader>>
  BY DEF setActive, view
<1>2. /\ tabs' \in [open : Seq(Launches), active : 0..MaxLaunches]
      /\ tabs'.open = tabs.open /\ tabs'.active = i
  BY <1>1 DEF Inv, Types, Launches
<1>3. Types'
  BY <1>1, <1>2 DEF Inv, Types, TypeOK
<1>4. OneTabShown'
  <2>1. tabs.open # <<>>
    BY <1>1 DEF Range
  <2> QED
    BY <1>1, <1>2, <2>1 DEF Inv, TabInv, OneTabShown
<1>5. TabsOfDone' /\ PanesOfDone' /\ StatusOfTab' /\ NoOrphanConnection' /\ StatusOfConnection'
  BY <1>1, <1>2 DEF Inv, TabInv, TabsOfDone, PanesOfDone, StatusOfTab, NoOrphanConnection,
     StatusOfConnection, IsMounted
<1> QED
  BY <1>1, <1>3, <1>4, <1>5, LaunchInvFrame DEF Inv, TabInv

LEMMA LoadScriptInv ==
  ASSUME Inv, loadXterm \/ loadGuacamole
  PROVE  Inv'
<1>1. PICK k \in {"ssh", "rdp"}, r \in {"ready", "failed"} : loader' = [loader EXCEPT ![k] = r]
  BY DEF loadXterm, loadGuacamole, loadScript
<1>2. UNCHANGED <<ticket, page, connect, url, links, launch, tabs, card, pane>>
  BY DEF loadXterm, loadGuacamole, loadScript, view
<1>3. Types'
  BY <1>1, <1>2 DEF Inv, Types, TypeOK
<1> QED
  BY <1>2, <1>3, LaunchInvFrame, TabInvFrame DEF Inv

(* What the cleanup of an effect does to a pane.                            *)
LEMMA DisposedPane ==
  ASSUME NEW p \in [kind : {None, "ssh", "rdp"},
                    status : {"none", "connecting", "connected", "error", "closed", "disconnected"},
                    conn : {"none", "loading", "opening", "open", "closed"}]
  PROVE  /\ Disposed(p) \in [kind : {None, "ssh", "rdp"},
                    status : {"none", "connecting", "connected", "error", "closed", "disconnected"},
                    conn : {"none", "loading", "opening", "open", "closed"}]
         /\ Disposed(p).status = "none"
         /\ Disposed(p).conn \notin {"opening", "open"}
         /\ p.conn = "none" => Disposed(p).conn = "none"
<1> DEFINE P == [kind : {None, "ssh", "rdp"},
                 status : {"none", "connecting", "connected", "error", "closed", "disconnected"},
                 conn : {"none", "loading", "opening", "open", "closed"}]
<1>1. PICK q : q = [p EXCEPT !.status = "none"]
  OBVIOUS
<1>2. q \in P /\ q.status = "none" /\ q.conn = p.conn
  BY <1>1
<1>3. PICK c \in {"none", "loading", "closed"} :
         c = IF p.conn \in {"opening", "open"} THEN "closed" ELSE p.conn
  OBVIOUS
<1>4. Disposed(p) = [q EXCEPT !.conn = c]
  BY <1>1, <1>3 DEF Disposed
<1>5. Disposed(p) \in P /\ Disposed(p).status = "none" /\ Disposed(p).conn = c
  BY <1>2, <1>4
<1> QED
  BY <1>3, <1>5

LEMMA CloseInv ==
  ASSUME Inv, NEW i \in Launches, closeLiveSession(i)
  PROVE  Inv'
<1>1. PICK rest : rest = RemoveFirst(tabs.open, i)
  OBVIOUS
<1>2. /\ i \in Range(tabs.open)
      /\ tabs' = [open |-> rest,
                  active |-> IF tabs.active # i THEN tabs.active
                             ELSE IF rest = <<>> THEN 0 ELSE Head(rest)]
      /\ pane' = [pane EXCEPT ![i] = Disposed(pane[i])]
      /\ UNCHANGED <<ticket, page, connect, url, links, launch, card, loader>>
  BY <1>1 DEF closeLiveSession, view
<1>3. /\ tabs \in [open : Seq(Launches), active : 0..MaxLaunches] /\ tabs.open \in Seq(Launches)
      /\ pane \in [Launches -> [kind : {None, "ssh", "rdp"},
                              status : {"none", "connecting", "connected", "error", "closed", "disconnected"},
                              conn : {"none", "loading", "opening", "open", "closed"}]]
      /\ Launches \subseteq 0..MaxLaunches /\ 0 \in 0..MaxLaunches
  BY BoundsAssumption DEF Inv, Types, TypeOK, Launches
<1>4. IsInjective(tabs.open) /\ tabs.active \in Range(tabs.open)
  <2>1. tabs.open # <<>>
    BY <1>2 DEF Range
  <2> QED
    BY <2>1 DEF Inv, TabInv, OneTabShown
<1>5. /\ rest \in Seq(Launches) /\ Range(rest) = Range(tabs.open) \ {i} /\ IsInjective(rest)
  BY <1>1, <1>2, <1>3, <1>4, RemoveTab
<1>6. rest # <<>> => Head(rest) \in Range(rest) /\ Head(rest) \in Launches
  <2> SUFFICES ASSUME rest # <<>> PROVE Head(rest) \in Range(rest) /\ Head(rest) \in Launches
    OBVIOUS
  <2>1. 1 \in DOMAIN rest /\ Head(rest) = rest[1] /\ rest[1] \in Launches
    BY <1>5, LenProperties, EmptySeq
  <2> QED
    BY <2>1 DEF Range
<1>7. /\ tabs'.open = rest
      /\ tabs'.active = IF tabs.active # i THEN tabs.active
                        ELSE IF rest = <<>> THEN 0 ELSE Head(rest)
      /\ tabs' \in [open : Seq(Launches), active : 0..MaxLaunches]
  BY <1>2, <1>3, <1>5, <1>6
<1>8. /\ pane' \in [Launches -> [kind : {None, "ssh", "rdp"},
                              status : {"none", "connecting", "connected", "error", "closed", "disconnected"},
                              conn : {"none", "loading", "opening", "open", "closed"}]]
      /\ pane'[i].status = "none" /\ pane'[i].conn \notin {"opening", "open"}
      /\ pane[i].conn = "none" => pane'[i].conn = "none"
      /\ \A j \in Launches \ {i} : pane'[j] = pane[j]
  BY <1>2, <1>3, DisposedPane
<1>9. Types'
  BY <1>2, <1>7, <1>8 DEF Inv, Types, TypeOK
<1>10. TabsOfDone' /\ PanesOfDone'
  BY <1>2, <1>5, <1>7, <1>8 DEF Inv, TabInv, TabsOfDone, PanesOfDone
<1>11. \A j \in Launches \ {i} : IsMounted(j)' <=> IsMounted(j)
  BY <1>5, <1>7 DEF IsMounted
<1>12. StatusOfTab'
  BY <1>8, <1>11 DEF Inv, TabInv, StatusOfTab, Ended
<1>13. NoOrphanConnection'
  BY <1>8, <1>11 DEF Inv, TabInv, NoOrphanConnection
<1>14. OneTabShown'
  <2>1. CASE rest = <<>>
    <3>1. Range(rest) = {}
      BY <2>1 DEF Range
    <3>2. tabs.active = i
      BY <1>4, <1>5, <3>1
    <3> QED
      BY <1>5, <1>7, <2>1, <3>2 DEF OneTabShown
  <2>2. CASE rest # <<>>
    <3>1. tabs'.active \in Range(rest)
      BY <1>4, <1>5, <1>6, <1>7, <2>2
    <3> QED
      BY <1>5, <1>7, <2>2, <3>1 DEF OneTabShown
  <2> QED
    BY <2>1, <2>2
<1>15. StatusOfConnection'
  <2>1. Range(tabs.open) \subseteq Launches
    BY <1>3, LenProperties DEF Range
  <2> QED
    BY <1>2, <1>5, <1>7, <1>8, <2>1 DEF Inv, TabInv, StatusOfConnection
<1> QED
  BY <1>2, <1>9, <1>10, <1>12, <1>13, <1>14, <1>15, LaunchInvFrame DEF Inv, TabInv
(* All panes are disposed with the page.                                    *)
LEMMA UnmountInv ==
  ASSUME Inv, tabs' = [open |-> <<>>, active |-> 0],
         pane' \in [Launches -> [kind : {None, "ssh", "rdp"},
                              status : {"none", "connecting", "connected", "error", "closed", "disconnected"},
                              conn : {"none", "loading", "opening", "open", "closed"}]],
         \A i \in Launches : /\ pane'[i].status = "none" /\ pane'[i].conn \notin {"opening", "open"}
                             /\ pane[i].conn = "none" => pane'[i].conn = "none",
         \A i \in Launches : launch'[i].phase = "done" <=> launch[i].phase = "done"
  PROVE  TabInv' /\ tabs' \in [open : Seq(Launches), active : 0..MaxLaunches]
<1>1. tabs'.open = <<>> /\ tabs'.active = 0 /\ Range(tabs'.open) = {} /\ IsInjective(tabs'.open)
  BY DEF Range, IsInjective
<1>2. tabs' \in [open : Seq(Launches), active : 0..MaxLaunches]
  BY BoundsAssumption
<1>3. TabsOfDone' /\ PanesOfDone'
  BY <1>1 DEF Inv, TabInv, TabsOfDone, PanesOfDone
<1>4. StatusOfTab' /\ NoOrphanConnection'
  BY DEF StatusOfTab, NoOrphanConnection, Ended
<1>5. OneTabShown' /\ StatusOfConnection'
  BY <1>1 DEF OneTabShown, StatusOfConnection
<1> QED
  BY <1>2, <1>3, <1>4, <1>5 DEF TabInv

LEMMA LeaveInv ==
  ASSUME Inv, leaveSessions
  PROVE  Inv'
<1>1. /\ page' = [page EXCEPT !.at = "connect"]
      /\ url' = [launch |-> None, consumed |-> None, clearing |-> FALSE]
      /\ tabs' = [open |-> <<>>, active |-> 0] /\ card' = 0
      /\ pane' = [i \in Launches |-> Disposed(pane[i])]
      /\ UNCHANGED <<ticket, connect, links, launch, loader>>
  BY DEF leaveSessions
<1>2. pane \in [Launches -> [kind : {None, "ssh", "rdp"},
                              status : {"none", "connecting", "connected", "error", "closed", "disconnected"},
                              conn : {"none", "loading", "opening", "open", "closed"}]]
  BY DEF Inv, Types, TypeOK
<1>3. /\ pane' \in [Launches -> [kind : {None, "ssh", "rdp"},
                              status : {"none", "connecting", "connected", "error", "closed", "disconnected"},
                              conn : {"none", "loading", "opening", "open", "closed"}]]
      /\ \A i \in Launches : /\ pane'[i].status = "none" /\ pane'[i].conn \notin {"opening", "open"}
                             /\ pane[i].conn = "none" => pane'[i].conn = "none"
  BY <1>1, <1>2, DisposedPane
<1>4. TabInv' /\ tabs' \in [open : Seq(Launches), active : 0..MaxLaunches]
  BY <1>1, <1>3, UnmountInv
<1>5. /\ page' \in [at : {"connect", "sessions"}, mount : 0..MaxMounts]
      /\ page'.mount = page.mount /\ page'.at = "connect"
  BY <1>1 DEF Inv, Types, TypeOK
<1>6. Types'
  BY <1>1, <1>3, <1>4, <1>5, BoundsAssumption DEF Inv, Types, TypeOK
<1>7. ~ EffectDue' /\ Mine' = Mine /\ \A i \in Launches : InFlight(i)' <=> InFlight(i)
  BY <1>1, <1>5 DEF EffectDue, Mine, InFlight
<1>8. LinksOwed'
  <2>1. links \in [followed : Nat, launched : Nat]
    BY DEF Inv, Types
  <2> QED
    BY <1>1, <1>7, <2>1 DEF Inv, LaunchInv, LinksOwed
<1>9. LaunchesInOrder' /\ TicketsLaunchable' /\ LaunchMounts' /\ LinkConsumed' /\ EffectFirst'
  BY <1>1, <1>5, <1>7 DEF Inv, LaunchInv, LaunchesInOrder, TicketsLaunchable, LaunchMounts,
     LinkConsumed, EffectFirst
<1>10. LastPending'
  BY <1>7 DEF Inv, LaunchInv, LastPending, Mine
<1> QED
  BY <1>4, <1>6, <1>8, <1>9, <1>10 DEF Inv, LaunchInv

(* A reload starts the workspace anew.  Were there still a link that was    *)
(* consumed, it would be launched again: LinkConsumed rules that out.       *)
LEMMA ReloadInv ==
  ASSUME Inv, reload
  PROVE  Inv'
<1>1. /\ page.at = "sessions" /\ ~ EffectDue /\ ~ url.clearing /\ page.mount < MaxMounts
      /\ page' = [page EXCEPT !.mount = @ + 1]
      /\ url' = [url EXCEPT !.consumed = None]
      /\ tabs' = [open |-> <<>>, active |-> 0] /\ card' = 0
      /\ loader' = [k \in {"ssh", "rdp"} |-> "none"]
      /\ UNCHANGED <<ticket, connect, links>>
  BY DEF reload
<1>2. launch' = [i \in Launches |-> IF InFlight(i) THEN [launch[i] EXCEPT !.phase = "failed"] ELSE launch[i]]
  BY DEF reload
<1>3. pane' = [i \in Launches |-> [Disposed(pane[i]) EXCEPT
                 !.conn = IF Disposed(pane[i]).conn = "loading" THEN "none" ELSE Disposed(pane[i]).conn]]
  BY DEF reload
<1>4. /\ pane \in [Launches -> [kind : {None, "ssh", "rdp"},
                              status : {"none", "connecting", "connected", "error", "closed", "disconnected"},
                              conn : {"none", "loading", "opening", "open", "closed"}]]
      /\ launch \in [Launches -> [asset : Assets \cup {None}, mount : 0..MaxMounts,
                                phase : {"none", "asset", "profile", "ticket", "done", "failed"}]]
      /\ page \in [at : {"connect", "sessions"}, mount : 0..MaxMounts]
      /\ url \in [launch : Assets \cup {None}, consumed : Assets \cup {None}, clearing : BOOLEAN]
      /\ links \in [followed : Nat, launched : Nat]
  BY DEF Inv, Types, TypeOK
<1>5. ASSUME NEW i \in Launches
      PROVE  /\ pane'[i] \in [kind : {None, "ssh", "rdp"},
                              status : {"none", "connecting", "connected", "error", "closed", "disconnected"},
                              conn : {"none", "loading", "opening", "open", "closed"}]
             /\ pane'[i].status = "none" /\ pane'[i].conn \notin {"opening", "open"}
             /\ pane[i].conn = "none" => pane'[i].conn = "none"
  <2>1. PICK q : q = Disposed(pane[i])
    OBVIOUS
  <2>2. /\ q \in [kind : {None, "ssh", "rdp"},
                  status : {"none", "connecting", "connected", "error", "closed", "disconnected"},
                  conn : {"none", "loading", "opening", "open", "closed"}]
        /\ q.status = "none" /\ q.conn \notin {"opening", "open"}
        /\ pane[i].conn = "none" => q.conn = "none"
    BY <1>4, <2>1, DisposedPane
  <2>3. PICK c : c = IF q.conn = "loading" THEN "none" ELSE q.conn
    OBVIOUS
  <2>4. pane'[i] = [q EXCEPT !.conn = c]
    BY <1>3, <2>1, <2>3
  <2>5. c \in {"none", "loading", "opening", "open", "closed"} /\ c \notin {"opening", "open"}
        /\ (q.conn = "none" => c = "none")
    BY <2>2, <2>3
  <2> QED
    BY <2>2, <2>4, <2>5
<1>6. pane' \in [Launches -> [kind : {None, "ssh", "rdp"},
                              status : {"none", "connecting", "connected", "error", "closed", "disconnected"},
                              conn : {"none", "loading", "opening", "open", "closed"}]]
  <2>1. pane' = [i \in Launches |-> pane'[i]]
    BY <1>3
  <2> HIDE <1>3
  <2> QED
    BY <1>5, <2>1
<1>7. ASSUME NEW i \in Launches
      PROVE  /\ launch'[i] \in [asset : Assets \cup {None}, mount : 0..MaxMounts,
                                phase : {"none", "asset", "profile", "ticket", "done", "failed"}]
             /\ launch'[i].mount = launch[i].mount /\ launch'[i].asset = launch[i].asset
             /\ launch'[i].phase # launch[i].phase => InFlight(i) /\ launch'[i].phase = "failed"
             /\ launch'[i].phase \notin {"asset", "profile", "ticket"}
  <2>1. CASE InFlight(i)
    BY <1>2, <1>4, <2>1
  <2>2. CASE ~ InFlight(i)
    BY <1>2, <1>4, <2>2 DEF InFlight
  <2> QED
    BY <2>1, <2>2
<1>8. launch' \in [Launches -> [asset : Assets \cup {None}, mount : 0..MaxMounts,
                                phase : {"none", "asset", "profile", "ticket", "done", "failed"}]]
  <2>1. launch' = [i \in Launches |-> launch'[i]]
    BY <1>2
  <2> HIDE <1>2
  <2> QED
    BY <1>7, <2>1
<1>9. \A i \in Launches : /\ launch'[i].phase = "done" <=> launch[i].phase = "done"
                          /\ launch'[i].phase = "none" <=> launch[i].phase = "none"
  BY <1>7 DEF InFlight
<1>10. TabInv' /\ tabs' \in [open : Seq(Launches), active : 0..MaxLaunches]
  BY <1>1, <1>5, <1>6, <1>9, UnmountInv
<1>11. url.launch = None
  BY <1>1 DEF Inv, LaunchInv, LinkConsumed, EffectDue
<1>12. /\ page' \in [at : {"connect", "sessions"}, mount : 0..MaxMounts]
       /\ page'.mount = page.mount + 1 /\ page.mount \in Nat
       /\ url' \in [launch : Assets \cup {None}, consumed : Assets \cup {None}, clearing : BOOLEAN]
       /\ url'.launch = None
  <2>1. page' = [at |-> page.at, mount |-> page.mount + 1]
    BY <1>1, <1>4
  <2>2. page.mount + 1 \in 0..MaxMounts /\ page.mount \in Nat
    BY <1>1, <1>4, BoundsAssumption
  <2>3. url' = [launch |-> None, consumed |-> None, clearing |-> url.clearing]
    BY <1>1, <1>4, <1>11
  <2> QED
    BY <1>4, <2>1, <2>2, <2>3
<1>13. Types'
  BY <1>1, <1>6, <1>8, <1>10, <1>12, BoundsAssumption DEF Inv, Types, TypeOK
<1>14. ~ EffectDue' /\ Mine' = {}
  <2>1. \A i \in Launches : launch'[i].mount # page.mount + 1
    <3>1. \A i \in Launches : launch[i].mount \in Nat /\ launch[i].mount <= page.mount
      BY <1>4 DEF Inv, LaunchInv, LaunchMounts
    <3> QED
      BY <1>7, <1>12, <3>1
  <2> QED
    BY <1>12, <2>1 DEF EffectDue, Mine
<1>15. LinksOwed'
  BY <1>1, <1>4, <1>14 DEF Inv, LaunchInv, LinksOwed
<1>16. LaunchesInOrder' /\ TicketsLaunchable'
  BY <1>7, <1>9 DEF Inv, LaunchInv, LaunchesInOrder, TicketsLaunchable
<1>17. LaunchMounts'
  <2>1. \A i \in Launches : launch[i].mount \in Nat /\ launch[i].mount <= page.mount
    BY <1>4 DEF Inv, LaunchInv, LaunchMounts
  <2> QED
    BY <1>7, <1>12, <2>1 DEF LaunchMounts
<1>18. LastPending' /\ LinkConsumed' /\ EffectFirst'
  BY <1>12, <1>14 DEF LastPending, LinkConsumed, EffectFirst
<1> QED
  BY <1>10, <1>13, <1>15, <1>16, <1>17, <1>18 DEF Inv, LaunchInv
-----------------------------------------------------------------------------
(* What the status st of a mounted pane of kind k may be when its           *)
(* connection is cn, where used says whether its ticket is.                 *)
StatusFits(st, cn, k, used) ==
  /\ st = "connected" /\ k = "ssh" => cn = "open"
  /\ st = "connecting" /\ k = "ssh" => cn \in {"loading", "opening"}
  /\ st = "disconnected" => cn = "closed"
  /\ st \in Ended => cn \notin {"loading", "opening"}
  /\ cn = "open" => used

(* A callback of a pane, disposed or not, changes that pane.                *)
LEMMA SetStatusPane ==
  ASSUME Types, NEW i \in Launches,
         NEW st \in {"none", "connecting", "connected", "error", "closed", "disconnected"},
         NEW cn \in {"none", "loading", "opening", "open", "closed"},
         setStatus(i, st, cn)
  PROVE  /\ pane' \in [Launches -> [kind : {None, "ssh", "rdp"},
                              status : {"none", "connecting", "connected", "error", "closed", "disconnected"},
                              conn : {"none", "loading", "opening", "open", "closed"}]]
         /\ pane'[i].kind = pane[i].kind /\ pane'[i].conn = cn
         /\ pane'[i].status = IF IsMounted(i) THEN st ELSE pane[i].status
         /\ \A j \in Launches \ {i} : pane'[j] = pane[j]
<1> DEFINE P == [kind : {None, "ssh", "rdp"},
                 status : {"none", "connecting", "connected", "error", "closed", "disconnected"},
                 conn : {"none", "loading", "opening", "open", "closed"}]
<1>1. pane \in [Launches -> P]
  BY DEF Types, TypeOK
<1>2. PICK r \in {"none", "connecting", "connected", "error", "closed", "disconnected"} :
         r = IF IsMounted(i) THEN st ELSE pane[i].status
  BY <1>1
<1>3. PICK q : q = [pane EXCEPT ![i].conn = cn]
  OBVIOUS
<1>4. /\ q \in [Launches -> P] /\ q[i].conn = cn /\ q[i].kind = pane[i].kind
      /\ q[i].status = pane[i].status
      /\ \A j \in Launches \ {i} : q[j] = pane[j]
  BY <1>1, <1>3
<1>5. pane' = [q EXCEPT ![i].status = r]
  <2>1. CASE IsMounted(i)
    BY <1>2, <1>3, <2>1 DEF setStatus
  <2>2. CASE ~ IsMounted(i)
    BY <1>2, <1>3, <1>4, <2>2 DEF setStatus
  <2> QED
    BY <2>1, <2>2
<1> QED
  BY <1>2, <1>4, <1>5

LEMMA SetStatusInv ==
  ASSUME Inv, NEW i \in Launches,
         NEW st \in {"none", "connecting", "connected", "error", "closed", "disconnected"},
         NEW cn \in {"none", "loading", "opening", "open", "closed"},
         setStatus(i, st, cn), UnchangedByPane,
         ticket' \in [Launches -> {"none", "issued", "used", "expired"}],
         \A j \in Launches : ticket[j] = "used" => ticket'[j] = "used",
         pane[i].conn # "none",
         cn \in {"opening", "open"} => IsMounted(i),
         IsMounted(i) => StatusFits(st, cn, pane[i].kind, ticket'[i] = "used")
  PROVE  Inv'
<1>1. UNCHANGED <<page, connect, url, links, launch, tabs, card, loader>>
  BY DEF UnchangedByPane, view
<1>2. /\ pane' \in [Launches -> [kind : {None, "ssh", "rdp"},
                              status : {"none", "connecting", "connected", "error", "closed", "disconnected"},
                              conn : {"none", "loading", "opening", "open", "closed"}]]
      /\ pane'[i].kind = pane[i].kind /\ pane'[i].conn = cn
      /\ pane'[i].status = IF IsMounted(i) THEN st ELSE pane[i].status
      /\ \A j \in Launches \ {i} : pane'[j] = pane[j]
  BY SetStatusPane DEF Inv
<1>3. Types'
  BY <1>1, <1>2 DEF Inv, Types, TypeOK
<1>4. LaunchInv'
  BY <1>1, LaunchInvFrame DEF Inv
<1>5. TabsOfDone' /\ OneTabShown'
  BY <1>1 DEF Inv, TabInv, TabsOfDone, OneTabShown
<1>6. PanesOfDone'
  <2>1. launch[i].phase = "done"
    BY DEF Inv, TabInv, PanesOfDone
  <2> QED
    BY <1>1, <1>2, <2>1 DEF Inv, TabInv, PanesOfDone
<1>7. \A j \in Launches : IsMounted(j)' <=> IsMounted(j)
  BY <1>1 DEF IsMounted
<1>8. StatusOfTab'
  <2> SUFFICES ASSUME NEW j \in Launches
               PROVE  /\ ~ IsMounted(j) => pane'[j].status = "none"
                      /\ pane'[j].status \in Ended => pane'[j].conn \notin {"loading", "opening"}
    BY <1>7 DEF StatusOfTab
  <2>1. CASE j # i
    BY <1>2, <2>1 DEF Inv, TabInv, StatusOfTab
  <2>2. CASE j = i /\ IsMounted(i)
    BY <1>2, <2>2 DEF StatusFits
  <2>3. CASE j = i /\ ~ IsMounted(i)
    BY <1>2, <2>3 DEF Inv, TabInv, StatusOfTab, Ended
  <2> QED
    BY <2>1, <2>2, <2>3
<1>9. NoOrphanConnection'
  BY <1>2, <1>7 DEF Inv, TabInv, NoOrphanConnection
<1>10. StatusOfConnection'
  <2>1. Range(tabs.open) \subseteq Launches
    <3>1. tabs.open \in Seq(Launches)
      BY DEF Inv, Types
    <3> QED
      BY <3>1, LenProperties DEF Range
  <2> SUFFICES ASSUME NEW j \in Range(tabs.open)
               PROVE  StatusFits(pane'[j].status, pane'[j].conn, pane'[j].kind, ticket'[j] = "used")
    BY <1>1 DEF StatusOfConnection, StatusFits
  <2>2. CASE j # i
    <3>1. pane'[j] = pane[j] /\ (ticket[j] = "used" => ticket'[j] = "used")
      BY <1>2, <2>1, <2>2
    <3> QED
      BY <2>1, <3>1 DEF Inv, TabInv, StatusOfConnection, StatusOfTab, StatusFits
  <2>3. CASE j = i
    <3>1. pane'[j].status = st /\ pane'[j].conn = cn /\ pane'[j].kind = pane[i].kind
      BY <1>2, <2>3 DEF IsMounted
    <3> QED
      BY <2>3, <3>1 DEF IsMounted
  <2> QED
    BY <2>2, <2>3
<1> QED
  BY <1>3, <1>4, <1>5, <1>6, <1>8, <1>9, <1>10 DEF Inv, TabInv
(* What a callback of pane i makes of it: st and cn are the status, if it   *)
(* is still mounted, and the connection that it sets.                       *)
PaneBecomes(i, st, cn) ==
  /\ setStatus(i, st, cn) /\ UnchangedByPane
  /\ ticket' \in [Launches -> {"none", "issued", "used", "expired"}]
  /\ \A j \in Launches : ticket[j] = "used" => ticket'[j] = "used"
  /\ pane[i].conn # "none"
  /\ cn \in {"opening", "open"} => IsMounted(i)
  /\ IsMounted(i) => StatusFits(st, cn, pane[i].kind, ticket'[i] = "used")
  /\ pane[i].status \in Ended => st \notin {"connecting", "connected"}

(* Every callback of a pane sets a status that fits its connection, and     *)
(* none goes back from an end.                                              *)
LEMMA PaneSteps ==
  ASSUME Inv, NEW i \in Launches, PaneStep(i)
  PROVE  \E st \in {"none", "connecting", "connected", "error", "closed", "disconnected"},
            cn \in {"none", "loading", "opening", "open", "closed"} : PaneBecomes(i, st, cn)
<1>1. /\ ticket \in [Launches -> {"none", "issued", "used", "expired"}]
      /\ pane[i].status \in {"none", "connecting", "connected", "error", "closed", "disconnected"}
  BY DEF Inv, Types, TypeOK
<1>2. /\ pane[i].conn \in {"opening", "open"} => IsMounted(i)
      /\ pane[i].status \in Ended => pane[i].conn \notin {"loading", "opening"}
      /\ IsMounted(i) /\ pane[i].conn = "open" => ticket[i] = "used"
  BY DEF Inv, TabInv, NoOrphanConnection, StatusOfTab, StatusOfConnection, IsMounted
<1>3. CASE openTerminal(i) \/ openRdp(i)
  <2>1. CASE IsMounted(i)
    <3>1. PaneBecomes(i, "connecting", "opening")
      BY <1>1, <1>2, <1>3, <2>1
         DEF openTerminal, openRdp, paneLoaded, PaneBecomes, StatusFits, Ended
    <3> QED
      BY <3>1
  <2>2. CASE ~ IsMounted(i)
    <3>1. PaneBecomes(i, "connecting", "none")
      BY <1>1, <1>2, <1>3, <2>2 DEF openTerminal, openRdp, paneLoaded, PaneBecomes
    <3> QED
      BY <3>1
  <2> QED
    BY <2>1, <2>2
<1>4. CASE paneLoadFailed(i)
  <2>1. PaneBecomes(i, "error", "none")
    BY <1>1, <1>4 DEF paneLoadFailed, PaneBecomes, StatusFits
  <2> QED
    BY <2>1
<1>5. CASE onopen(i) \/ connected(i)
  <2>1. /\ pane[i].conn = "opening" /\ ticket[i] = "issued"
        /\ ticket' = [ticket EXCEPT ![i] = "used"]
        /\ setStatus(i, "connected", "open") /\ UnchangedByPane
    BY <1>5 DEF onopen, connected, opened
  <2>2. /\ ticket' \in [Launches -> {"none", "issued", "used", "expired"}] /\ ticket'[i] = "used"
        /\ \A j \in Launches : ticket[j] = "used" => ticket'[j] = "used"
    BY <1>1, <2>1
  <2>3. PaneBecomes(i, "connected", "open")
    BY <1>2, <2>1, <2>2 DEF PaneBecomes, StatusFits, Ended
  <2> QED
    BY <2>3
<1>6. CASE onerror(i) \/ clientError(i)
  <2>1. PaneBecomes(i, "error", "closed")
    BY <1>1, <1>6 DEF onerror, clientError, PaneBecomes, StatusFits
  <2> QED
    BY <2>1
<1>7. CASE tunnelBroken(i)
  <2>1. PaneBecomes(i, pane[i].status, "closed")
    BY <1>1, <1>7 DEF tunnelBroken, PaneBecomes, StatusFits, Ended
  <2> QED
    BY <1>1, <2>1
<1>8. CASE errorFrame(i)
  <2>1. PaneBecomes(i, "error", "open")
    BY <1>1, <1>2, <1>8 DEF errorFrame, PaneBecomes, StatusFits
  <2> QED
    BY <2>1
<1>9. CASE exitFrame(i)
  <2>1. PaneBecomes(i, "closed", "open")
    BY <1>1, <1>2, <1>9 DEF exitFrame, PaneBecomes, StatusFits
  <2> QED
    BY <2>1
<1>10. CASE onclose(i) \/ disconnected(i)
  <2>1. PICK st \in {"error", "closed", "disconnected"} :
          setStatus(i, st, "closed") /\ pane[i].conn = "open" /\ UnchangedByPane /\ UNCHANGED ticket
    BY <1>10 DEF onclose, disconnected
  <2>2. PaneBecomes(i, st, "closed")
    BY <1>1, <2>1 DEF PaneBecomes, StatusFits
  <2> QED
    BY <2>2
<1> QED
  BY <1>3, <1>4, <1>5, <1>6, <1>7, <1>8, <1>9, <1>10 DEF PaneStep

LEMMA PaneStepInv ==
  ASSUME Inv, NEW i \in Launches, PaneStep(i)
  PROVE  Inv'
<1>1. PICK st \in {"none", "connecting", "connected", "error", "closed", "disconnected"},
           cn \in {"none", "loading", "opening", "open", "closed"} : PaneBecomes(i, st, cn)
  BY PaneSteps
<1> QED
  BY <1>1, SetStatusInv DEF PaneBecomes

(* A ticket expires, but never one that was used.                           *)
LEMMA TicketExpiresInv ==
  ASSUME Inv, NEW i \in Launches, ticketExpires(i)
  PROVE  Inv'
<1>1. /\ ticket[i] = "issued" /\ ticket' = [ticket EXCEPT ![i] = "expired"]
      /\ UNCHANGED <<page, connect, url, links, launch, tabs, card, loader, pane>>
  BY DEF ticketExpires, UnchangedByPane, view
<1>2. ticket \in [Launches -> {"none", "issued", "used", "expired"}] /\ tabs.open \in Seq(Launches)
  BY DEF Inv, Types, TypeOK
<1>3. /\ ticket' \in [Launches -> {"none", "issued", "used", "expired"}]
      /\ \A j \in Launches : ticket[j] = "used" => ticket'[j] = "used"
  BY <1>1, <1>2
<1>4. Types'
  BY <1>1, <1>3 DEF Inv, Types, TypeOK
<1>5. Range(tabs.open) \subseteq Launches
  BY <1>2, LenProperties DEF Range
<1>6. StatusOfConnection'
  BY <1>1, <1>3, <1>5 DEF Inv, TabInv, StatusOfConnection
<1>7. TabsOfDone' /\ PanesOfDone' /\ StatusOfTab' /\ NoOrphanConnection' /\ OneTabShown'
  BY <1>1 DEF Inv, TabInv, TabsOfDone, PanesOfDone, StatusOfTab, NoOrphanConnection, OneTabShown,
     IsMounted
<1> QED
  BY <1>1, <1>4, <1>6, <1>7, LaunchInvFrame DEF Inv, TabInv

(* Every step preserves the invariant.                                      *)
LEMMA NextInv == Inv /\ [Next]_vars => Inv'
<1> SUFFICES ASSUME Inv, [Next]_vars PROVE Inv'
  OBVIOUS
<1>1. CASE (\E a \in Assets : selectAsset(a)) \/ connectAccess
  BY <1>1, ConnectInv
<1>2. CASE openLive \/ navigateSessions
  BY <1>2, MountInv
<1>3. ASSUME NEW a \in Assets, quickLaunch(a) \/ launchSelectedAsset(a) PROVE Inv'
  BY <1>3, QuickLaunchInv
<1>4. CASE autoLaunch
  BY <1>4, AutoLaunchInv
<1>5. CASE setSearchParams
  BY <1>5, SetSearchParamsInv
<1>6. CASE closeDbAccess
  BY <1>6, CardInv
<1>7. ASSUME NEW i \in Launches, LaunchStep(i) PROVE Inv'
  BY <1>7, AdvanceInv, IssueTicketInv DEF LaunchStep
<1>8. ASSUME NEW i \in Launches, PaneStep(i) PROVE Inv'
  BY <1>8, PaneStepInv
<1>9. ASSUME NEW i \in Launches, ticketExpires(i) PROVE Inv'
  BY <1>9, TicketExpiresInv
<1>10. ASSUME NEW i \in Launches, setActive(i) PROVE Inv'
  BY <1>10, SetActiveInv
<1>11. ASSUME NEW i \in Launches, closeLiveSession(i) PROVE Inv'
  BY <1>11, CloseInv
<1>12. CASE leaveSessions
  BY <1>12, LeaveInv
<1>13. CASE reload
  BY <1>13, ReloadInv
<1>14. CASE loadXterm \/ loadGuacamole
  BY <1>14, LoadScriptInv
<1>15. CASE UNCHANGED vars
  <2>1. UNCHANGED <<ticket, page, connect, url, links, launch, tabs, card, pane, loader>>
    BY <1>15 DEF vars
  <2>2. Types'
    BY <2>1 DEF Inv, Types, TypeOK
  <2> QED
    BY <2>1, <2>2, LaunchInvFrame, TabInvFrame DEF Inv
<1> QED
  BY <1>1, <1>2, <1>3, <1>4, <1>5, <1>6, <1>7, <1>8, <1>9, <1>10, <1>11, <1>12, <1>13, <1>14, <1>15
     DEF Next

-----------------------------------------------------------------------------
(* The inductive invariant holds in every behaviour of the portal.          *)
THEOREM Invariance == Spec => []Inv
<1> QED
  BY InitInv, NextInv, PTL DEF Spec

(* Tabs and connections belong together (the cleanup of the panes' effects, *)
(* closeLiveSession, the callbacks of the panes).                           *)
THEOREM TabsAndConnections == Spec => []TabsOwnConnections
<1>1. Inv => TabsOwnConnections
  BY DEF Inv, Types, TabInv, TabsOwnConnections
<1> QED
  BY <1>1, Invariance, PTL

(* A launch under way is the last one of the mounted workspace, so that     *)
(* there is one at most.                                                    *)
LEMMA OnePending == Inv => OneLaunchPending
<1> SUFFICES ASSUME Inv PROVE OneLaunchPending
  OBVIOUS
<1> DEFINE S == {i \in Mine : InFlight(i) /\ page.at = "sessions"}
<1>1. \A i \in S : i \in Int
  BY BoundsAssumption DEF Mine, Launches
<1>2. \A i, j \in S : i = j
  <2>1. \A i, j \in S : i <= j /\ j <= i
    BY DEF Inv, LaunchInv, LastPending
  <2> QED
    BY <1>1, <2>1
<1>3. Cardinality(S) <= 1
  <2>1. CASE S = {}
    BY <2>1, FS_EmptySet
  <2>2. CASE S # {}
    <3>1. PICK i \in S : TRUE
      BY <2>2
    <3>2. S = {i}
      BY <1>2, <3>1
    <3>3. Cardinality({i}) = 1
      BY FS_Singleton
    <3> QED
      BY <3>2, <3>3
  <2> QED
    BY <2>1, <2>2
<1> QED
  BY <1>3 DEF OneLaunchPending

(* A deep link launches once, and the workspace has one launch under way at *)
(* most (consumedLaunchKeyRef, setSearchParams, launchTerminal.isPending).  *)
THEOREM LaunchesAreSingle == Spec => []LaunchedOnce
<1>1. Inv => DeepLinkLaunchesOnce
  <2> SUFFICES ASSUME Inv PROVE DeepLinkLaunchesOnce
    OBVIOUS
  <2>1. links \in [followed : Nat, launched : Nat]
    BY DEF Inv, Types
  <2> QED
    BY <2>1 DEF Inv, LaunchInv, LinksOwed, DeepLinkLaunchesOnce
<1>2. Inv => LaunchedOnce
  BY <1>1, OnePending DEF LaunchedOnce
<1> QED
  BY <1>2, Invariance, PTL

(* No step takes a tab back from an end.                                    *)
EndStep ==
  \A i \in Launches :
     pane[i].status \in {"error", "closed", "disconnected"} =>
         pane'[i].status \notin {"connecting", "connected"}

LEMMA EndStepHolds == Inv /\ [Next]_vars => EndStep
<1> SUFFICES ASSUME Inv, [Next]_vars PROVE EndStep
  OBVIOUS
<1>1. pane \in [Launches -> [kind : {None, "ssh", "rdp"},
                              status : {"none", "connecting", "connected", "error", "closed", "disconnected"},
                              conn : {"none", "loading", "opening", "open", "closed"}]]
  BY DEF Inv, Types, TypeOK
<1>2. CASE UNCHANGED pane
  BY <1>2 DEF EndStep
<1>3. ASSUME NEW i \in Launches, issueTicket(i) PROVE EndStep
  <2>1. pane[i].status = "none"
    BY <1>3 DEF issueTicket, Inv, TabInv, PanesOfDone
  <2>2. \A j \in Launches \ {i} : pane'[j] = pane[j]
    BY <1>1, <1>3 DEF issueTicket
  <2> QED
    BY <2>1, <2>2 DEF EndStep
<1>4. ASSUME NEW i \in Launches, PaneStep(i) PROVE EndStep
  <2>1. PICK st \in {"none", "connecting", "connected", "error", "closed", "disconnected"},
             cn \in {"none", "loading", "opening", "open", "closed"} : PaneBecomes(i, st, cn)
    BY <1>4, PaneSteps
  <2>2. /\ pane'[i].status = IF IsMounted(i) THEN st ELSE pane[i].status
        /\ \A j \in Launches \ {i} : pane'[j] = pane[j]
    BY <2>1, SetStatusPane DEF PaneBecomes, Inv
  <2>3. pane[i].status \in Ended => st \notin {"connecting", "connected"}
    BY <2>1 DEF PaneBecomes
  <2> QED
    BY <2>2, <2>3 DEF EndStep, Ended
<1>5. ASSUME NEW i \in Launches, closeLiveSession(i) PROVE EndStep
  <2>1. pane' = [pane EXCEPT ![i] = Disposed(pane[i])]
    BY <1>5 DEF closeLiveSession
  <2> QED
    BY <1>1, <2>1, DisposedPane DEF EndStep
<1>6. CASE leaveSessions
  BY <1>1, <1>6, DisposedPane DEF leaveSessions, EndStep
<1>7. CASE reload
  <2>1. ASSUME NEW i \in Launches PROVE pane'[i].status = "none"
    <3>1. PICK q : q = Disposed(pane[i])
      OBVIOUS
    <3>2. /\ q.status = "none"
          /\ q \in [kind : {None, "ssh", "rdp"},
                    status : {"none", "connecting", "connected", "error", "closed", "disconnected"},
                    conn : {"none", "loading", "opening", "open", "closed"}]
      BY <1>1, <3>1, DisposedPane
    <3>3. pane'[i] = [q EXCEPT !.conn = IF q.conn = "loading" THEN "none" ELSE q.conn]
      BY <1>7, <3>1 DEF reload
    <3> QED
      BY <3>2, <3>3
  <2> QED
    BY <2>1 DEF EndStep
<1>8. CASE \/ \E a \in Assets : selectAsset(a) \/ quickLaunch(a) \/ launchSelectedAsset(a)
           \/ connectAccess \/ openLive \/ navigateSessions
           \/ autoLaunch \/ setSearchParams \/ closeDbAccess \/ loadXterm \/ loadGuacamole
  <2>1. UNCHANGED pane
    BY <1>8 DEF selectAsset, quickLaunch, launchSelectedAsset, connectAccess, openLive, navigateSessions,
       autoLaunch, setSearchParams, closeDbAccess, loadXterm, loadGuacamole, loadScript
  <2> QED
    BY <1>2, <2>1
<1>9. ASSUME NEW i \in Launches, getAsset(i) \/ getAssetConnectionProfile(i) \/ launchFailed(i)
                                 \/ ticketExpires(i) \/ setActive(i)
      PROVE  EndStep
  <2>1. UNCHANGED pane
    BY <1>9 DEF getAsset, getAssetConnectionProfile, launchFailed, ticketExpires, setActive
  <2> QED
    BY <1>2, <2>1
<1>10. CASE UNCHANGED vars
  BY <1>2, <1>10 DEF vars
<1> QED
  BY <1>3, <1>4, <1>5, <1>6, <1>7, <1>8, <1>9, <1>10 DEF Next, LaunchStep

(* A tab that has reported an end never shows itself connected again (the   *)
(* callbacks of SshTerminalPane and RdpSessionPane): the part of TabsEnd    *)
(* that needs no fairness.                                                  *)
THEOREM EndsAreFinal == Spec => EndIsFinal
<1>1. Inv /\ [Next]_vars =>
        [\A i \in Launches :
           pane[i].status \in {"error", "closed", "disconnected"} =>
               pane'[i].status \notin {"connecting", "connected"}]_vars
  BY EndStepHolds DEF EndStep
<1> QED
  BY <1>1, Invariance, PTL DEF Spec, EndIsFinal
=============================================================================
