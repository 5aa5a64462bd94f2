--------------------------- MODULE PortalSessions ---------------------------
(***************************************************************************)
(* Opening sessions from the web portal: the asset panel of ConnectPage.tsx*)
(* with its access check, the deep link it builds (lib/launch.ts), and the *)
(* workspace of SessionsPage.tsx with the launch mutation, the tabs, the   *)
(* panes (SshTerminalPane.tsx, RdpSessionPane.tsx) and the card of a       *)
(* database ticket (DbAccessCard.tsx).  Launch number i is the launch, its *)
(* ticket and the tab or card it ends in.  The script loaders, the sockets *)
(* and the API calls of a launch are answered in steps of their own.       *)
(***************************************************************************)
EXTENDS Naturals, Sequences, FiniteSets, SequencesExt

CONSTANTS Assets, None,
          Profile(_),   \* the connection profile the server has for an asset
          MaxLaunches,  \* bound on the launches of a behaviour
          MaxMounts     \* bound on how often the workspace is opened

Launches == 1..MaxLaunches
Kinds == {"ssh", "rdp", "db"}   \* "rdp" stands for rdp, vnc and telnet

VARIABLES ticket,    \* the server: the ticket of each launch
          page,      \* the mounted page, how often the workspace was mounted
          connect,   \* ConnectPage: selectedAssetID and the connectAccess query
          url,       \* the launch parameter, consumedLaunchKeyRef, setSearchParams under way
          links,     \* history: deep links followed and launches they started
          launch,    \* the launch mutations
          tabs,      \* liveSessions, in order, and activeLiveID
          card,      \* dbAccess: the launch whose ticket the card shows, or 0
          pane,      \* the panes: the status shown in the tab, the connection
          loader     \* the module-level promises of loadXterm and loadGuacamole

vars == <<ticket, page, connect, url, links, launch, tabs, card, pane, loader>>
view == <<connect, url, links>>

NoLaunch == [asset |-> None, phase |-> "none", mount |-> 0]
NoPane == [kind |-> None, status |-> "none", conn |-> "none"]

\* What the profile says: its protocol and whether the credentials that this
\* protocol needs are stored (hasSSHCredentials, hasRDPCredentials, has_password).
Profiles == [kind : Kinds, creds : BOOLEAN] \cup {[kind |-> k, creds |-> FALSE] : k \in {"missing", "unsupported"}}

Launchable(p) == p.kind \in Kinds /\ p.creds

ASSUME ProfileAssumption == \A a \in Assets : Profile(a) \in Profiles
ASSUME BoundsAssumption == MaxLaunches \in Nat /\ MaxMounts \in Nat

Init ==
    /\ ticket = [i \in Launches |-> "none"]
    /\ page = [at |-> "connect", mount |-> 0]
    /\ connect = [asset |-> None, access |-> "none"]
    /\ url = [launch |-> None, consumed |-> None, clearing |-> FALSE]
    /\ links = [followed |-> 0, launched |-> 0]
    /\ launch = [i \in Launches |-> NoLaunch]
    /\ tabs = [open |-> <<>>, active |-> 0]
    /\ card = 0
    /\ pane = [i \in Launches |-> NoPane]
    /\ loader = [k \in {"ssh", "rdp"} |-> "none"]

-----------------------------------------------------------------------------
\* The connect page.

\* The asset's query has nothing yet, or what an earlier visit left.
selectAsset(a) ==
    /\ page.at = "connect"
    /\ \E r \in {"loading", "error", "allowed", "denied"} : connect' = [asset |-> a, access |-> r]
    /\ UNCHANGED <<ticket, page, url, links, launch, tabs, card, pane, loader>>

\* The query resolveCapability for the selected asset is answered or fails.
connectAccess ==
    /\ page.at = "connect" /\ connect.access # "none"
    /\ \E r \in {"error", "allowed", "denied"} :
           connect' = [connect EXCEPT !.access = r]
    /\ UNCHANGED <<ticket, page, url, links, launch, tabs, card, pane, loader>>

\* The buttons are disabled only by a check that said no; otherwise the server
\* decides at the launch.
canOpen == connect.access # "denied"

InFlight(i) == launch[i].phase \in {"asset", "profile", "ticket"}
Fresh == {i \in Launches : launch[i].phase = "none"}

\* The workspace mounts with an empty state of its own.
MountSessions(u) ==
    /\ page.mount < MaxMounts
    /\ page' = [at |-> "sessions", mount |-> page.mount + 1]
    /\ url' = [launch |-> u, consumed |-> None, clearing |-> FALSE]

openLive ==
    /\ page.at = "connect" /\ connect.asset # None /\ canOpen /\ Fresh # {}
    /\ MountSessions(connect.asset)
    /\ links' = [links EXCEPT !.followed = @ + 1]
    /\ connect' = [asset |-> None, access |-> "none"]
    /\ UNCHANGED <<ticket, launch, tabs, card, pane, loader>>

\* The sidebar link to the sessions page.
navigateSessions ==
    /\ page.at = "connect"
    /\ MountSessions(None)
    /\ connect' = [asset |-> None, access |-> "none"]
    /\ UNCHANGED <<ticket, links, launch, tabs, card, pane, loader>>

-----------------------------------------------------------------------------
\* The workspace.

\* launchTerminal.isPending: the last launch of this mount is under way.
Mine == {i \in Launches : launch[i].mount = page.mount /\ launch[i].phase # "none"}
isPending == Mine # {} /\ InFlight(CHOOSE i \in Mine : \A j \in Mine : j <= i)

\* React runs the effects of the mounted page before it handles an event.
EffectDue == page.at = "sessions" /\ url.launch # None /\ url.consumed # url.launch

mutate(a) ==
    /\ Fresh # {}
    /\ LET i == CHOOSE i \in Fresh : \A j \in Fresh : i <= j IN
           launch' = [launch EXCEPT ![i] = [asset |-> a, phase |-> "asset", mount |-> page.mount]]

\* Mutant: the rows of the rail stay enabled.
quickLaunchAlways(a) ==
    /\ page.at = "sessions" /\ ~EffectDue
    /\ mutate(a)
    /\ UNCHANGED <<ticket, page, view, tabs, card, pane, loader>>

\* A row of the rail; the rows are disabled while a launch is pending.
quickLaunch(a) ==
    /\ page.at = "sessions" /\ ~EffectDue /\ ~isPending
    /\ mutate(a)
    /\ UNCHANGED <<ticket, page, view, tabs, card, pane, loader>>

\* The dialog that launches an asset picked from a search.
launchSelectedAsset(a) ==
    /\ page.at = "sessions" /\ ~EffectDue /\ ~isPending
    /\ mutate(a)
    /\ UNCHANGED <<ticket, page, view, tabs, card, pane, loader>>

\* Mutant: the effect does not remember the link it has consumed.
autoLaunchUnmarked ==
    /\ EffectDue
    /\ mutate(url.launch)
    /\ url' = [url EXCEPT !.clearing = TRUE]
    /\ links' = [links EXCEPT !.launched = @ + 1]
    /\ UNCHANGED <<ticket, page, connect, tabs, card, pane, loader>>

\* The effect of a deep link.  It runs again at every render until the
\* parameters are gone from the URL.
autoLaunch ==
    /\ EffectDue
    /\ mutate(url.launch)
    /\ url' = [url EXCEPT !.consumed = url.launch, !.clearing = TRUE]
    /\ links' = [links EXCEPT !.launched = @ + 1]
    /\ UNCHANGED <<ticket, page, connect, tabs, card, pane, loader>>

setSearchParams ==
    /\ url.clearing
    /\ url' = [url EXCEPT !.launch = None, !.clearing = FALSE]
    /\ UNCHANGED <<ticket, page, connect, links, launch, tabs, card, pane, loader>>

-----------------------------------------------------------------------------
\* mutationFn of the launch: three calls, then onSuccess or onError.

Advance(i, phase) ==
    /\ launch' = [launch EXCEPT ![i].phase = phase]
    /\ UNCHANGED <<page, view, loader>>

getAsset(i) ==
    /\ launch[i].phase = "asset"
    /\ Advance(i, "profile")
    /\ UNCHANGED <<ticket, tabs, card, pane>>

\* The profile as the server has it decides the protocol; an asset without a
\* usable one is an error, and no ticket is asked for.
getAssetConnectionProfile(i) ==
    /\ launch[i].phase = "profile"
    /\ Advance(i, IF Launchable(Profile(launch[i].asset)) THEN "ticket" ELSE "failed")
    /\ UNCHANGED <<ticket, tabs, card, pane>>

\* The pane of a new tab mounts: its effect starts with the loader of its kind.
Mounted(kind) == [kind |-> kind, status |-> "connecting", conn |-> "loading"]

\* Mutant: a database ticket opens a tab.
issueTicketAnyTab(i) ==
    LET kind == Profile(launch[i].asset).kind
        here == page.at = "sessions" /\ launch[i].mount = page.mount
    IN
    /\ launch[i].phase = "ticket"
    /\ launch' = [launch EXCEPT ![i].phase = "done"]
    /\ ticket' = [ticket EXCEPT ![i] = "issued"]
    /\ IF here
       THEN /\ tabs' = [open |-> Append(tabs.open, i), active |-> i]
            /\ pane' = [pane EXCEPT ![i] = Mounted(kind)]
            /\ loader' = [loader EXCEPT ![kind] = IF @ = "none" THEN "loading" ELSE @]
       ELSE UNCHANGED <<tabs, pane, loader>>
    /\ card' = IF here /\ kind = "db" THEN i ELSE card
    /\ UNCHANGED <<page, view>>

\* The ticket is issued, and onSuccess opens the tab or the card, unless the
\* page that called the launch is gone.
issueTicket(i) ==
    LET kind == Profile(launch[i].asset).kind
        here == page.at = "sessions" /\ launch[i].mount = page.mount
    IN
    /\ launch[i].phase = "ticket"
    /\ launch' = [launch EXCEPT ![i].phase = "done"]
    /\ ticket' = [ticket EXCEPT ![i] = "issued"]
    /\ IF here /\ kind # "db"
       THEN /\ tabs' = [open |-> Append(tabs.open, i), active |-> i]
            /\ pane' = [pane EXCEPT ![i] = Mounted(kind)]
            /\ loader' = [loader EXCEPT ![kind] = IF @ = "none" THEN "loading" ELSE @]
       ELSE UNCHANGED <<tabs, pane, loader>>
    /\ card' = IF here /\ kind = "db" THEN i ELSE card
    /\ UNCHANGED <<page, view>>

launchFailed(i) ==
    /\ InFlight(i)
    /\ Advance(i, "failed")
    /\ UNCHANGED <<ticket, tabs, card, pane>>

closeDbAccess ==
    /\ card # 0
    /\ card' = 0
    /\ UNCHANGED <<ticket, page, view, launch, tabs, pane, loader>>

-----------------------------------------------------------------------------
\* Tabs and panes.

setActive(i) ==
    /\ i \in Range(tabs.open) /\ i # tabs.active
    /\ tabs' = [tabs EXCEPT !.active = i]
    /\ UNCHANGED <<ticket, page, view, launch, card, pane, loader>>

\* The cleanup of a pane's effect: it is disposed and its connection is closed.
Disposed(p) == [p EXCEPT !.status = "none",
                         !.conn = IF @ \in {"opening", "open"} THEN "closed" ELSE @]

\* Mutant: the closed tab stays the active one.
closeLiveSessionKeepingActive(i) ==
    LET next == RemoveFirst(tabs.open, i) IN
    /\ i \in Range(tabs.open)
    /\ tabs' = [open |-> next,
                active |-> tabs.active]
    /\ pane' = [pane EXCEPT ![i] = Disposed(@)]
    /\ UNCHANGED <<ticket, page, view, launch, card, loader>>

\* The filter by id: a launch has one tab (OneTabShown).
closeLiveSession(i) ==
    LET next == RemoveFirst(tabs.open, i) IN
    /\ i \in Range(tabs.open)
    /\ tabs' = [open |-> next,
                active |-> IF tabs.active # i THEN tabs.active
                           ELSE IF next = <<>> THEN 0 ELSE Head(next)]
    /\ pane' = [pane EXCEPT ![i] = Disposed(@)]
    /\ UNCHANGED <<ticket, page, view, launch, card, loader>>

\* The user leaves the workspace, or the session of the portal ends: the page
\* unmounts with all its panes.
leaveSessions ==
    /\ page.at = "sessions" /\ ~EffectDue /\ ~url.clearing
    /\ page' = [page EXCEPT !.at = "connect"]
    /\ url' = [launch |-> None, consumed |-> None, clearing |-> FALSE]
    /\ tabs' = [open |-> <<>>, active |-> 0]
    /\ card' = 0
    /\ pane' = [i \in Launches |-> Disposed(pane[i])]
    /\ UNCHANGED <<ticket, connect, links, launch, loader>>

\* The browser reloads the workspace: nothing of the page survives but the URL.
reload ==
    /\ page.at = "sessions" /\ ~EffectDue /\ ~url.clearing /\ page.mount < MaxMounts
    /\ page' = [page EXCEPT !.mount = @ + 1]
    /\ url' = [url EXCEPT !.consumed = None]
    /\ launch' = [i \in Launches |-> IF InFlight(i) THEN [launch[i] EXCEPT !.phase = "failed"] ELSE launch[i]]
    /\ tabs' = [open |-> <<>>, active |-> 0]
    /\ card' = 0
    /\ pane' = [i \in Launches |-> [Disposed(pane[i]) EXCEPT !.conn = IF @ = "loading" THEN "none" ELSE @]]
    /\ loader' = [k \in {"ssh", "rdp"} |-> "none"]
    /\ UNCHANGED <<ticket, connect, links>>

-----------------------------------------------------------------------------
\* The panes.

\* loadXterm and loadGuacamole: one promise, kept whether it succeeds or not.
loadScript(k) ==
    /\ loader[k] = "loading"
    /\ \E r \in {"ready", "failed"} : loader' = [loader EXCEPT ![k] = r]
    /\ UNCHANGED <<ticket, page, view, launch, tabs, card, pane>>

loadXterm == loadScript("ssh")
loadGuacamole == loadScript("rdp")

IsMounted(i) == i \in Range(tabs.open)

setStatus(i, status, conn) ==
    pane' = [pane EXCEPT ![i].conn = conn,
                         ![i].status = IF IsMounted(i) THEN status ELSE @]

UnchangedByPane == UNCHANGED <<page, view, launch, tabs, card, loader>>

\* Mutant: a disposed pane connects.
paneLoadedAnyway(i) ==
    /\ pane[i].conn = "loading" /\ loader[pane[i].kind] = "ready"
    /\ setStatus(i, "connecting", "opening")
    /\ UnchangedByPane /\ UNCHANGED ticket

\* After the await of openTerminal and openRdp: a pane that was disposed in the
\* meantime opens nothing.
paneLoaded(i) ==
    /\ pane[i].conn = "loading" /\ loader[pane[i].kind] = "ready"
    /\ setStatus(i, "connecting", IF IsMounted(i) THEN "opening" ELSE "none")
    /\ UnchangedByPane /\ UNCHANGED ticket

openTerminal(i) == pane[i].kind = "ssh" /\ paneLoaded(i)
openRdp(i) == pane[i].kind = "rdp" /\ paneLoaded(i)

\* Mutant: the failure of the loader is not shown.
paneLoadFailedUnseen(i) ==
    /\ pane[i].conn = "loading" /\ loader[pane[i].kind] = "failed"
    /\ setStatus(i, pane[i].status, "none")
    /\ UnchangedByPane /\ UNCHANGED ticket

paneLoadFailed(i) ==
    /\ pane[i].conn = "loading" /\ loader[pane[i].kind] = "failed"
    /\ setStatus(i, "error", "none")
    /\ UnchangedByPane /\ UNCHANGED ticket

\* Mutant: an end that was reported is forgotten when the socket opens.
openedAgain(i) ==
    /\ pane[i].conn \in {"opening", "closed"} /\ ticket[i] = "issued"
    /\ ticket' = [ticket EXCEPT ![i] = "used"]
    /\ setStatus(i, "connected", "open")
    /\ UnchangedByPane

\* The handshake, where the server redeems the ticket: ws.onopen, or client state 3.
opened(i) ==
    /\ pane[i].conn = "opening" /\ ticket[i] = "issued"
    /\ ticket' = [ticket EXCEPT ![i] = "used"]
    /\ setStatus(i, "connected", "open")
    /\ UnchangedByPane

onopen(i) == pane[i].kind = "ssh" /\ opened(i)
connected(i) == pane[i].kind = "rdp" /\ opened(i)

\* Mutant: the terminal has no onerror.
onerrorUnseen(i) ==
    /\ pane[i].kind = "ssh" /\ pane[i].conn \in {"opening", "open"}
    /\ setStatus(i, pane[i].status, "closed")
    /\ UnchangedByPane /\ UNCHANGED ticket

\* ws.onerror: the connection fails before or after the handshake.
onerror(i) ==
    /\ pane[i].kind = "ssh" /\ pane[i].conn \in {"opening", "open"}
    /\ setStatus(i, "error", "closed")
    /\ UnchangedByPane /\ UNCHANGED ticket

\* The pane sets no callback of the tunnel: one that breaks tells the Guacamole
\* client nothing.
tunnelBroken(i) ==
    /\ pane[i].kind = "rdp" /\ pane[i].conn \in {"opening", "open"}
    /\ setStatus(i, pane[i].status, "closed")
    /\ UnchangedByPane /\ UNCHANGED ticket

\* Frames of the terminal, after which the server closes.
errorFrame(i) ==
    /\ pane[i].kind = "ssh" /\ pane[i].conn = "open"
    /\ setStatus(i, "error", "open")
    /\ UnchangedByPane /\ UNCHANGED ticket

exitFrame(i) ==
    /\ pane[i].kind = "ssh" /\ pane[i].conn = "open"
    /\ setStatus(i, "closed", "open")
    /\ UnchangedByPane /\ UNCHANGED ticket

\* client.onerror: an error instruction makes the Guacamole client disconnect.
clientError(i) ==
    /\ pane[i].kind = "rdp" /\ pane[i].conn \in {"opening", "open"}
    /\ setStatus(i, "error", "closed")
    /\ UnchangedByPane /\ UNCHANGED ticket

\* ws.onclose: an end that was reported already stays.
onclose(i) ==
    /\ pane[i].kind = "ssh" /\ pane[i].conn = "open"
    /\ setStatus(i, IF pane[i].status \in {"error", "closed"} THEN pane[i].status
                    ELSE "disconnected", "closed")
    /\ UnchangedByPane /\ UNCHANGED ticket

\* Client state 5, DISCONNECTED.
disconnected(i) ==
    /\ pane[i].kind = "rdp" /\ pane[i].conn = "open"
    /\ setStatus(i, IF pane[i].status = "error" THEN "error" ELSE "disconnected", "closed")
    /\ UnchangedByPane /\ UNCHANGED ticket

\* The server: a ticket's 60 seconds are over before it is redeemed.
ticketExpires(i) ==
    /\ ticket[i] = "issued" /\ (pane[i].conn \in {"loading", "opening"} \/ card = i)
    /\ ticket' = [ticket EXCEPT ![i] = "expired"]
    /\ UnchangedByPane /\ UNCHANGED pane

PaneStep(i) ==
    \/ openTerminal(i) \/ openRdp(i) \/ paneLoadFailed(i)
    \/ onopen(i) \/ onerror(i) \/ errorFrame(i) \/ exitFrame(i) \/ onclose(i)
    \/ connected(i) \/ tunnelBroken(i) \/ clientError(i) \/ disconnected(i)

LaunchStep(i) ==
    getAsset(i) \/ getAssetConnectionProfile(i) \/ issueTicket(i) \/ launchFailed(i)

Next ==
    \/ \E a \in Assets : selectAsset(a) \/ quickLaunch(a) \/ launchSelectedAsset(a)
    \/ connectAccess \/ openLive \/ navigateSessions
    \/ autoLaunch \/ setSearchParams \/ closeDbAccess
    \/ \E i \in Launches : LaunchStep(i) \/ PaneStep(i) \/ ticketExpires(i)
    \/ \E i \in Launches : setActive(i) \/ closeLiveSession(i)
    \/ leaveSessions \/ reload
    \/ loadXterm \/ loadGuacamole

\* A script load, a handshake and a call of a launch end one way or the other.
Fairness ==
    /\ \A i \in Launches : WF_vars(LaunchStep(i))
    /\ \A i \in Launches : WF_vars(paneLoaded(i) \/ paneLoadFailed(i))
    /\ \A i \in Launches : WF_vars(pane[i].conn = "opening" /\ (opened(i) \/ onerror(i) \/ tunnelBroken(i)))
    /\ WF_vars(loadXterm) /\ WF_vars(loadGuacamole)

Spec == Init /\ [][Next]_vars /\ Fairness

-----------------------------------------------------------------------------
\* Every variable has its type.
TypeOK ==
    /\ ticket \in [Launches -> {"none", "issued", "used", "expired"}]
    /\ page \in [at : {"connect", "sessions"}, mount : 0..MaxMounts]
    /\ connect \in [asset : Assets \cup {None}, access : {"none", "loading", "error", "allowed", "denied"}]
    /\ url \in [launch : Assets \cup {None}, consumed : Assets \cup {None}, clearing : BOOLEAN]
    /\ launch \in [Launches -> [asset : Assets \cup {None}, mount : 0..MaxMounts,
                                phase : {"none", "asset", "profile", "ticket", "done", "failed"}]]
    /\ tabs.open \in Seq(Launches) /\ tabs.active \in 0..MaxLaunches
    /\ card \in 0..MaxLaunches
    /\ pane \in [Launches -> [kind : {None, "ssh", "rdp"},
                              status : {"none", "connecting", "connected", "error", "closed", "disconnected"},
                              conn : {"none", "loading", "opening", "open", "closed"}]]
    /\ loader \in [{"ssh", "rdp"} -> {"none", "loading", "ready", "failed"}]

\* A connection is held only by a tab that is open: a tab closed while its
\* scripts still load, a launch that lands after the page was left, and leaving
\* the page with tabs open leave no connection to a host behind (the disposed
\* flag and the cleanup of the panes' effects).
NoOrphanConnection ==
    \A i \in Launches : pane[i].conn \in {"opening", "open"} => IsMounted(i)

\* While there are tabs one of them is shown, in whatever order they open and
\* close, and a tab is listed once (closeLiveSession, onSuccess of the launch).
OneTabShown ==
    /\ IF tabs.open = <<>> THEN tabs.active = 0 ELSE tabs.active \in Range(tabs.open)
    /\ IsInjective(tabs.open)

\* The status of a tab is that of its connection.  The exception is a tunnel
\* that breaks under an RDP pane, which keeps the status it had.
StatusOfConnection ==
    \A i \in Range(tabs.open) :
        /\ pane[i].status = "connected" /\ pane[i].kind = "ssh" => pane[i].conn = "open"
        /\ pane[i].status = "connecting" /\ pane[i].kind = "ssh" => pane[i].conn \in {"loading", "opening"}
        /\ pane[i].status = "disconnected" => pane[i].conn = "closed"
        /\ pane[i].conn = "open" => ticket[i] = "used"

\* Tabs and connections belong together: none without the other, and each tab
\* says what its connection does.
TabsOwnConnections == TypeOK /\ NoOrphanConnection /\ OneTabShown /\ StatusOfConnection

\* A tab that has reported an end never shows itself connected again.
EndIsFinal ==
    [][\A i \in Launches :
          pane[i].status \in {"error", "closed", "disconnected"} =>
              pane'[i].status \notin {"connecting", "connected"}]_vars

\* A deep link starts at most one launch, however often the page renders before
\* the parameters are gone and whether or not it is reloaded afterwards
\* (consumedLaunchKeyRef and setSearchParams).
DeepLinkLaunchesOnce == links.launched <= links.followed

\* The mounted workspace has one launch under way at most, from whichever of the
\* rail, the dialog and the deep link it was started.
OneLaunchPending == Cardinality({i \in Mine : InFlight(i) /\ page.at = "sessions"}) <= 1

\* A launch is made once: one for a deep link, one at a time in the workspace.
LaunchedOnce == DeepLinkLaunchesOnce /\ OneLaunchPending

\* An SSH tab does not stay "connecting": it connects, reports an error, or is
\* closed, even when the terminal's scripts cannot be loaded.
ConnectingEnds ==
    \A i \in Launches :
        (IsMounted(i) /\ pane[i].kind = "ssh" /\ pane[i].status = "connecting")
            ~> ~(IsMounted(i) /\ pane[i].status = "connecting")

\* An SSH tab gets out of "connecting", and an end that any tab has reported is
\* final.  (An RDP tab whose tunnel breaks while it opens stays "connecting".)
TabsEnd == EndIsFinal /\ ConnectingEnds
=============================================================================
