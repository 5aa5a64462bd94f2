----------------------------- MODULE PortalAudit -----------------------------
(***************************************************************************)
(* The audit page (features/audit/AuditPage.tsx): the filters, which a     *)
(* link of another page may set, the inspection of a recording, and the    *)
(* player of RDP recordings (RdpRecordingPlayer.tsx).  db is fixed: what   *)
(* kind of recording each session has, as detectRecordingKind finds it.    *)
(***************************************************************************)
EXTENDS PortalPage

CONSTANTS Users, Recordings

None == "none"
Mutations == {"inspect"}

emptyFilters == [user |-> None, status |-> "all"]
Filters == [user : Users \cup {None}, status : {"all", "error"}]

\* The links with parameters; NoParams is the link of the side bar.
NoParams == emptyFilters
Links == Filters \ {NoParams}

\* A player that has just been mounted.  scripted: the player library is there
\* and the recording is opened; playing: what the recording does; button: what
\* the button says; replaced: another recording took the place of a playing one.
NewPlayer == [state |-> "loading", scripted |-> FALSE, loaded |-> FALSE, playing |-> FALSE,
              button |-> FALSE, replaced |-> FALSE]

\* The page mounts with the filters of its link, if that has parameters.
Init ==
    /\ db \in [kind : [Recordings -> {"asciicast", "guac"}]]
    /\ cache = db
    /\ m = [x \in Mutations |-> Idle]
    /\ \E url \in Filters, all \in BOOLEAN :
           ui = [readAll |-> all, url |-> url, filters |-> url, draft |-> url, edited |-> FALSE,
                 inspected |-> None, player |-> NewPlayer, calls |-> 0]

\* Mutant: a link that is followed on the open page sets the form only.
SeedDraftOnly(link) ==
    IF link = ui.url THEN ui
    ELSE IF link = NoParams THEN [ui EXCEPT !.url = link]
    ELSE [ui EXCEPT !.url = link, !.draft = link, !.edited = FALSE]

\* The effect on searchParams, which stay the same object while the search
\* string does: the same link followed again changes nothing.
SeedFilters(link) ==
    IF link = ui.url THEN ui
    ELSE IF link = NoParams THEN [ui EXCEPT !.url = link]
    ELSE [ui EXCEPT !.url = link, !.filters = link, !.draft = link, !.edited = FALSE]

navigate(link) ==
    /\ ui' = SeedFilters(link)
    /\ UNCHANGED <<db, cache, m>>

\* The user filter is offered only to those who read all sessions.
updateFilter ==
    /\ \E f \in Filters \ {ui.draft} :
           /\ f.user # ui.draft.user => ui.readAll
           /\ ui' = [ui EXCEPT !.draft = f, !.edited = TRUE]
    /\ UNCHANGED <<db, cache, m>>

applyFilters ==
    /\ ui' = [ui EXCEPT !.filters = [ui.draft EXCEPT !.user = IF ui.readAll THEN @ ELSE None],
                        !.edited = TRUE]
    /\ UNCHANGED <<db, cache, m>>

resetFilters ==
    /\ ui' = [ui EXCEPT !.filters = emptyFilters, !.draft = emptyFilters, !.edited = TRUE]
    /\ UNCHANGED <<db, cache, m>>

-----------------------------------------------------------------------------
\* Inspecting a recording; the buttons of all rows wait for the one under way.

inspect(r) ==
    /\ ~isPending("inspect")
    /\ mutate("inspect", r)
    /\ UNCHANGED <<db, cache>>

getSessionRecording ==
    /\ m["inspect"].phase = "sent"
    /\ Executed("inspect", Undefined)
    /\ UNCHANGED <<db, cache, ui>>

playerShown == ui.inspected # None /\ db.kind[ui.inspected] = "guac"

\* The effect on blob: its cleanup detaches the callbacks before it pauses the
\* old recording; the fields of the component keep their values.
blobChanged == [ui.player EXCEPT !.scripted = FALSE, !.loaded = FALSE, !.playing = FALSE,
                                 !.replaced = @ \/ ui.player.playing]

inspectRecording ==
    LET r == m["inspect"].arg IN
    /\ m["inspect"].phase = "done"
    /\ ui' = [ui EXCEPT !.inspected = r,
                        !.player = IF playerShown /\ db.kind[r] = "guac" THEN blobChanged ELSE NewPlayer]
    /\ Ended("inspect")
    /\ UNCHANGED <<db, cache>>

closeInspected ==
    /\ ui.inspected # None
    /\ ui' = [ui EXCEPT !.inspected = None, !.player = NewPlayer]
    /\ UNCHANGED <<db, cache, m>>

-----------------------------------------------------------------------------
\* The player.

setPlayer(p) ==
    /\ playerShown
    /\ ui' = [ui EXCEPT !.player = p]
    /\ UNCHANGED <<db, cache, m>>

openRecording ==
    /\ ~ui.player.scripted
    /\ \E ok \in BOOLEAN : setPlayer(IF ok THEN [ui.player EXCEPT !.scripted = TRUE]
                                     ELSE [ui.player EXCEPT !.state = "error"])

onload ==
    /\ ui.player.scripted /\ ~ui.player.loaded
    /\ setPlayer([ui.player EXCEPT !.loaded = TRUE, !.state = "ready"])

onerror ==
    /\ ui.player.scripted /\ ~ui.player.loaded
    /\ setPlayer([ui.player EXCEPT !.state = "error"])

\* Mutant: the button is not told.
onplayUnseen(on) == [ui.player EXCEPT !.playing = on, !.replaced = FALSE]

\* onplay and onpause, which the recording calls.
onplay(on) == [ui.player EXCEPT !.playing = on, !.button = on, !.replaced = FALSE]

\* A recording that is not loaded may have frames to play already.
togglePlay ==
    /\ ui.player.scripted /\ ui.player.state = "ready"
    /\ setPlayer(onplay(~ui.player.playing))

playedToTheEnd ==
    /\ ui.player.playing
    /\ setPlayer(onplay(FALSE))

Next ==
    \/ \E link \in Filters : navigate(link)
    \/ updateFilter \/ applyFilters \/ resetFilters
    \/ \E r \in Recordings : inspect(r)
    \/ getSessionRecording \/ inspectRecording \/ MutationFailed("inspect") \/ closeInspected
    \/ openRecording \/ onload \/ onerror \/ togglePlay \/ playedToTheEnd

-----------------------------------------------------------------------------
TypeOK ==
    /\ ui.filters \in Filters /\ ui.draft \in Filters /\ ui.url \in Filters
    /\ ui.inspected \in Recordings \cup {None}
    /\ ui.player \in [state : {"loading", "ready", "error"}, scripted : BOOLEAN, loaded : BOOLEAN,
                      playing : BOOLEAN, button : BOOLEAN, replaced : BOOLEAN]

\* A link with parameters decides what the page lists and what its form shows,
\* until the operator changes the filters: following another link while the
\* page is open seeds both again.
LinkApplied == ui.url \in Links /\ ~ui.edited => ui.filters = ui.url /\ ui.draft = ui.url

\* The button of the player says Pause exactly while the recording plays,
\* unless another recording took the place of one that was playing.
ButtonTruthful == playerShown /\ ~ui.player.replaced => ui.player.button = ui.player.playing
=============================================================================
