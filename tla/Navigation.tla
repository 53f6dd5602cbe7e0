------------------------------ MODULE Navigation ------------------------------
(***************************************************************************)
(* One page of the client: which session it is in, what it shows, and what   *)
(* the address bar says of both.                                            *)
(*                                                                         *)
(* The router keeps its views in memory and never looks at the address; the  *)
(* room and the track in the editor are written into it by hand              *)
(* (sync/roomId.ts), and read back from it when the page boots, when the       *)
(* browser goes through its history, and when it takes the page out of its     *)
(* cache (sync/reconcileSession.ts, App.vue).  The name of the room and the    *)
(* settings panel come over HTTP, and their answers meet a page that may have  *)
(* gone elsewhere.                                                         *)
(*                                                                         *)
(* An event's handler and the watchers it wakes run before the next event,    *)
(* so they make one step.  A name is the room it was typed for.              *)
(***************************************************************************)
EXTENDS Naturals, Sequences, SequencesExt

CONSTANTS
  Room,
  Track,        \* slots of the pool that links and editors name
  FreshTracks,  \* those of them a fresh project has enabled
  Nowhere,      \* null: no room, the overview, no name
  MaxEntries,   \* bound: entries of the browser's history
  MaxPatches    \* bound: saves of the settings panel in flight

ASSUME NavigationAssumption ==
  /\ Nowhere \notin Room \cup Track
  /\ FreshTracks \subseteq Track

VARIABLES
  app,        \* the page: history, view, session, the editor's track, the project's tracks
  shownName,  \* sessionName, in the app bar
  fetches,    \* rooms whose name has been asked for
  panel,      \* the settings panel of the studio that is mounted
  patches,    \* saves of settings panels on their way
  strayed,    \* rooms that a panel of another room has been saved to
  late        \* whether a save has been answered in a room it was not sent to

navigationVars == <<app, shownName, fetches, panel, patches, strayed, late>>

Url(room, track) == [room |-> room, track |-> track]
Roomless == Url(Nowhere, Nowhere)
Address(s) == s.entries[s.at]

\* pushState forgets what lay ahead.
SetUrl(s, url, mode) ==
  IF mode = "push"
  THEN [s EXCEPT !.entries = Append(SubSeq(@, 1, s.at), url), !.at = @ + 1]
  ELSE [s EXCEPT !.entries[s.at] = url]

\* connectToSession.  A page restored from the cache could ask for a connection to the
\* room it is in already; it never does, since pagehide has closed its session.
ConnectTo(s, room, mode) ==
  LET here == s.room = room
      t    == SetUrl([s EXCEPT !.focused = Nowhere], Url(room, Nowhere), IF here THEN "replace" ELSE mode)
  IN IF here THEN t
     ELSE [t EXCEPT !.room = room, !.enabled = FreshTracks, !.fatal = FALSE]

\* SyncSession.disconnect
Disconnected(s) == [s EXCEPT !.room = Nowhere, !.fatal = FALSE]

\* A leaveSession that leaves the address as it is.
LeaveKeepingUrl(s) == [Disconnected(s) EXCEPT !.enabled = FreshTracks, !.focused = Nowhere]

\* leaveSession
LeaveSession(s) ==
  SetUrl([Disconnected(s) EXCEPT !.enabled = FreshTracks, !.focused = Nowhere], Roomless, "replace")

\* applyFocusedTrack: address and editor together.
ApplyFocusedTrack(s, track, mode) ==
  LET t == IF s.room = Nowhere THEN s ELSE SetUrl(s, Url(s.room, track), mode)
  IN [t EXCEPT !.focused = track]

\* reconcileSessionToUrl.  The track is read before connecting strips it.
Reconciled(s) ==
  LET url    == Address(s)
      inRoom == IF url.room = s.room THEN s ELSE ConnectTo(s, url.room, "replace")
  IN IF url.room # Nowhere
     THEN ApplyFocusedTrack([inRoom EXCEPT !.view = "studio"], url.track, "replace")
     ELSE [(IF s.room # Nowhere THEN LeaveSession(s) ELSE s) EXCEPT !.view = "lobby"]

\* The watcher in App.vue: who lands in the lobby leaves the room.
Landed(old, s) ==
  IF s.view = "lobby" /\ old.view # "lobby" /\ s.room # Nowhere THEN LeaveSession(s) ELSE s

\* The watcher in StudioView.vue: a focused track that is disabled under the editor closes
\* it.  It compares with what it saw last, and lives as long as the studio is shown.
EditorChecked(old, s) ==
  LET stillEnabled == s.focused = Nowhere \/ s.focused \in s.enabled
  IN IF s.view # "studio" THEN [s EXCEPT !.seen = TRUE]
     ELSE IF old.view = "studio" /\ old.seen /\ ~stillEnabled
     THEN [ApplyFocusedTrack(s, Nowhere, "replace") EXCEPT !.seen = TRUE]
     ELSE [s EXCEPT !.seen = stillEnabled]

ClosedPanel == [open |-> FALSE, meta |-> Nowhere, asked |-> {}, saving |-> FALSE]

\* The page as the handler leaves it, seen by the watchers.  A change of room clears the
\* name and asks for the new one; a studio that goes away takes its panel with it.
Step(s) ==
  /\ app' = EditorChecked(app, Landed(app, s))
  /\ IF app'.room = app.room
     THEN UNCHANGED <<shownName, fetches, late>>
     ELSE /\ shownName' = Nowhere
          /\ fetches' = fetches \cup ({app'.room} \ {Nowhere})
          /\ late' = FALSE
  /\ IF app'.view = "studio"
     THEN UNCHANGED <<panel, patches>>
     ELSE /\ panel' = ClosedPanel
          /\ patches' = [n \in DOMAIN patches |-> [patches[n] EXCEPT !.mounted = FALSE]]
  /\ UNCHANGED strayed

-----------------------------------------------------------------------------
(* Documents *)

BlankPage(entries, at) ==
  [entries |-> entries, at |-> at, view |-> "none", room |-> Nowhere, focused |-> Nowhere,
   enabled |-> FreshTracks, fatal |-> FALSE, seen |-> TRUE]

\* onMounted
Booted(entries, at) ==
  LET blank == BlankPage(entries, at) IN EditorChecked(blank, Reconciled(blank))

InitNavigation ==
  /\ \E room \in Room, track \in Track \cup {Nowhere} :
       app \in {Booted(<<Roomless>>, 1), Booted(<<Url(room, track)>>, 1)}
  /\ shownName = Nowhere
  /\ fetches = {app.room} \ {Nowhere}
  /\ panel = ClosedPanel
  /\ patches = <<>>
  /\ strayed = {}
  /\ late = FALSE

\* A new document: nothing of the old one's is answered any more.
NewDocument(entries, at) ==
  /\ app' = Booted(entries, at)
  /\ shownName' = Nowhere
  /\ fetches' = {app'.room} \ {Nowhere}
  /\ panel' = ClosedPanel
  /\ patches' = <<>>
  /\ late' = FALSE
  /\ UNCHANGED strayed

ReloadPage == NewDocument(app.entries, app.at)

\* ErrorOverlay's way out of a full room.
GoToNewRoom ==
  /\ app.fatal
  /\ app.at < MaxEntries
  /\ NewDocument(Append(SubSeq(app.entries, 1, app.at), Roomless), app.at + 1)

\* The page is frozen, which shuts its session down, and comes back (pagehide, pageshow).
RestoreFromCache ==
  /\ app' = EditorChecked(app, Landed(app, Reconciled(Disconnected(app))))
  /\ shownName' = Nowhere
  /\ fetches' = {app'.room} \ {Nowhere}
  /\ panel' = IF app'.view = "studio" THEN [panel EXCEPT !.asked = {}, !.saving = FALSE] ELSE ClosedPanel
  /\ patches' = <<>>
  /\ late' = FALSE
  /\ UNCHANGED strayed

\* Back, Forward, or a jump through the history.
Traverse(n) ==
  /\ n # app.at
  /\ Step(Reconciled([app EXCEPT !.at = n]))

-----------------------------------------------------------------------------
(* The player.  A fatal error's overlay covers the page. *)

\* A session of the lobby's list, or one just created.
Join(room) ==
  /\ app.view = "lobby" /\ ~app.fatal
  /\ app.at < MaxEntries
  /\ Step([ConnectTo(app, room, "push") EXCEPT !.view = "studio"])

\* Leave session, in the sidebar.
Leave ==
  /\ app.room # Nowhere /\ ~app.fatal
  /\ Step([LeaveSession(app) EXCEPT !.view = "lobby"])

\* The links of the sidebar.
ShowView(view) ==
  /\ view # app.view /\ ~app.fatal
  /\ view = "studio" => app.room # Nowhere
  /\ Step([app EXCEPT !.view = view])

SelectTrack(track) ==
  /\ app.view = "studio" /\ ~app.fatal
  /\ IF track = Nowhere
     THEN app.focused # Nowhere
     ELSE app.focused = Nowhere /\ track \in app.enabled /\ app.at < MaxEntries
  /\ Step(ApplyFocusedTrack(app, track, IF track = Nowhere THEN "replace" ELSE "push"))

-----------------------------------------------------------------------------
(* The room *)

\* The catch-up, or an edit by anybody that adds or removes tracks.
TracksChange(enabled) ==
  /\ app.room # Nowhere /\ ~app.fatal
  /\ Step([app EXCEPT !.enabled = enabled])

\* session.not_found, for a session that was deleted or pruned: back to the lobby.
NotFound ==
  /\ app.room # Nowhere /\ ~app.fatal
  /\ Step([LeaveSession(app) EXCEPT !.view = "lobby"])

\* Any other fatal error: the overlay, over a page that stays where it is.
FatalError ==
  /\ app.room # Nowhere /\ ~app.fatal
  /\ Step([app EXCEPT !.fatal = TRUE])

-----------------------------------------------------------------------------
(* Over HTTP *)

\* What the server may have as the name of a room.
NameOf(room) == IF room \in strayed THEN Room ELSE {room}

\* An answer that is shown wherever the page is.
AnswerUnguarded(room) ==
  /\ fetches' = fetches \ {room}
  /\ shownName' \in NameOf(room)
  /\ UNCHANGED <<app, panel, patches, strayed, late>>

\* The name arrives, if the page is still in the room it asked for.
NameAnswered(room) ==
  /\ fetches' = fetches \ {room}
  /\ shownName' \in IF app.room = room THEN NameOf(room) ELSE {shownName}
  /\ UNCHANGED <<app, panel, patches, strayed, late>>

\* getSession fails, or finds no session, and no name is shown.
NameFailed(room) ==
  /\ fetches' = fetches \ {room}
  /\ UNCHANGED <<app, shownName, panel, patches, strayed, late>>

OpenSettings ==
  /\ app.view = "studio" /\ ~app.fatal /\ ~panel.open
  /\ panel.asked = {}
  /\ panel' = [panel EXCEPT !.open = TRUE, !.meta = Nowhere, !.asked = {app.room}]
  /\ UNCHANGED <<app, shownName, fetches, patches, strayed, late>>

CloseSettings ==
  /\ panel.open /\ ~app.fatal
  /\ panel' = [panel EXCEPT !.open = FALSE]
  /\ UNCHANGED <<app, shownName, fetches, patches, strayed, late>>

\* The settings arrive, or an error does; they are shown whatever room the page is in by now.
SettingsAnswered(room) ==
  /\ \E meta \in {panel.meta, room} : panel' = [panel EXCEPT !.asked = @ \ {room}, !.meta = meta]
  /\ UNCHANGED <<app, shownName, fetches, patches, strayed, late>>

\* saveMeta: the name in the panel is sent to the room the page is in.
SaveMeta ==
  /\ panel.open /\ panel.meta # Nowhere /\ ~panel.saving /\ ~app.fatal
  /\ Len(patches) < MaxPatches
  /\ patches' = Append(patches, [to |-> app.room, name |-> panel.meta, mounted |-> TRUE])
  /\ panel' = [panel EXCEPT !.saving = TRUE]
  /\ strayed' = IF panel.meta = app.room THEN strayed ELSE strayed \cup {app.room}
  /\ UNCHANGED <<app, shownName, fetches, late>>

\* The save has taken effect: the app bar shows it at once.
SaveAnswered(n) ==
  /\ patches' = RemoveAt(patches, n)
  /\ shownName' = patches[n].name
  /\ late' = (late \/ patches[n].to # app.room)
  /\ panel' = IF patches[n].mounted THEN [panel EXCEPT !.open = FALSE, !.saving = FALSE] ELSE panel
  /\ UNCHANGED <<app, fetches, strayed>>

\* The save fails, though it may have taken effect.
SaveFailed(n) ==
  /\ patches' = RemoveAt(patches, n)
  /\ panel' = IF patches[n].mounted THEN [panel EXCEPT !.saving = FALSE] ELSE panel
  /\ UNCHANGED <<app, shownName, fetches, strayed, late>>

NextNavigation ==
  \/ ReloadPage \/ GoToNewRoom \/ RestoreFromCache
  \/ \E n \in 1..Len(app.entries) : Traverse(n)
  \/ \E room \in Room : Join(room)
  \/ Leave
  \/ \E view \in {"lobby", "studio", "account"} : ShowView(view)
  \/ \E track \in Track \cup {Nowhere} : SelectTrack(track)
  \/ \E enabled \in SUBSET Track \ {{}} : TracksChange(enabled)
  \/ NotFound \/ FatalError
  \/ \E room \in fetches : NameAnswered(room) \/ NameFailed(room)
  \/ OpenSettings \/ CloseSettings
  \/ \E room \in panel.asked : SettingsAnswered(room)
  \/ SaveMeta
  \/ \E n \in DOMAIN patches : SaveAnswered(n) \/ SaveFailed(n)

NavigationSpec == InitNavigation /\ [][NextNavigation]_navigationVars
-----------------------------------------------------------------------------
(* Properties *)

\* The address bar, the session and the view agree, wherever links, history jumps, reloads,
\* the page cache, removed tracks and fatal errors have taken the page: the address names
\* the room the page is in and the track in the editor, the lobby is nobody's room, and the
\* studio is somebody's (reconcileSession.ts: "the single source of URL -> session truth").
PageMatchesAddress ==
  /\ Address(app) = Url(app.room, app.focused)
  /\ app.view = "lobby" => app.room = Nowhere
  /\ app.view = "studio" => app.room # Nowhere

\* The name in the app bar is that of the room the page is in, though answers come late and the
\* page moves on (App.vue: "Race-guarded against a room switch mid-fetch").  saveMeta has no
\* such guard: excused are a room that another room's panel was saved to, and, until it changes
\* its room, a page that the answer of another room's save has reached.
NameIsRooms == shownName # Nowhere /\ ~late => shownName = app.room \/ app.room \in strayed

\* In every state the page shows what its address says, and calls it by the room's name.
PageIsWhereItSays == PageMatchesAddress /\ NameIsRooms
=============================================================================
