# browser-synth in TLA+

browser-synth is a step sequencer and synthesizer that several people play together in
their browsers. A small Node server (`packages/server`) holds one authoritative project per
session and fans every change out; each browser tab (`packages/client`) edits its own copy
at once and reconciles it with the server's order. `packages/shared` holds the project
schema and the messages both sides speak. `packages/audio-lab` renders the engines offline
and measures what they do.

This directory models the part of that system in which something can go wrong that no test
is likely to reach: the order in which edits, echoes, reconnects, timers, database answers,
callbacks, hits and crashes meet. Line numbers below are those of the source files named.

## The system

| Component | State | Operations | Talks to |
|---|---|---|---|
| Room document store (`server/src/room`) | project, op log (ring buffer of 1000), dedup index, next opId, dirty flag and version | `getOrCreate`, `appendOp`, `findDuplicate`, `getOpsSince`, `replaceProject`, `clearDirty` | called by the connection handler and the session sync |
| Connection handler and room life cycle (`server/src/sync`, `routes/ws.ts`, the second half of `InMemoryRoomStore`) | sockets in the pool, where each hello waits, clientId per socket, identity registry, presence, grace timer, expiry chain | open, hello (capacity, grace, resume, load, auth, welcome, catch-up), set, load, close, heartbeat | store, session sync, all sockets of the pool |
| Session persistence (`server/src/session`, `server.ts`) | session row and snapshot in Postgres, sweep-running flag, queries under way | load, disconnect flush, autosave sweep, end-of-life flush and guest prune, stale-guest sweep, shutdown | Postgres through a pool, the store |
| Session and preset routes (`server/src/routes`) | rows of sessions, snapshots and presets | create, list, read, rename, publish, delete | Postgres, rooms |
| Rate limits (`server/src/sync/rate-limit.ts`, `routes/rate-limit.ts`) | a bucket per key: tokens, last refill | take, forget the oldest key | connection handler, routes |
| Client sync core (`client/src/sync`) | socket state, watermark, per-path watermark, outbox tiers (throttled, in flight, offline), outbound gate | local edit, throttle, flush, ack timeout and resend, close, catch-up, echo, nack | the server over one WebSocket, the project store |
| Connection of a tab (`SyncSession.ts`, `WsClient.ts`, `auth/useAuth.ts`) | the session's client, each client's socket and two timers, sign-in state | connect, disconnect, reconnect, resync, re-handshake after a sign-in | server, sign-in provider |
| Bulk load (`client/src/sync/LoadTracker.ts`) | one load in flight, its prior project | begin, resend, time out, roll back, be superseded | client sync core |
| Identities and presence (`server/src/room/identity.ts`, `client/src/sync/presence.ts`) | identities, who is connected, each tab's peers and rings of touch | hello, close, roster broadcast, touch, sweep | connection handler |
| Project as a document (`shared/src/project`, `client/src/project`) | the project in a room, a row, a file | validate and set a leaf, normalise, pack, unpack, reconcile, save, open | both sides, Postgres, disk |
| Project operations (`client/src/app/projectOps.ts`, `project/mutations.ts`, `paramDiff.ts`) | none | user actions to the leaf ops in which the wanted state differs | command bus |
| Undo history (`client/src/app/undoHistory.ts`) | undo and redo stacks of 100 bursts, merge key of the open drag | record, seal, end of a gesture, undo, redo, clear | command bus |
| Selection, clipboard and tracker commands (`client/src/stores`, `keyboard/trackerCommands.ts`, `components/Tracker.vue`) | track, anchor, head and frozen rows; copied span | place, extend, toggle, cursor keys, copy, cut, clear, paste, mute, move | project store, project operations |
| Keyboard (`client/src/keyboard`) | registered commands, listener | register, dispose, keydown | selection, history, transport, dialogs |
| Views (`client/src/views`, `components`, `composables`, `dialogs`) | address and view, questions and drafts, drag of a card, draft of a field, list of sessions | navigate, ask and answer, drag and drop, type and commit, poll | all of the above |
| Sequencer (`client/src/sequencer`) | anchor of the schedule, next step | look-ahead tick, tempo change, start, stop | clock, audio engine |
| Audio engine (`client/src/audio`, `client/src/engine`) | context, engine and gain per slot, fades under way | boot, follow applied commands, swap, dispose | Web Audio, worklets |
| Worklet kernels (`client/src/engine/*2/kernel`) | ring of hits, voices and envelopes | note on, render a block | message port, audio thread |
| Audio lab (`audio-lab/src/audit`) | one check's clips and verdict | render, measure, judge | engines |
| Telemetry | | observes | |

How they interact. A tab opens a socket; the server puts it in the room's pool at once, so
broadcasts reach it before its hello is answered. The hello names the opId the tab resumes
from; the server replays the ops since then if its log reaches back far enough and sends a
snapshot otherwise, then `sync.complete`. From there an edit is written locally, throttled
or sent, applied and logged by the server under the next opId, and broadcast to everybody,
the sender included (its echo is the ack). A whole project goes as one load, whose echo is a
snapshot for all. The last socket to leave arms a grace timer; when it fires, the room is
flushed, a guest session is deleted, and the room is pruned. In between a sweep saves dirty
rooms. On the page every applied command, own or others', is seen by the history, the audio
engine and the views; the sequencer hands steps to the engines ahead of time, and the audio
thread renders them whatever the page does.

What is hard, and where it bites, is the list of hazards in `PROJECT.json`. In short:

* **Store.** The ring buffer, the dedup index and the op counter are three structures kept
  in step by hand; the edge of the buffer decides whether a reconnecting client gets the
  right ops. Correct: opIds contiguous, index and log hold the same ops, a replay is offered
  exactly when it is complete, a resend inside the window is applied once.
* **Life cycle.** A hello has up to five awaits; sockets close, timers fire and the expiry
  chain runs in any of them. Correct: a welcomed client has a room, nothing is pruned under
  a hello, the cap holds, every hello is answered.
* **Persistence.** Flushes, sweeps and deletions are concurrent database queries. Correct: a
  clean room is a saved room, a deleted session stays deleted, edits are saved in the end.
* **Routes.** A request is several statements, with anything between them. Correct: what was
  confirmed is there whole, and what was deleted leaves no trace.
* **Client sync and loads.** Optimistic writes, throttling, resends, reconnects and snapshots
  touch the same paths. Correct: quiet tabs show what the server holds; no edit is lost.
* **Connection, presence.** Timers, promises and sockets outlive what made them. Correct: what
  a page shows is the connection of where it is; a roster shows nobody who left, and everybody
  who is there once hellos that ran alone are over.
* **Documents.** Leaf writes, each legal, rows of older releases and files edited by hand all
  become projects. Correct: a room's project is always one the schema takes, and comes back
  from its row and its file.
* **Undo history.** Entries name values that peers, rollbacks, later entries and earlier undos
  have replaced since. Correct: on leaves nobody else wrote the stacks lead back and forth
  through the player's own values; an undo taken back at once changes nothing.
* **Under the hand.** Selections, drags, drafts, questions and keys outlive the state they were
  begun on: anybody may shorten the pattern, remove the track or replace the project in
  between. Correct: what is done is what was shown.
* **Sound.** Late ticks, tempo changes, stolen voices, swaps, fades and hidden pages. Correct:
  steps come once and on time, notes end and do not click, the graph follows the project and
  goes down whole.

## Modules

| Module | Models | Code |
|---|---|---|
| `RoomStore` | the document half of the store, as operators on a room record | `InMemoryRoomStore.ts`, `RoomStore.ts` |
| `RoomLog` | one room under sets, resends and loads, with a ledger of what took each opId | `RoomStore` through `ConnectionHandler.ts` |
| `RoomLifecycle` | sockets, hello, grace, expiry chain, prune | `ConnectionHandler.ts`, `ConnectionPool.ts`, `routes/ws.ts`, `InMemoryRoomStore.ts`, `SessionSync.ts` |
| `SessionSync` | one room and its durable session over a database with several connections | `SessionSync.ts`, `server.ts`, `PostgresSessionStore.ts` |
| `Library` | the session and preset routes, statement by statement | `routes/sessions.ts`, `routes/presets.ts`, the Postgres stores |
| `TokenBuckets` | the limiters | `routes/rate-limit.ts`, `sync/rate-limit.ts` |
| `ClientSync` | browser tabs, their outboxes and connections, against the room of `RoomStore` | `WsClient.ts`, `Outbox.ts`, `CommandBus.ts`, `messageDispatch.ts`, `SyncSession.ts`, `ConnectionHandler.ts` |
| `BulkLoad` | whole-project loads over the tabs of `ClientSync` | `LoadTracker.ts`, `projectOps.ts`, `ConnectionHandler.ts` |
| `Connection` | sessions, WebSocket clients, sockets and timers of one page | `SyncSession.ts`, `WsClient.ts`, `useAuth.ts` |
| `Presence` | identities, rosters, rings of touch | `identity.ts`, `ConnectionHandler.ts`, `presence.ts` |
| `Documents` | schema, accept list, repairs, the row and the file | `shared/src/project`, `client/src/project` |
| `UndoHistory` | one player's undo and redo stacks over a project that others write too | `undoHistory.ts`, `AppRuntime.ts`, `synthContext.ts` |
| `Tracker` | selection, clipboard and operations on steps over the same | `selection.ts`, `stepClipboard.ts`, `trackerCommands.ts`, `mutations.ts`, `projectOps.ts`, `Tracker.vue` |
| `Patches` | presets, patches and whole projects sent leaf by leaf | `projectOps.ts`, `paramDiff.ts`, `preset.ts` |
| `Keyboard` | which command a key reaches | `KeyboardService.ts`, `useKeyboardCommand.ts`, `main.ts` |
| `Navigation`, `Lobby`, `Dialogs`, `Rack`, `Controls` | address and views; polling and creating; questions and their answers; the cards and their order; fields, names and knobs | `roomId.ts`, `reconcileSession.ts`, `App.vue`, `useLobby.ts`, `useDialog.ts`, `StudioView.vue`, `Knob.vue` and others |
| `StepClock` | what the transport promises | |
| `Sequencer` | the transport, which implements it | `Sequencer.ts` |
| `SoundKernels`, `Playback` | the worklet kernels; transport, triggers, message port and kernels together | `engine/*2/kernel`, `schedule.ts`, `*2Engine.ts` |
| `AudioEngine` | the audio graph | `AudioEngine.ts` |
| `LegacyEngines` | engines of the browser's own nodes, by what they schedule | `KickEngine.ts`, `HatEngine.ts`, `SnareEngine.ts`, `ClapEngine.ts`, `SynthEngine.ts` |
| `AudioAudit` | one check of the audio lab | `audit/executor.ts` |
| `*MC` | the values TLC checks them with, and which of them share a run | |
| `*Proofs` | theorems | |

`RoomLog` and `ClientSync` both extend `RoomStore`, so the room the tabs talk to is the one
the log theorems are about; `BulkLoad` composes loads with `ClientSync`'s tabs, and `Playback`
the transport with the kernels. `RoomLifecycle` and `SessionSync` share the expiry chain: the
first has every hello and socket and a database that only answers or fails, the second has
the queries and contents and only one joining client. The others stand alone: each takes what
the rest of the system does as steps of somebody else.

**RoomStore, RoomLog.** A room is a record of its project, log, index, op counter, dirty flag
and version. A project maps paths
to values; `appendOp`, `findDuplicate`, `getOpsSince`, `replaceProject` are the operators of
those names. `RoomLog` turns them into actions `Set`, `Resend`, `Load`, and keeps a ledger no
action reads, against which the properties are stated. The payload of an op is a constant
function of its key, since the outbox resends an entry whole.

**RoomLifecycle.** A step is what Node runs between two waits on the outside. The phase of a
hello names the await it is at: `settle` (the expiry chain), `load`, `verify`, `username`;
`woken`, `resuming` and `minting` are the microtask boundaries at which several hellos woken
by one chain interleave, and `Drained` keeps other callbacks out until they have run.
`Enter` is the straight line from the capacity check to the next await. The chain goes
`flush`, `get`, `delete`, and ends in `Prune` or with the room kept. A database call may
fail at each await. A socket is used once: a reconnect is another socket, presenting a
clientId some welcome gave.

**SessionSync.** A query is queued when the code issues it; the database works on the first
`Connections` of the queue in any order (the queueing of the `postgres` driver), and a
query's effect and its answer are separate steps, either of which can be lost. `Crash` ends
the process with queries of any kind under way. Contents are numbers, content k the project
after the k-th edit. A graceful shutdown is the flush of a sweep and then a `Crash`.

**Library.** A request is a record that goes from one awaited statement to the next; any
request, save, hello or prune may come between, and any statement may fail. `known` is what
callers have been told, `gone` what a deletion was confirmed for.

**ClientSync, BulkLoad.** A tab is a record, and each method of its classes an operator on it
(`Enqueue`, `FlushEntry`, `Closed`, `Reassert`, `RolledBack`, `RecordOpIdSeen`,
`Dispatched`); a callback is one action. `down` holds the frames on their way to a tab and
the tab's `up` those to the server, in order; a drop loses both. Three variables are
history: `owed` (what the server has still to hear of), `gapped` and `excused` (see below).
The restart keeps the project and starts opIds over, as a flush, a crash and a load do.
`BulkLoad` adds the one load a tab may have outstanding and takes every other step from
`ClientSync`.

**Connection.** A page's session holds one client at a time; clients and sockets that were
given up stay in the state, because their timers and events may still come. The server is
external and answers a hello with a snapshot, a replay or a refusal.

**Presence.** A hello is cut where its handler awaits: what it read before the username was
asked for it uses after, and the roster it read for the welcome (`ConnectionHandler.ts:400`) it
sends to the others once the socket has caught up (444). Awaits on the in-memory store let no
other callback in (`Drained`), but hellos that wait for one expiry chain are woken together, and
then their awaits interleave, in any order. `together` is history: two hellos ran together and no
roster was sent since that was read alone. Frames to a tab are a queue.

**Documents.** A leaf is legal, absent or garbage; tracks, slices, mixers and steps are
records and functions of leaves as in the schema. `Normalize`, `Pack`, `Unpack`, `Reconcile`,
`SetDeep` are the functions of those names. Rows age and files are edited by hand one part at
a time.

**UndoHistory.** A burst (one synchronous task, sealed by a microtask or by the undo itself)
is one step, so `open` is empty between steps. An entry is a function from the leaves to what
the burst found and left. `Sealed`, `Undone` and `Redone` are `seal`, `undo` and `redo`; the
loop that pops stale entries is `Newest` of the entries that can still restore a leaf. The
leaves are independent and a burst writes each once: that holds of every command but
`addTrack`, whose write of a whole track overlaps the leaves in it. `foreign` is history: the
leaves somebody else wrote since the stacks were last cleared.

**Tracker.** `selection` is the raw refs of the store, `Rows` what `validSelection` shows;
every command reads `Rows` and the raw selection is kept as the code keeps it, stale rows
included. A `...Draft` is the steps an operation wants for some rows, and `With` what the diff
and its dispatches make of the buffer, in one synchronous task.

**Patches.** The leaves of a project are a function; a patch, a preset or a whole project is a
draft, and what is sent is where it differs from what is live. A whole project that goes to an
old server leaf by leaf (`TrackDiff`) goes without its order and without the tracks' names;
`leafwise` is history and says that this has happened since the last snapshot.

**Keyboard.** A command is its context, its keys and whether it repeats or reaches into
fields; what it does is a change of a selection, a clipboard or a history that is there or
not. The page may be hidden and come back, mounted or thawed.

**Navigation, Lobby, Dialogs, Rack, Controls.** Each is one page's state of that kind, with
the peers' writes and the late answers it may meet; an event's handler and the watchers it
wakes are one step. In `Dialogs` whatever the page has to press can be pressed while a question
is up, since its backdrop traps no focus; `crossed` is history and marks a question that waited
while a prompt was asked, or a prompt asked while one waited.

**StepClock, Sequencer, SoundKernels, Playback.** Time is in frames. A tick reads the clock once
and hands out steps one by one; an edit of the tempo may come between ticks. The kernels'
sound is abstracted to the amplitude envelope of a synth voice, a level that moves one unit a
frame, and the time since a drum's hit.

**AudioEngine.** An engine is its type and the parameters it was told. What a command does is a
function of the graph and the project (`FullySynced`, `TrackSynced`, ...); a swap leaves a fade
that ends in a step of its own; the boot is pending while its modules load.

**LegacyEngines.** A hit adds stretches of time in which a gain is open or a source plays.

**AudioAudit.** A clip is its metric, peak and health flags; `Below` is JavaScript's, false of
what is not a number.

## What is checked

A run checks one part of the system, or several that share no variable: there `part` says
which of them moves, the others rest in one initial state, and a property of a part is asked
of the states in which it is the one to move. So their states add up and are not multiplied,
and nothing is said of parts meeting that do not meet. Modules with variables of different
kinds take turns at the spare variables `x1`, `x2`, ... through INSTANCE.

Passing runs:

| Run | Part | Shows |
|---|---|---|
| `progress` | life | `NoTeardownUnderHello`: over every interleaving of three sockets with the grace timer, the chain and database failures, no hello shares the room with a teardown. `GuestHelloAnswered`: no hello of a guest waits for ever. |
| | saving | `RowsKeepUp`: with queries taking effect in the order issued, a clean room is saved, a late flush does not bring back a deleted session, and sweeps and chains do not overlap themselves. `EditsGetSaved`: edits of a live room are saved in the end. |
| `tabs` | edits | `EditsAgree`: tabs with nothing in flight hold the server's project, and the gap that triggers a resync does not arise while frames stay in order. `NoEditLost`: what the server has not had is the newest entry of its path in the outbox. |
| | loads | `LoadsAgree`: the same agreement after loads that arrive, are lost, arrive twice, are refused, given up or overtaken by a snapshot. |
| `client_delivery` | | `EditsReachServer`: with ack timeouts, resends and one mishap, every edit reaches the server or is refused in the end. |
| `room_server` | log | `ReplayWindow`: a replay is offered exactly to clients that missed at most Capacity ops and no load. `CatchUpRebuilds`: replaying then gives the room's project. `AppliedOncePerWindow`: a resend applies again only once its original is out of the log. |
| | limits | `BurstPlusRate`: over any stretch of time a bucket lets through no more than its capacity and one per tick. |
| | documents | `RoomLegal`, `RowRestores`, `ReopenRestores`, `OlderFilesOpen`: leaf writes, rows of older releases and files leave legal projects, which come back from row and file. |
| | library | `LibraryIsWhole`: a confirmed creation left its row and its snapshot, a confirmed deletion neither. |
| | presence | `PeersAreShown`: a welcomed tab whose frames are delivered shows nobody who left, and everybody who is connected unless two hellos ran together since a roster was sent; a ring of touch is swept. |
| | connection | `ConnectionHolds`: what speaks for the page is its current socket, in its room, as its user; live means filled; a closed client is bound to be tried again or said to be lost. |
| `studio` | tracker | `MovesCarry`: moved steps take the selection along, none is lost or doubled. `PastesSelect`: what a paste reports and what it wrote agree, holes included, and no command touches rows beyond the pattern. |
| | rack | `DropsLand`: a card lands where the line showed, whatever peers did since. |
| | controls | `ControlsFollow`: a field at rest shows its leaf, and a name is said once. |
| | keyboard | `KeysReachTheView`: a key that met a dialog changes nothing behind it; the commands that answer are those of the mounted view. |
| | engines | `HitsAreHeard`: every hit's sources play as long as its gain is open, and end. |
| `page` | history | `HistoryLinks`: along each leaf nobody else wrote, each entry ends where the next begins and the newest ends at the live value, on both stacks. `RedoUndoesUndo`: undo then redo restores the project in every reachable state. |
| | navigation | `PageIsWhereItSays`: address, room, track and name agree, through history, cache and late answers. |
| | patches | `PatchesCarryAll`: who has heard all that was sent has the same project, but for names and order since one went leaf by leaf. |
| | questions | `AnswersKeepApart`: a question that no other prompt crossed is answered with what was written in its own field, whatever was pressed behind it. |
| | lobby | `LobbyPolls`: the list is polled while in sight, by one timer. |
| | lab | `PassesEarned`: a check that passes has measured what it compares. |
| `page_sound` | playback | `BlockRenderedOnce`, `ChordSpreads`, `NoClick`, `NotesEnd`: every frame is rendered once, chords spread over voices, envelopes do not jump, notes end. `StepsOnTime`: the transport implements `StepClock`. |
| | graph | `EnginesMatch`, `GainsSettle`, `NothingOutlivesContext`: the graph has the project's engines, parameters and gains, and goes down whole. |

Runs that refute a statement of the code or its docs; each is a finding, with the line it
contradicts quoted in `PROJECT.json`:

| Run | The code does |
|---|---|
| `session_order` | Two flushes of one room in flight on two connections can land in the other order: older content stays saved under a clean flag. The production pool has 10 connections (`postgresOptions.ts`). |
| `client_watermark` | A broadcast that arrives before the replay moves the watermark past it; if the connection drops there, the next hello resumes behind ops the tab never had. |
| `presence_colours` | Two hellos that overlap, or one that resumes an identity whose colour was given away, leave two people of one colour although others are free. |
| `prompts` | A prompt asked by a key pressed behind an open one resets the draft they share: the first is answered with the default of the second. |
| `keyboard_freeze` | A page taken out of the back-forward cache has the studio mounted and none of its commands. |

Four more can be reproduced with a configuration that is kept for it. `PresenceRoster.cfg`
checks `RosterSettles` without the excuse: `ConnectionHandler.ts:437-438` says of the roster it
sends "They've already got each other in their rosters; this update brings us into view", but a
fresh guest and one whose clientId the room does not know, both woken by an expiry chain that
failed, have a different number of awaits: the first reads a roster of itself, the second is
welcomed with both, and then the first sends its own. The second lists a room without itself
until the roster is sent again. The others:
`SessionSyncPrune.cfg` (the end-of-life flush fails and the room of an owned session is
pruned with its dirty flag set), `ClientSyncRestart.cfg` (after a restart a watermark of the
old numbering can be a legal one of the new) and `ClientSyncNack.cfg` (a nack restores the
value from before the edit, over a peer's op applied since). `Documents` states a fifth,
`RepairKeepsProject`: `repair-track-pool.ts` normalises the sparse row as it stands, and a
row written by the autosave loses its tracks.

Every property of a passing run has a mutant in `PROJECT.json`: a plausible bug in one
mapped definition under which TLC finds the property violated.

### What the passing runs assume

`QuietTabsAgree` is `Converged` minus the clients the holes named above can reach
(`excused`): a client that lost its connection with its watermark ahead of the replay, every
client after a restart, a client that took a nack, one whose player edited before the room
was caught up (the loader overlay covers the studio but not the app bar, where the BPM is;
such an edit is written locally and never sent). A snapshot ends the excuse. In the part
with loads a tab that rolled back is excused likewise: the prior it puts back is as old as
the load. Everything else that can happen to a tab is inside the property.

The `saving` part of `progress` takes one database connection, which also is the in-memory session store of a
server without a database. The part of `RowsKeepUp` about clean rooms does not hold with two
(`session_order`).

Three properties excuse, by a history variable, just the case in which the code does otherwise:
`AnswersKeepApart` two prompts of which one was asked while the other waited (`crossed`; the run
`prompts` refutes it without), `PeersAreShown` somebody missing after two hellos that ran
together (`together`; `PresenceRoster.cfg`), `PatchesCarryAll` names and order after a project
that went leaf by leaf (`leafwise`). `NameIsRooms` sets two cases aside, since `saveMeta` asks no questions about the room:
a room that another room's panel was saved to (`strayed`), and, until it changes its room, a
page that the answer of another room's save has reached (`late`).

### Bounds, and why they are enough

* `progress` moves one of two modules that share no variable. Life: 3 sockets and `ROOM_CAP` 2,
  so that the cap is exceeded, one socket can be in the room while a second closes and a third
  arrives, and two hellos wait for one chain. One room: rooms share no state. The guest room is checked because its chain is
  longer; an owned one skips the delete. The safety theorems hold for any set of sockets and
  both kinds of owner.
  Saving: 3 edits (one saved, one during the save, one after), a queue of 3 when a
  disconnect or a stale sweep adds to it, 1 crash. The sweep, the chain and the load have at
  most one query each, whatever the bound.
* `tabs`: 2 tabs, 2 paths, 2 edits and one stray, a ring of 1 (so that resumes fall in and
  out of the window), 2 drops and one each of reload, nack and stray, any two of them in a
  run (`MaxMishaps`). The holes found need one or two mishaps. No resends and no restart:
  those are in `client_delivery`. With loads: 2 loads and 2 time-outs, one edit, and three of
  loads, time-outs, drops and nacks together (`LoadsAndMishaps`).
* `client_delivery`: 1 path, 2 edits, 1 resend per op, one mishap of any kind.
* `room_server`: a log of 2 clients, 2 paths, 2 values, a ring of 2, 2 clientSeqs each and 6
  opIds: the buffer overflows, empties on a load and fills again, and an op is evicted and
  resent. Two callers of one bucket of 2 and a table of one key, over 8 ms in ticks of 3. Two
  slots of two rows and two engines, and two changes of leaves, rows or files: one that ages
  what another wrote. Three requests about one session and one preset id of an owner and a
  stranger. Two tabs, two identities and three connections, so that two hellos are woken by one
  chain, or one resumes while the other closes. Two clients and two sockets of a page, one change of who is signed in and one resync: a socket that closes
  late, a timer, a `ready` or an answer of the one given up, each beside the one in use; that
  a third changes nothing is what `ConnectionStays` proves.
* `studio`: 2 tracks, a buffer of 4 rows of which 3 play at first (so that there are gaps,
  edges and hidden rows), one note, rests and the mute flag, and any 2 copies, commands or
  outside writes between any number of selection gestures. Three cards; two tracks under a
  field that goes up to 3 and a knob of one detent; two visits of the studio; two overlapping
  hits of each engine. A copy and a paste use up the two commands, so that no pattern shrinks
  between them here; `PastesKeepToTheirRows` is proved for any number.
* `page`: one continuous and one discrete leaf, 2 values, a depth of 3 instead of 100, so
  that the stack fills and drops its oldest; bursts, drags, undos and foreign writes go on for
  ever in a finite state space. Two rooms and two tracks in a history of three entries; one
  track and two acts of patches; three questions, one request at a time; two sessions and
  two visits of the lobby; one metric of three levels, missing or not a number.
* `page_sound`: two tempos of steps longer and shorter than the look-ahead, blocks of 2
  frames, two voices, envelopes of height 5, four hits in the ring, patterns of two and three
  steps; two slots, two engine types, two writes, two presses of play.
* Symmetry on tabs, sockets or rooms only where a run checks invariants alone.
* Deadlock is not checked where bounds end the behaviours or the players may stop.

### Fairness

* `RoomLifecycle`: microtasks run, timers fire, the database and the token verification
  answer (with a result or a failure), a socket that is closing ends. Nobody has to connect
  or to leave.
* `SessionSync`: the autosave interval ticks, queries are answered somehow, and the saves of
  the sweep do not fail for ever (strong fairness on success): with a database that is always
  down nothing can be saved. `EditsGetSaved` is about rooms that stay live and sessions that
  are not deleted.
* `ClientSync`: the reconnect timer (`WsClient` retries for ever), the throttle timer, and
  the delivery of frames on a connection that is up. Nobody has to edit, no mishap has to
  happen, and drops are finite, as with any protocol that must make progress between two.
* `Playback`: the audio thread goes on delivering messages and rendering blocks, which is
  what an audio thread does while its context runs. Timers and players owe nothing; `NotesEnd`
  asks nothing of them.

## What is proved

All by `tlapm`, for every value of the constants that meets the named assumptions.

**RoomProofs**, the log of a room, from `CapacityAssumption` and `RoomLogAssumption`: `ReplayWindow`,
`CatchUpRebuilds`, `AppliedOncePerWindow`. The inductive invariant `Ind` is `TypeOK`,
`LogContiguous`, `IndexMirrorsLog`, `AppliedOncePerWindow` and two strengthenings.
`LogReachesBack` says why the log starts where it does: the ring is full, or the opId just
below the log (`Base`) is the room's creation or a load. With contiguity it gives
`ReplayWindow` in any state of the invariant, and it is what the step of
`AppliedOncePerWindow` needs: a key that is not in the index was last logged, if ever, at or
below `Base`, so Capacity opIds or a load lie between. `WritesSurvive` says path by path what
replay from any opId at or above `Base` finds: either no op since then writes the path and
the project of that opId already has its value, or the newest op that does carries it.
`CatchUpRebuilds` follows from it, and is not inductive itself because it says nothing of a
write that a later one hides.

**RoomServerProofs**, the life cycle of a room, the limiters and a tab's connection. From `RoomLifecycleAssumption`: `TypeCorrect`, `CapacityHolds`,
`NoRaceWithTeardown`, `WelcomeLasts`, `PruneIsSafe`. The invariant `IInv` is `LifeTypeOK`,
`CapRespected` and `Bound`, six facts that tie a hello to the room: an unused socket has said
nothing, a resuming hello names its clientId, a hello between its microtasks has a live room,
no timer is armed while a socket is admitted (`AdmittedDisarms`), a hello past `settle` meets
no chain (`SettledMeetsNoChain`), a welcomed one has its room. The timer is armed only when no
socket is open, a hello disarms it before anything else, and a chain starts only from an
armed timer; so a hello that waits out the chain under way meets no other. The capacity check
is made once, before the awaits: the admitted sockets are among the open ones, which the
check counts when one is admitted, and afterwards the set only shrinks. From
`BucketAssumption`: `BucketsPaidFor`, `LimiterHolds`. What a bucket let through since an
observer began is paid for by its capacity and the ticks of its refills (`PaidFor`, inductive
with the buckets' types); `BurstPlusRate` is what that says at any moment.
With no assumption at all: `ConnectionStays`, and from it `ConnectionIsHeld`, for any number
of rooms, accounts, clients and sockets. Old clients and their sockets stay in the state for
ever, so the invariant says what they may still do: every client but the session's is
`Parked`, without socket or timer, and every socket but the session's is going down
(`OneInUse`). A `ready` that comes late for a parked client connects nothing, and a socket
that no client has is heard by nobody. For the session's own client, `Holds` ties the flags to
the page: one that has stopped waiting either needs a snapshot or has been filled, one that
means to be closed has shown a refusal, one without a socket waits, has its timer or was
refused. `InUse` follows the catch-up through the socket: a resume is asked for only where
there is content, so a `sync.complete` in the inbox has a snapshot before it or content under
it (`FillsFirst`), which is why a live room is a filled one.

**SessionSyncProofs**, from `SessionSyncAssumption`. Over a pool of any size, `FlowsKeepApart`:
the queue keeps its bound, a flow that awaits a query has that one out and no other, and no
snapshot outlives its session row. The bound is inductive as `Accounted`: a queue longer than
what disconnects and stale sweeps may add is longer by one query of each flow that waits.
Over a pool of one, `RowsKeep`: `RowsKeepUp`, the part about clean rooms included, which is
false of two connections (`session_order`). What makes it true is `OneInv`: only the head of
the queue can have taken effect, and then what it found still holds (`InOrder`); saves stand
in the queue oldest content first, none behind a hello's query (`SavesInOrder`); and every
save of a live room has a version the room had, with the room's content where the version is
the room's or the room is clean (`SavesAreRooms`). So the save whose answer clears the flag
carries what the room holds now, and those behind it carry the same. That no save is behind a
hello is why a room that comes back, with its version at 0 again, meets none of its earlier
life; it rests on `Members`: a session is loaded only for a room that is not live, a chain or
an armed timer has a live room without clients.

**PageProofs**, what runs in the page, and the audio lab. From `UndoAssumption` and
`NoneIsNoLeaf`: `TypeInvariant`,
`HistoryStaysLinked`, `RedoIsInverse`. `TypeOK` and `HistoryLinks` are inductive together.
The chain of a leaf is kept by a push (the new entry begins at the live value the old top
ended at), by a drag tick (which moves only the end of the newest entry; the merge key's
clause in `TypeOK` says it holds that leaf alone), by the drop of the oldest, and by undo and
redo, which cut a stack at the newest entry that can restore something: what lies above is
stale in every leaf, so on a leaf nobody else wrote it has nothing, or the chain would make
it current. `RedoIsInverse` needs no chain: the mirror holds exactly the leaves that were
restored, each of which now has its `before`.

From `NavigationAssumption`: `PageStaysWhereItSays`. The invariant of `NavigationStays` keeps, of
every entry of the browser's history, an address the page could have made; of the current one,
that it is the room's and the track's (`Located`), through every composite handler (a
reconciliation ends where the address points, whichever of the two moved last); of a save on
its way, that it has the name of the room it goes to or has made that room's name doubtful.

From `ControlsAssumption`: `ControlsKeepFollowing`. Values are written clamped, so a leaf never
leaves its range (`LeavesInRange`), which is why a clamped input shows what was written; and an
editing that goes on has said nothing yet (`Silent`), so the blur after Enter or Escape cannot
say a second name.

From `EnginesAssumption` (the margins of the sources cover attack and close, as the engines'
constants do): `HitsKeepSounding`. A drum's hit brings a source as long as its gain will be
open; a stretch that a later hit cuts is only shorter, and its source is not stopped by it. What
still plays is where `dispose` looks (`PlayingIsKnown`); the synth's oscillators run for its
lifetime (`SynthRuns`), and a chord takes as many voices as it has notes, because the turn
modulo the number of voices meets none twice before that.

From `AuditAssumption`: `PassesStayEarned`, by cases over what a check may be and what its
legs measured.

Of the parts that `PageMC` composes, as theorems of `PageSpec`. `LobbyKeepsPolling`: with the
timer and the listener, `LobbyInv` says that a dialog is open in a mounted lobby only and that
a creation on its way has its dialog, so that an answer that comes after the lobby was left
starts no timer. `AnswersStayApart`, from no assumption
on what keys reach: the draft is the own field of every waiting prompt that is not crossed, and
no prompt waits before such a one (`QuestionsInv`), so answers, confirmations and dialogs that
are no prompts leave it alone; questions are numbered as they are asked, and an answer is never
to one that still waits.

**StudioProofs**, what the player's hands are on, as theorems of `StudioSpec`, from
`TrackerAssumption` and `StepAssumption`: `PastesKeepToTheirRows`, `MovesTakeTheSelectionAlong`,
`KeysStayInTheView`. The tracker's selection is not told of what peers do to the pattern, so the
invariant (`TrackerInv`) relates nothing to it but says that a copied span starts with a copied
step: a paste then writes the row it starts at, and the selection it makes is never empty. Every
command is a draft for rows of the window (`Drafts`), which is why hidden rows stay. A move is
shown to be a permutation of the rows (`ComesFromOne`, `ComesFromDiffers`): the displaced rows
are as many as those that are left (`AsManyLeft`), and `InOrder` finds each the one row of its
rank (`InOrderFinds`), so every step is there as often as before (`CopiesKept`). The keyboard
needs that its commands are the mounted view's (`KeysInv`); none of those that Escape reaches
takes repeats, so an Escape held down after it closed a dialog clears no selection behind it.

**PageSoundProofs**, the two components of the run `page_sound`. From `SequencerAssumption`,
`TypeCorrect` and `Refinement`: the transport with its timer, look-ahead and moving anchor
implements `StepClock`. The mapping `LastDue` is the time of the step last handed out, computed
from the anchor; a rebase moves the anchor so that this time is the same under the new tempo,
and every other action stutters or is the clock's action of the same meaning. From
`AudioAssumption`, `EngineInvariant` and from it `EnginesFollowProject`, `GainsFollowMixer`,
`NothingIsLeft`: the engines of a graph that is up are exactly `AllEngines(project)`, whatever
order swaps, writes and the boot came in, and a graph that is not up has nothing.

**ClientSyncProofs**, from `ClientSyncAssumption`, `CapacityAssumption` and, for the loads,
`BulkLoadAssumption` (there are values enough to number the loads too): `TabsInvariant` and
from it `TabsTypeCorrect` and `EditsAreKept`, for any number of tabs, paths and mishaps; then
`LoadsKeepApart` and `LoadsLoseNoEdit`, the same with loads among the edits. What
is owed must be the newest entry the outbox has for its path (`Owing`; `Owes` says it without
choosing an entry), and an echo or a nack drops an entry by its clientSeq alone. So the
invariant follows clientSeqs through the whole round trip:

* `Tracking`: one op per clientSeq, none that is yet to be used, and nothing throttled or in
  flight in a tab that is not live, which is what `onClosed` is for;
* `Requesting`: what is on its way to the server under the clientSeq of an op in flight is that
  op, also when it was resent, so what the server takes it for is what the tab means;
* `Settling`: an answer on its way is about an op that nothing is owed for any more, because
  the debt was paid when the server took or refused the op, and a later edit of the path has
  another value;
* `Handshake`: a hello is on its way alone, and a welcome or `sync.complete` answers one that
  is not; without it a stale `sync.complete` could make a tab live whose queue was not flushed;
* `LoadKept`: no op is in flight under the clientSeq of the pending load. Loads and ops draw
  their numbers from one counter, so a load that is resent, or whose nack comes late, drops no
  op, which is the hazard of two trackers beside one another.

**AgreeProofs**, over the invariant of `ClientSyncProofs`: `TabsFollowRoom`,
`NothingIsSkipped`, `QuietTabsShowTheRoom`, and `EditsReachAgreement` for the behaviours of the
run `tabs`. What tabs and frames have in common is the room's past, which the log forgets and a
load in the model of edits never changes, so the inductive invariant (`Agreeing`) says that
there is a history `g`, the project after each op and the path each op wrote, such that:

* `History`: the room is at its head, its log is its newest part, a leaf changes by an op alone;
* `Frames`, of every tab: every frame on its way tells the truth about the history; the ops
  behind a `sync.complete`, and those on their way to a live tab, go on from its watermark to
  the head with none skipped (`NoGap`), which is `NoGapWhileLive`; a snapshot or a
  `sync.complete` has the older ops before it and the newer ones behind it (`Divides`), which
  is why a snapshot does not bring back what a broadcast has moved past;
* `Seen`, of every tab that is not excused: it shows the project of some op `k` with newer ops
  on top leaf by leaf, except on paths it has edits of (`Shows`), and every op newer than `k`
  has been overwritten on its leaf, is on its way, or will be in the answer to the hello, as a
  replay or inside a snapshot (`Covers`, `OpsAhead`, `SnapshotAhead`). While a tab catches up,
  a broadcast can move the watermark past ops that the replay has yet to bring: then `k` is
  below the watermark (`gapped`), and only the leaves' own `lastApplied` tells old from new;
* `Echoes`, `Resends`: the echo of an op in flight is news to its tab, and a resend that the
  server drops as known has had its echo or will get it. Without it, a tab would keep the
  optimistic value of an op whose echo it had missed.

A quiet tab is live, so its watermark is `k`; nothing is ahead of it, so `k` is the head, and
nothing it tracks hides a leaf: it shows the room's project (`AgreeingTabsAgree`). The proof of
a step follows the handler: what it does to the tab alone, to the frames, and to the history,
which only an accepted op extends (`NewOpAgrees`); a restart begins a new one and excuses
everybody. The invariant names its history by `\E g`, so no variable of the model records it.

**RoomProofs**, the project as a document, from `DocumentsAssumption`: `CopiesKeepTheirKind`, `ProjectStaysLegal`,
`FlushedRowRestores`, `SavedFileReopens`, `OldFileOpens`. The assumption says that the
defaults of the schema are among its legal values and that a part that is missing (`Absent`)
or of the wrong kind (`Garbage`) is no value of the right kind; it bounds neither the pool nor
the buffer. The inductive invariant is `DocumentsTypeOK`: the room's project is in
`WholeProject`, the row is one some release wrote (`IsOldRow`: it may lack slots, rows,
engines and optional step keys), the file is anything hands may have left (`AnyProject`). It
is what the four promises need, because each follows from the kind of one copy, but every
operation has to be shown to land in its kind:

* a write (`WriteKeepsWhole`), one case for each form of an accepted path: what passes the
  schema of that leaf, at an index in range, leaves a whole project, and what does not changes
  nothing; a preset (`PresetKeepsWhole`) drops what it cannot type;
* a reseed (`UnpackedIsWhole`): `normalizeProject` makes a whole project of any old row,
  through the healing of slices, the padding of steps and of the pool, and the re-enabling of
  a pool with nothing enabled; on a project that is whole already it changes nothing else
  (`NormalizedWhole`), and that is what makes what the autosave leaves out come back;
* an open (`OpenedIsWhole`): `deepMerge` under the defaults keeps garbage where the file has
  it, so the result is whole only when the server's check admits it; a clean file, with parts
  missing and none of the wrong kind, always becomes one (`CleanReconciledIsWhole`), and a
  whole project comes back the same but for optional keys (`WholeReconciledIsTheSame`);
* ageing, hand edits and the repair script stay within old rows and files.

The theorems speak of sequences of rows and slots of any length, so the proofs pass between
arrays `[1..n -> S]` and `Seq(S)` (`ArrayIsASequence`, `SequenceIsAnArray`).

**RoomProofs**, the library and the roster, as theorems of `ServerSpec` and from no assumption.
`LibraryStaysWhole`: an id is created once (`CreatedOnce`), so what has a row, or had one and is
gone, is of one kind, and its creation is past its first statement (`RowsAreMade`,
`GoneStaysGone`): nothing can make a row of it again. A deletion that has found its row deletes
something that was made (`FoundWasMade`), even when another was faster; and a snapshot is only
ever written beside its row, which is why a room that is still in memory brings nothing back.
`PeersStayShown`: with messages on their way a roster is behind, so the invariant speaks of what
a tab *will* list (`Hears`): the last roster in its box, or the one it shows if there is none. It
shows nobody who left (`HearsWithin`), because only a close takes somebody away, and a close reads
and sends its roster while no hello is between its awaits. That it shows everybody (`PresenceInv`)
needs more: one handler at most runs (`Busy`) unless hellos were woken together, so what it read
for its welcome is still the truth when it sends it (`ToldWell`). A roster that was read alone
and put into every box ends the excuse; a prune, which puts none, meets no welcomed socket,
because the timer is armed only when the last one closes and each hello disarms it.

**Only model-checked.** All liveness (`GuestHelloAnswered`, `EditsGetSaved`,
`EditsReachServer`, `NotesEnd`): fairness and `ENABLED` are out of the prover's reach. What is
computed by recursion over data: the runs evaluate it over bounded inputs. And, so far, the
agreement after loads (`LoadsAgree`), where a load rewrites every leaf at one opId, so that the
history's `LeavesTrue` no longer holds as it stands; the blocks, levels and chords of `Playback`, whose kernels fold over the hits of a block; of the
page `PatchesCarryAll`, which folds over a patch; and of the rack `DropsLand`, whose cards are
filtered and searched as sequences.

## Not modelled, and why

* Telemetry only observes. DSP is floating-point arithmetic: kernels are modelled by their
  rings, voices and envelope levels, not by the sound. Layout and wording are left out.
* `RoomLifecycle`: a second hello on one socket (no client sends one), and sets that arrive
  on a socket that was superseded.
* `withTimeout` is a call that answers, fails or gives up, in any of these orders: no time.
* `UndoHistory`: the whole-track write of `addTrack`. The ranges of single parameters are one
  set of legal values in `Documents`; what `migrations.ts` does to a version 1 file is the
  version's number.
* Supabase: a token verifies or not, a lookup answers or not.
* A number of components are there in part: `PROJECT.json` says which part, and the coverage
  of the big views (`StudioView.vue`, `Tracker.vue`) is their handlers, not their templates.

## Seen, without a run of their own

Disagreements between the code and what it says or means, met while modelling:

* `saveMeta` has no guard for the room that was left meanwhile (`StudioView.vue:565`), and a
  slow first fetch of the name overwrites the player's own rename.
* A deep link, or coming back from the account view, shows the editor of a disabled slot,
  which `StudioView.vue:441` says never happens.
* `normalizeProject` throws on a slot that is null, though `snapshot-codec.ts:62` says the
  reader never throws; `storage.ts` keeps optional step keys of defaults under loaded ones.
* `togglePlay` starts playback after its await although the page may be in the lobby by then
  (`App.vue:85`); a failed `addModule` leaves its rejected promise for ever
  (`AudioEngine.ts:304`); `dispose` during the boot does nothing.
* The envelope's fallback for browsers without `cancelAndHoldAtTime` silences notes shorter
  than their attack; the hat's metal mixer is never connected,
  so a hat at metallic 1 is silent.
* Overlapping refreshes of the lobby and of the preset library apply in the order of their
  answers.
* A project opened against a server without bulk loads goes without its tracks' names, which
  that server may take (`accept-list.ts:44`); the note at `projectOps.ts:183` speaks of the order
  only.
* A stolen voice takes the new note's velocity before its ramp has ended (`Voice.ts:163`), so
  `NoClick` is about the envelope and not the output.
* A file's `matrix` of the wrong length passes `Array.isArray` and replaces the default as a
  whole; `Documents` has no lists inside a slice.
* A limiter that counts whole ticks may refuse a stream that is legal on average;
  `BurstPlusRate` only bounds what it lets through.
* Two tabs that each remove one of the last two tracks leave none enabled.
* A hello that races the deletion of its session gets a fresh project with no row behind it.
* An evicted bucket starts full again, and the limiter reads the wall clock.
* A resent load is applied twice if both arrive; its rollback restores a prior that may be
  stale by then.

## Plan

Modules, runs and mutants are complete for what is modelled. Left to prove: `LoadsAgree`, by the
invariant of `AgreeProofs` with loads in the history and the prior project of an outstanding
load beside what a tab shows.
