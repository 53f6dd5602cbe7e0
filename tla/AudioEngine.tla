------------------------------ MODULE AudioEngine ------------------------------
(***************************************************************************)
(* The page's sound, packages/client/src/audio/AudioEngine.ts: one audio    *)
(* graph, built on the first press of play, in which every enabled track    *)
(* has an engine of the project's type with the project's parameters.  The  *)
(* graph follows the project through the command bus's stream of applied     *)
(* commands; an engine that gives way is faded out and disposed of later.   *)
(* Pages that are hidden tear everything down, and may come back.           *)
(*                                                                         *)
(* A slice of parameters has two keys: "level", and "timed", which stands   *)
(* for the LFOs, envelopes and glide of a synth2, whose times follow the    *)
(* tempo when they are synced to it.                                        *)
(***************************************************************************)
EXTENDS Integers

CONSTANTS
  PoolSize,    \* TRACK_POOL_SIZE
  EngineType,  \* includes "synth2"
  Bpm,
  Value,       \* values of a parameter
  SyncedTime,  \* per tempo, the time of a note division
  Project,     \* projects to start from, to open and to take tracks from
  None,        \* no engine
  MaxWrites,   \* bound: commands applied
  MaxPresses   \* bound: presses of play

VARIABLES
  project,     \* [bpm, tracks]
  boot,        \* the single-flight bootstrap: "none", "loading", "up" or "failed"
  contexts,    \* open AudioContexts
  engines,     \* per slot the engine of the graph
  gains,       \* per slot the value its gain node was last told to go to
  fading,      \* pendingDisposes: per slot, the engines that fade out and wait for their timers
  waiting,     \* calls of togglePlay that wait for the graph
  playing,     \* the transport's isPlaying
  view,        \* "studio" or "lobby"
  writes, presses

graph == <<engines, gains, fading>>
audioVars == <<project, boot, contexts, graph, waiting, playing, view, writes, presses>>

Slot == 1..PoolSize

Slice == [timed : [sync : BOOLEAN, time : Value], level : Value]

Track == [enabled : BOOLEAN, engineType : EngineType, muted : BOOLEAN, soloed : BOOLEAN,
          engines : [EngineType -> Slice]]

Engine == [type : EngineType,
           params : [timed : Value \cup {SyncedTime[b] : b \in Bpm}, level : Value]]

ASSUME AudioAssumption ==
  /\ PoolSize \in Nat
  /\ "synth2" \in EngineType
  /\ None \notin Engine
  /\ Project \subseteq [bpm : Bpm, tracks : [Slot -> Track]]

NoGraph ==
  [engines |-> [i \in Slot |-> None], gains |-> [i \in Slot |-> 0], fading |-> [i \in Slot |-> 0]]

InitAudio ==
  /\ project \in Project
  /\ boot = "none" /\ contexts = 0
  /\ engines = NoGraph.engines /\ gains = NoGraph.gains /\ fading = NoGraph.fading
  /\ waiting = 0 /\ playing = FALSE /\ view = "studio"
  /\ writes = 0 /\ presses = 0

-----------------------------------------------------------------------------
(* What the engines are told *)

\* effectiveLfoRate, effectiveEnvTimes, effectiveGlideTime: the kernels know no tempo.
EffectiveTime(timed, bpm) == IF timed.sync THEN SyncedTime[bpm] ELSE timed.time

\* A slice as its engine gets it; only a synth2 has anything to sync.
Effective(type, slice, bpm) ==
  [timed |-> IF type = "synth2" THEN EffectiveTime(slice.timed, bpm) ELSE slice.timed.time,
   level |-> slice.level]

SliceOf(p, i) == p.tracks[i].engines[p.tracks[i].engineType]

\* The engine a slot should have.
EngineFor(p, i) ==
  IF p.tracks[i].enabled
  THEN [type |-> p.tracks[i].engineType, params |-> Effective(p.tracks[i].engineType, SliceOf(p, i), p.bpm)]
  ELSE None

\* The engine of a slot that was disabled, or has another type now, gives way.
Parting(g, p, i) ==
  /\ g.engines[i] # None
  /\ p.tracks[i].enabled => g.engines[i].type # p.tracks[i].engineType

\* fadeOutAndDispose: the gain goes to zero, the engine waits for its timer.
FadedOut(g, i) ==
  [engines |-> g.engines, gains |-> [g.gains EXCEPT ![i] = 0],
   fading |-> [g.fading EXCEPT ![i] = @ + 1]]

\* syncTrackToEngine: no engine for a disabled slot, a new one where there is none of the
\* type, and the parameters of the project in it.
TrackSynced(g, p, i) ==
  LET faded == IF Parting(g, p, i) THEN FadedOut(g, i) ELSE g
  IN [engines |-> [faded.engines EXCEPT ![i] = EngineFor(p, i)],
      gains |-> faded.gains, fading |-> faded.fading]

\* Gains that let a disabled slot's solo silence the others.
SoloAnywhere(p) ==
  LET soloed == \E i \in Slot : p.tracks[i].soloed
  IN [i \in Slot |->
        LET t == p.tracks[i]
        IN IF t.enabled /\ ~t.muted /\ (soloed => t.soloed) THEN 1 ELSE 0]

\* Solo counts among the enabled tracks only.
MixerGains(p) ==
  LET soloed == \E i \in Slot : p.tracks[i].enabled /\ p.tracks[i].soloed
  IN [i \in Slot |->
        LET t == p.tracks[i]
        IN IF t.enabled /\ ~t.muted /\ (soloed => t.soloed) THEN 1 ELSE 0]

\* updateMixerGains.
GainsUpdated(g, p) == [engines |-> g.engines, gains |-> MixerGains(p), fading |-> g.fading]

\* syncTrackToEngine of every slot, then updateMixerGains.
FullySynced(g, p) ==
  GainsUpdated([engines |-> [i \in Slot |-> EngineFor(p, i)],
                gains   |-> g.gains,
                fading  |-> [i \in Slot |-> IF Parting(g, p, i) THEN g.fading[i] + 1 ELSE g.fading[i]]], p)

Graph == [engines |-> engines, gains |-> gains, fading |-> fading]

SetGraph(g) == engines' = g.engines /\ gains' = g.gains /\ fading' = g.fading

\* onCommand, for as long as the graph is there and subscribed.
React(g) == IF boot = "up" THEN SetGraph(g) ELSE UNCHANGED graph

-----------------------------------------------------------------------------
(* Commands applied to the project: local edits, remote ones and rollbacks *)

Write(p) ==
  /\ writes < MaxWrites
  /\ writes' = writes + 1
  /\ project' = p
  /\ UNCHANGED <<boot, contexts, waiting, playing, view, presses>>

WriteAll ==
  \E p \in Project : Write(p) /\ React(FullySynced(Graph, p))

\* A change of tempo that forgets the engines.
BpmUnheard(g, p) == g

\* The synced times of the synth2 engines are pushed again.
BpmHeard(g, p) ==
  LET Heard(i) ==
        LET timed == p.tracks[i].engines["synth2"].timed
        IN IF p.tracks[i].engineType = "synth2" /\ g.engines[i] # None /\ timed.sync
           THEN [g.engines[i] EXCEPT !.params.timed = EffectiveTime(timed, p.bpm)]
           ELSE g.engines[i]
  IN [engines |-> [i \in Slot |-> Heard(i)], gains |-> g.gains, fading |-> g.fading]

WriteBpm ==
  \E b \in Bpm :
    LET p == [project EXCEPT !.bpm = b]
    IN Write(p) /\ React(BpmHeard(Graph, p))

\* The path [tracks, i] alone: reset-on-add, and undo of it.
WriteTrack ==
  \E i \in Slot, from \in Project :
    LET p == [project EXCEPT !.tracks[i] = from.tracks[i]]
    IN Write(p) /\ React(GainsUpdated(TrackSynced(Graph, p, i), p))

WriteType ==
  \E i \in Slot, t \in EngineType :
    LET p == [project EXCEPT !.tracks[i].engineType = t]
    IN Write(p) /\ React(TrackSynced(Graph, p, i))

WriteEnabled ==
  \E i \in Slot :
    LET p == [project EXCEPT !.tracks[i].enabled = ~@]
    IN Write(p) /\ React(GainsUpdated(TrackSynced(Graph, p, i), p))

WriteMixer ==
  \E i \in Slot :
    \E p \in {[project EXCEPT !.tracks[i].muted = ~@], [project EXCEPT !.tracks[i].soloed = ~@]} :
      Write(p) /\ React(GainsUpdated(Graph, p))

\* A leaf of a slice: the engine gets its top-level key, read from the project, unless the
\* slice is not the one in use or the slot has no engine.
KeyApplied(g, p, i, type, key) ==
  IF p.tracks[i].engineType # type \/ g.engines[i] = None THEN g
  ELSE [engines |-> [g.engines EXCEPT ![i].params[key] = Effective(type, SliceOf(p, i), p.bpm)[key]],
        gains |-> g.gains, fading |-> g.fading]

WriteParam ==
  \E i \in Slot, type \in EngineType, v \in Value :
    \/ LET p == [project EXCEPT !.tracks[i].engines[type].level = v]
       IN Write(p) /\ React(KeyApplied(Graph, p, i, type, "level"))
    \/ \E p \in {[project EXCEPT !.tracks[i].engines[type].timed.time = v],
                 [project EXCEPT !.tracks[i].engines[type].timed.sync = ~@]} :
         Write(p) /\ React(KeyApplied(Graph, p, i, type, "timed"))

-----------------------------------------------------------------------------
(* The graph and the transport *)

\* The rest of togglePlay once the graph is there: n presses in a row.
Toggled(was, n) == IF n % 2 = 0 THEN was ELSE ~was

\* togglePlay: waits for the graph, which the first call begins to build.
TogglePlay ==
  /\ view = "studio" /\ presses < MaxPresses
  /\ presses' = presses + 1
  /\ CASE boot = "up"      -> /\ playing' = Toggled(playing, 1)
                              /\ UNCHANGED <<boot, contexts, waiting>>
       [] boot = "failed"  -> UNCHANGED <<playing, boot, contexts, waiting>>
       [] boot = "none"    -> /\ boot' = "loading" /\ contexts' = contexts + 1
                              /\ waiting' = waiting + 1 /\ UNCHANGED playing
       [] boot = "loading" -> waiting' = waiting + 1 /\ UNCHANGED <<playing, boot, contexts>>
  /\ UNCHANGED <<project, graph, view, writes>>

\* The worklets are there: the rest of buildAudioState, of the project as it is now.
Booted ==
  /\ boot = "loading" /\ boot' = "up"
  /\ SetGraph(FullySynced(NoGraph, project))
  /\ playing' = Toggled(playing, waiting)
  /\ waiting' = 0
  /\ UNCHANGED <<project, contexts, view, writes, presses>>

\* A module does not load: every caller is rejected, now and later.
BootFails ==
  /\ boot = "loading" /\ boot' = "failed"
  /\ waiting' = 0
  /\ UNCHANGED <<project, contexts, graph, playing, view, writes, presses>>

\* The timer of a fadeOutAndDispose.
FadeDone ==
  \E i \in Slot :
    /\ fading[i] > 0
    /\ SetGraph(GainsUpdated([engines |-> engines, gains |-> gains,
                             fading |-> [fading EXCEPT ![i] = @ - 1]], project))
    /\ UNCHANGED <<project, boot, contexts, waiting, playing, view, writes, presses>>

\* stopPlayback, on the way to the lobby.
Leave ==
  /\ view = "studio" /\ view' = "lobby"
  /\ playing' = FALSE
  /\ UNCHANGED <<project, boot, contexts, graph, waiting, writes, presses>>

Enter ==
  /\ view = "lobby" /\ view' = "studio"
  /\ UNCHANGED <<project, boot, contexts, graph, waiting, playing, writes, presses>>

\* A teardown that leaves the fading engines to their timers.
DisposeEngines ==
  /\ boot = "up" /\ boot' = "none"
  /\ contexts' = contexts - 1
  /\ engines' = NoGraph.engines /\ gains' = NoGraph.gains
  /\ playing' = FALSE
  /\ UNCHANGED <<project, fading, waiting, view, writes, presses>>

\* dispose(), when the page is hidden; one that the browser kept goes on where it was.
Dispose ==
  /\ boot = "up" /\ boot' = "none"
  /\ contexts' = contexts - 1
  /\ SetGraph(NoGraph)
  /\ playing' = FALSE
  /\ UNCHANGED <<project, waiting, view, writes, presses>>

NextAudio ==
  \/ WriteAll \/ WriteBpm \/ WriteTrack \/ WriteType \/ WriteEnabled \/ WriteMixer \/ WriteParam
  \/ TogglePlay \/ Booted \/ BootFails \/ FadeDone
  \/ Leave \/ Enter \/ Dispose

AudioSpec == InitAudio /\ [][NextAudio]_audioVars
-----------------------------------------------------------------------------
(* Properties *)

\* While the graph is up every enabled slot has an engine of the project's type that was
\* told the project's parameters, at the project's tempo, and no other slot has one.
EnginesMatch ==
  boot = "up" =>
    \A i \in Slot :
      engines[i] =
        IF project.tracks[i].enabled
        THEN [type   |-> project.tracks[i].engineType,
              params |-> Effective(project.tracks[i].engineType, SliceOf(project, i), project.bpm)]
        ELSE None

Audible(i) ==
  /\ project.tracks[i].enabled /\ ~project.tracks[i].muted
  /\ \A j \in Slot : project.tracks[j].enabled /\ project.tracks[j].soloed => project.tracks[i].soloed

\* A slot in which nothing fades has the gain that the mixer asks for, whatever swaps,
\* mutes and solos came while something faded (updateMixerGains).
GainsSettle ==
  boot = "up" =>
    \A i \in Slot :
      fading[i] = 0 => gains[i] = IF Audible(i) THEN 1 ELSE 0

\* One context at most, and without one no transport, engine or pending disposal (dispose).
NothingOutlivesContext ==
  /\ contexts <= 1
  /\ boot # "up" => ~playing /\ \A i \in Slot : engines[i] = None /\ fading[i] = 0
=============================================================================
