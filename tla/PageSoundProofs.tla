---------------------------- MODULE PageSoundProofs ----------------------------
(***************************************************************************)
(* The two components that make a page sound: the sound follows the         *)
(* project, for every number of slots, every set of engine types and every  *)
(* project, and the transport implements StepClock, for any tempos.         *)
(***************************************************************************)
EXTENDS AudioEngine, Sequencer, TLAPS

-----------------------------------------------------------------------------
(* The audio engine.  Its inductive invariant says what the engines are, not *)
(* only what they match: exactly those that syncing every slot afresh would  *)
(* build, and none without a graph.                                          *)

ProjectType == [bpm : Bpm, tracks : [Slot -> Track]]

AllEngines(p) == [i \in Slot |-> EngineFor(p, i)]

IInv ==
  /\ project \in ProjectType
  /\ boot \in {"none", "loading", "up", "failed"}
  /\ boot = "up" => engines = AllEngines(project)
  /\ boot # "up" => engines = NoGraph.engines

-----------------------------------------------------------------------------
(* What each reaction makes of the engines *)

LEMMA GainsKeepEngines ==
  ASSUME NEW g, NEW p
  PROVE  GainsUpdated(g, p).engines = g.engines
BY DEF GainsUpdated

LEMMA FullSyncBuildsAll ==
  ASSUME NEW g, NEW p
  PROVE  FullySynced(g, p).engines = AllEngines(p)
BY DEF FullySynced, GainsUpdated, AllEngines

\* Syncing the one slot that changed is as good as syncing all.
LEMMA SlotSyncSuffices ==
  ASSUME NEW g, NEW p, NEW q, NEW i \in Slot,
         g.engines = AllEngines(q),
         p.bpm = q.bpm, \A j \in Slot \ {i} : p.tracks[j] = q.tracks[j]
  PROVE  TrackSynced(g, p, i).engines = AllEngines(p)
<1>1. TrackSynced(g, p, i).engines = [g.engines EXCEPT ![i] = EngineFor(p, i)]
  BY DEF TrackSynced, FadedOut
<1>2. \A j \in Slot \ {i} : EngineFor(p, j) = EngineFor(q, j)
  BY DEF EngineFor, SliceOf
<1>. QED  BY <1>1, <1>2 DEF AllEngines

\* An enabled slot's engine is an engine, which None is not.
LEMMA EngineIsThere ==
  ASSUME NEW p \in ProjectType, NEW i \in Slot
  PROVE  /\ EngineFor(p, i) = None <=> ~p.tracks[i].enabled
         /\ p.tracks[i].enabled =>
              EngineFor(p, i) = [type   |-> p.tracks[i].engineType,
                                 params |-> Effective(p.tracks[i].engineType, SliceOf(p, i), p.bpm)]
<1>. DEFINE t == p.tracks[i]  s == SliceOf(p, i)
            e == [type |-> t.engineType, params |-> Effective(t.engineType, s, p.bpm)]
<1>1. t \in Track /\ p.bpm \in Bpm
  BY DEF ProjectType
<1>2. s \in Slice
  BY <1>1 DEF SliceOf, Track
<1>3. EffectiveTime(s.timed, p.bpm) \in Value \cup {SyncedTime[b] : b \in Bpm}
  BY <1>1, <1>2 DEF EffectiveTime, Slice
<1>4. Effective(t.engineType, s, p.bpm) \in
        [timed : Value \cup {SyncedTime[b] : b \in Bpm}, level : Value]
  BY <1>2, <1>3 DEF Effective, Slice
<1>5. e \in Engine
  BY <1>1, <1>4 DEF Engine, Track
<1>6. e # None
  BY <1>5, AudioAssumption
<1>7. t.enabled => EngineFor(p, i) = e
  BY DEF EngineFor
<1>8. ~t.enabled => EngineFor(p, i) = None
  BY DEF EngineFor
<1>. QED  BY <1>6, <1>7, <1>8

\* Pushing the synced times is all that a change of tempo asks for.
LEMMA TempoNeedsNoMore ==
  ASSUME NEW g, NEW q \in ProjectType, NEW b \in Bpm, g.engines = AllEngines(q)
  PROVE  BpmHeard(g, [q EXCEPT !.bpm = b]).engines = AllEngines([q EXCEPT !.bpm = b])
<1>. DEFINE p == [q EXCEPT !.bpm = b]
            timed(i) == p.tracks[i].engines["synth2"].timed
            heard(i) == IF p.tracks[i].engineType = "synth2" /\ g.engines[i] # None /\ timed(i).sync
                        THEN [g.engines[i] EXCEPT !.params.timed = EffectiveTime(timed(i), p.bpm)]
                        ELSE g.engines[i]
<1>1. p \in ProjectType /\ p.tracks = q.tracks /\ p.bpm = b
  BY DEF ProjectType
<1>2. BpmHeard(g, p).engines = [i \in Slot |-> heard(i)]
  BY DEF BpmHeard
<1>3. ASSUME NEW i \in Slot
      PROVE  heard(i) = EngineFor(p, i)
  <2>1. g.engines[i] = EngineFor(q, i)
    BY DEF AllEngines
  <2>2. CASE ~q.tracks[i].enabled
    BY <1>1, <2>1, <2>2, EngineIsThere DEF EngineFor
  <2>3. CASE q.tracks[i].enabled
    <3>. DEFINE t == q.tracks[i]  s == SliceOf(q, i)
    <3>1. g.engines[i] = [type |-> t.engineType, params |-> Effective(t.engineType, s, q.bpm)]
      BY <2>1, <2>3, EngineIsThere
    <3>2. EngineFor(p, i) = [type |-> t.engineType, params |-> Effective(t.engineType, s, b)]
      BY <1>1, <2>3, EngineIsThere DEF SliceOf
    <3>3. g.engines[i] # None
      BY <2>1, <2>3, EngineIsThere
    <3>4. CASE t.engineType = "synth2" /\ s.timed.sync
      <4>1. s = t.engines["synth2"] /\ timed(i) = s.timed
        BY <1>1, <3>4 DEF SliceOf
      <4>2. heard(i) = [g.engines[i] EXCEPT !.params.timed = EffectiveTime(s.timed, b)]
        BY <1>1, <3>3, <3>4, <4>1
      <4>. QED  BY <3>1, <3>2, <3>4, <4>2 DEF Effective
    <3>5. CASE ~(t.engineType = "synth2" /\ s.timed.sync)
      <4>1. heard(i) = g.engines[i]
        BY <1>1, <3>5 DEF SliceOf
      <4>2. Effective(t.engineType, s, b) = Effective(t.engineType, s, q.bpm)
        BY <3>5 DEF Effective, EffectiveTime
      <4>. QED  BY <3>1, <3>2, <4>1, <4>2
    <3>. QED  BY <3>4, <3>5
  <2>. QED  BY <2>2, <2>3
<1>. HIDE DEF heard
<1>. QED  BY <1>2, <1>3 DEF AllEngines

\* And the one key of a slice that was written is all that its engine has to be told.
LEMMA KeySuffices ==
  ASSUME NEW g, NEW q \in ProjectType, NEW p \in ProjectType,
         NEW i \in Slot, NEW type \in EngineType, NEW key \in {"timed", "level"},
         g.engines = AllEngines(q), p.bpm = q.bpm,
         \A j \in Slot \ {i} : p.tracks[j] = q.tracks[j],
         p.tracks[i].enabled = q.tracks[i].enabled,
         p.tracks[i].engineType = q.tracks[i].engineType,
         \A t \in EngineType \ {type} : p.tracks[i].engines[t] = q.tracks[i].engines[t],
         key = "level" => p.tracks[i].engines[type].timed = q.tracks[i].engines[type].timed,
         key = "timed" => p.tracks[i].engines[type].level = q.tracks[i].engines[type].level
  PROVE  KeyApplied(g, p, i, type, key).engines = AllEngines(p)
<1>1. \A j \in Slot \ {i} : EngineFor(p, j) = EngineFor(q, j)
  BY DEF EngineFor, SliceOf
<1>2. g.engines[i] = EngineFor(q, i)
  BY DEF AllEngines
<1>t. q.tracks[i].engineType \in EngineType
  BY DEF ProjectType, Track
<1>3. CASE p.tracks[i].engineType # type \/ g.engines[i] = None
  <2>1. KeyApplied(g, p, i, type, key).engines = g.engines
    BY <1>3 DEF KeyApplied
  <2>2. EngineFor(p, i) = EngineFor(q, i)
    <3>1. CASE p.tracks[i].engineType # type
      <4>1. SliceOf(p, i) = SliceOf(q, i)
        BY <3>1, <1>t DEF SliceOf
      <4>. QED  BY <4>1 DEF EngineFor
    <3>2. CASE g.engines[i] = None
      <4>1. ~q.tracks[i].enabled
        BY <3>2, <1>2, EngineIsThere
      <4>. QED  BY <4>1 DEF EngineFor
    <3>. QED  BY <1>3, <3>1, <3>2
  <2>. QED  BY <2>1, <2>2, <1>1, <1>2 DEF AllEngines
<1>4. CASE p.tracks[i].engineType = type /\ g.engines[i] # None
  <2>. DEFINE s == SliceOf(p, i)  old == SliceOf(q, i)
              fresh == Effective(type, s, p.bpm)  was == Effective(type, old, p.bpm)
  <2>1. q.tracks[i].enabled
    BY <1>2, <1>4, EngineIsThere
  <2>2. g.engines[i] = [type |-> type, params |-> was]
    BY <1>2, <1>4, <2>1, EngineIsThere
  <2>3. EngineFor(p, i) = [type |-> type, params |-> fresh]
    BY <1>4, <2>1, EngineIsThere
  <2>4. KeyApplied(g, p, i, type, key).engines = [g.engines EXCEPT ![i].params[key] = fresh[key]]
    BY <1>4 DEF KeyApplied
  <2>5. s = p.tracks[i].engines[type] /\ old = q.tracks[i].engines[type]
    BY <1>4 DEF SliceOf
  <2>6. fresh = [was EXCEPT ![key] = fresh[key]]
    <3>1. CASE key = "level"
      <4>1. s.timed = old.timed
        BY <2>5, <3>1
      <4>. QED  BY <3>1, <4>1 DEF Effective
    <3>2. CASE key = "timed"
      <4>1. s.level = old.level
        BY <2>5, <3>2
      <4>. QED  BY <3>2, <4>1 DEF Effective
    <3>. QED  BY <3>1, <3>2
  <2>7. [g.engines[i] EXCEPT !.params[key] = fresh[key]] = [type |-> type, params |-> fresh]
    <3>. HIDE DEF fresh, was
    <3>1. [g.engines[i] EXCEPT !.params[key] = fresh[key]]
            = [type |-> type, params |-> [was EXCEPT ![key] = fresh[key]]]
      BY <2>2
    <3>. QED  BY <3>1, <2>6
  <2>8. [g.engines EXCEPT ![i].params[key] = fresh[key]] = [g.engines EXCEPT ![i] = EngineFor(p, i)]
    <3>. HIDE DEF fresh
    <3>1. [g.engines EXCEPT ![i].params[key] = fresh[key]]
            = [g.engines EXCEPT ![i] = [g.engines[i] EXCEPT !.params[key] = fresh[key]]]
      BY DEF AllEngines
    <3>. QED  BY <3>1, <2>3, <2>7
  <2>. QED  BY <2>4, <2>8, <1>1 DEF AllEngines
<1>. QED  BY <1>3, <1>4

-----------------------------------------------------------------------------
(* The invariant *)

LEMMA InitIInv == InitAudio => IInv
BY AudioAssumption DEF InitAudio, IInv, ProjectType, NoGraph

\* A command that writes a project and whose reaction builds its engines keeps the two
\* together, with the graph or without.
LEMMA WriteKeeps ==
  ASSUME IInv, NEW p \in ProjectType, NEW g, Write(p), React(g),
         boot = "up" => g.engines = AllEngines(p)
  PROVE  IInv'
<1>1. project' = p /\ boot' = boot
  BY DEF Write
<1>2. CASE boot = "up"
  BY <1>1, <1>2 DEF IInv, React, SetGraph, AllEngines
<1>3. CASE boot # "up"
  BY <1>1, <1>3 DEF IInv, React, graph
<1>. QED  BY <1>2, <1>3

LEMMA NextIInv == IInv /\ [NextAudio]_audioVars => IInv'
<1>. SUFFICES ASSUME IInv, [NextAudio]_audioVars PROVE IInv'
  OBVIOUS
<1>. USE DEF IInv
<1>g. boot = "up" => Graph.engines = AllEngines(project)
  BY DEF Graph
<1>1. CASE WriteAll
  <2>1. PICK p \in Project : Write(p) /\ React(FullySynced(Graph, p))
    BY <1>1 DEF WriteAll
  <2>2. p \in ProjectType
    BY AudioAssumption DEF ProjectType
  <2>. QED  BY <2>1, <2>2, FullSyncBuildsAll, WriteKeeps
<1>2. CASE WriteBpm
  <2>. DEFINE p(b) == [project EXCEPT !.bpm = b]
  <2>1. PICK b \in Bpm : Write(p(b)) /\ React(BpmHeard(Graph, p(b)))
    BY <1>2 DEF WriteBpm
  <2>2. p(b) \in ProjectType
    BY DEF ProjectType
  <2>3. boot = "up" => BpmHeard(Graph, p(b)).engines = AllEngines(p(b))
    BY <1>g, TempoNeedsNoMore
  <2>. QED  BY <2>1, <2>2, <2>3, WriteKeeps
<1>3. CASE WriteTrack
  <2>. DEFINE p(i, from) == [project EXCEPT !.tracks[i] = from.tracks[i]]
  <2>1. PICK i \in Slot, from \in Project :
          Write(p(i, from)) /\ React(GainsUpdated(TrackSynced(Graph, p(i, from), i), p(i, from)))
    BY <1>3 DEF WriteTrack
  <2>2. from.tracks[i] \in Track
    BY AudioAssumption
  <2>3. p(i, from) \in ProjectType
    BY <2>2 DEF ProjectType
  <2>4. p(i, from).bpm = project.bpm /\ \A j \in Slot \ {i} : p(i, from).tracks[j] = project.tracks[j]
    BY DEF ProjectType
  <2>. HIDE DEF p
  <2>5. boot = "up" => TrackSynced(Graph, p(i, from), i).engines = AllEngines(p(i, from))
    BY <1>g, <2>4, SlotSyncSuffices
  <2>. QED  BY <2>1, <2>3, <2>5, GainsKeepEngines, WriteKeeps
<1>4. CASE WriteType
  <2>. DEFINE p(i, t) == [project EXCEPT !.tracks[i].engineType = t]
  <2>1. PICK i \in Slot, t \in EngineType : Write(p(i, t)) /\ React(TrackSynced(Graph, p(i, t), i))
    BY <1>4 DEF WriteType
  <2>3. p(i, t) \in ProjectType
    BY DEF ProjectType, Track
  <2>4. p(i, t).bpm = project.bpm /\ \A j \in Slot \ {i} : p(i, t).tracks[j] = project.tracks[j]
    BY DEF ProjectType
  <2>. HIDE DEF p
  <2>5. boot = "up" => TrackSynced(Graph, p(i, t), i).engines = AllEngines(p(i, t))
    BY <1>g, <2>4, SlotSyncSuffices
  <2>. QED  BY <2>1, <2>3, <2>5, WriteKeeps
<1>5. CASE WriteEnabled
  <2>. DEFINE p(i) == [project EXCEPT !.tracks[i].enabled = ~project.tracks[i].enabled]
  <2>1. PICK i \in Slot : Write(p(i)) /\ React(GainsUpdated(TrackSynced(Graph, p(i), i), p(i)))
    BY <1>5 DEF WriteEnabled
  <2>2. (~project.tracks[i].enabled) \in BOOLEAN
    OBVIOUS
  <2>3. p(i) \in ProjectType
    BY <2>2 DEF ProjectType, Track
  <2>4. p(i).bpm = project.bpm /\ \A j \in Slot \ {i} : p(i).tracks[j] = project.tracks[j]
    BY DEF ProjectType
  <2>. HIDE DEF p
  <2>5. boot = "up" => TrackSynced(Graph, p(i), i).engines = AllEngines(p(i))
    BY <1>g, <2>4, SlotSyncSuffices
  <2>. QED  BY <2>1, <2>3, <2>5, GainsKeepEngines, WriteKeeps
<1>6. CASE WriteMixer
  <2>. DEFINE m(i) == [project EXCEPT !.tracks[i].muted = ~project.tracks[i].muted]
              s(i) == [project EXCEPT !.tracks[i].soloed = ~project.tracks[i].soloed]
  <2>i. PICK i \in Slot : \E p \in {m(i), s(i)} : Write(p) /\ React(GainsUpdated(Graph, p))
    BY <1>6 DEF WriteMixer
  <2>1. PICK p \in {m(i), s(i)} : Write(p) /\ React(GainsUpdated(Graph, p))
    BY <2>i
  <2>2. (~project.tracks[i].muted) \in BOOLEAN /\ (~project.tracks[i].soloed) \in BOOLEAN
    OBVIOUS
  <2>t. project.tracks[i] \in Track
    BY DEF ProjectType
  <2>3. p \in ProjectType
    <3>1. CASE p = m(i)
      <4>1. [project.tracks[i] EXCEPT !.muted = ~project.tracks[i].muted] \in Track
        BY <2>2, <2>t, Zenon DEF Track
      <4>2. m(i) = [project EXCEPT !.tracks =
                      [project.tracks EXCEPT ![i] = [project.tracks[i] EXCEPT !.muted = ~project.tracks[i].muted]]]
        BY <2>t, Zenon DEF ProjectType, Track
      <4>. QED  BY <3>1, <4>1, <4>2, Zenon DEF ProjectType
    <3>2. CASE p = s(i)
      <4>1. [project.tracks[i] EXCEPT !.soloed = ~project.tracks[i].soloed] \in Track
        BY <2>2, <2>t, Zenon DEF Track
      <4>2. s(i) = [project EXCEPT !.tracks =
                      [project.tracks EXCEPT ![i] = [project.tracks[i] EXCEPT !.soloed = ~project.tracks[i].soloed]]]
        BY <2>t, Zenon DEF ProjectType, Track
      <4>. QED  BY <3>2, <4>1, <4>2, Zenon DEF ProjectType
    <3>. QED  BY <3>1, <3>2
  <2>4. /\ p.bpm = project.bpm
        /\ \A j \in Slot : /\ p.tracks[j].enabled = project.tracks[j].enabled
                           /\ p.tracks[j].engineType = project.tracks[j].engineType
                           /\ p.tracks[j].engines = project.tracks[j].engines
    <3>1. CASE p = m(i)
      BY <3>1 DEF ProjectType, Track
    <3>2. CASE p = s(i)
      BY <3>2 DEF ProjectType, Track
    <3>. QED  BY <3>1, <3>2
  <2>5. AllEngines(p) = AllEngines(project)
    BY <2>4 DEF AllEngines, EngineFor, SliceOf
  <2>. QED  BY <1>g, <2>1, <2>3, <2>5, GainsKeepEngines, WriteKeeps
<1>7. CASE WriteParam
  <2>. DEFINE l(i, type, v) == [project EXCEPT !.tracks[i].engines[type].level = v]
              t(i, type, v) == [project EXCEPT !.tracks[i].engines[type].timed.time = v]
              s(i, type) == [project EXCEPT !.tracks[i].engines[type].timed.sync =
                                              ~project.tracks[i].engines[type].timed.sync]
  <2>1. PICK i \in Slot, type \in EngineType, v \in Value :
          \/ Write(l(i, type, v)) /\ React(KeyApplied(Graph, l(i, type, v), i, type, "level"))
          \/ \E p \in {t(i, type, v), s(i, type)} :
               Write(p) /\ React(KeyApplied(Graph, p, i, type, "timed"))
    BY <1>7 DEF WriteParam
  <2>2. project.tracks[i] \in Track /\ project.tracks[i].engines[type] \in Slice
    BY DEF ProjectType, Track
  <2>3. (~project.tracks[i].engines[type].timed.sync) \in BOOLEAN
    OBVIOUS
  <2>4. CASE Write(l(i, type, v)) /\ React(KeyApplied(Graph, l(i, type, v), i, type, "level"))
    <3>. DEFINE p == l(i, type, v)
    <3>1. p \in ProjectType
      BY <2>2 DEF ProjectType, Track, Slice
    <3>2. /\ p.bpm = project.bpm /\ \A j \in Slot \ {i} : p.tracks[j] = project.tracks[j]
          /\ p.tracks[i].enabled = project.tracks[i].enabled
          /\ p.tracks[i].engineType = project.tracks[i].engineType
          /\ \A u \in EngineType \ {type} : p.tracks[i].engines[u] = project.tracks[i].engines[u]
          /\ p.tracks[i].engines[type].timed = project.tracks[i].engines[type].timed
      BY <2>2 DEF ProjectType, Track, Slice
    <3>. HIDE DEF p
    <3>3. boot = "up" => KeyApplied(Graph, p, i, type, "level").engines = AllEngines(p)
      BY <1>g, <3>1, <3>2, KeySuffices
    <3>. QED  BY <2>4, <3>1, <3>3, WriteKeeps DEF p
  <2>5. CASE \E p \in {t(i, type, v), s(i, type)} :
               Write(p) /\ React(KeyApplied(Graph, p, i, type, "timed"))
    <3>. PICK p \in {t(i, type, v), s(i, type)} :
           Write(p) /\ React(KeyApplied(Graph, p, i, type, "timed"))
      BY <2>5
    <3>1. p \in ProjectType
      <4>1. CASE p = t(i, type, v)
        BY <2>2, <4>1 DEF ProjectType, Track, Slice
      <4>2. CASE p = s(i, type)
        BY <2>2, <2>3, <4>2 DEF ProjectType, Track, Slice
      <4>. QED  BY <4>1, <4>2
    <3>2. /\ p.bpm = project.bpm /\ \A j \in Slot \ {i} : p.tracks[j] = project.tracks[j]
          /\ p.tracks[i].enabled = project.tracks[i].enabled
          /\ p.tracks[i].engineType = project.tracks[i].engineType
          /\ \A u \in EngineType \ {type} : p.tracks[i].engines[u] = project.tracks[i].engines[u]
          /\ p.tracks[i].engines[type].level = project.tracks[i].engines[type].level
      <4>1. CASE p = t(i, type, v)
        BY <2>2, <4>1 DEF ProjectType, Track, Slice
      <4>2. CASE p = s(i, type)
        BY <2>2, <4>2 DEF ProjectType, Track, Slice
      <4>. QED  BY <4>1, <4>2
    <3>3. boot = "up" => KeyApplied(Graph, p, i, type, "timed").engines = AllEngines(p)
      <4>. SUFFICES ASSUME boot = "up" PROVE KeyApplied(Graph, p, i, type, "timed").engines = AllEngines(p)
        OBVIOUS
      <4>. HIDE DEF t, s
      <4>. QED  BY <1>g, <3>1, <3>2, KeySuffices
    <3>. QED  BY <3>1, <3>3, WriteKeeps
  <2>. QED  BY <2>1, <2>4, <2>5
<1>8. CASE TogglePlay
  <2>1. project' = project /\ engines' = engines
    BY <1>8 DEF TogglePlay, graph
  <2>2. boot' = boot \/ (boot = "none" /\ boot' = "loading")
    BY <1>8 DEF TogglePlay
  <2>. QED  BY <2>1, <2>2 DEF AllEngines
<1>9. CASE Booted
  BY <1>9, FullSyncBuildsAll DEF Booted, SetGraph
<1>10. CASE BootFails
  BY <1>10 DEF BootFails, graph
<1>11. CASE FadeDone
  <2>1. project' = project /\ engines' = engines /\ boot' = boot
    BY <1>11 DEF FadeDone, SetGraph, GainsUpdated
  <2>. QED  BY <2>1 DEF AllEngines
<1>12. CASE Leave \/ Enter
  BY <1>12 DEF Leave, Enter, graph, AllEngines
<1>13. CASE Dispose
  BY <1>13 DEF Dispose, SetGraph
<1>14. CASE UNCHANGED audioVars
  BY <1>14 DEF audioVars, graph, AllEngines
<1>. QED
  BY <1>1, <1>2, <1>3, <1>4, <1>5, <1>6, <1>7, <1>8, <1>9, <1>10, <1>11, <1>12, <1>13, <1>14
  DEF NextAudio

THEOREM EngineInvariant == AudioSpec => []IInv
BY InitIInv, NextIInv, PTL DEF AudioSpec

\* While the graph is up every enabled slot has an engine of the project's type that was
\* told the project's parameters, and no other slot has one (AudioEngine's onCommand).
THEOREM EnginesFollowProject == AudioSpec => []EnginesMatch
<1>1. IInv => EnginesMatch
  BY DEF IInv, EnginesMatch, AllEngines, EngineFor
<1>. QED  BY <1>1, EngineInvariant, PTL

-----------------------------------------------------------------------------
(* The gains *)

\* A slot's gain is the mixer's unless something fades in it.
Settled(g, p) ==
  /\ g.fading \in [Slot -> Nat] /\ g.gains \in [Slot -> {0, 1}]
  /\ \A i \in Slot : g.fading[i] = 0 => g.gains[i] = MixerGains(p)[i]

GInv == boot = "up" => Settled(Graph, project)

\* Faders and switches that the mixer does not read leave the gains alone.
SameMixer(p, q) ==
  \A i \in Slot : /\ p.tracks[i].enabled = q.tracks[i].enabled
                  /\ p.tracks[i].muted = q.tracks[i].muted
                  /\ p.tracks[i].soloed = q.tracks[i].soloed

LEMMA SameMixerSameGains ==
  ASSUME NEW p, NEW q, SameMixer(p, q)
  PROVE  MixerGains(p) = MixerGains(q)
BY DEF SameMixer, MixerGains

LEMMA MixerSettles ==
  ASSUME NEW g, NEW p, g.fading \in [Slot -> Nat]
  PROVE  Settled(GainsUpdated(g, p), p)
<1>1. MixerGains(p) \in [Slot -> {0, 1}]
  BY DEF MixerGains
<1>2. GainsUpdated(g, p).fading = g.fading /\ GainsUpdated(g, p).gains = MixerGains(p)
  BY DEF GainsUpdated
<1>. QED  BY <1>1, <1>2 DEF Settled

\* Syncing a slot either leaves its gain or fades in it.
LEMMA SyncStaysSettled ==
  ASSUME NEW g, NEW p, NEW q, NEW i \in Slot, Settled(g, q), SameMixer(p, q)
  PROVE  Settled(TrackSynced(g, p, i), p)
<1>1. CASE Parting(g, p, i)
  <2>1. /\ TrackSynced(g, p, i).fading = [g.fading EXCEPT ![i] = g.fading[i] + 1]
        /\ TrackSynced(g, p, i).gains = [g.gains EXCEPT ![i] = 0]
    BY <1>1 DEF TrackSynced, FadedOut
  <2>. QED  BY <2>1, SameMixerSameGains DEF Settled
<1>2. CASE ~Parting(g, p, i)
  <2>1. TrackSynced(g, p, i).fading = g.fading /\ TrackSynced(g, p, i).gains = g.gains
    BY <1>2 DEF TrackSynced
  <2>. QED  BY <2>1, SameMixerSameGains DEF Settled
<1>. QED  BY <1>1, <1>2

LEMMA SyncKeepsFadingType ==
  ASSUME NEW g, NEW p, NEW i \in Slot, g.fading \in [Slot -> Nat]
  PROVE  TrackSynced(g, p, i).fading \in [Slot -> Nat]
BY DEF TrackSynced, FadedOut

LEMMA WriteKeepsSettled ==
  ASSUME GInv, NEW p, NEW g, Write(p), React(g), boot = "up" => Settled(g, p)
  PROVE  GInv'
<1>1. project' = p /\ boot' = boot
  BY DEF Write
<1>2. CASE boot = "up"
  <2>1. Graph'.gains = g.gains /\ Graph'.fading = g.fading
    BY <1>2 DEF Graph, React, SetGraph
  <2>. QED  BY <1>1, <1>2, <2>1 DEF GInv, Settled
<1>. QED  BY <1>1, <1>2 DEF GInv

LEMMA NextGInv == IInv /\ GInv /\ [NextAudio]_audioVars => GInv'
<1>. SUFFICES ASSUME IInv, GInv, [NextAudio]_audioVars PROVE GInv'
  OBVIOUS
<1>g. boot = "up" => Settled(Graph, project) /\ Graph.fading \in [Slot -> Nat]
  BY DEF GInv, Settled
<1>p. project \in ProjectType
  BY DEF IInv
<1>1. CASE WriteAll
  <2>1. PICK p \in Project : Write(p) /\ React(FullySynced(Graph, p))
    BY <1>1 DEF WriteAll
  <2>. DEFINE f == [i \in Slot |-> IF Parting(Graph, p, i) THEN Graph.fading[i] + 1 ELSE Graph.fading[i]]
              g == [engines |-> [i \in Slot |-> EngineFor(p, i)], gains |-> Graph.gains, fading |-> f]
  <2>2. boot = "up" => g.fading \in [Slot -> Nat]
    BY <1>g
  <2>3. FullySynced(Graph, p) = GainsUpdated(g, p)
    BY DEF FullySynced
  <2>. HIDE DEF g
  <2>4. boot = "up" => Settled(FullySynced(Graph, p), p)
    BY <2>2, <2>3, MixerSettles
  <2>. QED  BY <2>1, <2>4, WriteKeepsSettled
<1>2. CASE WriteBpm
  <2>. DEFINE p(b) == [project EXCEPT !.bpm = b]
  <2>1. PICK b \in Bpm : Write(p(b)) /\ React(BpmHeard(Graph, p(b)))
    BY <1>2 DEF WriteBpm
  <2>2. SameMixer(p(b), project)
    BY <1>p DEF SameMixer, ProjectType
  <2>. HIDE DEF p
  <2>3. BpmHeard(Graph, p(b)).gains = Graph.gains /\ BpmHeard(Graph, p(b)).fading = Graph.fading
    BY DEF BpmHeard
  <2>4. boot = "up" => Settled(BpmHeard(Graph, p(b)), p(b))
    BY <1>g, <2>2, <2>3, SameMixerSameGains DEF Settled
  <2>. QED  BY <2>1, <2>4, WriteKeepsSettled
<1>3. CASE WriteTrack \/ WriteEnabled
  <2>1. PICK i \in Slot : \E p : Write(p) /\ React(GainsUpdated(TrackSynced(Graph, p, i), p))
    BY <1>3 DEF WriteTrack, WriteEnabled
  <2>2. PICK p : Write(p) /\ React(GainsUpdated(TrackSynced(Graph, p, i), p))
    BY <2>1
  <2>3. boot = "up" => Settled(GainsUpdated(TrackSynced(Graph, p, i), p), p)
    BY <1>g, SyncKeepsFadingType, MixerSettles
  <2>. QED  BY <2>2, <2>3, WriteKeepsSettled
<1>4. CASE WriteType
  <2>. DEFINE p(i, t) == [project EXCEPT !.tracks[i].engineType = t]
  <2>1. PICK i \in Slot, t \in EngineType : Write(p(i, t)) /\ React(TrackSynced(Graph, p(i, t), i))
    BY <1>4 DEF WriteType
  <2>2. SameMixer(p(i, t), project)
    BY <1>p DEF SameMixer, ProjectType, Track
  <2>. HIDE DEF p
  <2>3. boot = "up" => Settled(TrackSynced(Graph, p(i, t), i), p(i, t))
    BY <1>g, <2>2, SyncStaysSettled
  <2>. QED  BY <2>1, <2>3, WriteKeepsSettled
<1>5. CASE WriteMixer
  <2>1. PICK p : Write(p) /\ React(GainsUpdated(Graph, p))
    BY <1>5 DEF WriteMixer
  <2>2. boot = "up" => Settled(GainsUpdated(Graph, p), p)
    BY <1>g, MixerSettles
  <2>. QED  BY <2>1, <2>2, WriteKeepsSettled
<1>6. CASE WriteParam
  <2>. DEFINE l(i, type, v) == [project EXCEPT !.tracks[i].engines[type].level = v]
              t(i, type, v) == [project EXCEPT !.tracks[i].engines[type].timed.time = v]
              s(i, type) == [project EXCEPT !.tracks[i].engines[type].timed.sync =
                                              ~project.tracks[i].engines[type].timed.sync]
  <2>1. PICK i \in Slot, type \in EngineType, v \in Value :
          \/ Write(l(i, type, v)) /\ React(KeyApplied(Graph, l(i, type, v), i, type, "level"))
          \/ \E p \in {t(i, type, v), s(i, type)} :
               Write(p) /\ React(KeyApplied(Graph, p, i, type, "timed"))
    BY <1>6 DEF WriteParam
  <2>2. /\ SameMixer(l(i, type, v), project)
        /\ SameMixer(t(i, type, v), project)
        /\ SameMixer(s(i, type), project)
    <3>1. SameMixer(l(i, type, v), project)
      BY <1>p DEF SameMixer, ProjectType, Track
    <3>2. SameMixer(t(i, type, v), project)
      BY <1>p DEF SameMixer, ProjectType, Track
    <3>3. SameMixer(s(i, type), project)
      BY <1>p DEF SameMixer, ProjectType, Track
    <3>. QED  BY <3>1, <3>2, <3>3
  <2>3. PICK p : \E key : /\ p \in {l(i, type, v), t(i, type, v), s(i, type)}
                        /\ Write(p) /\ React(KeyApplied(Graph, p, i, type, key))
    BY <2>1
  <2>4. PICK key : Write(p) /\ React(KeyApplied(Graph, p, i, type, key))
    BY <2>3
  <2>5. SameMixer(p, project)
    BY <2>2, <2>3
  <2>6. /\ KeyApplied(Graph, p, i, type, key).gains = Graph.gains
        /\ KeyApplied(Graph, p, i, type, key).fading = Graph.fading
    BY DEF KeyApplied
  <2>7. boot = "up" => Settled(KeyApplied(Graph, p, i, type, key), p)
    BY <1>g, <2>5, <2>6, SameMixerSameGains DEF Settled
  <2>. QED  BY <2>4, <2>7, WriteKeepsSettled
<1>7. CASE TogglePlay
  <2>1. project' = project /\ gains' = gains /\ fading' = fading
    BY <1>7 DEF TogglePlay, graph
  <2>2. boot' = boot \/ (boot = "none" /\ boot' = "loading")
    BY <1>7 DEF TogglePlay, IInv
  <2>. QED  BY <2>1, <2>2 DEF GInv, Settled, Graph
<1>8. CASE Booted
  <2>. DEFINE f == [i \in Slot |-> IF Parting(NoGraph, project, i) THEN NoGraph.fading[i] + 1
                                  ELSE NoGraph.fading[i]]
              g == [engines |-> [i \in Slot |-> EngineFor(project, i)], gains |-> NoGraph.gains,
                    fading |-> f]
  <2>1. g.fading \in [Slot -> Nat]
    BY DEF NoGraph
  <2>2. FullySynced(NoGraph, project) = GainsUpdated(g, project)
    BY DEF FullySynced
  <2>. HIDE DEF g
  <2>3. Settled(FullySynced(NoGraph, project), project)
    BY <2>1, <2>2, MixerSettles
  <2>4. /\ project' = project
        /\ Graph'.gains = FullySynced(NoGraph, project).gains
        /\ Graph'.fading = FullySynced(NoGraph, project).fading
    BY <1>8 DEF Booted, SetGraph, Graph
  <2>. QED  BY <2>3, <2>4 DEF GInv, Settled
<1>9. CASE FadeDone
  <2>1. PICK i \in Slot :
          /\ fading[i] > 0
          /\ SetGraph(GainsUpdated([engines |-> engines, gains |-> gains,
                                   fading |-> [fading EXCEPT ![i] = @ - 1]], project))
          /\ project' = project /\ boot' = boot
    BY <1>9 DEF FadeDone
  <2>. DEFINE g == [engines |-> engines, gains |-> gains, fading |-> [fading EXCEPT ![i] = fading[i] - 1]]
  <2>2. boot = "up" => g.fading \in [Slot -> Nat]
    BY <1>g, <2>1 DEF Graph
  <2>3. SetGraph(GainsUpdated(g, project))
    BY <2>1
  <2>. HIDE DEF g
  <2>4. Graph'.gains = GainsUpdated(g, project).gains /\ Graph'.fading = GainsUpdated(g, project).fading
    BY <2>3 DEF SetGraph, Graph
  <2>5. boot = "up" => Settled(GainsUpdated(g, project), project)
    BY <2>2, MixerSettles
  <2>. QED  BY <2>1, <2>4, <2>5 DEF GInv, Settled
<1>10. CASE BootFails \/ Dispose
  BY <1>10 DEF BootFails, Dispose, GInv
<1>11. CASE Leave \/ Enter \/ UNCHANGED audioVars
  BY <1>11 DEF Leave, Enter, audioVars, graph, GInv, Settled, Graph
<1>. QED
  BY <1>1, <1>2, <1>3, <1>4, <1>5, <1>6, <1>7, <1>8, <1>9, <1>10, <1>11 DEF NextAudio

\* A slot in which nothing fades has the gain the mixer asks for, whatever swaps, mutes and
\* solos came while something faded (updateMixerGains and the timer's call of it).
THEOREM GainsFollowMixer == AudioSpec => []GainsSettle
<1>1. InitAudio => GInv
  BY DEF InitAudio, GInv
<1>2. IInv /\ GInv => GainsSettle
  <2>. SUFFICES ASSUME GInv, boot = "up", NEW i \in Slot, fading[i] = 0
                PROVE  gains[i] = IF Audible(i) THEN 1 ELSE 0
    BY DEF GainsSettle
  <2>1. gains[i] = MixerGains(project)[i]
    BY DEF GInv, Settled, Graph
  <2>. QED  BY <2>1 DEF MixerGains, Audible
<1>. QED  BY <1>1, <1>2, NextGInv, EngineInvariant, PTL DEF AudioSpec

-----------------------------------------------------------------------------
(* The context *)

CInv ==
  /\ contexts = IF boot = "none" THEN 0 ELSE 1
  /\ boot # "up" => ~playing /\ fading = NoGraph.fading

LEMMA NextCInv == IInv /\ CInv /\ [NextAudio]_audioVars => CInv'
<1>. SUFFICES ASSUME IInv, CInv, [NextAudio]_audioVars PROVE CInv'
  OBVIOUS
<1>. USE DEF CInv
<1>1. ASSUME NEW p, NEW g, Write(p), React(g) PROVE CInv'
  <2>1. boot' = boot /\ contexts' = contexts /\ playing' = playing
    BY <1>1 DEF Write
  <2>2. boot # "up" => fading' = fading
    BY <1>1 DEF React, graph
  <2>. QED  BY <2>1, <2>2
<1>11. CASE WriteAll
  <2>1. PICK p \in Project : Write(p) /\ React(FullySynced(Graph, p))
    BY <1>11 DEF WriteAll
  <2>. QED  BY <1>1, <2>1
<1>12. CASE WriteBpm
  <2>1. PICK b \in Bpm : LET p == [project EXCEPT !.bpm = b]
                         IN Write(p) /\ React(BpmHeard(Graph, p))
    BY <1>12 DEF WriteBpm
  <2>. QED  BY <1>1, <2>1
<1>13. CASE WriteTrack
  <2>1. PICK i \in Slot, from \in Project :
          LET p == [project EXCEPT !.tracks[i] = from.tracks[i]]
          IN Write(p) /\ React(GainsUpdated(TrackSynced(Graph, p, i), p))
    BY <1>13 DEF WriteTrack
  <2>. QED  BY <1>1, <2>1
<1>14. CASE WriteType
  <2>1. PICK i \in Slot, t \in EngineType :
          LET p == [project EXCEPT !.tracks[i].engineType = t]
          IN Write(p) /\ React(TrackSynced(Graph, p, i))
    BY <1>14 DEF WriteType
  <2>. QED  BY <1>1, <2>1
<1>15. CASE WriteEnabled
  <2>1. PICK i \in Slot :
          LET p == [project EXCEPT !.tracks[i].enabled = ~@]
          IN Write(p) /\ React(GainsUpdated(TrackSynced(Graph, p, i), p))
    BY <1>15 DEF WriteEnabled
  <2>. QED  BY <1>1, <2>1
<1>16. CASE WriteMixer
  <2>1. PICK i \in Slot :
          \E p \in {[project EXCEPT !.tracks[i].muted = ~@], [project EXCEPT !.tracks[i].soloed = ~@]} :
            Write(p) /\ React(GainsUpdated(Graph, p))
    BY <1>16 DEF WriteMixer
  <2>. QED  BY <1>1, <2>1
<1>17. CASE WriteParam
  <2>. DEFINE l(i, type, v) == [project EXCEPT !.tracks[i].engines[type].level = v]
              t(i, type, v) == [project EXCEPT !.tracks[i].engines[type].timed.time = v]
              s(i, type) == [project EXCEPT !.tracks[i].engines[type].timed.sync =
                                              ~project.tracks[i].engines[type].timed.sync]
  <2>1. PICK i \in Slot, type \in EngineType, v \in Value :
          \/ Write(l(i, type, v)) /\ React(KeyApplied(Graph, l(i, type, v), i, type, "level"))
          \/ \E p \in {t(i, type, v), s(i, type)} :
               Write(p) /\ React(KeyApplied(Graph, p, i, type, "timed"))
    BY <1>17 DEF WriteParam
  <2>. HIDE DEF l, t, s
  <2>2. CASE Write(l(i, type, v)) /\ React(KeyApplied(Graph, l(i, type, v), i, type, "level"))
    BY <1>1, <2>2
  <2>3. CASE \E p \in {t(i, type, v), s(i, type)} :
               Write(p) /\ React(KeyApplied(Graph, p, i, type, "timed"))
    BY <1>1, <2>3
  <2>. QED  BY <2>1, <2>2, <2>3
<1>3. CASE TogglePlay
  <2>. fading' = fading
    BY <1>3 DEF TogglePlay, graph
  <2>1. CASE boot = "up"
    <3>1. boot' = "up" /\ contexts' = contexts
      BY <1>3, <2>1 DEF TogglePlay
    <3>. QED  BY <2>1, <3>1
  <2>2. CASE boot = "failed"
    <3>1. boot' = "failed" /\ contexts' = contexts /\ playing' = playing
      BY <1>3, <2>2 DEF TogglePlay
    <3>. QED  BY <2>2, <3>1
  <2>3. CASE boot = "none"
    <3>1. boot' = "loading" /\ contexts' = contexts + 1 /\ playing' = playing
      BY <1>3, <2>3 DEF TogglePlay
    <3>. QED  BY <2>3, <3>1
  <2>4. CASE boot = "loading"
    <3>1. boot' = "loading" /\ contexts' = contexts /\ playing' = playing
      BY <1>3, <2>4 DEF TogglePlay
    <3>. QED  BY <2>4, <3>1
  <2>. QED  BY <2>1, <2>2, <2>3, <2>4 DEF IInv
<1>4. CASE Booted
  BY <1>4 DEF Booted
<1>5. CASE BootFails
  BY <1>5 DEF BootFails, graph
<1>6. CASE FadeDone
  <2>1. CASE boot = "up"
    BY <1>6, <2>1 DEF FadeDone
  <2>2. CASE boot # "up"
    BY <1>6, <2>2 DEF FadeDone, NoGraph
  <2>. QED  BY <2>1, <2>2
<1>7. CASE Leave
  BY <1>7 DEF Leave, graph
<1>8. CASE Enter
  BY <1>8 DEF Enter, graph
<1>9. CASE Dispose
  BY <1>9 DEF Dispose, SetGraph
<1>10. CASE UNCHANGED audioVars
  BY <1>10 DEF audioVars, graph
<1>. QED  BY <1>3, <1>4, <1>5, <1>6, <1>7, <1>8, <1>9, <1>10, <1>11, <1>12, <1>13, <1>14, <1>15, <1>16, <1>17
          DEF NextAudio

\* One context at most, and no transport, engine or pending disposal without one (dispose).
THEOREM NothingIsLeft == AudioSpec => []NothingOutlivesContext
<1>1. InitAudio => CInv
  BY DEF InitAudio, CInv
<1>2. IInv /\ CInv => NothingOutlivesContext
  BY DEF IInv, CInv, NothingOutlivesContext, NoGraph
<1>. QED  BY <1>1, <1>2, NextCInv, EngineInvariant, PTL DEF AudioSpec
-----------------------------------------------------------------------------
(* The transport *)

\* The anchor moves by a natural number of frames.
LEMMA StepLeads ==
  ASSUME NEW n \in Nat, n > 0, NEW b \in Tempo
  PROVE  (n - 1) * StepTime[b] \in Nat
<1>1. n - 1 \in Nat /\ StepTime[b] \in Nat
  BY SequencerAssumption
<1> QED
  BY <1>1

\* One step on from an anchor is one step more.
LEMMA OneStepMore ==
  ASSUME NEW n \in Nat, n > 0, NEW d \in Nat, NEW a \in Nat
  PROVE  a + n * d = (a + (n - 1) * d) + d
OBVIOUS

\* What TypeOK says apart from isPlaying being Boolean.
Timing ==
  /\ now \in Nat /\ bpm \in Tempo
  /\ internals \in Internals
  /\ until \in Nat \cup {NoTick}
  /\ until # NoTick => isPlaying /\ internals.lastBpm = bpm

PlayingOK == isPlaying \in BOOLEAN

\* A rebase leaves well-typed internals at the project's tempo.
LEMMA RebasedType ==
  ASSUME internals \in Internals, bpm \in Tempo
  PROVE  Rebased(internals) \in Internals /\ Rebased(internals).lastBpm = bpm
<1> USE DEF Internals
<1>1. CASE internals.lastBpm = bpm
  BY <1>1 DEF Rebased
<1>2. CASE internals.lastBpm # bpm /\ internals.nextStepIndex = 0
  BY <1>2 DEF Rebased
<1>3. CASE internals.lastBpm # bpm /\ internals.nextStepIndex # 0
  <2>1. (internals.nextStepIndex - 1) * StepTime[internals.lastBpm] \in Nat
    BY <1>3, StepLeads
  <2>2. internals.scheduleStartTime + (internals.nextStepIndex - 1) * StepTime[internals.lastBpm]
          \in Nat
    BY <2>1
  <2> QED
    BY <1>3, <2>2 DEF Rebased
<1> QED
  BY <1>1, <1>2, <1>3

\* Counting a step leaves well-typed internals at their tempo.
LEMMA CountedType ==
  ASSUME NEW s \in Internals
  PROVE  /\ [s EXCEPT !.currentStep = @ + 1, !.nextStepIndex = @ + 1] \in Internals
         /\ [s EXCEPT !.currentStep = @ + 1, !.nextStepIndex = @ + 1].lastBpm = s.lastBpm
<1>1. s.currentStep + 1 \in Nat /\ s.nextStepIndex + 1 \in Nat
  BY DEF Internals
<1> QED
  BY <1>1 DEF Internals

\* The transport's state stays well typed, and a tick goes by the tempo it has read.
THEOREM TypeCorrect == Spec => []TypeOK
<1>1. Init => Timing
  BY DEF Init, Timing, Internals
<1>2. Init => PlayingOK
  BY DEF Init, PlayingOK
<1>3. Timing /\ [Next]_seqVars => Timing'
  <2> SUFFICES ASSUME Timing, [Next]_seqVars PROVE Timing'
    OBVIOUS
  <2> USE SequencerAssumption DEF Timing, Idle
  <2>1. CASE Start
    BY <2>1 DEF Start, Internals
  <2>2. CASE Stop
    BY <2>2 DEF Stop
  <2>3. ASSUME NEW b \in Tempo, SetBpm(b) PROVE Timing'
    BY <2>3 DEF SetBpm
  <2>4. CASE Tick
    <3>1. internals' \in Internals /\ internals'.lastBpm = bpm
      BY <2>4, RebasedType DEF Tick
    <3>2. isPlaying'
      BY <2>4 DEF Tick
    <3>3. now' \in Nat /\ bpm' \in Tempo /\ until' \in Nat \cup {NoTick} /\ bpm' = bpm
      BY <2>4 DEF Tick
    <3> QED
      BY <3>1, <3>2, <3>3
  <2>5. CASE Step
    <3>1. internals' = [internals EXCEPT !.currentStep = @ + 1, !.nextStepIndex = @ + 1]
      BY <2>5 DEF Step
    <3>2. internals' \in Internals /\ internals'.lastBpm = internals.lastBpm
      <4>1. internals \in Internals
        BY Zenon DEF Timing
      <4> QED
        BY <3>1, <4>1, CountedType, Zenon
    <3>3. UNCHANGED <<now, bpm, until>> /\ isPlaying' = isPlaying
      BY <2>5 DEF Step
    <3> QED
      BY <3>2, <3>3
  <2>6. CASE EndTick
    BY <2>6 DEF EndTick
  <2>7. CASE Advance
    BY <2>7 DEF Advance
  <2>8. CASE UNCHANGED seqVars
    BY <2>8 DEF seqVars
  <2> QED
    BY <2>1, <2>2, <2>3, <2>4, <2>5, <2>6, <2>7, <2>8 DEF Next
<1>4. PlayingOK /\ [Next]_seqVars => PlayingOK'
  BY DEF PlayingOK, Next, Start, Stop, SetBpm, Tick, Step, EndTick, Advance, seqVars
<1>5. Timing /\ PlayingOK => TypeOK
  BY Zenon DEF Timing, PlayingOK, TypeOK
<1> QED
  BY <1>1, <1>2, <1>3, <1>4, <1>5, PTL DEF Spec

\* The transport implements the step clock, for every set of tempos and step lengths,
\* look-ahead and timing of its timer.
THEOREM Refinement == Spec => StepsOnTime
<1> USE SequencerAssumption DEF TypeOK, Internals
<1>1. Init => Clock!Init
  BY DEF Init, Clock!Init, LastDue
<1>2. TypeOK /\ TypeOK' /\ [Next]_seqVars => [Clock!Next]_Clock!vars
  <2> SUFFICES ASSUME TypeOK, TypeOK', [Next]_seqVars PROVE [Clock!Next]_Clock!vars
    OBVIOUS
  <2>1. CASE Start
    <3>1. LastDue' \in Nat
      BY <2>1 DEF Start, LastDue
    <3> QED
      BY <2>1, <3>1 DEF Start, Clock!Next, Clock!Begin
  <2>2. CASE Stop
    BY <2>2 DEF Stop, LastDue, Clock!Next, Clock!End
  <2>3. ASSUME NEW b \in Tempo, SetBpm(b) PROVE [Clock!Next]_Clock!vars
    BY <2>3 DEF SetBpm, LastDue, Clock!Next, Clock!ChangeTempo
  <2>4. CASE Tick
    <3>1. LastDue' = LastDue
      <4>1. CASE internals.lastBpm = bpm
        BY <2>4, <4>1 DEF Tick, Rebased, LastDue
      <4>2. CASE internals.lastBpm # bpm /\ internals.nextStepIndex = 0
        BY <2>4, <4>2 DEF Tick, Rebased, LastDue
      <4>3. CASE internals.lastBpm # bpm /\ internals.nextStepIndex # 0
        <5> DEFINE moved == internals.scheduleStartTime
                              + (internals.nextStepIndex - 1) * StepTime[internals.lastBpm]
        <5>1. moved \in Nat
          BY <4>3, StepLeads
        <5>2. internals' = [internals EXCEPT !.lastBpm = bpm, !.scheduleStartTime = moved,
                                             !.nextStepIndex = 1]
          BY <2>4, <4>3 DEF Tick, Rebased
        <5>3. LastDue = moved
          BY <4>3 DEF LastDue
        <5> HIDE DEF moved
        <5>4. internals'.scheduleStartTime = moved /\ internals'.nextStepIndex = 1
              /\ internals'.lastBpm = bpm
          BY <5>2
        <5>5. (1 - 1) * StepTime[bpm] = 0
          OBVIOUS
        <5>6. LastDue' = moved
          BY <5>1, <5>4, <5>5 DEF LastDue
        <5> QED
          BY <5>3, <5>6
      <4> QED
        BY <4>1, <4>2, <4>3
    <3>2. internals'.currentStep = internals.currentStep
          /\ (internals'.nextStepIndex > 0 <=> internals.nextStepIndex > 0)
      BY <2>4 DEF Tick, Rebased
    <3> QED
      BY <2>4, <3>1, <3>2 DEF Tick, Clock!vars
  <2>5. CASE Step
    <3>1. isPlaying /\ internals.lastBpm = bpm
      BY <2>5 DEF Step, Idle
    <3>2. LastDue' = IF internals.nextStepIndex > 0 THEN LastDue + StepTime[bpm] ELSE LastDue
      <4>1. CASE internals.nextStepIndex = 0
        BY <2>5, <4>1 DEF Step, LastDue
      <4>2. CASE internals.nextStepIndex > 0
        <5>1. internals.scheduleStartTime + internals.nextStepIndex * StepTime[bpm]
              = (internals.scheduleStartTime + (internals.nextStepIndex - 1) * StepTime[bpm])
                + StepTime[bpm]
          BY <4>2, OneStepMore
        <5>2. internals'.nextStepIndex - 1 = internals.nextStepIndex
          BY <2>5 DEF Step
        <5> QED
          BY <2>5, <3>1, <4>2, <5>1, <5>2 DEF Step, LastDue
      <4> QED
        BY <4>1, <4>2
    <3> QED
      BY <2>5, <3>1, <3>2 DEF Step, Clock!Next, Clock!Due
  <2>6. CASE EndTick
    BY <2>6 DEF EndTick, LastDue, Clock!vars
  <2>7. CASE Advance
    BY <2>7 DEF Advance, LastDue, Clock!vars
  <2>8. CASE UNCHANGED seqVars
    BY <2>8 DEF seqVars, LastDue, Clock!vars
  <2> QED
    BY <2>1, <2>2, <2>3, <2>4, <2>5, <2>6, <2>7, <2>8 DEF Next
<1> QED
  BY <1>1, <1>2, TypeCorrect, PTL DEF Spec, StepsOnTime, Clock!Spec
=============================================================================
