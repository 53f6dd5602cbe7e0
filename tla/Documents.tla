------------------------------- MODULE Documents -------------------------------
(***************************************************************************)
(* The project as a document, packages/shared/src/project and its readers:   *)
(* the schema, the accept list that lets single leaves be written, the two   *)
(* repairs (normalizeProject where a project comes in from the wire or the    *)
(* database, reconcileWithDefaults where it comes from a file), the sparse    *)
(* form of the database, project files and presets.                          *)
(*                                                                         *)
(* Three copies of a project: the room's, which the server serves, the row   *)
(* in the database, and a file on somebody's disk.  Rows may be as old as an  *)
(* older release left them; files may be edited by hand besides.             *)
(*                                                                         *)
(* A leaf has a legal value, or is Absent, or is Garbage: there, but nothing *)
(* the schema allows.  Where an object or an array is expected, Garbage is    *)
(* anything else.                                                          *)
(***************************************************************************)
EXTENDS Integers, Sequences, FiniteSets

CONSTANTS
  PoolSize,        \* TRACK_POOL_SIZE
  BufferSize,      \* STEP_BUFFER_SIZE
  DefaultEnabled,  \* DEFAULT_ENABLED_TRACKS
  DefaultLength,   \* DEFAULT_PATTERN_LENGTH
  BpmMin, BpmMax, DefaultBpm,
  EngineType, DefaultEngine,
  Param,           \* the parameters of an engine: the rows of its descriptor table
  StepKey, OptionalStepKey,
  MixerKey,
  Legal, Default,  \* legal values of a leaf, and the one of a fresh project
  Absent, Garbage,
  MaxChanges       \* bound: edits, aged parts and hand edits

VARIABLES
  served,   \* the project of the live room
  stored,   \* the row in session_snapshots
  file,     \* a project file
  changes   \* how many of the bounded steps have been taken

documentVars == <<served, stored, file, changes>>

Slot == 1..PoolSize
Row == 1..BufferSize
CurrentVersion == 2  \* PROJECT_SCHEMA_VERSION

Bad == {Absent, Garbage}
Leaf == Legal \cup Bad

IsObject(v) == v \notin Bad

-----------------------------------------------------------------------------
(* Fresh projects *)

FreshSlice == [k \in Param |-> Default]
FreshStep == [k \in StepKey |-> Default]
FreshMixer == [k \in MixerKey |-> Default]

FreshTrack(enabled) ==
  [type |-> DefaultEngine, name |-> Default, engines |-> [e \in EngineType |-> FreshSlice],
   mixer |-> FreshMixer, length |-> DefaultLength, steps |-> [j \in Row |-> FreshStep],
   enabled |-> enabled]

IdentityOrder == [i \in Slot |-> i]

FreshProject ==
  [version |-> CurrentVersion, bpm |-> DefaultBpm, order |-> IdentityOrder,
   tracks |-> [i \in Slot |-> FreshTrack(i <= DefaultEnabled)]]

-----------------------------------------------------------------------------
(* The schema *)

LegalSlice(slice) == IsObject(slice) /\ \A k \in Param : slice[k] \in Legal

LegalStep(step) ==
  /\ IsObject(step)
  /\ \A k \in StepKey : step[k] \in Legal \/ (k \in OptionalStepKey /\ step[k] = Absent)

IsPermutation(order) ==
  /\ IsObject(order) /\ Len(order) = PoolSize
  /\ {order[i] : i \in DOMAIN order} = Slot

LegalTrack(t) ==
  /\ IsObject(t)
  /\ t.type \in EngineType /\ t.name \in Legal /\ t.enabled \in BOOLEAN
  /\ \A e \in EngineType : LegalSlice(t.engines[e])
  /\ IsObject(t.mixer) /\ \A k \in MixerKey : t.mixer[k] \in Legal
  /\ t.length \in Row
  /\ IsObject(t.steps) /\ Len(t.steps) = BufferSize /\ \A j \in Row : LegalStep(t.steps[j])

LegalProject(p) ==
  /\ p.version = CurrentVersion
  /\ p.bpm \in BpmMin..BpmMax
  /\ p.order = Absent \/ IsPermutation(p.order)
  /\ IsObject(p.tracks) /\ Len(p.tracks) = PoolSize /\ \A i \in Slot : LegalTrack(p.tracks[i])

-----------------------------------------------------------------------------
(* The kinds of documents: whole, as the schema has them; old, as an earlier release left   *)
(* them in a row; and any, as a file may be.                                                *)

WholeStep == {s \in [StepKey -> Legal \cup {Absent}] : \A k \in StepKey \ OptionalStepKey : s[k] # Absent}

WholeTrack ==
  [type: EngineType, name: Legal, engines: [EngineType -> [Param -> Legal]], mixer: [MixerKey -> Legal],
   length: Row, steps: [Row -> WholeStep], enabled: BOOLEAN]

Order == {o \in [Slot -> Slot] : IsPermutation(o)}

WholeProject ==
  [version: {CurrentVersion}, bpm: BpmMin..BpmMax, order: Order, tracks: [Slot -> WholeTrack]]

OldTrack ==
  [type: EngineType, name: Legal \cup {Absent},
   engines: [EngineType -> [Param -> Legal \cup {Absent}] \cup {Absent}], mixer: [MixerKey -> Legal],
   length: Row \cup {Absent}, steps: Seq(WholeStep), enabled: BOOLEAN \cup {Absent}]

\* The tracks are an object by slot, or an array where the row is not sparse.
IsOldRow(row) ==
  /\ row = [sparse |-> row.sparse, version |-> row.version, bpm |-> row.bpm, order |-> row.order,
            tracks |-> row.tracks]
  /\ row.sparse \in BOOLEAN /\ row.version \in 1..CurrentVersion
  /\ row.bpm \in (BpmMin..BpmMax) \cup {Absent} /\ row.order \in Order \cup {Absent}
  /\ DOMAIN row.tracks \subseteq Slot /\ row.tracks \in [DOMAIN row.tracks -> OldTrack]
  /\ ~row.sparse => row.tracks \in Seq(OldTrack)

AnySlice == [Param -> Leaf]
AnyStep == [StepKey -> Leaf]
AnyMixer == [MixerKey -> Leaf]
AnyEngines == [EngineType -> AnySlice \cup Bad]
AnySteps == Seq(AnyStep \cup Bad)

AnyTrack ==
  [type: EngineType \cup Bad, name: Leaf, engines: AnyEngines \cup Bad, mixer: AnyMixer \cup Bad,
   length: Row \cup Bad, steps: AnySteps \cup Bad, enabled: BOOLEAN \cup Bad]

AnyTracks == Seq(AnyTrack \cup Bad)

AnyProject ==
  [version: 1..(CurrentVersion + 1) \cup Bad, bpm: BpmMin..(BpmMax + 1) \cup Bad, order: Order \cup Bad,
   tracks: AnyTracks \cup Bad]

\* The defaults are in their ranges; what is missing or of the wrong kind is none of the values
\* of the right kind.
ASSUME DocumentsAssumption ==
  /\ PoolSize \in Nat \ {0} /\ BufferSize \in Nat \ {0} /\ DefaultEnabled \in Slot
  /\ DefaultLength \in Row /\ DefaultEngine \in EngineType /\ Default \in Legal
  /\ BpmMin \in Nat /\ BpmMax \in Nat /\ DefaultBpm \in BpmMin..BpmMax
  /\ OptionalStepKey \subseteq StepKey /\ Absent # Garbage
  /\ \A v \in Bad :
       /\ v \notin Nat /\ v \notin BOOLEAN /\ v \notin EngineType /\ v \notin Legal
       /\ v \notin [Slot -> Slot] /\ v \notin AnySlice /\ v \notin AnyStep /\ v \notin AnyMixer
       /\ v \notin AnyEngines /\ v \notin AnySteps /\ v \notin AnyTrack /\ v \notin AnyTracks
       /\ \A D \in SUBSET Slot : v \notin [D -> OldTrack]

-----------------------------------------------------------------------------
(* The accept list *)

TrackLeaf == {"type", "length", "enabled", "name"}

\* Paths of the shape of a pattern, indices past the end among them.
Pattern ==
  LET i == 1..(PoolSize + 1)
      j == 1..(BufferSize + 1)
  IN {<<"bpm">>, <<"trackOrder">>}
     \cup {"tracks"} \X i
     \cup {"tracks"} \X i \X TrackLeaf
     \cup {"tracks"} \X i \X {"mixer"} \X MixerKey
     \cup {"tracks"} \X i \X {"engines"} \X EngineType \X Param
     \cup {"tracks"} \X i \X {"steps"} \X j \X StepKey

\* indicesInRange: a pattern only asks that an index be a number.
InRange(path) ==
  /\ Len(path) > 1 => path[2] \in Slot
  /\ Len(path) = 5 /\ path[3] = "steps" => path[4] \in Row

\* The schema of a leaf inside a track.
TrackLeafSchema(path, value) ==
  CASE path[3] = "type"    -> value \in EngineType
    [] path[3] = "length"  -> value \in Row
    [] path[3] = "enabled" -> value \in BOOLEAN
    [] path[3] = "steps"   -> value \in Legal \/ (path[5] \in OptionalStepKey /\ value = Absent)
    [] OTHER               -> value \in Legal

IsWholeTrack(path) == path[1] = "tracks" /\ Len(path) = 2

\* A schema for a whole track that looks no further than its own fields.
ShallowSchema(path, value) ==
  CASE path[1] = "bpm"        -> value \in BpmMin..BpmMax
    [] path[1] = "trackOrder" -> IsPermutation(value)
    [] IsWholeTrack(path)     -> IsObject(value)
    [] OTHER                  -> TrackLeafSchema(path, value)

\* resolveLeafSchema and the parse: what may be written at a path.
LeafSchema(path, value) ==
  CASE path[1] = "bpm"        -> value \in BpmMin..BpmMax
    [] path[1] = "trackOrder" -> IsPermutation(value)
    [] IsWholeTrack(path)     -> LegalTrack(value)
    [] OTHER                  -> TrackLeafSchema(path, value)

\* validatePathAndValue
Accepted(path, value) == path \in Pattern /\ InRange(path) /\ LeafSchema(path, value)

SetInTrack(t, path, value) ==
  CASE path[3] = "mixer"   -> [t EXCEPT !.mixer[path[4]] = value]
    [] path[3] = "engines" -> [t EXCEPT !.engines[path[4]][path[5]] = value]
    [] path[3] = "steps"   -> [t EXCEPT !.steps[path[4]][path[5]] = value]
    [] OTHER               -> [t EXCEPT ![path[3]] = value]

\* setDeep at an accepted path.
SetDeep(p, path, value) ==
  CASE path[1] = "bpm"        -> [p EXCEPT !.bpm = value]
    [] path[1] = "trackOrder" -> [p EXCEPT !.order = value]
    [] IsWholeTrack(path)     -> [p EXCEPT !.tracks[path[2]] = value]
    [] OTHER                  -> [p EXCEPT !.tracks[path[2]] = SetInTrack(@, path, value)]

-----------------------------------------------------------------------------
(* normalizeProject *)

ClampTo(n, low, high) == IF n < low THEN low ELSE IF n > high THEN high ELSE n

CoerceBpm(bpm) == IF bpm \in {Absent, Garbage} THEN DefaultBpm ELSE ClampTo(bpm, BpmMin, BpmMax)

\* An order that every load starts over.
RestartedOrder(order) == IdentityOrder

CoerceTrackOrder(order) == IF IsPermutation(order) THEN order ELSE IdentityOrder

\* isComplete: every key of the template is there, whatever its value.
IsComplete(slice) == IsObject(slice) /\ \A k \in Param : slice[k] # Absent

\* healSlice: what is missing is filled in, what is there stays.
HealSlice(template, loaded) ==
  IF IsObject(loaded)
  THEN [k \in DOMAIN template |-> IF loaded[k] = Absent THEN template[k] ELSE loaded[k]]
  ELSE template

Slice(t, e) == IF IsObject(t.engines) THEN t.engines[e] ELSE Absent

StepAt(t, j) == IF IsObject(t.steps) /\ j \in DOMAIN t.steps THEN t.steps[j] ELSE Absent

IsValidTrack(t) ==
  /\ t.name \in Legal
  /\ t.enabled \in BOOLEAN
  /\ t.length \in Row
  /\ IsObject(t.mixer)
  /\ \A e \in EngineType : IsComplete(Slice(t, e))
  /\ IsObject(t.steps) /\ Len(t.steps) = BufferSize
  /\ \A j \in Row : IsObject(t.steps[j])

\* A repair that takes the steps as they are stored.
RepairKeepingSteps(t) ==
  [type    |-> t.type,
   name    |-> IF t.name \in Legal THEN t.name ELSE Default,
   engines |-> [e \in EngineType |-> HealSlice(FreshSlice, Slice(t, e))],
   mixer   |-> IF IsObject(t.mixer) THEN t.mixer ELSE FreshMixer,
   length  |-> IF t.length \in {Absent, Garbage} THEN DefaultLength ELSE ClampTo(t.length, 1, BufferSize),
   steps   |-> IF IsObject(t.steps) THEN t.steps ELSE [j \in Row |-> FreshStep],
   enabled |-> IF t.enabled \in BOOLEAN THEN t.enabled ELSE TRUE]

\* repairTrack: structure, and missing parameters; a track without the flag was in use.
RepairTrack(t) ==
  [type    |-> t.type,
   name    |-> IF t.name \in Legal THEN t.name ELSE Default,
   engines |-> [e \in EngineType |-> HealSlice(FreshSlice, Slice(t, e))],
   mixer   |-> IF IsObject(t.mixer) THEN t.mixer ELSE FreshMixer,
   length  |-> IF t.length \in {Absent, Garbage} THEN DefaultLength ELSE ClampTo(t.length, 1, BufferSize),
   steps   |-> [j \in Row |-> IF IsObject(StepAt(t, j)) THEN StepAt(t, j) ELSE FreshStep],
   enabled |-> IF t.enabled \in BOOLEAN THEN t.enabled ELSE TRUE]

IsAlreadyValid(p) ==
  /\ p.version = CurrentVersion
  /\ p.bpm \in BpmMin..BpmMax
  /\ IsPermutation(p.order)
  /\ IsObject(p.tracks) /\ Len(p.tracks) = PoolSize
  /\ \A i \in Slot : IsValidTrack(p.tracks[i])
  /\ \E i \in Slot : p.tracks[i].enabled

\* The pool, padded with disabled tracks.
Repaired(tracks) ==
  [i \in Slot |->
     IF ~IsObject(tracks) \/ i \notin DOMAIN tracks
     THEN FreshTrack(FALSE)
     ELSE IF IsValidTrack(tracks[i]) THEN tracks[i] ELSE RepairTrack(tracks[i])]

\* A pool with nothing enabled is corrupt.
Reenabled(tracks) ==
  IF \E i \in Slot : tracks[i].enabled
  THEN tracks
  ELSE [i \in Slot |-> IF i <= DefaultEnabled THEN [tracks[i] EXCEPT !.enabled = TRUE] ELSE tracks[i]]

\* normalizeProject
Normalize(p) ==
  IF IsAlreadyValid(p)
  THEN p
  ELSE [version |-> CurrentVersion, bpm |-> CoerceBpm(p.bpm), order |-> CoerceTrackOrder(p.order),
        tracks |-> Reenabled(Repaired(p.tracks))]

-----------------------------------------------------------------------------
(* The row in the database *)

\* A row in which every disabled track counts as padding.
PackEnabled(p) ==
  [sparse |-> TRUE, version |-> p.version, bpm |-> p.bpm, order |-> p.order,
   tracks |-> [i \in {i \in Slot : p.tracks[i].enabled} |-> p.tracks[i]]]

\* packProject: only slots that differ from untouched padding.
Pack(p) ==
  [sparse |-> TRUE, version |-> p.version, bpm |-> p.bpm, order |-> p.order,
   tracks |-> [i \in {i \in Slot : p.tracks[i].enabled \/ p.tracks[i] # FreshTrack(FALSE)} |->
                 p.tracks[i]]]

\* unpackProject: a row whose tracks are an array has the form from before.
Unpack(row) ==
  Normalize(
    [version |-> row.version, bpm |-> row.bpm, order |-> row.order,
     tracks |-> IF IsObject(row.tracks) /\ row.sparse
                THEN [i \in Slot |-> IF i \in DOMAIN row.tracks THEN row.tracks[i] ELSE FreshTrack(FALSE)]
                ELSE row.tracks])

-----------------------------------------------------------------------------
(* Files: migrations.ts and storage.ts *)

\* migrateToLatest throws for a version it does not know.
IsFuture(p) == p.version \in Nat \ {1, CurrentVersion}

\* migrateToLatest
MigrateToLatest(p) ==
  CASE p.version = CurrentVersion -> p
    [] p.version = 1              -> [p EXCEPT !.version = CurrentVersion]
    [] OTHER                      -> FreshProject

\* deepMerge, of one level of defaults: null counts as missing too.
DeepMerge(defaults, overrides) == HealSlice(defaults, overrides)

NoTrack ==
  [type |-> Absent, name |-> Absent, engines |-> Absent, mixer |-> Absent, length |-> Absent,
   steps |-> Absent, enabled |-> Absent]

\* A reconcileTrack that takes the steps as they are stored.
ReconcileKeepingSteps(loaded, enabled) ==
  LET t == IF IsObject(loaded) THEN loaded ELSE NoTrack
  IN [type    |-> IF t.type = Absent THEN DefaultEngine ELSE t.type,
      name    |-> IF t.name \in Legal THEN t.name ELSE Default,
      engines |-> [e \in EngineType |-> DeepMerge(FreshSlice, Slice(t, e))],
      mixer   |-> DeepMerge(FreshMixer, t.mixer),
      length  |-> CASE t.length = Absent  -> DefaultLength
                    [] t.length = Garbage -> Garbage
                    [] OTHER              -> ClampTo(t.length, 1, BufferSize),
      steps   |-> IF IsObject(t.steps) THEN t.steps ELSE [j \in Row |-> FreshStep],
      enabled |-> IF t.enabled \in BOOLEAN THEN t.enabled ELSE enabled]

\* reconcileTrack: leaf by leaf in slices, mixer and steps.  Values that are there stay,
\* a length that is no integer among them.
ReconcileTrack(loaded, enabled) ==
  LET t == IF IsObject(loaded) THEN loaded ELSE NoTrack
  IN [type    |-> IF t.type = Absent THEN DefaultEngine ELSE t.type,
      name    |-> IF t.name \in Legal THEN t.name ELSE Default,
      engines |-> [e \in EngineType |-> DeepMerge(FreshSlice, Slice(t, e))],
      mixer   |-> DeepMerge(FreshMixer, t.mixer),
      length  |-> CASE t.length = Absent  -> DefaultLength
                    [] t.length = Garbage -> Garbage
                    [] OTHER              -> ClampTo(t.length, 1, BufferSize),
      steps   |-> [j \in Row |-> DeepMerge(FreshStep, StepAt(t, j))],
      enabled |-> IF t.enabled \in BOOLEAN THEN t.enabled ELSE enabled]

\* reconcileWithDefaults
Reconcile(p) ==
  LET tracks == IF IsObject(p.tracks) THEN p.tracks ELSE <<>>
      inUse  == IF Len(tracks) > DefaultEnabled THEN Len(tracks) ELSE DefaultEnabled
  IN [version |-> CurrentVersion, bpm |-> CoerceBpm(p.bpm), order |-> CoerceTrackOrder(p.order),
      tracks |-> [i \in Slot |->
                    ReconcileTrack(IF i \in DOMAIN tracks THEN tracks[i] ELSE Absent, i <= inUse)]]

\* deserializeProject, of a file that is JSON.
Deserialize(p) == Reconcile(MigrateToLatest(p))

\* handleLoad of what openProject makes of a file: parsed against the schema, then
\* normalised; or refused.
Admitted(p) == ~IsFuture(p) /\ LegalProject(Deserialize(p))

-----------------------------------------------------------------------------
(* Presets *)

\* applyPreset: the engine and then every leaf of the slice, each a write of its own
\* that the accept list may refuse.
WithPreset(p, i, e, params) ==
  LET preset == DeepMerge(FreshSlice, params)
      typed  == SetDeep(p, <<"tracks", i, "type">>, e)
      kept   == {k \in Param : Accepted(<<"tracks", i, "engines", e, k>>, preset[k])}
  IN SetDeep(typed, <<"tracks", i>>,
             [typed.tracks[i] EXCEPT !.engines[e] =
                [k \in Param |-> IF k \in kept THEN preset[k] ELSE @[k]]])

-----------------------------------------------------------------------------
(* What time and hands do to rows and files *)

\* An array of an earlier size.
Shorter(s) == SubSeq(s, 1, Len(s) - 1)

\* A part of a track replaced.
WithPart(t, v) ==
  UNION {
    {[t EXCEPT ![f] = v] : f \in {"type", "name", "engines", "mixer", "length", "steps", "enabled"}},
    IF IsObject(t.mixer) THEN {[t EXCEPT !.mixer[k] = v] : k \in MixerKey} ELSE {},
    IF IsObject(t.engines)
    THEN {[t EXCEPT !.engines[e] = v] : e \in EngineType}
         \cup UNION {IF IsObject(t.engines[e])
                     THEN {[t EXCEPT !.engines[e][k] = v] : k \in Param} ELSE {} : e \in EngineType}
    ELSE {},
    IF IsObject(t.steps)
    THEN {[t EXCEPT !.steps = Shorter(t.steps)]}
         \cup {[t EXCEPT !.steps[j] = v] : j \in DOMAIN t.steps}
         \cup UNION {IF IsObject(t.steps[j])
                     THEN {[t EXCEPT !.steps[j][k] = v] : k \in StepKey} ELSE {} : j \in DOMAIN t.steps}
    ELSE {}}

\* A part of a file replaced, or the pool of an earlier size.
HandEdited(p, v) ==
  {[p EXCEPT ![f] = v] : f \in {"version", "bpm", "order", "tracks"}}
  \cup {[p EXCEPT !.version = n] : n \in {1, CurrentVersion + 1}}
  \cup {[p EXCEPT !.bpm = BpmMax + 1]}
  \cup (IF IsObject(p.tracks)
        THEN {[p EXCEPT !.tracks = Shorter(p.tracks)]}
             \cup {[p EXCEPT !.tracks[i] = v] : i \in DOMAIN p.tracks}
             \cup UNION {IF IsObject(p.tracks[i])
                         THEN {[p EXCEPT !.tracks[i] = t] : t \in WithPart(p.tracks[i], v)}
                         ELSE {} : i \in DOMAIN p.tracks}
        ELSE {})

\* What earlier releases did not write in a track.
AgedTrack(t) ==
  UNION {
    {[t EXCEPT ![f] = Absent] : f \in {"name", "length", "enabled"}},
    {[t EXCEPT !.engines[e] = Absent] : e \in EngineType},
    UNION {IF IsObject(t.engines[e])
           THEN {[t EXCEPT !.engines[e][k] = Absent] : k \in Param} ELSE {} : e \in EngineType},
    {[t EXCEPT !.steps = Shorter(t.steps)]},
    UNION {{[t EXCEPT !.steps[j][k] = Absent] : k \in OptionalStepKey} : j \in DOMAIN t.steps}}

\* A full row as the array of its first n tracks.
AsArray(row, n) ==
  [sparse |-> FALSE, version |-> row.version, bpm |-> row.bpm, order |-> row.order,
   tracks |-> SubSeq(row.tracks, 1, n)]

\* What earlier releases wrote otherwise in a row: no order, no bpm, the version before,
\* tracks as an array, fewer of them.
Aged(row) ==
  {[row EXCEPT ![f] = Absent] : f \in {"order", "bpm"}}
  \cup {[row EXCEPT !.version = 1]}
  \cup (UNION {{[row EXCEPT !.tracks[i] = t] : t \in AgedTrack(row.tracks[i])} : i \in DOMAIN row.tracks})
  \cup (IF row.sparse /\ DOMAIN row.tracks = Slot THEN {AsArray(row, n) : n \in {1, PoolSize}} ELSE {})

-----------------------------------------------------------------------------

InitDocuments ==
  /\ served = FreshProject
  /\ stored = Pack(FreshProject)
  /\ file = FreshProject
  /\ changes = 0

Change == changes < MaxChanges /\ changes' = changes + 1

\* What a client may try to write at a path, legal or not.
LeafCandidate(path) ==
  CASE path[3] = "type"    -> EngineType \cup {Garbage}
    [] path[3] = "length"  -> {0, 1, BufferSize + 1}
    [] path[3] = "enabled" -> BOOLEAN \cup {Garbage}
    [] OTHER               -> (Legal \ {Default}) \cup {Absent, Garbage}

Candidate(path) ==
  CASE path[1] = "bpm"        -> {BpmMin, BpmMax + 1, Garbage}
    [] path[1] = "trackOrder" -> {[i \in Slot |-> PoolSize + 1 - i], [i \in Slot |-> 1], Garbage}
    [] IsWholeTrack(path)     -> {FreshTrack(TRUE), [FreshTrack(TRUE) EXCEPT !.steps = <<>>], Garbage}
    [] OTHER                  -> LeafCandidate(path)

\* A set op reaches the room.
Write(path, value) ==
  /\ Accepted(path, value)
  /\ Change
  /\ served' = SetDeep(served, path, value)
  /\ UNCHANGED <<stored, file>>

\* A preset, from a file or the library, is put on a track.
ApplyPreset(i, e, params) ==
  /\ Change
  /\ served' = WithPreset(served, i, e, params)
  /\ UNCHANGED <<stored, file>>

\* The autosave.
Flush ==
  /\ stored' = Pack(served)
  /\ UNCHANGED <<served, file, changes>>

\* The room is created anew from its row.
Reseed ==
  /\ served' = Unpack(stored)
  /\ UNCHANGED <<stored, file, changes>>

\* saveProjectToFile
Save ==
  /\ file' = served
  /\ UNCHANGED <<served, stored, changes>>

\* openProjectFromFile, and the load that follows.
Open ==
  /\ Admitted(file)
  /\ served' = Normalize(Deserialize(file))
  /\ UNCHANGED <<stored, file, changes>>

\* The row is as an older release wrote it.
Age ==
  /\ Change
  /\ stored' \in Aged(stored)
  /\ UNCHANGED <<served, file>>

\* The file is edited, or was saved by an older release.
HandEdit(v) ==
  /\ Change
  /\ file' \in HandEdited(file, v)
  /\ UNCHANGED <<served, stored>>

\* repair-track-pool.ts --apply, on this row: the project as it is stored is normalised.
RepairScript ==
  LET raw == [version |-> stored.version, bpm |-> stored.bpm, order |-> stored.order,
              tracks |-> IF stored.sparse THEN Absent ELSE stored.tracks]
      new == Normalize(raw)
  IN /\ new # raw
     /\ stored' = [sparse |-> FALSE, version |-> new.version, bpm |-> new.bpm, order |-> new.order,
                   tracks |-> new.tracks]
     /\ UNCHANGED <<served, file, changes>>

NextDocuments ==
  \/ \E path \in Pattern : \E value \in Candidate(path) : Write(path, value)
  \/ \E i \in Slot, e \in EngineType, params \in [Param -> Leaf] : ApplyPreset(i, e, params)
  \/ Flush
  \/ Reseed
  \/ Save
  \/ Open
  \/ Age
  \/ \E v \in {Absent, Garbage} : HandEdit(v)
  \/ RepairScript

DocumentsSpec == InitDocuments /\ [][NextDocuments]_documentVars
-----------------------------------------------------------------------------
(* Properties *)

\* The room's project is whole; the row lacks at most what some release did not write.
DocumentsTypeOK ==
  /\ served \in WholeProject
  /\ IsOldRow(stored)
  /\ file \in AnyProject

\* The room always holds a project the schema allows, however it came there: by writes
\* checked one leaf at a time, from a row that an older release wrote, from a file that
\* was edited by hand, from a preset.
RoomLegal == LegalProject(served)

\* What the autosave leaves out the next start puts back: a room that is saved and
\* reseeded comes back as it was, but for a pool with nothing enabled
\* (snapshot-codec.ts).
RowRestores ==
  Unpack(Pack(served)) =
    IF \E i \in Slot : served.tracks[i].enabled THEN served
    ELSE [served EXCEPT !.tracks = Reenabled(@)]

TrackWithoutOptional(t) ==
  [t EXCEPT !.steps = [j \in Row |-> [k \in StepKey \ OptionalStepKey |-> t.steps[j][k]]]]

WithoutOptional(p) == [p EXCEPT !.tracks = [i \in Slot |-> TrackWithoutOptional(p.tracks[i])]]

\* Every project a room can hold can be saved to a file and opened again, in any room,
\* and comes back the same, optional keys of steps apart: the reader's repair and the
\* server's agree on what a whole project is (storage.ts, ConnectionHandler's load).
ReopenRestores ==
  /\ Admitted(served)
  /\ WithoutOptional(Deserialize(served)) = WithoutOptional(served)

GarbageIn(part, keys) == part = Garbage \/ (IsObject(part) /\ \E k \in keys : part[k] = Garbage)

GarbageInTrack(t) ==
  \/ Garbage \in {t.type, t.name, t.engines, t.length, t.steps, t.enabled}
  \/ GarbageIn(t.mixer, MixerKey)
  \/ IsObject(t.engines) /\ \E e \in EngineType : GarbageIn(t.engines[e], Param)
  \/ IsObject(t.steps) /\ \E j \in DOMAIN t.steps : GarbageIn(t.steps[j], StepKey)

HasGarbage(p) ==
  \/ Garbage \in {p.version, p.bpm, p.order, p.tracks}
  \/ /\ IsObject(p.tracks)
     /\ \E i \in DOMAIN p.tracks :
          p.tracks[i] = Garbage \/ (IsObject(p.tracks[i]) /\ GarbageInTrack(p.tracks[i]))

\* A file in which parts are missing, and nothing is of the wrong kind, opens: it is the
\* file of an older release, and the server takes what the reader made of it.  A slice's
\* parameters are leaves here, so synth2's matrix, a list of fixed length which a file replaces
\* as a whole, is not among the parts that can be short.
OlderFilesOpen == ~HasGarbage(file) /\ ~IsFuture(file) => Admitted(file)

\* The repair script is meant to leave the session a row stands for as it is
\* (repair-track-pool.ts: "only writes rows that actually change").  It does not: the sparse row
\* it reads is normalised as it stands, and a row written by Flush loses its tracks.
RepairKeepsProject == [][RepairScript => Unpack(stored') = Unpack(stored)]_documentVars
=============================================================================
