------------------------------ MODULE Patches ------------------------------
(***************************************************************************)
(* Operations that change many leaves at once: a preset loaded from a file or   *)
(* the library, the reset of a patch, New and Open.  Nothing but leaves goes to   *)
(* the server, so each computes a draft, diffs it against what is live and         *)
(* dispatches what differs (app/projectOps.ts, project/paramDiff.ts,              *)
(* project/preset.ts); New and Open do so only for a server that knows no load.    *)
(*                                                                         *)
(* A leaf is <<track, place, name>>.  A patch is a function from some of an         *)
(* engine's parameters to values: of one level (tune), nested (attack, decay) or   *)
(* in the modulation matrix (slot).                                         *)
(***************************************************************************)
EXTENDS Naturals, Sequences, SequencesExt, FiniteSetsExt

CONSTANTS
  TrackId,
  MaxActs      \* bound: operations one performs

VARIABLES
  mine,    \* [leaves, order]: the project of this tab
  theirs,  \* the project of a peer, which hears what this tab sends
  wire,    \* what is enqueued and not yet heard
  link,    \* [live, bulk, leafwise]: outbound sync is open; the server knows the load
           \* message; history: a project was replaced leaf by leaf since the last snapshot
  ui,      \* [active, asking]: the track one looks at (0 is none), the question one is asked
  files,   \* presets saved, to files and to the library
  acts

patchVars == <<mine, theirs, wire, link, ui, files, acts>>

Engine == {"kick2", "synth2"}
Nested == {"attack", "decay"}
Matrix == {"slot"}
Param(e) == {"tune"} \union Nested \union (IF e = "synth2" THEN Matrix ELSE {})
TrackLeaf == TrackId \X {"track"} \X {"engineType", "enabled", "volume", "note", "name"}
EngineLeaf == UNION {TrackId \X {e} \X Param(e) : e \in Engine}
Leaf == TrackLeaf \union EngineLeaf \union {<<0, "project", "bpm">>}

\* An engine is a number here, as every value is: 0 and 1.
EngineNo(n) == IF n = 0 THEN "kick2" ELSE "synth2"
EngineOf(p, t) == EngineNo(p.leaves[<<t, "track", "engineType">>])
Slice(p, t, e) == [x \in Param(e) |-> p.leaves[<<t, e, x>>]]

Defaults(e) == [x \in Param(e) |-> 0]
Fresh == [leaves |-> [l \in Leaf |-> 0], order |-> 0]
Other == [leaves |-> [l \in Leaf |-> 1], order |-> 1]
PartialPatch(e) == UNION {[S -> {1}] : S \in SUBSET Param(e)}

InitPatches ==
  /\ mine = Fresh /\ theirs = Fresh /\ wire = <<>>
  /\ link \in [live : {TRUE}, bulk : BOOLEAN, leafwise : {FALSE}]
  /\ ui = [active |-> 0, asking |-> "nothing"]
  /\ files = {} /\ acts = 0

----------------------------------------------------------------------------
(* CommandBus.dispatchLocal, leaf by leaf. *)

Put(p, op) == [p EXCEPT !.leaves[op.leaf] = op.value]
Play(p, ops) == FoldLeft(Put, p, ops)

\* The gate of SyncSession.enqueue.
Enqueue(ops) == wire' = IF link.live THEN wire \o ops ELSE wire

Dispatch(ops) == mine' = Play(mine, ops) /\ Enqueue(ops)

Act == acts < MaxActs /\ acts' = acts + 1

\* dispatchDiff drills one level and skips arrays; dispatchMatrixDiff does these.
Differing(draft, live) == {x \in DOMAIN draft : draft[x] # live[x]}
OutsideMatrix(draft, live) == Differing(draft, live) \ Matrix
InMatrix(draft, live) == Differing(draft, live) \intersect Matrix

\* SetToSeq enumerates; any order will do.
Listed(S) == FoldSet(LAMBDA x, seq : Append(seq, x), <<>>, S)

OpsOf(t, e, draft, names) ==
  Listed({[leaf |-> <<t, e, x>>, value |-> draft[x]] : x \in names})

Diff(t, e, draft, live) ==
  OpsOf(t, e, draft, OutsideMatrix(draft, live)) \o OpsOf(t, e, draft, InMatrix(draft, live))

\* applyPresetDraft: Object.assign puts the preset's nested objects in place of the track's.
Group(x) == CASE x \in Nested -> "env" [] x \in Matrix -> "matrix" [] OTHER -> x
Assigned(live, params) ==
  LET groups == {Group(x) : x \in DOMAIN params}
      kept == {x \in DOMAIN live : Group(x) \notin groups}
  IN [x \in kept \union DOMAIN params |-> IF x \in kept THEN live[x] ELSE params[x]]

\* deepMerge with the engine's defaults, on reading a file.
Healed(e, params) == [x \in Param(e) |-> IF x \in DOMAIN params THEN params[x] ELSE Defaults(e)[x]]

\* projectOps.applyPreset: the engine first, then what differs of its slice.
Apply(t, e, params) ==
  LET live == Slice(mine, t, e)
      swap == <<[leaf |-> <<t, "track", "engineType">>, value |-> IF e = "kick2" THEN 0 ELSE 1]>>
  IN Dispatch(swap \o Diff(t, e, Assigned(live, params), live))

----------------------------------------------------------------------------
(* What one does. *)

Focus(t) ==
  /\ ui.active # t
  /\ ui' = [ui EXCEPT !.active = t]
  /\ UNCHANGED <<mine, theirs, wire, link, files, acts>>

Turn(l, v) ==
  /\ Act /\ mine.leaves[l] # v
  /\ Dispatch(<<[leaf |-> l, value |-> v]>>)
  /\ UNCHANGED <<theirs, link, ui, files>>

Ask(what) ==
  /\ ui.active # 0 /\ ui.asking = "nothing"
  /\ ui' = [ui EXCEPT !.asking = what]
  /\ UNCHANGED <<mine, theirs, wire, link, files, acts>>

Answered(what) == ui.asking = what /\ ui' = [ui EXCEPT !.asking = "nothing"]

\* "Cancel", an empty name, no file.
GiveUp ==
  /\ ui.asking # "nothing" /\ Answered(ui.asking)
  /\ UNCHANGED <<mine, theirs, wire, link, files, acts>>

Copied == LET e == EngineOf(mine, ui.active) IN [engine |-> e, params |-> Slice(mine, ui.active, e)]

SavePreset ==
  /\ Act /\ ui.active # 0
  /\ files' = files \union {Copied}
  /\ UNCHANGED <<mine, theirs, wire, link, ui>>

\* The question is asked about the active track, and the answer is carried out on the one active
\* then: what is saved is that track's patch, and with none active there is nothing but an error.
AskForName == Ask("name")
NameGiven ==
  /\ Answered("name") /\ Act
  /\ files' = IF ui.active = 0 THEN files ELSE files \union {Copied}
  /\ UNCHANGED <<mine, theirs, wire, link>>

AskForFile == Ask("file")
Picked(f) ==
  /\ Answered("file") /\ Act
  /\ IF ui.active = 0 THEN UNCHANGED <<mine, wire>>
     ELSE Apply(ui.active, f.engine, Healed(f.engine, f.params))
  /\ UNCHANGED <<theirs, link, files>>

\* A record of the library is applied as it is stored: nothing fills what it lacks.
LoadFromLibrary(e, params) ==
  /\ Act /\ ui.active # 0
  /\ Apply(ui.active, e, params)
  /\ UNCHANGED <<theirs, link, ui, files>>

\* onInitPatch, which looks again.
AskToReset == Ask("reset")
InitPatch ==
  /\ Answered("reset") /\ Act
  /\ IF ui.active = 0 THEN UNCHANGED <<mine, wire>>
     ELSE LET e == EngineOf(mine, ui.active) live == Slice(mine, ui.active, e)
          IN Dispatch(Diff(ui.active, e, Assigned(live, Defaults(e)), live))
  /\ UNCHANGED <<theirs, link, files>>

----------------------------------------------------------------------------
(* New and Open. *)

\* enqueueWholeProjectDiff: heads, mixers, steps, every slice, matrices; never the order, and
\* of a head the engine, the length and the flag but not the name, though the server takes names.
Names == {l \in TrackLeaf : l[3] = "name"}
TrackDiff(old, new) == {l \in Leaf \ Names : old.leaves[l] # new.leaves[l]}
PlayedOnly(old, new) ==
  {l \in TrackDiff(old, new) : l \in EngineLeaf => l[2] = EngineOf(new, l[1])}
WholeDiff(old, new) == TrackDiff(old, new)

Fallback(old, new) == Listed({[leaf |-> l, value |-> new.leaves[l]] : l \in WholeDiff(old, new)})

Replace(next) ==
  /\ Act /\ mine' = next
  /\ wire' = IF ~link.live THEN wire
             ELSE IF link.bulk THEN Append(wire, [load |-> next])
             ELSE wire \o Fallback(mine, next)
  /\ link' = [link EXCEPT !.leafwise = @ \/ (link.live /\ ~link.bulk)]
  /\ UNCHANGED <<theirs, ui, files>>

New == Replace(Fresh)
Open == Replace(Other)

----------------------------------------------------------------------------
(* The server and the peer; the connection going and coming back with a snapshot. *)

Hear ==
  /\ wire # <<>> /\ wire' = Tail(wire)
  /\ theirs' = IF "load" \in DOMAIN Head(wire) THEN Head(wire).load ELSE Put(theirs, Head(wire))
  /\ UNCHANGED <<mine, link, ui, files, acts>>

Offline ==
  /\ link.live /\ wire = <<>> /\ link' = [link EXCEPT !.live = FALSE]
  /\ UNCHANGED <<mine, theirs, wire, ui, files, acts>>

Online ==
  /\ ~link.live /\ link' = [link EXCEPT !.live = TRUE, !.leafwise = FALSE]
  /\ mine' = theirs
  /\ UNCHANGED <<theirs, wire, ui, files, acts>>

NextPatches ==
  \/ \E t \in TrackId \union {0} : Focus(t)
  \/ \E l \in Leaf, v \in {0, 1} : Turn(l, v)
  \/ SavePreset \/ AskForName \/ NameGiven \/ AskForFile \/ AskToReset \/ InitPatch \/ GiveUp
  \/ \E f \in files \union {[engine |-> e, params |-> [x \in {"attack"} |-> 1]] : e \in Engine} : Picked(f)
  \/ \E e \in Engine : \E params \in PartialPatch(e) : LoadFromLibrary(e, params)
  \/ New \/ Open \/ Hear \/ Offline \/ Online

PatchesSpec == InitPatches /\ [][NextPatches]_patchVars

\* A peer who has heard all that was sent has the same project, whatever was loaded, reset,
\* replaced or turned in between, and whichever level of the patch it changed.  Where a project
\* was replaced leaf by leaf, for a server without the load message, two things were not sent,
\* and until the next snapshot the two may differ in those and in nothing else: the order of the
\* tracks, as the note above enqueueWholeProjectDiff says, and their names, of which it says
\* nothing.  (projectOps.ts:62, 88 and 183-192.)
LeavesCarryAll ==
  link.live /\ wire = <<>> =>
    /\ \A l \in Leaf : theirs.leaves[l] = mine.leaves[l] \/ (link.leafwise /\ l \in Names)
    /\ theirs.order = mine.order \/ link.leafwise
=============================================================================
