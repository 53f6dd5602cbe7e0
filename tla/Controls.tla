------------------------------ MODULE Controls ------------------------------
(***************************************************************************)
(* The studio's controls over a project that others change under the hand:     *)
(* a number field with its draft (the tempo in StudioView.vue, a pattern's       *)
(* length in Tracker.vue, a step's numbers in StepNumberInput.vue), the track's    *)
(* name (TrackNameEditor.vue), and a knob (Knob.vue).                          *)
(*                                                                         *)
(* The controls of the editor are made once and shown another track when the    *)
(* editor turns to it.  Vue's watchers run before the next event, so they are     *)
(* part of the step that changes what they watch.                             *)
(***************************************************************************)
EXTENDS Integers

CONSTANTS
  Tracks, NoTrack,
  Top,        \* a field takes 1..Top, a knob 0..Top in steps of KnobStep
  KnobStep,
  Junk,       \* text that is not a number
  MaxTravel   \* bound: how far the pointer goes from where it pressed

ASSUME ControlsAssumption ==
  /\ NoTrack \notin Tracks
  /\ Top \in Nat \ {0} /\ KnobStep \in Nat \ {0} /\ MaxTravel \in Nat
  /\ Junk \notin Int

VARIABLES
  shown,    \* activeTrackIndex: the track the controls are bound to, or the overview
  number,   \* track -> the leaf of the number field
  level,    \* track -> the leaf of the knob
  field,    \* [draft, typing]
  editor,   \* [state, draft, said]: TrackNameEditor; said is what it has emitted since it opened
  knob      \* [listening, startValue, at]

controlVars == <<shown, number, level, field, editor, knob>>

Texts == {Junk} \cup (-1)..(Top + 1)
Limit(n, lo, hi) == IF n < lo THEN lo ELSE IF n > hi THEN hi ELSE n

LetGo == [listening |-> FALSE, startValue |-> 0, at |-> 0]
Closed == [state |-> "idle", draft |-> 0, said |-> 0, refused |-> FALSE]

InitControls ==
  /\ shown \in Tracks \cup {NoTrack}
  /\ number \in [Tracks -> {1, Top}]
  /\ level = [t \in Tracks |-> 0]
  /\ field = [draft |-> IF shown = NoTrack THEN 0 ELSE number[shown], typing |-> FALSE]
  /\ editor = Closed /\ knob = LetGo

----------------------------------------------------------------------------
(* Numbers. *)

\* The draft follows the value when the value changes, not when it is written again.
Resynced(f, old, new) == IF old = new THEN f ELSE [draft |-> new, typing |-> FALSE]

TypeNumber(text) ==
  /\ shown # NoTrack
  /\ field' = [draft |-> text, typing |-> TRUE]
  /\ UNCHANGED <<shown, number, level, editor, knob>>

\* What is no positive number leaves the value as it is; the rest is brought into range.  (A
\* step's numbers are brought into range from below as well, by clampStepField.)
Taken(text, value) == IF text = Junk \/ (text # Junk /\ text <= 0) THEN value ELSE Limit(text, 1, Top)

ReflectedByWatch(text, taken) == IF taken = number[shown] THEN text ELSE taken
\* The field shows what was taken, though the value may not have changed.
Reflected(text, taken) == taken

CommitNumber ==
  LET taken == Taken(field.draft, number[shown])
  IN /\ shown # NoTrack /\ field.typing
     /\ field' = [draft |-> Reflected(field.draft, taken), typing |-> FALSE]
     /\ number' = [number EXCEPT ![shown] = taken]
     /\ UNCHANGED <<shown, level, editor, knob>>

PeerWritesNumber(t, n) ==
  /\ number' = [number EXCEPT ![t] = n]
  /\ field' = IF t = shown THEN Resynced(field, number[t], n) ELSE field
  /\ UNCHANGED <<shown, level, editor, knob>>

----------------------------------------------------------------------------
(* The name.  A draft is 0 for the name as it was, 1 for another. *)

BeginEdit ==
  /\ shown # NoTrack
  /\ editor' = [state |-> "editing", draft |-> 0, said |-> 0, refused |-> FALSE]
  /\ UNCHANGED <<shown, number, level, field, knob>>

TypeName ==
  /\ editor.state = "editing" /\ editor' = [editor EXCEPT !.draft = 1]
  /\ UNCHANGED <<shown, number, level, field, knob>>

MayAlways(e) == TRUE
\* commit(): editing is over before anything is said, so that the blur of the input that
\* is taken away says nothing more.
MayCommit(e) == e.state = "editing"

Said(e) == [e EXCEPT !.said = @ + e.draft]

EnterName ==
  /\ editor.state = "editing"
  /\ editor' = [Said(editor) EXCEPT !.state = "leaving"]
  /\ UNCHANGED <<shown, number, level, field, knob>>

EscapeName ==
  /\ editor.state = "editing"
  /\ editor' = [editor EXCEPT !.state = "leaving", !.refused = TRUE]
  /\ UNCHANGED <<shown, number, level, field, knob>>

\* The input loses the focus: by the player's going elsewhere, or by being taken away.
BlurName ==
  /\ editor.state # "idle"
  /\ editor' = [(IF MayCommit(editor) THEN Said(editor) ELSE editor) EXCEPT !.state = "idle"]
  /\ UNCHANGED <<shown, number, level, field, knob>>

----------------------------------------------------------------------------
(* The knob. *)

Snap(v) == Limit(((v + KnobStep \div 2) \div KnobStep) * KnobStep, 0, Top)

PressKnob ==
  /\ shown # NoTrack
  /\ knob' = [listening |-> TRUE, startValue |-> level[shown], at |-> 0]
  /\ UNCHANGED <<shown, number, level, field, editor>>

\* From the value there was at the press, and onto the track that is shown now.
MoveKnob(to) ==
  /\ knob.listening /\ shown # NoTrack
  /\ knob' = [knob EXCEPT !.at = to]
  /\ level' = [level EXCEPT ![shown] = Snap(Limit(knob.startValue + to, 0, Top))]
  /\ UNCHANGED <<shown, number, field, editor>>

ReleaseKnob ==
  /\ knob.listening /\ knob' = LetGo
  /\ UNCHANGED <<shown, number, level, field, editor>>

\* A double click on a knob that has a default.
ResetKnob ==
  /\ shown # NoTrack /\ level' = [level EXCEPT ![shown] = 0]
  /\ UNCHANGED <<shown, number, field, editor, knob>>

PeerWritesLevel(t, v) ==
  /\ level' = [level EXCEPT ![t] = v]
  /\ UNCHANGED <<shown, number, field, editor, knob>>

----------------------------------------------------------------------------
(* The editor turns to another track, or away: then its controls are unmounted, the name
   input without a word (its blur meets a component that is gone), the knob's listeners
   taken off the window. *)

Show(t) ==
  /\ t # shown
  /\ shown' = t
  /\ IF t = NoTrack THEN /\ field' = [field EXCEPT !.typing = FALSE]
                         /\ editor' = Closed /\ knob' = LetGo
     ELSE IF shown = NoTrack THEN /\ field' = [draft |-> number[t], typing |-> FALSE]
                                  /\ UNCHANGED <<editor, knob>>
     ELSE /\ field' = Resynced(field, number[shown], number[t])
          /\ UNCHANGED <<editor, knob>>
  /\ UNCHANGED <<number, level>>

NextControls ==
  \/ \E text \in Texts : TypeNumber(text)
  \/ CommitNumber \/ BeginEdit \/ TypeName \/ EnterName \/ EscapeName \/ BlurName
  \/ PressKnob \/ ReleaseKnob \/ ResetKnob
  \/ \E to \in -MaxTravel..MaxTravel : MoveKnob(to)
  \/ \E t \in Tracks : (\E n \in {1, Top} : PeerWritesNumber(t, n)) \/ PeerWritesLevel(t, Top)
  \/ \E t \in Tracks \cup {NoTrack} : Show(t)

ControlsSpec == InitControls /\ [][NextControls]_controlVars

----------------------------------------------------------------------------

\* A field that nobody is typing in shows the value of the track it is bound to: after any
\* commit, though the value taken be the one there was; after a peer's write; after the
\* editor has turned to another track.
FieldShowsValue == shown # NoTrack /\ ~field.typing => field.draft = number[shown]

\* "this guard makes both single-shot" (TrackNameEditor.vue): one editing says one name at
\* most, and none when it was escaped, though Enter and Escape are followed by a blur.
NameSaidOnce == editor.said <= 1 /\ (editor.refused => editor.said = 0)

\* With nothing going on a field shows its leaf, and a name is said once.
ControlsFollow == FieldShowsValue /\ NameSaidOnce
=============================================================================
