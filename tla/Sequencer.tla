------------------------------- MODULE Sequencer -------------------------------
(***************************************************************************)
(* The transport, packages/client/src/sequencer/Sequencer.ts: a 25 ms       *)
(* interval hands every step that falls within the look-ahead to onStep,    *)
(* with times counted from an anchor so that they do not drift, and the     *)
(* anchor moved when the tempo changes.                                     *)
(*                                                                         *)
(* Time is in frames of the audio clock, which advances a block at a time   *)
(* whatever the page does; a tick reads it once, and then hands out one     *)
(* step after another without giving way to another callback.  Timers may   *)
(* be late, by any amount.                                                  *)
(***************************************************************************)
EXTENDS Integers

CONSTANTS
  Tempo,       \* project.bpm
  StepTime,    \* stepDuration(bpm), in frames
  LookAhead,   \* the 0.1 s that absorb the timer's jitter
  BlockSize,   \* frames the audio clock advances by
  NoTick       \* no tick under way

ASSUME SequencerAssumption ==
  /\ StepTime \in [Tempo -> Nat \ {0}]
  /\ LookAhead \in Nat \ {0}
  /\ BlockSize \in Nat \ {0}
  /\ NoTick \notin Nat

VARIABLES
  now,         \* ctx.currentTime
  bpm,         \* project.bpm
  isPlaying,
  internals,   \* currentStep, nextStepIndex, scheduleStartTime and lastBpm
  until        \* the lookaheadTime of the tick under way

seqVars == <<now, bpm, isPlaying, internals, until>>

Init ==
  /\ now = 0
  /\ bpm \in Tempo
  /\ isPlaying = FALSE
  /\ internals = [currentStep |-> 0, nextStepIndex |-> 0, scheduleStartTime |-> 0, lastBpm |-> bpm]
  /\ until = NoTick

Idle == until = NoTick

\* A start that does not leave the look-ahead.
StartAtOnce ==
  /\ Idle /\ ~isPlaying
  /\ isPlaying' = TRUE
  /\ internals' = [currentStep |-> 0, nextStepIndex |-> 0, scheduleStartTime |-> now, lastBpm |-> bpm]
  /\ UNCHANGED <<now, bpm, until>>

Start ==
  /\ Idle /\ ~isPlaying
  /\ isPlaying' = TRUE
  /\ internals' = [currentStep |-> 0, nextStepIndex |-> 0,
                   scheduleStartTime |-> now + LookAhead, lastBpm |-> bpm]
  /\ UNCHANGED <<now, bpm, until>>

\* The interval is cleared: no further tick.
Stop ==
  /\ Idle /\ isPlaying
  /\ isPlaying' = FALSE
  /\ UNCHANGED <<now, bpm, internals, until>>

SetBpm(b) ==
  /\ Idle /\ b # bpm
  /\ bpm' = b
  /\ UNCHANGED <<now, isPlaying, internals, until>>

\* A rebase that puts the anchor on the step to come instead of the last one.
RebasedOnNext(s) ==
  IF s.lastBpm = bpm
  THEN s
  ELSE [s EXCEPT !.lastBpm = bpm,
                 !.scheduleStartTime = @ + s.nextStepIndex * StepTime[s.lastBpm],
                 !.nextStepIndex = IF @ > 0 THEN 1 ELSE 0]

\* A tempo change noticed by a tick: the last step handed out becomes the anchor.
Rebased(s) ==
  CASE s.lastBpm = bpm     -> s
    [] s.nextStepIndex = 0 -> [s EXCEPT !.lastBpm = bpm]
    [] OTHER               ->
         [s EXCEPT !.lastBpm = bpm,
                   !.scheduleStartTime = @ + (s.nextStepIndex - 1) * StepTime[s.lastBpm],
                   !.nextStepIndex = 1]

Tick ==
  /\ Idle /\ isPlaying
  /\ internals' = Rebased(internals)
  /\ until' = now + LookAhead
  /\ UNCHANGED <<now, bpm, isPlaying>>

NextStepTime ==
  internals.scheduleStartTime + internals.nextStepIndex * StepTime[bpm]

\* onStep(currentStep, nextStepTime).
Step ==
  /\ ~Idle /\ NextStepTime < until
  /\ internals' = [internals EXCEPT !.currentStep = @ + 1, !.nextStepIndex = @ + 1]
  /\ UNCHANGED <<now, bpm, isPlaying, until>>

EndTick ==
  /\ ~Idle /\ NextStepTime >= until
  /\ until' = NoTick
  /\ UNCHANGED <<now, bpm, isPlaying, internals>>

\* The audio thread renders a block.
Advance ==
  /\ now' = now + BlockSize
  /\ UNCHANGED <<bpm, isPlaying, internals, until>>

Next ==
  \/ Start \/ Stop
  \/ \E b \in Tempo : SetBpm(b)
  \/ Tick \/ Step \/ EndTick
  \/ Advance

Spec == Init /\ [][Next]_seqVars
-----------------------------------------------------------------------------
(* Properties *)

Internals ==
  [currentStep : Nat, nextStepIndex : Nat, scheduleStartTime : Nat, lastBpm : Tempo]

\* The transport's state; a tick runs only while playing, and by the tempo it read.
TypeOK ==
  /\ now \in Nat /\ bpm \in Tempo /\ isPlaying \in BOOLEAN
  /\ internals \in Internals
  /\ until \in Nat \cup {NoTick}
  /\ until # NoTick => isPlaying /\ internals.lastBpm = bpm

\* When the last step handed out was due, or the first will be.
LastDue ==
  internals.scheduleStartTime
    + (IF internals.nextStepIndex = 0 THEN 0 ELSE internals.nextStepIndex - 1)
      * StepTime[internals.lastBpm]

Clock == INSTANCE StepClock WITH
  playing <- isPlaying,
  tempo   <- bpm,
  step    <- internals.currentStep,
  begun   <- internals.nextStepIndex > 0,
  at      <- LastDue

\* Steps are handed out once each, in order, each a step of the current tempo after the
\* last, however late the timer is and however often the tempo changes (Sequencer.start).
StepsOnTime == Clock!Spec
=============================================================================
