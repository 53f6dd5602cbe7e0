------------------------------- MODULE StepClock -------------------------------
(***************************************************************************)
(* What the transport promises: from each start on, the steps 0, 1, 2, ...  *)
(* are handed out once each and in order, the first at the start time and   *)
(* every later one a step of the current tempo after the one before it.     *)
(* Sequencer implements this with an anchor and a count of steps since it.  *)
(***************************************************************************)
EXTENDS Naturals

CONSTANTS
  Tempo,      \* tempos a project can have
  StepTime    \* per tempo, the length of a sixteenth, in frames

VARIABLES
  playing,    \* between a start and a stop
  tempo,      \* the project's tempo
  step,       \* the next step's number
  begun,      \* step 0 has been handed out
  at          \* when the last step was due; before the first, when that will be

vars == <<playing, tempo, step, begun, at>>

Init ==
  /\ playing = FALSE /\ tempo \in Tempo
  /\ step = 0 /\ begun = FALSE /\ at = 0

Begin ==
  /\ ~playing /\ playing' = TRUE
  /\ step' = 0 /\ begun' = FALSE /\ at' \in Nat
  /\ UNCHANGED tempo

Due ==
  /\ playing
  /\ step' = step + 1 /\ begun' = TRUE
  /\ at' = IF begun THEN at + StepTime[tempo] ELSE at
  /\ UNCHANGED <<playing, tempo>>

ChangeTempo ==
  /\ tempo' \in Tempo
  /\ UNCHANGED <<playing, step, begun, at>>

End ==
  /\ playing /\ playing' = FALSE
  /\ UNCHANGED <<tempo, step, begun, at>>

Next == Begin \/ Due \/ ChangeTempo \/ End

Spec == Init /\ [][Next]_vars
=============================================================================
