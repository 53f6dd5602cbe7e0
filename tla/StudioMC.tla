------------------------------ MODULE StudioMC ------------------------------
(***************************************************************************)
(* What the player's hands are on, for TLC: the tracker's steps, the rack of  *)
(* cards, the fields and knobs of a card, the keyboard, and the engines of     *)
(* the older kind that a note ends up in.  The parts share no variable, so a   *)
(* behaviour explores one of them while the others rest: their states add up   *)
(* and need not be multiplied.  The rack and the keyboard take turns at the    *)
(* variables x1 to x8.                                                        *)
(***************************************************************************)
EXTENDS Tracker, Controls, LegacyEngines

CONSTANTS T1, T2, C, Slots, NoCard, MaxVisits

VARIABLES part, x1, x2, x3, x4, x5, x6, x7, x8

\* Two steps to begin with, a paste of which reaches a hidden row; edits make others, played
\* or muted.
MCOpening == [r \in Row |-> IF r < 2 THEN C ELSE Rest]

Overview == INSTANCE Rack WITH
  trackOrder <- x1, enabled <- x2, drag <- x3, asked <- x4

Shortcuts == INSTANCE Keyboard WITH
  page <- x1, service <- x2, overlay <- x3, inField <- x4,
  selection <- x5, clipboard <- x6, history <- x7, held <- x8

spare == <<x1, x2, x3, x4, x5, x6, x7, x8>>
own == <<vars, controlVars, engineVars>>

FirstAtRest == x1 = 0 /\ x2 = 0 /\ x3 = 0 /\ x4 = 0
LastAtRest == x5 = 0 /\ x6 = 0 /\ x7 = 0 /\ x8 = 0

StudioInit ==
  /\ \/ part \in {"tracker", "controls", "engines"} /\ FirstAtRest /\ LastAtRest
     \/ part = "rack" /\ Overview!InitRack /\ LastAtRest
     \/ part = "keyboard" /\ Shortcuts!InitKeyboard
  /\ Init /\ InitControls /\ InitEngines
  /\ part # "controls" => shown = NoTrack /\ \A t \in Tracks : number[t] = 1
  /\ part # "engines" => kind = "clap" /\ decay = 1

StudioNext ==
  \/ part = "tracker" /\ Next /\ UNCHANGED <<controlVars, engineVars, spare, part>>
  \/ part = "controls" /\ NextControls /\ UNCHANGED <<vars, engineVars, spare, part>>
  \/ part = "engines" /\ NextEngines /\ UNCHANGED <<vars, controlVars, spare, part>>
  \/ part = "rack" /\ Overview!NextRack /\ UNCHANGED <<own, x5, x6, x7, x8, part>>
  \/ part = "keyboard" /\ Shortcuts!NextKeyboard /\ UNCHANGED <<own, part>>

StudioSpec == StudioInit /\ [][StudioNext]_<<own, spare, part>>

----------------------------------------------------------------------------
(* The properties of a part, asked of the states it is the one to move in. *)

\* Whether a step writes steps, as every command does.
Writes == part = "tracker" /\ edits' > edits

\* Tracker: moved steps take their selection along.
MovesCarry == [][Writes => MoveCarries]_<<vars, part>>

\* Tracker: a paste selects what it wrote, and no command reaches the rows that are hidden.
PastesSelect == [][Writes => PasteSelects /\ HiddenRowsStay]_<<vars, part>>

\* Rack: a card lands where the line showed, whatever peers did meanwhile.
DropsLand ==
  [][part = "rack" => \A p \in Slots : Overview!Drop(p) => Overview!LandsWhereShown(p)]_spare

\* Keyboard: a key that met a dialog changes nothing behind it, and what keys reach is the view
\* that is mounted.
KeysReachTheView ==
  [][part = "keyboard" => Shortcuts!BehindDialog /\ Shortcuts!CommandsFollowView]_spare
=============================================================================
