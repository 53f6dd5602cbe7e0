------------------------------- MODULE PageMC -------------------------------
(***************************************************************************)
(* The page around the tracker, for TLC: the undo history, where the page is   *)
(* and what it is called, patches and presets, the questions it asks, the      *)
(* lobby, and the verdicts of the audio lab.  The parts share no variable, so  *)
(* a behaviour explores one of them while the others rest: their states add    *)
(* up and need not be multiplied.  Patches, dialogs and the lobby take turns   *)
(* at the variables x1 to x9.                                                 *)
(***************************************************************************)
EXTENDS UndoHistory, Navigation, AudioAudit, TLC

CONSTANTS
  Fader, Note, TrackId, MaxActs, MaxSessions, MaxFetches, MaxVisits,
  Slot, Preset, Word, Blank, NoSlot, MaxAsked, MaxCalls

VARIABLES part, x1, x2, x3, x4, x5, x6, x7, x8, x9

EitherRoom == Permutations(Room)

Presets == INSTANCE Patches WITH
  mine <- x1, theirs <- x2, wire <- x3, link <- x4, ui <- x5, files <- x6, acts <- x7

Questions == INSTANCE Dialogs WITH
  queue <- x1, draft <- x2, own <- x3, answers <- x4, active <- x5, touched <- x6,
  presets <- x7, library <- x8, calls <- x9

Entrance == INSTANCE Lobby WITH
  tab <- x1, poll <- x2, fetches <- x3, list <- x4, made <- x5, form <- x6, posts <- x7

spare == <<x1, x2, x3, x4, x5, x6, x7, x8, x9>>
own == <<vars, navigationVars, auditVars>>

SevenAtRest == x1 = 0 /\ x2 = 0 /\ x3 = 0 /\ x4 = 0 /\ x5 = 0 /\ x6 = 0 /\ x7 = 0
TwoAtRest == x8 = 0 /\ x9 = 0

\* One initial state of the modules that have several, for the parts that let them rest.
HistoryAtRest == \A p \in Path : project[p] = 0
PageAtRest == app.view = "lobby"
LabAtRest == check.kind = "health" /\ check.allowed = {} /\ ~check.known

PageInit ==
  /\ \/ part \in {"history", "navigation", "lab"} /\ SevenAtRest /\ TwoAtRest
     \/ part = "patches" /\ Presets!InitPatches /\ TwoAtRest
     \/ part = "questions" /\ Questions!InitDialogs
     \/ part = "lobby" /\ Entrance!InitLobby /\ TwoAtRest
  /\ Init /\ InitNavigation /\ InitAudit
  /\ (part # "history" => HistoryAtRest) /\ (part # "navigation" => PageAtRest) /\ (part # "lab" => LabAtRest)

PageNext ==
  \/ part = "history" /\ Next /\ UNCHANGED <<navigationVars, auditVars, spare, part>>
  \/ part = "navigation" /\ NextNavigation /\ UNCHANGED <<vars, auditVars, spare, part>>
  \/ part = "lab" /\ NextAudit /\ UNCHANGED <<vars, navigationVars, spare, part>>
  \/ part = "patches" /\ Presets!NextPatches /\ UNCHANGED <<own, x8, x9, part>>
  \/ part = "questions" /\ Questions!NextDialogs /\ UNCHANGED <<own, part>>
  \/ part = "lobby" /\ Entrance!NextLobby /\ UNCHANGED <<own, x8, x9, part>>

PageSpec == PageInit /\ [][PageNext]_<<own, spare, part>>

----------------------------------------------------------------------------
(* The invariants of a part, asked of the states it is the one to move in; Navigation's             *)
(* PageIsWhereItSays and AudioAudit's PassesEarned are asked of every state.                        *)

\* Patches: who has heard all that was sent has the same project, but for the names and the order
\* of tracks since a whole project went leaf by leaf.
PatchesCarryAll == part = "patches" => Presets!LeavesCarryAll

\* Dialogs: a question is answered with what was written in its own field, unless another prompt
\* was asked while it waited, or waited when it was asked.
AnswersKeepApart == part = "questions" => Questions!AnswersAreOnesOwn

\* Lobby: the list is polled while it is in sight, by one timer.
LobbyPolls == part = "lobby" => Entrance!PollsOnlyInSight
=============================================================================
