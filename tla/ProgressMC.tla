----------------------------- MODULE ProgressMC -----------------------------
(***************************************************************************)
(* What a server must bring to an end, for TLC: the hellos that wait for a     *)
(* room's expiry chain, and the edits that wait for a save.  RoomLifecycle     *)
(* and SessionSync share no variable (each has its own view of the grace       *)
(* timer, the expiry chain and the row): a behaviour explores one of them      *)
(* while the other rests in an initial state, and fairness is asked of the     *)
(* one that moves.                                                          *)
(***************************************************************************)
EXTENDS RoomLifecycle, SessionSync

VARIABLE part

ProgressInit ==
  /\ part \in {"life", "saving"}
  /\ InitLife /\ (part = "saving" => stored)
  /\ Init /\ (part = "life" => row = "owned")

ProgressNext ==
  \/ part = "life" /\ NextLife /\ UNCHANGED <<vars, part>>
  \/ part = "saving" /\ Next /\ UNCHANGED <<lifeVars, part>>

\* LifeFairness and Fairness, each while its module is the one to move.
LifeIsFair ==
  /\ \A s \in Socket :
       /\ WF_lifeVars(part = "life" /\ HelloGoesOn(s))
       /\ WF_lifeVars(part = "life" /\ sock[s] = "closing" /\ SocketClosed(s))
  /\ WF_lifeVars(part = "life" /\ TimerFires)
  /\ WF_lifeVars(part = "life" /\ ChainGoesOn)

SavingIsFair ==
  /\ WF_vars(part = "saving" /\ SweepTick)
  /\ WF_vars(part = "saving" /\ SweepFlush)
  /\ WF_vars(part = "saving" /\ ReadsAnswered)
  /\ WF_vars(part = "saving" /\ WritesAnswered)
  /\ WF_vars(part = "saving" /\ SweepAnswered)
  /\ SF_vars(part = "saving" /\ SweepServed)

ProgressSpec ==
  /\ ProgressInit /\ [][ProgressNext]_<<lifeVars, vars, part>>
  /\ LifeIsFair /\ SavingIsFair
=============================================================================
