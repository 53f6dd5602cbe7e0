------------------------------- MODULE TabsMC -------------------------------
(***************************************************************************)
(* A room of two tabs for TLC, and what happens to it: edits in one part of    *)
(* the behaviours, loads of whole projects in the other.                      *)
(***************************************************************************)
EXTENDS BulkLoad

CONSTANTS
  EditsWithLoads, LoadsAndMishaps  \* bounds of the part that loads, under those of the other

VARIABLE part

SmallValues == 0..(MaxEdits + MaxStrays + MaxLoads)

EitherTab == Permutations(Client)

TabsInit ==
  \/ part = "edits" /\ Init /\ loading = NoLoad /\ loads = 0 /\ timeouts = 0
  \/ part = "loads" /\ InitBulk

TabsNext ==
  \/ part = "edits" /\ Next /\ UNCHANGED <<loading, loads, timeouts, part>>
  \/ /\ part = "loads" /\ NextBulk /\ UNCHANGED part
     /\ spent'.edits <= EditsWithLoads
     /\ loads' + timeouts' + spent'.drops + spent'.nacks <= LoadsAndMishaps

TabsSpec == TabsInit /\ [][TabsNext]_<<bulkVars, part>>

\* Once tabs are quiet they show what the server holds, whatever edits, resends, drops and
\* snapshots came before, and while they are live no op they get skips one.
EditsAgree == part = "edits" => TypeOK /\ QuietTabsAgree /\ NoGapWhileLive

\* The same after loads, whatever became of them.
LoadsAgree == part = "loads" => LoadsLeaveTabsAgreeing
=============================================================================
