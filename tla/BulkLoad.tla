------------------------------- MODULE BulkLoad -------------------------------
(***************************************************************************)
(* Whole-project loads in a room whose tabs are ClientSync's: New and Open   *)
(* (packages/client/src/app/projectOps.ts), the one load a tab may have      *)
(* outstanding (sync/LoadTracker.ts), and the load handler of the server.   *)
(*                                                                         *)
(* A load is one message and stands beside the outbox: it is written at      *)
(* once, cleared by the next snapshot whoever caused it, resent once, and    *)
(* rolled back to the project from before it when refused or given up.  A    *)
(* load writes its number to every leaf.  The steps of ClientSync that a     *)
(* load does not touch are taken from it; reloads, restarts, refused sets    *)
(* and edits under the loader are left to its own runs.                     *)
(***************************************************************************)
EXTENDS ClientSync

CONSTANTS
  MaxLoads,    \* bound: loads in a run
  MaxTimeouts  \* bound: ack timeouts of loads, after drops and refusals

ASSUME BulkLoadAssumption ==
  {MaxLoads, MaxTimeouts} \subseteq Nat /\ 0..(MaxEdits + MaxLoads) \subseteq Value

VARIABLES
  loading,  \* per client, the pending load of its LoadTracker
  loads,    \* how many loads there have been
  timeouts  \* how many of their ack timeouts have fired

bulkVars == <<vars, loading, loads, timeouts>>

NoLoad == [c \in Client |-> None]

LoadMsg(seq, project) == [type |-> "load", clientSeq |-> seq, project |-> project]

\* A socket's end that drops the pending load and trusts the resume.
ClosedTrusting(t, load) == Closed(t)

\* onClosed of outbox and LoadTracker: a pending load is dropped, and since nobody
\* knows whether it arrived, the next hello asks for a snapshot.
ClosedLoading(t, load) ==
  IF load = None THEN Closed(t) ELSE [Closed(t) EXCEPT !.snapshotRequired = TRUE]

\* New or Open: the project is replaced here and sent as one message.  With the socket
\* down the load is tracked all the same, but send throws.
Load(c) ==
  LET k    == MaxEdits + loads + 1
      next == [p \in Path |-> k]
      seq  == tab[c].clientSeq + 1
  IN /\ tab[c].syncReady
     /\ loads < MaxLoads
     /\ loads' = loads + 1
     /\ loading' = [loading EXCEPT ![c] =
                      [seq |-> seq, next |-> next, prior |-> tab[c].project, resent |-> FALSE]]
     /\ tab' = [tab EXCEPT ![c].project = next,
                           ![c].clientSeq = seq,
                           ![c].up = IF Live(tab[c]) THEN Append(@, LoadMsg(seq, next)) ELSE @]
     /\ UNCHANGED <<room, down, spent, owed, gapped, excused, timeouts>>

AckTimeoutFires ==
  /\ timeouts + spent.drops + spent.nacks < MaxTimeouts
  /\ timeouts' = timeouts + 1

\* No snapshot within the ack timeout: once more, if there is a socket to send on.
ResendLoad(c) ==
  /\ loading[c] # None /\ ~loading[c].resent
  /\ AckTimeoutFires
  /\ loading' = [loading EXCEPT ![c].resent = TRUE]
  /\ tab' = IF Live(tab[c])
            THEN [tab EXCEPT ![c].up = Append(@, LoadMsg(loading[c].seq, loading[c].next))]
            ELSE tab
  /\ UNCHANGED <<room, down, spent, owed, gapped, excused, loads>>

\* Terminal failure: the project from before the load is put back, and with it the
\* leaves that others have written since.
Rollback(c) ==
  /\ loading' = [loading EXCEPT ![c] = None]
  /\ excused' = excused \cup {c}

\* The second timeout.
GiveUpLoad(c) ==
  /\ loading[c] # None /\ loading[c].resent
  /\ AckTimeoutFires
  /\ Rollback(c)
  /\ tab' = [tab EXCEPT ![c].project = loading[c].prior]
  /\ UNCHANGED <<room, down, spent, owed, gapped, loads>>

\* The connection is lost, or an attempt to connect fails.
LoseConnection(c) ==
  /\ tab[c].state # "closed" \/ loading[c] # None
  /\ Mishap("drops", MaxDrops)
  /\ tab' = [tab EXCEPT ![c] = ClosedLoading(@, loading[c])]
  /\ down' = [down EXCEPT ![c] = <<>>]
  /\ loading' = [loading EXCEPT ![c] = None]
  /\ excused' = excused \cup (gapped \cap {c})
  /\ gapped' = gapped \ {c}
  /\ UNCHANGED <<room, owed, loads, timeouts>>

\* The server replaces the document and every socket of the room gets it; the sender's
\* copy is its ack.
HandleLoad(c) ==
  LET msg == Head(tab[c].up)
  IN /\ Take(c, "load")
     /\ room' = ReplaceProject(room, msg.project)
     /\ down' = [d \in Client |->
                   IF d \in Audience(c)
                   THEN Append(down[d], [type |-> "snapshot", opId |-> OpIdHead(room'),
                                         project |-> msg.project])
                   ELSE down[d]]
     /\ UNCHANGED <<spent, owed, gapped, excused, loading, loads, timeouts>>

\* The interval between loads is too short, or the schema refuses the project.
RefuseLoad(c) ==
  /\ Take(c, "load")
  /\ Mishap("nacks", MaxNacks)
  /\ down' = [down EXCEPT ![c] = Append(@, [type |-> "nack", clientSeq |-> Head(tab[c].up).clientSeq])]
  /\ UNCHANGED <<room, owed, gapped, excused, loading, loads, timeouts>>

\* A nack of the pending load rolls it back; one of a load that has been superseded
\* goes to the outbox, which does not know it either.
OnLoadNack(c) ==
  LET seq == Head(down[c]).clientSeq
      ours == loading[c] # None /\ loading[c].seq = seq
  IN /\ Receive(c, "nack", IF ours THEN [tab[c] EXCEPT !.project = loading[c].prior]
                           ELSE RolledBack(tab[c], seq))
     /\ IF ours THEN Rollback(c) ELSE UNCHANGED <<loading, excused>>
     /\ UNCHANGED <<room, spent, owed, gapped, loads, timeouts>>

\* Any snapshot confirms or supersedes the pending load.
OnSnapshotLoading(c) ==
  /\ OnSnapshot(c)
  /\ loading' = [loading EXCEPT ![c] = None]
  /\ UNCHANGED <<loads, timeouts>>

-----------------------------------------------------------------------------

\* Both tabs have joined a room that nobody has edited, and been caught up.
InitBulk ==
  /\ room = NewRoom(Fresh)
  /\ tab = [c \in Client |-> [NewTab(TRUE, 0, 0) EXCEPT
                               !.state = "live", !.snapshotRequired = FALSE, !.syncReady = TRUE]]
  /\ down = [c \in Client |-> <<>>]
  /\ spent = [edits |-> 0, drops |-> 0, reloads |-> 0, restarts |-> 0, nacks |-> 0, strays |-> 0]
  /\ owed = [c \in Client |-> NoEntries]
  /\ gapped = {}
  /\ excused = {}
  /\ loading = NoLoad
  /\ loads = 0
  /\ timeouts = 0

\* The steps of ClientSync that have nothing to do with loads.
Untouched ==
  /\ \E c \in Client :
       \/ Connect(c)
       \/ \E p \in Path, gestureEnd \in BOOLEAN : Edit(c, p, gestureEnd)
       \/ \E p \in Path : FlushPath(c, p)
       \/ HandleHello(c)
       \/ HandleSet(c)
       \/ OnWelcome(c)
       \/ OnSet(c)
       \/ OnComplete(c)
  /\ UNCHANGED <<loading, loads, timeouts>>

NextBulk ==
  \/ Untouched
  \/ \E c \in Client : Load(c)
  \/ \E c \in Client : ResendLoad(c)
  \/ \E c \in Client : GiveUpLoad(c)
  \/ \E c \in Client : LoseConnection(c)
  \/ \E c \in Client : HandleLoad(c)
  \/ \E c \in Client : RefuseLoad(c)
  \/ \E c \in Client : OnLoadNack(c)
  \/ \E c \in Client : OnSnapshotLoading(c)

BulkSpec == InitBulk /\ [][NextBulk]_bulkVars
-----------------------------------------------------------------------------
(* Properties *)

\* A load leaves no tab behind: once a tab is quiet and its load is over, it shows what
\* the server holds, whether the load arrived, was lost with the socket, arrived twice,
\* met another tab's load or edits, or was overtaken by a snapshot meant for something
\* else (LoadTracker.ts).  Excused until its next snapshot is a tab that rolled back:
\* the prior it puts back is as old as the load.
LoadsLeaveTabsAgreeing ==
  \A c \in Client \ excused :
    Settled(c) /\ loading[c] = None => tab[c].project = room.project
=============================================================================
