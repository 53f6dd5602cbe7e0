------------------------------- MODULE RoomLog -------------------------------
(***************************************************************************)
(* One room from its creation to its prune: clients' set ops, their         *)
(* resends, and whole-project loads, as ConnectionHandler hands them to the *)
(* room store (packages/server/src/sync/ConnectionHandler.ts), and what     *)
(* catch-up could serve from the room at any moment.                        *)
(*                                                                         *)
(* The ledger is a history variable: entry k records what consumed opId k   *)
(* and the project after it.  No action reads it.                           *)
(*                                                                         *)
(* What a client sends under a clientSeq never changes (Outbox keeps the    *)
(* entry and resends it whole), so the payload of an op is a constant       *)
(* function of its key; the theorems hold for every such function.          *)
(***************************************************************************)
EXTENDS RoomStore

CONSTANTS
  Payload,   \* [Client -> [clientSeq -> [path : Path, value : Value]]]
  Loadable,  \* projects a load may carry
  Seed,      \* the project the room is created with
  MaxSeq,    \* bound: ops a client numbers
  MaxHead    \* bound: opIds the room hands out

ASSUME RoomLogAssumption ==
  /\ MaxSeq \in Nat
  /\ MaxHead \in Nat
  /\ Seed \in Project
  /\ Loadable \subseteq Project
  /\ Payload \in [Client -> [1..MaxSeq -> [path : Path, value : Value]]]

VARIABLES
  room,      \* the RoomState
  clientSeq, \* per client, the highest clientSeq it has used
  ledger     \* history: what consumed each opId, and the project it left

vars == <<room, clientSeq, ledger>>

LoadEntry == [load : {TRUE}, project : Project]
SetEntry  == [load : {FALSE}, clientId : Client, clientSeq : Nat, project : Project]

-----------------------------------------------------------------------------

Init ==
  /\ room = NewRoom(Seed)
  /\ clientSeq = [c \in Client |-> 0]
  /\ ledger = <<>>

\* The store's effect of a set with key <<c, seq>>: a duplicate changes nothing
\* (the handler echoes the op it finds), a new op is applied and logged.
ApplySet(c, seq) ==
  LET new == AppendOp(room, c, seq, Payload[c][seq].path, Payload[c][seq].value)
  IN IF IsDuplicate(room, c, seq)
     THEN UNCHANGED <<room, ledger>>
     ELSE /\ room' = new
          /\ ledger' = Append(ledger, [load |-> FALSE, clientId |-> c, clientSeq |-> seq,
                                       project |-> new.project])

\* A client numbers a new op, and the server handles it.
Set(c) ==
  /\ OpIdHead(room) < MaxHead
  /\ clientSeq[c] < MaxSeq
  /\ clientSeq' = [clientSeq EXCEPT ![c] = @ + 1]
  /\ ApplySet(c, clientSeq[c] + 1)

\* An ack timeout makes the client send an op again under the same clientSeq.
Resend(c, seq) ==
  /\ OpIdHead(room) < MaxHead
  /\ seq <= clientSeq[c]
  /\ ApplySet(c, seq)
  /\ UNCHANGED clientSeq

\* A load that passed its rate limit and its validation.
Load(project) ==
  /\ OpIdHead(room) < MaxHead
  /\ room' = ReplaceProject(room, project)
  /\ ledger' = Append(ledger, [load |-> TRUE, project |-> project])
  /\ UNCHANGED clientSeq

Next ==
  \/ \E c \in Client : Set(c)
  \/ \E c \in Client : \E seq \in 1..MaxSeq : Resend(c, seq)
  \/ \E project \in Loadable : Load(project)

Spec == Init /\ [][Next]_vars

-----------------------------------------------------------------------------
(* Properties *)

\* The room and the history have their shapes, and the log never outgrows the
\* ring buffer (RoomStore.ts: "bounded to RING_BUFFER_CAPACITY entries").
TypeOK ==
  /\ room \in Room
  /\ clientSeq \in [Client -> 0..MaxSeq]
  /\ ledger \in Seq(LoadEntry \cup SetEntry)
  /\ Len(room.opLog) <= Capacity

\* The project a client that applied everything up to opId k holds.
ProjectAt(k) == IF k = 0 THEN Seed ELSE ledger[k].project

\* Ledger entry k is what appendOp logged as op.
Logged(k, op) ==
  /\ op.opId = k
  /\ ledger[k].load = FALSE
  /\ Key(ledger[k]) = Key(op)

\* The log is the unbroken run of the newest opIds, each op at the opId it
\* consumed: opIds are contiguous whatever evictions and loads came between
\* (the first invariant RoomStore.ts lists; appendOp, replaceProject).
LogContiguous ==
  /\ Len(ledger) = OpIdHead(room)
  /\ \A i \in DOMAIN room.opLog :
       Logged(OpIdHead(room) - Len(room.opLog) + i, room.opLog[i])

\* The dedup index and the log hold the same ops, one per key, across every
\* eviction and load (types.ts: "the two structures always hold the same ops").
IndexMirrorsLog ==
  /\ room.opIndex = {room.opLog[i] : i \in DOMAIN room.opLog}
  /\ \A x, y \in room.opIndex : Key(x) = Key(y) => x = y

\* A replay is offered exactly to the clients that missed at most Capacity ops
\* and no load: anyone else is told to take a snapshot (getOpsSince; "a load is
\* a replay horizon", ARCHITECTURE D19).
ReplayWindow ==
  \A k \in 0..OpIdHead(room) :
    CanReplay(room, k) <=>
      /\ OpIdHead(room) - k <= Capacity
      /\ \A j \in (k + 1)..OpIdHead(room) : ~ledger[j].load

\* The op whose value survives on path p when ops are applied in opId order.
LastWrite(ops, p) ==
  CHOOSE op \in ops : op.path = p /\ \A o \in ops : o.path = p => o.opId <= op.opId

\* The project that applying ops in opId order makes of a project.
Replay(project, ops) ==
  [p \in Path |-> IF \E op \in ops : op.path = p THEN LastWrite(ops, p).value ELSE project[p]]

\* Whatever opId a client resumes from, if the server replays instead of sending
\* a snapshot, the replay turns the project the client had at that opId into the
\* room's project (sendCatchUp over getOpsSince): catch-up loses and adds nothing.
CatchUpRebuilds ==
  \A k \in 0..OpIdHead(room) :
    CanReplay(room, k) => Replay(ProjectAt(k), OpsSince(room, k)) = room.project

\* An op sent again under its clientSeq is applied again only when more than
\* Capacity opIds, or a load, have passed since (appendOp's dedup through the
\* ring buffer): inside the window a resend is idempotent.
AppliedOncePerWindow ==
  \A j \in DOMAIN ledger : \A i \in 1..(j - 1) :
    (/\ ~ledger[i].load
     /\ ~ledger[j].load
     /\ Key(ledger[i]) = Key(ledger[j]))
    => \/ j - i > Capacity
       \/ \E k \in (i + 1)..(j - 1) : ledger[k].load
=============================================================================
