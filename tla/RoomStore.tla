------------------------------ MODULE RoomStore ------------------------------
(***************************************************************************)
(* The document half of a room of the in-process room store                *)
(* (packages/server/src/room/InMemoryRoomStore.ts): the project, the ring   *)
(* buffer of recent ops, the (clientId, clientSeq) index that mirrors it,   *)
(* the op counter, and the dirty flag and version the autosave reads, whose *)
(* part SessionSync models.                                                *)
(*                                                                         *)
(* A room is a record and every store method is an operator on it.  Each    *)
(* method is async in the code but awaits nothing: it runs to its end       *)
(* before any other handler does, so one operator is one atomic effect.     *)
(*                                                                         *)
(* Abstractions.  A project is a function from the paths of its leaves to   *)
(* values; setDeep is an update of one leaf.  The index is the set of ops   *)
(* it holds: an entry's key is a function of its op (Key).  The list        *)
(* getOpsSince returns is the set of its ops, whose opIds give the order.   *)
(***************************************************************************)
EXTENDS Integers, Sequences

CONSTANTS
  Client,    \* clientIds
  Path,      \* writable leaf paths of the project
  Value,     \* leaf values
  Capacity   \* RING_BUFFER_CAPACITY

ASSUME CapacityAssumption == Capacity \in Nat \ {0}

Project == [Path -> Value]

Op == [opId : Nat, clientId : Client, clientSeq : Nat, path : Path, value : Value]

Room == [project : Project, opLog : Seq(Op), opIndex : SUBSET Op,
         nextOpId : Nat, dirty : BOOLEAN, version : Nat]

-----------------------------------------------------------------------------

\* A room created by getOrCreate: a seed project, no ops, the counter at 1.
NewRoom(seed) ==
  [project |-> seed, opLog |-> <<>>, opIndex |-> {},
   nextOpId |-> 1, dirty |-> FALSE, version |-> 0]

OpIdHead(room) == room.nextOpId - 1

\* opIndexKey: what a resent op has in common with the original.
Key(op) == <<op.clientId, op.clientSeq>>

\* A lookup that only knows the newest op: a resend behind a peer's op is applied again.
IsDuplicateOfNewest(room, c, seq) ==
  \E op \in room.opIndex : Key(op) = <<c, seq>> /\ op.opId = OpIdHead(room)

\* The dedup lookup at the top of appendOp.
IsDuplicate(room, c, seq) == \E op \in room.opIndex : Key(op) = <<c, seq>>

\* An off-by-one that lets the ring buffer hold Capacity + 1 ops.
ExcessOffByOne(log) == IF Len(log) > Capacity + 1 THEN Len(log) - Capacity ELSE 0

\* How many ops a pushed log must lose to fit the ring buffer.
Excess(log) == IF Len(log) > Capacity THEN Len(log) - Capacity ELSE 0

\* What splice leaves in the log.
Evict(log) == SubSeq(log, Excess(log) + 1, Len(log))

\* An eviction that forgets the index: entries outlive their ops.
ReindexKeepingEvicted(index, op, evicted) ==
  {x \in index : Key(x) # Key(op)} \cup {op}

\* Map.set then, for every evicted op, Map.delete, both by key.
Reindex(index, op, evicted) ==
  {o \in {x \in index : Key(x) # Key(op)} \cup {op} :
     \A e \in evicted : Key(o) # Key(e)}

\* appendOp once the op is known not to be a duplicate.
AppendOp(room, c, seq, path, value) ==
  LET op     == [opId |-> room.nextOpId, clientId |-> c, clientSeq |-> seq,
                 path |-> path, value |-> value]
      pushed == Append(room.opLog, op)
  IN [project  |-> [room.project EXCEPT ![path] = value],
      opLog    |-> Evict(pushed),
      opIndex  |-> Reindex(room.opIndex, op, {pushed[i] : i \in 1..Excess(pushed)}),
      nextOpId |-> room.nextOpId + 1,
      dirty    |-> TRUE,
      version  |-> room.version + 1]

\* A load that does not consume an opId.
ReplaceProjectKeepingCounter(room, project) ==
  [project |-> project, opLog |-> <<>>, opIndex |-> {},
   nextOpId |-> room.nextOpId, dirty |-> TRUE, version |-> room.version + 1]

\* A load that leaves the old document's ops in the ring buffer.
ReplaceProjectKeepingLog(room, project) ==
  [room EXCEPT !.project = project, !.nextOpId = @ + 1, !.dirty = TRUE, !.version = @ + 1]

\* replaceProject: a load consumes an opId and clears the log and its index.
ReplaceProject(room, project) ==
  [project |-> project, opLog |-> <<>>, opIndex |-> {},
   nextOpId |-> room.nextOpId + 1, dirty |-> TRUE, version |-> room.version + 1]

\* A window check that asks for the op the client already has.
CanReplayOffByOne(room, from) ==
  IF room.opLog = <<>>
  THEN from = OpIdHead(room)
  ELSE room.opLog[1].opId <= from

\* getOpsSince returns ops, and not the null that asks for a snapshot.
CanReplay(room, from) ==
  IF room.opLog = <<>>
  THEN from = OpIdHead(room)
  ELSE room.opLog[1].opId <= from + 1

\* The ops getOpsSince returns.
OpsSince(room, from) ==
  {op \in {room.opLog[i] : i \in DOMAIN room.opLog} : op.opId > from}
=============================================================================
