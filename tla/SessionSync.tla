----------------------------- MODULE SessionSync -----------------------------
(***************************************************************************)
(* One room and the durable session it caches: the autosave sweep, the      *)
(* flush of every disconnect, the end-of-life flush and guest prune, the    *)
(* stale-guest sweep and the load of a joining client                      *)
(* (packages/server/src/session/SessionSync.ts, server.ts, and the queries  *)
(* of session/PostgresSessionStore.ts).                                     *)
(*                                                                         *)
(* A query is queued when it is issued; the database works on the first     *)
(* Connections of the queue, in any order, and a query's effect and its     *)
(* answer are two steps, each of which may be lost.  With one connection    *)
(* queries take effect in the order they were issued.                       *)
(*                                                                         *)
(* Contents stand for projects (up to normalizeProject, which every save    *)
(* and load applies): content k is the project right after the k-th edit of *)
(* the run, 0 the one a session is created with.  Sockets are abstracted to *)
(* whether some client is in the room, and the hello's wait for the expiry  *)
(* chain to a guard: RoomLifecycle has both in full.                        *)
(***************************************************************************)
EXTENDS Naturals, Sequences, SequencesExt

CONSTANTS
  Connections,  \* max of the Postgres pool
  MaxEdits,     \* bound: edits in a run
  MaxQueries,   \* bound: queries queued when a disconnect or a stale sweep adds one
  MaxCrashes    \* bound: process deaths in a run

ASSUME SessionSyncAssumption ==
  /\ Connections \in Nat \ {0}
  /\ MaxEdits \in Nat
  /\ MaxQueries \in Nat
  /\ MaxCrashes \in Nat

VARIABLES
  room,     \* the room's project and flags
  present,  \* some client has been welcomed and has not left
  grace,    \* the room's grace timer is armed
  expiry,   \* the await handleGraceExpiry is at
  sweep,    \* where runSweep is with this room
  loading,  \* the await loadSession is at
  queries,  \* queries issued and not answered yet
  row,      \* whose session row it is, or none
  snap,     \* the content of the session's snapshot
  edits,    \* edits made so far
  crashes   \* process deaths so far

vars == <<room, present, grace, expiry, sweep, loading, queries, row, snap, edits, crashes>>
members == <<present, grace>>

Room   == [live : BOOLEAN, content : 0..MaxEdits, version : 0..MaxEdits, dirty : BOOLEAN]
NoRoom == [live |-> FALSE, content |-> 0, version |-> 0, dirty |-> FALSE]
Query  == [by : {"disconnect", "sweep", "grace", "hello", "stale"},
           op : {"save", "get", "snapshot", "delete"},
           content : 0..MaxEdits, version : 0..MaxEdits, row : {"owned", "guest", "none"},
           done : BOOLEAN]

-----------------------------------------------------------------------------

Init ==
  /\ room = NoRoom
  /\ present = FALSE
  /\ grace = FALSE
  /\ expiry = "idle"
  /\ sweep = "idle"
  /\ loading = "none"
  /\ queries = <<>>
  /\ row \in {"owned", "guest"}
  /\ snap = 0
  /\ edits = 0
  /\ crashes = 0

Ask(by, op) ==
  [by |-> by, op |-> op, content |-> 0, version |-> 0, row |-> "none", done |-> FALSE]

\* flushRoom up to its save: the project and the version are read together, and a
\* room that is gone has nothing to save.
Flush(by) ==
  IF room.live
  THEN <<[Ask(by, "save") EXCEPT !.content = room.content, !.version = room.version]>>
  ELSE <<>>

\* A clearDirty that does not look at the version the flush read.
ClearDirtyUngated(version) == [room EXCEPT !.dirty = FALSE]

\* clearDirty: an edit since the flush read the version keeps the room dirty.
ClearDirty(version) ==
  [room EXCEPT !.dirty = IF room.live /\ room.version = version THEN FALSE ELSE @]

-----------------------------------------------------------------------------
(* The database *)

\* The queries in work.
Working == {i \in DOMAIN queries : i <= Connections}

\* A save that puts a snapshot where there is no session.
SavedAnyway(q) == q.content

\* saveSnapshot, "where exists": no row, no snapshot.
Saved(q) == IF row # "none" THEN q.content ELSE snap

\* Query i takes effect.  A deleted row takes its snapshot along.
Serve(i) ==
  LET q == queries[i]
      Results(changed) == queries' = [queries EXCEPT ![i] = changed]
  IN /\ i \in Working
     /\ ~q.done
     /\ \/ /\ q.op = "save"
           /\ snap' = Saved(q)
           /\ Results([q EXCEPT !.done = TRUE])
           /\ UNCHANGED row
        \/ /\ q.op = "get"
           /\ Results([q EXCEPT !.done = TRUE, !.row = row])
           /\ UNCHANGED <<row, snap>>
        \/ /\ q.op = "snapshot"
           /\ Results([q EXCEPT !.done = TRUE, !.content = snap])
           /\ UNCHANGED <<row, snap>>
        \/ /\ q.op = "delete"
           /\ row' = "none"
           /\ snap' = 0
           /\ Results([q EXCEPT !.done = TRUE])
     /\ UNCHANGED <<room, members, expiry, sweep, loading, edits, crashes>>

\* Query i of this kind is answered, with its result or with a failure, and its
\* continuation issues more.
Answered(i, by, op, ok, more) ==
  /\ i \in Working
  /\ queries[i].by = by
  /\ queries[i].op = op
  /\ ok => queries[i].done
  /\ queries' = RemoveAt(queries, i) \o more

\* What a save's answer does to the room: a failed one leaves the flag for later.
AfterSave(i, ok) == room' = IF ok THEN ClearDirty(queries[i].version) ELSE room

-----------------------------------------------------------------------------
(* The room's clients *)

\* A set or a load reaches the room.
Edit ==
  /\ present
  /\ edits < MaxEdits
  /\ edits' = edits + 1
  /\ room' = [live |-> TRUE, content |-> edits + 1, version |-> room.version + 1, dirty |-> TRUE]
  /\ UNCHANGED <<members, expiry, sweep, loading, queries, row, snap, crashes>>

\* A hello to a live room.
Join ==
  /\ room.live
  /\ expiry = "idle"
  /\ present' = TRUE
  /\ grace' = FALSE
  /\ UNCHANGED <<room, expiry, sweep, loading, queries, row, snap, edits, crashes>>

\* A hello to a room that is not live asks for its session.
JoinLoads ==
  /\ ~room.live
  /\ expiry = "idle"
  /\ loading = "none"
  /\ loading' = "get"
  /\ queries' = Append(queries, Ask("hello", "get"))
  /\ UNCHANGED <<room, members, expiry, sweep, row, snap, edits, crashes>>

\* The session row answers the hello: without one it fails.
LoadGot(i) ==
  \/ /\ Answered(i, "hello", "get", TRUE, <<Ask("hello", "snapshot")>>)
     /\ queries[i].row # "none"
     /\ loading' = "snapshot"
     /\ UNCHANGED <<room, members, expiry, sweep, row, snap, edits, crashes>>
  \/ /\ \/ Answered(i, "hello", "get", TRUE, <<>>) /\ queries[i].row = "none"
        \/ Answered(i, "hello", "get", FALSE, <<>>)
     /\ loading' = "none"
     /\ UNCHANGED <<room, members, expiry, sweep, row, snap, edits, crashes>>

\* The snapshot seeds the room, clean and at version 0.
LoadRead(i) ==
  /\ loading' = "none"
  /\ \/ /\ Answered(i, "hello", "snapshot", TRUE, <<>>)
        /\ room' = [NoRoom EXCEPT !.live = TRUE, !.content = queries[i].content]
        /\ present' = TRUE
        /\ UNCHANGED grace
     \/ /\ Answered(i, "hello", "snapshot", FALSE, <<>>)
        /\ UNCHANGED <<room, members>>
  /\ UNCHANGED <<expiry, sweep, row, snap, edits, crashes>>

\* A socket closes, the last of the room or not, and its room is flushed.
Disconnect(last) ==
  /\ room.live
  /\ Len(queries) < MaxQueries
  /\ queries' = queries \o Flush("disconnect")
  /\ \/ /\ last
        /\ present
        /\ present' = FALSE
        /\ grace' = TRUE
     \/ /\ ~last
        /\ UNCHANGED members
  /\ UNCHANGED <<room, expiry, sweep, loading, row, snap, edits, crashes>>

DisconnectSaved(i, ok) ==
  /\ Answered(i, "disconnect", "save", ok, <<>>)
  /\ AfterSave(i, ok)
  /\ UNCHANGED <<members, expiry, sweep, loading, row, snap, edits, crashes>>

-----------------------------------------------------------------------------
(* The autosave sweep *)

\* A sweep tick that does not ask whether the last one is over.
SweepAlways == TRUE

\* runSweep's isFlushing guard.
SweepIsOver == sweep = "idle"

\* The tick lists the dirty rooms.
SweepTick ==
  /\ SweepIsOver
  /\ room.dirty
  /\ sweep' = "listed"
  /\ UNCHANGED <<room, members, expiry, loading, queries, row, snap, edits, crashes>>

\* The sweep gets to this room, after those listed before it; it may be gone.
SweepFlush ==
  /\ sweep = "listed"
  /\ queries' = queries \o Flush("sweep")
  /\ sweep' = IF room.live THEN "flush" ELSE "idle"
  /\ UNCHANGED <<room, members, expiry, loading, row, snap, edits, crashes>>

\* A guard that only a successful sweep resets.
SweepAfterSuccess(ok) == IF ok THEN "idle" ELSE sweep

\* The guard is reset whatever came of the save.
SweepAfter(ok) == "idle"

SweepSaved(i, ok) ==
  /\ Answered(i, "sweep", "save", ok, <<>>)
  /\ AfterSave(i, ok)
  /\ sweep' = SweepAfter(ok)
  /\ UNCHANGED <<members, expiry, loading, row, snap, edits, crashes>>

-----------------------------------------------------------------------------
(* End of life *)

\* The grace timer fires: handleGraceExpiry flushes first.
GraceFires ==
  /\ grace
  /\ expiry = "idle"
  /\ grace' = FALSE
  /\ expiry' = "flush"
  /\ queries' = queries \o Flush("grace")
  /\ UNCHANGED <<room, present, sweep, loading, row, snap, edits, crashes>>

\* The flush is over, however it ended, and the session row is asked for.
ExpirySaved(i, ok) ==
  /\ Answered(i, "grace", "save", ok, <<Ask("grace", "get")>>)
  /\ AfterSave(i, ok)
  /\ expiry' = "get"
  /\ UNCHANGED <<members, sweep, loading, row, snap, edits, crashes>>

\* The chain ends; pruned says if it got as far as pruneRoom.
ExpiryEnds(pruned) ==
  /\ expiry' = "idle"
  /\ room' = IF pruned THEN NoRoom ELSE room
  /\ grace' = IF pruned THEN FALSE ELSE grace

\* A guest's row is deleted next, any other room is pruned; a failed read ends the
\* chain short of the prune.
ExpiryGot(i) ==
  /\ \/ /\ Answered(i, "grace", "get", TRUE, <<Ask("grace", "delete")>>)
        /\ queries[i].row = "guest"
        /\ expiry' = "delete"
        /\ UNCHANGED <<room, grace>>
     \/ /\ Answered(i, "grace", "get", TRUE, <<>>)
        /\ queries[i].row # "guest"
        /\ ExpiryEnds(TRUE)
     \/ /\ Answered(i, "grace", "get", FALSE, <<>>)
        /\ ExpiryEnds(FALSE)
  /\ UNCHANGED <<present, sweep, loading, row, snap, edits, crashes>>

\* The prune follows a delete that succeeded.
ExpiryDeleted(i, ok) ==
  /\ Answered(i, "grace", "delete", ok, <<>>)
  /\ ExpiryEnds(ok)
  /\ UNCHANGED <<present, sweep, loading, row, snap, edits, crashes>>

\* The stale-guest sweep listed the guest's row as idle and finds no live room.
StaleSweep ==
  /\ row = "guest"
  /\ ~room.live
  /\ Len(queries) < MaxQueries
  /\ queries' = Append(queries, Ask("stale", "delete"))
  /\ UNCHANGED <<room, members, expiry, sweep, loading, row, snap, edits, crashes>>

StaleDeleted(i, ok) ==
  /\ Answered(i, "stale", "delete", ok, <<>>)
  /\ UNCHANGED <<room, members, expiry, sweep, loading, row, snap, edits, crashes>>

\* The process dies and comes back: memory and unanswered queries are gone.
Crash ==
  /\ crashes < MaxCrashes
  /\ crashes' = crashes + 1
  /\ room' = NoRoom
  /\ present' = FALSE
  /\ grace' = FALSE
  /\ expiry' = "idle"
  /\ sweep' = "idle"
  /\ loading' = "none"
  /\ queries' = <<>>
  /\ UNCHANGED <<row, snap, edits>>

-----------------------------------------------------------------------------

Next ==
  \/ \E i \in Working : Serve(i)
  \/ Edit
  \/ Join
  \/ JoinLoads
  \/ \E i \in Working : LoadGot(i)
  \/ \E i \in Working : LoadRead(i)
  \/ \E last \in BOOLEAN : Disconnect(last)
  \/ \E i \in Working, ok \in BOOLEAN : DisconnectSaved(i, ok)
  \/ SweepTick
  \/ SweepFlush
  \/ \E i \in Working, ok \in BOOLEAN : SweepSaved(i, ok)
  \/ GraceFires
  \/ \E i \in Working, ok \in BOOLEAN : ExpirySaved(i, ok)
  \/ \E i \in Working : ExpiryGot(i)
  \/ \E i \in Working, ok \in BOOLEAN : ExpiryDeleted(i, ok)
  \/ StaleSweep
  \/ \E i \in Working, ok \in BOOLEAN : StaleDeleted(i, ok)
  \/ Crash

Spec == Init /\ [][Next]_vars

ReadsAnswered == \E i \in Working : LoadGot(i) \/ LoadRead(i) \/ ExpiryGot(i)
WritesAnswered ==
  \E i \in Working, ok \in BOOLEAN :
    \/ DisconnectSaved(i, ok) \/ ExpirySaved(i, ok)
    \/ ExpiryDeleted(i, ok) \/ StaleDeleted(i, ok)
SweepAnswered == \E i \in Working, ok \in BOOLEAN : SweepSaved(i, ok)
SweepServed == \E i \in Working : queries[i].by = "sweep" /\ Serve(i)

\* The interval ticks, the sweep goes down its list, and every query in work is
\* answered somehow; the database does not fail every save the sweep sends it.
Fairness ==
  /\ WF_vars(SweepTick)
  /\ WF_vars(SweepFlush)
  /\ WF_vars(ReadsAnswered)
  /\ WF_vars(WritesAnswered)
  /\ WF_vars(SweepAnswered)
  /\ SF_vars(SweepServed)

FairSpec == Spec /\ Fairness

-----------------------------------------------------------------------------
(* Properties *)

\* Queries issued by one of the code's flows.
IssuedBy(by) == {i \in DOMAIN queries : queries[i].by = by}

\* The state has its shape; no version or content is ahead of the edits; and beyond
\* what disconnects and stale sweeps add, only three flows ever have a query out.
TypeOK ==
  /\ room \in Room
  /\ room.version <= edits /\ room.content <= edits
  /\ present \in BOOLEAN
  /\ grace \in BOOLEAN
  /\ expiry \in {"idle", "flush", "get", "delete"}
  /\ sweep \in {"idle", "listed", "flush"}
  /\ loading \in {"none", "get", "snapshot"}
  /\ queries \in Seq(Query)
  /\ Len(queries) <= MaxQueries + 3
  /\ row \in {"owned", "guest", "none"}
  /\ snap \in 0..edits
  /\ edits \in 0..MaxEdits
  /\ crashes \in 0..MaxCrashes

\* Each flow that awaits a query has that one out and no other: ticks, expiries and
\* hellos never overlap themselves ("a slow sweep must not overlap the next
\* interval"), whatever fails in between.
OneQueryPerFlow ==
  \A flow \in {<<"sweep", sweep = "flush">>, <<"grace", expiry # "idle">>,
               <<"hello", loading # "none">>} :
    \A i \in IssuedBy(flow[1]) : flow[2] /\ IssuedBy(flow[1]) = {i}

\* A clean room's edits are in the snapshot: the version gate loses no update
\* (ARCHITECTURE 14b: "a racing write stays dirty for the next sweep"), so a
\* shutdown that flushes the dirty rooms persists everything.
CleanMeansSaved == room.live /\ ~room.dirty /\ row # "none" => snap >= room.content

\* A snapshot never outlives its session, nor comes back after it: a flush that
\* races a delete saves nothing.
NoSnapshotWithoutRow == row = "none" => snap = 0

\* What the rows hold: the edits of a room that is clean, and nothing of a session that is
\* gone; written by flows that have one query out at most.
RowsKeepUp == TypeOK /\ CleanMeansSaved /\ NoSnapshotWithoutRow /\ OneQueryPerFlow

\* Every edit reaches the snapshot, unless its room or its session ends first.
EditsGetSaved ==
  \A k \in 1..MaxEdits :
    (room.live /\ room.content = k) ~> (snap >= k \/ ~room.live \/ row = "none")

\* SessionSync.ts, flushRoom: "on failure the flag is left set so the next sweep
\* retries": no room is pruned while edits of its session are not saved.
PruneKeepsEdits ==
  [][room.live /\ ~room'.live /\ crashes' = crashes /\ row' # "none"
       => snap' >= room.content]_vars
=============================================================================
