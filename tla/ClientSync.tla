------------------------------ MODULE ClientSync ------------------------------
(***************************************************************************)
(* Browser tabs editing one live room: each tab's socket life cycle and     *)
(* watermark (packages/client/src/sync/WsClient.ts), its Outbox             *)
(* (sync/Outbox.ts), its write funnel (sync/CommandBus.ts) and the routing  *)
(* of server messages (sync/messageDispatch.ts, sync/SyncSession.ts),       *)
(* against the room of RoomStore behind ConnectionHandler.                  *)
(*                                                                         *)
(* A tab is a record and every method of its classes an operator on it;     *)
(* browser and server both run one callback to its end.  Frames travel in   *)
(* order on a connection, and those on it when it drops are lost.  Values   *)
(* name edits: edit k writes k, and 0 is what every leaf starts with.       *)
(*                                                                         *)
(* Left out: whole-project loads (LoadTracker), undo, and the resync        *)
(* request, which NoGapWhileLive shows has no occasion; identities, since   *)
(* a clientSeq is never used twice by a tab; RoomLifecycle has the rest of  *)
(* the hello.                                                              *)
(***************************************************************************)
EXTENDS RoomStore, SequencesExt

CONSTANTS
  None,         \* no entry
  MaxResends,   \* MAX_RESENDS
  MaxEdits,     \* bound: edits in a run
  MaxDrops,     \* bound: connections lost
  MaxReloads,   \* bound: tabs reloaded
  MaxRestarts,  \* bound: graceful server restarts
  MaxNacks,     \* bound: ops the server refuses
  MaxStrays,    \* bound: edits before the room has been caught up
  MaxMishaps    \* bound: drops, reloads, restarts, nacks and strays together

ASSUME ClientSyncAssumption ==
  /\ IsFiniteSet(Path)
  /\ 0..(MaxEdits + MaxStrays) \subseteq Value /\ Value \subseteq Nat
  /\ None \notin Value /\ \A v, w \in Value : None # [value |-> v, prior |-> w]
  /\ {MaxResends, MaxEdits, MaxDrops, MaxReloads, MaxRestarts, MaxNacks, MaxStrays,
      MaxMishaps} \subseteq Nat

VARIABLES
  room,     \* the server's room
  tab,      \* each client's tab
  down,     \* per client, frames on their way to it; those to the server are in its tab
  spent,    \* how much of each bound is used up
  owed,     \* history: per client and path, its last edit until the server has had it
  gapped,   \* history: clients whose watermark has skipped an op on this connection
  excused   \* history: clients that may have missed an op for good

vars == <<room, tab, down, spent, owed, gapped, excused>>

Fresh     == [p \in Path |-> 0]
NoEntries == [p \in Path |-> None]
NoOp      == -1

\* A page just loaded; what sessionStorage keeps is carried over from the last one.
NewTab(joined, opIdLastSeen, clientSeq) ==
  [state            |-> "closed",
   project          |-> Fresh,
   joined           |-> joined,         \* a clientId is stored
   opIdLastSeen     |-> opIdLastSeen,
   clientSeq        |-> clientSeq,
   snapshotRequired |-> TRUE,
   lastApplied      |-> [p \in Path |-> NoOp],
   syncReady        |-> FALSE,
   pending          |-> NoEntries,
   inFlight         |-> {},
   offline          |-> NoEntries,
   up               |-> <<>>]

Init ==
  /\ room = NewRoom(Fresh)
  /\ tab = [c \in Client |-> NewTab(FALSE, NoOp, 0)]
  /\ down = [c \in Client |-> <<>>]
  /\ spent = [edits |-> 0, drops |-> 0, reloads |-> 0, restarts |-> 0, nacks |-> 0, strays |-> 0]
  /\ owed = [c \in Client |-> NoEntries]
  /\ gapped = {}
  /\ excused = {}

\* A mishap of a kind happens, within its bound and the bound of all.
Mishap(kind, bound) ==
  /\ spent[kind] < bound
  /\ spent.drops + spent.reloads + spent.restarts + spent.nacks + spent.strays < MaxMishaps
  /\ spent' = [spent EXCEPT ![kind] = @ + 1]

-----------------------------------------------------------------------------
(* The Outbox *)

Live(t) == t.state = "live"

Entry(value, prior) == [value |-> value, prior |-> prior]

InFlightOn(t, p) == {e \in t.inFlight : e.path = p}

\* hasPendingForPath
HasPending(t, p) == t.offline[p] # None \/ InFlightOn(t, p) # {} \/ t.pending[p] # None

\* The earliest and the latest edit of a path that are still tracked: queued ones are older than
\* those in flight, and those are older than a throttled one.
Oldest(t, p) ==
  IF t.offline[p] # None THEN t.offline[p]
  ELSE IF InFlightOn(t, p) # {}
  THEN CHOOSE e \in InFlightOn(t, p) : \A f \in InFlightOn(t, p) : e.seq <= f.seq
  ELSE t.pending[p]

Newest(t, p) ==
  IF t.pending[p] # None THEN t.pending[p]
  ELSE IF InFlightOn(t, p) # {}
  THEN CHOOSE e \in InFlightOn(t, p) : \A f \in InFlightOn(t, p) : f.seq <= e.seq
  ELSE t.offline[p]

\* A coalescing that loses what was sent and never echoed.
CoalescedUnsent(t) ==
  [p \in Path |-> IF t.pending[p] # None THEN t.pending[p] ELSE t.offline[p]]

\* Everything tracked, by path: the newest value over the earliest prior.
Coalesced(t) ==
  [p \in Path |-> IF HasPending(t, p)
                  THEN Entry(Newest(t, p).value, Oldest(t, p).prior)
                  ELSE None]

Untracked(t) == [t EXCEPT !.pending = NoEntries, !.inFlight = {}, !.offline = NoEntries]

SetOp(seq, p, value) == [type |-> "set", clientSeq |-> seq, path |-> p, value |-> value]

\* flushEntry for an entry of some paths: sent under new clientSeqs when live, queued otherwise.
\* The order of distinct paths does not matter.
FlushAll(t, entries) ==
  LET due   == {p \in Path : entries[p] # None}
      order == SetToSeq(due)
      rest  == [t EXCEPT !.pending = [p \in Path |-> IF p \in due THEN None ELSE @[p]]]
  IN IF Live(t)
     THEN [rest EXCEPT
             !.clientSeq = @ + Len(order),
             !.inFlight = @ \cup {[seq |-> t.clientSeq + i, path |-> order[i],
                                   value |-> entries[order[i]].value,
                                   prior |-> entries[order[i]].prior, resends |-> 0]
                                  : i \in DOMAIN order},
             !.up = @ \o [i \in DOMAIN order |->
                            SetOp(t.clientSeq + i, order[i], entries[order[i]].value)]]
     ELSE [rest EXCEPT !.offline = [p \in Path |-> IF p \in due THEN entries[p] ELSE @[p]]]

FlushEntry(t, p, e) == FlushAll(t, [NoEntries EXCEPT ![p] = e])

\* enqueue: queued by path when not live; throttled, or sent at the end of a gesture.
Enqueue(t, p, value, prior, gestureEnd) ==
  LET Over(e) == Entry(value, IF e = None THEN prior ELSE e.prior)
  IN IF ~Live(t)
     THEN [t EXCEPT !.offline[p] = Over(t.offline[p])]
     ELSE IF gestureEnd
     THEN FlushEntry(t, p, Over(t.pending[p]))
     ELSE [t EXCEPT !.pending[p] = Over(t.pending[p])]

\* An onClosed that leaves throttled edits to their timers.
ClosedKeepingPending(t) ==
  [t EXCEPT !.state = "closed", !.inFlight = {}, !.offline = Coalesced(t), !.up = <<>>]

\* onClosed, with the socket and its frames gone.
Closed(t) ==
  [Untracked(t) EXCEPT !.state = "closed", !.offline = Coalesced(t), !.up = <<>>]

\* reassertPending: what is tracked goes back on top of the project, and out again.
Reassert(t) ==
  LET entries == Coalesced(t)
  IN FlushAll([Untracked(t) EXCEPT
                 !.project = [p \in Path |-> IF entries[p] # None THEN entries[p].value ELSE @[p]]],
              entries)

\* onNack: local state goes back to what the refused op replaced; one that is not in
\* flight is ignored.
RolledBack(t, seq) ==
  LET refused == {e \in t.inFlight : e.seq = seq}
  IN [t EXCEPT !.inFlight = @ \ refused,
               !.project = [p \in Path |->
                              IF \E e \in refused : e.path = p
                              THEN (CHOOSE e \in refused : e.path = p).prior
                              ELSE @[p]]]

-----------------------------------------------------------------------------
(* The WsClient and the CommandBus *)

\* recordOpIdSeen: forwards only, and not before a first welcome.
RecordOpIdSeen(t, opId) ==
  [t EXCEPT !.opIdLastSeen = IF t.joined /\ opId > @ THEN opId ELSE @]

\* An applyRemote that takes ops in the order they arrive.
FreshOnArrival(t, msg) == TRUE

\* The per-path watermark: an op no newer than the last one applied is ignored.
IsNews(t, msg) == msg.opId > t.lastApplied[msg.path]

\* A set from the server: an echo ends the tracking of its op, and is not written
\* over a newer local edit; anything else is applied in opId order.
Dispatched(t, msg) ==
  LET echoed == [t EXCEPT !.inFlight = {e \in @ : e.seq # msg.clientSeq}]
      skip   == msg.clientSeq # 0 /\ HasPending(echoed, msg.path)
  IN RecordOpIdSeen(
       IF ~IsNews(t, msg)
       THEN echoed
       ELSE [echoed EXCEPT !.lastApplied[msg.path] = msg.opId,
                           !.project[msg.path] = IF skip THEN @ ELSE msg.value],
       msg.opId)

\* A reloaded page that resumes: the delta goes on top of a blank project.
ResumeAfterReload(t) == IF t.joined THEN t.opIdLastSeen ELSE NoOp

\* Where the next hello resumes from: nowhere while a snapshot is required.
ResumeFrom(t) == IF t.joined /\ ~t.snapshotRequired THEN t.opIdLastSeen ELSE NoOp

-----------------------------------------------------------------------------
(* Tabs *)

\* A socket opens: the server has it in the pool, and the hello is on its way.
Connect(c) ==
  /\ tab[c].state = "closed"
  /\ tab' = [tab EXCEPT ![c].state = "opening",
                        ![c].up = <<[type |-> "hello", resumeFrom |-> ResumeFrom(tab[c])]>>]
  /\ UNCHANGED <<room, down, spent, owed, gapped, excused>>

\* dispatchLocal once the room has been caught up: written at once, and enqueued.
Edit(c, p, gestureEnd) ==
  LET k == spent.edits + spent.strays + 1
  IN /\ tab[c].syncReady
     /\ spent.edits < MaxEdits
     /\ spent' = [spent EXCEPT !.edits = @ + 1]
     /\ tab' = [tab EXCEPT ![c] = Enqueue([@ EXCEPT !.project[p] = k], p, k, @.project[p], gestureEnd)]
     /\ owed' = [owed EXCEPT ![c][p] = k]
     /\ UNCHANGED <<room, down, gapped, excused>>

\* dispatchLocal before that: written and never enqueued.  The loader covers the studio,
\* but not the app bar with its BPM.
Stray(c, p) ==
  /\ ~tab[c].syncReady
  /\ Mishap("strays", MaxStrays)
  /\ tab' = [tab EXCEPT ![c].project[p] = spent.edits + spent.strays + 1]
  /\ excused' = excused \cup {c}
  /\ UNCHANGED <<room, down, owed, gapped>>

\* The throttle timer of a path fires, or its gesture ends.
FlushPath(c, p) ==
  /\ tab[c].pending[p] # None
  /\ tab' = [tab EXCEPT ![c] = FlushEntry(@, p, @.pending[p])]
  /\ UNCHANGED <<room, down, spent, owed, gapped, excused>>

\* No echo within ACK_TIMEOUT_MS: the op goes out again under its clientSeq.
AckTimeout(c, e) ==
  /\ Live(tab[c])
  /\ e \in tab[c].inFlight
  /\ e.resends < MaxResends
  /\ tab' = [tab EXCEPT
               ![c].inFlight = (@ \ {e}) \cup {[e EXCEPT !.resends = @ + 1]},
               ![c].up = Append(@, SetOp(e.seq, e.path, e.value))]
  /\ UNCHANGED <<room, down, spent, owed, gapped, excused>>

\* The connection is lost.
Drop(c) ==
  /\ tab[c].state # "closed"
  /\ Mishap("drops", MaxDrops)
  /\ tab' = [tab EXCEPT ![c] = Closed(@)]
  /\ down' = [down EXCEPT ![c] = <<>>]
  /\ excused' = excused \cup (gapped \cap {c})
  /\ gapped' = gapped \ {c}
  /\ UNCHANGED <<room, owed>>

\* The page is reloaded: only what sessionStorage keeps survives.
Reload(c) ==
  /\ Mishap("reloads", MaxReloads)
  /\ tab' = [tab EXCEPT ![c] = NewTab(@.joined, @.opIdLastSeen, @.clientSeq)]
  /\ down' = [down EXCEPT ![c] = <<>>]
  /\ owed' = [owed EXCEPT ![c] = NoEntries]
  /\ gapped' = gapped \ {c}
  /\ UNCHANGED <<room, excused>>

-----------------------------------------------------------------------------
(* The server *)

Echo(op, seq) ==
  [type |-> "set", opId |-> op.opId, clientSeq |-> seq, path |-> op.path, value |-> op.value]

\* The server takes the first frame c sent it.
Take(c, type) ==
  /\ tab[c].up # <<>>
  /\ Head(tab[c].up).type = type
  /\ tab' = [tab EXCEPT ![c].up = Tail(@)]

\* sendCatchUp: a replay in opId order if the log reaches back far enough, else a
\* snapshot, then sync.complete.
CatchUp(from) ==
  LET head  == OpIdHead(room)
      log   == room.opLog
      since == Cardinality(OpsSince(room, from))   \* they end the log
  IN (IF 0 <= from /\ from <= head /\ CanReplay(room, from)
      THEN [i \in 1..since |-> Echo(log[Len(log) - since + i], 0)]
      ELSE <<[type |-> "snapshot", opId |-> head, project |-> room.project]>>)
     \o <<[type |-> "complete", opId |-> head]>>

\* handleHello for a guest in a live room, in one go.
HandleHello(c) ==
  /\ Take(c, "hello")
  /\ down' = [down EXCEPT ![c] = @ \o <<[type |-> "welcome"]>> \o CatchUp(Head(tab[c].up).resumeFrom)]
  /\ UNCHANGED <<room, spent, owed, gapped, excused>>

\* A broadcast to the other sockets of the pool only.
AudienceOthers(c) == {d \in Client : tab[d].state # "closed" /\ d # c}

\* The open sockets of the pool, from accept on.
Audience(c) == {d \in Client : tab[d].state # "closed"}

\* The server has had c's op: its owed edit is delivered, or refused.
Had(c, msg) ==
  owed' = [owed EXCEPT ![c][msg.path] = IF @ = msg.value THEN None ELSE @]

\* A set is applied and broadcast, or echoed to its sender alone if it is a duplicate.
HandleSet(c) ==
  LET msg    == Head(tab[c].up)
      known  == {op \in room.opIndex : Key(op) = <<c, msg.clientSeq>>}
      after  == AppendOp(room, c, msg.clientSeq, msg.path, msg.value)
      op     == [opId |-> room.nextOpId, path |-> msg.path, value |-> msg.value]
  IN /\ Take(c, "set")
     /\ Had(c, msg)
     /\ IF IsDuplicate(room, c, msg.clientSeq)
        THEN /\ down' = [down EXCEPT ![c] = Append(@, Echo(CHOOSE x \in known : TRUE, msg.clientSeq))]
             /\ UNCHANGED room
        ELSE /\ room' = after
             /\ down' = [d \in Client |->
                           IF d \in Audience(c)
                           THEN Append(down[d], Echo(op, IF d = c THEN msg.clientSeq ELSE 0))
                           ELSE down[d]]
     /\ UNCHANGED <<spent, gapped, excused>>

\* The rate limit or the accept list refuses a set, before any dedup.
Nack(c) ==
  LET msg == Head(tab[c].up)
  IN /\ Take(c, "set")
     /\ Had(c, msg)
     /\ Mishap("nacks", MaxNacks)
     /\ down' = [down EXCEPT ![c] = Append(@, [type |-> "nack", clientSeq |-> msg.clientSeq])]
     /\ UNCHANGED <<room, gapped, excused>>

\* A graceful restart: the project is flushed and reseeds a new room, opIds start
\* over, and every connection is lost.
Restart ==
  /\ Mishap("restarts", MaxRestarts)
  /\ room' = NewRoom(room.project)
  /\ tab' = [c \in Client |-> Closed(tab[c])]
  /\ down' = [c \in Client |-> <<>>]
  /\ gapped' = {}
  /\ excused' = Client
  /\ UNCHANGED owed

-----------------------------------------------------------------------------
(* Server messages *)

\* c takes the next frame; what it makes of the tab is next.
Receive(c, type, next) ==
  /\ down[c] # <<>>
  /\ Head(down[c]).type = type
  /\ down' = [down EXCEPT ![c] = Tail(@)]
  /\ tab' = [tab EXCEPT ![c] = next]

\* The watermark stays where it is: the head is only a promise.
OnWelcome(c) ==
  /\ Receive(c, "welcome", [tab[c] EXCEPT !.state = "catching-up", !.joined = TRUE])
  /\ UNCHANGED <<room, spent, owed, gapped, excused>>

OnSnapshot(c) ==
  LET msg  == Head(down[c])
      seen == RecordOpIdSeen([tab[c] EXCEPT !.snapshotRequired = FALSE,
                                            !.project = msg.project,
                                            !.lastApplied = [p \in Path |-> NoOp]], msg.opId)
  IN /\ Receive(c, "snapshot", Reassert(seen))
     /\ excused' = IF seen.opIdLastSeen = msg.opId THEN excused \ {c} ELSE excused
     /\ UNCHANGED <<room, spent, owed, gapped>>

OnSet(c) ==
  /\ Receive(c, "set", Dispatched(tab[c], Head(down[c])))
  /\ gapped' = IF Head(down[c]).opId > tab[c].opIdLastSeen + 1 THEN gapped \cup {c} ELSE gapped
  /\ UNCHANGED <<room, spent, owed, excused>>

\* sync.complete: live, the offline queue goes out, and edits are enqueued from now on.
OnComplete(c) ==
  LET live == [RecordOpIdSeen(tab[c], Head(down[c]).opId) EXCEPT !.state = "live", !.syncReady = TRUE]
  IN /\ Receive(c, "complete", FlushAll([live EXCEPT !.offline = NoEntries], live.offline))
     /\ gapped' = gapped \ {c}
     /\ UNCHANGED <<room, spent, owed, excused>>

OnNack(c) ==
  /\ Receive(c, "nack", RolledBack(tab[c], Head(down[c]).clientSeq))
  /\ excused' = excused \cup {c}
  /\ UNCHANGED <<room, spent, owed, gapped>>

-----------------------------------------------------------------------------

Next ==
  \/ \E c \in Client : Connect(c)
  \/ \E c \in Client, p \in Path, gestureEnd \in BOOLEAN : Edit(c, p, gestureEnd)
  \/ \E c \in Client, p \in Path : Stray(c, p)
  \/ \E c \in Client, p \in Path : FlushPath(c, p)
  \/ \E c \in Client : \E e \in tab[c].inFlight : AckTimeout(c, e)
  \/ \E c \in Client : Drop(c)
  \/ \E c \in Client : Reload(c)
  \/ \E c \in Client : HandleHello(c)
  \/ \E c \in Client : HandleSet(c)
  \/ \E c \in Client : Nack(c)
  \/ Restart
  \/ \E c \in Client : OnWelcome(c)
  \/ \E c \in Client : OnSnapshot(c)
  \/ \E c \in Client : OnSet(c)
  \/ \E c \in Client : OnComplete(c)
  \/ \E c \in Client : OnNack(c)

Spec == Init /\ [][Next]_vars

\* Reconnects are retried for ever, timers fire, and a connection that is up carries
\* its frames.  Nobody has to edit.
Fairness ==
  \A c \in Client :
    /\ WF_vars(Connect(c))
    /\ WF_vars(\E p \in Path : FlushPath(c, p))
    /\ WF_vars(HandleHello(c) \/ HandleSet(c))
    /\ WF_vars(OnWelcome(c) \/ OnSnapshot(c) \/ OnSet(c) \/ OnComplete(c) \/ OnNack(c))

FairSpec == Spec /\ Fairness
-----------------------------------------------------------------------------
(* Properties *)

Sent == [seq : Nat, path : Path, value : Value, prior : Value, resends : 0..MaxResends]

MaybeEntry == [value : Value, prior : Value] \cup {None}

\* Frames to the server (loads are BulkLoad's) and from it.
Request ==
  [type : {"hello"}, resumeFrom : Nat \cup {NoOp}]
    \cup [type : {"set"}, clientSeq : Nat, path : Path, value : Value]
    \cup [type : {"load"}, clientSeq : Nat, project : Project]

Reply ==
  [type : {"welcome"}]
    \cup [type : {"snapshot"}, opId : Nat, project : Project]
    \cup [type : {"set"}, opId : Nat, clientSeq : Nat, path : Path, value : Value]
    \cup [type : {"complete"}, opId : Nat]
    \cup [type : {"nack"}, clientSeq : Nat]

Tab ==
  [state            : {"closed", "opening", "catching-up", "live"},
   project          : Project,
   joined           : BOOLEAN,
   opIdLastSeen     : Nat \cup {NoOp},
   clientSeq        : Nat,
   snapshotRequired : BOOLEAN,
   lastApplied      : [Path -> Nat \cup {NoOp}],
   syncReady        : BOOLEAN,
   pending          : [Path -> MaybeEntry],
   inFlight         : SUBSET Sent,
   offline          : [Path -> MaybeEntry],
   up               : Seq(Request)]

\* The state a tab, the history and the bounds can be in.  What it says beyond types:
\* an op is resent at most MAX_RESENDS times (Outbox.onAckTimeout), one op of each
\* clientSeq is in flight, and what is throttled or in flight is so only while live
\* (Outbox.onClosed leaves neither behind).
TypeOK ==
  /\ room \in Room
  /\ tab \in [Client -> Tab]
  /\ down \in [Client -> Seq(Reply)]
  /\ \A c \in Client :
       /\ \A e, f \in tab[c].inFlight : e.seq = f.seq => e = f
       /\ tab[c].pending # NoEntries \/ tab[c].inFlight # {} => Live(tab[c])
  /\ owed \in [Client -> [Path -> Value \cup {None}]]
  /\ gapped \cup excused \subseteq Client

\* Nothing is on its way to or from c, and nothing waits in its outbox.
Settled(c) ==
  /\ Live(tab[c])
  /\ tab[c].up = <<>> /\ down[c] = <<>>
  /\ \A p \in Path : ~HasPending(tab[c], p)

\* Every tab that has gone quiet shows the project the server holds, whatever order
\* echoes, peers' ops, reconnects, resends and snapshots came in.  Excused until their
\* next snapshot are the clients of the known holes: a connection lost during catch-up
\* after a broadcast had moved the watermark past the replay still to come, a restart,
\* a refused op, an edit under the loader.  The runs of Converged show the first three.
QuietTabsAgree ==
  \A c \in Client \ excused : Settled(c) => tab[c].project = room.project

\* The same of every tab.
Converged == \A c \in Client : Settled(c) => tab[c].project = room.project

\* Until the server has had a player's last edit of a path, the outbox holds it as the
\* newest of that path, so that a drop, a snapshot or a restart cannot lose it
\* (Outbox.onClosed, reassertPending).
NoEditLost ==
  \A c \in Client, p \in Path :
    owed[c][p] # None =>
      /\ HasPending(tab[c], p)
      /\ Newest(tab[c], p).value = owed[c][p]

\* A live tab never receives an op that skips one: the gap for which messageDispatch
\* asks for a resync does not arise on a connection that keeps its frames in order.
NoGapWhileLive ==
  \A c \in Client :
    Live(tab[c]) /\ down[c] # <<>> /\ Head(down[c]).type = "set"
      => Head(down[c]).opId <= tab[c].opIdLastSeen + 1

\* Every edit of a joined player reaches the server, or is refused, in the end: drops,
\* reconnects and snapshots only delay it.  (A reload gives up what was not sent.)
EditsReachServer ==
  \A c \in Client, p \in Path : owed[c][p] # None ~> owed[c][p] = None
=============================================================================
