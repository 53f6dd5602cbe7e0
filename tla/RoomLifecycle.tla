---------------------------- MODULE RoomLifecycle ----------------------------
(***************************************************************************)
(* The life of one room: sockets, the hello handshake, presence, the grace  *)
(* timer, the expiry chain and the prune                                   *)
(* (packages/server/src/sync/ConnectionHandler.ts, sync/ConnectionPool.ts,  *)
(* routes/ws.ts, room/InMemoryRoomStore.ts, session/SessionSync.ts).        *)
(*                                                                         *)
(* Node runs one callback to its end, then every microtask it caused, then  *)
(* the next callback.  A step is therefore what runs between two waits on   *)
(* the outside: a database answer, a token verification, a timer, a frame.  *)
(* Awaits on the in-memory store end no step, with one exception: hellos    *)
(* waiting for the same expiry chain are woken together and their           *)
(* microtasks interleave.                                                  *)
(*                                                                         *)
(* A socket is used once; a reconnect is another socket.  A clientId is     *)
(* named by the socket it was minted for.                                  *)
(***************************************************************************)
EXTENDS Naturals, FiniteSets

CONSTANTS
  Socket,      \* connections the room ever sees
  None,        \* no clientId
  RoomCap,     \* ROOM_CAP
  GuestOwned   \* the session row has no owner: it dies with the room

ASSUME RoomLifecycleAssumption ==
  /\ IsFiniteSet(Socket)
  /\ None \notin Socket
  /\ RoomCap \in Nat
  /\ GuestOwned \in BOOLEAN

VARIABLES
  sock,       \* readyState of each socket, as the server sees it
  phase,      \* where each socket's hello waits
  hello,      \* what each hello still at work carried
  clientId,   \* ConnectionHandler.clientId
  live,       \* the store holds the room
  registered, \* clientIds in the room's identity registry
  connected,  \* clientIds in the room's presence set
  armed,      \* the room's grace timer is armed
  chain,      \* the await the expiry chain is at
  stored      \* the durable session row exists

lifeVars == <<sock, phase, hello, clientId, live, registered, connected, armed, chain, stored>>
roomVars == <<live, registered, connected, armed>>

SockState   == {"unused", "open", "closing", "closed"}
Phase       == {"none", "settle", "woken", "resuming", "minting", "load", "verify", "username",
                "done", "failed"}
ExpiryState == {"idle", "flush", "get", "delete"}
HelloMsg    == [token : BOOLEAN, presented : Socket \cup {None}]
NoHello     == [token |-> FALSE, presented |-> None]

-----------------------------------------------------------------------------

InitLife ==
  /\ sock = [s \in Socket |-> "unused"]
  /\ phase = [s \in Socket |-> "none"]
  /\ hello = [s \in Socket |-> NoHello]
  /\ clientId = [s \in Socket |-> None]
  /\ live = FALSE
  /\ registered = {}
  /\ connected = {}
  /\ armed = FALSE
  /\ chain = "idle"
  /\ stored \in BOOLEAN

\* The pool's size: the sockets whose readyState is OPEN.
PoolSize(sockets) == Cardinality({s \in Socket : sockets[s] = "open"})

\* A capacity check that lets one socket too many in.
OverCapacityOffByOne == PoolSize(sock) > RoomCap + 1

\* The room.full check of a hello; its own socket is in the pool already.
OverCapacity == PoolSize(sock) > RoomCap

\* No hello is between two microtasks, so the next callback may run.
Drained == \A s \in Socket : phase[s] \notin {"woken", "resuming", "minting"}

\* The server closes s: an open socket is CLOSING until its close event.
Closing(s) == [sock EXCEPT ![s] = IF @ = "open" THEN "closing" ELSE @]

\* fatal: an error frame and a close; the hello goes no further.
Fatal(s) ==
  /\ sock' = Closing(s)
  /\ phase' = [phase EXCEPT ![s] = "failed"]
  /\ hello' = [hello EXCEPT ![s] = NoHello]
  /\ UNCHANGED clientId

-----------------------------------------------------------------------------
(* Connections *)

\* The route accepts a socket: pool, handler, hello deadline.
Open(s) ==
  /\ Drained
  /\ sock[s] = "unused"
  /\ sock' = [sock EXCEPT ![s] = "open"]
  /\ UNCHANGED <<phase, hello, clientId, roomVars, chain, stored>>

\* No hello within HELLO_DEADLINE_MS.
HelloDeadline(s) ==
  /\ Drained
  /\ sock[s] = "open"
  /\ phase[s] = "none"
  /\ sock' = Closing(s)
  /\ UNCHANGED <<phase, hello, clientId, roomVars, chain, stored>>

\* Two pongs missed: the heartbeat, which only a finished hello starts, closes.
HeartbeatTimeout(s) ==
  /\ Drained
  /\ sock[s] = "open"
  /\ phase[s] = "done"
  /\ sock' = Closing(s)
  /\ UNCHANGED <<phase, hello, clientId, roomVars, chain, stored>>

\* The close event: out of the pool, then onClose, which does nothing for a socket
\* that has no clientId yet and rejects on a room that is gone.
SocketClosed(s) ==
  /\ Drained
  /\ sock[s] \in {"open", "closing"}
  /\ sock' = [sock EXCEPT ![s] = "closed"]
  /\ IF clientId[s] # None /\ live
     THEN /\ connected' = connected \ {clientId[s]}
          /\ armed' = (armed \/ PoolSize(sock') = 0)
     ELSE UNCHANGED <<connected, armed>>
  /\ UNCHANGED <<phase, hello, clientId, live, registered, chain, stored>>

-----------------------------------------------------------------------------
(* The hello handshake *)

\* A resume that does not ask whether the room knows the clientId.
ResumesUnknown(msg, present) == msg.presented \notin present

\* A guest resumes the clientId it presents if the room knows it and no socket is
\* connected under it.
Resumes(msg, present) == msg.presented \in registered \ present

\* The clientIds a client may hold from an earlier welcome (its sessionStorage).
Known == {clientId[s] : s \in Socket} \ {None}

\* The hello msg of s waits at an await.
Await(s, at, msg) ==
  /\ phase' = [phase EXCEPT ![s] = at]
  /\ hello' = [hello EXCEPT ![s] = msg]
  /\ UNCHANGED <<sock, clientId>>

\* The end of a hello that has its identity id: registered if it was minted, held
\* by the handler, marked connected.
Welcome(s, id, ids, present) ==
  /\ clientId' = [clientId EXCEPT ![s] = id]
  /\ phase' = [phase EXCEPT ![s] = "done"]
  /\ hello' = [hello EXCEPT ![s] = NoHello]
  /\ registered' = ids \cup {id}
  /\ connected' = present \cup {id}
  /\ UNCHANGED sock

\* A hello that runs alone, from getOrCreate on: a token is verified first, a guest
\* is welcomed at once.  getOrCreate changes nothing on a live room.
Enter(s, msg) ==
  /\ live' = TRUE
  /\ IF msg.token
     THEN Await(s, "verify", msg) /\ UNCHANGED <<registered, connected>>
     ELSE Welcome(s, IF Resumes(msg, connected) THEN msg.presented ELSE s, registered, connected)

\* A cancelGrace that leaves an armed timer running.
GraceKeptByHello == armed

\* cancelGrace clears an armed timer.
GraceAfterHello == FALSE

\* A cancelGrace that clears the timer but does not look for a chain in flight.
NothingInFlight == FALSE

\* cancelGrace has an expiry chain to wait for.
ExpiryInFlight == chain # "idle"

\* A hello frame: refused over capacity; otherwise it disarms the grace timer, then
\* waits out an expiry chain in flight, loads the session of a room that is not
\* live, or enters the live room.
Hello(s, msg) ==
  /\ Drained
  /\ sock[s] = "open"
  /\ phase[s] = "none"
  /\ \/ /\ OverCapacity
        /\ Fatal(s)
        /\ UNCHANGED roomVars
     \/ /\ ~OverCapacity
        /\ armed' = GraceAfterHello
        /\ \/ /\ ExpiryInFlight
              /\ Await(s, "settle", msg)
              /\ UNCHANGED <<live, registered, connected>>
           \/ /\ ~ExpiryInFlight
              /\ ~live
              /\ Await(s, "load", msg)
              /\ UNCHANGED <<live, registered, connected>>
           \/ /\ ~ExpiryInFlight
              /\ live
              /\ Enter(s, msg)
  /\ UNCHANGED <<chain, stored>>

\* A hello whose schemaVersion is not the server's.
HelloMismatch(s) ==
  /\ Drained
  /\ sock[s] = "open"
  /\ phase[s] = "none"
  /\ Fatal(s)
  /\ UNCHANGED <<roomVars, chain, stored>>

\* A hello woken by the end of the expiry chain goes on, as far as the presence set
\* it reads: a guest now knows which identity it takes, and others run before it
\* takes it.
Wake(s) ==
  /\ phase[s] = "woken"
  /\ \/ /\ ~live
        /\ Await(s, "load", hello[s])
     \/ /\ live
        /\ hello[s].token
        /\ Await(s, "verify", hello[s])
     \/ /\ live
        /\ ~hello[s].token
        /\ Await(s, IF Resumes(hello[s], connected) THEN "resuming" ELSE "minting", hello[s])
  /\ UNCHANGED <<roomVars, chain, stored>>

\* The identity a woken guest decided on takes effect.
TakeIdentity(s) ==
  /\ phase[s] \in {"resuming", "minting"}
  /\ Welcome(s, IF phase[s] = "resuming" THEN hello[s].presented ELSE s, registered, connected)
  /\ UNCHANGED <<live, armed, chain, stored>>

\* loadSession answers: no such session, or the seed of a room that getOrCreate
\* makes unless another hello has.
LoadAnswered(s) ==
  /\ Drained
  /\ phase[s] = "load"
  /\ \/ /\ ~stored
        /\ Fatal(s)
        /\ UNCHANGED roomVars
     \/ /\ stored
        /\ Enter(s, hello[s])
        /\ UNCHANGED armed
  /\ UNCHANGED <<chain, stored>>

\* loadSession fails, or SESSION_LOAD_TIMEOUT_MS passes.
LoadFailed(s) ==
  /\ Drained
  /\ phase[s] = "load"
  /\ Fatal(s)
  /\ UNCHANGED <<roomVars, chain, stored>>

\* The token is verified, and the profile store is asked for the username; or it
\* is not, which leaves the room getOrCreate made behind.
Verified(s) ==
  /\ Drained
  /\ phase[s] = "verify"
  /\ \/ Await(s, "username", hello[s])
     \/ Fatal(s)
  /\ UNCHANGED <<roomVars, chain, stored>>

\* The profile store answers; the room store rejects an identity for a room that is
\* gone, and then the hello ends with neither a welcome nor a fatal.
UsernameAnswered(s) ==
  /\ Drained
  /\ phase[s] = "username"
  /\ IF live
     THEN Welcome(s, s, registered, connected) /\ UNCHANGED <<live, armed>>
     ELSE Await(s, "failed", NoHello) /\ UNCHANGED roomVars
  /\ UNCHANGED <<chain, stored>>

\* The profile store rejects, and so does the hello.
UsernameFailed(s) ==
  /\ Drained
  /\ phase[s] = "username"
  /\ Await(s, "failed", NoHello)
  /\ UNCHANGED <<roomVars, chain, stored>>

-----------------------------------------------------------------------------
(* End of life *)

\* The grace timer fires and the expiry chain starts with its flush.
TimerFires ==
  /\ Drained
  /\ armed
  /\ chain = "idle"
  /\ armed' = FALSE
  /\ chain' = "flush"
  /\ UNCHANGED <<sock, phase, hello, clientId, live, registered, connected, stored>>

\* A chain that ends without settling the promise hellos wait for.
ChainEndsUnheard == chain' = "idle" /\ UNCHANGED phase

\* The expiry chain settles, and wakes every hello that waits for it.
ChainEnds ==
  /\ chain' = "idle"
  /\ phase' = [s \in Socket |-> IF phase[s] = "settle" THEN "woken" ELSE phase[s]]

\* pruneRoom drops the room with its registry, its presence set and its timer.
Prune ==
  /\ live' = FALSE
  /\ registered' = {}
  /\ connected' = {}
  /\ armed' = FALSE

\* The flush settles: flushRoom logs a failed save and goes on.
ChainFlushed ==
  /\ Drained
  /\ chain = "flush"
  /\ chain' = "get"
  /\ UNCHANGED <<sock, phase, hello, clientId, roomVars, stored>>

\* The session row is read: a guest's is deleted next, an owned one stays.
ChainGot ==
  /\ Drained
  /\ chain = "get"
  /\ IF stored /\ GuestOwned
     THEN chain' = "delete" /\ UNCHANGED <<phase, roomVars>>
     ELSE ChainEnds /\ Prune
  /\ UNCHANGED <<sock, hello, clientId, stored>>

\* The guest's row is deleted, then the room pruned.
ChainDeleted ==
  /\ Drained
  /\ chain = "delete"
  /\ stored' = FALSE
  /\ ChainEnds
  /\ Prune
  /\ UNCHANGED <<sock, hello, clientId>>

\* The read or the delete fails: the chain ends, logged, and the room stays.
ChainFailed ==
  /\ Drained
  /\ chain \in {"get", "delete"}
  /\ ChainEnds
  /\ UNCHANGED <<sock, hello, clientId, roomVars, stored>>

-----------------------------------------------------------------------------

NextLife ==
  \/ \E s \in Socket : Wake(s)
  \/ \E s \in Socket : TakeIdentity(s)
  \/ \E s \in Socket : Open(s)
  \/ \E s \in Socket : HelloDeadline(s)
  \/ \E s \in Socket : HeartbeatTimeout(s)
  \/ \E s \in Socket : SocketClosed(s)
  \/ \E s \in Socket, token \in BOOLEAN, id \in Known \cup {None} :
       Hello(s, [token |-> token, presented |-> id])
  \/ \E s \in Socket : HelloMismatch(s)
  \/ \E s \in Socket : LoadAnswered(s)
  \/ \E s \in Socket : LoadFailed(s)
  \/ \E s \in Socket : Verified(s)
  \/ \E s \in Socket : UsernameAnswered(s)
  \/ \E s \in Socket : UsernameFailed(s)
  \/ TimerFires
  \/ ChainFlushed
  \/ ChainGot
  \/ ChainDeleted
  \/ ChainFailed

LifeSpec == InitLife /\ [][NextLife]_lifeVars

\* A hello goes on, or the deadline of one that never came strikes: at each phase just one
\* await can be answered or fail.
HelloGoesOn(s) ==
  \/ HelloDeadline(s)
  \/ Wake(s) \/ TakeIdentity(s)
  \/ LoadAnswered(s) \/ LoadFailed(s)
  \/ Verified(s)
  \/ UsernameAnswered(s) \/ UsernameFailed(s)

ChainGoesOn == ChainFlushed \/ ChainGot \/ ChainDeleted \/ ChainFailed

\* Microtasks run; a timer fires; the database and the token verifier answer, with
\* a result or a failure; the peer of a closing socket, or ws's close timeout, ends
\* it.  Nothing makes a client open, say hello, or leave.
LifeFairness ==
  /\ \A s \in Socket :
       /\ WF_lifeVars(HelloGoesOn(s))
       /\ WF_lifeVars(sock[s] = "closing" /\ SocketClosed(s))
  /\ WF_lifeVars(TimerFires)
  /\ WF_lifeVars(ChainGoesOn)

FairLife == LifeSpec /\ LifeFairness

-----------------------------------------------------------------------------
(* Properties *)

\* The states the handlers, the room and the chain can be in.  What it says beyond types:
\* a room only registers and connects identities that were minted for a socket, so a
\* resumed clientId is never one the client made up (Resumes, Welcome).
LifeTypeOK ==
  /\ sock \in [Socket -> SockState]
  /\ phase \in [Socket -> Phase]
  /\ hello \in [Socket -> HelloMsg]
  /\ clientId \in [Socket -> Socket \cup {None}]
  /\ live \in BOOLEAN
  /\ registered \subseteq Socket
  /\ connected \subseteq Socket
  /\ armed \in BOOLEAN
  /\ chain \in ExpiryState
  /\ stored \in BOOLEAN

\* Sockets whose hello passed the capacity check and was not refused since.
Admitted == {s \in Socket : sock[s] = "open" /\ phase[s] \notin {"none", "failed"}}

\* At most RoomCap sockets are in the room or on their way in, although the check
\* is made once, before every await of the hello (handleHello's room.full).
CapRespected == Cardinality(Admitted) <= RoomCap

\* An open socket whose hello is past cancelGrace never shares the room with an
\* armed timer or a running teardown, however late the rest of its handshake runs
\* (M3a: "a hello must never race a room that is mid-teardown").
NoTeardownUnderHello ==
  \A s \in Admitted : phase[s] # "settle" => ~armed /\ chain = "idle"

\* A client that has been welcomed always finds its room: requireRoom cannot throw
\* under an open, identified socket.
WelcomedHasRoom == \A s \in Admitted : phase[s] = "done" => live

\* A room is pruned only when no open socket is on its way in or in it.
PruneFindsRoomEmpty == [][live /\ ~live' => \A s \in Admitted : phase[s] = "settle"]_lifeVars

\* A guest that said hello is welcomed or its socket stops being open: no grace
\* teardown, load or prune leaves it waiting (handleHello with cancelGrace).
GuestHelloAnswered ==
  \A s \in Socket :
    (s \in Admitted /\ phase[s] # "done" /\ ~hello[s].token)
      ~> (phase[s] = "done" \/ sock[s] # "open")
=============================================================================
