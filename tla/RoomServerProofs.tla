-------------------------- MODULE RoomServerProofs --------------------------
(*****************************************************************************)
(* The safety properties of a room's life cycle, proved for any number of    *)
(* sockets and any capacity; of the buckets that limit what a client may     *)
(* send, for any capacity, tick and set of keys; and of a tab's connection   *)
(* to the server, for any number of accounts, clients and sockets.           *)
(*                                                                           *)
(* The room.  A timer can only be armed when no socket is open, a hello      *)
(* disarms it before anything else, and a chain can only start from an armed *)
(* timer: so while some socket is admitted no timer is armed                 *)
(* (AdmittedDisarms), and one that waits out the chain in flight meets no    *)
(* other.  The capacity check bounds the open sockets at the moment one of   *)
(* them is admitted, and a socket only leaves the admitted set afterwards.   *)
(*                                                                           *)
(* The buckets.  What a bucket has let through and what it still holds are   *)
(* paid for by its capacity and the ticks it has been refilled for; that,    *)
(* and not the bound itself, is what every step keeps.                       *)
(*                                                                           *)
(* The connection.  A client the session has given up holds no socket and no *)
(* timer, so what comes late can only be its `ready`, which then connects    *)
(* nothing, or an event of a socket no client has.  The page can be said to  *)
(* be filled because a client that stopped waiting without content still     *)
(* needs a snapshot: the hello of such a client asks for one, and the answer *)
(* brings it before the sync.complete that makes the room live.              *)
(*****************************************************************************)
EXTENDS RoomLifecycle, TokenBuckets, Connection, TLAPS, FiniteSetTheorems, SequenceTheorems

-----------------------------------------------------------------------------
(* The life cycle of a room *)

\* No timer is armed while some socket is on its way in or in the room.
AdmittedDisarms == Admitted # {} => ~armed

\* A hello past cancelGrace meets no expiry chain.
SettledMeetsNoChain == \A s \in Admitted : phase[s] # "settle" => chain = "idle"

\* A hello that decided to resume has an identity to resume.
ResumingIsNamed == \A s \in Socket : phase[s] = "resuming" => hello[s].presented # None

\* A hello between its two microtasks runs in a live room.
DecidedHasRoom == \A s \in Socket : phase[s] \in {"resuming", "minting"} => live

\* A socket that was not opened yet has said nothing.
UnusedIsQuiet == \A s \in Socket : sock[s] = "unused" => phase[s] = "none"

\* What ties the hellos to the life of the room.
Bound ==
  /\ UnusedIsQuiet
  /\ ResumingIsNamed
  /\ DecidedHasRoom
  /\ AdmittedDisarms
  /\ SettledMeetsNoChain
  /\ WelcomedHasRoom

\* The pool.
OpenIn(pool) == {s \in Socket : pool[s] = "open"}

IInv == LifeTypeOK /\ Bound /\ CapRespected

-----------------------------------------------------------------------------
(* What the steps of a hello have in common *)

\* Awaits keep the types.
LEMMA AwaitTypes ==
  ASSUME LifeTypeOK, NEW s \in Socket, NEW at \in Phase, NEW msg \in HelloMsg, Await(s, at, msg)
  PROVE  /\ sock' \in [Socket -> SockState]
         /\ phase' \in [Socket -> Phase]
         /\ hello' \in [Socket -> HelloMsg]
         /\ clientId' \in [Socket -> Socket \cup {None}]
BY DEF LifeTypeOK, Await

\* A fatal keeps the types.
LEMMA FatalTypes ==
  ASSUME LifeTypeOK, NEW s \in Socket, Fatal(s)
  PROVE  /\ sock' \in [Socket -> SockState]
         /\ phase' \in [Socket -> Phase]
         /\ hello' \in [Socket -> HelloMsg]
         /\ clientId' \in [Socket -> Socket \cup {None}]
<1>1. NoHello \in HelloMsg
  BY DEF NoHello, HelloMsg
<1>2. Closing(s) \in [Socket -> SockState]
  BY DEF LifeTypeOK, Closing, SockState
<1>3. "failed" \in Phase
  BY DEF Phase
<1>4. QED
  BY <1>1, <1>2, <1>3 DEF LifeTypeOK, Fatal

\* A welcome keeps the types.
LEMMA WelcomeTypes ==
  ASSUME LifeTypeOK, NEW s \in Socket, NEW id \in Socket, Welcome(s, id, registered, connected)
  PROVE  /\ sock' \in [Socket -> SockState]
         /\ phase' \in [Socket -> Phase]
         /\ hello' \in [Socket -> HelloMsg]
         /\ clientId' \in [Socket -> Socket \cup {None}]
         /\ registered' \subseteq Socket
         /\ connected' \subseteq Socket
<1>1. NoHello \in HelloMsg
  BY DEF NoHello, HelloMsg
<1>2. "done" \in Phase
  BY DEF Phase
<1>3. QED
  BY <1>1, <1>2 DEF LifeTypeOK, Welcome

\* A hello that enters the room, waits for its token or is welcomed under an identity.
LEMMA EnterCases ==
  ASSUME LifeTypeOK, NEW s \in Socket, NEW msg \in HelloMsg, Enter(s, msg)
  PROVE  /\ live' = TRUE
         /\ \/ Await(s, "verify", msg) /\ UNCHANGED <<registered, connected>>
            \/ \E id \in Socket : Welcome(s, id, registered, connected)
<1>1. CASE msg.token
  BY <1>1 DEF Enter
<1>2. CASE ~msg.token
  <2>1. (IF Resumes(msg, connected) THEN msg.presented ELSE s) \in Socket
    BY DEF LifeTypeOK, Resumes
  <2>2. QED
    BY <1>2, <2>1 DEF Enter
<1>3. QED
  BY <1>1, <1>2

\* Entering the room keeps the types.
LEMMA EnterTypes ==
  ASSUME LifeTypeOK, NEW s \in Socket, NEW msg \in HelloMsg, Enter(s, msg)
  PROVE  /\ sock' \in [Socket -> SockState]
         /\ phase' \in [Socket -> Phase]
         /\ hello' \in [Socket -> HelloMsg]
         /\ clientId' \in [Socket -> Socket \cup {None}]
         /\ live' = TRUE
         /\ registered' \subseteq Socket
         /\ connected' \subseteq Socket
<1>1. "verify" \in Phase
  BY DEF Phase
<1>2. CASE Await(s, "verify", msg) /\ UNCHANGED <<registered, connected>>
  BY <1>1, <1>2, AwaitTypes, EnterCases DEF LifeTypeOK
<1>3. CASE \E id \in Socket : Welcome(s, id, registered, connected)
  BY <1>3, WelcomeTypes, EnterCases
<1>4. QED
  BY <1>2, <1>3, EnterCases

-----------------------------------------------------------------------------
(* Types *)

\* Every action keeps the types.
LEMMA TypeStep == LifeTypeOK /\ ResumingIsNamed /\ [NextLife]_lifeVars => LifeTypeOK'
<1> SUFFICES ASSUME LifeTypeOK, ResumingIsNamed, [NextLife]_lifeVars PROVE LifeTypeOK'
  OBVIOUS
<1>0. NoHello \in HelloMsg /\ \A s \in Socket : hello[s] \in HelloMsg
  BY DEF NoHello, HelloMsg, LifeTypeOK
<1>1. ASSUME NEW s \in Socket, Wake(s)
      PROVE  LifeTypeOK'
  <2>1. PICK at \in Phase : Await(s, at, hello[s])
    BY <1>1 DEF Wake, Phase
  <2>2. UNCHANGED <<live, registered, connected, armed, chain, stored>>
    BY <1>1 DEF Wake, roomVars
  <2>3. QED
    BY <1>0, <2>1, <2>2, AwaitTypes DEF LifeTypeOK
<1>2. ASSUME NEW s \in Socket, TakeIdentity(s)
      PROVE  LifeTypeOK'
  <2>1. phase[s] = "resuming" => hello[s].presented \in Socket
    BY <1>0 DEF ResumingIsNamed, HelloMsg
  <2>2. (IF phase[s] = "resuming" THEN hello[s].presented ELSE s) \in Socket
    BY <2>1
  <2>3. UNCHANGED <<live, armed, chain, stored>>
    BY <1>2 DEF TakeIdentity
  <2>4. QED
    BY <1>2, <2>2, <2>3, WelcomeTypes DEF LifeTypeOK, TakeIdentity
<1>3. ASSUME NEW s \in Socket, Open(s)
      PROVE  LifeTypeOK'
  BY <1>3 DEF LifeTypeOK, Open, SockState, roomVars
<1>4. ASSUME NEW s \in Socket, HelloDeadline(s)
      PROVE  LifeTypeOK'
  BY <1>4 DEF LifeTypeOK, HelloDeadline, Closing, SockState, roomVars
<1>5. ASSUME NEW s \in Socket, HeartbeatTimeout(s)
      PROVE  LifeTypeOK'
  BY <1>5 DEF LifeTypeOK, HeartbeatTimeout, Closing, SockState, roomVars
<1>6. ASSUME NEW s \in Socket, SocketClosed(s)
      PROVE  LifeTypeOK'
  BY <1>6 DEF LifeTypeOK, SocketClosed, SockState
<1>7. ASSUME NEW s \in Socket, NEW msg \in HelloMsg, Hello(s, msg)
      PROVE  LifeTypeOK'
  <2>1. UNCHANGED <<chain, stored>>
    BY <1>7 DEF Hello
  <2>2. CASE Fatal(s) /\ UNCHANGED roomVars
    BY <2>1, <2>2, FatalTypes DEF LifeTypeOK, roomVars
  <2>3. CASE /\ armed' = GraceAfterHello
             /\ Await(s, "settle", msg) \/ Await(s, "load", msg)
             /\ UNCHANGED <<live, registered, connected>>
    <3>1. PICK at \in Phase : Await(s, at, msg)
      BY <2>3 DEF Phase
    <3>2. QED
      BY <2>1, <2>3, <3>1, AwaitTypes DEF LifeTypeOK, GraceAfterHello
  <2>4. CASE armed' = GraceAfterHello /\ Enter(s, msg)
    BY <2>1, <2>4, EnterTypes DEF LifeTypeOK, GraceAfterHello
  <2>5. QED
    BY <1>7, <2>2, <2>3, <2>4 DEF Hello
<1>8. ASSUME NEW s \in Socket, HelloMismatch(s)
      PROVE  LifeTypeOK'
  BY <1>8, FatalTypes DEF LifeTypeOK, HelloMismatch, roomVars
<1>9. ASSUME NEW s \in Socket, LoadAnswered(s)
      PROVE  LifeTypeOK'
  <2>1. UNCHANGED <<chain, stored>>
    BY <1>9 DEF LoadAnswered
  <2>2. CASE Fatal(s) /\ UNCHANGED roomVars
    BY <2>1, <2>2, FatalTypes DEF LifeTypeOK, roomVars
  <2>3. CASE Enter(s, hello[s]) /\ UNCHANGED armed
    BY <1>0, <2>1, <2>3, EnterTypes DEF LifeTypeOK
  <2>4. QED
    BY <1>9, <2>2, <2>3 DEF LoadAnswered
<1>10. ASSUME NEW s \in Socket, LoadFailed(s)
       PROVE  LifeTypeOK'
  BY <1>10, FatalTypes DEF LifeTypeOK, LoadFailed, roomVars
<1>11. ASSUME NEW s \in Socket, Verified(s)
       PROVE  LifeTypeOK'
  <2>1. "username" \in Phase
    BY DEF Phase
  <2>2. CASE Await(s, "username", hello[s])
    BY <1>0, <1>11, <2>1, <2>2, AwaitTypes DEF LifeTypeOK, Verified, roomVars
  <2>3. CASE Fatal(s)
    BY <1>11, <2>3, FatalTypes DEF LifeTypeOK, Verified, roomVars
  <2>4. QED
    BY <1>11, <2>2, <2>3 DEF Verified
<1>12. ASSUME NEW s \in Socket, UsernameAnswered(s)
       PROVE  LifeTypeOK'
  <2>1. "failed" \in Phase
    BY DEF Phase
  <2>2. CASE Welcome(s, s, registered, connected) /\ UNCHANGED <<live, armed>>
    BY <1>12, <2>2, WelcomeTypes DEF LifeTypeOK, UsernameAnswered
  <2>3. CASE Await(s, "failed", NoHello) /\ UNCHANGED roomVars
    BY <1>0, <1>12, <2>1, <2>3, AwaitTypes DEF LifeTypeOK, UsernameAnswered, roomVars
  <2>4. QED
    BY <1>12, <2>2, <2>3 DEF UsernameAnswered
<1>13. ASSUME NEW s \in Socket, UsernameFailed(s)
       PROVE  LifeTypeOK'
  <2>1. "failed" \in Phase
    BY DEF Phase
  <2>2. QED
    BY <1>0, <1>13, <2>1, AwaitTypes DEF LifeTypeOK, UsernameFailed, roomVars
<1>14. ASSUME TimerFires
       PROVE  LifeTypeOK'
  BY <1>14 DEF TimerFires, LifeTypeOK, ExpiryState
<1>15. ASSUME ChainFlushed
       PROVE  LifeTypeOK'
  BY <1>15 DEF ChainFlushed, LifeTypeOK, ExpiryState, roomVars
<1>16. ASSUME ChainGot
       PROVE  LifeTypeOK'
  BY <1>16 DEF ChainGot, ChainEnds, Prune, LifeTypeOK, ExpiryState, Phase, roomVars
<1>17. ASSUME ChainDeleted
       PROVE  LifeTypeOK'
  BY <1>17 DEF ChainDeleted, ChainEnds, Prune, LifeTypeOK, ExpiryState, Phase
<1>18. ASSUME ChainFailed
       PROVE  LifeTypeOK'
  BY <1>18 DEF ChainFailed, ChainEnds, LifeTypeOK, ExpiryState, Phase, roomVars
<1>19. ASSUME UNCHANGED lifeVars
       PROVE  LifeTypeOK'
  BY <1>19 DEF lifeVars, LifeTypeOK
<1>20. \A token \in BOOLEAN, id \in Known \cup {None} :
         [token |-> token, presented |-> id] \in HelloMsg
  BY DEF Known, HelloMsg, LifeTypeOK
<1>21. QED
  BY <1>1, <1>2, <1>3, <1>4, <1>5, <1>6, <1>7, <1>8, <1>9, <1>10, <1>11, <1>12, <1>13,
     <1>14, <1>15, <1>16, <1>17, <1>18, <1>19, <1>20 DEF NextLife

-----------------------------------------------------------------------------
(* The bound between hellos and the room *)

\* An empty pool has no open socket.
LEMMA EmptyPool ==
  ASSUME NEW pool, PoolSize(pool) = 0
  PROVE  OpenIn(pool) = {}
BY FS_Subset, FS_EmptySet, RoomLifecycleAssumption DEF PoolSize, OpenIn

\* Every step but a hello frame only shrinks the admitted set, and keeps the bound.
LEMMA OtherSteps ==
  ASSUME LifeTypeOK, Bound, [NextLife]_lifeVars,
         ~ \E s \in Socket, msg \in HelloMsg : Hello(s, msg)
  PROVE  Bound' /\ Admitted' \subseteq Admitted
<1> USE RoomLifecycleAssumption
    DEF LifeTypeOK, Bound, UnusedIsQuiet, ResumingIsNamed, DecidedHasRoom, AdmittedDisarms,
        SettledMeetsNoChain, WelcomedHasRoom, Admitted
<1>1. ASSUME NEW s \in Socket, Wake(s)
      PROVE  Bound' /\ Admitted' \subseteq Admitted
  <2>1. CASE ~live /\ Await(s, "load", hello[s])
    BY <1>1, <2>1 DEF Wake, Await, roomVars
  <2>2. CASE live /\ Await(s, "verify", hello[s])
    BY <1>1, <2>2 DEF Wake, Await, roomVars
  <2>3. CASE live /\ Resumes(hello[s], connected) /\ Await(s, "resuming", hello[s])
    <3>1. hello[s].presented # None
      BY <2>3 DEF Resumes
    <3>2. QED
      BY <1>1, <2>3, <3>1 DEF Wake, Await, roomVars
  <2>4. CASE live /\ Await(s, "minting", hello[s])
    BY <1>1, <2>4 DEF Wake, Await, roomVars
  <2>5. QED
    BY <1>1, <2>1, <2>2, <2>3, <2>4 DEF Wake
<1>2. ASSUME NEW s \in Socket, TakeIdentity(s)
      PROVE  Bound' /\ Admitted' \subseteq Admitted
  BY <1>2 DEF TakeIdentity, Welcome
<1>3. ASSUME NEW s \in Socket, Open(s)
      PROVE  Bound' /\ Admitted' \subseteq Admitted
  BY <1>3 DEF Open, roomVars
<1>4. ASSUME NEW s \in Socket, HelloDeadline(s)
      PROVE  Bound' /\ Admitted' \subseteq Admitted
  BY <1>4 DEF HelloDeadline, Closing, roomVars
<1>5. ASSUME NEW s \in Socket, HeartbeatTimeout(s)
      PROVE  Bound' /\ Admitted' \subseteq Admitted
  BY <1>5 DEF HeartbeatTimeout, Closing, roomVars
<1>6. ASSUME NEW s \in Socket, SocketClosed(s)
      PROVE  Bound' /\ Admitted' \subseteq Admitted
  <2>1. Admitted' \subseteq Admitted \cap OpenIn(sock')
    BY <1>6 DEF SocketClosed, OpenIn
  <2>2. ASSUME PoolSize(sock') = 0
        PROVE  Admitted' = {}
    BY <2>1, <2>2, EmptyPool
  <2>3. AdmittedDisarms'
    BY <1>6, <2>1, <2>2 DEF SocketClosed
  <2>4. QED
    BY <1>6, <2>1, <2>3 DEF SocketClosed
<1>7. ASSUME NEW s \in Socket, HelloMismatch(s)
      PROVE  Bound' /\ Admitted' \subseteq Admitted
  BY <1>7 DEF HelloMismatch, Fatal, Closing, roomVars
<1>8. ASSUME NEW s \in Socket, LoadAnswered(s)
      PROVE  Bound' /\ Admitted' \subseteq Admitted
  BY <1>8 DEF LoadAnswered, Fatal, Closing, Enter, Await, Welcome, roomVars
<1>9. ASSUME NEW s \in Socket, LoadFailed(s)
      PROVE  Bound' /\ Admitted' \subseteq Admitted
  BY <1>9 DEF LoadFailed, Fatal, Closing, roomVars
<1>10. ASSUME NEW s \in Socket, Verified(s)
       PROVE  Bound' /\ Admitted' \subseteq Admitted
  BY <1>10 DEF Verified, Await, Fatal, Closing, roomVars
<1>11. ASSUME NEW s \in Socket, UsernameAnswered(s)
       PROVE  Bound' /\ Admitted' \subseteq Admitted
  BY <1>11 DEF UsernameAnswered, Welcome, Await, roomVars
<1>12. ASSUME NEW s \in Socket, UsernameFailed(s)
       PROVE  Bound' /\ Admitted' \subseteq Admitted
  BY <1>12 DEF UsernameFailed, Await, roomVars
<1>13. ASSUME TimerFires
       PROVE  Bound' /\ Admitted' \subseteq Admitted
  BY <1>13 DEF TimerFires
<1>14. ASSUME ChainFlushed
       PROVE  Bound' /\ Admitted' \subseteq Admitted
  BY <1>14 DEF ChainFlushed, roomVars
<1>15. ASSUME ChainGot
       PROVE  Bound' /\ Admitted' \subseteq Admitted
  BY <1>15 DEF ChainGot, ChainEnds, Prune, Drained, roomVars
<1>16. ASSUME ChainDeleted
       PROVE  Bound' /\ Admitted' \subseteq Admitted
  BY <1>16 DEF ChainDeleted, ChainEnds, Prune, Drained, roomVars
<1>17. ASSUME ChainFailed
       PROVE  Bound' /\ Admitted' \subseteq Admitted
  BY <1>17 DEF ChainFailed, ChainEnds, roomVars
<1>18. ASSUME UNCHANGED lifeVars
       PROVE  Bound' /\ Admitted' \subseteq Admitted
  BY <1>18 DEF lifeVars
<1>19. \A token \in BOOLEAN, id \in Known \cup {None} :
         [token |-> token, presented |-> id] \in HelloMsg
  BY DEF Known, HelloMsg, LifeTypeOK
<1>20. QED
  BY <1>1, <1>2, <1>3, <1>4, <1>5, <1>6, <1>7, <1>8, <1>9, <1>10, <1>11, <1>12, <1>13, <1>14, <1>15, <1>16, <1>17, <1>18, <1>19 DEF NextLife

\* A hello frame keeps the bound, and is admitted only into a pool within capacity.
LEMMA HelloStep ==
  ASSUME LifeTypeOK, Bound, NEW s \in Socket, NEW msg \in HelloMsg, Hello(s, msg)
  PROVE  Bound' /\ (Admitted' \subseteq Admitted \/ PoolSize(sock') <= RoomCap)
<1> USE RoomLifecycleAssumption
    DEF LifeTypeOK, Bound, UnusedIsQuiet, ResumingIsNamed, DecidedHasRoom, AdmittedDisarms,
        SettledMeetsNoChain, WelcomedHasRoom, Admitted
<1>1. CASE OverCapacity /\ Fatal(s) /\ UNCHANGED roomVars
  BY <1>1 DEF Hello, Fatal, Closing, roomVars
<1>2. ASSUME ~OverCapacity, UNCHANGED sock
      PROVE  PoolSize(sock') <= RoomCap
  <2>1. PoolSize(sock) \in Nat
    BY FS_Subset, FS_CardinalityType DEF PoolSize
  <2>2. QED
    BY <1>2, <2>1 DEF OverCapacity
<1>3. CASE /\ ~OverCapacity
           /\ armed' = GraceAfterHello
           /\ ExpiryInFlight
           /\ Await(s, "settle", msg)
           /\ UNCHANGED <<live, registered, connected>>
  BY <1>2, <1>3 DEF Hello, Await, GraceAfterHello
<1>4. CASE /\ ~OverCapacity
           /\ armed' = GraceAfterHello
           /\ ~ExpiryInFlight
           /\ Await(s, "load", msg)
           /\ UNCHANGED <<live, registered, connected>>
  BY <1>2, <1>4 DEF Hello, Await, GraceAfterHello, ExpiryInFlight
<1>5. CASE /\ ~OverCapacity
           /\ armed' = GraceAfterHello
           /\ ~ExpiryInFlight
           /\ Enter(s, msg)
  BY <1>2, <1>5 DEF Hello, Enter, Await, Welcome, GraceAfterHello, ExpiryInFlight
<1>6. QED
  BY <1>1, <1>3, <1>4, <1>5 DEF Hello

-----------------------------------------------------------------------------
(* The invariant *)

LEMMA InitInv == InitLife => IInv
<1> SUFFICES ASSUME InitLife PROVE IInv
  OBVIOUS
<1>1. LifeTypeOK
  BY DEF InitLife, LifeTypeOK, SockState, Phase, HelloMsg, NoHello, ExpiryState
<1>2. Admitted = {}
  BY DEF InitLife, Admitted
<1>3. Bound
  BY <1>2 DEF InitLife, Bound, UnusedIsQuiet, ResumingIsNamed, DecidedHasRoom, AdmittedDisarms,
              SettledMeetsNoChain, WelcomedHasRoom
<1>4. CapRespected
  BY <1>2, FS_EmptySet, RoomLifecycleAssumption DEF CapRespected
<1>5. QED
  BY <1>1, <1>3, <1>4 DEF IInv

\* Sockets of the pool are no more than the pool.
LEMMA PoolBounds ==
  ASSUME NEW pool, NEW some \in SUBSET OpenIn(pool)
  PROVE  /\ IsFiniteSet(some)
         /\ Cardinality(some) \in Nat
         /\ PoolSize(pool) \in Nat
         /\ Cardinality(some) <= PoolSize(pool)
<1>1. IsFiniteSet(OpenIn(pool))
  BY FS_Subset, RoomLifecycleAssumption DEF OpenIn
<1>2. IsFiniteSet(some) /\ Cardinality(some) <= Cardinality(OpenIn(pool))
  BY <1>1, FS_Subset
<1>3. Cardinality(OpenIn(pool)) \in Nat /\ Cardinality(some) \in Nat
  BY <1>1, <1>2, FS_CardinalityType
<1>4. QED
  BY <1>2, <1>3 DEF PoolSize, OpenIn

\* A socket that leaves the admitted set takes up no room.
LEMMA ShrinkKeepsCap ==
  ASSUME CapRespected, Admitted' \subseteq Admitted
  PROVE  CapRespected'
<1>1. Admitted \in SUBSET OpenIn(sock)
  BY DEF Admitted, OpenIn
<1>2. IsFiniteSet(Admitted) /\ Cardinality(Admitted) \in Nat
  BY <1>1, PoolBounds
<1>3. /\ Cardinality(Admitted') <= Cardinality(Admitted)
      /\ Cardinality(Admitted') \in Nat
  BY <1>2, FS_Subset, FS_CardinalityType
<1>4. QED
  BY <1>2, <1>3, RoomLifecycleAssumption DEF CapRespected

LEMMA StepInv == IInv /\ [NextLife]_lifeVars => IInv'
<1> SUFFICES ASSUME IInv, [NextLife]_lifeVars PROVE IInv'
  OBVIOUS
<1>0. LifeTypeOK /\ Bound /\ CapRespected /\ ResumingIsNamed
  BY DEF IInv, Bound
<1>1. LifeTypeOK'
  BY <1>0, TypeStep
<1>2. CASE \E s \in Socket, msg \in HelloMsg : Hello(s, msg)
  <2>1. Bound' /\ (Admitted' \subseteq Admitted \/ PoolSize(sock') <= RoomCap)
    BY <1>0, <1>2, HelloStep
  <2>2. CASE PoolSize(sock') <= RoomCap
    <3>1. Admitted' \in SUBSET OpenIn(sock')
      BY DEF Admitted, OpenIn
    <3>2. /\ Cardinality(Admitted') \in Nat
          /\ PoolSize(sock') \in Nat
          /\ Cardinality(Admitted') <= PoolSize(sock')
      BY <3>1, PoolBounds
    <3>3. QED
      BY <1>1, <2>1, <2>2, <3>2, RoomLifecycleAssumption DEF IInv, CapRespected
  <2>3. CASE Admitted' \subseteq Admitted
    BY <1>0, <1>1, <2>1, <2>3, ShrinkKeepsCap DEF IInv
  <2>4. QED
    BY <2>1, <2>2, <2>3
<1>3. CASE ~ \E s \in Socket, msg \in HelloMsg : Hello(s, msg)
  <2>1. Bound' /\ Admitted' \subseteq Admitted
    BY <1>0, <1>3, OtherSteps
  <2>2. QED
    BY <1>0, <1>1, <2>1, ShrinkKeepsCap DEF IInv
<1>4. QED
  BY <1>2, <1>3

\* The invariant holds of every state: the five properties below are read off it.
THEOREM Invariance == LifeSpec => []IInv
BY InitInv, StepInv, PTL DEF LifeSpec

\* Sockets, hellos, presence and timers keep their types.
THEOREM TypeCorrect == LifeSpec => []LifeTypeOK
<1>1. IInv => LifeTypeOK
  BY DEF IInv
<1>2. QED
  BY <1>1, Invariance, PTL

\* ROOM_CAP bounds the sockets in the room or on their way in, for any capacity and
\* any number of sockets, although it is checked once per hello.
THEOREM CapacityHolds == LifeSpec => []CapRespected
<1>1. IInv => CapRespected
  BY DEF IInv
<1>2. QED
  BY <1>1, Invariance, PTL

\* No grace timer and no expiry chain runs under a hello past cancelGrace.
THEOREM NoRaceWithTeardown == LifeSpec => []NoTeardownUnderHello
<1>1. IInv => NoTeardownUnderHello
  BY DEF IInv, Bound, AdmittedDisarms, SettledMeetsNoChain, NoTeardownUnderHello
<1>2. QED
  BY <1>1, Invariance, PTL

\* A welcomed client's room is live for as long as its socket is open.
THEOREM WelcomeLasts == LifeSpec => []WelcomedHasRoom
<1>1. IInv => WelcomedHasRoom
  BY DEF IInv, Bound
<1>2. QED
  BY <1>1, Invariance, PTL

\* A room is only pruned when every hello on its way in waits for the prune.
THEOREM PruneIsSafe == LifeSpec => PruneFindsRoomEmpty
<1>1. ASSUME IInv, [NextLife]_lifeVars
      PROVE  [live /\ ~live' => \A s \in Admitted : phase[s] = "settle"]_lifeVars
  <2> SUFFICES ASSUME NextLife, live, ~live'
               PROVE  \A s \in Admitted : phase[s] = "settle"
    BY <1>1
  <2>1. chain # "idle"
    BY DEF NextLife, Wake, TakeIdentity, Open, HelloDeadline, HeartbeatTimeout, SocketClosed, Hello,
           HelloMismatch, LoadAnswered, LoadFailed, Verified, UsernameAnswered, UsernameFailed,
           TimerFires, ChainFlushed, ChainGot, ChainDeleted, ChainFailed, Enter, roomVars
  <2>2. QED
    BY <1>1, <2>1 DEF IInv, Bound, SettledMeetsNoChain
<1>2. QED
  BY <1>1, Invariance, PTL DEF LifeSpec, PruneFindsRoomEmpty

-----------------------------------------------------------------------------
(* The buckets *)

Buckets == [tokens : 0..BucketCapacity, lastRefill : Int]

BucketsTypeOK ==
  /\ clock \in Nat /\ order \in Seq(Address)
  /\ bucket \in [Address -> Buckets]
  /\ \A k \in Address : bucket[k].lastRefill <= clock
  /\ watching \in Address /\ since \in Nat /\ since <= clock /\ admitted \in Nat

PaidFor(b, n) ==
  \/ n = 0
  \/ (n + b.tokens - BucketCapacity) * TickMs <= b.lastRefill - since + (TickMs - 1)

BucketInv == BucketsTypeOK /\ PaidFor(bucket[watching], admitted)

\* Division rounds down.
LEMMA WholeTicks ==
  ASSUME NEW x \in Nat, NEW d \in Nat \ {0}
  PROVE  x \div d \in Nat /\ (x \div d) * d <= x /\ x < (x \div d) * d + d
  OBVIOUS

\* Multiplication by a tick distributes and keeps order.
LEMMA Spread ==
  ASSUME NEW a \in Int, NEW b \in Int, NEW d \in Nat
  PROVE  (a + b) * d = a * d + b * d
  OBVIOUS

LEMMA Order ==
  ASSUME NEW a \in Int, NEW b \in Int, a <= b, NEW d \in Nat
  PROVE  a * d <= b * d
  OBVIOUS

\* A refill: whole ticks, up to the capacity, and the clock not outrun.
LEMMA RefillKeeps ==
  ASSUME BucketAssumption, NEW b \in Buckets, clock \in Nat, b.lastRefill <= clock,
         since \in Nat, NEW n \in Nat, PaidFor(b, n)
  PROVE  /\ Refilled(b) \in Buckets
         /\ Refilled(b).lastRefill <= clock
         /\ clock - Refilled(b).lastRefill <= TickMs - 1
         /\ PaidFor(Refilled(b), n)
<1> DEFINE x == clock - b.lastRefill
           q == x \div TickMs
<1>1. x \in Nat /\ TickMs \in Nat \ {0} /\ BucketCapacity \in Nat \ {0}
  BY DEF BucketAssumption, Buckets
<1>2. q \in Nat /\ q * TickMs <= x /\ x < q * TickMs + TickMs
  BY <1>1, WholeTicks
<1>3. Ticks(b) = q
  BY DEF Ticks
<1> HIDE DEF q
<1>4. b.tokens \in 0..BucketCapacity /\ b.lastRefill \in Int
  BY DEF Buckets
<1>5. Refilled(b) = [tokens |-> Capped(b.tokens + q), lastRefill |-> b.lastRefill + q * TickMs]
  BY <1>3 DEF Refilled
<1>6. /\ Capped(b.tokens + q) \in 0..BucketCapacity
      /\ Capped(b.tokens + q) <= b.tokens + q
  BY <1>1, <1>2, <1>4 DEF Capped
<1>7. q * TickMs \in Nat
  BY <1>1, <1>2
<1>8. PaidFor(Refilled(b), n)
  <2>1. CASE n = 0
    BY <2>1 DEF PaidFor
  <2>2. CASE n # 0
    <3>1. (n + b.tokens - BucketCapacity) * TickMs <= b.lastRefill - since + (TickMs - 1)
      BY <2>2 DEF PaidFor
    <3>2. ((n + b.tokens - BucketCapacity) + q) * TickMs = (n + b.tokens - BucketCapacity) * TickMs + q * TickMs
      BY <1>1, <1>2, <1>4, Spread
    <3>3. (n + Capped(b.tokens + q) - BucketCapacity) * TickMs <= ((n + b.tokens - BucketCapacity) + q) * TickMs
      BY <1>1, <1>2, <1>4, <1>6, Order
    <3>4. (n + Capped(b.tokens + q) - BucketCapacity) * TickMs <= (b.lastRefill + q * TickMs) - since + (TickMs - 1)
      <4> DEFINE l == (n + Capped(b.tokens + q) - BucketCapacity) * TickMs
                 m == (n + b.tokens - BucketCapacity) * TickMs
                 t == q * TickMs
      <4>1. l \in Int /\ m \in Int /\ t \in Nat
        BY <1>1, <1>4, <1>6, <1>7
      <4>2. l <= m + t /\ m <= b.lastRefill - since + (TickMs - 1)
        BY <3>1, <3>2, <3>3
      <4> HIDE DEF l, m, t
      <4>3. l <= (b.lastRefill + t) - since + (TickMs - 1)
        BY <4>1, <4>2, <1>1, <1>4
      <4> QED BY <4>3 DEF l, t
    <3> QED BY <3>4, <1>5 DEF PaidFor
  <2> QED BY <2>1, <2>2
<1> QED BY <1>1, <1>2, <1>4, <1>5, <1>6, <1>7, <1>8 DEF Buckets

\* The bound follows from what is paid for.
LEMMA PaidIsBounded ==
  ASSUME BucketAssumption, BucketInv
  PROVE  BurstPlusRate
<1> DEFINE b == bucket[watching]
<1>1. /\ b \in Buckets /\ b.lastRefill <= clock /\ b.tokens \in Nat /\ b.lastRefill \in Int
      /\ clock \in Nat /\ since \in Nat /\ since <= clock /\ admitted \in Nat
      /\ TickMs \in Nat \ {0} /\ BucketCapacity \in Nat \ {0}
  BY DEF BucketInv, BucketsTypeOK, Buckets, BucketAssumption
<1>2. PaidFor(b, admitted)
  BY DEF BucketInv
<1> HIDE DEF b
<1>3. CASE admitted = 0
  <2>1. (admitted - BucketCapacity) * TickMs <= 0 * TickMs
    BY <1>1, <1>3, Order
  <2> QED BY <2>1, <1>1 DEF BurstPlusRate
<1>4. CASE admitted # 0
  <2>1. (admitted - BucketCapacity) * TickMs <= (admitted + b.tokens - BucketCapacity) * TickMs
    BY <1>1, Order
  <2>2. (admitted + b.tokens - BucketCapacity) * TickMs <= b.lastRefill - since + (TickMs - 1)
    BY <1>2, <1>4 DEF PaidFor
  <2> DEFINE l == (admitted - BucketCapacity) * TickMs
             m == (admitted + b.tokens - BucketCapacity) * TickMs
  <2>3. l \in Int /\ m \in Int /\ l <= m /\ m <= b.lastRefill - since + (TickMs - 1)
    BY <1>1, <2>1, <2>2
  <2> HIDE DEF l, m
  <2>4. l <= clock - since + (TickMs - 1)
    BY <1>1, <2>3
  <2> QED BY <2>4 DEF l, BurstPlusRate
<1> QED BY <1>3, <1>4

\* One token taken from a bucket just refilled: what was let through since the count began
\* grows by what the bucket loses.
LEMMA TakeKeeps ==
  ASSUME BucketAssumption, NEW b \in Buckets, clock \in Nat, since \in Nat, since <= clock,
         clock - b.lastRefill <= TickMs - 1, b.lastRefill <= clock,
         NEW n \in Nat, PaidFor(b, n), NEW token \in {0, 1}, token <= b.tokens
  PROVE  PaidFor([tokens |-> b.tokens - token, lastRefill |-> b.lastRefill], n + token)
<1>1. /\ TickMs \in Nat \ {0} /\ BucketCapacity \in Nat \ {0}
      /\ b.tokens \in 0..BucketCapacity /\ b.lastRefill \in Int
  BY DEF BucketAssumption, Buckets
<1>2. (n + token) + (b.tokens - token) - BucketCapacity = n + b.tokens - BucketCapacity
  BY <1>1
<1>3. CASE n = 0
  <2>1. (n + b.tokens - BucketCapacity) * TickMs <= 0 * TickMs
    BY <1>1, <1>3, Order
  <2>2. 0 <= b.lastRefill - since + (TickMs - 1)
    BY <1>1
  <2>3. (n + b.tokens - BucketCapacity) * TickMs \in Int
    BY <1>1
  <2>4. (n + b.tokens - BucketCapacity) * TickMs <= b.lastRefill - since + (TickMs - 1)
    BY <1>1, <2>1, <2>2, <2>3
  <2> QED BY <1>2, <2>4 DEF PaidFor
<1>4. CASE n # 0
  BY <1>2, <1>4 DEF PaidFor
<1> QED BY <1>3, <1>4

\* The invariant is kept: a bucket just made, or one of the watched key, by the lemmas
\* above; the rest leave the watched bucket and the count alone.
LEMMA BucketStep ==
  ASSUME BucketAssumption, BucketInv, [NextBuckets]_bucketVars
  PROVE  BucketInv'
<1> USE DEF BucketInv
<1>0. TickMs \in Nat \ {0} /\ BucketCapacity \in Nat \ {0}
  BY DEF BucketAssumption
<1>1. CASE Pass
  BY <1>0, <1>1 DEF Pass, BucketsTypeOK, PaidFor, Buckets
<1>2. ASSUME NEW k \in Address, Watch(k) PROVE BucketInv'
  BY <1>2 DEF Watch, BucketsTypeOK, PaidFor
<1>3. ASSUME NEW k \in Address, Consume(k) PROVE BucketInv'
  <2> DEFINE start == IF Live(k) THEN bucket[k] ELSE FullBucket
             b     == Refilled(start)
             token == IF b.tokens > 0 THEN 1 ELSE 0
             after == [tokens |-> b.tokens - token, lastRefill |-> b.lastRefill]
  <2>1. Held(k) = b
    BY DEF Held
  <2>2. /\ order' = Ordered(k)
        /\ bucket' = [j \in Address |-> IF j = k THEN after ELSE bucket[j]]
        /\ since' = IF k = watching /\ ~Live(k) THEN clock ELSE since
        /\ admitted' = IF k # watching THEN admitted
                       ELSE IF ~Live(k) THEN token ELSE admitted + token
        /\ clock' = clock /\ watching' = watching
    BY <1>3, <2>1 DEF Consume
  <2>3. start \in Buckets /\ start.lastRefill <= clock
    BY <1>0 DEF BucketsTypeOK, Buckets, FullBucket
  <2>4. clock \in Nat /\ since \in Nat /\ since <= clock /\ admitted \in Nat /\ watching \in Address
    BY DEF BucketsTypeOK
  <2>5. PaidFor(start, 0)
    BY DEF PaidFor
  <2> HIDE DEF start
  <2>6. b \in Buckets /\ b.lastRefill <= clock /\ clock - b.lastRefill <= TickMs - 1
    BY <2>3, <2>4, <2>5, RefillKeeps
  <2>7. order' \in Seq(Address)
    BY <2>2 DEF BucketsTypeOK, Ordered
  <2> HIDE DEF b
  <2>8. token \in {0, 1} /\ token <= b.tokens
    BY <2>6 DEF Buckets
  <2> HIDE DEF token
  <2>9. after \in Buckets /\ after.lastRefill <= clock
    BY <2>6, <2>8 DEF Buckets
  <2>10. BucketsTypeOK'
    BY <2>2, <2>4, <2>7, <2>8, <2>9 DEF BucketsTypeOK
  <2>11. PaidFor(bucket[watching], admitted)'
    <3>1. CASE k # watching
      BY <2>2, <2>4, <3>1 DEF BucketsTypeOK, PaidFor
    <3>2. CASE k = watching /\ Live(k)
      <4>1. PaidFor(start, admitted)
        BY <3>2 DEF start
      <4>2. PaidFor(b, admitted)
        BY <2>3, <2>4, <4>1, RefillKeeps DEF b
      <4>3. PaidFor(after, admitted + token)
        BY <2>4, <2>6, <2>8, <4>2, TakeKeeps
      <4>4. bucket'[watching'] = after /\ admitted' = admitted + token /\ since' = since
        BY <2>2, <2>4, <3>2
      <4> QED BY <4>3, <4>4 DEF PaidFor
    <3>3. CASE k = watching /\ ~Live(k)
      <4>1. bucket'[watching'] = after /\ admitted' = token /\ since' = clock
        BY <2>2, <2>4, <3>3
      <4>2. b.tokens \in 0..BucketCapacity /\ b.lastRefill \in Int
        BY <2>6 DEF Buckets
      <4>3. (token + (b.tokens - token) - BucketCapacity) * TickMs <= 0 * TickMs
        BY <1>0, <2>8, <4>2, Order
      <4>4. 0 <= b.lastRefill - clock + (TickMs - 1)
        BY <1>0, <2>4, <2>6, <4>2
      <4>5. (token + (b.tokens - token) - BucketCapacity) * TickMs \in Int
        BY <1>0, <2>8, <4>2
      <4>6. (token + (b.tokens - token) - BucketCapacity) * TickMs <= b.lastRefill - clock + (TickMs - 1)
        BY <1>0, <2>4, <4>2, <4>3, <4>4, <4>5
      <4> QED BY <4>1, <4>6 DEF PaidFor
    <3> QED BY <3>1, <3>2, <3>3
  <2> QED BY <2>10, <2>11
<1>4. CASE UNCHANGED bucketVars
  BY <1>4 DEF bucketVars, BucketsTypeOK, PaidFor
<1> QED BY <1>1, <1>2, <1>3, <1>4 DEF NextBuckets

\* Every bucket in every state is paid for.
THEOREM BucketsPaidFor == BucketsSpec => []BucketInv
<1>1. InitBuckets => BucketInv
  BY BucketAssumption DEF InitBuckets, BucketInv, BucketsTypeOK, PaidFor, Buckets, FullBucket, BucketAssumption
<1>2. BucketInv /\ [NextBuckets]_bucketVars => BucketInv'
  BY BucketAssumption, BucketStep
<1> QED BY <1>1, <1>2, PTL DEF BucketsSpec

\* No stretch of time sees more than the burst and the rate.
THEOREM LimiterHolds == BucketsSpec => []BurstPlusRate
<1>1. BucketInv => BurstPlusRate
  BY BucketAssumption, PaidIsBounded
<1> QED BY <1>1, BucketsPaidFor, PTL

-----------------------------------------------------------------------------
(* The connection of a tab *)

Account == User \union {Guest}
Message == {"welcome", "snapshot", "replay", "complete", "fatal"}

WsClients ==
  [room : RoomId, state : {"closed", "opening", "catching-up", "live"}, socket : Nat, timer : BOOLEAN,
   intentional : BOOLEAN, needs : BOOLEAN, resync : BOOLEAN, resyncTimer : BOOLEAN, waiting : BOOLEAN]

WebSockets ==
  [client : Nat, phase : {"connecting", "open", "closing", "closed"},
   hello : {"unsent", "fresh", "resume", "resync", "answered"}, as : Account, inbox : Seq(Message)]

NetTyped(n) ==
  /\ n.clients \in Seq(WsClients) /\ n.sockets \in Seq(WebSockets)
  /\ \A i \in 1..Len(n.sockets) : n.sockets[i].client \in 1..Len(n.clients)

\* A client that nobody will hear of again, unless its `ready` makes it connect.
Parked(k) == k.socket = 0 /\ k.state = "closed" /\ ~k.timer

\* What the server has written to a socket answers something.
Heard(s) == s.inbox # <<>> => s.hello # "unsent"

\* A sync.complete finds the page filled, by then.
FillsFirst(inbox, filled) ==
  \A j \in 1..Len(inbox) :
    inbox[j] = "complete" => filled \/ \E l \in 1..Len(inbox) : l < j /\ inbox[l] = "snapshot"

\* The socket in use.
InUse(s, k, p, a) ==
  /\ s.client = p.client /\ s.phase \in {"connecting", "open"}
  /\ s.hello # "unsent" => s.as = a.user
  /\ k.state \in {"catching-up", "live"} => s.hello # "unsent"
  /\ s.hello \in {"resume", "resync"} => p.filled
  /\ FillsFirst(s.inbox, p.filled)
  /\ k.state = "live" => p.filled

\* The session's own client.
Holds(k, ss, p, a) ==
  /\ k.socket \in 0..Len(ss) /\ (k.socket = 0 <=> k.state = "closed")
  /\ k.waiting => k.socket = 0 /\ ~k.timer
  /\ k.timer => k.socket = 0 /\ a.ready = "yes"
  /\ ~k.needs /\ ~k.waiting => p.filled
  /\ k.intentional => p.fatal
  /\ k.socket = 0 => k.timer \/ k.waiting \/ p.fatal
  /\ k.socket # 0 => InUse(ss[k.socket], k, p, a)

OthersParked(n, c) == \A d \in 1..Len(n.clients) : d # c => Parked(n.clients[d])

OneInUse(n, i) == \A j \in 1..Len(n.sockets) : j # i => n.sockets[j].phase \in {"closing", "closed"}

ConnInv(n, p, a) ==
  /\ NetTyped(n)
  /\ \A i \in 1..Len(n.sockets) : Heard(n.sockets[i])
  /\ a.ready # "yes" => Len(n.sockets) = 0
  /\ OthersParked(n, p.client)
  /\ OneInUse(n, IF p.client = 0 THEN 0 ELSE n.clients[p.client].socket)
  /\ p.client # 0 => Holds(n.clients[p.client], n.sockets, p, a)

Accounts == [ready : {"no", "yes", "failed"}, user : Account, flips : Nat]
Sessions == [client : Nat, room : RoomId \union {NoRoom}, loading : BOOLEAN, fatal : BOOLEAN, filled : BOOLEAN]

ConnectionInv ==
  /\ auth \in Accounts /\ page \in Sessions /\ page.client \in 0..Len(clients)
  /\ persisted \in [RoomId -> {"none", "unseen", "seen"}]
  /\ asked \in Nat
  /\ ConnInv(Net, page, auth)

\* A client connects of which nothing is in use yet.
LEMMA Connects ==
  ASSUME NEW n, NetTyped(n), \A i \in 1..Len(n.sockets) : Heard(n.sockets[i]),
         NEW p \in Sessions, NEW a \in Accounts, a.ready = "yes", NEW c \in 1..Len(n.clients), p.client = c,
         OthersParked(n, c), OneInUse(n, 0),
         n.clients[c].socket = 0, ~n.clients[c].timer, ~n.clients[c].waiting, NEW force \in BOOLEAN,
         force \/ n.clients[c].needs \/ p.filled
  PROVE  ConnInv(Connected(n, c, force), p, a) /\ Len(Connected(n, c, force).clients) = Len(n.clients)
<1> DEFINE m == Connected(n, c, force)
           l == Len(n.sockets)
           k == n.clients[c]
           f == m.clients[c]
<1>1. /\ n.clients \in Seq(WsClients) /\ n.sockets \in Seq(WebSockets) /\ l \in Nat /\ Len(n.clients) \in Nat
      /\ k \in WsClients /\ c \in Nat /\ c # 0
  BY DEF NetTyped
<1>2. NewSocket(c) \in WebSockets /\ Heard(NewSocket(c)) /\ FillsFirst(NewSocket(c).inbox, p.filled)
  BY <1>1 DEF NewSocket, WebSockets, Account, Heard, FillsFirst
<1> DEFINE g == Connecting(k, force, l + 1)
<1>3. m = [clients |-> [n.clients EXCEPT ![c] = g], sockets |-> Append(n.sockets, NewSocket(c))]
  BY DEF Connected
<1> HIDE DEF m
<1>4. /\ m.sockets \in Seq(WebSockets) /\ Len(m.sockets) = l + 1 /\ m.sockets[l + 1] = NewSocket(c)
      /\ \A i \in 1..l : m.sockets[i] = n.sockets[i]
  BY <1>1, <1>2, <1>3, AppendProperties
<1>5. /\ g \in WsClients /\ g.needs = (k.needs \/ force) /\ ~g.intentional /\ g.state = "opening" /\ g.socket = l + 1
      /\ ~g.timer /\ ~g.waiting
  <2>1. l + 1 \in Nat /\ k.needs \in BOOLEAN
    BY <1>1 DEF WsClients
  <2> DEFINE needs == k.needs \/ force
  <2>2. needs \in BOOLEAN /\ (needs = TRUE <=> k.needs \/ force)
    BY <2>1
  <2>3. g = [k EXCEPT !.needs = needs, !.intentional = FALSE, !.state = "opening", !.socket = l + 1]
    BY DEF Needed, Connecting
  <2> HIDE DEF l, k, g, needs
  <2>4. g \in WsClients /\ g.needs = needs /\ ~g.intentional /\ g.state = "opening" /\ g.socket = l + 1
        /\ g.timer = k.timer /\ g.waiting = k.waiting
    BY <1>1, <2>1, <2>2, <2>3 DEF WsClients
  <2> QED
    BY <2>4 DEF k, needs
<1> HIDE DEF g
<1>6. f = g
  BY <1>1, <1>3
<1>7. /\ m.clients \in Seq(WsClients) /\ Len(m.clients) = Len(n.clients)
      /\ \A d \in 1..Len(n.clients) : d # c => m.clients[d] = n.clients[d]
  <2>1. m.clients = [n.clients EXCEPT ![c] = g]
    BY <1>3
  <2> QED
    BY <1>1, <1>5, <2>1, ExceptSeq
<1>8. OthersParked(m, c) /\ OneInUse(m, l + 1)
  <2>1. OthersParked(m, c)
    BY <1>7 DEF OthersParked
  <2>2. \A j \in 1..Len(m.sockets) : j # l + 1 => j \in 1..l
    BY <1>1, <1>4
  <2> QED
    BY <1>1, <1>4, <2>1, <2>2 DEF OneInUse
<1>9. \A i \in 1..Len(m.sockets) : Heard(m.sockets[i])
  <2>1. \A i \in 1..Len(m.sockets) : i \in 1..l \/ i = l + 1
    BY <1>1, <1>4
  <2> QED
    BY <1>2, <1>4, <2>1
<1>10. InUse(m.sockets[l + 1], f, p, a)
  <2>1. /\ NewSocket(c).client = c /\ NewSocket(c).phase = "connecting" /\ NewSocket(c).hello = "unsent"
    BY DEF NewSocket
  <2>2. f.state = "opening"
    BY <1>5, <1>6
  <2> QED
    BY <1>2, <1>4, <2>1, <2>2 DEF InUse
<1>11. Holds(f, m.sockets, p, a)
  <2>1. l + 1 \in 0..Len(m.sockets) /\ l + 1 # 0
    BY <1>1, <1>4
  <2> HIDE DEF f
  <2> QED
    BY <1>5, <1>6, <1>10, <2>1 DEF Holds
<1>12. NetTyped(m)
  <2>1. \A i \in 1..Len(m.sockets) : i \in 1..l \/ i = l + 1
    BY <1>1, <1>4
  <2>2. NewSocket(c).client = c
    BY DEF NewSocket
  <2> QED
    BY <1>4, <1>7, <2>1, <2>2 DEF NetTyped
<1>13. ConnInv(m, p, a)
  BY <1>1, <1>5, <1>6, <1>8, <1>9, <1>11, <1>12 DEF ConnInv
<1> QED
  BY <1>7, <1>13 DEF m

\* The session's client lets go of what it has.
LEMMA Disconnects ==
  ASSUME NEW n, NEW p \in Sessions, NEW a, ConnInv(n, p, a), p.client \in 1..Len(n.clients)
  PROVE  LET m == Disconnected(n, p.client) IN
         /\ NetTyped(m) /\ \A i \in 1..Len(m.sockets) : Heard(m.sockets[i])
         /\ Len(m.clients) = Len(n.clients) /\ Len(m.sockets) = Len(n.sockets)
         /\ OthersParked(m, 0) /\ OneInUse(m, 0)
         /\ m.clients[p.client].needs = n.clients[p.client].needs
         /\ m.clients[p.client].waiting = n.clients[p.client].waiting
<1> DEFINE c == p.client
           k == n.clients[c]
           m == Disconnected(n, c)
           g == [Quieted(k) EXCEPT !.intentional = TRUE, !.socket = 0, !.state = "closed"]
           down(i) == IF i = k.socket THEN ShutDown(n.sockets[i]) ELSE n.sockets[i]
<1>1. /\ n.clients \in Seq(WsClients) /\ n.sockets \in Seq(WebSockets) /\ Len(n.sockets) \in Nat
      /\ Len(n.clients) \in Nat /\ DOMAIN n.sockets = 1..Len(n.sockets)
      /\ k \in WsClients /\ c \in Nat /\ c # 0 /\ c \in 1..Len(n.clients)
  BY DEF ConnInv, NetTyped
<1>2. m = [clients |-> [n.clients EXCEPT ![c] = g], sockets |-> [i \in 1..Len(n.sockets) |-> down(i)]]
  BY <1>1 DEF Disconnected
<1>3. /\ g \in WsClients /\ Parked(g) /\ g.needs = k.needs /\ g.waiting = k.waiting
  <2> HIDE DEF k
  <2> QED
    BY <1>1 DEF WsClients, Quieted, Parked
<1>4. \A i \in 1..Len(n.sockets) : down(i) \in WebSockets /\ down(i).client = n.sockets[i].client
                                   /\ down(i).inbox = n.sockets[i].inbox /\ down(i).hello = n.sockets[i].hello
                                   /\ (i = k.socket => down(i).phase \in {"closing", "closed"})
                                   /\ (i # k.socket => down(i).phase = n.sockets[i].phase)
  <2>1. ASSUME NEW i \in 1..Len(n.sockets) PROVE n.sockets[i] \in WebSockets
    BY <1>1
  <2>2. ASSUME NEW s \in WebSockets
        PROVE  ShutDown(s) \in WebSockets /\ ShutDown(s).client = s.client /\ ShutDown(s).inbox = s.inbox
               /\ ShutDown(s).hello = s.hello /\ ShutDown(s).phase \in {"closing", "closed"}
    BY DEF WebSockets, ShutDown
  <2> HIDE DEF k
  <2> QED
    BY <2>1, <2>2
<1> HIDE DEF m, g, down
<1>5. /\ m.clients \in Seq(WsClients) /\ Len(m.clients) = Len(n.clients) /\ m.clients[c] = g
      /\ \A d \in 1..Len(n.clients) : d # c => m.clients[d] = n.clients[d]
  BY <1>1, <1>2, <1>3, ExceptSeq
<1>6. /\ m.sockets \in Seq(WebSockets) /\ Len(m.sockets) = Len(n.sockets)
      /\ \A i \in 1..Len(n.sockets) : m.sockets[i] = down(i)
  <2>1. m.sockets = [i \in 1..Len(n.sockets) |-> down(i)]
    BY <1>2
  <2> QED
    BY <1>1, <1>4, <2>1
<1>7. OthersParked(m, 0)
  BY <1>3, <1>5 DEF OthersParked, ConnInv
<1>8. OneInUse(m, 0)
  BY <1>1, <1>4, <1>6 DEF OneInUse, ConnInv
<1>9. NetTyped(m)
  BY <1>4, <1>5, <1>6 DEF NetTyped, ConnInv
<1>10. \A i \in 1..Len(m.sockets) : Heard(m.sockets[i])
  BY <1>4, <1>6 DEF Heard, ConnInv
<1> QED
  BY <1>3, <1>5, <1>6, <1>7, <1>8, <1>9, <1>10 DEF m, c, k

\* What the state is made of.
LEMMA ConnectionFacts ==
  ASSUME ConnectionInv
  PROVE  /\ clients \in Seq(WsClients) /\ sockets \in Seq(WebSockets)
         /\ Len(clients) \in Nat /\ Len(sockets) \in Nat
         /\ DOMAIN clients = 1..Len(clients) /\ DOMAIN sockets = 1..Len(sockets)
         /\ page \in Sessions /\ auth \in Accounts /\ page.client \in 0..Len(clients)
         /\ \A i \in DOMAIN sockets : /\ sockets[i].client \in 1..Len(clients) /\ sockets[i] \in WebSockets
                                      /\ Heard(sockets[i])
                                      /\ sockets[i].inbox \in Seq(Message)
         /\ \A c \in DOMAIN clients : clients[c] \in WsClients
         /\ \A c \in DOMAIN clients : c # page.client => Parked(clients[c])
         /\ page.client # 0 => Holds(clients[page.client], sockets, page, auth)
         /\ auth.ready # "yes" => Len(sockets) = 0
<1>1. Net.clients = clients /\ Net.sockets = sockets
  BY DEF Net
<1>2. NetTyped(Net) /\ ConnInv(Net, page, auth)
  BY DEF ConnectionInv, ConnInv
<1>3. clients \in Seq(WsClients) /\ sockets \in Seq(WebSockets)
  BY <1>1, <1>2 DEF NetTyped
<1>4. /\ Len(clients) \in Nat /\ Len(sockets) \in Nat
      /\ DOMAIN clients = 1..Len(clients) /\ DOMAIN sockets = 1..Len(sockets)
  BY <1>3
<1>5. \A i \in DOMAIN sockets : sockets[i].client \in 1..Len(clients) /\ Heard(sockets[i])
  BY <1>1, <1>2, <1>4 DEF NetTyped, ConnInv
<1>6. \A i \in DOMAIN sockets : sockets[i] \in WebSockets
  BY <1>3
<1>7. \A s \in WebSockets : s.inbox \in Seq(Message)
  BY DEF WebSockets
<1>8. \A c \in DOMAIN clients : c # page.client => Parked(clients[c])
  BY <1>1, <1>2, <1>4 DEF ConnInv, OthersParked
<1>9. page.client # 0 => Holds(clients[page.client], sockets, page, auth)
  BY <1>1, <1>2 DEF ConnInv
<1> QED
  BY <1>1, <1>2, <1>3, <1>4, <1>5, <1>6, <1>7, <1>8, <1>9 DEF ConnectionInv, ConnInv

\* A socket speaks for the session if it is the one its client has.
LEMMA WhoseSocket ==
  ASSUME ConnectionInv, NEW i \in DOMAIN sockets
  PROVE  /\ Current(i) <=> page.client # 0 /\ i = clients[page.client].socket
         /\ Current(i) => /\ Owner(i) = page.client /\ page.client \in DOMAIN clients
                          /\ InUse(sockets[i], clients[page.client], page, auth)
         /\ ~Current(i) => sockets[i].phase \in {"closing", "closed"}
<1>1. i \in 1..Len(sockets) /\ i # 0 /\ Owner(i) \in DOMAIN clients /\ sockets[i].client = Owner(i)
  BY ConnectionFacts DEF Owner
<1>2. page.client # 0 => page.client \in DOMAIN clients
  BY ConnectionFacts
<1>3. Current(i) => Owner(i) = page.client /\ page.client # 0
  <2>1. Owner(i) # 0
    BY <1>1, ConnectionFacts
  <2> QED
    BY <1>1, <2>1, ConnectionFacts DEF Current, Parked
<1>4. page.client # 0 /\ i = clients[page.client].socket => InUse(sockets[i], clients[page.client], page, auth)
  BY <1>1, ConnectionFacts DEF Holds
<1>5. page.client # 0 /\ i = clients[page.client].socket => Owner(i) = page.client
  BY <1>1, <1>4 DEF InUse
<1>6. Current(i) <=> page.client # 0 /\ i = clients[page.client].socket
  BY <1>3, <1>5 DEF Current
<1>7. ~Current(i) => sockets[i].phase \in {"closing", "closed"}
  BY <1>1, <1>6 DEF ConnectionInv, ConnInv, OneInUse, Net
<1> QED
  BY <1>2, <1>3, <1>4, <1>6, <1>7

\* A step of the session's client alone, of its socket with it, and of a socket that is nobody's.
LEMMA ClientMoves ==
  ASSUME ConnectionInv, page.client # 0, NEW k \in WsClients, k.socket = clients[page.client].socket,
         NEW q, q.client = page.client, Holds(k, sockets, q, auth)
  PROVE  ConnInv([clients |-> [clients EXCEPT ![page.client] = k], sockets |-> sockets], q, auth)
<1> DEFINE c == page.client
           cs == [clients EXCEPT ![c] = k]
           n == [clients |-> cs, sockets |-> sockets]
<1>1. c \in 1..Len(clients) /\ clients \in Seq(WsClients)
  BY ConnectionFacts
<1>2. cs \in Seq(WsClients) /\ Len(cs) = Len(clients) /\ cs[c] = k /\ \A d \in 1..Len(clients) : d # c => cs[d] = clients[d]
  BY <1>1, ExceptSeq
<1> HIDE DEF cs
<1>3. n.clients = cs /\ n.sockets = sockets /\ Net.clients = clients /\ Net.sockets = sockets
  BY DEF Net
<1> HIDE DEF n
<1>4. NetTyped(n)
  BY <1>2, <1>3, ConnectionFacts DEF NetTyped
<1>5. OthersParked(n, c)
  BY <1>2, <1>3, ConnectionFacts DEF OthersParked
<1>6. OneInUse(n, k.socket)
  BY <1>3 DEF OneInUse, ConnectionInv, ConnInv
<1>7. /\ (IF q.client = 0 THEN 0 ELSE n.clients[q.client].socket) = k.socket
      /\ Holds(n.clients[q.client], n.sockets, q, auth)
      /\ \A i \in 1..Len(n.sockets) : Heard(n.sockets[i])
      /\ auth.ready # "yes" => Len(n.sockets) = 0
  BY <1>2, <1>3, ConnectionFacts
<1>8. ConnInv(n, q, auth)
  BY <1>4, <1>5, <1>6, <1>7, Zenon DEF ConnInv
<1> QED
  BY <1>8 DEF n, cs

LEMMA SocketMoves ==
  ASSUME ConnectionInv, page.client # 0, NEW k \in WsClients, NEW i \in DOMAIN sockets, Current(i),
         NEW s \in WebSockets, s.client = page.client, Heard(s),
         k.socket = i \/ (k.socket = 0 /\ s.phase \in {"closing", "closed"}),
         NEW q, q.client = page.client, Holds(k, [sockets EXCEPT ![i] = s], q, auth)
  PROVE  ConnInv([clients |-> [clients EXCEPT ![page.client] = k], sockets |-> [sockets EXCEPT ![i] = s]], q, auth)
<1> DEFINE c == page.client
           cs == [clients EXCEPT ![c] = k]
           ss == [sockets EXCEPT ![i] = s]
           n == [clients |-> cs, sockets |-> ss]
<1>1. /\ c \in 1..Len(clients) /\ clients \in Seq(WsClients) /\ i = clients[c].socket
      /\ i \in 1..Len(sockets) /\ sockets \in Seq(WebSockets)
  BY ConnectionFacts, WhoseSocket
<1>2. cs \in Seq(WsClients) /\ Len(cs) = Len(clients) /\ cs[c] = k /\ \A d \in 1..Len(clients) : d # c => cs[d] = clients[d]
  BY <1>1, ExceptSeq
<1>3. ss \in Seq(WebSockets) /\ Len(ss) = Len(sockets) /\ ss[i] = s /\ \A j \in 1..Len(sockets) : j # i => ss[j] = sockets[j]
  BY <1>1, ExceptSeq
<1> HIDE DEF cs, ss
<1>4. n.clients = cs /\ n.sockets = ss /\ Net.clients = clients /\ Net.sockets = sockets
  BY DEF Net
<1> HIDE DEF n
<1>5. NetTyped(n)
  BY <1>1, <1>2, <1>3, <1>4, ConnectionFacts DEF NetTyped
<1>6. OthersParked(n, c)
  BY <1>2, <1>4, ConnectionFacts DEF OthersParked
<1>7. OneInUse(n, k.socket)
  BY <1>1, <1>3, <1>4 DEF OneInUse, ConnectionInv, ConnInv
<1>8. /\ (IF q.client = 0 THEN 0 ELSE n.clients[q.client].socket) = k.socket
      /\ \A j \in 1..Len(n.sockets) : Heard(n.sockets[j])
      /\ auth.ready # "yes" => Len(n.sockets) = 0
  BY <1>2, <1>3, <1>4, ConnectionFacts
<1>9. Holds(n.clients[q.client], n.sockets, q, auth)
  BY <1>2, <1>4 DEF ss
<1>10. ConnInv(n, q, auth)
  BY <1>5, <1>6, <1>7, <1>8, <1>9, Zenon DEF ConnInv
<1> QED
  BY <1>10 DEF n, cs, ss

LEMMA StrayMoves ==
  ASSUME ConnectionInv, NEW i \in DOMAIN sockets, ~Current(i),
         NEW s \in WebSockets, s.client = sockets[i].client, Heard(s), s.phase \in {"closing", "closed"}
  PROVE  ConnInv([clients |-> clients, sockets |-> [sockets EXCEPT ![i] = s]], page, auth)
<1> DEFINE ss == [sockets EXCEPT ![i] = s]
           n == [clients |-> clients, sockets |-> ss]
           at == IF page.client = 0 THEN 0 ELSE clients[page.client].socket
<1>1. i \in 1..Len(sockets) /\ sockets \in Seq(WebSockets) /\ i # at
  BY ConnectionFacts, WhoseSocket
<1>2. ss \in Seq(WebSockets) /\ Len(ss) = Len(sockets) /\ ss[i] = s /\ \A j \in 1..Len(sockets) : j # i => ss[j] = sockets[j]
  BY <1>1, ExceptSeq
<1> HIDE DEF ss
<1>3. n.clients = clients /\ n.sockets = ss /\ Net.clients = clients /\ Net.sockets = sockets
  BY DEF Net
<1> HIDE DEF n
<1>4. NetTyped(n)
  BY <1>1, <1>2, <1>3, ConnectionFacts DEF NetTyped
<1>5. OthersParked(n, page.client)
  BY <1>3, ConnectionFacts DEF OthersParked
<1>6. OneInUse(n, at)
  BY <1>1, <1>2, <1>3 DEF OneInUse, ConnectionInv, ConnInv
<1>7. page.client # 0 => Holds(clients[page.client], ss, page, auth)
  <2>1. page.client # 0 => clients[page.client].socket # i
    BY <1>1
  <2> QED
    BY <1>1, <1>2, <2>1, ConnectionFacts DEF Holds
<1>8. /\ (IF page.client = 0 THEN 0 ELSE n.clients[page.client].socket) = at
      /\ page.client # 0 => Holds(n.clients[page.client], n.sockets, page, auth)
      /\ \A j \in 1..Len(n.sockets) : Heard(n.sockets[j])
      /\ auth.ready # "yes" => Len(n.sockets) = 0
  BY <1>2, <1>3, <1>7, ConnectionFacts
<1>9. ConnInv(n, page, auth)
  BY <1>4, <1>5, <1>6, <1>8, Zenon DEF ConnInv
<1> QED
  BY <1>9 DEF n, ss

-----------------------------------------------------------------------------
(* The steps *)

\* What a session that is given up, or was none, leaves.
LetGo == IF page.client = 0 THEN Net ELSE Disconnected(Net, page.client)

LEMMA LetGoIsDown ==
  ASSUME ConnectionInv
  PROVE  /\ LetGo = [clients |-> LetGo.clients, sockets |-> LetGo.sockets]
         /\ NetTyped(LetGo) /\ \A i \in 1..Len(LetGo.sockets) : Heard(LetGo.sockets[i])
         /\ Len(LetGo.clients) = Len(clients) /\ Len(LetGo.sockets) = Len(sockets)
         /\ OthersParked(LetGo, 0) /\ OneInUse(LetGo, 0)
<1>1. ConnInv(Net, page, auth) /\ Net.clients = clients /\ Net.sockets = sockets /\ page \in Sessions
  BY DEF ConnectionInv, Net
<1>2. CASE page.client = 0
  BY <1>1, <1>2 DEF LetGo, ConnInv, Net
<1>3. CASE page.client # 0
  <2>1. page.client \in 1..Len(Net.clients)
    BY <1>1, <1>3, ConnectionFacts
  <2>2. LetGo = Disconnected(Net, page.client)
    BY <1>3 DEF LetGo
  <2>3. LetGo = [clients |-> LetGo.clients, sockets |-> LetGo.sockets]
    BY <2>2 DEF Disconnected
  <2> QED
    BY <1>1, <2>1, <2>2, <2>3, Disconnects
<1> QED
  BY <1>2, <1>3

LEMMA ConnectToSessionKeeps ==
  ASSUME ConnectionInv, NEW r \in RoomId, NEW force \in BOOLEAN, ConnectToSession(r, force)
  PROVE  ConnectionInv'
<1> DEFINE k == NewClient(r)
           m == [clients |-> Append(LetGo.clients, k), sockets |-> LetGo.sockets]
           c == Len(clients) + 1
           q == [client |-> c, room |-> r, loading |-> TRUE, fatal |-> FALSE, filled |-> FALSE]
<1>1. LetGo.clients \in Seq(WsClients) /\ LetGo.sockets \in Seq(WebSockets) /\ Len(clients) \in Nat /\ c # 0 /\ c \in Nat
  BY LetGoIsDown, ConnectionFacts DEF NetTyped
<1>2. /\ k \in WsClients /\ k.socket = 0 /\ k.state = "closed" /\ ~k.timer /\ k.waiting /\ ~k.intentional
  BY DEF NewClient, WsClients
<1>3. page' = q /\ clients' = m.clients /\ sockets' = m.sockets /\ UNCHANGED <<auth, persisted, asked>>
  BY LetGoIsDown DEF ConnectToSession, LetGo, NetBecomes
<1> HIDE DEF k
<1>4. /\ m.clients \in Seq(WsClients) /\ Len(m.clients) = c /\ m.clients[c] = k
      /\ \A d \in 1..Len(clients) : m.clients[d] = LetGo.clients[d]
  BY <1>1, <1>2, LetGoIsDown, AppendProperties
<1> HIDE DEF m
<1>5. m.sockets = LetGo.sockets
  BY DEF m
<1>6. NetTyped(m)
  <2>1. \A d \in 1..Len(clients) : d \in 1..Len(m.clients)
    BY <1>1, <1>4
  <2> QED
    BY <1>1, <1>4, <1>5, <2>1, LetGoIsDown DEF NetTyped
<1>7. OthersParked(m, c)
  <2>1. \A d \in 1..Len(m.clients) : d # c => d \in 1..Len(clients) /\ d # 0
    BY <1>1, <1>4
  <2> QED
    BY <1>4, <2>1, LetGoIsDown DEF OthersParked
<1>8. OneInUse(m, 0) /\ \A i \in 1..Len(m.sockets) : Heard(m.sockets[i])
  BY <1>5, LetGoIsDown DEF OneInUse
<1>9. auth.ready # "yes" => Len(m.sockets) = 0
  BY <1>5, LetGoIsDown, ConnectionFacts
<1>10. q \in Sessions /\ q.client = c
  BY <1>1 DEF Sessions
<1> HIDE DEF q, c
<1>11. Holds(k, m.sockets, q, auth)
  <2>1. Len(m.sockets) \in Nat
    BY <1>5, LetGoIsDown, ConnectionFacts
  <2> QED
    BY <1>2, <2>1 DEF Holds
<1>12. ConnInv(m, q, auth)
  BY <1>1, <1>2, <1>4, <1>6, <1>7, <1>8, <1>9, <1>10, <1>11 DEF ConnInv
<1>13. Net' = m
  BY <1>3 DEF Net, m
<1>14. page'.client \in 0..Len(clients')
  BY <1>1, <1>3, <1>4, <1>10 DEF c
<1> QED
  BY <1>3, <1>10, <1>12, <1>13, <1>14 DEF ConnectionInv

LEMMA LeaveKeeps == ConnectionInv /\ Leave => ConnectionInv'
<1> SUFFICES ASSUME ConnectionInv, Leave PROVE ConnectionInv'
  OBVIOUS
<1>1. /\ page' = NoSession /\ Net' = LetGo /\ clients' = LetGo.clients /\ UNCHANGED <<auth, persisted, asked>>
  BY LetGoIsDown DEF Leave, LetGo, NetBecomes, Net
<1>2. NoSession \in Sessions /\ NoSession.client = 0
  BY DEF NoSession, Sessions
<1>3. 0 \in 0..Len(clients')
  BY <1>1, LetGoIsDown, ConnectionFacts
<1>4. auth.ready # "yes" => Len(LetGo.sockets) = 0
  BY LetGoIsDown, ConnectionFacts
<1>5. ConnInv(LetGo, NoSession, auth)
  BY <1>2, <1>4, LetGoIsDown DEF ConnInv
<1> QED
  BY <1>1, <1>2, <1>3, <1>5 DEF ConnectionInv

LEMMA AuthAnswersKeeps ==
  ASSUME ConnectionInv, NEW u \in Account, NEW ok \in BOOLEAN, AuthAnswers(u, ok)
  PROVE  ConnectionInv'
<1>1. auth.ready = "no" /\ Len(sockets) = 0 /\ UNCHANGED <<clients, sockets, persisted, page, asked>> /\ Net' = Net
  BY ConnectionFacts DEF AuthAnswers, Net
<1>2. auth' \in Accounts
  BY <1>1, ConnectionFacts DEF AuthAnswers, Accounts
<1>3. page.client # 0 => Holds(clients[page.client], sockets, page, auth')
  <2>1. \A k : Holds(k, sockets, page, auth) => Holds(k, sockets, page, auth')
    <3> SUFFICES ASSUME NEW k, Holds(k, sockets, page, auth) PROVE Holds(k, sockets, page, auth')
      OBVIOUS
    <3>1. k.socket = 0
      BY <1>1 DEF Holds
    <3> QED
      BY <1>1, <3>1 DEF Holds
  <2> QED
    BY <2>1, ConnectionFacts
<1>4. ConnInv(Net, page, auth')
  BY <1>1, <1>3 DEF ConnectionInv, ConnInv, Net
<1> QED
  BY <1>1, <1>2, <1>4 DEF ConnectionInv

\* The account changes: what is connected connects again, as the other one.
LEMMA FlipKeeps ==
  ASSUME ConnectionInv, NEW u \in Account, Flip(u)
  PROVE  ConnectionInv'
<1> DEFINE c == page.client
           n == Disconnected(Net, c)
           a == [auth EXCEPT !.user = u, !.flips = @ + 1]
<1>1. auth.ready = "yes" /\ auth' = a /\ UNCHANGED <<persisted, page, asked>>
  BY DEF Flip
<1>2. a \in Accounts /\ a.ready = "yes"
  <2>1. auth \in Accounts
    BY ConnectionFacts
  <2>2. auth.flips + 1 \in Nat
    BY <2>1 DEF Accounts
  <2> DEFINE flips == auth.flips + 1
  <2> HIDE DEF flips
  <2>3. [auth EXCEPT !.user = u, !.flips = flips] \in Accounts
        /\ [auth EXCEPT !.user = u, !.flips = flips].ready = auth.ready
    BY <2>1, <2>2 DEF Accounts, flips
  <2> QED
    BY <1>1, <2>3 DEF flips
<1> HIDE DEF a
<1>3. CASE Reconnects(c)
  <2>1. c \in DOMAIN clients /\ c # 0 /\ clients[c].state # "closed" /\ c \in 1..Len(Net.clients)
    BY <1>3, ConnectionFacts DEF Reconnects, Net
  <2>2. ~clients[c].waiting /\ (clients[c].needs \/ page.filled)
    BY <2>1, ConnectionFacts DEF Holds
  <2>3. Net' = Connected(n, c, FALSE) /\ Net.clients[c] = clients[c]
    BY <1>3 DEF Flip, NetBecomes, Net, Connected, Disconnected
  <2>4. /\ NetTyped(n) /\ (\A i \in 1..Len(n.sockets) : Heard(n.sockets[i]))
        /\ Len(n.clients) = Len(clients) /\ OthersParked(n, 0) /\ OneInUse(n, 0)
        /\ n.clients[c].needs = clients[c].needs /\ n.clients[c].waiting = clients[c].waiting
    BY <2>1, Disconnects DEF ConnectionInv, Net
  <2> HIDE DEF n
  <2>5. c \in 1..Len(n.clients) /\ page \in Sessions
    BY <2>1, <2>4, ConnectionFacts
  <2>6. OthersParked(n, c) /\ n.clients[c].socket = 0 /\ ~n.clients[c].timer
    <3>1. \A d \in 1..Len(n.clients) : Parked(n.clients[d])
      BY <2>4 DEF OthersParked
    <3> QED
      BY <2>5, <3>1 DEF OthersParked, Parked
  <2>7. ConnInv(Connected(n, c, FALSE), page, a) /\ Len(Connected(n, c, FALSE).clients) = Len(n.clients)
    BY <1>2, <2>2, <2>4, <2>5, <2>6, Connects
  <2>8. page.client \in 0..Len(clients')
    <3>1. clients' = Net'.clients
      BY DEF Net
    <3> QED
      BY <2>3, <2>4, <2>7, <3>1, ConnectionFacts
  <2> QED
    BY <1>1, <1>2, <2>3, <2>7, <2>8 DEF ConnectionInv
<1>4. CASE ~Reconnects(c)
  <2>1. UNCHANGED <<clients, sockets>> /\ Net' = Net
    BY <1>4 DEF Flip, Net
  <2>2. c # 0 => clients[c].state = "closed"
    BY <1>4 DEF Reconnects
  <2>3. c # 0 => Holds(clients[c], sockets, page, a)
    BY <1>1, <1>2, <2>2, ConnectionFacts DEF Holds
  <2>4. ConnInv(Net, page, a)
    BY <1>2, <2>3 DEF ConnectionInv, ConnInv, Net
  <2> QED
    BY <1>1, <1>2, <2>1, <2>4 DEF ConnectionInv
<1> QED
  BY <1>3, <1>4

\* The same state of the session, but for one client's own record.
LEMMA OneChanges ==
  ASSUME ConnectionInv, NEW c \in DOMAIN clients, NEW k \in WsClients
  PROVE  LET n == [clients |-> [clients EXCEPT ![c] = k], sockets |-> sockets] IN
         /\ n.clients[c] = k /\ Len(n.clients) = Len(clients)
         /\ NetTyped(n) /\ \A i \in 1..Len(n.sockets) : Heard(n.sockets[i])
         /\ OthersParked(n, page.client) \/ (c # page.client /\ ~Parked(k))
         /\ clients[c].socket = 0 /\ c = page.client => OneInUse(n, 0)
<1> DEFINE cs == [clients EXCEPT ![c] = k]
           n == [clients |-> cs, sockets |-> sockets]
<1>1. clients \in Seq(WsClients) /\ c \in 1..Len(clients)
  BY ConnectionFacts
<1>2. cs \in Seq(WsClients) /\ Len(cs) = Len(clients) /\ cs[c] = k /\ \A d \in 1..Len(clients) : d # c => cs[d] = clients[d]
  BY <1>1, ExceptSeq
<1> HIDE DEF cs
<1>3. n.clients = cs /\ n.sockets = sockets /\ Net.clients = clients /\ Net.sockets = sockets
  BY DEF Net
<1> HIDE DEF n
<1>4. NetTyped(n)
  BY <1>2, <1>3, ConnectionFacts DEF NetTyped
<1>5. OthersParked(n, page.client) \/ (c # page.client /\ ~Parked(k))
  BY <1>2, <1>3, ConnectionFacts DEF OthersParked
<1>6. clients[c].socket = 0 /\ c = page.client => OneInUse(n, 0)
  BY <1>1, <1>3, ConnectionFacts DEF OneInUse, ConnectionInv, ConnInv
<1> QED
  BY <1>2, <1>3, <1>4, <1>5, <1>6, ConnectionFacts DEF n, cs

LEMMA ReadyReachesKeeps ==
  ASSUME ConnectionInv, NEW c \in DOMAIN clients, ReadyReaches(c)
  PROVE  ConnectionInv'
<1> DEFINE k == [clients[c] EXCEPT !.waiting = FALSE]
           n == [clients |-> [clients EXCEPT ![c] = k], sockets |-> sockets]
<1>1. /\ auth.ready = "yes" /\ clients[c].waiting /\ UNCHANGED <<auth, persisted, page, asked>>
      /\ Net' = IF page.client = c THEN Connected(n, c, TRUE) ELSE n
  BY DEF ReadyReaches, NetBecomes, Net, StillOurs, Connected
<1>2. /\ k \in WsClients /\ ~k.waiting /\ k.socket = clients[c].socket /\ k.state = clients[c].state
      /\ k.timer = clients[c].timer
  BY ConnectionFacts DEF WsClients
<1> HIDE DEF k
<1>3. /\ n.clients[c] = k /\ Len(n.clients) = Len(clients) /\ n.sockets = sockets
      /\ NetTyped(n) /\ \A i \in 1..Len(n.sockets) : Heard(n.sockets[i])
      /\ OthersParked(n, page.client) \/ (c # page.client /\ ~Parked(k))
      /\ clients[c].socket = 0 /\ c = page.client => OneInUse(n, 0)
  BY <1>2, OneChanges
<1>4. c \in 1..Len(clients) /\ c # 0
  BY ConnectionFacts
<1>5. CASE page.client = c
  <2>1. clients[c].socket = 0 /\ ~clients[c].timer
    BY <1>1, <1>4, <1>5, ConnectionFacts DEF Holds
  <2>2. ConnInv(Connected(n, c, TRUE), page, auth) /\ Len(Connected(n, c, TRUE).clients) = Len(n.clients)
    <3> HIDE DEF n
    <3>1. /\ c \in 1..Len(n.clients) /\ OthersParked(n, c) /\ OneInUse(n, 0) /\ page.client = c
          /\ page \in Sessions /\ auth \in Accounts
      BY <1>3, <1>4, <1>5, <2>1, ConnectionFacts
    <3>2. n.clients[c].socket = 0 /\ ~n.clients[c].timer /\ ~n.clients[c].waiting
      BY <1>2, <1>3, <2>1
    <3> QED
      BY <1>1, <1>3, <3>1, <3>2, Connects
  <2>3. Net' = Connected(n, c, TRUE) /\ clients' = Net'.clients
    BY <1>1, <1>5 DEF Net
  <2> QED
    BY <1>1, <1>3, <2>2, <2>3 DEF ConnectionInv
<1>6. CASE page.client # c
  <2>1. Parked(k)
    BY <1>2, <1>6, ConnectionFacts DEF Parked
  <2>2. page.client # 0 => n.clients[page.client] = clients[page.client]
    BY <1>4, <1>6, ConnectionFacts
  <2>3. OneInUse(n, IF page.client = 0 THEN 0 ELSE n.clients[page.client].socket)
    BY <1>3, <2>2 DEF OneInUse, ConnectionInv, ConnInv, Net
  <2>4. page.client # 0 => Holds(n.clients[page.client], n.sockets, page, auth)
    BY <1>3, <2>2, ConnectionFacts
  <2>5. Net' = n /\ clients' = n.clients
    BY <1>1, <1>6 DEF Net
  <2> HIDE DEF n
  <2>6. ConnInv(n, page, auth)
    BY <1>1, <1>3, <2>1, <2>3, <2>4 DEF ConnInv
  <2> QED
    BY <1>1, <1>3, <2>5, <2>6 DEF ConnectionInv
<1> QED
  BY <1>5, <1>6

LEMMA RetryKeeps ==
  ASSUME ConnectionInv, NEW c \in DOMAIN clients, Retry(c)
  PROVE  ConnectionInv'
<1> DEFINE k == [clients[c] EXCEPT !.timer = FALSE]
           n == [clients |-> [clients EXCEPT ![c] = k], sockets |-> sockets]
<1>1. /\ clients[c].timer /\ UNCHANGED <<auth, persisted, page, asked>>
      /\ Net' = Connected(n, c, FALSE)
  BY DEF Retry, NetBecomes, Net, Connected
<1>2. c \in 1..Len(clients) /\ c = page.client /\ c # 0
  BY <1>1, ConnectionFacts DEF Parked
<1>3. /\ auth.ready = "yes" /\ clients[c].socket = 0 /\ ~clients[c].waiting /\ (clients[c].needs \/ page.filled)
  BY <1>1, <1>2, ConnectionFacts DEF Holds
<1>4. /\ k \in WsClients /\ ~k.timer /\ k.socket = 0 /\ ~k.waiting /\ k.needs = clients[c].needs
  BY <1>3, ConnectionFacts DEF WsClients
<1> HIDE DEF k
<1>5. /\ n.clients[c] = k /\ Len(n.clients) = Len(clients)
      /\ NetTyped(n) /\ \A i \in 1..Len(n.sockets) : Heard(n.sockets[i])
      /\ OthersParked(n, page.client) \/ (c # page.client /\ ~Parked(k))
      /\ clients[c].socket = 0 /\ c = page.client => OneInUse(n, 0)
  BY <1>4, OneChanges
<1> HIDE DEF n
<1>6. ConnInv(Connected(n, c, FALSE), page, auth) /\ Len(Connected(n, c, FALSE).clients) = Len(n.clients)
  <2>1. /\ c \in 1..Len(n.clients) /\ OthersParked(n, c) /\ OneInUse(n, 0) /\ page.client = c
        /\ page \in Sessions /\ auth \in Accounts
    BY <1>2, <1>3, <1>5, ConnectionFacts
  <2>2. /\ n.clients[c].socket = 0 /\ ~n.clients[c].timer /\ ~n.clients[c].waiting
        /\ n.clients[c].needs \/ page.filled
    BY <1>3, <1>4, <1>5
  <2> QED
    BY <1>3, <1>5, <2>1, <2>2, Connects
<1>7. clients' = Net'.clients
  BY DEF Net
<1> QED
  BY <1>1, <1>5, <1>6, <1>7 DEF ConnectionInv

\* What a step of the session's client, and of its socket, leaves to show.
LEMMA SessionMoves ==
  ASSUME ConnectionInv, UNCHANGED auth, asked' \in Nat, persisted' \in [RoomId -> {"none", "unseen", "seen"}],
         page' \in Sessions, page'.client = page.client, Len(clients') = Len(clients), ConnInv(Net', page', auth)
  PROVE  ConnectionInv'
BY ConnectionFacts DEF ConnectionInv

LEMMA RequireSnapshotKeeps == ConnectionInv /\ RequireSnapshot => ConnectionInv'
<1> SUFFICES ASSUME ConnectionInv, RequireSnapshot PROVE ConnectionInv'
  OBVIOUS
<1> DEFINE c == page.client
           k == [clients[c] EXCEPT !.needs = TRUE]
<1>1. c # 0 /\ clients' = [clients EXCEPT ![c] = k] /\ UNCHANGED <<auth, sockets, persisted, page, asked>>
  BY DEF RequireSnapshot
<1>2. c \in 1..Len(clients) /\ clients[c] \in WsClients /\ Holds(clients[c], sockets, page, auth)
      /\ clients \in Seq(WsClients)
  BY <1>1, ConnectionFacts
<1>3. k \in WsClients /\ k.socket = clients[c].socket /\ k.needs /\ k.waiting = clients[c].waiting
      /\ k.timer = clients[c].timer /\ k.state = clients[c].state /\ k.intentional = clients[c].intentional
  BY <1>2 DEF WsClients
<1> HIDE DEF k
<1>4. Holds(k, sockets, page, auth)
  BY <1>2, <1>3 DEF Holds, InUse
<1>5. ConnInv(Net', page, auth)
  BY <1>1, <1>3, <1>4, ClientMoves DEF Net
<1>6. Len(clients') = Len(clients)
  BY <1>1, <1>2
<1> QED
  BY <1>1, <1>5, <1>6, SessionMoves DEF ConnectionInv

LEMMA ResyncTimeoutKeeps ==
  ASSUME ConnectionInv, NEW c \in DOMAIN clients, ResyncTimeout(c)
  PROVE  ConnectionInv'
<1> DEFINE k == [clients[c] EXCEPT !.resync = FALSE, !.resyncTimer = FALSE]
<1>1. clients' = [clients EXCEPT ![c] = k] /\ UNCHANGED <<auth, sockets, persisted, page, asked>>
  BY DEF ResyncTimeout
<1>2. c \in 1..Len(clients) /\ clients[c] \in WsClients /\ clients \in Seq(WsClients)
  BY ConnectionFacts
<1>3. k \in WsClients /\ k.socket = clients[c].socket /\ k.needs = clients[c].needs /\ k.waiting = clients[c].waiting
      /\ k.timer = clients[c].timer /\ k.state = clients[c].state /\ k.intentional = clients[c].intentional
  BY <1>2 DEF WsClients
<1> HIDE DEF k
<1>4. CASE c = page.client
  <2>1. c # 0 /\ Holds(clients[c], sockets, page, auth)
    BY <1>2, <1>4, ConnectionFacts
  <2>2. Holds(k, sockets, page, auth)
    BY <1>3, <2>1 DEF Holds, InUse
  <2>3. ConnInv(Net', page, auth)
    BY <1>1, <1>3, <1>4, <2>1, <2>2, ClientMoves DEF Net
  <2>4. Len(clients') = Len(clients)
    BY <1>1, <1>2
  <2> QED
    BY <1>1, <2>3, <2>4, SessionMoves DEF ConnectionInv
<1>5. CASE c # page.client
  <2>1. Parked(k)
    BY <1>2, <1>3, <1>5, ConnectionFacts DEF Parked
  <2>2. NetTyped(Net') /\ OthersParked(Net', page.client)
    BY <1>1, <1>3, <1>5, <2>1, OneChanges DEF Net
  <2>3. Net'.clients = clients' /\ Net'.sockets = sockets /\ Net.clients = clients /\ Net.sockets = sockets
    BY <1>1 DEF Net
  <2>4. page.client # 0 => clients'[page.client] = clients[page.client]
    BY <1>1, <1>2, <1>5, ConnectionFacts
  <2>5. ConnInv(Net', page, auth)
    BY <2>2, <2>3, <2>4 DEF ConnectionInv, ConnInv, OneInUse
  <2>6. Len(clients') = Len(clients)
    BY <1>1, <1>2
  <2> QED
    BY <1>1, <2>5, <2>6, SessionMoves DEF ConnectionInv
<1> QED
  BY <1>4, <1>5

LEMMA RequestResyncKeeps ==
  ASSUME ConnectionInv, NEW c \in DOMAIN clients, RequestResync(c)
  PROVE  ConnectionInv'
<1> DEFINE k == [clients[c] EXCEPT !.resync = TRUE, !.resyncTimer = TRUE]
           i == clients[c].socket
           s == [sockets[i] EXCEPT !.hello = "resync"]
           ss == [sockets EXCEPT ![i] = s]
<1>1. /\ clients[c].state = "live" /\ clients' = [clients EXCEPT ![c] = k] /\ sockets' = ss
      /\ asked' = asked + 1 /\ UNCHANGED <<auth, persisted, page>>
  BY DEF RequestResync
<1>2. c \in 1..Len(clients) /\ clients[c] \in WsClients /\ clients \in Seq(WsClients) /\ c # 0
  BY ConnectionFacts
<1>3. c = page.client /\ Holds(clients[c], sockets, page, auth)
  BY <1>1, <1>2, ConnectionFacts DEF Parked
<1>4. i \in DOMAIN sockets /\ i # 0 /\ Current(i) /\ InUse(sockets[i], clients[c], page, auth)
  <2>1. i # 0 /\ i \in 0..Len(sockets) /\ i \in DOMAIN sockets
    BY <1>1, <1>2, <1>3, ConnectionFacts DEF Holds
  <2> QED
    BY <1>2, <1>3, <2>1, WhoseSocket DEF Holds
<1>5. sockets[i] \in WebSockets /\ sockets \in Seq(WebSockets)
  BY <1>4, ConnectionFacts
<1>6. s \in WebSockets /\ s.client = sockets[i].client /\ s.hello = "resync" /\ s.as = sockets[i].as
      /\ s.inbox = sockets[i].inbox /\ s.phase = sockets[i].phase
  BY <1>5 DEF WebSockets
<1>7. k \in WsClients /\ k.socket = i /\ k.needs = clients[c].needs /\ k.waiting = clients[c].waiting
      /\ k.timer = clients[c].timer /\ k.state = clients[c].state /\ k.intentional = clients[c].intentional
  BY <1>2 DEF WsClients
<1> HIDE DEF k, s
<1>8. ss[i] = s /\ Len(ss) = Len(sockets)
  BY <1>4, <1>5
<1>9. s.client = page.client /\ Heard(s)
  BY <1>4, <1>6 DEF InUse, Heard
<1>10. InUse(s, k, page, auth)
  BY <1>1, <1>4, <1>6, <1>7 DEF InUse
<1> HIDE DEF ss
<1>11. Holds(k, ss, page, auth)
  BY <1>3, <1>7, <1>8, <1>10 DEF Holds
<1>12. ConnInv(Net', page, auth)
  BY <1>1, <1>2, <1>3, <1>4, <1>6, <1>7, <1>9, <1>11, SocketMoves DEF Net, ss
<1>13. Len(clients') = Len(clients) /\ asked' \in Nat
  BY <1>1, <1>2 DEF ConnectionInv
<1> QED
  BY <1>1, <1>12, <1>13, SessionMoves DEF ConnectionInv

\* A message taken, and an answer written after what is there.
LEMMA FillsTaken ==
  ASSUME NEW inbox \in Seq(Message), inbox # <<>>, NEW filled \in BOOLEAN, NEW now \in BOOLEAN,
         FillsFirst(inbox, filled), filled \/ Head(inbox) = "snapshot" => now
  PROVE  FillsFirst(Tail(inbox), now) /\ (Head(inbox) = "complete" => filled)
<1>1. /\ Len(inbox) \in Nat /\ Len(inbox) # 0 /\ Len(Tail(inbox)) = Len(inbox) - 1 /\ Head(inbox) = inbox[1]
      /\ \A j \in 1..Len(Tail(inbox)) : Tail(inbox)[j] = inbox[j + 1]
  BY HeadTailProperties
<1>2. ASSUME NEW j \in 1..Len(Tail(inbox)), Tail(inbox)[j] = "complete", ~now
      PROVE  \E l \in 1..Len(Tail(inbox)) : l < j /\ Tail(inbox)[l] = "snapshot"
  <2>1. j + 1 \in 1..Len(inbox) /\ inbox[j + 1] = "complete"
    BY <1>1, <1>2
  <2>2. PICK l \in 1..Len(inbox) : l < j + 1 /\ inbox[l] = "snapshot"
    BY <1>2, <2>1 DEF FillsFirst
  <2>3. l # 1
    BY <1>1, <1>2, <2>2
  <2>4. l - 1 \in 1..Len(Tail(inbox)) /\ l - 1 < j /\ Tail(inbox)[l - 1] = inbox[l - 1 + 1] /\ l - 1 + 1 = l
    BY <1>1, <2>2, <2>3
  <2> QED
    BY <2>2, <2>4
<1>3. FillsFirst(Tail(inbox), now)
  BY <1>2 DEF FillsFirst
<1>4. ASSUME Head(inbox) = "complete" PROVE filled
  <2>1. 1 \in 1..Len(inbox) /\ inbox[1] = "complete" /\ \A l \in 1..Len(inbox) : ~(l < 1)
    BY <1>1, <1>4
  <2> QED
    BY <2>1 DEF FillsFirst
<1> QED
  BY <1>3, <1>4

LEMMA FillsAppended ==
  ASSUME NEW old \in Seq(Message), NEW new \in Seq(Message), NEW filled \in BOOLEAN,
         FillsFirst(old, filled), FillsFirst(new, filled)
  PROVE  FillsFirst(old \o new, filled)
<1> DEFINE both == old \o new
<1>1. /\ Len(old) \in Nat /\ Len(new) \in Nat /\ Len(both) = Len(old) + Len(new)
      /\ \A j \in 1..Len(both) : both[j] = IF j <= Len(old) THEN old[j] ELSE new[j - Len(old)]
  BY ConcatProperties
<1> HIDE DEF both
<1>2. ASSUME NEW j \in 1..Len(both), both[j] = "complete", ~filled
      PROVE  \E l \in 1..Len(both) : l < j /\ both[l] = "snapshot"
  <2>1. CASE j <= Len(old)
    <3>1. j \in 1..Len(old) /\ old[j] = "complete"
      BY <1>1, <1>2, <2>1
    <3>2. PICK l \in 1..Len(old) : l < j /\ old[l] = "snapshot"
      BY <1>2, <3>1 DEF FillsFirst
    <3>3. l \in 1..Len(both) /\ both[l] = old[l]
      BY <1>1, <3>2
    <3> QED
      BY <3>2, <3>3
  <2>2. CASE j > Len(old)
    <3>1. j - Len(old) \in 1..Len(new) /\ new[j - Len(old)] = "complete"
      BY <1>1, <1>2, <2>2
    <3>2. PICK l \in 1..Len(new) : l < j - Len(old) /\ new[l] = "snapshot"
      BY <1>2, <3>1 DEF FillsFirst
    <3>3. /\ l + Len(old) \in 1..Len(both) /\ l + Len(old) < j /\ ~(l + Len(old) <= Len(old))
          /\ l + Len(old) - Len(old) = l
      BY <1>1, <3>2
    <3>4. both[l + Len(old)] = new[l]
      BY <1>1, <3>3
    <3> QED
      BY <3>2, <3>3, <3>4
  <2> QED
    BY <1>1, <2>1, <2>2
<1>3. FillsFirst(both, filled)
  BY <1>2 DEF FillsFirst
<1> QED
  BY <1>3 DEF both

\* The session's client stays as it is.
LEMMA SameClient ==
  ASSUME ConnectionInv
  PROVE  [clients EXCEPT ![page.client] = clients[page.client]] = clients
BY ConnectionFacts

LEMMA OpensKeeps ==
  ASSUME ConnectionInv, NEW i \in DOMAIN sockets, Opens(i)
  PROVE  ConnectionInv'
<1> DEFINE k == clients[page.client]
           s == [sockets[i] EXCEPT !.phase = "open", !.hello = HelloOf(k), !.as = auth.user]
<1>1. sockets[i].phase = "connecting" /\ UNCHANGED <<auth, clients, persisted, page, asked>>
  BY DEF Opens
<1>2. /\ Current(i) /\ Owner(i) = page.client /\ page.client \in DOMAIN clients /\ page.client # 0
      /\ i = k.socket /\ InUse(sockets[i], k, page, auth)
  BY <1>1, WhoseSocket
<1>3. k \in WsClients /\ Holds(k, sockets, page, auth) /\ i # 0 /\ sockets \in Seq(WebSockets)
      /\ sockets[i] \in WebSockets /\ auth \in Accounts /\ i \in 1..Len(sockets) /\ Heard(sockets[i])
  BY <1>2, ConnectionFacts
<1>4. sockets' = [sockets EXCEPT ![i] = s]
  BY <1>2 DEF Opens
<1>5. HelloOf(k) \in {"resume", "fresh"} /\ (HelloOf(k) = "resume" => ~k.needs)
  BY DEF HelloOf
<1>6. /\ s \in WebSockets /\ s.client = sockets[i].client /\ s.phase = "open" /\ s.hello = HelloOf(k)
      /\ s.as = auth.user /\ s.inbox = sockets[i].inbox
  BY <1>3, <1>5 DEF WebSockets, Accounts
<1> DEFINE ss == [sockets EXCEPT ![i] = s]
<1>7. ss[i] = s /\ Len(ss) = Len(sockets)
  BY <1>3
<1> HIDE DEF s, k
<1>8. InUse(s, k, page, auth)
  <2>1. ~k.waiting
    BY <1>2, <1>3 DEF Holds
  <2>2. k.needs \/ page.filled
    BY <1>3, <2>1 DEF Holds
  <2> QED
    BY <1>2, <1>5, <1>6, <2>2 DEF InUse
<1> HIDE DEF ss
<1>9. Holds(k, ss, page, auth)
  BY <1>2, <1>3, <1>7, <1>8 DEF Holds
<1>10. Heard(s) /\ s.client = page.client
  BY <1>2, <1>5, <1>6 DEF Heard, InUse
<1>11. ConnInv([clients |-> [clients EXCEPT ![page.client] = k], sockets |-> ss], page, auth)
  BY <1>2, <1>3, <1>6, <1>9, <1>10, SocketMoves DEF ss
<1>12. ConnInv(Net', page, auth)
  BY <1>1, <1>4, <1>11, SameClient DEF Net, ss, k
<1> QED
  BY <1>1, <1>12, SessionMoves DEF ConnectionInv

LEMMA CloseEventKeeps ==
  ASSUME ConnectionInv, NEW i \in DOMAIN sockets, CloseEvent(i)
  PROVE  ConnectionInv'
<1> DEFINE s == [sockets[i] EXCEPT !.phase = "closed", !.inbox = <<>>]
           ss == [sockets EXCEPT ![i] = s]
<1>1. sockets' = ss /\ UNCHANGED <<auth, persisted, page, asked>>
  BY DEF CloseEvent
<1>2. sockets[i] \in WebSockets /\ sockets \in Seq(WebSockets) /\ i \in 1..Len(sockets) /\ i # 0
  BY ConnectionFacts
<1>3. s \in WebSockets /\ s.client = sockets[i].client /\ s.phase = "closed" /\ Heard(s)
  <2> DEFINE none == <<>>
  <2>1. none \in Seq(Message)
    OBVIOUS
  <2> HIDE DEF none
  <2>2. s = [sockets[i] EXCEPT !.phase = "closed", !.inbox = none]
    BY DEF none
  <2>3. s \in WebSockets /\ s.client = sockets[i].client /\ s.phase = "closed" /\ s.inbox = none
    BY <1>2, <2>1, <2>2 DEF WebSockets
  <2> QED
    BY <2>3 DEF Heard, none
<1> HIDE DEF s
<1>4. Len(ss) = Len(sockets) /\ Len(sockets) \in Nat
  BY <1>2
<1> HIDE DEF ss
<1>5. CASE Current(i)
  <2> DEFINE k == clients[page.client]
             f == Closed(k)
  <2>1. /\ Owner(i) = page.client /\ page.client \in DOMAIN clients /\ page.client # 0
        /\ i = k.socket /\ InUse(sockets[i], k, page, auth)
    BY <1>5, WhoseSocket
  <2>2. clients' = [clients EXCEPT ![page.client] = f]
    BY <1>5, <2>1 DEF CloseEvent
  <2>3. k \in WsClients /\ Holds(k, sockets, page, auth) /\ auth.ready = "yes"
    BY <1>2, <2>1, ConnectionFacts
  <2>4. /\ f \in WsClients /\ f.socket = 0 /\ f.state = "closed" /\ f.timer = ~k.intentional
        /\ f.intentional = k.intentional /\ f.needs = k.needs /\ f.waiting = k.waiting
    <3> DEFINE t == ~k.intentional
    <3>1. t \in BOOLEAN
      OBVIOUS
    <3> HIDE DEF t
    <3>2. f = [k EXCEPT !.socket = 0, !.state = "closed", !.timer = t]
      BY DEF Closed, t
    <3> HIDE DEF k, f
    <3>3. /\ f \in WsClients /\ f.socket = 0 /\ f.state = "closed" /\ f.timer = t
          /\ f.intentional = k.intentional /\ f.needs = k.needs /\ f.waiting = k.waiting
      BY <2>3, <3>1, <3>2 DEF WsClients
    <3> QED
      BY <3>3 DEF t
  <2>5. ~k.waiting
    BY <1>2, <2>1, <2>3 DEF Holds
  <2> HIDE DEF f, k
  <2>6. Holds(f, ss, page, auth)
    <3>1. f.timer \/ k.intentional
      BY <2>4
    <3> QED
      BY <1>4, <2>3, <2>4, <2>5, <3>1 DEF Holds
  <2>7. ConnInv([clients |-> [clients EXCEPT ![page.client] = f], sockets |-> ss], page, auth)
    BY <1>3, <1>5, <2>1, <2>4, <2>6, SocketMoves DEF ss, InUse
  <2>8. ConnInv(Net', page, auth) /\ Len(clients') = Len(clients)
    BY <1>1, <2>2, <2>7, ConnectionFacts DEF Net
  <2> QED
    BY <1>1, <2>8, SessionMoves DEF ConnectionInv
<1>6. CASE ~Current(i)
  <2>1. clients' = clients
    BY <1>6 DEF CloseEvent
  <2>2. ConnInv([clients |-> clients, sockets |-> ss], page, auth)
    BY <1>3, <1>6, StrayMoves DEF ss
  <2>3. ConnInv(Net', page, auth)
    BY <1>1, <2>1, <2>2 DEF Net
  <2> QED
    BY <1>1, <2>1, <2>3, SessionMoves DEF ConnectionInv
<1> QED
  BY <1>5, <1>6

LEMMA DeliverKeeps ==
  ASSUME ConnectionInv, NEW i \in DOMAIN sockets, Deliver(i)
  PROVE  ConnectionInv'
<1> DEFINE m == Head(sockets[i].inbox)
           s == [sockets[i] EXCEPT !.inbox = Tail(@)]
           ss == [sockets EXCEPT ![i] = s]
<1>1. sockets' = ss /\ UNCHANGED <<auth, asked>> /\ sockets[i].inbox # <<>> /\ asked' \in Nat
  BY DEF Deliver, ConnectionInv
<1>2. /\ sockets[i] \in WebSockets /\ sockets \in Seq(WebSockets) /\ i \in 1..Len(sockets) /\ i # 0
      /\ Heard(sockets[i]) /\ sockets[i].inbox \in Seq(Message)
  BY ConnectionFacts
<1>3. m \in Message /\ Tail(sockets[i].inbox) \in Seq(Message)
  BY <1>1, <1>2, HeadTailProperties
<1>4. /\ s \in WebSockets /\ s.client = sockets[i].client /\ s.phase = sockets[i].phase /\ s.hello = sockets[i].hello
      /\ s.as = sockets[i].as /\ s.inbox = Tail(sockets[i].inbox) /\ s.hello # "unsent"
  BY <1>1, <1>2, <1>3 DEF WebSockets, Heard
<1>5. Heard(s)
  BY <1>4 DEF Heard
<1> HIDE DEF s, m
<1>6. Len(ss) = Len(sockets) /\ Len(sockets) \in Nat /\ ss[i] = s
  BY <1>2
<1> HIDE DEF ss
<1>7. CASE Current(i)
  <2> DEFINE k == clients[page.client]
             f == Handled(k, m)
             q == Shown(page, m)
  <2>1. /\ Owner(i) = page.client /\ page.client \in DOMAIN clients /\ page.client # 0
        /\ i = k.socket /\ InUse(sockets[i], k, page, auth)
    BY <1>7, WhoseSocket
  <2>2. /\ clients' = [clients EXCEPT ![page.client] = f] /\ page' = q
        /\ persisted' = [persisted EXCEPT ![k.room] = Recorded(@, m)]
    BY <1>7, <2>1 DEF Deliver, m
  <2>3. k \in WsClients /\ Holds(k, sockets, page, auth) /\ page \in Sessions
    BY <2>1, ConnectionFacts
  <2>4. persisted' \in [RoomId -> {"none", "unseen", "seen"}]
    <3>1. \A old \in {"none", "unseen", "seen"} : Recorded(old, m) \in {"none", "unseen", "seen"}
      BY <1>3 DEF Message, Recorded, SeenAtWelcome
    <3>2. k.room \in RoomId
      BY <2>3 DEF WsClients
    <3> QED
      BY <2>2, <3>1, <3>2 DEF ConnectionInv
  <2>5. /\ q \in Sessions /\ q.client = page.client /\ (page.filled => q.filled) /\ (page.fatal => q.fatal)
        /\ (m = "snapshot" => q.filled) /\ (m = "fatal" => q.fatal)
    BY <1>3, <2>3 DEF Message, Shown, Sessions
  <2>6. /\ f \in WsClients /\ f.socket = k.socket /\ f.timer = k.timer /\ f.waiting = k.waiting
        /\ f.needs = k.needs \/ (~f.needs /\ m = "snapshot")
        /\ f.intentional = k.intentional \/ m = "fatal"
        /\ f.state = k.state \/ f.state = "catching-up" \/ (f.state = "live" /\ m = "complete")
    <3> HIDE DEF k
    <3> QED
      BY <1>3, <2>3 DEF Message, Handled, Welcomed, CaughtUp, Refused, Filled, WsClients
  <2>7. FillsFirst(s.inbox, q.filled) /\ (m = "complete" => q.filled)
    <3>1. page.filled \in BOOLEAN /\ q.filled \in BOOLEAN
      BY <2>3, <2>5 DEF Sessions
    <3> HIDE DEF q
    <3>2. FillsFirst(sockets[i].inbox, page.filled)
      BY <2>1 DEF InUse
    <3> QED
      BY <1>1, <1>2, <1>4, <2>5, <3>1, <3>2, FillsTaken DEF m
  <2> HIDE DEF f, q, k
  <2>8. f.state = "live" => q.filled
    BY <2>1, <2>5, <2>6, <2>7 DEF InUse
  <2>9. InUse(s, f, q, auth)
    BY <1>4, <2>1, <2>5, <2>7, <2>8 DEF InUse
  <2>10. Holds(f, ss, q, auth)
    <3>1. k.state # "closed" /\ ~k.waiting /\ ~k.timer
      BY <1>2, <2>1, <2>3 DEF Holds
    <3>2. f.state # "closed" /\ ~f.waiting /\ ~f.timer /\ f.socket = i
      BY <2>1, <2>6, <3>1
    <3>3. f.needs \/ q.filled
      BY <2>3, <2>5, <2>6, <3>1 DEF Holds
    <3>4. f.intentional => q.fatal
      BY <2>3, <2>5, <2>6 DEF Holds
    <3> QED
      BY <1>2, <1>6, <2>9, <3>2, <3>3, <3>4 DEF Holds
  <2>11. f.socket = i /\ s.client = page.client
    BY <1>4, <2>1, <2>6 DEF InUse
  <2>12. ConnInv([clients |-> [clients EXCEPT ![page.client] = f], sockets |-> ss], q, auth)
    BY <1>4, <1>5, <1>7, <2>1, <2>5, <2>6, <2>10, <2>11, SocketMoves DEF ss
  <2>13. ConnInv(Net', page', auth) /\ Len(clients') = Len(clients)
    BY <1>1, <2>2, <2>12, ConnectionFacts DEF Net
  <2> QED
    BY <1>1, <2>2, <2>4, <2>5, <2>13, SessionMoves
<1>8. CASE ~Current(i)
  <2>1. UNCHANGED <<clients, persisted, page>>
    BY <1>8 DEF Deliver
  <2>2. s.phase \in {"closing", "closed"}
    BY <1>4, <1>8, WhoseSocket
  <2>3. ConnInv([clients |-> clients, sockets |-> ss], page, auth)
    BY <1>4, <1>5, <1>8, <2>2, StrayMoves DEF ss
  <2>4. ConnInv(Net', page, auth)
    BY <1>1, <2>1, <2>3 DEF Net
  <2> QED
    BY <1>1, <2>1, <2>4, SessionMoves DEF ConnectionInv
<1> QED
  BY <1>7, <1>8

LEMMA AnswersFill ==
  ASSUME NEW greeting \in {"fresh", "resume", "resync"}, NEW filled \in BOOLEAN, greeting # "fresh" => filled,
         NEW answer \in CatchUps(greeting) \union {<<>>} \union {<<"welcome">> \o u : u \in CatchUps(greeting)}
                        \union {<<"fatal">>}
  PROVE  answer \in Seq(Message) /\ FillsFirst(answer, filled)
<1>1. /\ <<>> \in Seq(Message) /\ FillsFirst(<<>>, filled)
      /\ <<"fatal">> \in Seq(Message) /\ FillsFirst(<<"fatal">>, filled)
      /\ <<"welcome">> \in Seq(Message) /\ FillsFirst(<<"welcome">>, filled)
  BY DEF Message, FillsFirst
<1>2. ASSUME NEW u \in CatchUps(greeting) PROVE u \in Seq(Message) /\ FillsFirst(u, filled)
  <2>1. CASE u = <<"snapshot", "complete">>
    <3>1. 1 \in 1..Len(u) /\ u[1] = "snapshot" /\ u[2] = "complete" /\ Len(u) = 2 /\ u \in Seq(Message)
      BY <2>1 DEF Message
    <3> QED
      BY <3>1 DEF FillsFirst
  <2>2. CASE u # <<"snapshot", "complete">>
    <3>1. u \in {<<"replay", "complete">>, <<"complete">>} /\ filled
      BY <2>2 DEF CatchUps
    <3>2. <<"replay", "complete">> \in Seq(Message) /\ <<"complete">> \in Seq(Message)
      BY DEF Message
    <3> QED
      BY <3>1, <3>2 DEF FillsFirst
  <2> QED
    BY <2>1, <2>2
<1>3. ASSUME NEW u \in CatchUps(greeting), answer = <<"welcome">> \o u
      PROVE  answer \in Seq(Message) /\ FillsFirst(answer, filled)
  BY <1>1, <1>2, <1>3, FillsAppended, ConcatProperties
<1> QED
  BY <1>1, <1>2, <1>3

LEMMA ServerAnswersKeeps ==
  ASSUME ConnectionInv, NEW i \in DOMAIN sockets, ServerAnswers(i)
  PROVE  ConnectionInv'
<1> DEFINE k == clients[page.client]
<1>1. /\ sockets[i].phase = "open" /\ sockets[i].hello \in {"fresh", "resume", "resync"}
      /\ UNCHANGED <<auth, clients, persisted, page, asked>>
  BY DEF ServerAnswers
<1>2. PICK answer \in CatchUps(sockets[i].hello) \union {<<>>} \union {<<"welcome">> \o u : u \in CatchUps(sockets[i].hello)}
                      \union {<<"fatal">>} :
        sockets' = [sockets EXCEPT ![i].hello = "answered", ![i].inbox = @ \o answer]
  BY DEF ServerAnswers
<1> DEFINE s == [sockets[i] EXCEPT !.hello = "answered", !.inbox = @ \o answer]
           ss == [sockets EXCEPT ![i] = s]
<1>3. /\ Current(i) /\ Owner(i) = page.client /\ page.client \in DOMAIN clients /\ page.client # 0
      /\ i = k.socket /\ InUse(sockets[i], k, page, auth)
  BY <1>1, WhoseSocket
<1>4. /\ k \in WsClients /\ Holds(k, sockets, page, auth) /\ i # 0 /\ sockets \in Seq(WebSockets)
      /\ sockets[i] \in WebSockets /\ i \in 1..Len(sockets) /\ page.filled \in BOOLEAN
      /\ sockets[i].inbox \in Seq(Message)
  BY <1>3, ConnectionFacts DEF Sessions
<1>5. sockets' = ss
  BY <1>2
<1>6. answer \in Seq(Message) /\ FillsFirst(answer, page.filled)
  BY <1>1, <1>2, <1>3, <1>4, AnswersFill DEF InUse
<1> DEFINE both == sockets[i].inbox \o answer
<1>7. both \in Seq(Message) /\ FillsFirst(both, page.filled)
  BY <1>3, <1>4, <1>6, FillsAppended, ConcatProperties DEF InUse
<1> HIDE DEF both
<1>8. /\ s \in WebSockets /\ s.client = sockets[i].client /\ s.phase = "open" /\ s.hello = "answered"
      /\ s.as = sockets[i].as /\ s.inbox = both
  <2>1. s = [sockets[i] EXCEPT !.hello = "answered", !.inbox = both]
    BY DEF both
  <2> QED
    BY <1>1, <1>4, <1>7, <2>1 DEF WebSockets
<1>9. ss[i] = s /\ Len(ss) = Len(sockets)
  BY <1>4
<1> HIDE DEF s, k, ss
<1>10. InUse(s, k, page, auth)
  BY <1>1, <1>3, <1>7, <1>8 DEF InUse
<1>11. Holds(k, ss, page, auth)
  BY <1>3, <1>4, <1>9, <1>10 DEF Holds
<1>12. Heard(s) /\ s.client = page.client
  BY <1>3, <1>8 DEF Heard, InUse
<1>13. ConnInv([clients |-> [clients EXCEPT ![page.client] = k], sockets |-> ss], page, auth)
  BY <1>3, <1>4, <1>8, <1>11, <1>12, SocketMoves DEF ss
<1>14. ConnInv(Net', page, auth)
  BY <1>1, <1>5, <1>13, SameClient DEF Net, k
<1> QED
  BY <1>1, <1>14, SessionMoves DEF ConnectionInv

-----------------------------------------------------------------------------

LEMMA ConnectionInit == InitConnection => ConnectionInv
<1> SUFFICES ASSUME InitConnection PROVE ConnectionInv
  OBVIOUS
<1>1. /\ auth \in Accounts /\ page \in Sessions /\ page.client = 0 /\ asked \in Nat
      /\ persisted \in [RoomId -> {"none", "unseen", "seen"}]
  BY DEF InitConnection, Accounts, Account, Sessions, NoSession
<1>2. Net.clients = <<>> /\ Net.sockets = <<>> /\ Len(clients) = 0 /\ Len(Net.clients) = 0 /\ Len(Net.sockets) = 0
  BY DEF InitConnection, Net
<1>3. NetTyped(Net) /\ OthersParked(Net, 0) /\ OneInUse(Net, 0)
  BY <1>2 DEF NetTyped, OthersParked, OneInUse
<1>4. ConnInv(Net, page, auth)
  BY <1>1, <1>2, <1>3 DEF ConnInv
<1> QED
  BY <1>1, <1>2, <1>4 DEF ConnectionInv

LEMMA ConnectionNext == ConnectionInv /\ [NextConnection]_connVars => ConnectionInv'
<1> SUFFICES ASSUME ConnectionInv, [NextConnection]_connVars PROVE ConnectionInv'
  OBVIOUS
<1>1. ASSUME NEW r \in RoomId, NEW force \in BOOLEAN, ConnectToSession(r, force) PROVE ConnectionInv'
  BY <1>1, ConnectToSessionKeeps
<1>2. ASSUME NEW c \in DOMAIN clients, ReadyReaches(c) \/ Retry(c) \/ RequestResync(c) \/ ResyncTimeout(c)
      PROVE  ConnectionInv'
  BY <1>2, ReadyReachesKeeps, RetryKeeps, RequestResyncKeeps, ResyncTimeoutKeeps
<1>3. CASE Leave \/ RequireSnapshot
  BY <1>3, LeaveKeeps, RequireSnapshotKeeps
<1>4. ASSUME NEW u \in User \union {Guest}, NEW ok \in BOOLEAN, AuthAnswers(u, ok) PROVE ConnectionInv'
  BY <1>4, AuthAnswersKeeps DEF Account
<1>5. ASSUME NEW u \in User \union {Guest}, Flip(u) PROVE ConnectionInv'
  BY <1>5, FlipKeeps DEF Account
<1>6. ASSUME NEW i \in DOMAIN sockets, Opens(i) \/ CloseEvent(i) \/ Deliver(i) \/ ServerAnswers(i)
      PROVE  ConnectionInv'
  BY <1>6, OpensKeeps, CloseEventKeeps, DeliverKeeps, ServerAnswersKeeps
<1>7. CASE UNCHANGED connVars
  <2>1. UNCHANGED <<auth, clients, sockets, persisted, page, asked>> /\ Net' = Net
    BY <1>7 DEF connVars, Net
  <2> QED
    BY <2>1 DEF ConnectionInv
<1> QED
  BY <1>1, <1>2, <1>3, <1>4, <1>5, <1>6, <1>7 DEF NextConnection

\* What the connection is, at every step of a tab: its clients but the session's are parked, its
\* sockets but one are going down, and that one is the session's.
THEOREM ConnectionStays == ConnectionSpec => []ConnectionInv
BY ConnectionInit, ConnectionNext, PTL DEF ConnectionSpec

LEMMA ConnectionInvHolds == ConnectionInv => ConnectionHolds
<1> SUFFICES ASSUME ConnectionInv PROVE ConnectionHolds
  OBVIOUS
<1>1. ConnectionIsCurrent
  <2> SUFFICES ASSUME NEW i \in DOMAIN sockets, sockets[i].phase \in {"connecting", "open"}
               PROVE  i = Mine /\ (Said(i) => sockets[i].as = auth.user)
    BY DEF ConnectionIsCurrent
  <2>1. Current(i)
    BY WhoseSocket
  <2> QED
    BY <2>1, WhoseSocket DEF Mine, Said, InUse
<1>2. LiveMeansFilled
  <2> SUFFICES ASSUME page.client # 0, clients[page.client].state = "live" PROVE page.filled
    BY DEF LiveMeansFilled
  <2> QED
    BY ConnectionFacts DEF Holds, InUse
<1>3. SomethingReconnects
  <2> SUFFICES ASSUME page.client # 0, clients[page.client].state = "closed"
               PROVE  \/ clients[page.client].timer
                      \/ clients[page.client].waiting /\ auth.ready # "failed"
                      \/ page.fatal \/ auth.ready = "failed"
    BY DEF SomethingReconnects
  <2> QED
    BY ConnectionFacts DEF Holds
<1> QED
  BY <1>1, <1>2, <1>3 DEF ConnectionHolds

\* What one relies on holds of every tab, of any number of rooms, accounts, clients and sockets:
\* see ConnectionHolds.
THEOREM ConnectionIsHeld == ConnectionSpec => []ConnectionHolds
BY ConnectionStays, ConnectionInvHolds, PTL
=============================================================================
