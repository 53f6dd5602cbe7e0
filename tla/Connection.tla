----------------------------- MODULE Connection -----------------------------
(***************************************************************************)
(* How a tab gets, keeps and gives up its connection to a room: the session's   *)
(* connect and disconnect (sync/SyncSession.ts), the WebSocket client with its   *)
(* two timers (sync/WsClient.ts), and the sign-in state they read               *)
(* (auth/useAuth.ts).  A WebSocket client outlives the session's reference to    *)
(* it, because timers and promises hold it; a socket outlives its client's.      *)
(*                                                                         *)
(* The server is external: it answers a hello with a catch-up or a refusal, and   *)
(* a resync with a catch-up or nothing.  A catch-up is a snapshot, or a replay    *)
(* of operations, which is of use only on top of content.                     *)
(***************************************************************************)
EXTENDS Naturals, Sequences, SequencesExt

CONSTANTS
  RoomId,
  User,        \* the accounts one may sign in to; Guest is none of them
  Guest,
  NoRoom,
  MaxClients,  \* bound: WsClients built
  MaxSockets,  \* bound: sockets opened
  MaxFlips,    \* bound: times one signs in or out
  MaxAsked     \* bound: resyncs asked for

VARIABLES
  auth,     \* [ready, user, flips]; ready is "no", "yes" or "failed"
  clients,  \* the WsClients built so far
  sockets,  \* the sockets opened so far, each with what the server wrote to it
  persisted, \* sessionStorage, room by room: "none", "unseen" (opIdLastSeen = -1) or "seen"
  page,     \* the session: [client, room, loading, fatal, filled]; client is 0 or an index
  asked

connVars == <<auth, clients, sockets, persisted, page, asked>>

\* A WsClient: waiting is the pending `ready` of SyncSession.connect.
NewClient(r) == [room |-> r, state |-> "closed", socket |-> 0, timer |-> FALSE,
                 intentional |-> FALSE, needs |-> FALSE, resync |-> FALSE, resyncTimer |-> FALSE,
                 waiting |-> TRUE]

NewSocket(c) == [client |-> c, phase |-> "connecting", hello |-> "unsent", as |-> Guest, inbox |-> <<>>]

NoSession == [client |-> 0, room |-> NoRoom, loading |-> FALSE, fatal |-> FALSE, filled |-> FALSE]

InitConnection ==
  /\ auth = [ready |-> "no", user |-> Guest, flips |-> 0]
  /\ clients = <<>> /\ sockets = <<>>
  /\ persisted = [r \in RoomId |-> "none"]
  /\ page = NoSession
  /\ asked = 0

----------------------------------------------------------------------------
(* WsClient.  The operations take and give a pair of clients and sockets,     *)
(* because reconnect is one of them after the other.                       *)

Net == [clients |-> clients, sockets |-> sockets]
NetBecomes(n) == clients' = n.clients /\ sockets' = n.sockets

\* connect: forceSnapshot sets the flag and nothing here clears it.
NeededNow(was, force) == force
Needed(was, force) == was \/ force

Connecting(k, force, i) ==
  [k EXCEPT !.needs = Needed(k.needs, force), !.intentional = FALSE, !.state = "opening", !.socket = i]

Connected(n, c, force) ==
  IF n.clients[c].socket # 0 THEN n
  ELSE [clients |-> [n.clients EXCEPT ![c] = Connecting(@, force, Len(n.sockets) + 1)],
        sockets |-> Append(n.sockets, NewSocket(c))]

ShutDown(s) == [s EXCEPT !.phase = IF @ = "closed" THEN @ ELSE "closing"]

\* disconnect: both timers stopped, the socket let go of before its close event comes.
QuietedLate(k) == [k EXCEPT !.resync = FALSE, !.resyncTimer = FALSE]
Quieted(k) == [k EXCEPT !.timer = FALSE, !.resync = FALSE, !.resyncTimer = FALSE]
Disconnected(n, c) ==
  LET k == n.clients[c] IN
  [clients |-> [n.clients EXCEPT ![c] =
                 [Quieted(k) EXCEPT !.intentional = TRUE, !.socket = 0, !.state = "closed"]],
   sockets |-> [i \in DOMAIN n.sockets |-> IF i = k.socket THEN ShutDown(n.sockets[i]) ELSE n.sockets[i]]]

SocketsLeft(n) == Len(n.sockets) < MaxSockets

----------------------------------------------------------------------------
(* The session and the account. *)

\* connectToSession: nothing for the room one is in, unless forced (a restored page).
\* The project is blank from here until a snapshot.
ConnectToSession(r, force) ==
  /\ Len(clients) < MaxClients
  /\ force \/ page.client = 0 \/ page.room # r
  /\ LET n == IF page.client = 0 THEN Net ELSE Disconnected(Net, page.client)
         c == Len(clients) + 1
         m == [n EXCEPT !.clients = Append(@, NewClient(r))]
     IN /\ page' = [client |-> c, room |-> r, loading |-> TRUE, fatal |-> FALSE, filled |-> FALSE]
        /\ NetBecomes(m)
  /\ UNCHANGED <<auth, persisted, asked>>

\* `ready` resolved, or will: the client connects, if it is still the session's.
StillOurs(c) == page.client = c
ReadyReaches(c) ==
  /\ auth.ready = "yes" /\ clients[c].waiting /\ SocketsLeft(Net)
  /\ LET n == [Net EXCEPT !.clients[c].waiting = FALSE]
     IN NetBecomes(IF StillOurs(c) THEN Connected(n, c, TRUE) ELSE n)
  /\ UNCHANGED <<auth, persisted, page, asked>>

Leave ==
  /\ page.client # 0
  /\ NetBecomes(Disconnected(Net, page.client))
  /\ page' = NoSession
  /\ UNCHANGED <<auth, persisted, asked>>

\* getSession answers, or rejects: then `ready` never resolves.
AuthAnswers(u, ok) ==
  /\ auth.ready = "no"
  /\ auth' = IF ok THEN [auth EXCEPT !.ready = "yes", !.user = u] ELSE [auth EXCEPT !.ready = "failed"]
  /\ UNCHANGED <<clients, sockets, persisted, page, asked>>

\* Signing in or out, and the watcher that re-handshakes a connection begun as someone else.
ReconnectsLive(c) == c # 0 /\ clients[c].state = "live"
Reconnects(c) == c # 0 /\ clients[c].state # "closed"
Flip(u) ==
  /\ auth.ready = "yes" /\ auth.user # u /\ auth.flips < MaxFlips /\ SocketsLeft(Net)
  /\ auth' = [auth EXCEPT !.user = u, !.flips = @ + 1]
  /\ IF Reconnects(page.client)
     THEN NetBecomes(Connected(Disconnected(Net, page.client), page.client, FALSE))
     ELSE UNCHANGED <<clients, sockets>>
  /\ UNCHANGED <<persisted, page, asked>>

----------------------------------------------------------------------------
(* Socket events.  Each handler first asks whether its socket is still the client's. *)

Owner(i) == sockets[i].client
AnySocket(i) == TRUE
Current(i) == clients[Owner(i)].socket = i

\* onopen, sendHello: a resume only where content may lie under it.
HelloOf(k) == IF ~k.needs /\ persisted[k.room] = "seen" THEN "resume" ELSE "fresh"
Opens(i) ==
  /\ sockets[i].phase = "connecting"
  /\ sockets' = [sockets EXCEPT ![i] =
       IF Current(i)
       THEN [@ EXCEPT !.phase = "open", !.hello = HelloOf(clients[Owner(i)]), !.as = auth.user]
       ELSE [@ EXCEPT !.phase = "open"]]
  /\ UNCHANGED <<auth, clients, persisted, page, asked>>

\* onSocketClose, and the timer it starts unless the client meant to close.
Closed(k) == [k EXCEPT !.socket = 0, !.state = "closed", !.timer = ~k.intentional]
CloseEvent(i) ==
  /\ sockets[i].phase # "closed"
  /\ sockets' = [sockets EXCEPT ![i].phase = "closed", ![i].inbox = <<>>]
  /\ clients' = IF Current(i) THEN [clients EXCEPT ![Owner(i)] = Closed(@)] ELSE clients
  /\ UNCHANGED <<auth, persisted, page, asked>>

\* reconnectTimer.
Retry(c) ==
  /\ clients[c].timer /\ SocketsLeft(Net)
  /\ NetBecomes(Connected([Net EXCEPT !.clients[c].timer = FALSE], c, FALSE))
  /\ UNCHANGED <<auth, persisted, page, asked>>

\* What the session makes of a message the client has taken.
Welcomed(k) == [k EXCEPT !.state = "catching-up"]
CaughtUp(k) == [k EXCEPT !.state = "live", !.resync = FALSE, !.resyncTimer = FALSE]
Refused(k) == [k EXCEPT !.intentional = TRUE]
Filled(k) == [k EXCEPT !.needs = FALSE]

Handled(k, m) ==
  CASE m = "welcome"  -> Welcomed(k)
    [] m = "snapshot" -> Filled(k)
    [] m = "replay"   -> k
    [] m = "complete" -> CaughtUp(k)
    [] m = "fatal"    -> Refused(k)

\* savePersisted: the welcome keeps the watermark, content moves it.
SeenAtWelcome(old) == IF old = "none" THEN "unseen" ELSE old
Recorded(old, m) ==
  CASE m = "welcome" -> SeenAtWelcome(old)
    [] m \in {"snapshot", "complete", "replay"} -> IF old = "none" THEN old ELSE "seen"
    [] m = "fatal" -> old

\* dispatchServerMessage, and the session's callbacks.
Shown(p, m) ==
  CASE m = "snapshot" -> [p EXCEPT !.filled = TRUE]
    [] m = "complete" -> [p EXCEPT !.loading = FALSE]
    [] m = "fatal"    -> [p EXCEPT !.loading = FALSE, !.fatal = TRUE]
    [] OTHER -> p

\* onmessage.
Deliver(i) ==
  LET s == sockets[i] m == Head(s.inbox) IN
  /\ s.phase \in {"open", "closing"} /\ s.inbox # <<>>
  /\ sockets' = [sockets EXCEPT ![i].inbox = Tail(@)]
  /\ IF Current(i)
     THEN /\ clients' = [clients EXCEPT ![Owner(i)] = Handled(@, m)]
          /\ persisted' = [persisted EXCEPT ![clients[Owner(i)].room] = Recorded(@, m)]
          /\ page' = Shown(page, m)
     ELSE UNCHANGED <<clients, persisted, page>>
  /\ UNCHANGED <<auth, asked>>

----------------------------------------------------------------------------
(* Peer drift. *)

\* LoadTracker.requireSnapshot: the next hello is to bring a whole project.
RequireSnapshot ==
  /\ page.client # 0
  /\ clients' = [clients EXCEPT ![page.client].needs = TRUE]
  /\ UNCHANGED <<auth, sockets, persisted, page, asked>>

\* requestResync, on a set that skips an opId.
RequestResync(c) ==
  LET k == clients[c] IN
  /\ k.state = "live" /\ persisted[k.room] = "seen" /\ ~k.resync /\ asked < MaxAsked
  /\ clients' = [clients EXCEPT ![c].resync = TRUE, ![c].resyncTimer = TRUE]
  /\ sockets' = [sockets EXCEPT ![k.socket].hello = "resync"]
  /\ asked' = asked + 1
  /\ UNCHANGED <<auth, persisted, page>>

\* The five seconds are over: the guard is lifted for the next gap.
ResyncTimeout(c) ==
  /\ clients[c].resyncTimer
  /\ clients' = [clients EXCEPT ![c].resync = FALSE, ![c].resyncTimer = FALSE]
  /\ UNCHANGED <<auth, sockets, persisted, page, asked>>

----------------------------------------------------------------------------
(* The server, external: hello and resync are answered from what it remembers. *)

CatchUps(hello) ==
  IF hello = "fresh" THEN {<<"snapshot", "complete">>}
  ELSE {<<"replay", "complete">>, <<"complete">>, <<"snapshot", "complete">>}

ServerAnswers(i) ==
  LET s == sockets[i] IN
  /\ s.phase = "open" /\ s.hello \in {"fresh", "resume", "resync"}
  /\ \E answer \in IF s.hello = "resync" THEN CatchUps(s.hello) \union {<<>>}
                   ELSE {<<"welcome">> \o u : u \in CatchUps(s.hello)} \union {<<"fatal">>} :
       sockets' = [sockets EXCEPT ![i].hello = "answered", ![i].inbox = @ \o answer]
  /\ UNCHANGED <<auth, clients, persisted, page, asked>>

----------------------------------------------------------------------------

NextConnection ==
  \/ \E r \in RoomId, force \in BOOLEAN : ConnectToSession(r, force)
  \/ \E c \in DOMAIN clients : ReadyReaches(c) \/ Retry(c) \/ RequestResync(c) \/ ResyncTimeout(c)
  \/ Leave \/ RequireSnapshot
  \/ \E u \in User \union {Guest}, ok \in BOOLEAN : AuthAnswers(u, ok)
  \/ \E u \in User \union {Guest} : Flip(u)
  \/ \E i \in DOMAIN sockets : Opens(i) \/ CloseEvent(i) \/ Deliver(i) \/ ServerAnswers(i)

ConnectionSpec == InitConnection /\ [][NextConnection]_connVars

----------------------------------------------------------------------------
(* What one relies on. *)

Mine == IF page.client = 0 THEN 0 ELSE clients[page.client].socket
Said(i) == sockets[i].hello # "unsent"

\* At most one socket is in use, the session's own, and the server knows it under the account
\* one is signed in to: whatever closes late, signs in mid-handshake, leaves and comes back, or
\* fires a timer of a client given up.  (WsClient.ts:116 and 143, SyncSession.ts:91 and 215.)
ConnectionIsCurrent ==
  \A i \in DOMAIN sockets :
    sockets[i].phase \in {"connecting", "open"} => i = Mine /\ (Said(i) => sockets[i].as = auth.user)

\* A tab whose room is live shows the room, not the blank project it was given on entering: the
\* need for a snapshot outlasts every connection that failed to bring one.  (WsClient.ts:85,
\* 108 and 263.)
LiveMeansFilled ==
  page.client # 0 /\ clients[page.client].state = "live" => page.filled

\* A tab in a room is connected, or something is bound to connect it: the promise of an account,
\* or a timer.  Only the server's refusal, which it shows, or the account's failure ends that.
SomethingReconnects ==
  LET k == clients[page.client] IN
  page.client # 0 /\ k.state = "closed" =>
    k.timer \/ (k.waiting /\ auth.ready # "failed") \/ page.fatal \/ auth.ready = "failed"

\* The three of them: what the page shows and uses is the connection of where it is, as who it
\* is; a live one has been filled, and a lost one is bound to be tried again.
ConnectionHolds == ConnectionIsCurrent /\ LiveMeansFilled /\ SomethingReconnects
=============================================================================
