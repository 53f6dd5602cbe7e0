------------------------------ MODULE Presence ------------------------------
(***************************************************************************)
(* Who is in a room and what they touch: the identities the server gives its     *)
(* clients (room/identity.ts, the identities of InMemoryRoomStore, hello and      *)
(* close of ConnectionHandler) and what a tab makes of them (sync/presence.ts,    *)
(* the side bar, the ring around a knob).                                     *)
(*                                                                         *)
(* A hello is cut where its handler awaits.  Between two callbacks of Node every  *)
(* microtask runs to its end, so an await on the in-memory store lets no message, *)
(* timer or answer in (Drained); but hellos that wait for one expiry chain are    *)
(* woken together, and then their microtasks interleave, in an order that hangs   *)
(* on how many awaits each has: any, here.                                    *)
(***************************************************************************)
EXTENDS Naturals, Sequences, FiniteSets

CONSTANTS
  Tab,
  NoUser,
  MaxIds,     \* bound: identities ever made
  MaxEdits,   \* bound: edits
  MaxConns,   \* bound: sockets ever opened
  TouchTtl    \* TOUCH_TTL_MS, in ticks

VARIABLES
  room,        \* "none", "live", "grace": its timer runs, "expiring": its expiry chain does
  identities,  \* the room's registry: a set of [id, colour, user]
  connected,   \* ids in the presence set
  conn,        \* tab -> its socket and the server's handler of it, see Away
  inbox,       \* tab -> messages on their way to it
  tab,         \* tab -> [self, roster, stored]; self 0 is none
  touches,     \* tab -> [shown, sweeper]: a set of [by, colour, ticks]
  count,       \* [ids, edits, conns]
  together     \* history: two hellos ran together, and the roster was not sent since

presenceVars == <<room, identities, connected, conn, inbox, tab, touches, count, together>>

Palette == 1..MaxIds
NoTouches == [shown |-> {}, sweeper |-> FALSE]
\* token: its hello carries one; present, roster: what its handler read and will use.
Away == [open |-> FALSE, at |-> "new", token |-> FALSE, id |-> 0, present |-> {}, roster |-> {}]
Stranger == [self |-> 0, roster |-> {}, stored |-> 0]

InitPresence ==
  /\ room = "none" /\ identities = {} /\ connected = {}
  /\ conn = [t \in Tab |-> Away] /\ inbox = [t \in Tab |-> <<>>]
  /\ tab = [t \in Tab |-> Stranger] /\ touches = [t \in Tab |-> NoTouches]
  /\ count = [ids |-> 0, edits |-> 0, conns |-> 0] /\ together = FALSE

----------------------------------------------------------------------------
(* The store, and the pool of open sockets. *)

ListConnected(reg, present) == {i \in reg : i.id \in present}
InPool == {t \in Tab : conn[t].open}

\* assignColor, assignHandle: the first that none of those present has.
Assigned(present) ==
  CHOOSE c \in Palette : /\ c \notin {i.colour : i \in present}
                         /\ \A d \in 1..(c - 1) : d \in {i.colour : i \in present}

MakeIdentity(present, user) == [id |-> count.ids + 1, colour |-> Assigned(present), user |-> user]
Minted == count.ids < MaxIds /\ count' = [count EXCEPT !.ids = @ + 1]

Tell(box, to, msg) == [u \in Tab |-> IF u \in to THEN Append(box[u], msg) ELSE box[u]]
Presence(roster) == [type |-> "presence", roster |-> roster]

\* The handler of t gets to where it says, and its conn changes as c says.
Handler(t, c) == conn' = [conn EXCEPT ![t] = c]
Drained == \A t \in Tab : conn[t].at \notin {"runs", "chosen", "marked", "told"}

Connect(t) ==
  /\ Drained /\ ~conn[t].open /\ conn[t].at \in {"new", "done"} /\ count.conns < MaxConns
  /\ Handler(t, [Away EXCEPT !.open = TRUE])
  /\ count' = [count EXCEPT !.conns = @ + 1]
  /\ UNCHANGED <<room, identities, connected, inbox, tab, touches, together>>

\* What a hello does next: wait for the expiry chain, load the session of a room that is not in
\* memory, have its token verified, or go on alone.
Stop(token, r) ==
  CASE r = "expiring" -> "waits" [] r = "none" -> "loads" [] OTHER -> IF token THEN "verifies" ELSE "runs"
Onward(c, token, r) ==
  [c EXCEPT !.at = Stop(token, r), !.token = token /\ r \in {"expiring", "none"}]
GoesOn(t, token, r) ==
  /\ Handler(t, Onward(conn[t], token, r))
  /\ together' = (together /\ Stop(token, r) # "runs")

\* A hello cancels the room's grace.
Hello(t, token) ==
  /\ Drained /\ conn[t].open /\ conn[t].at = "new"
  /\ room' = IF room = "grace" THEN "live" ELSE room
  /\ GoesOn(t, token, room')
  /\ UNCHANGED <<identities, connected, inbox, tab, touches, count>>

LoadAnswered(t) ==
  /\ Drained /\ conn[t].at = "loads"
  /\ room' = IF room = "none" THEN "live" ELSE room
  /\ GoesOn(t, conn[t].token, "live")
  /\ UNCHANGED <<identities, connected, inbox, tab, touches, count>>

\* A hello of someone signed in: who is present is read, then the username asked for; a store that
\* has no such room throws.
Verified(t) ==
  /\ Drained /\ conn[t].at = "verifies"
  /\ Handler(t, IF room = "none" THEN [conn[t] EXCEPT !.at = "done"]
                ELSE [conn[t] EXCEPT !.at = "asks", !.present = ListConnected(identities, connected)])
  /\ UNCHANGED <<room, identities, connected, inbox, tab, touches, count, together>>

\* The colour is chosen among those that were free.
Takes(t, i) ==
  /\ identities' = identities \union {i}
  /\ Handler(t, [conn[t] EXCEPT !.at = "chosen", !.id = i.id, !.present = {}])
UsernameAnswered(t) ==
  /\ Drained /\ conn[t].at = "asks"
  /\ IF room = "none"
     THEN Handler(t, [conn[t] EXCEPT !.at = "done", !.present = {}]) /\ UNCHANGED <<identities, count, together>>
     ELSE Minted /\ Takes(t, MakeIdentity(conn[t].present, t)) /\ together' = FALSE
  /\ UNCHANGED <<room, connected, inbox, tab, touches>>

\* The load or the token is refused, which closes the socket; or there is no username.
HelloFails(t) ==
  /\ Drained /\ conn[t].at \in {"loads", "verifies", "asks"}
  /\ Handler(t, [conn[t] EXCEPT !.at = "done", !.present = {}, !.open = @ /\ conn[t].at = "asks"])
  /\ inbox' = IF conn[t].at = "asks" THEN inbox ELSE [inbox EXCEPT ![t] = <<>>]
  /\ UNCHANGED <<room, identities, connected, tab, touches, count, together>>

\* A guest comes back as who they were, unless another socket is that client now.
Resumed(t) == {i \in identities : i.id = tab[t].stored /\ i.id \notin connected}
ChooseIdentity(t) ==
  /\ conn[t].at = "runs"
  /\ IF Resumed(t) # {} THEN UNCHANGED count /\ \E i \in Resumed(t) : Takes(t, i)
     ELSE Minted /\ Takes(t, MakeIdentity(ListConnected(identities, connected), NoUser))
  /\ UNCHANGED <<room, connected, inbox, tab, touches, together>>

MarkConnected(t) ==
  /\ conn[t].at = "chosen"
  /\ connected' = connected \union {conn[t].id}
  /\ Handler(t, [conn[t] EXCEPT !.at = "marked"])
  /\ UNCHANGED <<room, identities, inbox, tab, touches, count, together>>

\* The roster is read, and welcomes the socket if it is still there ...
Welcome(t) ==
  LET roster == ListConnected(identities, connected) IN
  /\ conn[t].at = "marked"
  /\ Handler(t, [conn[t] EXCEPT !.at = "told", !.roster = roster])
  /\ inbox' = Tell(inbox, {t} \intersect InPool, [type |-> "welcome", id |-> conn[t].id, roster |-> roster])
  /\ UNCHANGED <<room, identities, connected, tab, touches, count, together>>

\* ... and, once the socket has caught up, goes to the others as it was read.
Announce(t) ==
  /\ conn[t].at = "told"
  /\ Handler(t, [conn[t] EXCEPT !.at = "done", !.roster = {}])
  /\ inbox' = Tell(inbox, InPool \ {t}, Presence(conn[t].roster))
  /\ UNCHANGED <<room, identities, connected, tab, touches, count, together>>

\* The socket closes; the tab's own view of the room stays as it was.  A handler that still waits
\* for an answer goes on; one that never welcomed anybody has nothing to clean up.
RosterBeforeLeaving(left) == ListConnected(identities, connected)
RosterOnClose(left) == ListConnected(identities, left)
OnClose(t) ==
  LET c == conn[t] left == connected \ {c.id} peers == InPool \ {t} IN
  /\ Drained
  /\ Handler(t, [c EXCEPT !.open = FALSE, !.id = 0])
  /\ connected' = left
  /\ inbox' = [Tell(inbox, IF c.id = 0 THEN {} ELSE peers, Presence(RosterOnClose(left)))
                 EXCEPT ![t] = <<>>]
  /\ room' = IF c.id # 0 /\ peers = {} THEN "grace" ELSE room
  /\ together' = (together /\ c.id = 0)

Close(t) == conn[t].open /\ OnClose(t) /\ UNCHANGED <<identities, tab, touches, count>>

----------------------------------------------------------------------------
(* The end of the room. *)

GraceFires ==
  /\ Drained /\ room = "grace" /\ room' = "expiring"
  /\ UNCHANGED <<identities, connected, conn, inbox, tab, touches, count, together>>

\* The expiry chain settles: every hello that waits for it goes on.
Woken(r) ==
  conn' = [t \in Tab |-> IF conn[t].at = "waits" THEN Onward(conn[t], conn[t].token, r) ELSE conn[t]]

Prune ==
  /\ Drained /\ room = "expiring" /\ room' = "none"
  /\ identities' = {} /\ connected' = {}
  /\ Woken("none") /\ together' = FALSE
  /\ UNCHANGED <<inbox, tab, touches, count>>

\* Reading or deleting the session failed: the room stays.
ExpiryFailed ==
  LET guests == {t \in Tab : conn[t].at = "waits" /\ ~conn[t].token} IN
  /\ Drained /\ room = "expiring" /\ room' = "live"
  /\ Woken("live") /\ together' = (\E t \in guests, u \in guests : t # u)
  /\ UNCHANGED <<identities, connected, inbox, tab, touches, count>>

----------------------------------------------------------------------------
(* The tab. *)

\* An edit is broadcast with its author's id.
Edit(t) ==
  /\ Drained /\ conn[t].open /\ conn[t].id # 0 /\ tab[t].self = conn[t].id /\ count.edits < MaxEdits
  /\ count' = [count EXCEPT !.edits = @ + 1]
  /\ inbox' = Tell(inbox, InPool, [type |-> "set", id |-> conn[t].id])
  /\ UNCHANGED <<room, identities, connected, conn, tab, touches, together>>

\* noteRemoteTouch: nobody's own, and of nobody who is not in the roster.
Noted(t, id) ==
  LET known == {i \in tab[t].roster : i.id = id} IN
  IF id = tab[t].self \/ known = {} THEN touches[t]
  ELSE [shown |-> {[by |-> i.id, colour |-> i.colour, ticks |-> TouchTtl] : i \in known},
        sweeper |-> TRUE]

Deliver(t) ==
  LET m == Head(inbox[t]) IN
  /\ inbox[t] # <<>> /\ inbox' = [inbox EXCEPT ![t] = Tail(@)]
  /\ tab' = [tab EXCEPT ![t] =
       CASE m.type = "welcome"  -> [self |-> m.id, roster |-> m.roster, stored |-> m.id]
         [] m.type = "presence" -> [@ EXCEPT !.roster = m.roster]
         [] m.type = "set"      -> @]
  /\ touches' = IF m.type = "set" THEN [touches EXCEPT ![t] = Noted(t, m.id)] ELSE touches
  /\ UNCHANGED <<room, identities, connected, conn, count, together>>

\* Time passes for every tab.
Tick ==
  /\ \E t \in Tab : \E s \in touches[t].shown : s.ticks > 0
  /\ touches' = [t \in Tab |-> [touches[t] EXCEPT !.shown =
                   {[s EXCEPT !.ticks = IF @ = 0 THEN 0 ELSE @ - 1] : s \in @}]]
  /\ UNCHANGED <<room, identities, connected, conn, inbox, tab, count, together>>

\* sweep, which stops its own timer when nothing is left.
Sweep(t) ==
  LET left == {s \in touches[t].shown : s.ticks > 0} IN
  /\ touches[t].sweeper
  /\ touches' = [touches EXCEPT ![t] = [shown |-> left, sweeper |-> left # {}]]
  /\ UNCHANGED <<room, identities, connected, conn, inbox, tab, count, together>>

\* resetPresence, on leaving the room; the socket closes too.
RosterForgotten(t) == [touches[t] EXCEPT !.sweeper = FALSE]
Reset(t) == NoTouches
Leave(t) ==
  /\ tab[t].self # 0
  /\ tab' = [tab EXCEPT ![t] = [Stranger EXCEPT !.stored = tab[t].stored]]
  /\ touches' = [touches EXCEPT ![t] = Reset(t)]
  /\ IF conn[t].open THEN OnClose(t) ELSE UNCHANGED <<room, conn, connected, inbox, together>>
  /\ UNCHANGED <<identities, count>>

\* Duplicating a tab copies its sessionStorage to a new one.
Duplicate(t, u) ==
  /\ tab[u] = Stranger /\ tab[t].stored # 0 /\ conn[u] = Away
  /\ tab' = [tab EXCEPT ![u].stored = tab[t].stored]
  /\ touches' = [touches EXCEPT ![u] = NoTouches]
  /\ UNCHANGED <<room, identities, connected, conn, inbox, count, together>>

NextPresence ==
  \/ \E t \in Tab : \/ Connect(t) \/ LoadAnswered(t) \/ Verified(t) \/ UsernameAnswered(t) \/ HelloFails(t)
                    \/ ChooseIdentity(t) \/ MarkConnected(t) \/ Welcome(t) \/ Announce(t)
                    \/ Close(t) \/ Edit(t) \/ Deliver(t) \/ Sweep(t) \/ Leave(t)
  \/ \E t \in Tab, token \in BOOLEAN : Hello(t, token)
  \/ \E t \in Tab, u \in Tab : Duplicate(t, u)
  \/ GraceFires \/ Prune \/ ExpiryFailed \/ Tick

PresenceSpec == InitPresence /\ [][NextPresence]_presenceVars

----------------------------------------------------------------------------

Welcomed(t) == conn[t].open /\ conn[t].id # 0 /\ conn[t].at \in {"told", "done"}
HeardAll(t) == Welcomed(t) /\ inbox[t] = <<>>

\* Once the hellos under way are over, a tab that has heard all there was to hear lists exactly the
\* clients in the presence set.  (ConnectionHandler.ts:437.)
RosterSettles ==
  Drained => \A t \in Tab : HeardAll(t) => tab[t].roster = ListConnected(identities, connected)

\* However hellos, closes and lookups that outlive their socket were interleaved, a tab that has
\* heard all there was to hear lists nobody who left; and it lists everybody who is there, unless
\* two hellos ran together and the roster was not sent since.  (ConnectionHandler.ts:279 and 444.)
RosterSettlesApart ==
  /\ \A t \in Tab : HeardAll(t) => tab[t].roster \subseteq ListConnected(identities, connected)
  /\ together \/ RosterSettles

\* No ring is left burning and no timer runs for nothing: the sweeper runs exactly while there is
\* a touch to sweep, through reconnects, departures and broadcasts that come before a welcome.
\* (presence.ts:38, 71 and 89.)
TouchesAreSwept == \A t \in Tab : touches[t].sweeper <=> touches[t].shown # {}

\* What identity.ts:1 says of colours: a connecting client gets one no other present has.
ColoursTellApart ==
  \A i \in identities, j \in identities :
    i.id \in connected /\ j.id \in connected /\ i # j => i.colour # j.colour
=============================================================================
