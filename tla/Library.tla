------------------------------- MODULE Library -------------------------------
(***************************************************************************)
(* The server's shelves: sessions and presets, made, listed, renamed and     *)
(* deleted over HTTP (routes/sessions.ts, routes/presets.ts) while rooms are   *)
(* joined, saved and pruned beside them.                                     *)
(*                                                                         *)
(* A request is a run of awaited statements, each its own transaction, and     *)
(* any request, save or join may come between two of them; a statement may     *)
(* also fail, which ends the request with a 500 and undoes nothing.          *)
(*                                                                         *)
(* Ids are drawn at random by the server, so a request to create brings its    *)
(* own.  Whether a limiter lets a caller through is TokenBuckets' matter; here   *)
(* it may or may not.  A project is its origin: the seed, or a fresh one.       *)
(***************************************************************************)
EXTENDS Naturals, Sequences, Functions

CONSTANTS
  Id,
  Caller,       \* [user, client]: the account of the token if it is a valid one, and the browser
  Nobody,       \* null: no account
  MaxRequests   \* bound: requests ever sent

VARIABLES
  shelf,      \* tables sessions and presets: kind -> id -> [user, client, public]
  snapshots,  \* table session_snapshots: id -> project
  rooms,      \* rooms in memory with somebody in them: id -> project
  requests,   \* every request: [op, kind, who, id, occupied, at]
  known,      \* [who, id]: ids a caller has been told
  gone        \* ids deleted or pruned

libraryVars == <<shelf, snapshots, rooms, requests, known, gone>>

Kinds == {"session", "preset"}
Rows(kind) == DOMAIN shelf[kind]
With(f, x, y) == [z \in DOMAIN f \cup {x} |-> IF z = x THEN y ELSE f[z]]
Without(f, x) == Restrict(f, DOMAIN f \ {x})
GuestOwned(id) == shelf.session[id].user = Nobody

InitLibrary ==
  /\ shelf = [k \in Kinds |-> << >>]
  /\ snapshots = << >> /\ rooms = << >>
  /\ requests = << >> /\ known = {} /\ gone = {}

----------------------------------------------------------------------------
(* Sending. *)

Request(op, kind, who, id) ==
  /\ Len(requests) < MaxRequests
  /\ requests' = Append(requests, [op |-> op, kind |-> kind, who |-> who, id |-> id,
                                   occupied |-> DOMAIN rooms, at |-> "sent"])
  /\ UNCHANGED <<shelf, snapshots, rooms, known, gone>>

Post(kind, who, id) ==
  /\ \A n \in DOMAIN requests : requests[n].op = "post" => requests[n].id # id
  /\ Request("post", kind, who, id)

\* patch, delete, get: of something the caller has been told of.
About(op, kind, who, id) == [who |-> who, id |-> id] \in known /\ Request(op, kind, who, id)

\* The two reads of GET /api/sessions start together, and the member counts, being in
\* memory, are those of this moment.
List(kind, who, id) == Request("list", kind, who, id)

\* A hello for a room that is not in memory (loadSession).
Hello(who, id) ==
  /\ [who |-> who, id |-> id] \in known /\ id \notin DOMAIN rooms
  /\ Request("hello", "session", who, id)

----------------------------------------------------------------------------
(* Serving. *)

Answer(n, code) == requests' = [requests EXCEPT ![n].at = code]
Tell(n, ids) == known' = known \cup {[who |-> requests[n].who, id |-> i] : i \in ids}

Serving(n, op, at) == n \in DOMAIN requests /\ requests[n].op = op /\ requests[n].at = at

\* A limiter that is empty, a body that does not parse, a preset of a caller with no
\* account, a session of a guest with no browser id.
TurnAway(n) ==
  /\ \E op \in {"post", "patch"} : Serving(n, op, "sent")
  /\ Answer(n, "4xx")
  /\ UNCHANGED <<shelf, snapshots, rooms, known, gone>>

MayPost(r) == r.kind = "preset" => r.who.user # Nobody

Row(r, public) ==
  [user   |-> r.who.user,
   client |-> IF r.who.user = Nobody THEN r.who.client ELSE Nobody,
   public |-> public]

Publicity(kind) == IF kind = "preset" THEN BOOLEAN ELSE {FALSE}

\* insert into sessions, or into presets.
InsertRow(n) ==
  LET r == requests[n]
  IN /\ Serving(n, "post", "sent") /\ MayPost(r)
     /\ \E public \in Publicity(r.kind) : shelf' = [shelf EXCEPT ![r.kind] = With(@, r.id, Row(r, public))]
     /\ Answer(n, "rowed")
     /\ UNCHANGED <<snapshots, rooms, known, gone>>

\* insert into session_snapshots: the row must be there and no snapshot may be.
MayInsertSnapshot(id) == id \in Rows("session") /\ id \notin DOMAIN snapshots

\* The second statement of a creation; for a preset it reads the row back.
FinishPost(n) ==
  LET r == requests[n]
  IN /\ Serving(n, "post", "rowed")
     /\ IF r.kind = "session" THEN MayInsertSnapshot(r.id) ELSE r.id \in Rows("preset")
     /\ snapshots' = IF r.kind = "session" THEN With(snapshots, r.id, "seed") ELSE snapshots
     /\ Answer(n, "201") /\ Tell(n, {r.id})
     /\ UNCHANGED <<shelf, rooms, gone>>

\* claims.userId === ownerUserId, or for a session of a guest its browser's id.
Owns(r, row) ==
  \/ r.who.user # Nobody /\ r.who.user = row.user
  \/ r.op = "patch" /\ r.kind = "session" /\ row.client # Nobody /\ r.who.client = row.client

\* get(id), and the ownership check on what it returned.
FindRow(n) ==
  LET r == requests[n]
  IN /\ Serving(n, "patch", "sent") \/ Serving(n, "delete", "sent")
     /\ Answer(n, IF r.id \in Rows(r.kind) /\ Owns(r, shelf[r.kind][r.id]) THEN "found" ELSE "4xx")
     /\ UNCHANGED <<shelf, snapshots, rooms, known, gone>>

\* update ... where id: nothing happens to a row that has gone meanwhile.
UpsertingUpdate(table, r, public) == With(table, r.id, Row(r, public))
Update(table, r, public) == IF r.id \in DOMAIN table THEN With(table, r.id, [table[r.id] EXCEPT !.public = public]) ELSE table

UpdateRow(n) ==
  LET r == requests[n]
  IN /\ Serving(n, "patch", "found")
     /\ \E public \in Publicity(r.kind) : shelf' = [shelf EXCEPT ![r.kind] = Update(@, r, public)]
     /\ Answer(n, "204")
     /\ UNCHANGED <<snapshots, rooms, known, gone>>

\* delete from ... where id; a snapshot goes with its session.
Delete(kind, id) ==
  /\ shelf' = [shelf EXCEPT ![kind] = Without(@, id)]
  /\ snapshots' = Without(snapshots, id)
  /\ gone' = gone \cup {id}

DeleteRow(n) ==
  /\ Serving(n, "delete", "found")
  /\ Delete(requests[n].kind, requests[n].id)
  /\ Answer(n, "204")
  /\ UNCHANGED <<rooms, known>>

\* buildLobbyList leaves out a guest's session that nobody is in.
Listed(r) ==
  IF r.kind = "session"
  THEN {id \in Rows("session") : GuestOwned(id) => id \in r.occupied}
  ELSE {id \in Rows("preset") : shelf.preset[id].public \/ shelf.preset[id].user = r.who.user}

ReadList(n) ==
  /\ Serving(n, "list", "sent")
  /\ Answer(n, "200") /\ Tell(n, Listed(requests[n]))
  /\ UNCHANGED <<shelf, snapshots, rooms, gone>>

ReadRow(n) ==
  /\ Serving(n, "get", "sent")
  /\ Answer(n, IF requests[n].id \in Rows("session") THEN "200" ELSE "4xx")
  /\ UNCHANGED <<shelf, snapshots, rooms, known, gone>>

\* loadSession: the row, and in a second statement the snapshot, or else a fresh project.
LoadRow(n) ==
  /\ Serving(n, "hello", "sent")
  /\ Answer(n, IF requests[n].id \in Rows("session") THEN "found" ELSE "4xx")
  /\ UNCHANGED <<shelf, snapshots, rooms, known, gone>>

LoadSnapshot(n) ==
  LET id == requests[n].id
  IN /\ Serving(n, "hello", "found")
     /\ rooms' = IF id \in DOMAIN rooms THEN rooms
                 ELSE With(rooms, id, IF id \in DOMAIN snapshots THEN snapshots[id] ELSE "fresh")
     /\ Answer(n, "200")
     /\ UNCHANGED <<shelf, snapshots, known, gone>>

\* A statement fails, or its constraint does.
Fail(n) ==
  /\ n \in DOMAIN requests /\ requests[n].at \in {"sent", "rowed", "found"}
  /\ Answer(n, "500")
  /\ UNCHANGED <<shelf, snapshots, rooms, known, gone>>

----------------------------------------------------------------------------
(* The rooms' own dealings with the tables (SessionSync). *)

\* saveSnapshot, an upsert where the session still exists.
SaveUnasked(id) == TRUE
MaySave(id) == id \in Rows("session")

Save(id) ==
  /\ id \in DOMAIN rooms
  /\ snapshots' = IF MaySave(id) THEN With(snapshots, id, rooms[id]) ELSE snapshots
  /\ UNCHANGED <<shelf, rooms, requests, known, gone>>

\* The last member is gone for good: the room goes, and a guest's session with it.
Empty(id) ==
  /\ id \in DOMAIN rooms
  /\ rooms' = Without(rooms, id)
  /\ IF id \in Rows("session") /\ GuestOwned(id)
     THEN Delete("session", id) ELSE UNCHANGED <<shelf, snapshots, gone>>
  /\ UNCHANGED <<requests, known>>

NextLibrary ==
  \/ \E kind \in Kinds, who \in Caller, id \in Id :
       \/ Post(kind, who, id) \/ List(kind, who, id)
       \/ \E op \in {"patch", "delete"} : About(op, kind, who, id)
       \/ kind = "session" /\ (About("get", kind, who, id) \/ Hello(who, id))
  \/ \E n \in DOMAIN requests :
       \/ TurnAway(n) \/ InsertRow(n) \/ FinishPost(n) \/ FindRow(n) \/ UpdateRow(n)
       \/ DeleteRow(n) \/ ReadList(n) \/ ReadRow(n) \/ LoadRow(n) \/ LoadSnapshot(n) \/ Fail(n)
  \/ \E id \in Id : Save(id) \/ Empty(id)

LibrarySpec == InitLibrary /\ [][NextLibrary]_libraryVars

----------------------------------------------------------------------------

Traces(id) == {k \in Kinds : id \in Rows(k)} \cup (IF id \in DOMAIN snapshots THEN {"snapshot"} ELSE {})

\* What a 201 has confirmed is all there, row and snapshot, whatever was saved, renamed or
\* joined while it was being created, and until it is deleted; and from then on nothing of it
\* is left, whatever was on its way.
ConfirmedIsWhole ==
  \A n \in DOMAIN requests :
    LET r == requests[n] IN
    /\ r.op = "post" /\ r.at = "201" /\ r.id \notin gone
         => Traces(r.id) = IF r.kind = "session" THEN {"session", "snapshot"} ELSE {"preset"}
    /\ r.id \in gone => Traces(r.id) = {}
=============================================================================
