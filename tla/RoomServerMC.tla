---------------------------- MODULE RoomServerMC ----------------------------
(***************************************************************************)
(* The document of a room for TLC, with what stands around it: the rate      *)
(* limits, the library of sessions and presets, who is present, how a page    *)
(* keeps its connection, and what a project is in a room, a row and a file.    *)
(* The parts share no variable, so a behaviour explores one of them while      *)
(* the others rest: their states add up and need not be multiplied.  The      *)
(* modules that are instantiated take turns at the variables x1 to x9.         *)
(***************************************************************************)
EXTENDS RoomLog, TokenBuckets, Documents, Connection, TLC

VARIABLES part, x1, x2, x3, x4, x5, x6, x7, x8, x9

CONSTANTS
  c1, c2, p1, p2, v1, v2, Caller, MaxRequests, Tab, MaxIds, MaxEdits, MaxConns, TouchTtl

spare == <<x1, x2, x3, x4, x5, x6, x7, x8, x9>>
FourAtRest == x1 = 0 /\ x2 = 0 /\ x3 = 0 /\ x4 = 0
TwoAtRest == x5 = 0 /\ x6 = 0
LastAtRest == x7 = 0 /\ x8 = 0 /\ x9 = 0

Shelves == INSTANCE Library WITH
  Id <- RoomId, Nobody <- Guest, shelf <- x1, snapshots <- x2, rooms <- x3, requests <- x4, known <- x5, gone <- x6

Roster == INSTANCE Presence WITH
  NoUser <- Guest, identities <- x1, connected <- x2, conn <- x3, inbox <- x4, tab <- x5, touches <- x6, room <- x7,
  count <- x8, together <- x9

\* Someone signed in, and a guest.
MCCaller == {[user |-> "ann", client |-> "c1"], [user |-> Guest, client |-> "c2"]}

\* The two tabs of Presence are alike.
TabsAlike == Permutations(Tab)

----------------------------------------------------------------------------
(* The constants of RoomLog. *)

MCSeed == [p \in Path |-> v1]

MCLoadable == {[p \in Path |-> v2]}

\* c1 writes v2 then v1 on p1; c2 writes v1 on p1 then v2 on p2.
MCPayload ==
  (c1 :> (1 :> [path |-> p1, value |-> v2] @@ 2 :> [path |-> p1, value |-> v1])) @@
  (c2 :> (1 :> [path |-> p1, value |-> v1] @@ 2 :> [path |-> p2, value |-> v2]))

----------------------------------------------------------------------------

ServerInit ==
  /\ \/ part \in {"log", "limits", "documents", "connection"} /\ FourAtRest /\ TwoAtRest /\ LastAtRest
     \/ part = "library" /\ Shelves!InitLibrary /\ LastAtRest
     \/ part = "presence" /\ Roster!InitPresence
  /\ Init /\ InitBuckets /\ InitDocuments /\ InitConnection /\ (part # "limits" => watching = c1)

Outside == <<vars, bucketVars, documentVars, connVars, part>>

ServerNext ==
  \/ part = "log" /\ Next /\ UNCHANGED <<bucketVars, documentVars, connVars, spare, part>>
  \/ part = "limits" /\ NextBuckets /\ UNCHANGED <<vars, documentVars, connVars, spare, part>>
  \/ part = "documents" /\ NextDocuments /\ UNCHANGED <<vars, bucketVars, connVars, spare, part>>
  \/ part = "library" /\ Shelves!NextLibrary /\ UNCHANGED <<Outside, x7, x8, x9>>
  \/ part = "connection" /\ NextConnection /\ UNCHANGED <<vars, bucketVars, documentVars, spare, part>>
  \/ part = "presence" /\ Roster!NextPresence /\ UNCHANGED Outside

ServerSpec == ServerInit /\ [][ServerNext]_<<Outside, spare>>

----------------------------------------------------------------------------
(* The invariants of a part, asked of the states it is the one to move in. *)

\* Library: a request that was confirmed left the library whole.
LibraryIsWhole == part = "library" => Shelves!ConfirmedIsWhole

\* Presence: with nothing on its way a roster shows nobody who left, and everybody who is there
\* unless two hellos ran together; and the ring of an edit is removed in the end.
PeersAreShown == part = "presence" => Roster!RosterSettlesApart /\ Roster!TouchesAreSwept
=============================================================================
