-------------------------------- MODULE Rack --------------------------------
(***************************************************************************)
(* The rack of track cards in the studio's overview: the order they are shown  *)
(* in, adding and removing them, and dragging one to another place            *)
(* (views/StudioView.vue), while peers reorder, add and remove them too.       *)
(*                                                                         *)
(* A card is its slot of the pool.  The order is of all slots, those that are    *)
(* not enabled among them, and only the enabled ones are shown.  A drag is the   *)
(* browser's run of events; whatever comes over the socket may come between    *)
(* any two of them.                                                         *)
(***************************************************************************)
EXTENDS Integers, Sequences, SequencesExt

CONSTANTS
  Slots,    \* the pool: 0..TRACK_POOL_SIZE - 1
  NoCard    \* null

VARIABLES
  trackOrder, \* every slot once
  enabled,    \* slots with a track
  drag,       \* [held, armed, dragging, target, before]: whether the browser drags a card,
              \* and what the view has noted of it
  asked       \* the card whose removal is being asked about

rackVars == <<trackOrder, enabled, drag, asked>>

AtRest == [held |-> FALSE, armed |-> NoCard, dragging |-> NoCard, target |-> NoCard, before |-> FALSE]
InPoolOrder == SetToSortSeq(Slots, <)

InitRack ==
  /\ trackOrder = InPoolOrder /\ enabled \in SUBSET Slots \ {{}}
  /\ drag = AtRest /\ asked = NoCard

\* orderedEnabledEntries
Shown(order, on) == SelectSeq(order, LAMBDA p : p \in on)
Place(s, p) == IF p \in ToSet(s) THEN CHOOSE i \in DOMAIN s : s[i] = p ELSE 0

\* The index looked up before the card is taken out.
MovedByOldIndex(order, moved, anchor) ==
  LET rest == SelectSeq(order, LAMBDA p : p # moved)
      at   == IF Place(order, anchor) = 0 THEN Len(rest) + 1 ELSE Place(order, anchor)
  IN IF moved = anchor THEN order ELSE InsertAt(rest, IF at > Len(rest) + 1 THEN Len(rest) + 1 ELSE at, moved)

\* moveTrackBefore; an anchor of null is the end.
MoveTrackBefore(order, moved, anchor) ==
  LET rest == SelectSeq(order, LAMBDA p : p # moved)
      at   == IF Place(rest, anchor) = 0 THEN Len(rest) + 1 ELSE Place(rest, anchor)
  IN IF moved = anchor THEN order ELSE InsertAt(rest, at, moved)

\* "after card X" is before the shown card that follows X.
CardAfter(order, on, target) ==
  LET s == Shown(order, on)
      i == Place(s, target)
  IN IF i = 0 \/ i = Len(s) THEN NoCard ELSE s[i + 1]

Anchor(target, before) == IF before THEN target ELSE CardAfter(trackOrder, enabled, target)

----------------------------------------------------------------------------
(* The browser's events.  Only cards that are shown get any. *)

ArmDrag(p, onHeader) ==
  /\ p \in enabled /\ ~drag.held
  /\ drag' = [drag EXCEPT !.armed = IF onHeader THEN p ELSE NoCard]
  /\ UNCHANGED <<trackOrder, enabled, asked>>

DragStart(p) ==
  /\ p \in enabled /\ drag.armed = p /\ ~drag.held
  /\ drag' = [drag EXCEPT !.dragging = p, !.held = TRUE]
  /\ UNCHANGED <<trackOrder, enabled, asked>>

DragOver(p, before) ==
  /\ p \in enabled /\ drag.dragging \notin {NoCard, p}
  /\ drag' = [drag EXCEPT !.target = p, !.before = before]
  /\ UNCHANGED <<trackOrder, enabled, asked>>

DragLeave(p) ==
  /\ p \in enabled /\ drag.target = p
  /\ drag' = [drag EXCEPT !.target = NoCard]
  /\ UNCHANGED <<trackOrder, enabled, asked>>

\* The order as it stands when the card is dropped.  Over the dragged card itself nothing has
\* told the browser that it may be dropped.
Drop(p) ==
  /\ p \in enabled /\ drag.dragging \notin {NoCard, p} /\ drag.target = p
  /\ trackOrder' = MoveTrackBefore(trackOrder, drag.dragging, Anchor(p, drag.before))
  /\ UNCHANGED <<enabled, drag, asked>>

DragEnd ==
  /\ drag.held /\ drag' = AtRest
  /\ UNCHANGED <<trackOrder, enabled, asked>>

\* The dragged card was removed by a peer: its handler has gone with it, and what the view
\* has noted stays, to meet the next drag or a file dragged in from outside.
DragEndUnheard ==
  /\ drag.held /\ drag.dragging \notin enabled
  /\ drag' = [drag EXCEPT !.held = FALSE]
  /\ UNCHANGED <<trackOrder, enabled, asked>>

----------------------------------------------------------------------------
(* Adding and removing. *)

AddTrack ==
  LET p == SetToSortSeq(Slots \ enabled, <)[1]
  IN /\ enabled # Slots
     /\ enabled' = enabled \cup {p}
     /\ trackOrder' = MoveTrackBefore(trackOrder, p, NoCard)
     /\ UNCHANGED <<drag, asked>>

AskRemove(p) ==
  /\ asked = NoCard /\ p \in enabled /\ enabled # {p}
  /\ asked' = p
  /\ UNCHANGED <<trackOrder, enabled, drag>>

\* removeTrack, of whatever the slot holds by now, and never of the last track.
AnswerRemove(ok) ==
  /\ asked # NoCard /\ asked' = NoCard
  /\ enabled' = IF ok /\ enabled # {asked} THEN enabled \ {asked} ELSE enabled
  /\ UNCHANGED <<trackOrder, drag>>

----------------------------------------------------------------------------
(* Peers: a reordering is any, taken here as swaps of neighbours. *)

PeerMoves(i) ==
  /\ i \in 1..(Len(trackOrder) - 1)
  /\ trackOrder' = [trackOrder EXCEPT ![i] = trackOrder[i + 1], ![i + 1] = trackOrder[i]]
  /\ UNCHANGED <<enabled, drag, asked>>

PeerToggles(p) ==
  /\ enabled' = IF p \in enabled THEN enabled \ {p} ELSE enabled \cup {p}
  /\ UNCHANGED <<trackOrder, drag, asked>>

NextRack ==
  \/ \E p \in Slots :
       \/ DragStart(p) \/ DragLeave(p) \/ Drop(p) \/ AskRemove(p) \/ PeerToggles(p)
       \/ \E side \in BOOLEAN : ArmDrag(p, side) \/ DragOver(p, side)
  \/ DragEnd \/ DragEndUnheard \/ AddTrack
  \/ \E ok \in BOOLEAN : AnswerRemove(ok)
  \/ \E i \in DOMAIN trackOrder : PeerMoves(i)

RackSpec == InitRack /\ [][NextRack]_rackVars

----------------------------------------------------------------------------

Others(s, p) == SelectSeq(s, LAMBDA q : q # p)

\* A dropped card lands beside the card it was dropped on, on the side that was shown, and the
\* other cards, those that are not shown among them, keep their order: whatever peers did to
\* the rack while the card was in the air.
LandsWhereShown(p) ==
  LET moved == drag.dragging
      after == Shown(trackOrder', enabled)
  IN /\ Others(trackOrder', moved) = Others(trackOrder, moved)
     /\ moved \in enabled =>
          Place(after, moved) = Place(after, p) + (IF drag.before THEN -1 ELSE 1)

DropLandsWhereShown == [][\A p \in Slots : Drop(p) => LandsWhereShown(p)]_rackVars
=============================================================================
