----------------------------- MODULE UndoHistory -----------------------------
(***************************************************************************)
(* A player's undo history over the shared project                         *)
(* (packages/client/src/app/undoHistory.ts, wired in app/AppRuntime.ts):    *)
(* what a burst of local edits records, how a drag merges, what undo and    *)
(* redo restore, and what the writes of others do to it.                    *)
(*                                                                         *)
(* A burst is one synchronous task, sealed by the microtask after it or by  *)
(* the undo that ends it, so a burst is one step and `open' is empty        *)
(* between steps.  A burst writes a leaf at most once, as every command of  *)
(* the client does: an entry is a function from the leaves to what the      *)
(* burst found there and what it left.                                      *)
(***************************************************************************)
EXTENDS Integers, Sequences

CONSTANTS
  Path,        \* leaf paths of the project
  Value,       \* leaf values
  Continuous,  \* leaves edited by dragging: gestureEndForLeaf is false
  Depth,       \* UNDO_DEPTH
  None         \* no leaf, no merge key

ASSUME UndoAssumption ==
  /\ Continuous \subseteq Path
  /\ Depth \in Nat \ {0}
  /\ None \notin Path

VARIABLES
  project,  \* the live project
  history,  \* the two stacks and the merge key
  foreign   \* history: leaves someone else wrote since the stacks were last cleared

vars == <<project, history, foreign>>

Project == [Path -> Value]
Leaf    == [before : Value, after : Value]

ASSUME NoneIsNoLeaf == None \notin Leaf

Entry   == [Path -> Leaf \cup {None}]
History == [undo : Seq(Entry), redo : Seq(Entry), mergeKey : Path \cup {None}]

NoHistory == [undo |-> <<>>, redo |-> <<>>, mergeKey |-> None]

Leaves(entry) == {p \in Path : entry[p] # None}

Init ==
  /\ project \in Project
  /\ history = NoHistory
  /\ foreign = {}

-----------------------------------------------------------------------------
(* Recording *)

\* What a burst that turns one project into another leaves to record: record drops
\* the writes that change nothing.
Burst(from, to) ==
  [p \in Path |-> IF from[p] = to[p] THEN None ELSE [before |-> from[p], after |-> to[p]]]

\* singleContinuousKey: the leaf of a burst that may continue a drag.
SingleContinuousKey(entry) ==
  IF \E p \in Continuous : Leaves(entry) = {p}
  THEN CHOOSE p \in Continuous : Leaves(entry) = {p}
  ELSE None

\* A push that lets the stack grow by one entry too many.
PushedOffByOne(stack, entry) ==
  IF Len(stack) = Depth + 1 THEN Append(Tail(stack), entry) ELSE Append(stack, entry)

\* Push, and shift the oldest entry out beyond UNDO_DEPTH.
Pushed(stack, entry) ==
  IF Len(stack) = Depth THEN Append(Tail(stack), entry) ELSE Append(stack, entry)

\* The burst is one more tick of the drag that made the newest entry.
Continues(h, entry) ==
  /\ SingleContinuousKey(entry) # None
  /\ SingleContinuousKey(entry) = h.mergeKey
  /\ h.undo # <<>>

\* The entry a drag merges into ends where the drag now is.
Continued(stack, p, value) ==
  LET top == stack[Len(stack)]
  IN [stack EXCEPT ![Len(stack)] = [top EXCEPT ![p] = [before |-> top[p].before, after |-> value]]]

\* The stack once a burst that recorded something is in.
Grown(h, entry) ==
  IF Continues(h, entry)
  THEN Continued(h.undo, h.mergeKey, entry[h.mergeKey].after)
  ELSE Pushed(h.undo, entry)

\* A seal that forgets to clear redo.
SealedKeepingRedo(h, entry) ==
  IF Leaves(entry) = {}
  THEN h
  ELSE [undo |-> Grown(h, entry), redo |-> h.redo, mergeKey |-> SingleContinuousKey(entry)]

\* seal: nothing recorded, a drag continued, or a new entry.
Sealed(h, entry) ==
  IF Leaves(entry) = {}
  THEN h
  ELSE [undo |-> Grown(h, entry), redo |-> <<>>, mergeKey |-> SingleContinuousKey(entry)]

-----------------------------------------------------------------------------
(* Undo and redo *)

\* Leaves restored whatever they hold by now.
CurrentUnchecked(entry, proj, held) == entry

\* The part of an entry that is not superseded: its leaves that still hold `held'.
Current(entry, proj, held) ==
  [p \in Path |-> IF entry[p] # None /\ proj[p] = entry[p][held] THEN entry[p] ELSE None]

\* The entries of a stack of which some leaf is current.
Restorable(stack, proj, held) == {i \in DOMAIN stack : Leaves(Current(stack[i], proj, held)) # {}}

\* The newest entry that can restore something; what is above it is stale and dropped.
Newest(indices) == CHOOSE i \in indices : \A j \in indices : j <= i

Restored(proj, applied, to) ==
  [p \in Path |-> IF applied[p] # None THEN applied[p][to] ELSE proj[p]]

\* What undo() makes of a project and a history.
Undone(proj, h) ==
  LET indices == Restorable(h.undo, proj, "after")
      i       == Newest(indices)
      applied == Current(h.undo[i], proj, "after")
  IN IF indices = {}
     THEN [project |-> proj, history |-> [h EXCEPT !.undo = <<>>, !.mergeKey = None]]
     ELSE [project |-> Restored(proj, applied, "before"),
           history |-> [undo     |-> SubSeq(h.undo, 1, i - 1),
                        redo     |-> Append(h.redo, applied),
                        mergeKey |-> None]]

\* What redo() makes of them.
Redone(proj, h) ==
  LET indices == Restorable(h.redo, proj, "before")
      i       == Newest(indices)
      applied == Current(h.redo[i], proj, "before")
  IN IF indices = {}
     THEN [project |-> proj, history |-> [h EXCEPT !.redo = <<>>, !.mergeKey = None]]
     ELSE [project |-> Restored(proj, applied, "after"),
           history |-> [undo     |-> Pushed(h.undo, applied),
                        redo     |-> SubSeq(h.redo, 1, i - 1),
                        mergeKey |-> None]]

-----------------------------------------------------------------------------

\* A burst of local edits, of whatever leaves.
Edit ==
  /\ project' \in Project
  /\ history' = Sealed(history, Burst(project, project'))
  /\ UNCHANGED foreign

\* The mouse button goes up on the knob or fader of a leaf.
EndGesture(p) ==
  /\ history' = [history EXCEPT !.mergeKey = IF @ = p THEN None ELSE @]
  /\ UNCHANGED <<project, foreign>>

Undo ==
  /\ history.undo # <<>>
  /\ project' = Undone(project, history).project
  /\ history' = Undone(project, history).history
  /\ UNCHANGED foreign

Redo ==
  /\ history.redo # <<>>
  /\ project' = Redone(project, history).project
  /\ history' = Redone(project, history).history
  /\ UNCHANGED foreign

\* A write that is not the player's: a peer's op or the rollback of a nack.
Remote(p, value) ==
  /\ project' = [project EXCEPT ![p] = value]
  /\ foreign' = foreign \cup {p}
  /\ UNCHANGED history

\* New, Open, a snapshot or another room.
LoadProject(next) ==
  /\ project' = next
  /\ history' = NoHistory
  /\ foreign' = {}

Next ==
  \/ Edit
  \/ \E p \in Path : EndGesture(p)
  \/ Undo
  \/ Redo
  \/ \E p \in Path, value \in Value : Remote(p, value)
  \/ \E next \in Project : LoadProject(next)

Spec == Init /\ [][Next]_vars

-----------------------------------------------------------------------------
(* Properties *)

\* The project and the stacks have their shapes; the stack stays within UNDO_DEPTH;
\* and a merge key names the only leaf of the newest entry, which is the one a drag
\* tick changes (seal's top.leaves[0]).
TypeOK ==
  /\ project \in Project
  /\ history \in History
  /\ foreign \subseteq Path
  /\ Len(history.undo) <= Depth
  /\ history.mergeKey # None =>
       /\ history.undo # <<>>
       /\ Leaves(history.undo[Len(history.undo)]) = {history.mergeKey}

\* Entry i is the newest below j in which p occurs, j - 1 counting as all of them.
Precedes(stack, i, j, p) ==
  /\ stack[i][p] # None
  /\ \A k \in (i + 1)..(j - 1) : stack[k][p] = None

\* Along p a stack is an unbroken chain: the newest entry meets the live value, and
\* each entry the one below it.  `near' is the end an entry shows to the newer side.
Chain(proj, stack, p, near, far) ==
  \A i \in DOMAIN stack :
    /\ Precedes(stack, i, Len(stack) + 1, p) => stack[i][p][near] = proj[p]
    /\ \A j \in (i + 1)..Len(stack) :
         Precedes(stack, i, j, p) /\ stack[j][p] # None => stack[i][p][near] = stack[j][p][far]

\* On a leaf nobody else has written, undo leads back through every value the player
\* gave it and redo forward again, whatever bursts, drags, skipped entries, dropped
\* oldest entries, undos and redos came between (undoHistory.ts; its spec: own edits,
\* gesture by gesture).
HistoryLinks ==
  \A p \in Path \ foreign :
    /\ Chain(project, history.undo, p, "after", "before")
    /\ Chain(project, history.redo, p, "before", "after")

\* An undo that is taken back at once changes nothing, whatever leaves it skipped
\* because someone else had written them (the redo mirror).
RedoUndoesUndo ==
  LET undone == Undone(project, history)
  IN Restorable(history.undo, project, "after") # {}
       => Redone(undone.project, undone.history).project = project
=============================================================================
