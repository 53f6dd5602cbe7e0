------------------------------- MODULE Tracker -------------------------------
(***************************************************************************)
(* One player at the tracker: the row selection                            *)
(* (packages/client/src/stores/selection.ts), the step clipboard            *)
(* (stores/stepClipboard.ts), the keyboard commands                         *)
(* (keyboard/trackerCommands.ts) and the operations on steps                *)
(* (project/mutations.ts, app/projectOps.ts).                               *)
(*                                                                         *)
(* The selection, the clipboard and the project live apart: peers, undo and *)
(* the player's other controls write any leaf of the project between two    *)
(* commands, and nothing tells the selection.  It is checked against the    *)
(* project whenever it is read.                                             *)
(*                                                                         *)
(* An operation computes the steps it wants and dispatches the leaves in    *)
(* which they differ, in one synchronous task: the project then is what     *)
(* was wanted.  A step is its note and its mute flag; the other fields of a *)
(* step travel with the note.                                               *)
(***************************************************************************)
EXTENDS Integers, FiniteSetsExt, SequencesExt

CONSTANTS
  Track,     \* the pool of tracks
  Buffer,    \* STEP_BUFFER_SIZE, the rows of a track
  Length,    \* DEFAULT_PATTERN_LENGTH, the rows of a fresh track that play
  Note,      \* notes of a step
  Rest,      \* the note of a step that does not play
  FillNote,   \* the note fillTrack writes
  Opening,   \* the notes of every track of a project the player opens
  None,      \* no track, no step
  MaxEdits   \* bound: copies, and writes of the project

ASSUME TrackerAssumption ==
  /\ Buffer \in Nat \ {0} /\ Length \in 1..Buffer
  /\ Rest \in Note /\ FillNote \in Note
  /\ MaxEdits \in Nat
  /\ None \notin Track

Row  == 0..(Buffer - 1)
Step == [note : Note, muted : BOOLEAN]

ASSUME StepAssumption == Opening \in [Row -> Note] /\ None \notin Step

VARIABLES
  steps,          \* per track, its buffer of steps
  patternLength,  \* per track, the rows that play and render
  enabled,        \* the tracks in use
  selection,      \* trackId, anchor, head and frozen rows
  clipboard,      \* the copied span, None where a row was not selected
  edits           \* copies and writes of the project so far

project == <<steps, patternLength, enabled>>
vars == <<project, selection, clipboard, edits>>

FreshStep == [note |-> Rest, muted |-> FALSE]

Window(t) == {r \in Row : r < patternLength[t]}

-----------------------------------------------------------------------------
(* The selection *)

NoSelection == [track |-> None, anchor |-> 0, head |-> 0, frozen |-> {}]

Between(a, b) == IF a <= b THEN a..b ELSE b..a

\* validSelection.rows: none on a disabled track, and only those inside the window.
Rows ==
  IF selection.track \in enabled
  THEN Window(selection.track) \cap (Between(selection.anchor, selection.head) \cup selection.frozen)
  ELSE {}

\* clampToWindow, and validSelection.head, of the track of a valid selection.
Clamped(r) == Min({Max({r, 0}), patternLength[selection.track] - 1})
Cursor == Clamped(selection.head)

PlacedAt(t, r) == [track |-> t, anchor |-> r, head |-> r, frozen |-> {}]

\* clear: anchor and head stay, and are not read until a new selection is placed.
Cleared == [selection EXCEPT !.track = None, !.frozen = {}]

\* The row that is nearest to r, the lower of two.
Nearest(rows, r) ==
  LET Distance(x) == IF x <= r THEN r - x ELSE x - r
  IN CHOOSE x \in rows : \A y \in rows :
       Distance(x) < Distance(y) \/ (Distance(x) = Distance(y) /\ x <= y)

\* toggleRow taking a row out: the cursor stays if it can, else it is the nearest row.
Without(r) ==
  LET rest   == Rows \ {r}
      cursor == IF Cursor \in rest THEN Cursor ELSE Nearest(rest, r)
  IN IF rest = {}
     THEN Cleared
     ELSE [PlacedAt(selection.track, cursor) EXCEPT !.frozen = rest \ {cursor}]

\* toggleRow
Toggled(t, r) ==
  IF Rows = {} \/ selection.track # t THEN PlacedAt(t, r)
  ELSE IF r \in Rows THEN Without(r)
  ELSE [PlacedAt(t, r) EXCEPT !.frozen = Rows]

\* A shiftAll that forgets the rows of earlier cmd+clicks.
ShiftedActive(delta) == [selection EXCEPT !.anchor = @ + delta, !.head = @ + delta]

\* shiftAll: frozen rows, anchor and head, those outside the window too.
Shifted(delta) ==
  [selection EXCEPT !.anchor = @ + delta, !.head = @ + delta, !.frozen = {r + delta : r \in @}]

\* selectRows: exactly these, the cursor on the last.
Exactly(t, rows) == [PlacedAt(t, Max(rows)) EXCEPT !.frozen = rows \ {Max(rows)}]

-----------------------------------------------------------------------------
(* What the operations want: steps for some rows of a track *)

ClearDraft(rows) == [r \in rows |-> FreshStep]

\* Around the window; direction is the sign of delta.
ShiftDraft(t, delta) ==
  [r \in Window(t) |-> steps[t][(r - delta + patternLength[t]) % patternLength[t]]]

FillDraft(t, interval) ==
  [r \in {q \in Window(t) : q % interval = 0} |-> [note |-> FillNote, muted |-> FALSE]]

MuteDraft(t, rows) == [r \in rows |-> [steps[t][r] EXCEPT !.muted = ~@]]

\* The copied step that lands on row r of a paste at `start'.
CellFor(start, r) == clipboard[r - start + 1]

\* A paste clipped at the buffer, not the window.
PastedInBuffer(t, start) ==
  {r \in Row : r - start + 1 \in DOMAIN clipboard /\ CellFor(start, r) # None}

\* The rows a paste writes: those under a copied step, clipped at the window.
Pasted(t, start) ==
  {r \in Window(t) : r - start + 1 \in DOMAIN clipboard /\ CellFor(start, r) # None}

PasteDraft(t, start) == [r \in Pasted(t, start) |-> CellFor(start, r)]

\* The row of `others' in the place r has among `rows'.
InOrder(rows, others, r) ==
  CHOOSE o \in others :
    Cardinality({x \in others : x <= o}) = Cardinality({x \in rows : x <= r})

\* moveRowsDraft: the selected rows shift by delta and keep their gaps; the rows they
\* displace fill what they leave, in order.
MoveDraft(buffer, rows, delta) ==
  LET span    == (Min(rows) + Min({delta, 0}))..(Max(rows) + Max({delta, 0}))
      targets == {r + delta : r \in rows}
  IN [r \in span |-> IF r \in targets
                     THEN buffer[r - delta]
                     ELSE buffer[InOrder(span \ targets, span \ rows, r)]]

\* dispatchStepsRange: what a buffer becomes.
With(buffer, draft) == [r \in Row |-> IF r \in DOMAIN draft THEN draft[r] ELSE buffer[r]]

-----------------------------------------------------------------------------

FreshBuffer == [r \in Row |-> FreshStep]
OpenedBuffer == [r \in Row |-> [note |-> Opening[r], muted |-> FALSE]]

Init ==
  /\ steps = [t \in Track |-> OpenedBuffer]
  /\ patternLength = [t \in Track |-> Length]
  /\ enabled = Track
  /\ selection = NoSelection
  /\ clipboard = <<>>
  /\ edits = 0

Counted == edits < MaxEdits /\ edits' = edits + 1

Dispatch(t, draft) ==
  /\ Counted
  /\ steps' = [steps EXCEPT ![t] = With(@, draft)]
  /\ UNCHANGED <<patternLength, enabled>>

(* Selecting *)

Select(next) ==
  /\ selection' = next
  /\ UNCHANGED <<project, clipboard, edits>>

\* A press on a step number.
Place(t, r) == t \in enabled /\ r \in Window(t) /\ Select(PlacedAt(t, r))

\* Shift+press, or a drag over the step numbers.
ExtendTo(t, r) ==
  /\ t \in enabled /\ r \in Window(t)
  /\ Select(IF selection.track = t THEN [selection EXCEPT !.head = r] ELSE PlacedAt(t, r))

\* Cmd+press.
ToggleRow(t, r) == t \in enabled /\ r \in Window(t) /\ Select(Toggled(t, r))

\* Arrows collapse the selection onto the cursor, and move it.
MoveCursor(delta) ==
  /\ Rows # {}
  /\ Select(PlacedAt(selection.track, Clamped(Cursor + delta)))

\* Arrows without a selection start one at the top of the focused track.
SeedCursor(t) == Rows = {} /\ Select(PlacedAt(t, 0))

\* Shift+arrows.
ExtendCursor(delta) ==
  /\ Rows # {}
  /\ Select([selection EXCEPT !.head = Clamped(Cursor + delta)])

\* Escape, a press outside the cards, or focus in a field.
Deselect == selection.track # None /\ Select(Cleared)

(* Commands on the selection *)

\* The span from the first to the last selected row, with holes.
Copied(rows) ==
  [i \in 1..(Max(rows) - Min(rows) + 1) |->
     IF Min(rows) + i - 1 \in rows THEN steps[selection.track][Min(rows) + i - 1] ELSE None]

Copy ==
  /\ Rows # {}
  /\ clipboard' = Copied(Rows)
  /\ Counted
  /\ UNCHANGED <<project, selection>>

Cut ==
  /\ Rows # {}
  /\ clipboard' = Copied(Rows)
  /\ Dispatch(selection.track, ClearDraft(Rows))
  /\ UNCHANGED selection

ClearStepRows ==
  /\ Rows # {}
  /\ Dispatch(selection.track, ClearDraft(Rows))
  /\ UNCHANGED <<selection, clipboard>>

\* Over the top of the selection; what was written is selected.
Paste ==
  LET t == selection.track
  IN /\ clipboard # <<>> /\ Rows # {}
     /\ Dispatch(t, PasteDraft(t, Min(Rows)))
     /\ selection' = Exactly(t, Pasted(t, Min(Rows)))
     /\ UNCHANGED clipboard

ToggleMuteRows ==
  /\ Rows # {}
  /\ Dispatch(selection.track, MuteDraft(selection.track, Rows))
  /\ UNCHANGED <<selection, clipboard>>

\* Moved by delta, the selected rows stay in the window.
CanMove(delta) == Rows # {} /\ {r + delta : r \in Rows} \subseteq Window(selection.track)

\* Alt+arrows: nothing at the edge of the window, else the selection goes along.
MoveStepRows(delta) ==
  /\ CanMove(delta)
  /\ Dispatch(selection.track, MoveDraft(steps[selection.track], Rows, delta))
  /\ selection' = Shifted(delta)
  /\ UNCHANGED clipboard

(* Commands of a track's card *)

ClearTrack(t) ==
  /\ t \in enabled
  /\ Dispatch(t, ClearDraft(Window(t)))
  /\ UNCHANGED <<selection, clipboard>>

ShiftTrack(t, delta) ==
  /\ t \in enabled
  /\ Dispatch(t, ShiftDraft(t, delta))
  /\ UNCHANGED <<selection, clipboard>>

FillTrack(t, interval) ==
  /\ t \in enabled
  /\ Dispatch(t, FillDraft(t, interval))
  /\ UNCHANGED <<selection, clipboard>>

(* The project changes under the selection *)

\* Any note or mute flag: a peer's, an undo's, or one set in the step's row.
SetStep(t, r, step) ==
  /\ step.note = steps[t][r].note \/ step.muted = steps[t][r].muted
  /\ Dispatch(t, [q \in {r} |-> step])
  /\ UNCHANGED <<selection, clipboard>>

\* A peer's, an undo's or the player's own.
SetLength(t, n) ==
  /\ Counted
  /\ patternLength' = [patternLength EXCEPT ![t] = n]
  /\ UNCHANGED <<steps, enabled, selection, clipboard>>

\* removeTrack: never the last one.
RemoveTrack(t) ==
  /\ t \in enabled /\ enabled # {t}
  /\ Counted
  /\ enabled' = enabled \ {t}
  /\ UNCHANGED <<steps, patternLength, selection, clipboard>>

\* addTrack: a free slot of the pool, overwritten with a fresh track.
AddTrack(t) ==
  /\ t \notin enabled
  /\ Counted
  /\ enabled' = enabled \cup {t}
  /\ steps' = [steps EXCEPT ![t] = FreshBuffer]
  /\ patternLength' = [patternLength EXCEPT ![t] = Length]
  /\ UNCHANGED <<selection, clipboard>>

\* New: a snapshot or an opened file replaces the project in the same way.
NewProject(inUse) ==
  /\ Counted
  /\ steps' = [t \in Track |-> FreshBuffer]
  /\ patternLength' = [t \in Track |-> Length]
  /\ enabled' = inUse
  /\ UNCHANGED <<selection, clipboard>>

Command ==
  \/ Cut \/ ClearStepRows \/ Paste \/ ToggleMuteRows
  \/ \E delta \in {-1, 1} : MoveStepRows(delta)
  \/ \E t \in Track :
       \/ ClearTrack(t)
       \/ \E delta \in {-1, 1} : ShiftTrack(t, delta)
       \/ \E interval \in {1, 2} : FillTrack(t, interval)

Next ==
  \/ \E t \in Track, r \in Row : Place(t, r) \/ ExtendTo(t, r) \/ ToggleRow(t, r)
  \/ \E delta \in {-1, 1} : MoveCursor(delta) \/ ExtendCursor(delta)
  \/ \E t \in Track : SeedCursor(t)
  \/ Deselect
  \/ Copy
  \/ Command
  \/ \E t \in Track, r \in Row, step \in Step : SetStep(t, r, step)
  \/ \E t \in Track, n \in 1..Buffer : SetLength(t, n)
  \/ \E t \in Track : RemoveTrack(t) \/ AddTrack(t)
  \/ \E t \in Track : NewProject({t})

Spec == Init /\ [][Next]_vars

-----------------------------------------------------------------------------
(* Properties *)

\* The raw selection lies in the window, as it does until somebody shrinks the pattern.
Fits ==
  {selection.anchor, selection.head} \cup selection.frozen \subseteq Window(selection.track)

\* How many rows of a track hold a step.
Copies(buffer, step) == Cardinality({r \in Row : buffer[r] = step})

\* A move takes the selected steps and the selection along, gaps and all, and loses or
\* doubles no step (moveSelection: "move the constellation and carry the whole selection
\* with it").  A selection that a shrunk pattern has cut off does not come along whole:
\* its rows outside the window shift too, and may come back in.
MoveCarries ==
  \A delta \in {-1, 1} :
    MoveStepRows(delta) =>
      LET t == selection.track
      IN /\ \A r \in Rows : steps'[t][r + delta] = steps[t][r]
         /\ \A step \in Step : Copies(steps'[t], step) = Copies(steps[t], step)
         /\ {r + delta : r \in Rows} \subseteq Rows'
         /\ Fits => Rows' = {r + delta : r \in Rows}

MoveCarriesSelection == [][MoveCarries]_vars

\* What a paste wrote is what is selected after it, and what lies under a hole or
\* outside the pattern is as before: mute or cut after a paste hits exactly it.
PasteSelects ==
  Paste =>
    LET t == selection.track
    IN /\ Rows' # {}
       /\ \A r \in Row : steps'[t][r] = IF r \in Rows' THEN CellFor(Min(Rows), r) ELSE steps[t][r]

PasteSelectsWhatItWrote == [][PasteSelects]_vars

\* No command of the tracker touches a row beyond the pattern: a pattern that is
\* shortened, worked on and lengthened again has its tail as it was.
HiddenRowsStay ==
  \/ \A t \in Track : \A r \in Row \ Window(t) : steps'[t][r] = steps[t][r]
  \/ ~Command

HiddenRowsSurvive == [][HiddenRowsStay]_vars
=============================================================================
