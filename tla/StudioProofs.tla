---------------------------- MODULE StudioProofs ----------------------------
(***************************************************************************)
(* The properties of what the player's hands are on, in the studio StudioMC   *)
(* composes, proved for any tracks, any buffer and pattern length, and any     *)
(* number of visits.                                                         *)
(*                                                                         *)
(* The tracker needs little of its state to be true: types, and that a copied  *)
(* span starts with a copied step, so that a paste always writes the row it    *)
(* starts at and never leaves the selection empty.  What a move does is then   *)
(* counted: the rows that are displaced are as many as those that are left,    *)
(* each takes the place its rank gives it, and the whole is a permutation of   *)
(* the track's rows.                                                         *)
(*                                                                         *)
(* The keyboard needs that the commands registered are the mounted view's:     *)
(* none of those a held Escape reaches repeats.                                *)
(***************************************************************************)
EXTENDS StudioMC, FiniteSetTheorems, WellFoundedInduction, TLAPS
-----------------------------------------------------------------------------
(* Finite sets of rows *)

\* Sets of naturals have a least element.
LEMMA LeastNatural ==
  ASSUME NEW S \in SUBSET Nat, S # {}
  PROVE  \E n \in S : \A m \in S : n <= m
<1> DEFINE R == OpToRel(<, Nat)
<1>1. IsWellFoundedOn(R, Nat)
  BY NatLessThanWellFounded
<1>2. \A x, y \in Nat : y < x => <<y, x>> \in R
  BY DEF OpToRel
<1> HIDE DEF R
<1>3. PICK x \in S : \A y \in S : ~(<<y, x>> \in R)
  BY <1>1, WFMin
<1>4. \A m \in S : x <= m
  <2> TAKE m \in S
  <2>1. m \in Nat /\ x \in Nat
    OBVIOUS
  <2>2. ~(m < x)
    BY <1>2, <1>3, <2>1
  <2> QED
    BY <2>1, <2>2
<1> QED
  BY <1>4

LEMMA MinOfNaturals ==
  ASSUME NEW S \in SUBSET Nat, S # {}
  PROVE  Min(S) \in S /\ \A r \in S : Min(S) <= r
BY LeastNatural DEF Min

\* Sets of rows have a greatest one.
LEMMA MaxOfRows ==
  ASSUME NEW n \in Nat, NEW S \in SUBSET (0..n), S # {}
  PROVE  Max(S) \in S /\ \A r \in S : r <= Max(S)
<1> DEFINE U == {k \in Nat : \A i \in S : i <= k}
<1>1. n \in U
  OBVIOUS
<1>2. PICK u \in U : \A m \in U : u <= m
  <2>1. U \in SUBSET Nat
    OBVIOUS
  <2> HIDE DEF U
  <2> QED
    BY <1>1, <2>1, LeastNatural
<1>3. u \in Nat /\ \A i \in S : i <= u
  OBVIOUS
<1>4. u \in S
  <2>1. SUFFICES ASSUME u \notin S PROVE FALSE
    OBVIOUS
  <2>2. \A i \in S : i <= u - 1
    BY <1>3, <2>1
  <2>3. PICK i \in S : i \in 0..n
    OBVIOUS
  <2>4. u - 1 \in Nat
    BY <1>3, <2>2, <2>3
  <2>5. u - 1 \in U
    BY <2>2, <2>4
  <2> QED
    BY <2>5, <1>2, <1>3
<1>5. \A y \in S : u >= y
  BY <1>3
<1> QED
  BY <1>4, <1>5 DEF Max

LEMMA MaxOfTwo == ASSUME NEW a \in Int, NEW b \in Int PROVE Max({a, b}) = IF a >= b THEN a ELSE b
BY DEF Max

LEMMA MinOfTwo == ASSUME NEW a \in Int, NEW b \in Int PROVE Min({a, b}) = IF a <= b THEN a ELSE b
BY DEF Min

-----------------------------------------------------------------------------
(* The tracker *)

\* A copied span starts with a copied step.
Span(s) ==
  s = <<>> \/ \E n \in Nat \ {0} : s \in [1..n -> Step \cup {None}] /\ s[1] # None

TrackerInv ==
  /\ steps \in [Track -> [Row -> Step]]
  /\ patternLength \in [Track -> 1..Buffer]
  /\ enabled \subseteq Track
  /\ selection \in [track : Track \cup {None}, anchor : Int, head : Int, frozen : SUBSET Int]
  /\ Span(clipboard)

LEMMA RowsAreShown ==
  ASSUME TrackerInv
  PROVE  /\ Rows \subseteq Row
         /\ Rows # {} => /\ selection.track \in enabled /\ selection.track \in Track
                         /\ Rows \subseteq Window(selection.track)
BY DEF Rows, Window, Row, TrackerInv

LEMMA EdgesOfRows ==
  ASSUME NEW S \in SUBSET Row, S # {}
  PROVE  /\ Min(S) \in S /\ Max(S) \in S
         /\ \A r \in S : Min(S) <= r /\ r <= Max(S)
<1>1. Buffer - 1 \in Nat /\ S \in SUBSET Nat /\ S \in SUBSET (0..(Buffer - 1))
  BY TrackerAssumption DEF Row
<1> QED
  BY <1>1, MinOfNaturals, MaxOfRows

LEMMA TrackerInit == Init => TrackerInv
BY TrackerAssumption, StepAssumption
   DEF Init, TrackerInv, OpenedBuffer, NoSelection, Span, Step, Row

-----------------------------------------------------------------------------
(* Selecting *)

LEMMA ClampedIsARow ==
  ASSUME TrackerInv, Rows # {}, NEW r \in Int
  PROVE  Clamped(r) \in Window(selection.track) /\ Clamped(r) \in Int
<1>1. patternLength[selection.track] \in 1..Buffer
  BY RowsAreShown DEF TrackerInv
<1>2. Max({r, 0}) \in Nat
  BY MaxOfTwo
<1>3. Clamped(r) = IF Max({r, 0}) <= patternLength[selection.track] - 1 THEN Max({r, 0})
                   ELSE patternLength[selection.track] - 1
  BY <1>1, <1>2, MinOfTwo DEF Clamped
<1> QED
  BY <1>1, <1>2, <1>3, TrackerAssumption DEF Window, Row

LEMMA NearestIsOne ==
  ASSUME NEW S \in SUBSET Nat, S # {}, NEW r \in Nat
  PROVE  Nearest(S, r) \in S
<1> DEFINE Distance(x) == IF x <= r THEN r - x ELSE x - r
           D == {Distance(x) : x \in S}
<1>1. D \in SUBSET Nat /\ D # {}
  OBVIOUS
<1>2. PICK d \in D : \A e \in D : d <= e
  <2> HIDE DEF D
  <2> QED
    BY <1>1, LeastNatural
<1> DEFINE E == {x \in S : Distance(x) = d}
<1>3. E \in SUBSET Nat /\ E # {}
  OBVIOUS
<1>4. PICK x \in E : \A y \in E : x <= y
  <2> HIDE DEF E
  <2> QED
    BY <1>3, LeastNatural
<1>5. x \in S /\ \A y \in S : Distance(x) < Distance(y) \/ (Distance(x) = Distance(y) /\ x <= y)
  <2>1. x \in S /\ Distance(x) = d
    OBVIOUS
  <2>2. ASSUME NEW y \in S PROVE Distance(x) < Distance(y) \/ (Distance(x) = Distance(y) /\ x <= y)
    <3>1. Distance(y) \in D
      OBVIOUS
    <3>2. d <= Distance(y) /\ d \in Int /\ Distance(y) \in Int
      BY <1>1, <1>2, <3>1
    <3>3. Distance(y) = d => x <= y
      BY <1>4
    <3> HIDE DEF Distance
    <3> QED
      BY <2>1, <3>2, <3>3
  <2> QED
    BY <2>1, <2>2
<1> QED
  BY <1>5 DEF Nearest

LEMMA PlacedTypes ==
  ASSUME NEW t \in Track, NEW r \in Int
  PROVE  PlacedAt(t, r) \in [track : Track \cup {None}, anchor : Int, head : Int, frozen : SUBSET Int]
BY DEF PlacedAt

LEMMA SelectKeeps ==
  ASSUME TrackerInv,
         NEW s \in [track : Track \cup {None}, anchor : Int, head : Int, frozen : SUBSET Int],
         Select(s)
  PROVE  TrackerInv'
BY DEF TrackerInv, Select, project, Span, Row

LEMMA ToggledTypes ==
  ASSUME TrackerInv, NEW t \in Track, NEW r \in Row
  PROVE  Toggled(t, r) \in [track : Track \cup {None}, anchor : Int, head : Int, frozen : SUBSET Int]
<1> r \in Nat
  BY DEF Row
<1> Row \subseteq Int
  BY DEF Row
<1>1. CASE Rows = {} \/ selection.track # t
  BY <1>1, PlacedTypes DEF Toggled
<1>2. CASE Rows # {} /\ selection.track = t /\ r \notin Rows
  BY <1>2, PlacedTypes, RowsAreShown DEF Toggled, PlacedAt
<1>3. CASE Rows # {} /\ selection.track = t /\ r \in Rows
  <2>1. Toggled(t, r) = Without(r)
    BY <1>3 DEF Toggled
  <2>2. CASE Rows \ {r} = {}
    <3>1. Without(r) = Cleared
      BY <2>2 DEF Without
    <3> QED
      BY <2>1, <3>1 DEF Cleared, TrackerInv
  <2>3. CASE Rows \ {r} # {}
    <3>1. Rows \ {r} \in SUBSET Nat /\ Rows \ {r} \in SUBSET Int
      BY RowsAreShown DEF Row
    <3>2. Nearest(Rows \ {r}, r) \in Rows \ {r}
      BY <2>3, <3>1, NearestIsOne
    <3>3. PICK c \in Rows \ {r} : Without(r) = [PlacedAt(selection.track, c) EXCEPT !.frozen = (Rows \ {r}) \ {c}]
      BY <2>3, <3>2 DEF Without
    <3> QED
      BY <1>3, <2>1, <3>1, <3>3 DEF PlacedAt
  <2> QED
    BY <2>2, <2>3
<1> QED
  BY <1>1, <1>2, <1>3

LEMMA SelectingKeeps ==
  ASSUME TrackerInv,
         \/ \E t \in Track, r \in Row : Place(t, r) \/ ExtendTo(t, r) \/ ToggleRow(t, r)
         \/ \E delta \in {-1, 1} : MoveCursor(delta) \/ ExtendCursor(delta)
         \/ \E t \in Track : SeedCursor(t)
         \/ Deselect
  PROVE  TrackerInv'
<1> Row \subseteq Int
  BY DEF Row
<1>1. ASSUME NEW t \in Track, NEW r \in Row, Place(t, r) PROVE TrackerInv'
  BY <1>1, PlacedTypes, SelectKeeps DEF Place
<1>2. ASSUME NEW t \in Track, NEW r \in Row, ExtendTo(t, r) PROVE TrackerInv'
  <2> DEFINE s == IF selection.track = t THEN [selection EXCEPT !.head = r] ELSE PlacedAt(t, r)
  <2>1. s \in [track : Track \cup {None}, anchor : Int, head : Int, frozen : SUBSET Int]
    BY PlacedTypes DEF TrackerInv
  <2>2. Select(s)
    BY <1>2 DEF ExtendTo
  <2> HIDE DEF s
  <2> QED
    BY <2>1, <2>2, SelectKeeps
<1>3. ASSUME NEW t \in Track, NEW r \in Row, ToggleRow(t, r) PROVE TrackerInv'
  BY <1>3, ToggledTypes, SelectKeeps DEF ToggleRow
<1>4. ASSUME NEW delta \in {-1, 1}, MoveCursor(delta) \/ ExtendCursor(delta) PROVE TrackerInv'
  <2>1. Rows # {} /\ selection.track \in Track /\ delta \in Int
    BY <1>4, RowsAreShown DEF MoveCursor, ExtendCursor
  <2>2. Cursor \in Int
    BY <2>1, ClampedIsARow DEF Cursor, TrackerInv
  <2>3. Clamped(Cursor + delta) \in Int
    BY <2>1, <2>2, ClampedIsARow
  <2>4. CASE MoveCursor(delta)
    BY <2>1, <2>3, <2>4, PlacedTypes, SelectKeeps DEF MoveCursor
  <2>5. CASE ExtendCursor(delta)
    <3> DEFINE s == [selection EXCEPT !.head = Clamped(Cursor + delta)]
    <3>1. s \in [track : Track \cup {None}, anchor : Int, head : Int, frozen : SUBSET Int]
      BY <2>3 DEF TrackerInv
    <3>2. Select(s)
      BY <2>5 DEF ExtendCursor
    <3> HIDE DEF s
    <3> QED
      BY <3>1, <3>2, SelectKeeps
  <2> QED
    BY <1>4, <2>4, <2>5
<1>5. ASSUME NEW t \in Track, SeedCursor(t) PROVE TrackerInv'
  <2>1. Select(PlacedAt(t, 0)) /\ 0 \in Int
    BY <1>5 DEF SeedCursor
  <2> QED
    BY <2>1, PlacedTypes, SelectKeeps
<1>6. CASE Deselect
  <2>1. Cleared \in [track : Track \cup {None}, anchor : Int, head : Int, frozen : SUBSET Int]
    BY DEF Cleared, TrackerInv
  <2> QED
    BY <1>6, <2>1, SelectKeeps DEF Deselect
<1> QED
  BY <1>1, <1>2, <1>3, <1>4, <1>5, <1>6

-----------------------------------------------------------------------------
(* Commands: what each wants for the rows of a track, and that it reaches no hidden one *)

\* A draft for some rows of a track's window.
Drafts(t, draft) ==
  DOMAIN draft \subseteq Window(t) /\ \A r \in DOMAIN draft : draft[r] \in Step

LEMMA DispatchKeeps ==
  ASSUME TrackerInv, NEW t \in Track, NEW draft, DOMAIN draft \subseteq Row,
         \A r \in DOMAIN draft : draft[r] \in Step, Dispatch(t, draft)
  PROVE  /\ steps' \in [Track -> [Row -> Step]]
         /\ patternLength' = patternLength /\ enabled' = enabled
         /\ \A r \in Row : steps'[t][r] = IF r \in DOMAIN draft THEN draft[r] ELSE steps[t][r]
         /\ \A u \in Track \ {t} : steps'[u] = steps[u]
<1>1. steps \in [Track -> [Row -> Step]]
  BY DEF TrackerInv
<1>2. steps' = [steps EXCEPT ![t] = With(steps[t], draft)]
  BY DEF Dispatch
<1>3. With(steps[t], draft) \in [Row -> Step]
  BY <1>1 DEF With
<1>4. \A r \in Row : With(steps[t], draft)[r] = IF r \in DOMAIN draft THEN draft[r] ELSE steps[t][r]
  BY DEF With
<1> HIDE DEF With
<1>5. patternLength' = patternLength /\ enabled' = enabled
  BY DEF Dispatch
<1> QED
  BY <1>1, <1>2, <1>3, <1>4, <1>5

\* What a command that writes a draft within the window does.
Commands(t, draft) ==
  /\ t \in Track /\ Drafts(t, draft) /\ Dispatch(t, draft)

LEMMA CommandsStay ==
  ASSUME TrackerInv, NEW t, NEW draft, Commands(t, draft)
  PROVE  HiddenRowsStay
<1>1. t \in Track /\ DOMAIN draft \subseteq Window(t) /\ DOMAIN draft \subseteq Row
  BY DEF Commands, Drafts, Window
<1>2. /\ \A r \in Row : steps'[t][r] = IF r \in DOMAIN draft THEN draft[r] ELSE steps[t][r]
      /\ \A u \in Track \ {t} : steps'[u] = steps[u]
  BY <1>1, DispatchKeeps DEF Commands, Drafts
<1> QED
  BY <1>1, <1>2 DEF HiddenRowsStay

LEMMA ClearsWithin ==
  ASSUME NEW t \in Track, NEW rows, rows \subseteq Window(t)
  PROVE  Drafts(t, ClearDraft(rows))
<1>1. FreshStep \in Step
  BY TrackerAssumption DEF FreshStep, Step
<1> QED
  BY <1>1 DEF Drafts, ClearDraft

LEMMA MutesWithin ==
  ASSUME TrackerInv, NEW t \in Track, NEW rows, rows \subseteq Window(t)
  PROVE  Drafts(t, MuteDraft(t, rows))
<1>1. \A r \in rows : steps[t][r] \in Step
  BY DEF TrackerInv, Window
<1>2. \A s \in Step : [s EXCEPT !.muted = ~@] \in Step
  BY DEF Step
<1> QED
  BY <1>1, <1>2 DEF Drafts, MuteDraft

LEMMA ShiftsWithin ==
  ASSUME TrackerInv, NEW t \in Track, NEW delta \in {-1, 1}
  PROVE  Drafts(t, ShiftDraft(t, delta))
<1>1. patternLength[t] \in 1..Buffer /\ Buffer \in Nat
  BY TrackerAssumption DEF TrackerInv
<1>2. ASSUME NEW r \in Window(t) PROVE (r - delta + patternLength[t]) % patternLength[t] \in Row
  <2>1. r - delta + patternLength[t] \in Int
    BY <1>1 DEF Window, Row
  <2>2. (r - delta + patternLength[t]) % patternLength[t] \in 0..(patternLength[t] - 1)
    BY <1>1, <2>1
  <2> QED
    BY <1>1, <2>2 DEF Row
<1>3. \A r \in Window(t) : steps[t][(r - delta + patternLength[t]) % patternLength[t]] \in Step
  BY <1>2 DEF TrackerInv
<1> QED
  BY <1>3 DEF Drafts, ShiftDraft

LEMMA FillsWithin ==
  ASSUME TrackerInv, NEW t \in Track, NEW interval \in {1, 2}
  PROVE  Drafts(t, FillDraft(t, interval))
<1>1. [note |-> FillNote, muted |-> FALSE] \in Step
  BY TrackerAssumption DEF Step
<1> QED
  BY <1>1 DEF Drafts, FillDraft

LEMMA PastesWithin ==
  ASSUME TrackerInv, NEW t \in Track, NEW start \in Row
  PROVE  Drafts(t, PasteDraft(t, start))
<1>1. \A i \in DOMAIN clipboard : clipboard[i] \in Step \cup {None}
  BY DEF TrackerInv, Span
<1>2. \A r \in Pasted(t, start) : CellFor(start, r) \in Step
  BY <1>1 DEF Pasted, CellFor
<1>3. Pasted(t, start) \subseteq Window(t)
  BY DEF Pasted
<1> HIDE DEF Pasted, CellFor
<1> QED
  BY <1>2, <1>3 DEF Drafts, PasteDraft

-----------------------------------------------------------------------------
(* A move is a permutation of the rows *)

\* What moved rows and those they displace span.
MovedSpan(rows, delta) == (Min(rows) + Min({delta, 0}))..(Max(rows) + Max({delta, 0}))

MovedTo(rows, delta) == {r + delta : r \in rows}

LEMMA MovedSpanHolds ==
  ASSUME NEW rows \in SUBSET Row, rows # {}, NEW delta \in {-1, 1}
  PROVE  /\ rows \subseteq MovedSpan(rows, delta)
         /\ MovedTo(rows, delta) \subseteq MovedSpan(rows, delta)
         /\ IsFiniteSet(MovedSpan(rows, delta)) /\ MovedSpan(rows, delta) \subseteq Int
         /\ \A r \in MovedSpan(rows, delta) :
              \E a, b \in rows \cup MovedTo(rows, delta) : a <= r /\ r <= b
<1> DEFINE m == Min(rows)
           M == Max(rows)
<1>1. m \in rows /\ M \in rows /\ \A r \in rows : m <= r /\ r <= M
  BY EdgesOfRows
<1> HIDE DEF m, M
<1>2. m \in Int /\ M \in Int /\ rows \subseteq Int
  BY <1>1 DEF Row
<1>3. Max({delta, 0}) = (IF delta >= 0 THEN delta ELSE 0) /\ Min({delta, 0}) = (IF delta <= 0 THEN delta ELSE 0)
  BY MaxOfTwo, MinOfTwo
<1>4. MovedSpan(rows, delta) = (m + (IF delta <= 0 THEN delta ELSE 0))..(M + (IF delta >= 0 THEN delta ELSE 0))
  BY <1>3 DEF MovedSpan, m, M
<1>5. rows \subseteq MovedSpan(rows, delta) /\ MovedSpan(rows, delta) \subseteq Int
  BY <1>1, <1>2, <1>4
<1>6. MovedTo(rows, delta) \subseteq MovedSpan(rows, delta)
  BY <1>1, <1>2, <1>4 DEF MovedTo
<1>7. IsFiniteSet(MovedSpan(rows, delta))
  BY <1>2, <1>4, FS_Interval
<1>8. /\ m \in rows /\ M \in rows /\ m + delta \in MovedTo(rows, delta) /\ M + delta \in MovedTo(rows, delta)
  BY <1>1 DEF MovedTo
<1>9. \A r \in MovedSpan(rows, delta) :
        \E a, b \in rows \cup MovedTo(rows, delta) : a <= r /\ r <= b
  <2>1. CASE delta = 1
    BY <1>2, <1>4, <1>8, <2>1
  <2>2. CASE delta = -1
    BY <1>2, <1>4, <1>8, <2>2
  <2> QED
    BY <2>1, <2>2
<1> QED
  BY <1>5, <1>6, <1>7, <1>9

\* Two rows of a set have different places in it.
LEMMA PlacesDiffer ==
  ASSUME NEW S \in SUBSET Int, IsFiniteSet(S), NEW a \in S, NEW b \in S,
         Cardinality({x \in S : x <= a}) = Cardinality({x \in S : x <= b})
  PROVE  a = b
<1>1. ASSUME NEW c \in S, NEW d \in S, c < d,
             Cardinality({x \in S : x <= c}) = Cardinality({x \in S : x <= d})
      PROVE  FALSE
  <2> DEFINE C0 == {x \in S : x <= c}
             D0 == {x \in S : x <= d}
  <2>1. C0 \subseteq D0 /\ D0 \in SUBSET S
    <3>1. \A x \in S : x <= c => x <= d
      BY <1>1
    <3> QED
      BY <3>1
  <2>2. d \in D0 /\ d \notin C0
    BY <1>1
  <2>3. Cardinality(C0) = Cardinality(D0)
    BY <1>1
  <2> HIDE DEF C0, D0
  <2>4. IsFiniteSet(D0)
    BY <2>1, FS_Subset
  <2>5. C0 = D0
    BY <2>1, <2>3, <2>4, FS_Subset
  <2> QED
    BY <2>2, <2>5
<1>2. a \in Int /\ b \in Int
  OBVIOUS
<1> QED
  BY <1>1, <1>2

LEMMA InOrderFinds ==
  ASSUME NEW A \in SUBSET Int, NEW B \in SUBSET Int, IsFiniteSet(A), IsFiniteSet(B),
         Cardinality(A) = Cardinality(B), NEW r \in A
  PROVE  /\ InOrder(A, B, r) \in B
         /\ Cardinality({x \in B : x <= InOrder(A, B, r)}) = Cardinality({x \in A : x <= r})
<1> DEFINE n == Cardinality(B)
           places == [o \in B |-> Cardinality({x \in B : x <= o})]
<1>1. n \in Nat
  BY FS_CardinalityType
<1>2. ASSUME NEW S \in SUBSET Int, IsFiniteSet(S), NEW o \in S
      PROVE  Cardinality({x \in S : x <= o}) \in 1..Cardinality(S)
  <2> DEFINE U == {x \in S : x <= o}
  <2>1. IsFiniteSet(U) /\ Cardinality(U) <= Cardinality(S)
    BY <1>2, FS_Subset
  <2>2. o \in U
    BY <1>2
  <2> HIDE DEF U
  <2>3. Cardinality(U) \in Nat /\ Cardinality(S) \in Nat
    BY <1>2, <2>1, FS_CardinalityType
  <2>4. Cardinality(U) # 0
    BY <2>1, <2>2, FS_EmptySet
  <2> QED
    BY <2>1, <2>3, <2>4 DEF U
<1>3. places \in [B -> 1..n]
  BY <1>2
<1>4. places \in Injection(B, 1..n)
  <2>1. \A a, b \in B : places[a] = places[b] => a = b
    BY PlacesDiffer
  <2> QED
    BY <1>3, <2>1 DEF Injection, IsInjective
<1>5. IsFiniteSet(1..n) /\ Cardinality(1..n) = n
  BY <1>1, FS_Interval
<1>6. places \in Surjection(B, 1..n)
  <2> HIDE DEF places
  <2> QED
    BY <1>4, <1>5, FS_Injection
<1>7. Cardinality({x \in A : x <= r}) \in 1..n
  BY <1>2
<1>8. \E o \in B : places[o] = Cardinality({x \in A : x <= r})
  <2> HIDE DEF places
  <2> QED
    BY <1>6, <1>7 DEF Surjection
<1>9. \E o \in B : Cardinality({x \in B : x <= o}) = Cardinality({x \in A : x <= r})
  BY <1>8
<1> QED
  BY <1>9 DEF InOrder

\* As many rows are displaced as are left.
LEMMA AsManyLeft ==
  ASSUME NEW rows \in SUBSET Row, rows # {}, NEW delta \in {-1, 1}
  PROVE  /\ IsFiniteSet(MovedSpan(rows, delta) \ MovedTo(rows, delta))
         /\ IsFiniteSet(MovedSpan(rows, delta) \ rows)
         /\ Cardinality(MovedSpan(rows, delta) \ MovedTo(rows, delta))
              = Cardinality(MovedSpan(rows, delta) \ rows)
<1> DEFINE sp == MovedSpan(rows, delta)
           to == MovedTo(rows, delta)
<1>1. /\ rows \subseteq sp /\ to \subseteq sp /\ IsFiniteSet(sp) /\ rows \subseteq Int
  BY MovedSpanHolds DEF Row
<1>2. IsFiniteSet(rows)
  BY <1>1, FS_Subset
<1>3. Cardinality(to) = Cardinality(rows)
  <2> DEFINE f == [r \in rows |-> r + delta]
  <2>1. f \in Bijection(rows, to)
    BY <1>1 DEF Bijection, Injection, Surjection, IsInjective, MovedTo
  <2> QED
    BY <1>2, <2>1, FS_Bijection DEF ExistsBijection
<1> HIDE DEF sp, to
<1>4. sp \cap rows = rows /\ sp \cap to = to
  BY <1>1
<1>5. /\ IsFiniteSet(sp \ rows) /\ IsFiniteSet(sp \ to)
      /\ Cardinality(sp \ rows) = Cardinality(sp) - Cardinality(rows)
      /\ Cardinality(sp \ to) = Cardinality(sp) - Cardinality(to)
  <2>1. Cardinality(sp \ rows) = Cardinality(sp) - Cardinality(sp \cap rows)
    BY <1>1, FS_Difference
  <2>2. Cardinality(sp \ to) = Cardinality(sp) - Cardinality(sp \cap to)
    BY <1>1, FS_Difference
  <2>3. IsFiniteSet(sp \ rows) /\ IsFiniteSet(sp \ to)
    BY <1>1, FS_Difference
  <2> QED
    BY <1>4, <2>1, <2>2, <2>3
<1>6. Cardinality(sp \ to) = Cardinality(sp \ rows)
  BY <1>3, <1>5
<1> QED
  BY <1>5, <1>6 DEF sp, to

\* Steps in other rows are as many as before.
LEMMA CopiesKept ==
  ASSUME NEW old, NEW new, NEW perm \in [Row -> Row],
         \A a, b \in Row : perm[a] = perm[b] => a = b,
         \A r \in Row : new[r] = old[perm[r]],
         NEW step
  PROVE  Copies(new, step) = Copies(old, step)
<1> DEFINE P == {r \in Row : new[r] = step}
           Q == {r \in Row : old[r] = step}
           f == [r \in P |-> perm[r]]
<1>1. IsFiniteSet(Row)
  <2>1. Buffer - 1 \in Int /\ 0 \in Int
    BY TrackerAssumption
  <2> QED
    BY <2>1, FS_Interval DEF Row
<1>2. perm \in Surjection(Row, Row)
  <2>1. perm \in Injection(Row, Row)
    BY DEF Injection, IsInjective
  <2> QED
    BY <1>1, <2>1, FS_Injection
<1>3. \A q \in Row : \E r \in Row : perm[r] = q
  BY <1>2 DEF Surjection
<1>4. f \in [P -> Q] /\ \A a, b \in P : f[a] = f[b] => a = b
  OBVIOUS
<1>5. \A q \in Q : \E r \in P : f[r] = q
  BY <1>3
<1> HIDE DEF f
<1>6. f \in Bijection(P, Q)
  BY <1>4, <1>5 DEF Bijection, Injection, Surjection, IsInjective
<1>7. IsFiniteSet(P)
  BY <1>1, FS_Subset
<1> HIDE DEF P, Q
<1>8. Cardinality(Q) = Cardinality(P)
  BY <1>6, <1>7, FS_Bijection DEF ExistsBijection
<1> QED
  BY <1>8 DEF Copies, P, Q

\* The row whose step comes to r in a move.
ComesFrom(rows, delta, r) ==
  IF r \in MovedTo(rows, delta) THEN r - delta
  ELSE IF r \in MovedSpan(rows, delta)
       THEN InOrder(MovedSpan(rows, delta) \ MovedTo(rows, delta), MovedSpan(rows, delta) \ rows, r)
  ELSE r

LEMMA ComesFromOne ==
  ASSUME NEW rows \in SUBSET Row, rows # {}, NEW delta \in {-1, 1}, MovedSpan(rows, delta) \subseteq Row
  PROVE  \A r \in Row :
           /\ ComesFrom(rows, delta, r) \in Row
           /\ r \in MovedTo(rows, delta) => ComesFrom(rows, delta, r) \in rows
           /\ r \in MovedSpan(rows, delta) \ MovedTo(rows, delta) =>
                ComesFrom(rows, delta, r) \in MovedSpan(rows, delta) \ rows
<1> DEFINE sp == MovedSpan(rows, delta)
           to == MovedTo(rows, delta)
<1>1. rows \subseteq sp /\ to \subseteq sp /\ sp \subseteq Row /\ sp \subseteq Int /\ rows \subseteq Int
  BY MovedSpanHolds DEF Row
<1> TAKE r \in Row
<1>2. CASE r \in to
  <2>1. PICK q \in rows : r = q + delta
    BY <1>2 DEF MovedTo
  <2>2. ComesFrom(rows, delta, r) = q
    BY <1>1, <1>2, <2>1 DEF ComesFrom
  <2> QED
    BY <1>1, <1>2, <2>2
<1>3. CASE r \in sp \ to
  <2>1. ComesFrom(rows, delta, r) = InOrder(sp \ to, sp \ rows, r)
    BY <1>3 DEF ComesFrom
  <2> HIDE DEF sp, to
  <2>2. sp \ to \in SUBSET Int /\ sp \ rows \in SUBSET Int
    BY <1>1
  <2>3. IsFiniteSet(sp \ to) /\ IsFiniteSet(sp \ rows) /\ Cardinality(sp \ to) = Cardinality(sp \ rows)
    BY AsManyLeft DEF sp, to
  <2>4. InOrder(sp \ to, sp \ rows, r) \in sp \ rows
    BY <1>3, <2>2, <2>3, InOrderFinds
  <2>5. ComesFrom(rows, delta, r) \in sp \ rows /\ ComesFrom(rows, delta, r) \in Row
    BY <1>1, <2>1, <2>4
  <2> QED
    BY <1>3, <2>5 DEF sp, to
<1>4. CASE r \notin sp
  <2>1. ComesFrom(rows, delta, r) = r
    BY <1>1, <1>4 DEF ComesFrom
  <2> QED
    BY <1>1, <1>4, <2>1
<1> QED
  BY <1>2, <1>3, <1>4

LEMMA ComesFromDiffers ==
  ASSUME NEW rows \in SUBSET Row, rows # {}, NEW delta \in {-1, 1}, MovedSpan(rows, delta) \subseteq Row,
         NEW a \in Row, NEW b \in Row, ComesFrom(rows, delta, a) = ComesFrom(rows, delta, b)
  PROVE  a = b
<1> DEFINE sp == MovedSpan(rows, delta)
           to == MovedTo(rows, delta)
           from(r) == ComesFrom(rows, delta, r)
<1>1. rows \subseteq sp /\ to \subseteq sp /\ sp \subseteq Int /\ Row \subseteq Int
  BY MovedSpanHolds DEF Row
<1>2. ASSUME NEW r \in Row
      PROVE  /\ r \in to <=> from(r) \in rows
             /\ r \in sp \ to <=> from(r) \in sp \ rows
             /\ r \notin sp <=> from(r) \notin sp
  <2>1. /\ r \in to => from(r) \in rows
        /\ r \in sp \ to => from(r) \in sp \ rows
    BY ComesFromOne
  <2>2. r \notin sp => from(r) = r
    BY <1>1 DEF ComesFrom
  <2> HIDE DEF from, sp, to
  <2> QED
    BY <1>1, <2>1, <2>2
<1>3. CASE a \in to
  <2>1. b \in to
    BY <1>2, <1>3
  <2>2. from(a) = a - delta /\ from(b) = b - delta
    BY <1>3, <2>1 DEF ComesFrom
  <2>3. a - delta = b - delta
    BY <2>2
  <2>4. a \in Int /\ b \in Int /\ delta \in Int
    BY <1>1
  <2> HIDE DEF sp, to, from
  <2> QED
    BY <2>3, <2>4
<1>4. CASE a \in sp \ to
  <2>1. b \in sp \ to
    BY <1>2, <1>4
  <2>2. from(a) = InOrder(sp \ to, sp \ rows, a) /\ from(b) = InOrder(sp \ to, sp \ rows, b)
    BY <1>4, <2>1 DEF ComesFrom
  <2>3. IsFiniteSet(sp \ to) /\ IsFiniteSet(sp \ rows) /\ Cardinality(sp \ to) = Cardinality(sp \ rows)
    BY AsManyLeft
  <2>4. from(a) = from(b)
    OBVIOUS
  <2> DEFINE displaced == sp \ to
             left == sp \ rows
  <2> HIDE DEF from
  <2>5. displaced \in SUBSET Int /\ left \in SUBSET Int /\ a \in displaced /\ b \in displaced
    BY <1>1, <1>4, <2>1
  <2>6. IsFiniteSet(displaced) /\ IsFiniteSet(left) /\ Cardinality(displaced) = Cardinality(left)
    BY <2>3
  <2>7. InOrder(displaced, left, a) = InOrder(displaced, left, b)
    BY <2>2, <2>4
  <2> HIDE DEF displaced, left
  <2>8. Cardinality({x \in left : x <= InOrder(displaced, left, a)})
          = Cardinality({x \in displaced : x <= a})
    BY <2>5, <2>6, InOrderFinds
  <2>9. Cardinality({x \in left : x <= InOrder(displaced, left, b)})
          = Cardinality({x \in displaced : x <= b})
    BY <2>5, <2>6, InOrderFinds
  <2>10. Cardinality({x \in displaced : x <= a}) = Cardinality({x \in displaced : x <= b})
    BY <2>7, <2>8, <2>9
  <2> QED
    BY <2>5, <2>6, <2>10, PlacesDiffer
<1>5. CASE a \notin sp
  <2>1. b \notin sp
    BY <1>2, <1>5
  <2>2. from(a) = a /\ from(b) = b
    BY <1>1, <1>5, <2>1 DEF ComesFrom
  <2> QED
    BY <2>2
<1> QED
  BY <1>3, <1>4, <1>5

LEMMA MoveWithin ==
  ASSUME TrackerInv, NEW delta \in {-1, 1}, CanMove(delta)
  PROVE  /\ selection.track \in Track /\ Rows # {} /\ Rows \in SUBSET Row
         /\ Drafts(selection.track, MoveDraft(steps[selection.track], Rows, delta))
         /\ MovedSpan(Rows, delta) \subseteq Row
         /\ DOMAIN MoveDraft(steps[selection.track], Rows, delta) = MovedSpan(Rows, delta)
         /\ \A r \in MovedSpan(Rows, delta) :
              MoveDraft(steps[selection.track], Rows, delta)[r]
                = steps[selection.track][ComesFrom(Rows, delta, r)]
<1> DEFINE t == selection.track
           sp == MovedSpan(Rows, delta)
           draft == MoveDraft(steps[t], Rows, delta)
<1>1. t \in Track /\ Rows # {} /\ Rows \in SUBSET Row /\ Rows \subseteq Window(t)
  BY RowsAreShown DEF CanMove
<1>2. MovedTo(Rows, delta) \subseteq Window(t)
  BY DEF CanMove, MovedTo
<1>3. sp \subseteq Window(t)
  <2>1. patternLength[t] \in Int
    BY <1>1, TrackerAssumption DEF TrackerInv
  <2> SUFFICES ASSUME NEW r \in sp PROVE r \in Window(t)
    OBVIOUS
  <2>2. r \in Int /\ \E a, b \in Rows \cup MovedTo(Rows, delta) : a <= r /\ r <= b
    BY <1>1, MovedSpanHolds
  <2>3. PICK a \in Window(t), b \in Window(t) : a <= r /\ r <= b
    BY <1>1, <1>2, <2>2
  <2> QED
    BY <2>1, <2>2, <2>3, TrackerAssumption DEF Window, Row
<1>4. sp \subseteq Row
  BY <1>3 DEF Window
<1>5. \A r \in sp : ComesFrom(Rows, delta, r) \in Row
  BY <1>1, <1>4, ComesFromOne
<1>6. draft = [r \in sp |-> IF r \in MovedTo(Rows, delta) THEN steps[t][r - delta]
                            ELSE steps[t][InOrder(sp \ MovedTo(Rows, delta), sp \ Rows, r)]]
  BY DEF MoveDraft, MovedTo, MovedSpan
<1>7. draft = [r \in sp |-> steps[t][ComesFrom(Rows, delta, r)]]
  BY <1>6 DEF ComesFrom
<1> HIDE DEF sp, draft
<1>8. DOMAIN draft = sp /\ \A r \in sp : draft[r] = steps[t][ComesFrom(Rows, delta, r)]
  BY <1>7
<1>9. \A r \in sp : draft[r] \in Step
  BY <1>1, <1>5, <1>8 DEF TrackerInv
<1> QED
  BY <1>1, <1>3, <1>4, <1>8, <1>9 DEF Drafts, sp, draft

LEMMA MoveTakesAlong ==
  ASSUME TrackerInv, NEW delta \in {-1, 1}, MoveStepRows(delta)
  PROVE  LET t == selection.track
         IN /\ \A r \in Rows : steps'[t][r + delta] = steps[t][r]
            /\ \A step \in Step : Copies(steps'[t], step) = Copies(steps[t], step)
            /\ {r + delta : r \in Rows} \subseteq Rows'
            /\ Fits => Rows' = {r + delta : r \in Rows}
<1> DEFINE t == selection.track
           draft == MoveDraft(steps[t], Rows, delta)
           sp == MovedSpan(Rows, delta)
<1>1. CanMove(delta) /\ Dispatch(t, draft) /\ selection' = Shifted(delta)
  BY DEF MoveStepRows
<1>2. /\ t \in Track /\ Rows # {} /\ Rows \in SUBSET Row /\ Drafts(t, draft)
      /\ sp \subseteq Row /\ DOMAIN draft = sp
      /\ \A r \in sp : draft[r] = steps[t][ComesFrom(Rows, delta, r)]
  BY <1>1, MoveWithin
<1> HIDE DEF draft
<1>3. /\ steps' \in [Track -> [Row -> Step]]
      /\ patternLength' = patternLength /\ enabled' = enabled
      /\ \A r \in Row : steps'[t][r] = IF r \in sp THEN draft[r] ELSE steps[t][r]
  BY <1>1, <1>2, DispatchKeeps DEF Drafts
<1>4. Rows \subseteq sp /\ MovedTo(Rows, delta) \subseteq sp
  BY <1>2, MovedSpanHolds
<1>5. \A r \in Row : steps'[t][r] = steps[t][ComesFrom(Rows, delta, r)]
  <2>1. \A r \in Row \ sp : ComesFrom(Rows, delta, r) = r
    BY <1>4 DEF ComesFrom
  <2> QED
    BY <1>2, <1>3, <2>1
<1> HIDE DEF sp
<1>6. ASSUME NEW r \in Rows PROVE steps'[t][r + delta] = steps[t][r]
  <2>1. r + delta \in MovedTo(Rows, delta) /\ r \in Int
    BY <1>2 DEF MovedTo, Row
  <2>2. r + delta \in Row /\ ComesFrom(Rows, delta, r + delta) = r
    BY <1>2, <1>4, <2>1 DEF ComesFrom
  <2> QED
    BY <1>5, <2>2
<1>7. ASSUME NEW step PROVE Copies(steps'[t], step) = Copies(steps[t], step)
  <2> DEFINE perm == [r \in Row |-> ComesFrom(Rows, delta, r)]
  <2>1. perm \in [Row -> Row]
    BY <1>2, ComesFromOne DEF sp
  <2>2. \A a, b \in Row : perm[a] = perm[b] => a = b
    BY <1>2, ComesFromDiffers DEF sp
  <2>3. \A r \in Row : steps'[t][r] = steps[t][perm[r]]
    BY <1>5
  <2> HIDE DEF perm, t
  <2> QED
    BY <2>1, <2>2, <2>3, CopiesKept
<1>8. /\ t \in enabled /\ patternLength[t] \in Int
      /\ selection.anchor \in Int /\ selection.head \in Int /\ selection.frozen \in SUBSET Int
      /\ selection'.track = t
      /\ selection'.anchor = selection.anchor + delta /\ selection'.head = selection.head + delta
      /\ selection'.frozen = {r + delta : r \in selection.frozen}
  BY <1>1, <1>2, RowsAreShown, TrackerAssumption DEF TrackerInv, Shifted
<1>9. /\ Rows = Window(t) \cap (Between(selection.anchor, selection.head) \cup selection.frozen)
      /\ Rows' = Window(t) \cap (Between(selection.anchor + delta, selection.head + delta)
                                   \cup {r + delta : r \in selection.frozen})
  <2>1. Window(t)' = Window(t)
    BY <1>3, <1>8 DEF Window
  <2> QED
    BY <1>3, <1>8, <2>1 DEF Rows, Window
<1>10. {r + delta : r \in Rows} \subseteq Window(t)
  BY <1>1 DEF CanMove
<1>11. {r + delta : r \in Rows} \subseteq Rows'
  <2> SUFFICES ASSUME NEW r \in Rows PROVE r + delta \in Rows'
    OBVIOUS
  <2>1. r + delta \in Window(t) /\ r \in Int
    BY <1>2, <1>10 DEF Row
  <2>2. CASE r \in selection.frozen
    BY <1>9, <2>1, <2>2
  <2>3. CASE r \in Between(selection.anchor, selection.head)
    <3>1. r + delta \in Between(selection.anchor + delta, selection.head + delta)
      BY <1>8, <2>1, <2>3 DEF Between
    <3> QED
      BY <1>9, <2>1, <3>1
  <2> QED
    BY <1>9, <2>2, <2>3
<1>12. ASSUME Fits PROVE Rows' \subseteq {r + delta : r \in Rows}
  <2> SUFFICES ASSUME NEW q \in Rows' PROVE \E r \in Rows : q = r + delta
    OBVIOUS
  <2>1. q \in Window(t) /\ q \in Int
    BY <1>9 DEF Window, Row
  <2>2. {selection.anchor, selection.head} \cup selection.frozen \subseteq Window(t)
    BY <1>12 DEF Fits
  <2>3. CASE q \in Between(selection.anchor + delta, selection.head + delta)
    <3>1. q - delta \in Between(selection.anchor, selection.head)
      BY <1>8, <2>1, <2>3 DEF Between
    <3>2. q - delta \in Window(t)
      BY <1>8, <2>2, <3>1, TrackerAssumption DEF Between, Window, Row
    <3>3. q - delta \in Rows /\ q = (q - delta) + delta
      BY <1>9, <2>1, <3>1, <3>2
    <3> QED
      BY <3>3
  <2>4. CASE q \in {r + delta : r \in selection.frozen}
    <3>1. PICK r \in selection.frozen : q = r + delta
      BY <2>4
    <3>2. r \in Rows
      BY <1>9, <2>2, <3>1
    <3> QED
      BY <3>1, <3>2
  <2> QED
    BY <1>9, <2>3, <2>4
<1> QED
  BY <1>6, <1>7, <1>11, <1>12

-----------------------------------------------------------------------------
(* Every step of the tracker *)

LEMMA DispatchTypes ==
  ASSUME TrackerInv, NEW t \in Track, NEW draft, DOMAIN draft \subseteq Row,
         \A r \in DOMAIN draft : draft[r] \in Step, Dispatch(t, draft),
         selection' \in [track : Track \cup {None}, anchor : Int, head : Int, frozen : SUBSET Int],
         Span(clipboard')
  PROVE  TrackerInv'
<1>1. steps' \in [Track -> [Row -> Step]] /\ patternLength' = patternLength /\ enabled' = enabled
  BY DispatchKeeps
<1> QED
  BY <1>1 DEF TrackerInv, Step, Row

LEMMA CopiedIsASpan ==
  ASSUME TrackerInv, Rows # {}
  PROVE  Span(Copied(Rows))
<1> DEFINE m == Min(Rows)
           n == Max(Rows) - m + 1
           t == selection.track
<1>1. t \in Track /\ Rows \in SUBSET Row
  BY RowsAreShown
<1>2. m \in Rows /\ Max(Rows) \in Rows /\ m <= Max(Rows)
  BY <1>1, EdgesOfRows
<1>3. m \in Int /\ n \in Nat \ {0} /\ 1 \in 1..n
  <2>1. \A r \in Rows : r \in Int
    BY <1>1 DEF Row
  <2>2. m \in Int /\ Max(Rows) \in Int
    BY <1>2, <2>1
  <2> HIDE DEF m
  <2> QED
    BY <1>2, <2>2
<1>4. \A r \in Rows : steps[t][r] \in Step
  BY <1>1 DEF TrackerInv
<1>5. Copied(Rows) = [i \in 1..n |-> IF m + i - 1 \in Rows THEN steps[t][m + i - 1] ELSE None]
  BY DEF Copied
<1> HIDE DEF m, n, t
<1>6. Copied(Rows) \in [1..n -> Step \cup {None}]
  BY <1>4, <1>5
<1>7. Copied(Rows)[1] = steps[t][m]
  <2>1. m + 1 - 1 = m
    BY <1>3
  <2> QED
    BY <1>2, <1>3, <1>5, <2>1
<1>8. Copied(Rows)[1] # None
  BY <1>2, <1>4, <1>7, StepAssumption
<1> QED
  BY <1>3, <1>6, <1>8 DEF Span

LEMMA CutIsACommand ==
  ASSUME TrackerInv, Cut
  PROVE  TrackerInv' /\ HiddenRowsStay
<1>1. /\ selection.track \in Track /\ Rows \subseteq Window(selection.track) /\ Rows # {}
      /\ Dispatch(selection.track, ClearDraft(Rows))
      /\ selection' = selection /\ clipboard' = Copied(Rows)
  BY RowsAreShown DEF Cut
<1>2. Commands(selection.track, ClearDraft(Rows))
  BY <1>1, ClearsWithin DEF Commands
<1>3. Span(clipboard')
  BY <1>1, CopiedIsASpan
<1> QED
  BY <1>1, <1>2, <1>3, CommandsStay, DispatchTypes DEF TrackerInv, Commands, Drafts, Window

\* The commands that leave the selection and the clipboard alone.
LEMMA QuietCommands ==
  ASSUME TrackerInv, NEW t, NEW draft, Commands(t, draft), UNCHANGED <<selection, clipboard>>
  PROVE  TrackerInv' /\ HiddenRowsStay
BY CommandsStay, DispatchTypes DEF TrackerInv, Commands, Drafts, Window

\* What a paste writes is not empty, and what it selects is what it writes.
LEMMA PasteIsACommand ==
  ASSUME TrackerInv, Paste
  PROVE  TrackerInv' /\ HiddenRowsStay /\ PasteSelects
<1> DEFINE t == selection.track
           m == Min(Rows)
           P == Pasted(t, m)
           draft == PasteDraft(t, m)
<1>1. /\ t \in Track /\ t \in enabled /\ Rows # {} /\ Rows \in SUBSET Row /\ Rows \subseteq Window(t)
      /\ clipboard # <<>> /\ Dispatch(t, draft)
      /\ selection' = Exactly(t, P) /\ clipboard' = clipboard
  BY RowsAreShown DEF Paste
<1>2. m \in Rows /\ m \in Row /\ m \in Window(t) /\ m \in Int
  <2>1. m \in Rows
    BY <1>1, EdgesOfRows
  <2>2. \A r \in Rows : r \in Row /\ r \in Int /\ r \in Window(t)
    BY <1>1 DEF Row
  <2> QED
    BY <2>1, <2>2
<1>3. Drafts(t, draft) /\ DOMAIN draft = P
  BY <1>1, <1>2, PastesWithin DEF PasteDraft
<1>4. Commands(t, draft)
  BY <1>1, <1>3 DEF Commands
<1>5. P \subseteq Window(t) /\ P \in SUBSET Row
  BY DEF Pasted, Window
<1>6. m \in P
  <2>1. m - m + 1 = 1
    BY <1>2
  <2>2. 1 \in DOMAIN clipboard /\ clipboard[1] # None
    BY <1>1 DEF TrackerInv, Span
  <2> QED
    BY <1>2, <2>1, <2>2 DEF Pasted, CellFor
<1> HIDE DEF P
<1>7. Max(P) \in P /\ P # {} /\ Max(P) \in Int
  <2>1. Max(P) \in P
    BY <1>5, <1>6, EdgesOfRows
  <2>2. \A r \in P : r \in Int
    BY <1>5 DEF Row
  <2> QED
    BY <2>1, <2>2
<1>8. selection' = [track |-> t, anchor |-> Max(P), head |-> Max(P), frozen |-> P \ {Max(P)}]
  BY <1>1 DEF Exactly, PlacedAt
<1>9. selection' \in [track : Track \cup {None}, anchor : Int, head : Int, frozen : SUBSET Int]
  <2>1. P \ {Max(P)} \in SUBSET Int
    <3>1. \A r \in P : r \in Int
      BY <1>5 DEF Row
    <3> QED
      BY <3>1
  <2> HIDE DEF t
  <2> QED
    BY <1>1, <1>7, <1>8, <2>1
<1>10. Span(clipboard')
  BY <1>1 DEF TrackerInv
<1>11. TrackerInv'
  BY <1>1, <1>3, <1>5, <1>9, <1>10, DispatchTypes DEF Drafts
<1>12. /\ patternLength' = patternLength /\ enabled' = enabled
       /\ \A r \in Row : steps'[t][r] = IF r \in P THEN draft[r] ELSE steps[t][r]
  BY <1>1, <1>3, <1>5, DispatchKeeps DEF Drafts
<1>13. Rows' = P
  <2>1. Between(Max(P), Max(P)) = {Max(P)}
    BY <1>7 DEF Between
  <2>2. Window(t)' = Window(t)
    BY <1>8, <1>12 DEF Window
  <2>3. Rows' = Window(t) \cap (Between(Max(P), Max(P)) \cup (P \ {Max(P)}))
    BY <1>1, <1>8, <1>12, <2>2 DEF Rows, Window
  <2> QED
    BY <1>5, <1>7, <2>1, <2>3
<1>14. \A r \in P : draft[r] = CellFor(m, r)
  BY DEF PasteDraft, P
<1>15. PasteSelects
  BY <1>7, <1>12, <1>13, <1>14 DEF PasteSelects
<1> QED
  BY <1>4, <1>11, <1>15, CommandsStay

LEMMA MoveIsACommand ==
  ASSUME TrackerInv, NEW delta \in {-1, 1}, MoveStepRows(delta)
  PROVE  TrackerInv' /\ HiddenRowsStay
<1> DEFINE t == selection.track
           draft == MoveDraft(steps[t], Rows, delta)
<1>1. CanMove(delta) /\ Dispatch(t, draft) /\ selection' = Shifted(delta) /\ clipboard' = clipboard
  BY DEF MoveStepRows
<1>2. t \in Track /\ Drafts(t, draft)
  BY <1>1, MoveWithin
<1> HIDE DEF draft
<1>3. Commands(t, draft)
  BY <1>1, <1>2 DEF Commands
<1>4. selection' \in [track : Track \cup {None}, anchor : Int, head : Int, frozen : SUBSET Int]
  <2>1. \A rows \in SUBSET Int : {r + delta : r \in rows} \in SUBSET Int
    OBVIOUS
  <2>2. selection.anchor + delta \in Int /\ selection.head + delta \in Int
        /\ {r + delta : r \in selection.frozen} \in SUBSET Int
    BY <2>1 DEF TrackerInv
  <2> QED
    BY <1>1, <2>2 DEF TrackerInv, Shifted
<1>5. Span(clipboard')
  BY <1>1 DEF TrackerInv
<1>6. TrackerInv'
  BY <1>1, <1>2, <1>4, <1>5, DispatchTypes DEF Drafts, Window
<1> QED
  BY <1>3, <1>6, CommandsStay

LEMMA CommandKeeps == ASSUME TrackerInv, Command PROVE TrackerInv' /\ HiddenRowsStay
<1>1. CASE Cut
  BY <1>1, CutIsACommand
<1>2. CASE ClearStepRows
  <2>1. Commands(selection.track, ClearDraft(Rows))
    BY <1>2, RowsAreShown, ClearsWithin DEF ClearStepRows, Commands
  <2> QED
    BY <1>2, <2>1, QuietCommands DEF ClearStepRows
<1>3. CASE Paste
  BY <1>3, PasteIsACommand
<1>4. CASE ToggleMuteRows
  <2>1. Commands(selection.track, MuteDraft(selection.track, Rows))
    BY <1>4, RowsAreShown, MutesWithin DEF ToggleMuteRows, Commands
  <2> QED
    BY <1>4, <2>1, QuietCommands DEF ToggleMuteRows
<1>5. CASE \E delta \in {-1, 1} : MoveStepRows(delta)
  BY <1>5, MoveIsACommand
<1>6. ASSUME NEW t \in Track, ClearTrack(t) PROVE TrackerInv' /\ HiddenRowsStay
  <2>1. Commands(t, ClearDraft(Window(t)))
    BY <1>6, ClearsWithin DEF ClearTrack, Commands
  <2> QED
    BY <1>6, <2>1, QuietCommands DEF ClearTrack
<1>7. ASSUME NEW t \in Track, NEW delta \in {-1, 1}, ShiftTrack(t, delta)
      PROVE  TrackerInv' /\ HiddenRowsStay
  <2>1. Commands(t, ShiftDraft(t, delta))
    BY <1>7, ShiftsWithin DEF ShiftTrack, Commands
  <2> QED
    BY <1>7, <2>1, QuietCommands DEF ShiftTrack
<1>8. ASSUME NEW t \in Track, NEW interval \in {1, 2}, FillTrack(t, interval)
      PROVE  TrackerInv' /\ HiddenRowsStay
  <2>1. Commands(t, FillDraft(t, interval))
    BY <1>8, FillsWithin DEF FillTrack, Commands
  <2> QED
    BY <1>8, <2>1, QuietCommands DEF FillTrack
<1> QED
  BY <1>1, <1>2, <1>3, <1>4, <1>5, <1>6, <1>7, <1>8 DEF Command

LEMMA ProjectKeeps ==
  ASSUME TrackerInv,
         \/ \E t \in Track, r \in Row, step \in Step : SetStep(t, r, step)
         \/ \E t \in Track, n \in 1..Buffer : SetLength(t, n)
         \/ \E t \in Track : RemoveTrack(t) \/ AddTrack(t)
         \/ \E t \in Track : NewProject({t})
  PROVE  TrackerInv'
<1>1. FreshBuffer \in [Row -> Step] /\ Length \in 1..Buffer
  BY TrackerAssumption DEF FreshBuffer, FreshStep, Step
<1> HIDE DEF FreshBuffer
<1> USE DEF Step, Row
<1>2. ASSUME NEW t \in Track, NEW r \in Row, NEW step \in Step, SetStep(t, r, step) PROVE TrackerInv'
  <2> DEFINE draft == [q \in {r} |-> step]
  <2>1. DOMAIN draft = {r} /\ draft[r] = step
    OBVIOUS
  <2>2. Dispatch(t, draft) /\ UNCHANGED <<selection, clipboard>>
    BY <1>2 DEF SetStep
  <2> HIDE DEF draft
  <2> QED
    BY <2>1, <2>2, DispatchTypes DEF TrackerInv
<1>3. ASSUME NEW t \in Track, NEW n \in 1..Buffer, SetLength(t, n) PROVE TrackerInv'
  BY <1>3 DEF SetLength, TrackerInv, Span
<1>4. ASSUME NEW t \in Track, RemoveTrack(t) PROVE TrackerInv'
  BY <1>4 DEF RemoveTrack, TrackerInv, Span
<1>5. ASSUME NEW t \in Track, AddTrack(t) PROVE TrackerInv'
  BY <1>1, <1>5 DEF AddTrack, TrackerInv, Span
<1>6. ASSUME NEW t \in Track, NewProject({t}) PROVE TrackerInv'
  BY <1>1, <1>6 DEF NewProject, TrackerInv, Span
<1> QED
  BY <1>2, <1>3, <1>4, <1>5, <1>6

LEMMA TrackerStep == ASSUME TrackerInv, Next PROVE TrackerInv'
<1>1. CASE Copy
  <2>1. Span(clipboard')
    BY <1>1, CopiedIsASpan DEF Copy
  <2> QED
    BY <1>1, <2>1 DEF Copy, project, TrackerInv, Step, Row
<1>2. CASE Command
  BY <1>2, CommandKeeps
<1> QED
  BY <1>1, <1>2, SelectingKeeps, ProjectKeeps DEF Next

LEMMA TrackerRests ==
  ASSUME TrackerInv, UNCHANGED vars PROVE TrackerInv'
BY DEF TrackerInv, vars, project, Span, Step, Row

LEMMA TrackerAlways == StudioSpec => []TrackerInv
<1>1. StudioInit => TrackerInv
  BY TrackerInit DEF StudioInit
<1>2. TrackerInv /\ [StudioNext]_<<own, spare, part>> => TrackerInv'
  <2> SUFFICES ASSUME TrackerInv, [StudioNext]_<<own, spare, part>> PROVE TrackerInv'
    OBVIOUS
  <2>1. Next \/ UNCHANGED vars
    BY DEF StudioNext, own
  <2> QED
    BY <2>1, TrackerStep, TrackerRests
<1> QED
  BY <1>1, <1>2, PTL DEF StudioSpec

\* What a paste wrote is what is selected after it, whatever holes the clipboard has and wherever
\* the pattern ends; and no command of the tracker writes a row the pattern hides
\* (trackerCommands.ts, projectOps.ts, mutations.ts).
THEOREM PastesKeepToTheirRows == StudioSpec => PastesSelect
<1>1. TrackerInv => [Writes => PasteSelects /\ HiddenRowsStay]_<<vars, part>>
  <2> SUFFICES ASSUME TrackerInv PROVE PasteSelects /\ HiddenRowsStay
    OBVIOUS
  <2>1. HiddenRowsStay
    BY CommandKeeps DEF HiddenRowsStay
  <2>2. Paste => PasteSelects
    BY PasteIsACommand
  <2> QED
    BY <2>1, <2>2 DEF PasteSelects
<1> QED
  BY <1>1, TrackerAlways, PTL DEF PastesSelect

\* Moved steps take the selection along, their gaps too; the steps they displace fill the rows
\* they leave, and none is lost or doubled (moveRowsDraft, shiftAll).
THEOREM MovesTakeTheSelectionAlong == StudioSpec => MovesCarry
<1>1. TrackerInv => [Writes => MoveCarries]_<<vars, part>>
  BY MoveTakesAlong DEF MoveCarries
<1> QED
  BY <1>1, TrackerAlways, PTL DEF MovesCarry

-----------------------------------------------------------------------------
(* The keyboard, in its part of the studio *)

\* While the keyboard is listened to, its commands are the page's and those of the mounted studio,
\* which is not the first visit for nothing: the page's own are registered as visit 0.
KeysInv ==
  /\ {"view", "visits", "focused", "awake"} \subseteq DOMAIN x1 /\ x1.visits \in Nat
  /\ {"listening", "registered"} \subseteq DOMAIN x2
  /\ x1.view = "studio" => x1.visits # 0
  /\ Shortcuts!CommandsFollowView

LEMMA NothingRepeatsEscape ==
  ASSUME KeysInv, x2.listening, NEW r \in x2.registered, "escape" \in r.cmd.keys
  PROVE  ~r.cmd.allowRepeat
<1>1. r.cmd \in Shortcuts!GlobalCommands \cup Shortcuts!TrackerCommands
  BY DEF KeysInv, Shortcuts!CommandsFollowView, Shortcuts!CommandsAreViews, Shortcuts!Registrations
<1>2. CASE r.cmd \in Shortcuts!GlobalCommands
  BY <1>2 DEF Shortcuts!GlobalCommands, Shortcuts!Command
<1>3. CASE r.cmd \in Shortcuts!TrackerCommands
  BY <1>3 DEF Shortcuts!TrackerCommands, Shortcuts!Deselect, Shortcuts!Command
<1> QED
  BY <1>1, <1>2, <1>3

\* A studio's commands are in a context of their own.
LEMMA NoConflict ==
  ASSUME KeysInv, x2.listening, x1.view # "studio"
  PROVE  \A c \in Shortcuts!TrackerCommands : ~Shortcuts!Conflicts(c)
<1> SUFFICES ASSUME NEW c \in Shortcuts!TrackerCommands, NEW r \in x2.registered, r.cmd.context = c.context
             PROVE  FALSE
  BY DEF Shortcuts!Conflicts
<1>1. r.cmd \in Shortcuts!GlobalCommands
  BY DEF KeysInv, Shortcuts!CommandsFollowView, Shortcuts!CommandsAreViews, Shortcuts!Registrations
<1>2. r.cmd.context = "global"
  BY <1>1 DEF Shortcuts!GlobalCommands, Shortcuts!Command
<1>3. c.context = "tracker"
  BY DEF Shortcuts!TrackerCommands, Shortcuts!Deselect, Shortcuts!Command
<1> QED
  BY <1>2, <1>3

LEMMA KeysInit == Shortcuts!InitKeyboard => KeysInv
BY DEF Shortcuts!InitKeyboard, KeysInv, Shortcuts!CommandsFollowView, Shortcuts!CommandsAreViews

LEMMA MountKeeps == ASSUME KeysInv, Shortcuts!MountStudio PROVE KeysInv'
<1>1. /\ x1.view # "studio" /\ x1' = [x1 EXCEPT !.view = "studio", !.visits = @ + 1]
      /\ x2' = IF \E c \in Shortcuts!TrackerCommands : Shortcuts!Conflicts(c) THEN x2
               ELSE [x2 EXCEPT !.registered = @ \cup Shortcuts!Registrations(Shortcuts!TrackerCommands, x1'.visits)]
  BY DEF Shortcuts!MountStudio
<1>2. /\ {"view", "visits", "focused", "awake"} \subseteq DOMAIN x1' /\ x1'.visits \in Nat
      /\ x1'.view = "studio" /\ x1'.visits # 0
  BY <1>1 DEF KeysInv
<1>3. {"listening", "registered"} \subseteq DOMAIN x2'
  BY <1>1 DEF KeysInv
<1>4. Shortcuts!CommandsFollowView'
  <2> SUFFICES ASSUME x2'.listening PROVE Shortcuts!CommandsAreViews'
    BY DEF Shortcuts!CommandsFollowView
  <2>1. x2.listening
    BY <1>1 DEF KeysInv
  <2>2. x2' = [x2 EXCEPT !.registered = @ \cup Shortcuts!Registrations(Shortcuts!TrackerCommands, x1'.visits)]
    <3>1. ~\E c \in Shortcuts!TrackerCommands : Shortcuts!Conflicts(c)
      BY <1>1, <2>1, NoConflict
    <3> QED
      BY <1>1, <3>1
  <2>3. x2'.registered = x2.registered \cup Shortcuts!Registrations(Shortcuts!TrackerCommands, x1'.visits)
    BY <2>2 DEF KeysInv
  <2>4. x2.registered = Shortcuts!Registrations(Shortcuts!GlobalCommands, 0)
    BY <1>1, <2>1 DEF KeysInv, Shortcuts!CommandsFollowView, Shortcuts!CommandsAreViews
  <2> QED
    BY <1>2, <2>3, <2>4 DEF Shortcuts!CommandsAreViews
<1> QED
  BY <1>2, <1>3, <1>4 DEF KeysInv

LEMMA UnmountKeeps == ASSUME KeysInv, Shortcuts!UnmountStudio PROVE KeysInv'
<1>1. /\ x1.view = "studio" /\ x1' = [x1 EXCEPT !.view = "elsewhere", !.focused = FALSE]
      /\ x2' = [x2 EXCEPT !.registered = Shortcuts!Disposed(x2.registered, x1.visits)]
  BY DEF Shortcuts!UnmountStudio
<1>2. /\ {"view", "visits", "focused", "awake"} \subseteq DOMAIN x1' /\ x1'.visits \in Nat
      /\ x1'.view = "elsewhere"
  BY <1>1 DEF KeysInv
<1>3. /\ {"listening", "registered"} \subseteq DOMAIN x2' /\ (x2'.listening <=> x2.listening)
      /\ x2'.registered = {r \in x2.registered : r.visit # x1.visits}
  BY <1>1 DEF KeysInv, Shortcuts!Disposed
<1>4. Shortcuts!CommandsFollowView'
  <2> SUFFICES ASSUME x2.listening PROVE Shortcuts!CommandsAreViews'
    BY <1>3 DEF Shortcuts!CommandsFollowView
  <2>1. x2.registered = Shortcuts!Registrations(Shortcuts!GlobalCommands, 0) \cup
                        Shortcuts!Registrations(Shortcuts!TrackerCommands, x1.visits)
    BY <1>1 DEF KeysInv, Shortcuts!CommandsFollowView, Shortcuts!CommandsAreViews
  <2>2. x1.visits # 0
    BY <1>1 DEF KeysInv
  <2>3. x2'.registered = Shortcuts!Registrations(Shortcuts!GlobalCommands, 0)
    BY <1>3, <2>1, <2>2 DEF Shortcuts!Registrations
  <2> QED
    BY <1>2, <2>3 DEF Shortcuts!CommandsAreViews
<1> QED
  BY <1>2, <1>3, <1>4 DEF KeysInv

LEMMA HideKeeps == ASSUME KeysInv, Shortcuts!PageHide \/ Shortcuts!PageShow PROVE KeysInv'
<1>1. x1' = [x1 EXCEPT !.awake = FALSE] \/ x1' = [x1 EXCEPT !.awake = TRUE]
  BY DEF Shortcuts!PageHide, Shortcuts!PageShow
<1>2. /\ {"view", "visits", "focused", "awake"} \subseteq DOMAIN x1' /\ x1'.visits \in Nat
      /\ x1'.view = x1.view /\ x1'.visits = x1.visits
  BY <1>1 DEF KeysInv
<1>3. x2' = [listening |-> FALSE, registered |-> {}] \/ x2' = x2
  BY DEF Shortcuts!PageHide, Shortcuts!PageShow
<1>4. /\ {"listening", "registered"} \subseteq DOMAIN x2'
      /\ x2'.listening => x2.listening /\ x2'.registered = x2.registered
  BY <1>3 DEF KeysInv
<1>5. Shortcuts!CommandsFollowView'
  BY <1>2, <1>4 DEF KeysInv, Shortcuts!CommandsFollowView, Shortcuts!CommandsAreViews
<1> QED
  BY <1>2, <1>4, <1>5 DEF KeysInv

\* Everything else registers nothing.
LEMMA OthersKeep ==
  ASSUME KeysInv, x2' = x2, x1' = x1 \/ \E b : x1' = [x1 EXCEPT !.focused = b]
  PROVE  KeysInv'
<1>1. /\ {"view", "visits", "focused", "awake"} \subseteq DOMAIN x1' /\ x1'.visits \in Nat
      /\ x1'.view = x1.view /\ x1'.visits = x1.visits
  BY DEF KeysInv
<1>2. Shortcuts!CommandsFollowView'
  BY <1>1 DEF KeysInv, Shortcuts!CommandsFollowView, Shortcuts!CommandsAreViews
<1> QED
  BY <1>1, <1>2 DEF KeysInv

LEMMA KeysStep == ASSUME KeysInv, Shortcuts!NextKeyboard PROVE KeysInv'
<1>1. CASE Shortcuts!MountStudio \/ Shortcuts!UnmountStudio \/ Shortcuts!PageHide \/ Shortcuts!PageShow
  BY <1>1, MountKeeps, UnmountKeeps, HideKeeps
<1>2. CASE \/ \E k \in Shortcuts!Keys : Shortcuts!Press(k)
           \/ Shortcuts!Repeat \/ Shortcuts!Release
  <2>1. x2' = x2 /\ x1' = x1
    BY <1>2 DEF Shortcuts!Press, Shortcuts!Repeat, Shortcuts!Keydown, Shortcuts!Release
  <2> QED
    BY <2>1, OthersKeep
<1>3. CASE Shortcuts!FocusField \/ Shortcuts!PressElsewhere \/ Shortcuts!PressStep \/ Shortcuts!Elsewhere
  <2>1. x2' = x2 /\ (x1' = x1 \/ x1' = [x1 EXCEPT !.focused = ~@])
    BY <1>3 DEF Shortcuts!FocusField, Shortcuts!PressElsewhere, Shortcuts!PressStep, Shortcuts!Elsewhere
  <2> QED
    BY <2>1, OthersKeep
<1> QED
  BY <1>1, <1>2, <1>3 DEF Shortcuts!NextKeyboard

LEMMA NothingBehindADialog == KeysInv => Shortcuts!BehindDialog
<1> SUFFICES ASSUME KeysInv, Shortcuts!MetDialog, Shortcuts!Repeat \/ \E k \in Shortcuts!Keys : Shortcuts!Press(k)
             PROVE  UNCHANGED Shortcuts!Steps
  BY DEF Shortcuts!BehindDialog
<1>1. ASSUME NEW k, NEW repeat, Shortcuts!Keydown(k, repeat), Shortcuts!Matches(k, repeat) = {}
      PROVE  UNCHANGED Shortcuts!Steps
  BY <1>1 DEF Shortcuts!Keydown, Shortcuts!Winners
<1>2. CASE x3.dialog
  <2>1. \A k, repeat : Shortcuts!Matches(k, repeat) = {}
    BY <1>2 DEF Shortcuts!Matches
  <2> QED
    BY <1>1, <2>1 DEF Shortcuts!Repeat, Shortcuts!Press
<1>3. CASE ~x3.dialog
  <2>1. x8.met /\ x8.key = "escape"
    BY <1>3 DEF Shortcuts!MetDialog
  <2>2. x8 # Shortcuts!NoKey
    BY <2>1 DEF Shortcuts!NoKey
  <2>3. Shortcuts!Repeat
    BY <2>2 DEF Shortcuts!Press
  <2>4. Shortcuts!Keydown(x8.key, TRUE)
    BY <2>3 DEF Shortcuts!Repeat
  <2>5. Shortcuts!Matches(x8.key, TRUE) = {}
    BY <2>1, NothingRepeatsEscape DEF Shortcuts!Matches
  <2> QED
    BY <1>1, <2>4, <2>5
<1> QED
  BY <1>2, <1>3

\* A key that met a dialog changes nothing behind it, not by repeating after it closed the dialog
\* either; and until the page is first hidden what keys reach is the view that is mounted
\* (KeyboardService.ts, useKeyboardCommand.ts, trackerCommands.ts).
THEOREM KeysStayInTheView == StudioSpec => KeysReachTheView
<1> DEFINE inv == part = "keyboard" => KeysInv
<1>1. StudioInit => inv
  BY KeysInit DEF StudioInit
<1>2. inv /\ [StudioNext]_<<own, spare, part>> => inv'
  <2> SUFFICES ASSUME inv, [StudioNext]_<<own, spare, part>>, part' = "keyboard" PROVE KeysInv'
    OBVIOUS
  <2>1. part = "keyboard"
    BY DEF StudioNext
  <2>2. CASE Shortcuts!NextKeyboard
    BY <2>1, <2>2, KeysStep
  <2>3. CASE UNCHANGED <<own, spare, part>>
    BY <2>1, <2>3, OthersKeep DEF spare
  <2> QED
    BY <2>1, <2>2, <2>3 DEF StudioNext
<1>3. inv => [part = "keyboard" => Shortcuts!BehindDialog /\ Shortcuts!CommandsFollowView]_spare
  BY NothingBehindADialog DEF KeysInv
<1> QED
  BY <1>1, <1>2, <1>3, PTL DEF StudioSpec, KeysReachTheView
=============================================================================
