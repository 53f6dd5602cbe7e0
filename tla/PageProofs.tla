----------------------------- MODULE PageProofs -----------------------------
(***************************************************************************)
(* The properties of what runs in the page, and of the audio lab's checks,  *)
(* proved for any values of their constants: UndoHistory, Navigation,       *)
(* Controls, LegacyEngines, AudioAudit, and, in the page PageMC composes,   *)
(* Lobby and Dialogs.                                                       *)
(*                                                                         *)
(* UndoHistory, for any leaves, any values and any depth.  Along a leaf     *)
(* nobody else has written, both stacks are chains that start at the live   *)
(* value.  A new entry extends the chain, a drag moves its near end         *)
(* together with the live value, a dropped oldest entry shortens its far    *)
(* end.  An undo drops the entries above the one it restores because none   *)
(* of their leaves is current; on such a leaf the newest of those entries   *)
(* would be, so they hold none of it, and the restored entry leads the live *)
(* value to the next link.                                                  *)
(*                                                                         *)
(* The others: an inductive invariant each, stated where its section    *)
(* begins, and a lemma to each action that could disturb it.                *)
(***************************************************************************)
EXTENDS PageMC, Controls, LegacyEngines, TLAPS, WellFoundedInduction, SequenceTheorems, FiniteSetTheorems

-----------------------------------------------------------------------------
(* The newest of some entries *)

\* Sets of naturals have a least element.
LEMMA LeastNatural ==
  ASSUME NEW S \in SUBSET Nat, S # {}
  PROVE  \E n \in S : \A m \in S : n <= m
<1> DEFINE R == OpToRel(<, Nat)
<1>1. IsWellFoundedOn(R, Nat)
  BY NatLessThanWellFounded
<1>2. \A x, y \in Nat : y < x => <<y, x>> \in R
  BY DEF OpToRel
<1> HIDE DEF R
<1>3. PICK x \in S : \A y \in S : ~(<<y, x>> \in R)
  BY <1>1, WFMin
<1>4. \A m \in S : x <= m
  <2> TAKE m \in S
  <2>1. m \in Nat /\ x \in Nat
    OBVIOUS
  <2>2. ~(m < x)
    BY <1>2, <1>3, <2>1
  <2> QED
    BY <2>1, <2>2
<1> QED
  BY <1>4

\* Sets of indices of a sequence have a greatest element.
LEMMA GreatestIndex ==
  ASSUME NEW n \in Nat, NEW S \in SUBSET (1..n), S # {}
  PROVE  \E i \in S : \A j \in S : j <= i
<1> DEFINE U == {k \in Nat : \A i \in S : i <= k}
<1>1. n \in U
  OBVIOUS
<1>2. PICK u \in U : \A m \in U : u <= m
  <2>1. U \in SUBSET Nat
    OBVIOUS
  <2> HIDE DEF U
  <2> QED
    BY <1>1, <2>1, LeastNatural
<1>3. u \in Nat /\ \A i \in S : i <= u
  OBVIOUS
<1>4. u \in S
  <2>1. SUFFICES ASSUME u \notin S PROVE FALSE
    OBVIOUS
  <2>2. \A i \in S : i <= u - 1
    BY <1>3, <2>1
  <2>3. PICK i \in S : i \in 1..n
    OBVIOUS
  <2>4. u - 1 \in Nat
    BY <1>3, <2>2, <2>3
  <2>5. u - 1 \in U
    BY <2>2, <2>4
  <2> QED
    BY <2>5, <1>2, <1>3
<1> QED
  BY <1>3, <1>4

\* Newest returns the greatest of its indices.
LEMMA NewestIsGreatest ==
  ASSUME NEW stack \in Seq(Entry), NEW S \in SUBSET DOMAIN stack, S # {}
  PROVE  /\ Newest(S) \in S
         /\ \A j \in S : j <= Newest(S)
<1>1. \E i \in S : \A j \in S : j <= i
  <2>1. DOMAIN stack = 1..Len(stack) /\ Len(stack) \in Nat
    BY LenProperties
  <2> QED
    BY <2>1, GreatestIndex
<1> QED
  BY <1>1 DEF Newest

-----------------------------------------------------------------------------
(* Types of the entries *)

\* What is in an entry.
LEMMA EntryLeaf ==
  ASSUME NEW entry \in Entry, NEW p \in Path
  PROVE  /\ entry[p] \in Leaf \/ entry[p] = None
         /\ entry[p] # None => entry[p].before \in Value /\ entry[p].after \in Value
BY DEF Entry, Leaf

\* A burst is an entry that leads from the one project to the other.
LEMMA BurstIsEntry ==
  ASSUME NEW from \in Project, NEW to \in Project
  PROVE  /\ Burst(from, to) \in Entry
         /\ \A p \in Path : Burst(from, to)[p] # None =>
              Burst(from, to)[p].before = from[p] /\ Burst(from, to)[p].after = to[p]
         /\ \A p \in Path : Burst(from, to)[p] = None => from[p] = to[p]
<1>1. \A p \in Path : [before |-> from[p], after |-> to[p]] \in Leaf
  BY DEF Project, Leaf
<1> QED
  BY <1>1, NoneIsNoLeaf DEF Burst, Entry

\* A key names the only leaf of the burst.
LEMMA KeyIsOnlyLeaf ==
  ASSUME NEW entry
  PROVE  /\ SingleContinuousKey(entry) \in Path \cup {None}
         /\ SingleContinuousKey(entry) # None => Leaves(entry) = {SingleContinuousKey(entry)}
BY UndoAssumption DEF SingleContinuousKey

\* The current part of an entry is an entry.
LEMMA CurrentIsEntry ==
  ASSUME NEW entry \in Entry, NEW proj, NEW held
  PROVE  Current(entry, proj, held) \in Entry
BY DEF Current, Entry

\* What is restored is a project.
LEMMA RestoredIsProject ==
  ASSUME NEW proj \in Project, NEW applied \in Entry, NEW to \in {"before", "after"}
  PROVE  Restored(proj, applied, to) \in Project
<1>1. \A p \in Path : applied[p] # None => applied[p][to] \in Value
  BY EntryLeaf
<1> QED
  BY <1>1 DEF Restored, Project

\* A push keeps the stack within the depth and the new entry on top.
LEMMA PushedTypes ==
  ASSUME NEW stack \in Seq(Entry), Len(stack) <= Depth, NEW entry \in Entry
  PROVE  /\ Pushed(stack, entry) \in Seq(Entry)
         /\ Len(Pushed(stack, entry)) <= Depth
         /\ Pushed(stack, entry) # <<>>
         /\ Pushed(stack, entry)[Len(Pushed(stack, entry))] = entry
<1>1. CASE Len(stack) = Depth
  <2>1. stack # <<>>
    BY <1>1, UndoAssumption, EmptySeq
  <2>2. Tail(stack) \in Seq(Entry) /\ Len(Tail(stack)) = Depth - 1
    BY <1>1, <2>1, HeadTailProperties
  <2> QED
    BY <1>1, <2>2, UndoAssumption, AppendProperties DEF Pushed
<1>2. CASE Len(stack) # Depth
  <2>1. Len(stack) \in Nat
    BY LenProperties
  <2> QED
    BY <1>2, <2>1, UndoAssumption, AppendProperties DEF Pushed
<1> QED
  BY <1>1, <1>2

-----------------------------------------------------------------------------
(* Types of the stacks *)

\* TypeOK of one history.
HistoryOK(h) ==
  /\ h \in History
  /\ Len(h.undo) <= Depth
  /\ h.mergeKey # None =>
       /\ h.undo # <<>>
       /\ Leaves(h.undo[Len(h.undo)]) = {h.mergeKey}

\* A drag changes the far end of the leaf of the newest entry and nothing else.
LEMMA ContinuedTypes ==
  ASSUME NEW h, HistoryOK(h), h.mergeKey # None, NEW value \in Value
  PROVE  /\ Len(h.undo) \in DOMAIN h.undo
         /\ Continued(h.undo, h.mergeKey, value) \in Seq(Entry)
         /\ Len(Continued(h.undo, h.mergeKey, value)) = Len(h.undo)
         /\ \A i \in DOMAIN h.undo : i # Len(h.undo) =>
              Continued(h.undo, h.mergeKey, value)[i] = h.undo[i]
         /\ LET top  == h.undo[Len(h.undo)]
                next == Continued(h.undo, h.mergeKey, value)[Len(h.undo)]
            IN /\ Leaves(top) = {h.mergeKey} /\ Leaves(next) = {h.mergeKey}
               /\ next[h.mergeKey].before = top[h.mergeKey].before
               /\ next[h.mergeKey].after = value
<1> DEFINE p    == h.mergeKey
           n    == Len(h.undo)
           top  == h.undo[n]
           leaf == [before |-> top[p].before, after |-> value]
           now  == [top EXCEPT ![p] = leaf]
<1>1. p \in Path
  BY DEF HistoryOK, History
<1>2. h.undo \in Seq(Entry) /\ h.undo # <<>> /\ Leaves(top) = {p}
  BY DEF HistoryOK, History
<1>3. n \in 1..n /\ n \in Nat /\ DOMAIN h.undo = 1..n
  BY <1>2, EmptySeq, LenProperties
<1>4. top \in Entry
  BY <1>2, <1>3, ElementOfSeq
<1>5. top[p] \in Leaf
  BY <1>2, <1>4, EntryLeaf DEF Leaves
<1>6. leaf \in Leaf /\ leaf.before = top[p].before /\ leaf.after = value
  BY <1>5 DEF Leaf
<1>7. now \in Entry /\ now[p] = leaf /\ \A q \in Path \ {p} : now[q] = top[q]
  BY <1>1, <1>4, <1>6 DEF Entry
<1>8. Leaves(now) = {p}
  BY <1>2, <1>6, <1>7, NoneIsNoLeaf DEF Leaves
<1>9. Continued(h.undo, p, value) = [h.undo EXCEPT ![n] = now]
  BY DEF Continued
<1> HIDE DEF now, leaf
<1>10. /\ [h.undo EXCEPT ![n] = now] \in Seq(Entry)
       /\ Len([h.undo EXCEPT ![n] = now]) = n
       /\ \A i \in 1..n : [h.undo EXCEPT ![n] = now][i] = IF i = n THEN now ELSE h.undo[i]
  BY <1>2, <1>3, <1>7, ExceptSeq
<1> QED
  BY <1>1, <1>2, <1>3, <1>6, <1>7, <1>8, <1>9, <1>10

\* A seal keeps the types.
LEMMA SealedTypes ==
  ASSUME NEW h, HistoryOK(h), NEW entry \in Entry
  PROVE  HistoryOK(Sealed(h, entry))
<1>1. CASE Leaves(entry) = {}
  BY <1>1 DEF Sealed
<1>2. CASE Leaves(entry) # {} /\ Continues(h, entry)
  <2> DEFINE p == h.mergeKey
             value == entry[p].after
             next  == Continued(h.undo, p, value)
             sealed == [undo |-> next, redo |-> <<>>, mergeKey |-> SingleContinuousKey(entry)]
  <2>1. p \in Path /\ Leaves(entry) = {p}
    BY <1>2, KeyIsOnlyLeaf, UndoAssumption DEF Continues
  <2>2. value \in Value
    BY <2>1, EntryLeaf DEF Leaves
  <2>3. /\ next \in Seq(Entry) /\ Len(next) = Len(h.undo)
        /\ Len(h.undo) \in DOMAIN h.undo
        /\ Leaves(next[Len(h.undo)]) = {p}
    <3>1. h.mergeKey # None
      BY <2>1, UndoAssumption
    <3> HIDE DEF value
    <3> QED
      BY <2>2, <3>1, ContinuedTypes
  <2>4. Sealed(h, entry) = sealed
    BY <1>2 DEF Sealed, Grown
  <2> HIDE DEF next, value
  <2>5. next # <<>>
    BY <2>3, LenProperties, EmptySeq DEF HistoryOK, History
  <2>6. sealed \in History
    BY <2>1, <2>3, KeyIsOnlyLeaf, EmptySeq DEF History
  <2> QED
    BY <1>2, <2>3, <2>4, <2>5, <2>6 DEF HistoryOK, Continues
<1>3. CASE Leaves(entry) # {} /\ ~Continues(h, entry)
  <2> DEFINE next == Pushed(h.undo, entry)
             sealed == [undo |-> next, redo |-> <<>>, mergeKey |-> SingleContinuousKey(entry)]
  <2>1. Sealed(h, entry) = sealed
    BY <1>3 DEF Sealed, Grown
  <2>2. next \in Seq(Entry) /\ Len(next) <= Depth /\ next # <<>> /\ next[Len(next)] = entry
    BY PushedTypes DEF HistoryOK, History
  <2> HIDE DEF next
  <2>3. sealed \in History
    BY <2>2, KeyIsOnlyLeaf, EmptySeq DEF History
  <2> QED
    BY <2>1, <2>2, <2>3, KeyIsOnlyLeaf DEF HistoryOK
<1> QED
  BY <1>1, <1>2, <1>3

\* What undo and redo find to restore.
LEMMA RestorableEntry ==
  ASSUME NEW stack \in Seq(Entry), NEW proj, NEW held, Restorable(stack, proj, held) # {}
  PROVE  LET i == Newest(Restorable(stack, proj, held))
         IN /\ i \in 1..Len(stack)
            /\ stack[i] \in Entry
            /\ Current(stack[i], proj, held) \in Entry
            /\ Leaves(Current(stack[i], proj, held)) # {}
            /\ \A j \in (i + 1)..Len(stack) : Leaves(Current(stack[j], proj, held)) = {}
            /\ SubSeq(stack, 1, i - 1) \in Seq(Entry)
            /\ Len(SubSeq(stack, 1, i - 1)) = i - 1
            /\ \A k \in 1..(i - 1) : SubSeq(stack, 1, i - 1)[k] = stack[k]
<1> DEFINE S == Restorable(stack, proj, held)
           i == Newest(S)
<1>1. S \in SUBSET DOMAIN stack
  BY DEF Restorable
<1>2. i \in S /\ \A j \in S : j <= i
  <2>1. S # {}
    OBVIOUS
  <2> HIDE DEF S
  <2> QED
    BY <1>1, <2>1, NewestIsGreatest
<1>3. DOMAIN stack = 1..Len(stack) /\ Len(stack) \in Nat
  BY LenProperties
<1>4. i \in DOMAIN stack /\ Leaves(Current(stack[i], proj, held)) # {}
  BY <1>2 DEF Restorable
<1>5. \A j \in (i + 1)..Len(stack) : Leaves(Current(stack[j], proj, held)) = {}
  <2> SUFFICES ASSUME NEW j \in (i + 1)..Len(stack), Leaves(Current(stack[j], proj, held)) # {}
               PROVE  FALSE
    OBVIOUS
  <2>0. j \in DOMAIN stack /\ j > i
    <3> HIDE DEF i
    <3> QED
      BY <1>3, <1>4
  <2>1. j \in S
    BY <2>0 DEF Restorable
  <2> HIDE DEF i, S
  <2> QED
    BY <1>2, <1>3, <1>4, <2>0, <2>1
<1> HIDE DEF i
<1>6. stack[i] \in Entry
  BY <1>4, <1>3, ElementOfSeq
<1>7. /\ SubSeq(stack, 1, i - 1) \in Seq(Entry)
      /\ Len(SubSeq(stack, 1, i - 1)) = i - 1
      /\ \A k \in 1..(i - 1) : SubSeq(stack, 1, i - 1)[k] = stack[k]
  BY <1>3, <1>4, SubSeqProperties
<1> QED
  BY <1>3, <1>4, <1>5, <1>6, <1>7, CurrentIsEntry DEF i

\* An undo keeps the types.
LEMMA UndoneTypes ==
  ASSUME NEW proj \in Project, NEW h, HistoryOK(h)
  PROVE  /\ Undone(proj, h).project \in Project
         /\ HistoryOK(Undone(proj, h).history)
<1>1. h.undo \in Seq(Entry) /\ h.redo \in Seq(Entry) /\ Len(h.undo) <= Depth
  BY DEF HistoryOK, History
<1>2. CASE Restorable(h.undo, proj, "after") = {}
  <2>1. Undone(proj, h).project = proj
        /\ Undone(proj, h).history = [h EXCEPT !.undo = <<>>, !.mergeKey = None]
    BY <1>2 DEF Undone
  <2>2. [h EXCEPT !.undo = <<>>, !.mergeKey = None] \in History
    BY EmptySeq DEF HistoryOK, History
  <2>3. Len(<<>>) <= Depth
    BY UndoAssumption, EmptySeq
  <2> QED
    BY <2>1, <2>2, <2>3 DEF HistoryOK, History
<1>3. CASE Restorable(h.undo, proj, "after") # {}
  <2> DEFINE i == Newest(Restorable(h.undo, proj, "after"))
             applied == Current(h.undo[i], proj, "after")
             rest == SubSeq(h.undo, 1, i - 1)
             next == [undo |-> rest, redo |-> Append(h.redo, applied), mergeKey |-> None]
  <2>1. Undone(proj, h).project = Restored(proj, applied, "before")
        /\ Undone(proj, h).history = next
    BY <1>3 DEF Undone
  <2>2. i \in 1..Len(h.undo) /\ applied \in Entry /\ rest \in Seq(Entry) /\ Len(rest) = i - 1
    BY <1>1, <1>3, RestorableEntry
  <2> HIDE DEF applied, rest, i
  <2>3. Append(h.redo, applied) \in Seq(Entry)
    BY <1>1, <2>2, AppendProperties
  <2>4. next \in History
    BY <2>2, <2>3 DEF History
  <2>5. Len(rest) <= Depth
    BY <1>1, <2>2, LenProperties, UndoAssumption
  <2>6. Restored(proj, applied, "before") \in Project
    BY <2>2, RestoredIsProject
  <2> QED
    BY <2>1, <2>4, <2>5, <2>6 DEF HistoryOK
<1> QED
  BY <1>2, <1>3

\* A redo keeps the types.
LEMMA RedoneTypes ==
  ASSUME NEW proj \in Project, NEW h, HistoryOK(h)
  PROVE  /\ Redone(proj, h).project \in Project
         /\ HistoryOK(Redone(proj, h).history)
<1>1. h.undo \in Seq(Entry) /\ h.redo \in Seq(Entry) /\ Len(h.undo) <= Depth
  BY DEF HistoryOK, History
<1>2. CASE Restorable(h.redo, proj, "before") = {}
  <2>1. Redone(proj, h).project = proj
        /\ Redone(proj, h).history = [h EXCEPT !.redo = <<>>, !.mergeKey = None]
    BY <1>2 DEF Redone
  <2>2. [h EXCEPT !.redo = <<>>, !.mergeKey = None] \in History
    BY EmptySeq DEF HistoryOK, History
  <2> QED
    BY <1>1, <2>1, <2>2 DEF HistoryOK, History
<1>3. CASE Restorable(h.redo, proj, "before") # {}
  <2> DEFINE i == Newest(Restorable(h.redo, proj, "before"))
             applied == Current(h.redo[i], proj, "before")
             rest == SubSeq(h.redo, 1, i - 1)
             next == [undo |-> Pushed(h.undo, applied), redo |-> rest, mergeKey |-> None]
  <2>1. Redone(proj, h).project = Restored(proj, applied, "after")
        /\ Redone(proj, h).history = next
    BY <1>3 DEF Redone
  <2>2. applied \in Entry /\ rest \in Seq(Entry)
    BY <1>1, <1>3, RestorableEntry
  <2> HIDE DEF applied, rest, i
  <2>3. Pushed(h.undo, applied) \in Seq(Entry) /\ Len(Pushed(h.undo, applied)) <= Depth
    BY <1>1, <2>2, PushedTypes
  <2>4. next \in History
    BY <2>2, <2>3 DEF History
  <2>5. Restored(proj, applied, "after") \in Project
    BY <2>2, RestoredIsProject
  <2> QED
    BY <2>1, <2>3, <2>4, <2>5 DEF HistoryOK
<1> QED
  BY <1>2, <1>3

-----------------------------------------------------------------------------
(* The type invariant *)

LEMMA TypeOKSplit == TypeOK <=> project \in Project /\ HistoryOK(history) /\ foreign \subseteq Path
BY DEF TypeOK, HistoryOK

LEMMA EmptyHistoryOK == HistoryOK(NoHistory)
BY UndoAssumption, EmptySeq DEF HistoryOK, NoHistory, History

LEMMA TypeInit == Init => TypeOK
BY TypeOKSplit, EmptyHistoryOK DEF Init

LEMMA TypeNext == TypeOK /\ [Next]_vars => TypeOK'
<1> SUFFICES ASSUME TypeOK, [Next]_vars PROVE TypeOK'
  OBVIOUS
<1>0. project \in Project /\ HistoryOK(history) /\ foreign \subseteq Path
  BY TypeOKSplit
<1>a. project' \in Project /\ HistoryOK(history') /\ foreign' \subseteq Path => TypeOK'
  BY DEF TypeOK, HistoryOK
<1>1. CASE Edit
  <2>1. Burst(project, project') \in Entry
    BY <1>0, <1>1, BurstIsEntry DEF Edit
  <2> QED
    BY <1>0, <1>a, <1>1, <2>1, SealedTypes DEF Edit
<1>2. ASSUME NEW p \in Path, EndGesture(p) PROVE TypeOK'
  <2>1. HistoryOK(history')
    BY <1>0, <1>2 DEF EndGesture, HistoryOK, History
  <2> QED
    BY <1>0, <1>a, <1>2, <2>1 DEF EndGesture
<1>3. CASE Undo
  BY <1>0, <1>a, <1>3, UndoneTypes DEF Undo
<1>4. CASE Redo
  BY <1>0, <1>a, <1>4, RedoneTypes DEF Redo
<1>5. ASSUME NEW p \in Path, NEW value \in Value, Remote(p, value) PROVE TypeOK'
  BY <1>0, <1>a, <1>5 DEF Remote, Project
<1>6. ASSUME NEW next \in Project, LoadProject(next) PROVE TypeOK'
  BY <1>a, <1>6, EmptyHistoryOK DEF LoadProject
<1>7. CASE UNCHANGED vars
  BY <1>0, <1>a, <1>7 DEF vars
<1> QED
  BY <1>1, <1>2, <1>3, <1>4, <1>5, <1>6, <1>7 DEF Next

\* The types hold, the stack stays within UNDO_DEPTH, and a merge key names the only
\* leaf of the newest entry: seal may write top.leaves[0] without looking.
THEOREM TypeInvariant == Spec => []TypeOK
BY TypeInit, TypeNext, PTL DEF Spec

-----------------------------------------------------------------------------
(* Chains *)

\* No entry, no link to break.
LEMMA EmptyChain ==
  ASSUME NEW proj, NEW p, NEW near, NEW far
  PROVE  Chain(proj, <<>>, p, near, far)
BY EmptySeq DEF Chain

\* An entry that starts at the live value and leads to the next one extends a chain.
LEMMA ChainAppend ==
  ASSUME NEW proj, NEW next, NEW stack \in Seq(Entry), NEW entry \in Entry,
         NEW p \in Path, NEW near, NEW far,
         Chain(proj, stack, p, near, far),
         entry[p] # None => entry[p][far] = proj[p] /\ entry[p][near] = next[p],
         entry[p] = None => next[p] = proj[p]
  PROVE  Chain(next, Append(stack, entry), p, near, far)
<1> DEFINE n == Len(stack)
           longer == Append(stack, entry)
<1>1. /\ n \in Nat /\ DOMAIN stack = 1..n /\ DOMAIN longer = 1..(n + 1) /\ Len(longer) = n + 1
      /\ \A k \in 1..n : longer[k] = stack[k]
      /\ longer[n + 1] = entry
  BY LenProperties, AppendProperties
<1> HIDE DEF longer, n
<1>2. ASSUME NEW k \in 1..(n + 1), Precedes(longer, k, n + 2, p)
      PROVE  longer[k][p][near] = next[p]
  <2>1. CASE k = n + 1
    BY <1>1, <1>2, <2>1 DEF Precedes
  <2>2. CASE k # n + 1
    <3>1. entry[p] = None
      BY <1>1, <1>2, <2>2 DEF Precedes
    <3>2. k \in 1..n /\ Precedes(stack, k, n + 1, p)
      BY <1>1, <1>2, <2>2 DEF Precedes
    <3> QED
      BY <1>1, <3>1, <3>2 DEF Chain, n
  <2> QED
    BY <2>1, <2>2
<1>3. ASSUME NEW k \in 1..(n + 1), NEW j \in (k + 1)..(n + 1),
             Precedes(longer, k, j, p), longer[j][p] # None
      PROVE  longer[k][p][near] = longer[j][p][far]
  <2>1. k \in 1..n /\ Precedes(stack, k, j, p)
    BY <1>1, <1>3 DEF Precedes
  <2>2. CASE j = n + 1
    BY <1>1, <1>3, <2>1, <2>2 DEF Chain, n
  <2>3. CASE j # n + 1
    BY <1>1, <1>3, <2>1, <2>3 DEF Chain, n
  <2> QED
    BY <2>2, <2>3
<1>4. (n + 1) + 1 = n + 2
  BY <1>1
<1> QED
  BY <1>1, <1>2, <1>3, <1>4 DEF Chain, longer

\* A chain without its oldest entry is a chain.
LEMMA ChainTail ==
  ASSUME NEW proj, NEW stack \in Seq(Entry), stack # <<>>, NEW p \in Path, NEW near, NEW far,
         Chain(proj, stack, p, near, far)
  PROVE  Chain(proj, Tail(stack), p, near, far)
<1> DEFINE n == Len(stack)
           shorter == Tail(stack)
<1>1. /\ n \in Nat \ {0} /\ DOMAIN stack = 1..n
      /\ Len(shorter) = n - 1 /\ DOMAIN shorter = 1..(n - 1)
      /\ \A k \in 1..(n - 1) : shorter[k] = stack[k + 1]
  BY LenProperties, HeadTailProperties, EmptySeq
<1> HIDE DEF shorter, n
<1>2. \A k \in 1..(n - 1) : \A j \in (k + 1)..n :
        Precedes(shorter, k, j, p) => Precedes(stack, k + 1, j + 1, p)
  <2> SUFFICES ASSUME NEW k \in 1..(n - 1), NEW j \in (k + 1)..n, Precedes(shorter, k, j, p)
               PROVE  Precedes(stack, k + 1, j + 1, p)
    OBVIOUS
  <2>1. stack[k + 1][p] # None
    BY <1>1 DEF Precedes
  <2>2. \A m \in (k + 2)..j : m - 1 \in (k + 1)..(j - 1) /\ stack[m] = shorter[m - 1]
    BY <1>1
  <2>3. \A m \in (k + 2)..j : stack[m][p] = None
    BY <2>2 DEF Precedes
  <2>4. (k + 1) + 1 = k + 2 /\ (j + 1) - 1 = j
    BY <1>1
  <2> QED
    BY <2>1, <2>3, <2>4 DEF Precedes
<1>3. ASSUME NEW k \in 1..(n - 1), Precedes(shorter, k, n, p)
      PROVE  shorter[k][p][near] = proj[p]
  <2>1. k + 1 \in 1..n /\ n \in (k + 1)..n
    BY <1>1
  <2>2. Precedes(stack, k + 1, n + 1, p)
    BY <1>2, <1>3, <2>1
  <2> QED
    BY <1>1, <2>1, <2>2 DEF Chain, n
<1>4. ASSUME NEW k \in 1..(n - 1), NEW j \in (k + 1)..(n - 1),
             Precedes(shorter, k, j, p), shorter[j][p] # None
      PROVE  shorter[k][p][near] = shorter[j][p][far]
  <2>1. k + 1 \in 1..n /\ j \in (k + 1)..n /\ j + 1 \in ((k + 1) + 1)..n /\ j \in 1..(n - 1)
    BY <1>1
  <2>2. Precedes(stack, k + 1, j + 1, p) /\ stack[j + 1][p] # None
    BY <1>1, <1>2, <1>4, <2>1
  <2> QED
    BY <1>1, <2>1, <2>2 DEF Chain, n
<1>5. (n - 1) + 1 = n
  BY <1>1
<1> QED
  BY <1>1, <1>3, <1>4, <1>5 DEF Chain, shorter

\* A push extends a chain, whether or not the oldest entry goes.
LEMMA ChainPush ==
  ASSUME NEW proj, NEW next, NEW stack \in Seq(Entry), NEW entry \in Entry,
         NEW p \in Path, NEW near, NEW far,
         Chain(proj, stack, p, near, far),
         entry[p] # None => entry[p][far] = proj[p] /\ entry[p][near] = next[p],
         entry[p] = None => next[p] = proj[p]
  PROVE  Chain(next, Pushed(stack, entry), p, near, far)
<1>1. CASE Len(stack) = Depth
  <2>1. stack # <<>>
    BY <1>1, UndoAssumption, EmptySeq
  <2>2. Tail(stack) \in Seq(Entry)
    BY <2>1, HeadTailProperties
  <2>3. Chain(proj, Tail(stack), p, near, far)
    BY <2>1, ChainTail
  <2> QED
    BY <1>1, <2>2, <2>3, ChainAppend DEF Pushed
<1>2. CASE Len(stack) # Depth
  BY <1>2, ChainAppend DEF Pushed
<1> QED
  BY <1>1, <1>2

\* Restoring the newest entry of which something is current takes the live value one
\* link down the chain: what was above it holds nothing of the leaf.
LEMMA ChainRestore ==
  ASSUME NEW proj, NEW stack \in Seq(Entry), NEW i \in 1..Len(stack),
         NEW p \in Path, NEW near, NEW far,
         Chain(proj, stack, p, near, far),
         \A j \in (i + 1)..Len(stack) : Leaves(Current(stack[j], proj, near)) = {}
  PROVE  LET applied == Current(stack[i], proj, near)
             next == Restored(proj, applied, far)
         IN Chain(next, SubSeq(stack, 1, i - 1), p, near, far)
<1> DEFINE n == Len(stack)
           applied == Current(stack[i], proj, near)
           next == Restored(proj, applied, far)
           rest == SubSeq(stack, 1, i - 1)
<1>1. n \in Nat /\ DOMAIN stack = 1..n /\ i \in 1..n
  BY LenProperties
<1>2. \A j \in 1..n : j > i => stack[j][p] = None
  <2> DEFINE S == {j \in 1..n : j > i /\ stack[j][p] # None}
  <2> SUFFICES ASSUME S # {} PROVE FALSE
    OBVIOUS
  <2>1. PICK g \in S : \A j \in S : j <= g
    <3>1. S \in SUBSET (1..n)
      OBVIOUS
    <3> HIDE DEF S
    <3> QED
      BY <1>1, <3>1, GreatestIndex
  <2>2. g \in 1..n /\ g > i /\ stack[g][p] # None
    OBVIOUS
  <2>3. \A k \in (g + 1)..n : stack[k][p] = None
    <3> SUFFICES ASSUME NEW k \in (g + 1)..n, stack[k][p] # None PROVE FALSE
      OBVIOUS
    <3>1. k \in 1..n /\ k > i /\ k > g
      BY <1>1, <2>2
    <3>2. k \in S
      BY <3>1
    <3> QED
      BY <1>1, <2>1, <2>2, <3>1, <3>2
  <2>4. Precedes(stack, g, n + 1, p)
    <3>1. (n + 1) - 1 = n
      BY <1>1
    <3> QED
      BY <2>2, <2>3, <3>1 DEF Precedes
  <2>5. stack[g][p][near] = proj[p]
    BY <1>1, <2>2, <2>4 DEF Chain
  <2>6. p \in Leaves(Current(stack[g], proj, near))
    BY <2>2, <2>5 DEF Leaves, Current
  <2> QED
    BY <1>1, <2>2, <2>6
<1>3. stack[i][p] # None => Precedes(stack, i, n + 1, p)
  BY <1>1, <1>2 DEF Precedes
<1>4. stack[i][p] # None => stack[i][p][near] = proj[p]
  BY <1>1, <1>3 DEF Chain
<1>5. applied[p] = stack[i][p]
  BY <1>4 DEF Current
<1>6. next[p] = IF applied[p] # None THEN applied[p][far] ELSE proj[p]
  BY DEF Restored
<1>7. /\ DOMAIN rest = 1..(i - 1) /\ Len(rest) = i - 1
      /\ \A k \in 1..(i - 1) : rest[k] = stack[k]
  <2>1. rest \in Seq(Entry) /\ Len(rest) = i - 1 /\ \A k \in 1..(i - 1) : rest[k] = stack[k]
    BY <1>1, SubSeqProperties
  <2> QED
    BY <2>1, LenProperties
<1> HIDE DEF rest, applied, next, n
<1>8. ASSUME NEW k \in 1..(i - 1), Precedes(rest, k, i, p)
      PROVE  rest[k][p][near] = next[p]
  <2>1. k \in 1..n /\ rest[k] = stack[k] /\ Precedes(stack, k, i, p) /\ i \in (k + 1)..n
    BY <1>1, <1>7, <1>8 DEF Precedes
  <2>2. CASE stack[i][p] # None
    BY <1>1, <1>5, <1>6, <2>1, <2>2 DEF Chain, n
  <2>3. CASE stack[i][p] = None
    <3>1. Precedes(stack, k, n + 1, p)
      BY <1>1, <1>2, <2>1, <2>3 DEF Precedes
    <3> QED
      BY <1>1, <1>5, <1>6, <2>1, <2>3, <3>1 DEF Chain, n
  <2> QED
    BY <2>2, <2>3
<1>9. ASSUME NEW k \in 1..(i - 1), NEW j \in (k + 1)..(i - 1),
             Precedes(rest, k, j, p), rest[j][p] # None
      PROVE  rest[k][p][near] = rest[j][p][far]
  <2>1. /\ k \in 1..n /\ j \in (k + 1)..n /\ j \in 1..(i - 1)
        /\ rest[k] = stack[k] /\ rest[j] = stack[j] /\ Precedes(stack, k, j, p)
    BY <1>1, <1>7, <1>9 DEF Precedes
  <2> QED
    BY <1>1, <1>9, <2>1 DEF Chain, n
<1>10. (i - 1) + 1 = i
  BY <1>1
<1>11. Chain(next, rest, p, near, far)
  BY <1>7, <1>8, <1>9, <1>10 DEF Chain
<1> QED
  BY <1>11 DEF applied, rest, next

\* A drag moves the near end of the newest entry together with the live value.
LEMMA ChainContinued ==
  ASSUME NEW proj, NEW next, NEW h, HistoryOK(h), h.mergeKey # None, NEW p \in Path,
         Chain(proj, h.undo, p, "after", "before"),
         next[h.mergeKey] \in Value,
         p # h.mergeKey => next[p] = proj[p]
  PROVE  Chain(next, Continued(h.undo, h.mergeKey, next[h.mergeKey]), p, "after", "before")
<1> DEFINE stack == h.undo
           n == Len(stack)
           moved == Continued(stack, h.mergeKey, next[h.mergeKey])
<1>1. h.mergeKey \in Path
  BY DEF HistoryOK, History
<1>2. /\ n \in DOMAIN stack
      /\ moved \in Seq(Entry) /\ Len(moved) = n
      /\ \A i \in DOMAIN stack : i # n => moved[i] = stack[i]
      /\ Leaves(stack[n]) = {h.mergeKey} /\ Leaves(moved[n]) = {h.mergeKey}
      /\ moved[n][h.mergeKey].before = stack[n][h.mergeKey].before
      /\ moved[n][h.mergeKey].after = next[h.mergeKey]
  BY ContinuedTypes
<1>3. n \in Nat /\ DOMAIN stack = 1..n /\ DOMAIN moved = 1..n /\ n \in 1..n
  <2>1. stack \in Seq(Entry)
    BY DEF HistoryOK, History
  <2> QED
    BY <1>2, <2>1, LenProperties
<1> HIDE DEF moved, n, stack
<1>4. \A q \in Path : (moved[n][q] = None <=> stack[n][q] = None) /\ (moved[n][q] # None <=> q = h.mergeKey)
  BY <1>2 DEF Leaves
<1>5. \A i \in 1..n : moved[i][p] = None <=> stack[i][p] = None
  BY <1>2, <1>3, <1>4
<1>6. \A i \in 1..n, j \in 1..(n + 1) : Precedes(moved, i, j, p) <=> Precedes(stack, i, j, p)
  BY <1>3, <1>5 DEF Precedes
<1>7. ASSUME NEW i \in 1..n, Precedes(moved, i, n + 1, p)
      PROVE  moved[i][p].after = next[p]
  <2>1. CASE i = n
    BY <1>2, <1>4, <1>7, <2>1 DEF Precedes
  <2>2. CASE i # n
    <3>1. moved[n][p] = None
      BY <1>3, <1>7, <2>2 DEF Precedes
    <3>2. next[p] = proj[p]
      BY <1>1, <1>4, <3>1
    <3>3. Precedes(stack, i, n + 1, p) /\ moved[i] = stack[i]
      BY <1>2, <1>3, <1>6, <1>7, <2>2
    <3> QED
      BY <1>3, <3>2, <3>3 DEF Chain, stack, n
  <2> QED
    BY <2>1, <2>2
<1>8. ASSUME NEW i \in 1..n, NEW j \in (i + 1)..n, Precedes(moved, i, j, p), moved[j][p] # None
      PROVE  moved[i][p].after = moved[j][p].before
  <2>1. j \in 1..n /\ i # n /\ moved[i] = stack[i] /\ Precedes(stack, i, j, p) /\ stack[j][p] # None
    BY <1>2, <1>3, <1>5, <1>6, <1>8
  <2>2. moved[j][p].before = stack[j][p].before
    <3>1. CASE j = n
      BY <1>2, <1>4, <1>8, <3>1
    <3>2. CASE j # n
      BY <1>2, <1>3, <2>1, <3>2
    <3> QED
      BY <3>1, <3>2
  <2>3. stack[i][p].after = stack[j][p].before
    BY <1>3, <2>1 DEF Chain, stack, n
  <2> QED
    BY <2>1, <2>2, <2>3
<1> QED
  BY <1>2, <1>3, <1>7, <1>8 DEF Chain, moved, stack

-----------------------------------------------------------------------------
(* HistoryLinks *)

\* Both stacks of a history are chains along p.
Linked(proj, h, p) ==
  /\ Chain(proj, h.undo, p, "after", "before")
  /\ Chain(proj, h.redo, p, "before", "after")

\* A chain depends on the live value of its own leaf only.
LEMMA LinkedCongruence ==
  ASSUME NEW proj, NEW next, NEW h, NEW k, NEW p, Linked(proj, h, p),
         next[p] = proj[p], k.undo = h.undo, k.redo = h.redo
  PROVE  Linked(next, k, p)
BY DEF Linked, Chain

\* A seal keeps a leaf linked.
LEMMA SealedLinked ==
  ASSUME NEW proj \in Project, NEW next \in Project, NEW h, HistoryOK(h),
         NEW p \in Path, Linked(proj, h, p)
  PROVE  Linked(next, Sealed(h, Burst(proj, next)), p)
<1> DEFINE entry == Burst(proj, next)
<1>1. /\ entry \in Entry
      /\ \A q \in Path : entry[q] # None => entry[q].before = proj[q] /\ entry[q].after = next[q]
      /\ \A q \in Path : entry[q] = None => proj[q] = next[q]
  BY BurstIsEntry
<1> HIDE DEF entry
<1>2. CASE Leaves(entry) = {}
  <2>1. next[p] = proj[p] /\ Sealed(h, entry) = h
    BY <1>1, <1>2 DEF Leaves, Sealed
  <2> QED
    BY <2>1, LinkedCongruence DEF entry
<1>3. CASE Leaves(entry) # {} /\ Continues(h, entry)
  <2> DEFINE key == h.mergeKey
  <2>1. key # None /\ Leaves(entry) = {key}
    BY <1>3, KeyIsOnlyLeaf DEF Continues
  <2>2. key \in Path /\ entry[key] # None
    BY <2>1 DEF Leaves
  <2>3. entry[key].after = next[key] /\ next[key] \in Value
    BY <1>1, <2>2 DEF Project
  <2>4. p # key => next[p] = proj[p]
    BY <1>1, <2>1 DEF Leaves
  <2>5. /\ Sealed(h, entry).undo = Continued(h.undo, key, next[key])
        /\ Sealed(h, entry).redo = <<>>
    BY <1>3, <2>3 DEF Sealed, Grown
  <2>6. Chain(next, Continued(h.undo, key, next[key]), p, "after", "before")
    BY <2>1, <2>3, <2>4, ChainContinued DEF Linked
  <2> QED
    BY <2>5, <2>6, EmptyChain DEF Linked, entry
<1>4. CASE Leaves(entry) # {} /\ ~Continues(h, entry)
  <2>1. /\ Sealed(h, entry).undo = Pushed(h.undo, entry)
        /\ Sealed(h, entry).redo = <<>>
    BY <1>4 DEF Sealed, Grown
  <2>2. h.undo \in Seq(Entry)
    BY DEF HistoryOK, History
  <2>3. Chain(next, Pushed(h.undo, entry), p, "after", "before")
    BY <1>1, <2>2, ChainPush DEF Linked
  <2> QED
    BY <2>1, <2>3, EmptyChain DEF Linked, entry
<1> QED
  BY <1>2, <1>3, <1>4

\* An undo keeps a leaf linked.
LEMMA UndoneLinked ==
  ASSUME NEW proj \in Project, NEW h, HistoryOK(h), NEW p \in Path, Linked(proj, h, p)
  PROVE  Linked(Undone(proj, h).project, Undone(proj, h).history, p)
<1>1. h.undo \in Seq(Entry) /\ h.redo \in Seq(Entry)
  BY DEF HistoryOK, History
<1>2. CASE Restorable(h.undo, proj, "after") = {}
  <2>1. /\ Undone(proj, h).project = proj
        /\ Undone(proj, h).history.undo = <<>>
        /\ Undone(proj, h).history.redo = h.redo
    BY <1>2 DEF Undone, HistoryOK, History
  <2> QED
    BY <2>1, EmptyChain DEF Linked
<1>3. CASE Restorable(h.undo, proj, "after") # {}
  <2> DEFINE i == Newest(Restorable(h.undo, proj, "after"))
             applied == Current(h.undo[i], proj, "after")
             next == Restored(proj, applied, "before")
  <2>1. /\ Undone(proj, h).project = next
        /\ Undone(proj, h).history.undo = SubSeq(h.undo, 1, i - 1)
        /\ Undone(proj, h).history.redo = Append(h.redo, applied)
    BY <1>3 DEF Undone
  <2>2. /\ i \in 1..Len(h.undo) /\ applied \in Entry
        /\ \A j \in (i + 1)..Len(h.undo) : Leaves(Current(h.undo[j], proj, "after")) = {}
    BY <1>1, <1>3, RestorableEntry
  <2> HIDE DEF i
  <2>3. Chain(next, SubSeq(h.undo, 1, i - 1), p, "after", "before")
    <3>1. Chain(proj, h.undo, p, "after", "before")
      BY DEF Linked
    <3> QED
      BY <1>1, <2>2, <3>1, ChainRestore
  <2>4. /\ applied[p] # None => applied[p].after = proj[p] /\ applied[p].before = next[p]
        /\ applied[p] = None => next[p] = proj[p]
    BY DEF Current, Restored
  <2> HIDE DEF applied, next
  <2>5. Chain(next, Append(h.redo, applied), p, "before", "after")
    BY <1>1, <2>2, <2>4, ChainAppend DEF Linked
  <2> QED
    BY <2>1, <2>3, <2>5 DEF Linked
<1> QED
  BY <1>2, <1>3

\* A redo keeps a leaf linked.
LEMMA RedoneLinked ==
  ASSUME NEW proj \in Project, NEW h, HistoryOK(h), NEW p \in Path, Linked(proj, h, p)
  PROVE  Linked(Redone(proj, h).project, Redone(proj, h).history, p)
<1>1. h.undo \in Seq(Entry) /\ h.redo \in Seq(Entry)
  BY DEF HistoryOK, History
<1>2. CASE Restorable(h.redo, proj, "before") = {}
  <2>1. /\ Redone(proj, h).project = proj
        /\ Redone(proj, h).history.redo = <<>>
        /\ Redone(proj, h).history.undo = h.undo
    BY <1>2 DEF Redone, HistoryOK, History
  <2> QED
    BY <2>1, EmptyChain DEF Linked
<1>3. CASE Restorable(h.redo, proj, "before") # {}
  <2> DEFINE i == Newest(Restorable(h.redo, proj, "before"))
             applied == Current(h.redo[i], proj, "before")
             next == Restored(proj, applied, "after")
  <2>1. /\ Redone(proj, h).project = next
        /\ Redone(proj, h).history.undo = Pushed(h.undo, applied)
        /\ Redone(proj, h).history.redo = SubSeq(h.redo, 1, i - 1)
    BY <1>3 DEF Redone
  <2>2. /\ i \in 1..Len(h.redo) /\ applied \in Entry
        /\ \A j \in (i + 1)..Len(h.redo) : Leaves(Current(h.redo[j], proj, "before")) = {}
    BY <1>1, <1>3, RestorableEntry
  <2> HIDE DEF i
  <2>3. Chain(next, SubSeq(h.redo, 1, i - 1), p, "before", "after")
    <3>1. Chain(proj, h.redo, p, "before", "after")
      BY DEF Linked
    <3> QED
      BY <1>1, <2>2, <3>1, ChainRestore
  <2>4. /\ applied[p] # None => applied[p].before = proj[p] /\ applied[p].after = next[p]
        /\ applied[p] = None => next[p] = proj[p]
    BY DEF Current, Restored
  <2> HIDE DEF applied, next
  <2>5. Chain(next, Pushed(h.undo, applied), p, "after", "before")
    BY <1>1, <2>2, <2>4, ChainPush DEF Linked
  <2> QED
    BY <2>1, <2>3, <2>5 DEF Linked
<1> QED
  BY <1>2, <1>3

LEMMA LinksNext == TypeOK /\ HistoryLinks /\ [Next]_vars => HistoryLinks'
<1> SUFFICES ASSUME TypeOK, HistoryLinks, [Next]_vars,
                    NEW p \in Path, p \notin foreign'
             PROVE  Linked(project', history', p)
  BY DEF HistoryLinks, Linked
<1>0. project \in Project /\ HistoryOK(history)
  BY TypeOKSplit
<1>a. p \notin foreign => Linked(project, history, p)
  BY DEF HistoryLinks, Linked
<1>1. CASE Edit
  BY <1>0, <1>a, <1>1, SealedLinked DEF Edit
<1>2. ASSUME NEW q \in Path, EndGesture(q) PROVE Linked(project', history', p)
  <2>1. history'.undo = history.undo /\ history'.redo = history.redo
    BY <1>0, <1>2 DEF EndGesture, HistoryOK, History
  <2>2. project' = project /\ foreign' = foreign
    BY <1>2 DEF EndGesture
  <2> QED
    BY <1>a, <2>1, <2>2, LinkedCongruence
<1>3. CASE Undo
  BY <1>0, <1>a, <1>3, UndoneLinked DEF Undo
<1>4. CASE Redo
  BY <1>0, <1>a, <1>4, RedoneLinked DEF Redo
<1>5. ASSUME NEW q \in Path, NEW value \in Value, Remote(q, value)
      PROVE  Linked(project', history', p)
  <2>1. p # q /\ p \notin foreign /\ history' = history
    BY <1>5 DEF Remote
  <2>2. project'[p] = project[p]
    BY <1>0, <1>5, <2>1 DEF Remote, Project
  <2> QED
    BY <1>a, <2>1, <2>2, LinkedCongruence
<1>6. ASSUME NEW next \in Project, LoadProject(next) PROVE Linked(project', history', p)
  BY <1>6, EmptyChain DEF LoadProject, NoHistory, Linked
<1>7. CASE UNCHANGED vars
  BY <1>a, <1>7 DEF vars
<1> QED
  BY <1>1, <1>2, <1>3, <1>4, <1>5, <1>6, <1>7 DEF Next

\* On a leaf nobody else has written, undo leads back through every value the player
\* gave it and redo forward again, whatever bursts, drags, skipped entries, dropped
\* oldest entries, undos and redos came between.
THEOREM HistoryStaysLinked == Spec => []HistoryLinks
<1>1. Init => HistoryLinks
  BY EmptyChain DEF Init, NoHistory, HistoryLinks
<1> QED
  BY <1>1, TypeInit, TypeNext, LinksNext, PTL DEF Spec

-----------------------------------------------------------------------------
(* RedoUndoesUndo *)

\* Every leaf of an applied entry is current once more after the restore, so redo finds
\* it on top and puts back what the undo replaced.
LEMMA RedoneAfterUndone ==
  ASSUME NEW proj \in Project, NEW h, HistoryOK(h), Restorable(h.undo, proj, "after") # {}
  PROVE  Redone(Undone(proj, h).project, Undone(proj, h).history).project = proj
<1> DEFINE i == Newest(Restorable(h.undo, proj, "after"))
           applied == Current(h.undo[i], proj, "after")
           next == Restored(proj, applied, "before")
           redo == Append(h.redo, applied)
           n == Len(redo)
           S == Restorable(redo, next, "before")
<1>1. h.undo \in Seq(Entry) /\ h.redo \in Seq(Entry)
  BY DEF HistoryOK, History
<1>2. /\ Undone(proj, h).project = next
      /\ Undone(proj, h).history.redo = redo
  BY DEF Undone
<1>3. applied \in Entry /\ Leaves(applied) # {}
  BY <1>1, RestorableEntry
<1>4. \A p \in Path : applied[p] # None => applied[p].after = proj[p]
  BY DEF Current
<1>5. \A p \in Path : next[p] = IF applied[p] # None THEN applied[p].before ELSE proj[p]
  BY DEF Restored
<1> HIDE DEF applied
<1>6. redo \in Seq(Entry) /\ n \in DOMAIN redo /\ DOMAIN redo = 1..n /\ n \in Nat /\ redo[n] = applied
  BY <1>1, <1>3, AppendProperties, LenProperties
<1> HIDE DEF redo, n
<1>7. \A p \in Path : Current(applied, next, "before")[p] = applied[p]
  BY <1>5 DEF Current
<1>8. n \in S
  BY <1>3, <1>6, <1>7 DEF Restorable, Leaves
<1>9. Newest(S) = n
  <2>1. S \in SUBSET DOMAIN redo
    BY DEF Restorable
  <2> HIDE DEF S
  <2>2. Newest(S) \in S /\ \A j \in S : j <= Newest(S)
    BY <1>6, <1>8, <2>1, NewestIsGreatest
  <2> QED
    BY <1>6, <1>8, <2>1, <2>2
<1>10. Redone(next, Undone(proj, h).history).project
         = Restored(next, Current(applied, next, "before"), "after")
  BY <1>2, <1>6, <1>8, <1>9 DEF Redone
<1>11. \A p \in Path : Restored(next, Current(applied, next, "before"), "after")[p] = proj[p]
  BY <1>4, <1>5, <1>7 DEF Restored
<1>12. Restored(next, Current(applied, next, "before"), "after") = proj
  BY <1>11 DEF Restored, Project
<1> QED
  BY <1>2, <1>10, <1>12

\* An undo that is taken back at once changes nothing, whatever leaves it skipped.
THEOREM RedoIsInverse == Spec => []RedoUndoesUndo
<1>1. TypeOK => RedoUndoesUndo
  BY TypeOKSplit, RedoneAfterUndone DEF RedoUndoesUndo
<1> QED
  BY <1>1, TypeInvariant, PTL

-----------------------------------------------------------------------------
(* The page *)

Addresses == {Roomless} \cup {Url(room, track) : room \in Room, track \in Track \cup {Nowhere}}

Pages ==
  {s \in [entries : Seq(Addresses), at : Nat, view : {"none", "lobby", "studio", "account"},
          room : Room \cup {Nowhere}, focused : Track \cup {Nowhere}, enabled : SUBSET Track,
          fatal : BOOLEAN, seen : BOOLEAN] : s.at \in 1..Len(s.entries)}

\* The address is that of the room and the track, and the studio is in a room.
Located(s) == Address(s) = Url(s.room, s.focused) /\ (s.view = "studio" => s.room # Nowhere)

NoLobbyIn(s) == s.view = "lobby" => s.room = Nowhere

\* A url written into the address is the one that is read.
LEMMA UrlIsWritten ==
  ASSUME NEW s \in Pages, NEW url \in Addresses, NEW mode
  PROVE  LET t == SetUrl(s, url, mode) IN
         /\ t \in Pages /\ Address(t) = url
         /\ t.view = s.view /\ t.room = s.room /\ t.focused = s.focused /\ t.enabled = s.enabled
         /\ t.fatal = s.fatal /\ t.seen = s.seen
<1>1. s.entries \in Seq(Addresses) /\ s.at \in 1..Len(s.entries) /\ Len(s.entries) \in Nat
  BY DEF Pages
<1>2. CASE mode = "push"
  <2> DEFINE kept == SubSeq(s.entries, 1, s.at)
  <2>1. kept \in Seq(Addresses) /\ Len(kept) = s.at
    BY <1>1
  <2> HIDE DEF kept
  <2>2. Append(kept, url) \in Seq(Addresses) /\ Len(Append(kept, url)) = s.at + 1 /\ Append(kept, url)[s.at + 1] = url
    BY <2>1
  <2>3. SetUrl(s, url, mode) = [s EXCEPT !.entries = Append(kept, url), !.at = s.at + 1]
    BY <1>2 DEF SetUrl, kept, Pages
  <2>4. s.at + 1 \in 1..Len(Append(kept, url)) /\ s.at + 1 \in Nat
    BY <1>1, <2>2
  <2> DEFINE longer == Append(kept, url)
             t == [s EXCEPT !.entries = longer, !.at = s.at + 1]
  <2> HIDE DEF longer
  <2>5. /\ t \in Pages /\ t.entries = longer /\ t.at = s.at + 1
        /\ t.view = s.view /\ t.room = s.room /\ t.focused = s.focused /\ t.enabled = s.enabled
        /\ t.fatal = s.fatal /\ t.seen = s.seen
    BY <2>2, <2>4 DEF Pages, longer
  <2> HIDE DEF t
  <2> QED
    BY <2>2, <2>3, <2>5 DEF Address, t, longer
<1>3. CASE mode # "push"
  <2>1. SetUrl(s, url, mode) = [s EXCEPT !.entries = [s.entries EXCEPT ![s.at] = url]]
    BY <1>3 DEF SetUrl, Pages
  <2>2. [s.entries EXCEPT ![s.at] = url] \in Seq(Addresses) /\ Len([s.entries EXCEPT ![s.at] = url]) = Len(s.entries)
    BY <1>1, ExceptSeq
  <2>3. [s.entries EXCEPT ![s.at] = url][s.at] = url
    BY <1>1
  <2> QED
    BY <1>1, <2>1, <2>2, <2>3 DEF Pages, Address
<1> QED
  BY <1>2, <1>3

\* Url and Addresses, as records.
LEMMA UrlsOfRooms ==
  /\ Roomless \in Addresses /\ Roomless.room = Nowhere /\ Roomless.track = Nowhere
  /\ \A room \in Room, track \in Track \cup {Nowhere} : Url(room, track) \in Addresses
  /\ \A room, track : Url(room, track).room = room /\ Url(room, track).track = track
  /\ \A url \in Addresses : url.room \in Room \/ url = Roomless
  /\ \A url \in Addresses : url.track \in Track \cup {Nowhere}
<1>1. \A room, track : Url(room, track).room = room /\ Url(room, track).track = track
  BY DEF Url
<1>2. Roomless \in Addresses /\ Roomless.room = Nowhere /\ Roomless.track = Nowhere
  BY <1>1 DEF Roomless, Addresses
<1>3. \A room \in Room, track \in Track \cup {Nowhere} : Url(room, track) \in Addresses
  BY DEF Addresses
<1>4. ASSUME NEW url \in Addresses
      PROVE  (url.room \in Room \/ url = Roomless) /\ url.track \in Track \cup {Nowhere}
  <2>1. CASE url = Roomless
    BY <1>2, <2>1
  <2>2. ASSUME NEW room \in Room, NEW track \in Track \cup {Nowhere}, url = Url(room, track)
        PROVE  url.room \in Room /\ url.track \in Track \cup {Nowhere}
    BY <1>1, <2>2
  <2> QED
    BY <2>1, <2>2 DEF Addresses
<1> QED
  BY <1>1, <1>2, <1>3, <1>4

\* Who is in no room looks at no track.
LEMMA RoomlessHasNoTrack ==
  ASSUME NEW s \in Pages, Located(s), s.room = Nowhere
  PROVE  s.focused = Nowhere /\ Address(s) = Roomless
<1>1. Address(s) \in Addresses
  BY DEF Address, Pages
<1>2. Address(s).room = Nowhere /\ Address(s).track = s.focused
  BY UrlsOfRooms DEF Located
<1> QED
  BY <1>1, <1>2, UrlsOfRooms, NavigationAssumption

LEMMA TrackIsApplied ==
  ASSUME NEW s \in Pages, NEW track \in Track \cup {Nowhere}, NEW mode, s.room # Nowhere
  PROVE  LET t == ApplyFocusedTrack(s, track, mode) IN
         /\ t \in Pages /\ Address(t) = Url(s.room, track)
         /\ t.view = s.view /\ t.room = s.room /\ t.focused = track
<1> DEFINE u == SetUrl(s, Url(s.room, track), mode)
<1>1. Url(s.room, track) \in Addresses
  BY UrlsOfRooms DEF Pages
<1>2. u \in Pages /\ Address(u) = Url(s.room, track) /\ u.view = s.view /\ u.room = s.room
  BY <1>1, UrlIsWritten
<1>3. ApplyFocusedTrack(s, track, mode) = [u EXCEPT !.focused = track]
  BY DEF ApplyFocusedTrack
<1> HIDE DEF u
<1> QED
  BY <1>2, <1>3 DEF Pages, Address

LEMMA SessionIsLeft ==
  ASSUME NEW s \in Pages
  PROVE  LET t == LeaveSession(s) IN
         /\ t \in Pages /\ Address(t) = Roomless
         /\ t.view = s.view /\ t.room = Nowhere /\ t.focused = Nowhere
<1> DEFINE u == [Disconnected(s) EXCEPT !.enabled = FreshTracks, !.focused = Nowhere]
<1>1. u \in Pages /\ u.view = s.view /\ u.room = Nowhere /\ u.focused = Nowhere
  BY NavigationAssumption DEF Disconnected, Pages
<1> HIDE DEF u
<1>2. LeaveSession(s) = SetUrl(u, Roomless, "replace")
  BY DEF LeaveSession, u
<1> QED
  BY <1>1, <1>2, UrlIsWritten, UrlsOfRooms

LEMMA SessionIsJoined ==
  ASSUME NEW s \in Pages, NEW room \in Room, NEW mode
  PROVE  LET t == ConnectTo(s, room, mode) IN
         /\ t \in Pages /\ Address(t) = Url(room, Nowhere)
         /\ t.view = s.view /\ t.room = room /\ t.focused = Nowhere
<1> DEFINE u == [s EXCEPT !.focused = Nowhere]
           t(m) == SetUrl(u, Url(room, Nowhere), m)
<1>1. u \in Pages /\ u.view = s.view /\ u.room = s.room /\ u.focused = Nowhere
  BY DEF Pages
<1> HIDE DEF u
<1>2. \A m : /\ t(m) \in Pages /\ Address(t(m)) = Url(room, Nowhere)
             /\ t(m).view = s.view /\ t(m).room = s.room /\ t(m).focused = Nowhere
  BY <1>1, UrlIsWritten, UrlsOfRooms
<1> HIDE DEF t
<1>3. CASE s.room = room
  <2>1. ConnectTo(s, room, mode) = t("replace")
    BY <1>3 DEF ConnectTo, t, u
  <2> QED
    BY <1>2, <1>3, <2>1
<1>4. CASE s.room # room
  <2>1. ConnectTo(s, room, mode) = [t(mode) EXCEPT !.room = room, !.enabled = FreshTracks, !.fatal = FALSE]
    BY <1>4 DEF ConnectTo, t, u
  <2>2. t(mode) \in Pages /\ Address(t(mode)) = Url(room, Nowhere)
        /\ t(mode).view = s.view /\ t(mode).focused = Nowhere
    BY <1>2
  <2>3. \A w \in Pages : LET x == [w EXCEPT !.room = room, !.enabled = FreshTracks, !.fatal = FALSE] IN
          /\ x \in Pages /\ Address(x) = Address(w) /\ x.view = w.view /\ x.room = room /\ x.focused = w.focused
    BY NavigationAssumption DEF Pages, Address
  <2> QED
    BY <2>1, <2>2, <2>3
<1> QED
  BY <1>3, <1>4

\* Wherever the address leads from, the page ends where it says.
LEMMA ReconcilingLocates ==
  ASSUME NEW s \in Pages, s.room = Nowhere /\ Address(s) = Roomless => s.focused = Nowhere
  PROVE  LET t == Reconciled(s) IN t \in Pages /\ Located(t) /\ NoLobbyIn(t)
<1> DEFINE url == Address(s)
<1>1. url \in Addresses
  BY DEF Address, Pages
<1>2. CASE url.room # Nowhere
  <2> DEFINE joined == IF url.room = s.room THEN s ELSE ConnectTo(s, url.room, "replace")
             inView  == [joined EXCEPT !.view = "studio"]
  <2>1. url.room \in Room /\ url.track \in Track \cup {Nowhere}
    BY <1>1, <1>2, UrlsOfRooms
  <2>2. joined \in Pages /\ joined.room = url.room
    BY <2>1, SessionIsJoined
  <2> HIDE DEF joined
  <2>3. inView \in Pages /\ inView.room = url.room /\ inView.view = "studio"
    BY <2>2 DEF Pages
  <2> HIDE DEF inView
  <2>4. Reconciled(s) = ApplyFocusedTrack(inView, url.track, "replace")
    BY <1>2 DEF Reconciled, inView, joined
  <2> HIDE DEF url
  <2> QED
    BY <1>2, <2>1, <2>3, <2>4, TrackIsApplied DEF Located, NoLobbyIn
<1>3. CASE url.room = Nowhere
  <2>1. url = Roomless
    BY <1>1, <1>3, UrlsOfRooms, NavigationAssumption
  <2> DEFINE left == IF s.room # Nowhere THEN LeaveSession(s) ELSE s
  <2>2. left \in Pages /\ Address(left) = Roomless /\ left.room = Nowhere /\ left.focused = Nowhere
    BY <2>1, SessionIsLeft DEF Pages
  <2>3. Reconciled(s) = [left EXCEPT !.view = "lobby"]
    BY <1>3 DEF Reconciled
  <2> HIDE DEF left
  <2> QED
    BY <2>2, <2>3 DEF Pages, Address, Located, NoLobbyIn, Roomless
<1> QED
  BY <1>2, <1>3

\* The watchers keep the page where it says, and nobody stays in a room from the lobby.
LEMMA WatchersLocate ==
  ASSUME NEW old \in Pages, NEW s \in Pages, Located(s), old.view = "lobby" => NoLobbyIn(s)
  PROVE  LET t == EditorChecked(old, Landed(old, s)) IN t \in Pages /\ Located(t) /\ NoLobbyIn(t)
<1> DEFINE u == Landed(old, s)
<1>1. u \in Pages /\ Located(u) /\ NoLobbyIn(u)
  <2>1. CASE s.view = "lobby" /\ old.view # "lobby" /\ s.room # Nowhere
    BY <2>1, SessionIsLeft DEF Landed, Located, NoLobbyIn, Roomless
  <2>2. CASE ~(s.view = "lobby" /\ old.view # "lobby" /\ s.room # Nowhere)
    BY <2>2 DEF Landed, NoLobbyIn
  <2> QED
    BY <2>1, <2>2
<1> HIDE DEF u
<1>2. \A b \in BOOLEAN : \A w \in Pages : Located(w) /\ NoLobbyIn(w) =>
        /\ [w EXCEPT !.seen = b] \in Pages
        /\ Located([w EXCEPT !.seen = b]) /\ NoLobbyIn([w EXCEPT !.seen = b])
  <2> SUFFICES ASSUME NEW b \in BOOLEAN, NEW w \in Pages, Located(w), NoLobbyIn(w)
               PROVE  /\ [w EXCEPT !.seen = b] \in Pages
                      /\ Located([w EXCEPT !.seen = b]) /\ NoLobbyIn([w EXCEPT !.seen = b])
    OBVIOUS
  <2>1. [w EXCEPT !.seen = b] \in Pages
    BY DEF Pages
  <2>2. Address([w EXCEPT !.seen = b]) = Address(w)
    BY DEF Pages, Address
  <2> QED
    BY <2>1, <2>2 DEF Pages, Located, NoLobbyIn
<1>3. u.view = "studio" =>
        /\ ApplyFocusedTrack(u, Nowhere, "replace") \in Pages
        /\ Located(ApplyFocusedTrack(u, Nowhere, "replace")) /\ NoLobbyIn(ApplyFocusedTrack(u, Nowhere, "replace"))
  BY <1>1, TrackIsApplied DEF Located, NoLobbyIn
<1>4. EditorChecked(old, u) \in Pages /\ Located(EditorChecked(old, u)) /\ NoLobbyIn(EditorChecked(old, u))
  BY <1>1, <1>2, <1>3 DEF EditorChecked
<1> QED
  BY <1>4 DEF u

-----------------------------------------------------------------------------
(* The invariant *)

PageWhole == app \in Pages /\ Located(app) /\ NoLobbyIn(app)

Patched == [to : Room \cup {Nowhere}, name : Room, mounted : BOOLEAN]

\* A save on its way carries the name of the room it goes to, or has made that room's name doubtful.
SavesNameTheirRoom ==
  /\ patches \in Seq(Patched)
  /\ \A n \in DOMAIN patches : patches[n].name = patches[n].to \/ patches[n].to \in strayed

Panels == [open : BOOLEAN, meta : Room \cup {Nowhere}, asked : SUBSET Room, saving : BOOLEAN]

NavigationInv ==
  /\ PageWhole /\ SavesNameTheirRoom /\ NameIsRooms
  /\ panel \in Panels /\ fetches \subseteq Room /\ late \in BOOLEAN

\* What is left of a sequence without one of its elements was in it.
LEMMA RemoveAtKeeps ==
  ASSUME NEW S, NEW s \in Seq(S), NEW n \in DOMAIN s
  PROVE  /\ RemoveAt(s, n) \in Seq(S)
         /\ \A i \in DOMAIN RemoveAt(s, n) : \E j \in DOMAIN s : RemoveAt(s, n)[i] = s[j]
<1> DEFINE a == SubSeq(s, 1, n - 1)
           b == SubSeq(s, n + 1, Len(s))
<1>1. n \in 1..Len(s) /\ Len(s) \in Nat /\ DOMAIN s = 1..Len(s)
  OBVIOUS
<1>2. /\ a \in Seq(S) /\ Len(a) = n - 1 /\ \A i \in 1..(n - 1) : a[i] = s[i]
      /\ b \in Seq(S) /\ Len(b) = Len(s) - n /\ \A i \in 1..(Len(s) - n) : b[i] = s[n + i]
  <2>1. a \in Seq(S) /\ Len(a) = n - 1 /\ \A i \in 1..(n - 1) : a[i] = s[i]
    BY <1>1
  <2>2. b \in Seq(S) /\ Len(b) = Len(s) - n
    BY <1>1
  <2>3. \A i \in 1..(Len(s) - n) : b[i] = s[n + i]
    BY <1>1
  <2> QED
    BY <2>1, <2>2, <2>3
<1>3. RemoveAt(s, n) = a \o b
  BY DEF RemoveAt
<1> HIDE DEF a, b
<1>4. /\ a \o b \in Seq(S) /\ Len(a \o b) = Len(s) - 1
      /\ \A i \in 1..(Len(s) - 1) : (a \o b)[i] = IF i <= n - 1 THEN a[i] ELSE b[i - (n - 1)]
  <2>1. Len(a) + Len(b) = Len(s) - 1
    BY <1>1, <1>2
  <2>2. /\ a \o b \in Seq(S) /\ Len(a \o b) = Len(a) + Len(b)
        /\ \A i \in 1..(Len(a) + Len(b)) : (a \o b)[i] = IF i <= Len(a) THEN a[i] ELSE b[i - Len(a)]
    BY <1>2, ConcatProperties
  <2>3. \A i \in 1..(Len(s) - 1) : i <= n - 1 <=> i <= Len(a)
    BY <1>2
  <2> QED
    BY <1>2, <2>1, <2>2, <2>3
<1>5. ASSUME NEW i \in 1..(Len(s) - 1) PROVE \E j \in DOMAIN s : (a \o b)[i] = s[j]
  <2>1. CASE i <= n - 1
    <3>1. i \in 1..(n - 1) /\ i \in DOMAIN s
      BY <1>1, <2>1
    <3>2. (a \o b)[i] = s[i]
      BY <1>2, <1>4, <2>1, <3>1
    <3> QED
      BY <3>1, <3>2
  <2>2. CASE ~(i <= n - 1)
    <3>1. i - (n - 1) \in 1..(Len(s) - n) /\ n + (i - (n - 1)) = i + 1 /\ i + 1 \in 1..Len(s)
      BY <1>1, <2>2
    <3>2. (a \o b)[i] = s[i + 1]
      BY <1>2, <1>4, <2>2, <3>1
    <3> QED
      BY <1>1, <3>1, <3>2
  <2> QED
    BY <2>1, <2>2
<1>6. DOMAIN (a \o b) = 1..(Len(s) - 1)
  <2> DEFINE c == a \o b
  <2>1. c \in Seq(S) /\ Len(c) = Len(s) - 1
    BY <1>4
  <2> HIDE DEF c
  <2>2. DOMAIN c = 1..(Len(s) - 1)
    BY <2>1
  <2> QED
    BY <2>2 DEF c
<1> QED
  BY <1>3, <1>4, <1>5, <1>6

LEMMA PagePrimed == PageWhole' <=> app' \in Pages /\ Located(app') /\ NoLobbyIn(app')
BY DEF PageWhole, Pages, Located, NoLobbyIn, Address

LEMMA BootLocates ==
  ASSUME NEW entries \in Seq(Addresses), NEW at \in 1..Len(entries)
  PROVE  LET t == Booted(entries, at) IN t \in Pages /\ Located(t) /\ NoLobbyIn(t)
<1> DEFINE blank == BlankPage(entries, at)
<1>1. blank \in Pages /\ blank.room = Nowhere /\ blank.focused = Nowhere /\ blank.view = "none"
  BY NavigationAssumption DEF BlankPage, Pages
<1> HIDE DEF blank
<1>2. Reconciled(blank) \in Pages /\ Located(Reconciled(blank)) /\ NoLobbyIn(Reconciled(blank))
  BY <1>1, ReconcilingLocates
<1>3. Booted(entries, at) = EditorChecked(blank, Landed(blank, Reconciled(blank)))
  <2>1. Landed(blank, Reconciled(blank)) = Reconciled(blank)
    BY <1>2 DEF Landed, NoLobbyIn
  <2> QED
    BY <2>1 DEF Booted, blank
<1> QED
  BY <1>1, <1>2, <1>3, WatchersLocate

\* A document begins with no answer due but that of its room's name.
LEMMA DocumentBegins ==
  ASSUME NavigationInv, NEW entries \in Seq(Addresses), NEW at \in 1..Len(entries), NewDocument(entries, at)
  PROVE  NavigationInv'
<1>1. PageWhole'
  BY BootLocates DEF NewDocument, PageWhole, Pages, Located, NoLobbyIn, Address
<1>2. panel' \in Panels /\ late' \in BOOLEAN /\ patches' = << >>
  BY DEF NewDocument, ClosedPanel, Panels
<1>3. SavesNameTheirRoom'
  BY <1>2 DEF SavesNameTheirRoom
<1>4. NameIsRooms'
  BY DEF NewDocument, NameIsRooms
<1>5. fetches' \subseteq Room
  BY <1>1 DEF NewDocument, PageWhole, Pages
<1> QED
  BY <1>1, <1>2, <1>3, <1>4, <1>5 DEF NavigationInv

\* A handler and its watchers.
LEMMA StepKeeps ==
  ASSUME NavigationInv, NEW s \in Pages, Located(s), app.view = "lobby" => NoLobbyIn(s), Step(s)
  PROVE  NavigationInv'
<1>1. PageWhole'
  <2>1. app \in Pages
    BY DEF NavigationInv, PageWhole
  <2>2. app' = EditorChecked(app, Landed(app, s))
    BY DEF Step
  <2> QED
    BY <2>1, <2>2, WatchersLocate, PagePrimed
<1>2. panel' \in Panels
  <2>1. ClosedPanel \in Panels
    BY DEF ClosedPanel, Panels
  <2> QED
    BY <2>1 DEF Step, NavigationInv
<1>3. SavesNameTheirRoom'
  <2>1. patches \in Seq(Patched) /\ strayed' = strayed
    BY DEF Step, NavigationInv, SavesNameTheirRoom
  <2>2. CASE patches' = patches
    BY <2>1, <2>2 DEF NavigationInv, SavesNameTheirRoom
  <2>3. CASE patches' = [n \in DOMAIN patches |-> [patches[n] EXCEPT !.mounted = FALSE]]
    <3>1. \A p \in Patched : LET q == [p EXCEPT !.mounted = FALSE] IN q \in Patched /\ q.name = p.name /\ q.to = p.to
      BY DEF Patched
    <3>2. Len(patches) \in Nat /\ DOMAIN patches = 1..Len(patches) /\ \A n \in DOMAIN patches : patches[n] \in Patched
      BY <2>1
    <3>3. DOMAIN patches' = 1..Len(patches) /\ \A n \in DOMAIN patches : patches'[n] = [patches[n] EXCEPT !.mounted = FALSE]
      BY <2>3, <3>2
    <3>4. patches' \in Seq(Patched)
      <4>1. patches' = [n \in 1..Len(patches) |-> [patches[n] EXCEPT !.mounted = FALSE]]
        BY <2>3, <3>2
      <4>2. \A n \in 1..Len(patches) : [patches[n] EXCEPT !.mounted = FALSE] \in Patched
        BY <3>1, <3>2
      <4> QED
        BY <3>2, <4>1, <4>2
    <3>5. ASSUME NEW n \in DOMAIN patches' PROVE patches'[n].name = patches'[n].to \/ patches'[n].to \in strayed'
      <4>1. n \in DOMAIN patches /\ patches'[n].name = patches[n].name /\ patches'[n].to = patches[n].to
        BY <3>1, <3>2, <3>3
      <4> QED
        BY <2>1, <4>1 DEF NavigationInv, SavesNameTheirRoom
    <3> QED
      BY <3>4, <3>5 DEF SavesNameTheirRoom
  <2> QED
    BY <2>2, <2>3 DEF Step
<1>4. NameIsRooms' /\ late' \in BOOLEAN
  BY DEF Step, NavigationInv, NameIsRooms
<1>5. fetches' \subseteq Room
  BY <1>1 DEF Step, NavigationInv, PageWhole, Pages
<1> QED
  BY <1>1, <1>2, <1>3, <1>4, <1>5 DEF NavigationInv

\* An answer that leaves the page where it is.
LEMMA PageStays ==
  ASSUME NavigationInv, UNCHANGED app
  PROVE  PageWhole'
BY DEF NavigationInv, PageWhole, Pages, Located, NoLobbyIn, Address

\* What the page shows, its address, the panel and the names on their way go together in every
\* state, however clicks, the browser's history, the page cache and answers follow each other.
THEOREM NavigationStays == NavigationSpec => []NavigationInv
<1>1. InitNavigation => NavigationInv
  <2> SUFFICES ASSUME InitNavigation PROVE NavigationInv
    OBVIOUS
  <2>1. PageWhole
    <3>1. PICK room \in Room, track \in Track \cup {Nowhere} :
            app \in {Booted(<<Roomless>>, 1), Booted(<<Url(room, track)>>, 1)}
      BY DEF InitNavigation
    <3>2. /\ <<Roomless>> \in Seq(Addresses) /\ 1 \in 1..Len(<<Roomless>>)
          /\ <<Url(room, track)>> \in Seq(Addresses) /\ 1 \in 1..Len(<<Url(room, track)>>)
      BY UrlsOfRooms
    <3>3. \E entries \in Seq(Addresses) : 1 \in 1..Len(entries) /\ app = Booted(entries, 1)
      BY <3>1, <3>2
    <3> QED
      BY <3>3, BootLocates DEF PageWhole
  <2>2. panel \in Panels
    BY DEF InitNavigation, ClosedPanel, Panels
  <2>4. late \in BOOLEAN /\ SavesNameTheirRoom /\ NameIsRooms
    <3>1. patches = << >> /\ patches \in Seq(Patched) /\ DOMAIN patches = {}
      BY DEF InitNavigation
    <3> QED
      BY <3>1 DEF InitNavigation, SavesNameTheirRoom, NameIsRooms
  <2>3. fetches \subseteq Room
    BY <2>1 DEF InitNavigation, PageWhole, Pages
  <2> QED
    BY <2>1, <2>2, <2>3, <2>4 DEF NavigationInv
<1>2. NavigationInv /\ [NextNavigation]_navigationVars => NavigationInv'
  <2> SUFFICES ASSUME NavigationInv, [NextNavigation]_navigationVars PROVE NavigationInv'
    OBVIOUS
  <2>0. app \in Pages /\ Located(app) /\ NoLobbyIn(app) /\ app.entries \in Seq(Addresses) /\ app.at \in 1..Len(app.entries)
    BY DEF NavigationInv, PageWhole, Pages
  <2>1. CASE ReloadPage
    BY <2>0, <2>1, DocumentBegins DEF ReloadPage
  <2>2. CASE GoToNewRoom
    <3> DEFINE e == Append(SubSeq(app.entries, 1, app.at), Roomless)
    <3>1. e \in Seq(Addresses) /\ app.at + 1 \in 1..Len(e)
      BY <2>0, UrlsOfRooms
    <3> HIDE DEF e
    <3> QED
      BY <2>2, <3>1, DocumentBegins DEF GoToNewRoom, e
  <2>3. CASE RestoreFromCache
    <3> DEFINE gone == Disconnected(app)
               back == Reconciled(gone)
    <3>1. gone \in Pages /\ gone.room = Nowhere /\ gone.focused = app.focused /\ Address(gone) = Address(app)
      BY <2>0 DEF Disconnected, Pages, Address
    <3> HIDE DEF gone
    <3>2. back \in Pages /\ Located(back) /\ NoLobbyIn(back)
      <4>1. Address(gone) = Roomless => gone.focused = Nowhere
        <5>1. Address(gone).track = app.focused
          BY <2>0, <3>1 DEF Located, Url
        <5> QED
          BY <3>1, <5>1, UrlsOfRooms
      <4> QED
        BY <3>1, <4>1, ReconcilingLocates DEF back
    <3>3. PageWhole'
      BY <2>0, <2>3, <3>2, WatchersLocate, PagePrimed DEF RestoreFromCache, gone
    <3>4. /\ panel' \in Panels /\ late' \in BOOLEAN /\ patches' = << >> /\ shownName' = Nowhere
          /\ fetches' = {app'.room} \ {Nowhere}
      BY <2>3 DEF RestoreFromCache, NavigationInv, ClosedPanel, Panels
    <3>5. SavesNameTheirRoom' /\ NameIsRooms' /\ fetches' \subseteq Room
      BY <3>3, <3>4, PagePrimed DEF SavesNameTheirRoom, NameIsRooms, Pages
    <3> QED
      BY <3>3, <3>4, <3>5 DEF NavigationInv
  <2>4. ASSUME NEW n \in 1..Len(app.entries), Traverse(n) PROVE NavigationInv'
    <3> DEFINE s == [app EXCEPT !.at = n]
    <3>1. s \in Pages /\ s.room = app.room /\ s.focused = app.focused /\ Step(Reconciled(s))
      BY <2>0, <2>4 DEF Pages, Traverse
    <3> HIDE DEF s
    <3>2. s.room = Nowhere => s.focused = Nowhere
      BY <2>0, <3>1, RoomlessHasNoTrack
    <3> QED
      BY <3>1, <3>2, ReconcilingLocates, StepKeeps
  <2>5. ASSUME NEW room \in Room, Join(room) PROVE NavigationInv'
    <3> DEFINE s == ConnectTo(app, room, "push")
    <3>1. /\ s \in Pages /\ Address(s) = Url(room, Nowhere) /\ s.room = room /\ s.focused = Nowhere
          /\ Step([s EXCEPT !.view = "studio"])
      BY <2>0, <2>5, SessionIsJoined DEF Join
    <3> HIDE DEF s
    <3>2. LET t == [s EXCEPT !.view = "studio"] IN t \in Pages /\ Located(t) /\ NoLobbyIn(t)
      BY <3>1, NavigationAssumption DEF Pages, Located, NoLobbyIn, Address
    <3> QED
      BY <3>1, <3>2, StepKeeps
  <2>6. ASSUME Step([LeaveSession(app) EXCEPT !.view = "lobby"]) PROVE NavigationInv'
    <3> DEFINE s == LeaveSession(app)
    <3>1. s \in Pages /\ Address(s) = Roomless /\ s.room = Nowhere /\ s.focused = Nowhere
      BY <2>0, SessionIsLeft
    <3> HIDE DEF s
    <3>2. LET t == [s EXCEPT !.view = "lobby"] IN t \in Pages /\ Located(t) /\ NoLobbyIn(t)
      BY <3>1 DEF Pages, Located, NoLobbyIn, Address, Roomless
    <3> QED
      BY <2>6, <3>2, StepKeeps DEF s
  <2>7. CASE Leave
    BY <2>6, <2>7 DEF Leave
  <2>8. CASE NotFound
    BY <2>6, <2>8 DEF NotFound
  <2>9. ASSUME NEW view \in {"lobby", "studio", "account"}, ShowView(view) PROVE NavigationInv'
    <3>1. LET t == [app EXCEPT !.view = view] IN
          t \in Pages /\ Located(t) /\ (app.view = "lobby" => NoLobbyIn(t)) /\ Step(t)
      BY <2>0, <2>9 DEF ShowView, Pages, Located, NoLobbyIn, Address
    <3> QED
      BY <3>1, StepKeeps
  <2>10. ASSUME NEW track \in Track \cup {Nowhere}, SelectTrack(track) PROVE NavigationInv'
    <3> DEFINE mode == IF track = Nowhere THEN "replace" ELSE "push"
               t == ApplyFocusedTrack(app, track, mode)
    <3>1. app.room # Nowhere /\ app.view = "studio" /\ Step(t)
      BY <2>0, <2>10 DEF SelectTrack, Located
    <3> HIDE DEF mode
    <3>2. /\ t \in Pages /\ Address(t) = Url(app.room, track)
          /\ t.view = app.view /\ t.room = app.room /\ t.focused = track
      BY <2>0, <3>1, TrackIsApplied
    <3> HIDE DEF t
    <3>3. Located(t) /\ NoLobbyIn(t)
      BY <2>0, <3>1, <3>2 DEF Located, NoLobbyIn
    <3> QED
      BY <3>1, <3>2, <3>3, StepKeeps
  <2>11. ASSUME NEW enabled \in SUBSET Track \ {{}}, TracksChange(enabled) PROVE NavigationInv'
    <3>1. LET t == [app EXCEPT !.enabled = enabled] IN
          t \in Pages /\ Located(t) /\ NoLobbyIn(t) /\ Step(t)
      BY <2>0, <2>11 DEF TracksChange, Pages, Located, NoLobbyIn, Address
    <3> QED
      BY <3>1, StepKeeps
  <2>12. CASE FatalError
    <3>1. LET t == [app EXCEPT !.fatal = TRUE] IN
          t \in Pages /\ Located(t) /\ NoLobbyIn(t) /\ Step(t)
      BY <2>0, <2>12 DEF FatalError, Pages, Located, NoLobbyIn, Address
    <3> QED
      BY <3>1, StepKeeps
  <2>13. ASSUME NEW room \in fetches, NameAnswered(room) \/ NameFailed(room) PROVE NavigationInv'
    <3>1. PageWhole'
      BY <2>13, PageStays DEF NameAnswered, NameFailed
    <3>2. NameIsRooms'
      BY <2>13 DEF NameAnswered, NameFailed, NameOf, NavigationInv, NameIsRooms
    <3> QED
      BY <2>13, <3>1, <3>2 DEF NameAnswered, NameFailed, NavigationInv, SavesNameTheirRoom
  <2>14. CASE OpenSettings \/ CloseSettings
    <3>1. PageWhole'
      BY <2>14, PageStays DEF OpenSettings, CloseSettings
    <3>2. panel' \in Panels
      <4>1. CASE OpenSettings
        <5>1. app.room \in Room
          BY <2>0, <4>1 DEF OpenSettings, Pages, Located
        <5>2. {app.room} \in SUBSET Room /\ Nowhere \in Room \cup {Nowhere}
          BY <5>1
        <5> QED
          BY <4>1, <5>2 DEF OpenSettings, NavigationInv, Panels
      <4>2. CASE CloseSettings
        BY <4>2 DEF CloseSettings, NavigationInv, Panels
      <4> QED
        BY <2>14, <4>1, <4>2
    <3> QED
      BY <2>14, <3>1, <3>2 DEF OpenSettings, CloseSettings, NavigationInv, SavesNameTheirRoom, NameIsRooms
  <2>15. ASSUME NEW room \in panel.asked, SettingsAnswered(room) PROVE NavigationInv'
    <3>1. PageWhole'
      BY <2>15, PageStays DEF SettingsAnswered
    <3>2. panel' \in Panels
      BY <2>15 DEF SettingsAnswered, NavigationInv, Panels
    <3> QED
      BY <2>15, <3>1, <3>2 DEF SettingsAnswered, NavigationInv, SavesNameTheirRoom, NameIsRooms
  <2>16. CASE SaveMeta
    <3>1. PageWhole'
      BY <2>16, PageStays DEF SaveMeta
    <3>2. panel' \in Panels
      BY <2>16 DEF SaveMeta, NavigationInv, Panels
    <3> DEFINE p == [to |-> app.room, name |-> panel.meta, mounted |-> TRUE]
    <3>3. p \in Patched /\ (p.name = p.to \/ p.to \in strayed')
      BY <2>0, <2>16 DEF SaveMeta, NavigationInv, Panels, Patched, Pages
    <3>4. patches' = Append(patches, p) /\ patches \in Seq(Patched) /\ strayed \subseteq strayed'
      BY <2>16 DEF SaveMeta, NavigationInv, SavesNameTheirRoom
    <3> HIDE DEF p
    <3>5. SavesNameTheirRoom'
      BY <3>3, <3>4, AppendProperties DEF NavigationInv, SavesNameTheirRoom
    <3> QED
      BY <2>16, <3>1, <3>2, <3>4, <3>5 DEF SaveMeta, NavigationInv, NameIsRooms
  <2>17. ASSUME NEW n \in DOMAIN patches, SaveAnswered(n) \/ SaveFailed(n) PROVE NavigationInv'
    <3>1. PageWhole'
      BY <2>17, PageStays DEF SaveAnswered, SaveFailed
    <3>2. panel' \in Panels
      BY <2>17 DEF SaveAnswered, SaveFailed, NavigationInv, Panels
    <3>3. patches \in Seq(Patched) /\ patches' = RemoveAt(patches, n) /\ strayed' = strayed
      BY <2>17 DEF SaveAnswered, SaveFailed, NavigationInv, SavesNameTheirRoom
    <3>4. SavesNameTheirRoom'
      BY <3>3, RemoveAtKeeps DEF NavigationInv, SavesNameTheirRoom
    <3>5. NameIsRooms' /\ late' \in BOOLEAN
      BY <2>17 DEF SaveAnswered, SaveFailed, NavigationInv, SavesNameTheirRoom, NameIsRooms
    <3> QED
      BY <2>17, <3>1, <3>2, <3>4, <3>5 DEF SaveAnswered, SaveFailed, NavigationInv
  <2>18. CASE UNCHANGED navigationVars
    <3>1. PageWhole'
      BY <2>18, PageStays DEF navigationVars
    <3> QED
      BY <2>18, <3>1 DEF navigationVars, NavigationInv, SavesNameTheirRoom, NameIsRooms
  <2> QED
    BY <2>1, <2>2, <2>3, <2>4, <2>5, <2>7, <2>8, <2>9, <2>10, <2>11, <2>12, <2>13, <2>14, <2>15, <2>16, <2>17, <2>18
    DEF NextNavigation
<1> QED
  BY <1>1, <1>2, PTL DEF NavigationSpec

\* The address bar names the room and the track that are shown, the lobby is nobody's room and the
\* studio somebody's, and the name in the app bar is that room's, whatever answers come late.
THEOREM PageStaysWhereItSays == NavigationSpec => []PageIsWhereItSays
<1>1. NavigationInv => PageIsWhereItSays
  BY DEF NavigationInv, PageWhole, Located, NoLobbyIn, PageIsWhereItSays, PageMatchesAddress
<1> QED
  BY <1>1, NavigationStays, PTL

-----------------------------------------------------------------------------
(* Fields, names and knobs *)

\* Whatever is typed, dragged and written by peers, a leaf stays in the range of its control.
LeavesInRange == number \in [Tracks -> 1..Top] /\ level \in [Tracks -> 0..Top]

Editors == [state : {"idle", "editing", "leaving"}, draft : {0, 1}, said : {0, 1}, refused : BOOLEAN]
Knobs == [listening : BOOLEAN, startValue : 0..Top, at : Int]

\* An editing under way has said nothing and refused nothing; what was refused is not said.
Silent(e) == (e.state = "editing" => e.said = 0 /\ ~e.refused) /\ (e.refused => e.said = 0)

ControlsInv ==
  /\ shown \in Tracks \cup {NoTrack}
  /\ LeavesInRange
  /\ field \in [draft : Int \cup {Junk}, typing : BOOLEAN]
  /\ knob \in Knobs
  /\ editor \in Editors /\ Silent(editor)
  /\ ControlsFollow

LEMMA LimitIsBetween ==
  ASSUME NEW n \in Int, NEW lo \in Int, NEW hi \in Int, lo <= hi
  PROVE  Limit(n, lo, hi) \in lo..hi
BY DEF Limit

\* What a field takes is in range, and what a knob snaps to.
LEMMA TakenInRange ==
  ASSUME NEW text \in Int \cup {Junk}, NEW value \in 1..Top
  PROVE  Taken(text, value) \in 1..Top
<1>1. Top \in Nat /\ 1 <= Top
  BY ControlsAssumption
<1>2. CASE text = Junk \/ text <= 0
  BY <1>2 DEF Taken
<1>3. CASE text # Junk /\ ~(text <= 0)
  <2>1. text \in Int /\ Taken(text, value) = Limit(text, 1, Top)
    BY <1>3 DEF Taken
  <2> QED
    BY <1>1, <2>1, LimitIsBetween
<1> QED
  BY <1>2, <1>3

LEMMA SnapInRange ==
  ASSUME NEW v \in Int
  PROVE  Snap(v) \in 0..Top
<1> DEFINE n == ((v + KnobStep \div 2) \div KnobStep) * KnobStep
<1>1. KnobStep \in Nat \ {0} /\ KnobStep \div 2 \in Int
  BY ControlsAssumption
<1>2. (v + KnobStep \div 2) \div KnobStep \in Int
  BY <1>1
<1>3. n \in Int
  BY <1>1, <1>2
<1> HIDE DEF n
<1>4. Snap(v) = Limit(n, 0, Top)
  BY DEF Snap, n
<1> QED
  BY <1>3, <1>4, LimitIsBetween, ControlsAssumption

LEMMA RestingControls == LetGo \in Knobs /\ Closed \in Editors /\ Silent(Closed)
BY ControlsAssumption DEF LetGo, Closed, Knobs, Editors, Silent

\* A name is said as an editing ends, or not at all.
LEMMA EditorsSayOnce ==
  ASSUME NEW e \in Editors, Silent(e)
  PROVE  /\ e.said <= 1 /\ (e.refused => e.said = 0)
         /\ \A d \in {0, 1} : [e EXCEPT !.draft = d] \in Editors /\ Silent([e EXCEPT !.draft = d])
         /\ e.state = "editing" => \A to \in {"leaving", "idle"} :
              [Said(e) EXCEPT !.state = to] \in Editors /\ Silent([Said(e) EXCEPT !.state = to])
         /\ [e EXCEPT !.state = "idle"] \in Editors /\ Silent([e EXCEPT !.state = "idle"])
         /\ e.state = "editing" =>
              /\ [e EXCEPT !.state = "leaving", !.refused = TRUE] \in Editors
              /\ Silent([e EXCEPT !.state = "leaving", !.refused = TRUE])
<1>1. e.said <= 1 /\ (e.refused => e.said = 0)
  BY DEF Editors, Silent
<1>2. \A d \in {0, 1} : [e EXCEPT !.draft = d] \in Editors /\ Silent([e EXCEPT !.draft = d])
  BY DEF Editors, Silent
<1>3. ASSUME e.state = "editing", NEW to \in {"leaving", "idle"}
      PROVE  [Said(e) EXCEPT !.state = to] \in Editors /\ Silent([Said(e) EXCEPT !.state = to])
  <2>1. e.said = 0 /\ ~e.refused /\ e.said + e.draft = e.draft
    BY <1>3 DEF Editors, Silent
  <2>2. Said(e) = [e EXCEPT !.said = e.draft]
    BY <2>1 DEF Said
  <2> QED
    BY <2>1, <2>2 DEF Editors, Silent
<1>4. [e EXCEPT !.state = "idle"] \in Editors /\ Silent([e EXCEPT !.state = "idle"])
  BY DEF Editors, Silent
<1>5. e.state = "editing" =>
        /\ [e EXCEPT !.state = "leaving", !.refused = TRUE] \in Editors
        /\ Silent([e EXCEPT !.state = "leaving", !.refused = TRUE])
  BY DEF Editors, Silent
<1> QED
  BY <1>1, <1>2, <1>3, <1>4, <1>5

\* Leaves stay in the range of their controls, and what a field, a knob and a name's editor
\* remember goes with the leaf, in every state.
THEOREM ControlsStay == ControlsSpec => []ControlsInv
<1>1. InitControls => ControlsInv
  BY ControlsAssumption, RestingControls
  DEF InitControls, ControlsInv, LeavesInRange, ControlsFollow, FieldShowsValue, NameSaidOnce, Closed
<1>2. ControlsInv /\ [NextControls]_controlVars => ControlsInv'
  <2> SUFFICES ASSUME ControlsInv, [NextControls]_controlVars PROVE ControlsInv'
    OBVIOUS
  <2>0. /\ shown \in Tracks \cup {NoTrack} /\ LeavesInRange /\ NoTrack \notin Tracks
        /\ field \in [draft : Int \cup {Junk}, typing : BOOLEAN]
        /\ knob \in Knobs
        /\ editor \in Editors /\ Silent(editor) /\ FieldShowsValue /\ NameSaidOnce
    BY ControlsAssumption DEF ControlsInv, ControlsFollow
  <2>1. ASSUME NEW text \in Texts, TypeNumber(text) PROVE ControlsInv'
    <3>1. text \in Int \cup {Junk}
      BY ControlsAssumption DEF Texts
    <3> QED
      BY <2>0, <2>1, <3>1
      DEF TypeNumber, ControlsInv, LeavesInRange, ControlsFollow, FieldShowsValue, NameSaidOnce
  <2>2. CASE CommitNumber
    <3> DEFINE taken == Taken(field.draft, number[shown])
    <3>1. shown \in Tracks /\ taken \in 1..Top
      BY <2>0, <2>2, TakenInRange DEF CommitNumber, LeavesInRange
    <3>2. /\ field' = [draft |-> taken, typing |-> FALSE] /\ number' = [number EXCEPT ![shown] = taken]
          /\ UNCHANGED <<shown, level, editor, knob>>
      BY <2>2 DEF CommitNumber, Reflected
    <3> HIDE DEF taken
    <3> QED
      BY <2>0, <3>1, <3>2
      DEF ControlsInv, LeavesInRange, ControlsFollow, FieldShowsValue, NameSaidOnce
  <2>3. ASSUME NEW t \in Tracks, NEW n \in {1, Top}, PeerWritesNumber(t, n) PROVE ControlsInv'
    <3>1. n \in 1..Top
      BY ControlsAssumption
    <3>2. number' = [number EXCEPT ![t] = n] /\ number' \in [Tracks -> 1..Top] /\ UNCHANGED <<shown, level, editor, knob>>
      BY <2>0, <2>3, <3>1 DEF PeerWritesNumber, LeavesInRange
    <3>3. field' = IF t = shown THEN Resynced(field, number[t], n) ELSE field
      BY <2>3 DEF PeerWritesNumber
    <3>4. field' \in [draft : Int \cup {Junk}, typing : BOOLEAN]
      BY <2>0, <3>1, <3>3 DEF Resynced
    <3>5. FieldShowsValue'
      <4>1. CASE t = shown
        BY <2>0, <3>2, <3>3, <4>1 DEF FieldShowsValue, Resynced, LeavesInRange
      <4>2. CASE t # shown
        BY <2>0, <3>2, <3>3, <4>2 DEF FieldShowsValue, LeavesInRange
      <4> QED
        BY <4>1, <4>2
    <3> QED
      BY <2>0, <3>2, <3>4, <3>5 DEF ControlsInv, LeavesInRange, ControlsFollow, NameSaidOnce
  <2>4. CASE BeginEdit \/ TypeName \/ EnterName \/ EscapeName \/ BlurName
    <3>1. editor' \in Editors /\ Silent(editor')
      <4>1. CASE BeginEdit
        BY <4>1 DEF BeginEdit, Editors, Silent
      <4>2. CASE TypeName
        BY <2>0, <4>2, EditorsSayOnce DEF TypeName
      <4>3. CASE EnterName
        BY <2>0, <4>3, EditorsSayOnce DEF EnterName
      <4>4. CASE EscapeName
        BY <2>0, <4>4, EditorsSayOnce DEF EscapeName
      <4>5. CASE BlurName
        BY <2>0, <4>5, EditorsSayOnce DEF BlurName, MayCommit
      <4> QED
        BY <2>4, <4>1, <4>2, <4>3, <4>4, <4>5
    <3>2. NameSaidOnce'
      BY <3>1, EditorsSayOnce DEF NameSaidOnce
    <3>3. UNCHANGED <<shown, number, level, field, knob>>
      BY <2>4 DEF BeginEdit, TypeName, EnterName, EscapeName, BlurName
    <3> QED
      BY <2>0, <3>1, <3>2, <3>3 DEF ControlsInv, LeavesInRange, ControlsFollow, FieldShowsValue
  <2>5. CASE PressKnob \/ ReleaseKnob
    <3>1. knob' \in Knobs
      <4>1. CASE PressKnob
        <5>1. shown \in Tracks /\ level[shown] \in 0..Top
          BY <2>0, <4>1 DEF PressKnob, LeavesInRange
        <5> QED
          BY <4>1, <5>1 DEF PressKnob, Knobs
      <4>2. CASE ReleaseKnob
        BY <4>2, RestingControls DEF ReleaseKnob
      <4> QED
        BY <2>5, <4>1, <4>2
    <3> QED
      BY <2>0, <2>5, <3>1
      DEF PressKnob, ReleaseKnob, ControlsInv, LeavesInRange, ControlsFollow, FieldShowsValue, NameSaidOnce
  <2>6. ASSUME NEW to \in -MaxTravel..MaxTravel, MoveKnob(to) PROVE ControlsInv'
    <3>1. to \in Int /\ shown \in Tracks
      BY <2>0, <2>6, ControlsAssumption DEF MoveKnob
    <3>2. Limit(knob.startValue + to, 0, Top) \in Int
      BY <2>0, <3>1, ControlsAssumption DEF Limit, Knobs
    <3>3. level' \in [Tracks -> 0..Top]
      BY <2>0, <2>6, <3>1, <3>2, SnapInRange DEF MoveKnob, LeavesInRange
    <3>4. knob' \in Knobs
      BY <2>0, <2>6, <3>1 DEF MoveKnob, Knobs
    <3> QED
      BY <2>0, <2>6, <3>3, <3>4
      DEF MoveKnob, ControlsInv, LeavesInRange, ControlsFollow, FieldShowsValue, NameSaidOnce
  <2>7. ASSUME ResetKnob \/ \E t \in Tracks : PeerWritesLevel(t, Top) PROVE ControlsInv'
    <3>1. level' \in [Tracks -> 0..Top]
      BY <2>0, <2>7, ControlsAssumption DEF ResetKnob, PeerWritesLevel, LeavesInRange
    <3> QED
      BY <2>0, <2>7, <3>1
      DEF ResetKnob, PeerWritesLevel, ControlsInv, LeavesInRange, ControlsFollow, FieldShowsValue, NameSaidOnce
  <2>8. ASSUME NEW t \in Tracks \cup {NoTrack}, Show(t) PROVE ControlsInv'
    <3>1. shown' = t /\ UNCHANGED <<number, level>>
      BY <2>8 DEF Show
    <3>2. editor' \in {editor, Closed} /\ knob' \in {knob, LetGo}
      BY <2>8 DEF Show
    <3>3. editor' \in Editors /\ Silent(editor')
      BY <2>0, <3>2, RestingControls
    <3>6. NameSaidOnce'
      BY <3>3, EditorsSayOnce DEF NameSaidOnce
    <3>4. knob' \in Knobs
      BY <2>0, <3>2, RestingControls
    <3>5. field' \in [draft : Int \cup {Junk}, typing : BOOLEAN] /\ FieldShowsValue'
      <4>1. CASE t = NoTrack
        <5>1. field' = [field EXCEPT !.typing = FALSE]
          BY <2>8, <4>1 DEF Show
        <5> QED
          BY <2>0, <3>1, <4>1, <5>1 DEF FieldShowsValue
      <4>2. CASE t # NoTrack /\ shown = NoTrack
        <5>1. field' = [draft |-> number[t], typing |-> FALSE] /\ number[t] \in 1..Top
          BY <2>0, <2>8, <4>2 DEF Show, LeavesInRange
        <5> QED
          BY <3>1, <5>1 DEF FieldShowsValue
      <4>3. CASE t # NoTrack /\ shown # NoTrack
        <5>1. field' = Resynced(field, number[shown], number[t])
          BY <2>8, <4>3 DEF Show
        <5> QED
          BY <2>0, <3>1, <4>3, <5>1 DEF FieldShowsValue, LeavesInRange, Resynced
      <4> QED
        BY <4>1, <4>2, <4>3
    <3> QED
      BY <2>0, <3>1, <3>3, <3>4, <3>5, <3>6 DEF ControlsInv, LeavesInRange, ControlsFollow
  <2>9. CASE UNCHANGED controlVars
    BY <2>0, <2>9
    DEF controlVars, ControlsInv, LeavesInRange, ControlsFollow, FieldShowsValue, NameSaidOnce
  <2> QED
    BY <2>1, <2>2, <2>3, <2>4, <2>5, <2>6, <2>7, <2>8, <2>9 DEF NextControls
<1> QED
  BY <1>1, <1>2, PTL DEF ControlsSpec

\* A field nobody is typing in shows the value of its track, and an editing says one name at most and
\* none once it was escaped, whatever peers write and wherever the editor turns.
THEOREM ControlsKeepFollowing == ControlsSpec => []ControlsFollow
<1>1. ControlsInv => ControlsFollow
  BY DEF ControlsInv
<1> QED
  BY <1>1, ControlsStay, PTL

-----------------------------------------------------------------------------
(* The engines of the browser's own nodes *)

Stretches == {st \in [from : Nat, to : Nat] : st.from < st.to}
Inputs == {"amp", "metal", "body", "noise"} \cup Voices
Sources == [into : Inputs, from : Nat, until : Nat]

\* Where an engine that is disposed of looks for what it has to stop.
Stoppable ==
  (IF kind = "clap" THEN {} ELSE activeOscs) \cup (IF kind \in {"kick", "synth"} THEN {} ELSE activeSources)

EnginesTyped ==
  /\ kind \in {"kick", "hat", "snare", "clap", "synth"} /\ clock \in 0..MaxTime
  /\ decay \in 1..(Longest + LongestKick) /\ shape \in Nat /\ hits \in Nat /\ disposed \in BOOLEAN
  /\ open \in [Gains -> SUBSET Stretches]
  /\ playing \subseteq Sources /\ activeOscs \subseteq Sources /\ activeSources \subseteq Sources
  /\ nextVoice \in Voices /\ chord \in [at : Nat, notes : Nat]
  /\ wired \in [Voices -> Waves]

\* What still plays can be stopped.
PlayingIsKnown == ~disposed => \A s \in playing : s.until > clock => s \in Stoppable

\* The synth's oscillators run for its lifetime.
SynthRuns == kind = "synth" /\ ~disposed => \A v \in Voices : Source(v, 0, Forever) \in playing

\* Both sources of a voice hold the same pitches.
SourcesAgree == tuned = [v \in Voices |-> [w \in Waves |-> tuned[v]["native"]]]

EnginesInv == EnginesTyped /\ PlayingIsKnown /\ SynthRuns /\ SourcesAgree /\ GainsAreFed /\ NothingPlaysOn /\ ChordIsWhole

-----------------------------------------------------------------------------

LEMMA EngineTimes ==
  /\ Attack \in Nat /\ Close \in Nat /\ Margin \in Nat /\ BodyStop \in Nat /\ Ahead \in Nat /\ MaxTime \in Nat
  /\ BodyDecay \in Nat \ {0} /\ LongestKick \in Nat \ {0} /\ Longest \in Nat \ {0}
  /\ Attack + Close <= Margin /\ Attack + BodyDecay + Close <= BodyStop
BY EnginesAssumption

\* The voices are counted from 0.
LEMMA VoicesCounted ==
  /\ VoiceCount \in Nat \ {0} /\ Voices = 0..(VoiceCount - 1) /\ IsFiniteSet(Voices)
  /\ \A x \in 0..(2 * VoiceCount - 1) : x % VoiceCount = IF x < VoiceCount THEN x ELSE x - VoiceCount
<1>1. PICK count \in Nat \ {0} : Voices = 0..(count - 1)
  <2>1. PICK last \in Voices : Voices = 0..last /\ last \in Nat
    BY EnginesAssumption
  <2>2. last + 1 \in Nat \ {0} /\ (last + 1) - 1 = last
    BY <2>1
  <2> QED
    BY <2>1, <2>2
<1>2. IsFiniteSet(Voices) /\ Cardinality(Voices) = count
  <2>1. 0 \in Int /\ count - 1 \in Int /\ (0 > count - 1) = FALSE /\ count - 1 - 0 + 1 = count
    BY <1>1
  <2> QED
    BY <1>1, <2>1, FS_Interval
<1>3. VoiceCount = count
  BY <1>2 DEF VoiceCount
<1>4. ASSUME NEW n \in Nat \ {0}, NEW x \in 0..(2 * n - 1)
      PROVE  x % n = IF x < n THEN x ELSE x - n
  <2>1. CASE x < n
    <3>1. x \in 0..(n - 1)
      BY <2>1
    <3> QED
      BY <2>1, <3>1
  <2>2. CASE ~(x < n)
    <3>1. x \in n..(2 * n - 1)
      BY <2>2
    <3> QED
      BY <2>2, <3>1
  <2> QED
    BY <2>1, <2>2
<1> QED
  BY <1>1, <1>2, <1>3, <1>4

\* Intervals from a number on have as many elements as they are long.
LEMMA IntervalCounted ==
  ASSUME NEW a \in Nat, NEW n \in Nat
  PROVE  IsFiniteSet(a..(a + n - 1)) /\ Cardinality(a..(a + n - 1)) = n
<1>1. a \in Int /\ a + n - 1 \in Int /\ (a > a + n - 1 <=> n = 0) /\ a + n - 1 - a + 1 = n
  OBVIOUS
<1> QED
  BY <1>1, FS_Interval

\* A chord takes as many voices as it has notes.
LEMMA VoicesForNotes ==
  ASSUME nextVoice \in Voices, NEW notes \in 1..VoiceCount
  PROVE  VoicesOf(notes) \subseteq Voices /\ IsFiniteSet(VoicesOf(notes)) /\ Cardinality(VoicesOf(notes)) = notes
<1>0. VoiceCount \in Nat \ {0} /\ nextVoice \in Nat /\ nextVoice < VoiceCount /\ notes \in Nat \ {0} /\ notes <= VoiceCount
  BY VoicesCounted
<1>1. CASE notes = 1
  <2>1. VoicesOf(notes) = {0} /\ 0 \in Voices
    BY <1>0, <1>1, VoicesCounted DEF VoicesOf
  <2> QED
    BY <1>1, <2>1, FS_Singleton
<1>2. CASE notes # 1
  <2> DEFINE turn(i) == (nextVoice + i) % VoiceCount
  <2>1. VoicesOf(notes) = {turn(i) : i \in 0..(notes - 1)}
    BY <1>2 DEF VoicesOf
  <2>2. \A i \in 0..(notes - 1) : turn(i) = IF nextVoice + i < VoiceCount THEN nextVoice + i ELSE (nextVoice + i) - VoiceCount
    <3> SUFFICES ASSUME NEW i \in 0..(notes - 1)
                 PROVE  turn(i) = IF nextVoice + i < VoiceCount THEN nextVoice + i ELSE (nextVoice + i) - VoiceCount
      OBVIOUS
    <3> DEFINE x == nextVoice + i
    <3>1. x \in 0..(2 * VoiceCount - 1)
      BY <1>0
    <3> HIDE DEF x
    <3>2. \A y \in 0..(2 * VoiceCount - 1) : y % VoiceCount = IF y < VoiceCount THEN y ELSE y - VoiceCount
      BY VoicesCounted
    <3>3. x % VoiceCount = IF x < VoiceCount THEN x ELSE x - VoiceCount
      BY <3>1, <3>2
    <3> QED
      BY <3>3 DEF x
  <2> HIDE DEF turn
  <2>3. CASE nextVoice + notes <= VoiceCount
    <3>1. VoicesOf(notes) = nextVoice..(nextVoice + notes - 1)
      <4>1. ASSUME NEW x \in nextVoice..(nextVoice + notes - 1) PROVE x \in VoicesOf(notes)
        <5>1. x - nextVoice \in 0..(notes - 1) /\ turn(x - nextVoice) = x
          BY <1>0, <2>2, <2>3
        <5> QED
          BY <2>1, <5>1
      <4>2. ASSUME NEW i \in 0..(notes - 1) PROVE turn(i) \in nextVoice..(nextVoice + notes - 1)
        BY <1>0, <2>2, <2>3
      <4> QED
        BY <2>1, <4>1, <4>2
    <3>2. nextVoice..(nextVoice + notes - 1) \subseteq Voices
      BY <1>0, <2>3, VoicesCounted
    <3> QED
      BY <1>0, <3>1, <3>2, IntervalCounted
  <2>4. CASE nextVoice + notes > VoiceCount
    <3> DEFINE more == nextVoice + notes - VoiceCount
               few  == VoiceCount - nextVoice
               A == nextVoice..(nextVoice + few - 1)
               B == 0..(0 + more - 1)
    <3>1. more \in Nat /\ few \in Nat /\ more + few = notes /\ nextVoice + few = VoiceCount /\ more <= nextVoice
      BY <1>0, <2>4
    <3>2. VoicesOf(notes) = A \cup B
      <4>1. ASSUME NEW x \in A PROVE x \in VoicesOf(notes)
        <5>1. x - nextVoice \in 0..(notes - 1) /\ turn(x - nextVoice) = x
          BY <1>0, <2>2, <2>4, <3>1
        <5> QED
          BY <2>1, <5>1
      <4>2. ASSUME NEW x \in B PROVE x \in VoicesOf(notes)
        <5>1. x + few \in 0..(notes - 1) /\ turn(x + few) = x
          BY <1>0, <2>2, <2>4, <3>1
        <5> QED
          BY <2>1, <5>1
      <4>3. ASSUME NEW i \in 0..(notes - 1) PROVE turn(i) \in A \cup B
        BY <1>0, <2>2, <2>4, <3>1
      <4> QED
        BY <2>1, <4>1, <4>2, <4>3
    <3>3. A \cap B = {} /\ A \subseteq Voices /\ B \subseteq Voices
      BY <1>0, <3>1, VoicesCounted
    <3>4. IsFiniteSet(A) /\ Cardinality(A) = few /\ IsFiniteSet(B) /\ Cardinality(B) = more
      <4>1. 0 \in Nat
        OBVIOUS
      <4> QED
        BY <1>0, <3>1, <4>1, IntervalCounted
    <3> HIDE DEF A, B, few, more
    <3>5. IsFiniteSet(A \cup B) /\ Cardinality(A \cup B) = few + more
      <4>1. Cardinality(A \cup B) = few + more - Cardinality(A \cap B) /\ IsFiniteSet(A \cup B)
        BY <3>4, FS_Union
      <4>2. Cardinality(A \cap B) = 0
        BY <3>3, FS_EmptySet
      <4> QED
        BY <3>1, <4>1, <4>2
    <3> QED
      BY <3>1, <3>2, <3>3, <3>5
  <2> QED
    BY <1>0, <2>3, <2>4
<1> QED
  BY <1>1, <1>2

-----------------------------------------------------------------------------
(* Stretches *)

\* A source of its own plays into the gain for all of the stretch.
Fed(g, st, sources) == \E s \in sources : s.into = g /\ Covers(s, st)

LEMMA FedByMore ==
  ASSUME NEW g, NEW st, NEW P, NEW Q, P \subseteq Q, Fed(g, st, P)
  PROVE  Fed(g, st, Q)
BY DEF Fed

\* What a hit leaves of a gain's stretches is shorter, and there is one more.
LEMMA StruckStretches ==
  ASSUME NEW S \in SUBSET Stretches, NEW at \in Nat, NEW length \in Nat \ {0}
  PROVE  /\ Struck(S, at, length) \subseteq Stretches
         /\ Stretch(at, at + length) \in Struck(S, at, length)
         /\ \A st \in Struck(S, at, length) :
              \/ st = Stretch(at, at + length)
              \/ \E old \in S : st.from = old.from /\ st.to <= old.to
<1>1. Stretch(at, at + length) \in Stretches
  BY DEF Stretch, Stretches
<1>2. ASSUME NEW old \in S, old.from < at
      PROVE  LET st == Stretch(old.from, IF old.to > at THEN at ELSE old.to) IN
             st \in Stretches /\ st.from = old.from /\ st.to <= old.to
  BY <1>2 DEF Stretch, Stretches
<1> QED
  BY <1>1, <1>2 DEF Struck, Cancelled

\* A gain that was fed is fed after a hit, if the hit's own stretch is.
LEMMA StruckIsFed ==
  ASSUME NEW g, NEW S \in SUBSET Stretches, NEW at \in Nat, NEW length \in Nat \ {0}, NEW now \in Nat,
         NEW P \in SUBSET Sources, NEW Q \in SUBSET Sources, P \subseteq Q,
         \A st \in S : st.to > now => Fed(g, st, P),
         Fed(g, Stretch(at, at + length), Q)
  PROVE  \A st \in Struck(S, at, length) : st.to > now => Fed(g, st, Q)
<1> SUFFICES ASSUME NEW st \in Struck(S, at, length), st.to > now PROVE Fed(g, st, Q)
  OBVIOUS
<1>1. CASE st = Stretch(at, at + length)
  BY <1>1
<1>2. ASSUME NEW old \in S, st.from = old.from, st.to <= old.to PROVE Fed(g, st, Q)
  <2>1. st \in Stretches /\ old \in Stretches
    BY StruckStretches
  <2>2. old.to > now
    BY <1>2, <2>1 DEF Stretches
  <2>3. PICK s \in P : s.into = g /\ Covers(s, old)
    BY <2>2 DEF Fed
  <2>4. Covers(s, st)
    BY <1>2, <2>1, <2>3 DEF Covers, Stretches, Sources
  <2> QED
    BY <2>3, <2>4 DEF Fed
<1> QED
  BY <1>1, <1>2, StruckStretches

-----------------------------------------------------------------------------
(* Hits *)

\* A drum is struck: its gains are fed for as long as the hit opens them.
LEMMA StrikeKeeps ==
  ASSUME EnginesInv, NEW engine, kind # "synth", NEW at \in clock..(clock + Ahead), NEW hit, Strike(engine, at, hit),
         hit.oscs \subseteq Sources, hit.sources \subseteq Sources,
         kind \in {"kick", "synth"} => hit.sources = {}, kind = "clap" => hit.oscs = {},
         \A g \in Gains : /\ hit.lengths[g] \in Nat \ {0}
                          /\ Fed(g, Stretch(at, at + hit.lengths[g]), hit.oscs \cup hit.sources)
  PROVE  EnginesInv'
<1>0. /\ clock \in Nat /\ at \in Nat /\ ~disposed /\ hits' = hits + 1
      /\ open' = [g \in Gains |-> Struck(open[g], at, hit.lengths[g])]
      /\ playing' = playing \cup hit.oscs \cup hit.sources
      /\ activeOscs' = activeOscs \cup hit.oscs /\ activeSources' = activeSources \cup hit.sources
      /\ UNCHANGED <<kind, clock, decay, shape, nextVoice, chord, tuned, note, wired, disposed>>
  BY EngineTimes DEF Strike, EnginesInv, EnginesTyped, knobs, voices
<1>1. \A g \in Gains : open[g] \subseteq Stretches
  BY DEF EnginesInv, EnginesTyped
<1>2. Gains' = Gains
  BY <1>0 DEF Gains
<1>3. EnginesTyped'
  <2>1. open' \in [Gains -> SUBSET Stretches]
    BY <1>0, <1>1, StruckStretches
  <2>2. playing' \subseteq Sources
    BY <1>0 DEF EnginesInv, EnginesTyped
  <2> QED
    BY <1>0, <1>2, <2>1, <2>2 DEF EnginesInv, EnginesTyped
<1>4. PlayingIsKnown'
  <2>1. \A s \in playing : s.until > clock => s \in Stoppable
    BY <1>0 DEF EnginesInv, PlayingIsKnown
  <2> QED
    BY <1>0, <2>1 DEF PlayingIsKnown, Stoppable
<1>5. GainsAreFed'
  <2> SUFFICES ASSUME NEW g \in Gains PROVE \A st \in open'[g] : st.to > clock => Fed(g, st, playing')
    BY <1>0, <1>2 DEF GainsAreFed, Fed
  <2>1. \A st \in open[g] : st.to > clock => Fed(g, st, playing)
    BY <1>0 DEF EnginesInv, GainsAreFed, Fed
  <2>2. Fed(g, Stretch(at, at + hit.lengths[g]), playing')
    BY <1>0, FedByMore
  <2>3. playing \in SUBSET Sources /\ playing' \in SUBSET Sources /\ playing \subseteq playing'
    BY <1>0, <1>3 DEF EnginesInv, EnginesTyped
  <2>4. open[g] \in SUBSET Stretches /\ at \in Nat /\ hit.lengths[g] \in Nat \ {0} /\ clock \in Nat
    BY <1>0, <1>1
  <2> DEFINE length == hit.lengths[g]
  <2> HIDE DEF length
  <2>5. \A st \in Struck(open[g], at, length) : st.to > clock => Fed(g, st, playing')
    <3>1. Fed(g, Stretch(at, at + length), playing') /\ length \in Nat \ {0}
      BY <2>2, <2>4 DEF length
    <3> HIDE DEF Fed
    <3> QED
      BY <2>1, <2>3, <2>4, <3>1, StruckIsFed
  <2>6. open'[g] = Struck(open[g], at, length)
    BY <1>0 DEF length
  <2> QED
    BY <2>5, <2>6
<1>6. SynthRuns' /\ NothingPlaysOn' /\ ChordIsWhole'
  BY <1>0 DEF SynthRuns, NothingPlaysOn, ChordIsWhole
<1>7. SourcesAgree'
  BY <1>0 DEF EnginesInv, SourcesAgree
<1> QED
  BY <1>3, <1>4, <1>5, <1>6, <1>7 DEF EnginesInv

\* Every drum's hit is one of those.
LEMMA TriggerKeeps ==
  ASSUME EnginesInv, NEW at \in clock..(clock + Ahead), Trigger(at)
  PROVE  EnginesInv'
<1>0. at \in Nat /\ decay \in Nat \ {0} /\ shape \in Nat
  BY EngineTimes DEF EnginesInv, EnginesTyped
<1> DEFINE rings(into, d) == Source(into, at, at + SourceLength(d))
<1>1. \A into \in Inputs, d \in Nat :
        /\ rings(into, d) \in Sources /\ rings(into, d).into = into
        /\ Covers(rings(into, d), Stretch(at, at + Envelope(d)))
  BY <1>0, EngineTimes DEF Source, Sources, SourceLength, Covers, Stretch, Envelope
<1>2. \A d \in Nat \ {0} : Envelope(d) \in Nat \ {0}
  BY EngineTimes DEF Envelope
<1>3. CASE Strike("kick", at, KickHit(at))
  <2>1. kind = "kick" /\ Gains = {"amp"}
    BY <1>3 DEF Strike, Gains
  <2>2. KickHit(at) = [lengths |-> [amp |-> Envelope(decay)], oscs |-> {rings("amp", decay)}, sources |-> {}]
    BY DEF KickHit, Hit, RingOut
  <2> HIDE DEF rings
  <2>3. rings("amp", decay) \in Sources /\ Fed("amp", Stretch(at, at + Envelope(decay)), {rings("amp", decay)})
    BY <1>0, <1>1 DEF Fed, Inputs
  <2> DEFINE hit == KickHit(at)
  <2>4. /\ hit.oscs = {rings("amp", decay)} /\ hit.sources = {}
        /\ \A g \in Gains : hit.lengths[g] = Envelope(decay) /\ g = "amp"
    BY <2>1, <2>2
  <2>5. \A g \in Gains : /\ hit.lengths[g] \in Nat \ {0}
                         /\ Fed(g, Stretch(at, at + hit.lengths[g]), hit.oscs \cup hit.sources)
    BY <1>0, <1>2, <2>3, <2>4
  <2>6. hit.oscs \subseteq Sources /\ hit.sources \subseteq Sources
    BY <2>3, <2>4
  <2>7. Strike("kick", at, hit)
    BY <1>3
  <2> HIDE DEF hit
  <2> QED
    BY <2>1, <2>4, <2>5, <2>6, <2>7, StrikeKeeps
<1>4. CASE Strike("hat", at, HatHit(at))
  <2>1. kind = "hat" /\ Gains = {"amp"}
    BY <1>4 DEF Strike, Gains
  <2>2. HatHit(at) = [lengths |-> [amp |-> Envelope(decay)], oscs |-> {rings("metal", decay)}, sources |-> {rings("amp", decay)}]
    BY DEF HatHit, Hit, RingOut, Source
  <2> HIDE DEF rings
  <2>3. /\ rings("amp", decay) \in Sources /\ rings("metal", decay) \in Sources
        /\ Fed("amp", Stretch(at, at + Envelope(decay)), {rings("metal", decay)} \cup {rings("amp", decay)})
    BY <1>0, <1>1 DEF Fed, Inputs
  <2> DEFINE hit == HatHit(at)
  <2>4. /\ hit.oscs = {rings("metal", decay)} /\ hit.sources = {rings("amp", decay)}
        /\ \A g \in Gains : hit.lengths[g] = Envelope(decay) /\ g = "amp"
    BY <2>1, <2>2
  <2>5. \A g \in Gains : /\ hit.lengths[g] \in Nat \ {0}
                         /\ Fed(g, Stretch(at, at + hit.lengths[g]), hit.oscs \cup hit.sources)
    BY <1>0, <1>2, <2>3, <2>4
  <2>6. hit.oscs \subseteq Sources /\ hit.sources \subseteq Sources
    BY <2>3, <2>4
  <2>7. Strike("hat", at, hit)
    BY <1>4
  <2> HIDE DEF hit
  <2> QED
    BY <2>1, <2>4, <2>5, <2>6, <2>7, StrikeKeeps
<1>5. CASE Strike("snare", at, SnareHit(at))
  <2>1. kind = "snare" /\ Gains = {"body", "noise"}
    BY <1>5 DEF Strike, Gains
  <2> DEFINE body == Source("body", at, at + BodyStop)
  <2>2. SnareHit(at) = [lengths |-> [body |-> Envelope(BodyDecay), noise |-> Envelope(decay)],
                        oscs |-> {body}, sources |-> {rings("noise", decay)}]
    <3>1. [RingOut(at, decay) EXCEPT !.into = "noise"] = rings("noise", decay)
      BY DEF RingOut, Source
    <3> HIDE DEF rings, body
    <3> QED
      BY <3>1 DEF SnareHit, Hit, body
  <2>3. /\ body \in Sources /\ body.into = "body"
        /\ Covers(body, Stretch(at, at + Envelope(BodyDecay)))
    BY <1>0, EngineTimes DEF Source, Sources, Inputs, Covers, Stretch, Envelope
  <2> HIDE DEF rings, body
  <2>4. /\ rings("noise", decay) \in Sources
        /\ Fed("noise", Stretch(at, at + Envelope(decay)), {body} \cup {rings("noise", decay)})
        /\ Fed("body", Stretch(at, at + Envelope(BodyDecay)), {body} \cup {rings("noise", decay)})
    BY <1>0, <1>1, <2>3 DEF Fed, Inputs
  <2> DEFINE hit == SnareHit(at)
  <2>5. /\ hit.oscs = {body} /\ hit.sources = {rings("noise", decay)}
        /\ hit.lengths["body"] = Envelope(BodyDecay) /\ hit.lengths["noise"] = Envelope(decay)
    BY <2>2
  <2>6. \A g \in Gains : /\ hit.lengths[g] \in Nat \ {0}
                         /\ Fed(g, Stretch(at, at + hit.lengths[g]), hit.oscs \cup hit.sources)
    <3>1. Envelope(BodyDecay) \in Nat \ {0} /\ Envelope(decay) \in Nat \ {0}
      BY <1>0, <1>2, EngineTimes
    <3> HIDE DEF hit
    <3> QED
      BY <2>1, <2>4, <2>5, <3>1
  <2>7. hit.oscs \subseteq Sources /\ hit.sources \subseteq Sources
    BY <2>3, <2>4, <2>5
  <2>8. Strike("snare", at, hit)
    BY <1>5
  <2> HIDE DEF hit
  <2> QED
    BY <2>1, <2>5, <2>6, <2>7, <2>8, StrikeKeeps
<1>6. CASE Strike("clap", at, ClapHit(at))
  <2>1. kind = "clap" /\ Gains = {"amp"}
    BY <1>6 DEF Strike, Gains
  <2> DEFINE d == 3 * shape + decay
  <2>2. d \in Nat \ {0} /\ 3 * shape + Envelope(decay) = Envelope(d)
    BY <1>0, EngineTimes DEF Envelope
  <2>3. ClapHit(at) = [lengths |-> [amp |-> 3 * shape + Envelope(decay)], oscs |-> {}, sources |-> {rings("amp", d)}]
    BY DEF ClapHit, Hit, RingOut
  <2> HIDE DEF rings, d
  <2>4. rings("amp", d) \in Sources /\ Fed("amp", Stretch(at, at + Envelope(d)), {rings("amp", d)})
    BY <1>0, <1>1, <2>2 DEF Fed, Inputs
  <2> DEFINE hit == ClapHit(at)
  <2>5. /\ hit.oscs = {} /\ hit.sources = {rings("amp", d)}
        /\ \A g \in Gains : hit.lengths[g] = Envelope(d) /\ g = "amp"
    BY <2>1, <2>2, <2>3
  <2>6. \A g \in Gains : /\ hit.lengths[g] \in Nat \ {0}
                         /\ Fed(g, Stretch(at, at + hit.lengths[g]), hit.oscs \cup hit.sources)
    BY <1>2, <2>2, <2>4, <2>5
  <2>7. hit.oscs \subseteq Sources /\ hit.sources \subseteq Sources
    BY <2>4, <2>5
  <2>8. Strike("clap", at, hit)
    BY <1>6
  <2> HIDE DEF hit
  <2> QED
    BY <2>1, <2>5, <2>6, <2>7, <2>8, StrikeKeeps
<1> QED
  BY <1>3, <1>4, <1>5, <1>6 DEF Trigger

\* A frequency goes to both sources of a voice.
LEMMA FrequencyForBoth ==
  ASSUME SourcesAgree, NEW v \in Voices
  PROVE  /\ tuned[v] = [w \in Waves |-> tuned[v]["native"]]
         /\ \A pitch : FrequencySet(v, pitch) = [w \in Waves |-> FrequencySet(v, pitch)["native"]]
<1>1. tuned[v] = [w \in Waves |-> tuned[v]["native"]]
  BY DEF SourcesAgree
<1>2. \A w \in Waves : tuned[v][w] = tuned[v]["native"]
  BY <1>1
<1>3. "native" \in Waves
  BY DEF Waves
<1> QED
  BY <1>1, <1>2, <1>3 DEF FrequencySet

\* A chord is struck: each of its voices has an oscillator that runs on, and is free of the others.
LEMMA TriggerSynthKeeps ==
  ASSUME EnginesInv, NEW at \in clock..(clock + Ahead), NEW notes \in 1..VoiceCount, NEW duration \in 1..2,
         TriggerSynth(at, notes, duration)
  PROVE  EnginesInv'
<1> DEFINE length == duration + decay
<1>0. /\ kind = "synth" /\ ~disposed /\ hits' = hits + 1 /\ Gains = Voices
      /\ open' = [v \in Voices |-> IF v \in VoicesOf(notes) THEN Struck(open[v], at, length) ELSE open[v]]
      /\ nextVoice' = (IF notes = 1 THEN NextAfter(0) ELSE (nextVoice + notes) % VoiceCount)
      /\ chord' = [at |-> at, notes |-> notes]
      /\ tuned' = [v \in Voices |-> IF v \in VoicesOf(notes) THEN FrequencySet(v, Pitch(at, hits', shape)) ELSE tuned[v]]
      /\ UNCHANGED <<kind, clock, decay, shape, playing, activeOscs, activeSources, wired, disposed>>
  BY DEF TriggerSynth, Gains, knobs, tracks
<1>1. /\ clock \in Nat /\ at \in Nat /\ length \in Nat \ {0} /\ at + length <= Forever /\ Forever \in Nat
      /\ \A v \in Voices : open[v] \in SUBSET Stretches
  BY <1>0, EngineTimes DEF EnginesInv, EnginesTyped, Forever
<1> HIDE DEF length
<1>2. VoicesOf(notes) \subseteq Voices /\ IsFiniteSet(VoicesOf(notes)) /\ Cardinality(VoicesOf(notes)) = notes
  BY VoicesForNotes DEF EnginesInv, EnginesTyped
<1>3. \A v \in VoicesOf(notes) :
        /\ open'[v] \subseteq Stretches
        /\ \E st \in open'[v] : st.from = at
        /\ \A st \in open'[v] : st.to > clock => Fed(v, st, playing)
  <2> SUFFICES ASSUME NEW v \in VoicesOf(notes)
               PROVE  /\ open'[v] \subseteq Stretches
                      /\ \E st \in open'[v] : st.from = at
                      /\ \A st \in open'[v] : st.to > clock => Fed(v, st, playing)
    OBVIOUS
  <2>1. v \in Voices /\ open'[v] = Struck(open[v], at, length) /\ open[v] \in SUBSET Stretches
    BY <1>0, <1>1, <1>2
  <2>2. open'[v] \subseteq Stretches /\ Stretch(at, at + length) \in open'[v]
    BY <1>1, <2>1, StruckStretches
  <2>3. Stretch(at, at + length).from = at
    BY DEF Stretch
  <2>4. Fed(v, Stretch(at, at + length), playing)
    <3>1. Source(v, 0, Forever) \in playing
      BY <1>0, <2>1 DEF EnginesInv, SynthRuns
    <3>2. Source(v, 0, Forever).into = v /\ Covers(Source(v, 0, Forever), Stretch(at, at + length))
      BY <1>1 DEF Source, Covers, Stretch
    <3> QED
      BY <3>1, <3>2 DEF Fed
  <2>5. \A st \in open[v] : st.to > clock => Fed(v, st, playing)
    BY <1>0, <2>1 DEF EnginesInv, GainsAreFed, Fed
  <2>6. playing \in SUBSET Sources
    BY DEF EnginesInv, EnginesTyped
  <2>7. \A st \in Struck(open[v], at, length) : st.to > clock => Fed(v, st, playing)
    <3> HIDE DEF Fed
    <3> QED
      BY <1>1, <2>1, <2>4, <2>5, <2>6, StruckIsFed
  <2> QED
    BY <2>1, <2>2, <2>3, <2>7
<1>4. EnginesTyped'
  <2>1. open' \in [Voices -> SUBSET Stretches] /\ Gains' = Voices
    BY <1>0, <1>1, <1>3 DEF Gains
  <2>2. nextVoice' \in Voices
    <3>1. VoiceCount \in Nat \ {0} /\ Voices = 0..(VoiceCount - 1) /\ nextVoice \in Nat
      BY VoicesCounted DEF EnginesInv, EnginesTyped
    <3>2. NextAfter(0) \in Voices
      BY <3>1 DEF NextAfter
    <3>3. (nextVoice + notes) % VoiceCount \in Voices
      BY <3>1
    <3> QED
      BY <1>0, <3>2, <3>3
  <2>3. chord' \in [at : Nat, notes : Nat]
    BY <1>0, <1>1, VoicesCounted
  <2> QED
    BY <1>0, <2>1, <2>2, <2>3 DEF EnginesInv, EnginesTyped
<1>5. PlayingIsKnown' /\ SynthRuns' /\ NothingPlaysOn'
  BY <1>0 DEF EnginesInv, PlayingIsKnown, SynthRuns, NothingPlaysOn, Stoppable
<1>6. SourcesAgree'
  <2> DEFINE pitch == Pitch(at, hits', shape)
  <2> HIDE DEF pitch
  <2>1. tuned' = [v \in Voices |-> IF v \in VoicesOf(notes) THEN FrequencySet(v, pitch) ELSE tuned[v]]
    BY <1>0 DEF pitch
  <2>2. \A v \in Voices : tuned'[v] = [w \in Waves |-> tuned'[v]["native"]]
    <3> SUFFICES ASSUME NEW v \in Voices PROVE tuned'[v] = [w \in Waves |-> tuned'[v]["native"]]
      OBVIOUS
    <3>1. tuned'[v] = FrequencySet(v, pitch) \/ tuned'[v] = tuned[v]
      BY <2>1
    <3>2. SourcesAgree
      BY DEF EnginesInv
    <3>3. /\ tuned[v] = [w \in Waves |-> tuned[v]["native"]]
          /\ FrequencySet(v, pitch) = [w \in Waves |-> FrequencySet(v, pitch)["native"]]
      BY <3>2, FrequencyForBoth
    <3> HIDE DEF Waves
    <3> QED
      BY <3>1, <3>3
  <2> QED
    BY <2>1, <2>2 DEF SourcesAgree
<1>7. GainsAreFed'
  <2> SUFFICES ASSUME NEW v \in Voices PROVE \A st \in open'[v] : st.to > clock => Fed(v, st, playing)
    BY <1>0 DEF GainsAreFed, Fed, Gains
  <2>1. CASE v \in VoicesOf(notes)
    BY <1>3, <2>1
  <2>2. CASE v \notin VoicesOf(notes)
    <3>1. open'[v] = open[v]
      BY <1>0, <2>2
    <3> QED
      BY <1>0, <3>1 DEF EnginesInv, GainsAreFed, Fed
  <2> QED
    BY <2>1, <2>2
<1>8. ChordIsWhole'
  <2> DEFINE sounding == {v \in Voices : \E st \in open'[v] : st.from = at}
  <2>1. VoicesOf(notes) \subseteq sounding
    BY <1>2, <1>3
  <2>2. IsFiniteSet(sounding) /\ Cardinality(sounding) \in Nat
    <3>1. sounding \subseteq Voices
      OBVIOUS
    <3> HIDE DEF sounding
    <3>2. IsFiniteSet(sounding)
      BY <3>1, VoicesCounted, FS_Subset
    <3> QED
      BY <3>2, FS_CardinalityType
  <2> HIDE DEF sounding
  <2>3. Cardinality(sounding) >= notes
    BY <1>2, <2>1, <2>2, FS_Subset
  <2>4. chord'.at = at /\ chord'.notes = notes
    BY <1>0
  <2> QED
    BY <2>3, <2>4 DEF sounding, ChordIsWhole
<1> QED
  BY <1>4, <1>5, <1>6, <1>7, <1>8 DEF EnginesInv

-----------------------------------------------------------------------------
(* The knobs, the end and the clock *)

LEMMA ClampBounds ==
  ASSUME NEW least \in Int, NEW most \in Int, least <= most, NEW asked \in Int
  PROVE  Clamp(least, most, asked) \in least..most
BY DEF Clamp

LEMMA TurnKeeps ==
  ASSUME EnginesInv, NEW asked \in Asked, Turn(asked)
  PROVE  EnginesInv'
<1>0. asked \in Int /\ Longest \in Nat \ {0} /\ LongestKick \in Nat \ {0}
  BY EnginesAssumption, EngineTimes
<1>1. /\ Clamp(1, LongestKick, asked) \in 1..(Longest + LongestKick)
      /\ Clamp(1, Longest, asked) \in 1..(Longest + LongestKick)
      /\ Clamp(1, 2, asked) \in Nat /\ Clamp(0, 1, asked) \in Nat
  BY <1>0 DEF Clamp
<1>2. /\ UNCHANGED <<kind, clock, open, playing, activeOscs, activeSources, nextVoice, chord, hits, disposed>>
      /\ decay' \in 1..(Longest + LongestKick) /\ shape' \in Nat
      /\ wired' \in [Voices -> Waves]
      /\ \/ tuned' = tuned
         \/ tuned' = [v \in Voices |-> FrequencySet(v, Pitch(clock, note[v], shape'))]
  <2>1. CASE TurnKick(asked) \/ TurnHat(asked) \/ TurnSnare(asked) \/ TurnClap(asked)
    BY <1>1, <2>1 DEF TurnKick, TurnHat, TurnSnare, TurnClap, TurnDrum, tracks, voices, EnginesInv, EnginesTyped
  <2>2. CASE TurnSynth(asked)
    BY <1>1, <2>2 DEF TurnSynth, tracks, knobs, EnginesInv, EnginesTyped
  <2> QED
    BY <2>1, <2>2 DEF Turn
<1>3. Gains' = Gains
  BY <1>2 DEF Gains
<1>4. EnginesTyped'
  BY <1>2, <1>3 DEF EnginesInv, EnginesTyped
<1>5. PlayingIsKnown' /\ SynthRuns' /\ NothingPlaysOn' /\ ChordIsWhole' /\ GainsAreFed'
  <2>1. Stoppable' = Stoppable
    BY <1>2 DEF Stoppable
  <2> QED
    BY <1>2, <1>3, <2>1 DEF EnginesInv, PlayingIsKnown, SynthRuns, NothingPlaysOn, ChordIsWhole, GainsAreFed
<1>6. SourcesAgree'
  <2>1. SourcesAgree
    BY DEF EnginesInv
  <2>2. CASE tuned' = tuned
    BY <2>1, <2>2 DEF SourcesAgree
  <2>3. CASE tuned' = [v \in Voices |-> FrequencySet(v, Pitch(clock, note[v], shape'))]
    <3> DEFINE set(v) == FrequencySet(v, Pitch(clock, note[v], shape'))
    <3>1. \A v \in Voices : set(v) = [w \in Waves |-> set(v)["native"]]
      BY <2>1, FrequencyForBoth
    <3>2. tuned' = [v \in Voices |-> set(v)]
      BY <2>3
    <3> HIDE DEF set
    <3> QED
      BY <3>1, <3>2 DEF SourcesAgree
  <2> QED
    BY <1>2, <2>2, <2>3
<1> QED
  BY <1>4, <1>5, <1>6 DEF EnginesInv

LEMMA EndedKeeps ==
  ASSUME EnginesInv, NEW s \in activeOscs \cup activeSources, Ended(s)
  PROVE  EnginesInv'
<1>0. /\ s.until <= clock /\ ~disposed
      /\ activeOscs' = activeOscs \ {s} /\ activeSources' = activeSources \ {s}
      /\ UNCHANGED <<kind, clock, decay, shape, open, playing, nextVoice, chord, tuned, note, wired, hits, disposed>>
  BY DEF Ended, knobs, voices
<1>1. Gains' = Gains
  BY <1>0 DEF Gains
<1>2. EnginesTyped'
  BY <1>0, <1>1 DEF EnginesInv, EnginesTyped
<1>3. PlayingIsKnown'
  <2>1. \A x \in Stoppable : x # s => x \in Stoppable'
    BY <1>0 DEF Stoppable
  <2>2. \A x \in playing : x.until > clock => x # s
    BY <1>0 DEF EnginesInv, EnginesTyped, Sources
  <2> QED
    BY <1>0, <2>1, <2>2 DEF EnginesInv, PlayingIsKnown
<1> QED
  BY <1>0, <1>1, <1>2, <1>3 DEF EnginesInv, SynthRuns, NothingPlaysOn, ChordIsWhole, GainsAreFed, SourcesAgree

LEMMA DisposeKeeps ==
  ASSUME EnginesInv, Dispose
  PROVE  EnginesInv'
<1>1. PICK engine, known : Disposes(engine, known) /\ known = Stoppable
  <2>1. CASE DisposeKick
    BY <2>1 DEF DisposeKick, Disposes, Stoppable
  <2>2. CASE DisposeHat
    BY <2>2 DEF DisposeHat, Disposes, Stoppable
  <2>3. CASE DisposeSnare
    BY <2>3 DEF DisposeSnare, Disposes, Stoppable
  <2>4. CASE DisposeClap
    BY <2>4 DEF DisposeClap, Disposes, Stoppable
  <2>5. CASE DisposeSynth
    BY <2>5 DEF DisposeSynth, Disposes, Stoppable
  <2> QED
    BY <2>1, <2>2, <2>3, <2>4, <2>5 DEF Dispose
<1>2. /\ ~disposed /\ disposed' /\ playing' = Stopped(Stoppable)
      /\ disposed' \in BOOLEAN /\ activeOscs' \subseteq activeOscs /\ activeSources' \subseteq activeSources
      /\ UNCHANGED <<kind, clock, decay, shape, open, nextVoice, chord, tuned, note, wired, hits>>
  BY <1>1 DEF Disposes, knobs, voices
<1>3. clock \in Nat /\ Stoppable \subseteq Sources /\ playing \subseteq Sources
  BY EngineTimes DEF EnginesInv, EnginesTyped, Stoppable
<1>4. \A s \in Stoppable :
        LET stop == [s EXCEPT !.until = IF s.until < clock THEN s.until ELSE clock] IN
        stop \in Sources /\ stop.until <= clock
  BY <1>3 DEF Sources
<1>5. \A s \in playing \ Stoppable : s.until <= clock
  BY <1>2, <1>3 DEF EnginesInv, PlayingIsKnown, Sources
<1>6. Stopped(Stoppable) \subseteq Sources /\ \A s \in Stopped(Stoppable) : s.until <= clock
  <2> HIDE DEF Sources
  <2> QED
    BY <1>3, <1>4, <1>5 DEF Stopped
<1>7. EnginesTyped'
  <2>1. Gains' = Gains
    BY <1>2 DEF Gains
  <2> QED
    BY <1>2, <1>6, <2>1 DEF EnginesInv, EnginesTyped
<1> QED
  BY <1>2, <1>6, <1>7 DEF EnginesInv, PlayingIsKnown, SynthRuns, NothingPlaysOn, ChordIsWhole, GainsAreFed, SourcesAgree

LEMMA TickKeeps ==
  ASSUME EnginesInv, Tick
  PROVE  EnginesInv'
<1>0. /\ clock < MaxTime /\ clock' = clock + 1
      /\ open' = [g \in Gains |-> {st \in open[g] : st.to > clock}]
      /\ playing' = {s \in playing : s.until > clock \/ s \in activeOscs \cup activeSources}
      /\ tuned' = [v \in Voices |-> [w \in Waves |-> Holding(tuned[v][w])]]
      /\ UNCHANGED <<kind, decay, shape, activeOscs, activeSources, nextVoice, chord, note, wired, hits, disposed>>
  BY DEF Tick, knobs, tracks
<1>1. clock \in Nat /\ clock' \in 0..MaxTime /\ Gains' = Gains /\ Stoppable' = Stoppable
  BY <1>0, EngineTimes DEF EnginesInv, EnginesTyped, Gains, Stoppable
<1>2. EnginesTyped'
  BY <1>0, <1>1 DEF EnginesInv, EnginesTyped
<1>3. PlayingIsKnown'
  <2>1. \A s \in playing : s.until > clock' => s.until > clock
    BY <1>0, <1>1 DEF EnginesInv, EnginesTyped, Sources
  <2> QED
    BY <1>0, <1>1, <2>1 DEF EnginesInv, PlayingIsKnown
<1>4. SynthRuns'
  <2>1. \A v \in Voices : Source(v, 0, Forever).until > clock
    BY <1>0, <1>1, EngineTimes DEF Source, Forever
  <2> QED
    BY <1>0, <2>1 DEF EnginesInv, SynthRuns
<1>5. GainsAreFed'
  <2> SUFFICES ASSUME ~disposed, NEW g \in Gains, NEW st \in open'[g], st.to > clock'
               PROVE  \E s \in playing' : s.into = g /\ Covers(s, st)
    BY <1>0, <1>1 DEF GainsAreFed
  <2>1. st \in open[g] /\ st.to > clock /\ st \in Stretches
    BY <1>0 DEF EnginesInv, EnginesTyped
  <2>2. PICK s \in playing : s.into = g /\ Covers(s, st)
    BY <2>1 DEF EnginesInv, GainsAreFed
  <2>3. s.until > clock
    BY <1>1, <2>1, <2>2 DEF EnginesInv, EnginesTyped, Covers, Sources, Stretches
  <2> QED
    BY <1>0, <2>2, <2>3
<1>6. NothingPlaysOn'
  <2>1. \A s \in playing : s.until <= clock => s.until <= clock'
    BY <1>0, <1>1 DEF EnginesInv, EnginesTyped, Sources
  <2> QED
    BY <1>0, <2>1 DEF EnginesInv, NothingPlaysOn
<1>7. ChordIsWhole'
  <2> SUFFICES ASSUME kind = "synth", clock' <= chord.at, chord.notes > 0
               PROVE  Cardinality({v \in Voices : \E st \in open'[v] : st.from = chord.at}) >= chord.notes
    BY <1>0 DEF ChordIsWhole
  <2>1. clock <= chord.at /\ chord.at > clock
    BY <1>0, <1>1 DEF EnginesInv, EnginesTyped
  <2>2. \A v \in Voices : \A st \in open[v] : st.from = chord.at => st \in open'[v]
    <3> SUFFICES ASSUME NEW v \in Voices, NEW st \in open[v], st.from = chord.at PROVE st \in open'[v]
      OBVIOUS
    <3>1. v \in Gains
      BY DEF Gains
    <3>2. st.to > clock
      BY <1>1, <2>1, <3>1 DEF EnginesInv, EnginesTyped, Stretches
    <3> QED
      BY <1>0, <3>1, <3>2
  <2>3. \A v \in Voices : \A st \in open'[v] : st \in open[v]
    BY <1>0 DEF Gains
  <2>4. {v \in Voices : \E st \in open'[v] : st.from = chord.at} = {v \in Voices : \E st \in open[v] : st.from = chord.at}
    BY <2>2, <2>3
  <2> QED
    BY <2>1, <2>4 DEF EnginesInv, ChordIsWhole
<1>8. SourcesAgree'
  <2>1. \A v \in Voices, w \in Waves : tuned[v][w] = tuned[v]["native"]
    <3>1. SourcesAgree
      BY DEF EnginesInv
    <3>2. \A v \in Voices : tuned[v] = [w \in Waves |-> tuned[v]["native"]]
      BY <3>1, FrequencyForBoth
    <3> QED
      BY <3>2
  <2>2. \A v \in Voices : tuned'[v] = [w \in Waves |-> Holding(tuned[v]["native"])]
    BY <1>0, <2>1
  <2> QED
    BY <1>0, <2>2 DEF SourcesAgree, Waves
<1> QED
  BY <1>2, <1>3, <1>4, <1>5, <1>6, <1>7, <1>8 DEF EnginesInv

-----------------------------------------------------------------------------

LEMMA InitEnginesInv == InitEngines => EnginesInv
<1> SUFFICES ASSUME InitEngines PROVE EnginesInv
  OBVIOUS
<1>0. Forever \in Nat /\ 0 \in Voices /\ MaxTime \in Nat /\ decay \in 1..(Longest + LongestKick)
  BY EngineTimes, VoicesCounted DEF Forever, InitEngines
<1>1. \A v \in Voices : Source(v, 0, Forever) \in Sources
  BY <1>0 DEF Source, Sources, Inputs
<1>2. EnginesTyped
  <2>1. playing \subseteq Sources /\ activeOscs \subseteq Sources /\ activeSources \subseteq Sources
    BY <1>1 DEF InitEngines
  <2>2. open \in [Gains -> SUBSET Stretches]
    BY DEF InitEngines
  <2>3. clock \in 0..MaxTime /\ shape \in Nat /\ hits \in Nat /\ nextVoice \in Voices /\ chord \in [at : Nat, notes : Nat]
    BY <1>0 DEF InitEngines
  <2>4. kind \in {"kick", "hat", "snare", "clap", "synth"} /\ disposed \in BOOLEAN /\ wired \in [Voices -> Waves]
    BY DEF InitEngines, Waves
  <2> QED
    BY <1>0, <2>1, <2>2, <2>3, <2>4 DEF EnginesTyped
<1>3. PlayingIsKnown /\ SynthRuns /\ GainsAreFed /\ NothingPlaysOn
  BY DEF InitEngines, PlayingIsKnown, Stoppable, SynthRuns, GainsAreFed, NothingPlaysOn
<1>4. ChordIsWhole
  BY DEF InitEngines, ChordIsWhole
<1>5. SourcesAgree
  BY DEF InitEngines, SourcesAgree, Waves
<1> QED
  BY <1>2, <1>3, <1>4, <1>5 DEF EnginesInv

LEMMA EnginesStep == EnginesInv /\ [NextEngines]_engineVars => EnginesInv'
<1> SUFFICES ASSUME EnginesInv, [NextEngines]_engineVars PROVE EnginesInv'
  OBVIOUS
<1>1. ASSUME NEW at \in clock..(clock + Ahead), Trigger(at) PROVE EnginesInv'
  BY <1>1, TriggerKeeps
<1>2. ASSUME NEW at \in clock..(clock + Ahead), NEW notes \in 1..VoiceCount, NEW duration \in 1..2,
             TriggerSynth(at, notes, duration)
      PROVE  EnginesInv'
  BY <1>2, TriggerSynthKeeps
<1>3. ASSUME NEW asked \in Asked, Turn(asked) PROVE EnginesInv'
  BY <1>3, TurnKeeps
<1>4. ASSUME NEW s \in activeOscs \cup activeSources, Ended(s) PROVE EnginesInv'
  BY <1>4, EndedKeeps
<1>5. CASE Dispose
  BY <1>5, DisposeKeeps
<1>6. CASE Tick
  BY <1>6, TickKeeps
<1>7. CASE UNCHANGED engineVars
  <2>1. UNCHANGED <<kind, clock, decay, shape, open, playing, activeOscs, activeSources, nextVoice, chord, tuned, wired, hits, disposed>>
    BY <1>7 DEF engineVars, knobs, tracks, voices
  <2>2. Gains' = Gains /\ Stoppable' = Stoppable
    BY <2>1 DEF Gains, Stoppable
  <2>3. EnginesTyped'
    BY <2>1, <2>2 DEF EnginesInv, EnginesTyped
  <2>4. PlayingIsKnown' /\ SynthRuns' /\ SourcesAgree' /\ NothingPlaysOn' /\ ChordIsWhole' /\ GainsAreFed'
    BY <2>1, <2>2 DEF EnginesInv, PlayingIsKnown, SynthRuns, SourcesAgree, GainsAreFed, NothingPlaysOn, ChordIsWhole
  <2> QED
    BY <2>3, <2>4 DEF EnginesInv
<1> QED
  BY <1>1, <1>2, <1>3, <1>4, <1>5, <1>6, <1>7 DEF NextEngines

\* What an engine plays, and what it keeps track of, go together in every state.
THEOREM EnginesStay == EnginesSpec => []EnginesInv
<1> QED
  BY InitEnginesInv, EnginesStep, PTL DEF EnginesSpec

LEMMA HeardFollows == EnginesInv => HitsAreHeard
<1> SUFFICES ASSUME EnginesInv PROVE SwapKeepsPitch
  BY DEF EnginesInv, HitsAreHeard
<1>1. \A v \in Voices, w \in Waves : tuned[v][w] = tuned[v]["native"]
  <2>1. SourcesAgree
    BY DEF EnginesInv
  <2>2. \A v \in Voices : tuned[v] = [w \in Waves |-> tuned[v]["native"]]
    BY <2>1, FrequencyForBoth
  <2> QED
    BY <2>2
<1>2. \A v \in Voices : wired[v] \in Waves
  BY DEF EnginesInv, EnginesTyped
<1> QED
  BY <1>1, <1>2 DEF SwapKeepsPitch

\* However hits are scheduled, retriggered and turned under way (KickEngine.ts, HatEngine.ts,
\* SnareEngine.ts, ClapEngine.ts, SynthEngine.ts): a gain is open only while a source plays into
\* it, what is disposed of is silent, a chord has a voice to each note, and a voice's two sources
\* hold one pitch.
THEOREM HitsKeepSounding == EnginesSpec => []HitsAreHeard
<1> QED
  BY EnginesStay, HeardFollows, PTL

-----------------------------------------------------------------------------
(* The audio lab's verdicts *)

AuditInv ==
  /\ check \in Check /\ legs \in Seq(Clip) /\ broken \in BOOLEAN
  /\ PassesEarned

LEMMA AuditLevels ==
  /\ \A x \in Level : x \in Int /\ x # Null /\ x # NaN
  /\ MinLevel \in Level /\ MaxLevel \in Level /\ MinPeak \in Level /\ MinPeak - 1 \in Level
  /\ MinDelta \in Nat \ {0} /\ MinSpread \in Nat \ {0}
  /\ KnobTime \in Int /\ Tolerance \in Nat /\ EnumValues \in Nat \ {0} /\ Null # NaN
BY AuditAssumption

\* A clip has a metric, a peak and flags; and what is not a number is flagged.
LEMMA ClipsAreTyped ==
  ASSUME NEW c \in Clip
  PROVE  /\ c.metric \in Level \/ c.metric = Null \/ c.metric = NaN
         /\ c.peak \in Level \/ c.peak = Null
         /\ c.metric = NaN => "NON_FINITE" \in c.flags
         /\ c.flags \subseteq Flags
BY AuditLevels DEF Clip

\* The three ways a metric moves, without the distance.
LEMMA DistanceIsEitherWay ==
  ASSUME NEW x \in Int, NEW y \in Int, NEW d \in Nat \ {0}
  PROVE  Distance(x, y) >= d <=> (y - x >= d \/ x - y >= d)
BY DEF Distance

\* The audit's rules agree with what a pass is taken to say, of legs that are all there.
LEMMA RulesEarn ==
  ASSUME check \in Check, legs \in Seq(Clip), broken \in BOOLEAN, broken \/ Len(legs) = LegCount(check)
  PROVE  Earned <=> ~HasProblems
<1>1. CASE broken
  BY <1>1 DEF Earned, HasProblems
<1>2. CASE ~broken
  <2>1. /\ Len(legs) = LegCount(check) /\ LegCount(check) \in Nat \ {0}
        /\ DOMAIN legs = 1..Len(legs) /\ \A i \in DOMAIN legs : legs[i] \in Clip
    <3>1. LegCount(check) \in Nat \ {0}
      BY AuditLevels DEF LegCount
    <3> QED
      BY <1>2, <3>1
  <2>2. 1 \in DOMAIN legs /\ (check.kind \in Moves => 2 \in DOMAIN legs /\ DOMAIN legs = {1, 2})
    <3>1. check.kind \in Moves => Len(legs) = 2
      <4>1. check.kind \in Moves => check.kind # "enum" /\ LegCount(check) = 2
        BY DEF LegCount, Moves
      <4> QED
        BY <2>1, <4>1
    <3>2. Len(legs) >= 1 /\ Len(legs) \in Nat
      BY <2>1
    <3> QED
      BY <2>1, <3>1, <3>2
  <2> DEFINE healthy == \A i \in DOMAIN legs : "NON_FINITE" \notin legs[i].flags /\ legs[i].flags \subseteq check.allowed
  <2>3. ~HealthFails <=> healthy
    BY DEF HealthFails, Allowed
  <2>4. healthy => \A i \in DOMAIN legs : legs[i].metric # NaN
    BY <2>1, ClipsAreTyped
  <2>5. \A i \in DOMAIN legs : /\ legs[i].metric \in Level \/ legs[i].metric = Null \/ legs[i].metric = NaN
                               /\ legs[i].peak \in Level \/ legs[i].peak = Null
    BY <2>1, ClipsAreTyped
  <2>6. Measured <=> \A i \in DOMAIN legs : legs[i].metric \in Level
    BY DEF Measured, Metrics
  <2>7. check.kind \in Moves \cup {"absolute", "enum", "pitchSettle", "health"} /\ check.direction \in {"up", "down", "change"}
        /\ check.distinct \in BOOLEAN /\ (check.distinct => check.kind = "enum")
    BY DEF Check
  <2> HIDE DEF healthy
  <2>8. CASE check.kind \in Moves
    <3> DEFINE from == legs[1].metric
               to == legs[2].metric
    <3>1. Measured <=> from \in Level /\ to \in Level
      BY <2>2, <2>6, <2>8
    <3> DEFINE earns == CASE check.direction = "up" -> to - from >= MinDelta
                          [] check.direction = "down" -> -(to - from) >= MinDelta
                          [] OTHER -> to - from >= MinDelta \/ -(to - from) >= MinDelta
    <3>2. Earned <=> healthy /\ Measured /\ earns
      <4>1. check.kind \in Moves \cup {"absolute", "pitchSettle"} /\ check.kind \notin {"absolute", "enum", "pitchSettle", "health"}
        BY <2>8 DEF Moves
      <4> QED
        BY <1>2, <2>1, <2>8, <4>1 DEF Earned, healthy
    <3>3. from \in Level /\ to \in Level => (Moved(from, to) <=> earns)
      <4>1. from \in Level /\ to \in Level =>
              /\ from \in Int /\ to \in Int /\ MinDelta \in Nat \ {0}
              /\ from - to = -(to - from)
              /\ (Distance(from, to) >= MinDelta <=> to - from >= MinDelta \/ from - to >= MinDelta)
        <5> HIDE DEF from, to
        <5>1. from \in Level /\ to \in Level => from \in Int /\ to \in Int /\ MinDelta \in Nat \ {0}
          BY AuditLevels
        <5>2. from \in Int /\ to \in Int => from - to = -(to - from)
          OBVIOUS
        <5> QED
          BY <5>1, <5>2, DistanceIsEitherWay
      <4> HIDE DEF from, to
      <4> QED
        BY <4>1 DEF Moved
    <3>4. Moved(from, to) => from \in Level /\ to \in Level
      BY DEF Moved
    <3>5. HasProblems <=> ~Moved(from, to) \/ ~healthy
      <4>1. check.kind \notin {"absolute", "enum", "pitchSettle"}
        BY <2>8 DEF Moves
      <4>2. AssertionFails <=> ~Moved(from, to)
        BY <2>8, <4>1 DEF AssertionFails
      <4> QED
        BY <1>2, <2>3, <4>2 DEF HasProblems
    <3> HIDE DEF earns, from, to
    <3> QED
      BY <3>1, <3>2, <3>3, <3>4, <3>5
  <2>9. CASE check.kind = "absolute"
    <3> DEFINE m == legs[1].metric
    <3>1. DOMAIN legs = {1}
      BY <2>1, <2>9 DEF LegCount, Moves
    <3>2. Measured <=> m \in Level
      BY <2>6, <3>1
    <3>3. Earned <=> healthy /\ Measured /\ m \in MinLevel..MaxLevel
      BY <1>2, <2>1, <2>9 DEF Earned, healthy, Moves
    <3>4. HasProblems <=> OutOfRange(m) \/ ~healthy
      BY <1>2, <2>3, <2>9 DEF HasProblems, AssertionFails, Moves
    <3>5. m \in Level => (OutOfRange(m) <=> m \notin MinLevel..MaxLevel)
      <4> HIDE DEF m
      <4>1. MinLevel \in Int /\ MaxLevel \in Int /\ (m \in Level => m \in Int /\ m # Null)
        BY AuditLevels
      <4>2. m \in Level => (OutOfRange(m) <=> m < MinLevel \/ MaxLevel < m)
        BY AuditLevels, <4>1 DEF OutOfRange, Below
      <4> QED
        BY <4>1, <4>2
    <3>6. m = Null => OutOfRange(m) /\ m \notin Level
      BY AuditLevels DEF OutOfRange
    <3>7. healthy => m \in Level \/ m = Null
      BY <2>2, <2>4, <2>5
    <3> QED
      BY <3>2, <3>3, <3>4, <3>5, <3>6, <3>7
  <2>10. CASE check.kind = "pitchSettle"
    <3> DEFINE m == legs[1].metric
    <3>1. DOMAIN legs = {1}
      BY <2>1, <2>10 DEF LegCount, Moves
    <3>2. Measured <=> m \in Level
      BY <2>6, <3>1
    <3>3. Earned <=> healthy /\ Measured /\ m \in (KnobTime - Tolerance)..(KnobTime + Tolerance)
      BY <1>2, <2>1, <2>10 DEF Earned, healthy, Moves
    <3>4. HasProblems <=> Unsettled(m) \/ ~healthy
      BY <1>2, <2>3, <2>10 DEF HasProblems, AssertionFails, Moves
    <3>5. m \in Level => (Unsettled(m) <=> m \notin (KnobTime - Tolerance)..(KnobTime + Tolerance))
      <4> HIDE DEF m
      <4>1. KnobTime \in Int /\ Tolerance \in Int /\ (m \in Level => m \in Int /\ m # Null /\ m # NaN)
        BY AuditLevels
      <4>2. m \in Level => (Unsettled(m) <=> Distance(m, KnobTime) > Tolerance)
        BY <4>1 DEF Unsettled
      <4> QED
        BY <4>1, <4>2 DEF Distance
    <3>6. m \notin Level => Unsettled(m)
      BY <2>2, <2>5 DEF Unsettled
    <3> QED
      BY <3>2, <3>3, <3>4, <3>5, <3>6
  <2>11. CASE check.kind = "enum"
    <3> DEFINE loud == \A i \in DOMAIN legs : legs[i].peak \in Level /\ legs[i].peak >= MinPeak
               apart == \E i, j \in DOMAIN legs : legs[i].metric - legs[j].metric >= MinSpread
    <3>1. Earned <=> healthy /\ (check.distinct => Measured) /\ loud /\ (check.distinct => apart)
      BY <1>2, <2>1, <2>11 DEF Earned, healthy, Moves
    <3>2. HasProblems <=> EnumFails \/ ~healthy
      BY <1>2, <2>3, <2>11 DEF HasProblems, AssertionFails, Moves
    <3>3. (\E i \in DOMAIN legs : legs[i].peak = Null \/ Below(legs[i].peak, MinPeak)) <=> ~loud
      <4>1. ASSUME NEW i \in DOMAIN legs
            PROVE  (legs[i].peak = Null \/ Below(legs[i].peak, MinPeak)) <=> ~(legs[i].peak \in Level /\ legs[i].peak >= MinPeak)
        <5> DEFINE p == legs[i].peak
        <5>1. p \in Level \/ p = Null
          BY <2>5
        <5> HIDE DEF p
        <5>2. MinPeak \in Level /\ MinPeak \in Int /\ Null \notin Level /\ (p \in Level => p \in Int /\ p # Null)
          BY AuditLevels
        <5>3. (p = Null \/ Below(p, MinPeak)) <=> ~(p \in Level /\ p >= MinPeak)
          BY <5>1, <5>2 DEF Below
        <5> QED
          BY <5>3 DEF p
      <4> QED
        BY <4>1
    <3>4. healthy => (TooAlike <=> ~(Measured /\ apart))
      <4>1. CASE Null \in Metrics
        BY <4>1, AuditLevels DEF TooAlike, Measured
      <4>2. CASE Null \notin Metrics /\ healthy
        <5>1. Measured
          BY <2>4, <2>5, <2>6, <4>2 DEF Metrics
        <5>2. NaN \notin Metrics
          BY <5>1, AuditLevels DEF Measured
        <5>3. TooAlike <=> \A i, j \in DOMAIN legs : Distance(legs[i].metric, legs[j].metric) < MinSpread
          BY <4>2, <5>2 DEF TooAlike, Metrics
        <5>4. ASSUME NEW i \in DOMAIN legs, NEW j \in DOMAIN legs
              PROVE  Distance(legs[i].metric, legs[j].metric) < MinSpread <=>
                       ~(legs[j].metric - legs[i].metric >= MinSpread \/ legs[i].metric - legs[j].metric >= MinSpread)
          <6> DEFINE x == legs[i].metric
                     y == legs[j].metric
          <6>1. x \in Int /\ y \in Int /\ MinSpread \in Nat \ {0} /\ Distance(x, y) \in Int
            <7>1. x \in Int /\ y \in Int /\ MinSpread \in Nat \ {0}
              BY <2>6, <5>1, AuditLevels
            <7> HIDE DEF x, y
            <7> QED
              BY <7>1 DEF Distance
          <6> HIDE DEF x, y
          <6>2. Distance(x, y) >= MinSpread <=> (y - x >= MinSpread \/ x - y >= MinSpread)
            BY <6>1, DistanceIsEitherWay
          <6>3. Distance(x, y) < MinSpread <=> ~(y - x >= MinSpread \/ x - y >= MinSpread)
            BY <6>1, <6>2
          <6> QED
            BY <6>3 DEF x, y
        <5> QED
          BY <5>1, <5>3, <5>4
      <4> QED
        BY <4>1, <4>2
    <3> HIDE DEF loud, apart
    <3> QED
      BY <2>7, <3>1, <3>2, <3>3, <3>4 DEF EnumFails
  <2>12. CASE check.kind = "health"
    <3>1. Earned <=> healthy
      BY <1>2, <2>1, <2>7, <2>12 DEF Earned, healthy, Moves
    <3>2. HasProblems <=> ~healthy
      BY <1>2, <2>3, <2>12 DEF HasProblems, AssertionFails, Moves
    <3> QED
      BY <3>1, <3>2
  <2> QED
    BY <2>7, <2>8, <2>9, <2>10, <2>11, <2>12
<1> QED
  BY <1>1, <1>2

\* A check of the audit passes when, and only when, it has measured what it compares and found what it
\* asserts; for any levels, tolerances and number of values.
THEOREM PassesStayEarned == AuditSpec => []PassesEarned
<1>1. InitAudit => AuditInv
  <2> SUFFICES ASSUME InitAudit PROVE AuditInv
    OBVIOUS
  <2>1. legs \in Seq(Clip)
    BY DEF InitAudit
  <2> QED
    BY <2>1 DEF InitAudit, AuditInv, PassesEarned
<1>2. AuditInv /\ [NextAudit]_auditVars => AuditInv'
  <2> SUFFICES ASSUME AuditInv, [NextAudit]_auditVars PROVE AuditInv'
    OBVIOUS
  <2>1. ASSUME NEW clip \in Clip, RenderLeg(clip) PROVE AuditInv'
    BY <2>1 DEF RenderLeg, AuditInv, PassesEarned
  <2>2. CASE Throw
    BY <2>2 DEF Throw, AuditInv, PassesEarned
  <2>3. CASE Classify
    <3>1. UNCHANGED <<check, legs, broken>> /\ verdict' = Status /\ verdict = "running"
      BY <2>3 DEF Classify
    <3>2. Earned' <=> Earned
      BY <3>1 DEF Earned, LegCount, Measured, Metrics
    <3>3. Earned <=> ~HasProblems
      BY <2>3, RulesEarn DEF AuditInv, Classify
    <3>4. check.known \in BOOLEAN /\ check'.known = check.known
      BY <3>1 DEF AuditInv, Check
    <3>5. (Status = "FAIL" /\ legs # << >>) => saved' # {}
      BY <2>3 DEF Classify
    <3>6. /\ Status \in {"PASS", "STALE_KNOWN"} <=> ~HasProblems
          /\ Status \in {"KNOWN", "STALE_KNOWN"} <=> check.known
      BY <3>4 DEF Status
    <3>7. PassesEarned'
      BY <3>1, <3>2, <3>3, <3>4, <3>5, <3>6 DEF PassesEarned
    <3> QED
      BY <3>1, <3>7 DEF AuditInv
  <2>4. CASE UNCHANGED auditVars
    <3>1. Earned' <=> Earned
      BY <2>4 DEF auditVars, Earned, LegCount, Measured, Metrics
    <3> QED
      BY <2>4, <3>1 DEF auditVars, AuditInv, PassesEarned
  <2> QED
    BY <2>1, <2>2, <2>3, <2>4 DEF NextAudit
<1>3. AuditInv => PassesEarned
  BY DEF AuditInv
<1> QED
  BY <1>1, <1>2, <1>3, PTL DEF AuditSpec

-----------------------------------------------------------------------------
(* The lobby, in its part of the page *)

\* A dialog is open in a mounted lobby only, and a creation has a dialog waiting for it or is lost.
LobbyInv ==
  /\ x1 \in [mounted : BOOLEAN, hidden : BOOLEAN, visits : Nat]
  /\ x2 \in [timer : BOOLEAN, listeners : Nat]
  /\ x6 \in [open : BOOLEAN, named : BOOLEAN, seed : {"default", "import"}, file : BOOLEAN, busy : BOOLEAN]
  /\ x7 \in [its : Nat, lost : Nat]
  /\ x6.open => x1.mounted
  /\ x7.its > 0 => x6.open
  /\ x2.timer <=> x1.mounted /\ ~x1.hidden
  /\ (x1.mounted => x2.listeners = 1) /\ (~x1.mounted => x2.listeners = 0)

LEMMA LobbyIsPolled == LobbyInv => Entrance!PollsOnlyInSight
<1> SUFFICES ASSUME LobbyInv PROVE Entrance!PollsOnlyInSight
  OBVIOUS
<1>1. x2.timer \in BOOLEAN /\ x1.mounted \in BOOLEAN /\ x1.hidden \in BOOLEAN
  BY DEF LobbyInv
<1>2. x2.timer = (x1.mounted /\ ~x1.hidden)
  <2>1. x2.timer <=> x1.mounted /\ ~x1.hidden
    BY DEF LobbyInv
  <2> QED
    BY <1>1, <2>1
<1> QED
  BY <1>2 DEF LobbyInv, Entrance!PollsOnlyInSight

LEMMA LobbyInit == Entrance!InitLobby => LobbyInv
BY DEF Entrance!InitLobby, Entrance!ClosedForm, LobbyInv

LEMMA LobbyStep == LobbyInv /\ Entrance!NextLobby => LobbyInv'
<1> SUFFICES ASSUME LobbyInv, Entrance!NextLobby PROVE LobbyInv'
  OBVIOUS
<1> DEFINE Tabs == [mounted : BOOLEAN, hidden : BOOLEAN, visits : Nat]
           Polls == [timer : BOOLEAN, listeners : Nat]
           Posts == [its : Nat, lost : Nat]
           Forms == [open : BOOLEAN, named : BOOLEAN, seed : {"default", "import"}, file : BOOLEAN, busy : BOOLEAN]
<1>0. x1 \in Tabs /\ x2 \in Polls /\ x6 \in Forms /\ x7 \in Posts
  BY DEF LobbyInv
<1>a. /\ Entrance!StopPolling(x2).timer = FALSE /\ (x1.mounted => Entrance!StopPolling(x2) \in Polls /\ Entrance!StopPolling(x2).listeners = 0)
      /\ \A posts \in Posts : Entrance!Lost(posts) \in Posts /\ Entrance!Lost(posts).its = 0
      /\ Entrance!ClosedForm \in Forms /\ ~Entrance!ClosedForm.open
  BY DEF LobbyInv, Entrance!StopPolling, Entrance!Lost, Entrance!ClosedForm
\* Leaving the lobby: nothing polls, no dialog is open, and no creation is waited for.
<1>b. ASSUME x1.mounted, x1' = [x1 EXCEPT !.mounted = FALSE], x2' = Entrance!StopPolling(x2), x6' = Entrance!ClosedForm,
             NEW posts \in Posts, x7' = Entrance!Lost(posts)
      PROVE  LobbyInv'
  <2>1. x1' \in Tabs /\ ~x1'.mounted
    BY <1>0, <1>b
  <2>2. x2' \in Polls /\ x2'.listeners = 0 /\ ~x2'.timer
    BY <1>a, <1>b
  <2>3. x6' \in Forms /\ ~x6'.open /\ x7' \in Posts /\ x7'.its = 0
    BY <1>a, <1>b
  <2> QED
    BY <2>1, <2>2, <2>3 DEF LobbyInv
<1>1. CASE Entrance!Mount
  <2>1. /\ ~x1.mounted /\ x1' = [x1 EXCEPT !.mounted = TRUE, !.visits = x1.visits + 1]
        /\ x2' = [timer |-> x2.timer \/ ~x1.hidden, listeners |-> x2.listeners + 1] /\ x6' = x6 /\ x7' = x7
    BY <1>1 DEF Entrance!Mount
  <2>2. x1' \in Tabs /\ x1'.mounted /\ (x1'.hidden <=> x1.hidden)
    <3> DEFINE n == x1.visits + 1
    <3>1. n \in Nat /\ x1' = [x1 EXCEPT !.mounted = TRUE, !.visits = n]
      BY <1>0, <2>1
    <3> HIDE DEF n
    <3> QED
      BY <1>0, <3>1
  <2>3. x2.listeners = 0 /\ ~x2.timer
    BY <2>1 DEF LobbyInv
  <2>4. x2' \in Polls /\ x2'.listeners = 1 /\ (x2'.timer <=> ~x1.hidden)
    <3> DEFINE b == x2.timer \/ ~x1.hidden
    <3>1. b \in BOOLEAN /\ (b <=> ~x1.hidden) /\ x2' = [timer |-> b, listeners |-> 1]
      BY <2>1, <2>3
    <3> HIDE DEF b
    <3> QED
      BY <3>1
  <2> QED
    BY <2>1, <2>2, <2>4 DEF LobbyInv
<1>2. CASE Entrance!Unmount
  BY <1>0, <1>2, <1>b DEF Entrance!Unmount
<1>3. CASE Entrance!Hide
  <2>1. /\ x1' = [x1 EXCEPT !.hidden = TRUE] /\ x6' = x6 /\ x7' = x7
        /\ x2' = (IF x2.listeners = 0 THEN x2 ELSE [x2 EXCEPT !.timer = FALSE])
    BY <1>3 DEF Entrance!Hide
  <2>2. x1' \in Tabs /\ (x1'.mounted <=> x1.mounted) /\ x1'.hidden
    BY <1>0, <2>1
  <2>3. x2' \in Polls /\ x2'.listeners = x2.listeners /\ (x2'.timer => x2.listeners = 0 /\ x2.timer)
    BY <1>0, <2>1
  <2>4. ~x2'.timer
    BY <2>3 DEF LobbyInv
  <2> QED
    BY <2>1, <2>2, <2>3, <2>4 DEF LobbyInv
<1>4. CASE Entrance!Show
  <2>1. /\ x1' = [x1 EXCEPT !.hidden = FALSE] /\ x6' = x6 /\ x7' = x7
        /\ x2' = (IF x2.listeners = 0 THEN x2 ELSE [x2 EXCEPT !.timer = TRUE])
    BY <1>4 DEF Entrance!Show
  <2>2. x1' \in Tabs /\ (x1'.mounted <=> x1.mounted) /\ ~x1'.hidden
    BY <1>0, <2>1
  <2>3. x2' \in Polls /\ x2'.listeners = x2.listeners /\ (x2'.timer <=> x2.timer \/ x2.listeners # 0)
    BY <1>0, <2>1
  <2>4. x2'.timer <=> x1.mounted
    BY <2>3 DEF LobbyInv
  <2> QED
    BY <2>1, <2>2, <2>3, <2>4 DEF LobbyInv
<1>5. CASE Entrance!Tick \/ Entrance!Read \/ \E n : Entrance!Answer(n)
  BY <1>5 DEF LobbyInv, Entrance!Tick, Entrance!Read, Entrance!Answer
<1>6. CASE Entrance!Open \/ Entrance!Fill
  <2>1. UNCHANGED <<x1, x2, x7>> /\ x1.mounted
    BY <1>6 DEF LobbyInv, Entrance!Open, Entrance!Fill
  <2>2. x6' \in Forms /\ x6'.open
    BY <1>0, <1>6 DEF Entrance!Open, Entrance!Fill, Entrance!ClosedForm
  <2> QED
    BY <2>1, <2>2 DEF LobbyInv
<1>7. CASE Entrance!Cancel
  <2>1. UNCHANGED <<x1, x2>> /\ x6' = Entrance!ClosedForm /\ x7' = Entrance!Lost(x7)
    BY <1>7 DEF Entrance!Cancel
  <2>2. x6' \in Forms /\ ~x6'.open /\ x7' \in Posts /\ x7'.its = 0
    BY <1>0, <1>a, <2>1
  <2> QED
    BY <2>1, <2>2 DEF LobbyInv
<1>8. CASE Entrance!Press \/ Entrance!Enter
  <2>1. /\ UNCHANGED <<x1, x2>> /\ x6.open /\ x6' = [x6 EXCEPT !.busy = TRUE]
        /\ x7' = [x7 EXCEPT !.its = x7.its + 1]
    BY <1>8 DEF Entrance!Press, Entrance!Enter, Entrance!Send
  <2>2. x6' \in Forms /\ x6'.open
    BY <1>0, <2>1
  <2>3. x7' \in Posts
    <3>1. x7.its + 1 \in Nat
      BY <1>0
    <3> QED
      BY <1>0, <2>1, <3>1
  <2> QED
    BY <2>1, <2>2, <2>3 DEF LobbyInv
<1>9. CASE Entrance!Created
  <2>1. x7.its > 0 /\ x6.open /\ x1.mounted
    BY <1>9 DEF LobbyInv, Entrance!Created
  <2>2. [x7 EXCEPT !.its = x7.its - 1] \in Posts
    BY <1>0, <2>1
  <2>3. CASE /\ x1' = [x1 EXCEPT !.mounted = FALSE] /\ x2' = Entrance!StopPolling(x2)
             /\ x6' = Entrance!ClosedForm /\ x7' = Entrance!Lost([x7 EXCEPT !.its = x7.its - 1])
    BY <1>b, <2>1, <2>2, <2>3
  <2>4. CASE /\ x6' = [x6 EXCEPT !.busy = FALSE] /\ x7' = [x7 EXCEPT !.its = x7.its - 1] /\ UNCHANGED <<x1, x2>>
    <3>1. x6' \in Forms /\ x6'.open
      BY <1>0, <2>1, <2>4
    <3> QED
      BY <2>1, <2>2, <2>4, <3>1 DEF LobbyInv
  <2> QED
    BY <1>9, <2>3, <2>4 DEF Entrance!Created
<1>10. CASE Entrance!CreatedForNobody
  <2>1. UNCHANGED <<x1, x2, x6>> /\ x7.lost > 0 /\ x7' = [x7 EXCEPT !.lost = x7.lost - 1]
    BY <1>10 DEF Entrance!CreatedForNobody
  <2>2. x7' \in Posts /\ x7'.its = x7.its
    BY <1>0, <2>1
  <2> QED
    BY <2>1, <2>2 DEF LobbyInv
<1> QED
  BY <1>1, <1>2, <1>3, <1>4, <1>5, <1>6, <1>7, <1>8, <1>9, <1>10 DEF Entrance!NextLobby

\* The lobby of the page polls while it is in sight and no longer (LobbyView.vue): its timer
\* runs exactly while it is mounted and the tab is shown, whatever dialog is open, whatever
\* answer arrives after it was left, and one listener of the tab's visibility is all it holds.
THEOREM LobbyKeepsPolling == PageSpec => []LobbyPolls
<1> DEFINE inv == part = "lobby" => LobbyInv
<1>1. PageInit => inv
  BY LobbyInit DEF PageInit
<1>2. inv /\ [PageNext]_<<own, spare, part>> => inv'
  <2> SUFFICES ASSUME inv, [PageNext]_<<own, spare, part>>, part' = "lobby" PROVE LobbyInv'
    OBVIOUS
  <2>1. part = "lobby"
    BY DEF PageNext
  <2>2. CASE Entrance!NextLobby
    BY <2>1, <2>2, LobbyStep
  <2>3. CASE UNCHANGED <<own, spare, part>>
    BY <2>1, <2>3 DEF LobbyInv, spare
  <2> QED
    BY <2>1, <2>2, <2>3 DEF PageNext
<1>3. inv => LobbyPolls
  BY LobbyIsPolled DEF LobbyPolls
<1> QED
  BY <1>1, <1>2, <1>3, PTL DEF PageSpec

-----------------------------------------------------------------------------
(* The questions, in their part of the page *)

IsSequence(s) == \E S : s \in Seq(S)

\* Questions are numbered as they are asked, and one that was answered waits no more.  A prompt that
\* is not crossed is the first prompt to wait, and the shared draft is what its own field holds.
Waiting(queue) ==
  /\ IsSequence(queue)
  /\ \A i \in 1..Len(queue) : {"n", "variant", "crossed"} \subseteq DOMAIN queue[i]
  /\ \A i, j \in 1..Len(queue) : i < j => queue[i].n < queue[j].n

QuestionsInv ==
  /\ Waiting(x1) /\ IsSequence(x3)
  /\ \A i \in 1..Len(x1) : x1[i].n \in 1..Len(x3)
  /\ \A i \in 1..Len(x1) : x1[i].variant = "prompt" /\ ~x1[i].crossed =>
       /\ x2 = x3[x1[i].n]
       /\ \A j \in 1..Len(x1) : j < i => x1[j].variant # "prompt"
  /\ \A a \in x4 : /\ a.n \in 1..Len(x3)
                   /\ \A i \in 1..Len(x1) : a.n < x1[i].n
                   /\ a.ok /\ ~a.crossed => a.got = x3[a.n]

LEMMA AppendKeeps ==
  ASSUME NEW s, IsSequence(s), NEW e
  PROVE  /\ IsSequence(Append(s, e)) /\ Len(s) \in Nat /\ Len(Append(s, e)) = Len(s) + 1
         /\ \A i \in 1..Len(s) : Append(s, e)[i] = s[i]
         /\ Append(s, e)[Len(s) + 1] = e
<1>1. PICK S : s \in Seq(S)
  BY DEF IsSequence
<1>2. s \in Seq(S \cup {e}) /\ e \in S \cup {e}
  <2>1. \A i \in 1..Len(s) : s[i] \in S \cup {e}
    BY <1>1
  <2> QED
    BY <1>1, <2>1, SeqDef
<1>3. /\ Append(s, e) \in Seq(S \cup {e}) /\ Len(s) \in Nat /\ Len(Append(s, e)) = Len(s) + 1
      /\ \A i \in 1..Len(s) : Append(s, e)[i] = s[i]
      /\ Append(s, e)[Len(s) + 1] = e
  BY <1>2, AppendProperties
<1> QED
  BY <1>3 DEF IsSequence

LEMMA TailKeeps ==
  ASSUME NEW s, IsSequence(s), s # << >>
  PROVE  /\ IsSequence(Tail(s)) /\ Len(s) \in Nat \ {0} /\ Len(Tail(s)) = Len(s) - 1
         /\ \A i \in 1..(Len(s) - 1) : Tail(s)[i] = s[i + 1]
         /\ Head(s) = s[1]
<1>1. PICK S : s \in Seq(S)
  BY DEF IsSequence
<1>2. /\ Tail(s) \in Seq(S) /\ Len(s) \in Nat \ {0} /\ Len(Tail(s)) = Len(s) - 1
      /\ \A i \in 1..(Len(s) - 1) : Tail(s)[i] = s[i + 1]
      /\ Head(s) = s[1]
  BY <1>1
<1> QED
  BY <1>2 DEF IsSequence

LEMMA ExceptKeeps ==
  ASSUME NEW s, IsSequence(s), NEW n \in 1..Len(s), NEW e
  PROVE  /\ IsSequence([s EXCEPT ![n] = e]) /\ Len([s EXCEPT ![n] = e]) = Len(s)
         /\ [s EXCEPT ![n] = e][n] = e
         /\ \A i \in 1..Len(s) : i # n => [s EXCEPT ![n] = e][i] = s[i]
<1>1. PICK S : s \in Seq(S)
  BY DEF IsSequence
<1>2. s \in Seq(S \cup {e}) /\ e \in S \cup {e} /\ Len(s) \in Nat /\ DOMAIN s = 1..Len(s)
  <2>1. \A i \in 1..Len(s) : s[i] \in S \cup {e}
    BY <1>1
  <2> QED
    BY <1>1, <2>1, SeqDef
<1>3. [s EXCEPT ![n] = e] \in Seq(S \cup {e}) /\ Len([s EXCEPT ![n] = e]) = Len(s)
  BY <1>2, ExceptSeq
<1>4. [s EXCEPT ![n] = e][n] = e /\ \A i \in 1..Len(s) : i # n => [s EXCEPT ![n] = e][i] = s[i]
  BY <1>2
<1> QED
  BY <1>3, <1>4 DEF IsSequence

\* What a prompt that is asked does to those that wait.
LEMMA CrossedKeeps ==
  ASSUME Waiting(x1), NEW variant
  PROVE  LET crossed == Questions!Crossed(variant) IN
         /\ IsSequence(crossed) /\ Len(crossed) = Len(x1) /\ Len(x1) \in Nat
         /\ \A i \in 1..Len(x1) : /\ {"n", "variant", "crossed"} \subseteq DOMAIN crossed[i]
                                  /\ crossed[i].n = x1[i].n /\ crossed[i].variant = x1[i].variant
                                  /\ crossed[i].crossed <=> (x1[i].crossed \/ variant = "prompt")
<1> DEFINE F(i) == [x1[i] EXCEPT !.crossed = @ \/ variant = "prompt"]
           crossed == Questions!Crossed(variant)
<1>1. PICK S : x1 \in Seq(S)
  BY DEF Waiting, IsSequence
<1>2. DOMAIN x1 = 1..Len(x1) /\ Len(x1) \in Nat
  BY <1>1
<1>3. crossed = [i \in 1..Len(x1) |-> F(i)]
  BY <1>2 DEF Questions!Crossed
<1>4. ASSUME NEW i \in 1..Len(x1)
      PROVE  /\ {"n", "variant", "crossed"} \subseteq DOMAIN F(i)
             /\ F(i).n = x1[i].n /\ F(i).variant = x1[i].variant
             /\ F(i).crossed <=> (x1[i].crossed \/ variant = "prompt")
  BY DEF Waiting
<1> HIDE DEF F, crossed
<1> DEFINE T == {F(i) : i \in 1..Len(x1)}
<1>5. \A i \in 1..Len(x1) : F(i) \in T
  OBVIOUS
<1> HIDE DEF T
<1>6. crossed \in Seq(T) /\ Len(crossed) = Len(x1)
  <2>1. crossed \in [1..Len(x1) -> T]
    BY <1>3, <1>5
  <2> QED
    BY <1>2, <2>1, SeqDef, LenProperties
<1>7. \A i \in 1..Len(x1) : crossed[i] = F(i)
  BY <1>3
<1> QED
  BY <1>2, <1>4, <1>6, <1>7 DEF IsSequence, crossed

\* A question joins the queue at its end.
LEMMA AskKeeps ==
  ASSUME QuestionsInv, NEW variant, NEW about, NEW slot, NEW preset, NEW default,
         Questions!Ask(variant, about, slot, preset, default), x4' = x4
  PROVE  QuestionsInv'
<1> DEFINE before == Questions!Crossed(variant)
           amid == variant = "prompt" /\ \E i \in DOMAIN x1 : x1[i].variant = "prompt"
           q == [n |-> Len(x3) + 1, variant |-> variant, about |-> about, slot |-> slot, preset |-> preset,
                 crossed |-> amid]
<1>1. /\ x1' = Append(before, q) /\ x3' = Append(x3, default)
      /\ x2' = (IF variant = "prompt" THEN default ELSE x2)
  BY DEF Questions!Ask, Questions!DraftAsked
<1>2. /\ q.n = Len(x3) + 1 /\ q.variant = variant /\ (q.crossed <=> amid)
      /\ {"n", "variant", "crossed"} \subseteq DOMAIN q
  OBVIOUS
<1>3. Waiting(x1) /\ IsSequence(x3)
  BY DEF QuestionsInv
<1>4. /\ IsSequence(before) /\ Len(before) = Len(x1) /\ Len(x1) \in Nat
      /\ \A i \in 1..Len(x1) : /\ {"n", "variant", "crossed"} \subseteq DOMAIN before[i]
                               /\ before[i].n = x1[i].n /\ before[i].variant = x1[i].variant
                               /\ before[i].crossed <=> (x1[i].crossed \/ variant = "prompt")
  BY <1>3, CrossedKeeps
<1>5. amid <=> variant = "prompt" /\ \E i \in 1..Len(x1) : x1[i].variant = "prompt"
  <2>1. PICK S : x1 \in Seq(S)
    BY <1>3 DEF Waiting, IsSequence
  <2> QED
    BY <2>1
<1> HIDE DEF q, before, amid
<1>6. /\ IsSequence(x1') /\ Len(x1') = Len(x1) + 1
      /\ \A i \in 1..Len(x1) : x1'[i] = before[i]
      /\ x1'[Len(x1) + 1] = q
  BY <1>1, <1>4, AppendKeeps
<1>7. /\ IsSequence(x3') /\ Len(x3) \in Nat /\ Len(x3') = Len(x3) + 1
      /\ \A i \in 1..Len(x3) : x3'[i] = x3[i]
      /\ x3'[Len(x3) + 1] = default
  BY <1>1, <1>3, AppendKeeps
<1>8. \A i \in 1..Len(x1') : i \in 1..Len(x1) \/ i = Len(x1) + 1
  BY <1>4, <1>6
<1>9. \A i \in 1..Len(x1) : /\ x1'[i].n = x1[i].n /\ x1'[i].variant = x1[i].variant
                            /\ x1'[i].crossed <=> (x1[i].crossed \/ variant = "prompt")
  BY <1>4, <1>6
<1>10. \A i \in 1..Len(x1') : x1'[i].n \in 1..Len(x3')
  <2>1. Len(x3) + 1 \in 1..Len(x3')
    BY <1>7
  <2>2. \A i \in 1..Len(x1) : x1[i].n \in 1..Len(x3')
    BY <1>7 DEF QuestionsInv
  <2> QED
    BY <1>2, <1>6, <1>8, <1>9, <2>1, <2>2
<1>11. Waiting(x1')
  <2>1. \A i \in 1..Len(x1') : {"n", "variant", "crossed"} \subseteq DOMAIN x1'[i]
    BY <1>2, <1>4, <1>6, <1>8
  <2>2. ASSUME NEW i \in 1..Len(x1'), NEW j \in 1..Len(x1'), i < j PROVE x1'[i].n < x1'[j].n
    <3>1. i \in 1..Len(x1) /\ x1[i].n \in 1..Len(x3)
      BY <1>4, <1>6, <2>2 DEF QuestionsInv
    <3>2. CASE j \in 1..Len(x1)
      BY <1>3, <1>9, <2>2, <3>1, <3>2 DEF Waiting
    <3>3. CASE j = Len(x1) + 1
      BY <1>2, <1>6, <1>7, <1>9, <3>1, <3>3
    <3> QED
      BY <1>8, <3>2, <3>3
  <2> QED
    BY <1>6, <2>1, <2>2 DEF Waiting
<1>12. ASSUME NEW i \in 1..Len(x1'), x1'[i].variant = "prompt", ~x1'[i].crossed
       PROVE  x2' = x3'[x1'[i].n] /\ \A j \in 1..Len(x1') : j < i => x1'[j].variant # "prompt"
  <2>1. CASE i \in 1..Len(x1)
    <3>1. variant # "prompt" /\ x1[i].variant = "prompt" /\ ~x1[i].crossed
      BY <1>9, <1>12, <2>1
    <3>2. /\ x2 = x3[x1[i].n] /\ x1[i].n \in 1..Len(x3)
          /\ \A j \in 1..Len(x1) : j < i => x1[j].variant # "prompt"
      BY <2>1, <3>1 DEF QuestionsInv
    <3>3. x2' = x3'[x1'[i].n]
      BY <1>1, <1>7, <1>9, <2>1, <3>1, <3>2
    <3>4. \A j \in 1..Len(x1') : j < i => j \in 1..Len(x1)
      BY <1>4, <1>6, <2>1
    <3> QED
      BY <1>9, <3>2, <3>3, <3>4
  <2>2. CASE i = Len(x1) + 1
    <3>1. variant = "prompt" /\ ~amid
      BY <1>2, <1>6, <1>12, <2>2
    <3>2. x2' = x3'[x1'[i].n]
      BY <1>1, <1>2, <1>6, <1>7, <2>2, <3>1
    <3>3. \A j \in 1..Len(x1') : j < i => j \in 1..Len(x1)
      BY <1>4, <1>6, <2>2
    <3> QED
      BY <1>5, <1>9, <3>1, <3>2, <3>3
  <2> QED
    BY <1>8, <2>1, <2>2
<1>13. ASSUME NEW a \in x4
       PROVE  /\ a.n \in 1..Len(x3')
              /\ \A i \in 1..Len(x1') : a.n < x1'[i].n
              /\ a.ok /\ ~a.crossed => a.got = x3'[a.n]
  <2>1. /\ a.n \in 1..Len(x3) /\ \A i \in 1..Len(x1) : a.n < x1[i].n
        /\ a.ok /\ ~a.crossed => a.got = x3[a.n]
    BY DEF QuestionsInv
  <2>2. a.n \in 1..Len(x3') /\ a.n < Len(x3) + 1 /\ x3'[a.n] = x3[a.n]
    BY <1>7, <2>1
  <2>3. \A i \in 1..Len(x1') : a.n < x1'[i].n
    BY <1>2, <1>6, <1>8, <1>9, <2>1, <2>2
  <2> QED
    BY <2>1, <2>2, <2>3
<1> QED
  BY <1>7, <1>10, <1>11, <1>12, <1>13 DEF QuestionsInv

\* What is typed goes into the field of the question that is shown.
LEMMA TypeKeeps ==
  ASSUME QuestionsInv, NEW word, Questions!Type(word)
  PROVE  QuestionsInv'
<1>1. /\ x1 # << >> /\ Head(x1).variant = "prompt" /\ x2' = word
      /\ x3' = [x3 EXCEPT ![Head(x1).n] = word] /\ x1' = [x1 EXCEPT ![1] = [x1[1] EXCEPT !.crossed = FALSE]]
      /\ x4' = x4
  BY DEF Questions!Type, Questions!Quiet
<1>2. Waiting(x1) /\ IsSequence(x1) /\ IsSequence(x3)
  BY DEF QuestionsInv, Waiting
<1>3. Head(x1) = x1[1] /\ 1 \in 1..Len(x1)
  BY <1>1, <1>2, TailKeeps
<1> DEFINE n == x1[1].n
           first == [x1[1] EXCEPT !.crossed = FALSE]
<1>4. n \in 1..Len(x3) /\ Len(x3) \in Nat /\ Len(x1) \in Nat
  BY <1>2, <1>3, AppendKeeps DEF QuestionsInv
<1>5. /\ IsSequence(x3') /\ Len(x3') = Len(x3) /\ x3'[n] = word
      /\ \A i \in 1..Len(x3) : i # n => x3'[i] = x3[i]
  <2>1. x3' = [x3 EXCEPT ![n] = word]
    BY <1>1, <1>3
  <2> HIDE DEF n
  <2> DEFINE typed == [x3 EXCEPT ![n] = word]
  <2>2. /\ IsSequence(typed) /\ Len(typed) = Len(x3) /\ typed[n] = word
        /\ \A i \in 1..Len(x3) : i # n => typed[i] = x3[i]
    BY <1>2, <1>4, ExceptKeeps
  <2> HIDE DEF typed
  <2> QED
    BY <2>1, <2>2 DEF typed
<1>6. /\ IsSequence(x1') /\ Len(x1') = Len(x1) /\ x1'[1] = first
      /\ \A i \in 1..Len(x1) : i # 1 => x1'[i] = x1[i]
  <2>1. x1' = [x1 EXCEPT ![1] = first]
    BY <1>1
  <2> HIDE DEF first
  <2> DEFINE typed == [x1 EXCEPT ![1] = first]
  <2>2. /\ IsSequence(typed) /\ Len(typed) = Len(x1) /\ typed[1] = first
        /\ \A i \in 1..Len(x1) : i # 1 => typed[i] = x1[i]
    BY <1>2, <1>3, ExceptKeeps
  <2> HIDE DEF typed
  <2> QED
    BY <2>1, <2>2 DEF typed
<1>7. /\ {"n", "variant", "crossed"} \subseteq DOMAIN first /\ first.n = n /\ first.variant = "prompt"
      /\ x1[1].variant = "prompt"
  BY <1>1, <1>2, <1>3 DEF Waiting
<1> HIDE DEF n, first
<1>8. \A i \in 1..Len(x1) : x1'[i].n = x1[i].n /\ x1'[i].variant = x1[i].variant
  BY <1>6, <1>7 DEF n
<1>9. Waiting(x1')
  BY <1>2, <1>6, <1>7, <1>8 DEF Waiting
<1>10. ASSUME NEW i \in 1..Len(x1), x1'[i].variant = "prompt", ~x1'[i].crossed
       PROVE  x2' = x3'[x1'[i].n] /\ \A j \in 1..Len(x1) : j < i => x1'[j].variant # "prompt"
  <2>1. i = 1
    <3> SUFFICES ASSUME i # 1 PROVE FALSE
      OBVIOUS
    <3>1. x1[i].variant = "prompt" /\ ~x1[i].crossed /\ 1 < i
      BY <1>4, <1>6, <1>10
    <3> QED
      BY <1>3, <1>7, <3>1 DEF QuestionsInv
  <2> QED
    BY <1>1, <1>4, <1>5, <1>6, <1>7, <2>1
<1>11. \A a \in x4 : a.n \in 1..Len(x3) /\ a.n < n /\ x3'[a.n] = x3[a.n]
  BY <1>3, <1>4, <1>5 DEF QuestionsInv, n
<1>12. \A i \in 1..Len(x1') : x1'[i].n \in 1..Len(x3')
  BY <1>5, <1>6, <1>8 DEF QuestionsInv
<1>13. \A a \in x4 : /\ a.n \in 1..Len(x3') /\ \A i \in 1..Len(x1') : a.n < x1'[i].n
                     /\ a.ok /\ ~a.crossed => a.got = x3'[a.n]
  BY <1>5, <1>6, <1>8, <1>11 DEF QuestionsInv
<1> QED
  BY <1>1, <1>5, <1>6, <1>9, <1>10, <1>12, <1>13 DEF QuestionsInv

\* The first question is answered, and the next one shown.
LEMMA ResolveKeeps ==
  ASSUME QuestionsInv, NEW ok, Questions!Resolve(ok)
  PROVE  QuestionsInv'
<1> DEFINE q == Head(x1)
           answer == [n |-> q.n, ok |-> ok, got |-> x2, crossed |-> q.crossed]
<1>1. /\ x1 # << >> /\ x1' = Tail(x1) /\ x2' = x2 /\ x3' = x3
      /\ x4' = (IF q.variant = "prompt" THEN x4 \cup {answer} ELSE x4)
  BY DEF Questions!Resolve
<1>2. Waiting(x1) /\ IsSequence(x1) /\ IsSequence(x3)
  BY DEF QuestionsInv, Waiting
<1>3. /\ IsSequence(Tail(x1)) /\ Len(x1) \in Nat \ {0} /\ Len(Tail(x1)) = Len(x1) - 1
      /\ \A i \in 1..(Len(x1) - 1) : Tail(x1)[i] = x1[i + 1]
      /\ q = x1[1]
  BY <1>1, <1>2, TailKeeps
<1>4. /\ Len(x1') = Len(x1) - 1 /\ 1 \in 1..Len(x1)
      /\ \A i \in 1..Len(x1') : i + 1 \in 1..Len(x1) /\ x1'[i] = x1[i + 1]
  BY <1>1, <1>3
<1>5. answer.n = q.n /\ answer.ok = ok /\ answer.got = x2 /\ (answer.crossed = q.crossed)
  OBVIOUS
<1> HIDE DEF q, answer
<1>6. \A i \in 1..Len(x1') : x1'[i].n \in 1..Len(x3') /\ q.n < x1'[i].n
  <2>1. \A i \in 1..Len(x1') : 1 < i + 1
    BY <1>3, <1>4
  <2> QED
    BY <1>1, <1>2, <1>3, <1>4, <2>1 DEF QuestionsInv, Waiting
<1>7. Waiting(x1')
  <2>1. \A i, j \in 1..Len(x1') : i < j => i + 1 < j + 1
    BY <1>3, <1>4
  <2> QED
    BY <1>1, <1>2, <1>3, <1>4, <2>1 DEF Waiting
<1>8. ASSUME NEW i \in 1..Len(x1'), x1'[i].variant = "prompt", ~x1'[i].crossed
      PROVE  x2' = x3'[x1'[i].n] /\ \A j \in 1..Len(x1') : j < i => x1'[j].variant # "prompt"
  <2>1. \A j \in 1..Len(x1') : j < i => j + 1 < i + 1
    BY <1>3, <1>4
  <2> QED
    BY <1>1, <1>4, <1>8, <2>1 DEF QuestionsInv
<1>9. \A a \in x4 : /\ a.n \in 1..Len(x3') /\ \A i \in 1..Len(x1') : a.n < x1'[i].n
                    /\ a.ok /\ ~a.crossed => a.got = x3'[a.n]
  BY <1>1, <1>4 DEF QuestionsInv
<1>10. q.variant = "prompt" =>
         /\ answer.n \in 1..Len(x3') /\ (~answer.crossed => answer.got = x3'[answer.n])
         /\ \A i \in 1..Len(x1') : answer.n < x1'[i].n
  BY <1>1, <1>3, <1>4, <1>5, <1>6 DEF QuestionsInv
<1> QED
  BY <1>1, <1>2, <1>6, <1>7, <1>8, <1>9, <1>10 DEF QuestionsInv

LEMMA QuestionsStep ==
  ASSUME QuestionsInv, Questions!NextDialogs
  PROVE  QuestionsInv'
<1>1. ASSUME UNCHANGED <<x1, x2, x3, x4>> PROVE QuestionsInv'
  BY <1>1 DEF QuestionsInv, Waiting
<1>3. CASE \E t \in Slot : Questions!AskRemove(t)
  BY <1>3, AskKeeps DEF Questions!AskRemove, Questions!Quiet
<1>4. CASE Questions!AskReset \/ Questions!LoadFails
  BY <1>4, AskKeeps DEF Questions!AskReset, Questions!LoadFails, Questions!Quiet
<1>5. CASE Questions!AskSave
  BY <1>5, AskKeeps DEF Questions!AskSave, Questions!Quiet
<1>6. ASSUME NEW p \in Preset, Questions!AskRename(p) \/ Questions!AskDelete(p) \/ Questions!Toggle(p)
      PROVE  QuestionsInv'
  <2>1. CASE Questions!AskRename(p)
    BY <2>1, AskKeeps DEF Questions!AskRename, Questions!Quiet
  <2>2. CASE Questions!AskDelete(p)
    BY <2>2, AskKeeps DEF Questions!AskDelete, Questions!Quiet
  <2>3. CASE Questions!Toggle(p)
    BY <1>1, <2>3 DEF Questions!Toggle
  <2> QED
    BY <1>6, <2>1, <2>2, <2>3
<1>7. CASE \E word \in Word : Questions!Type(word)
  BY <1>7, TypeKeeps
<1>8. CASE (\E ok \in BOOLEAN : Questions!Press(ok)) \/ Questions!Escape
  BY <1>8, ResolveKeeps DEF Questions!Press, Questions!Escape
<1>9. ASSUME NEW c \in x9, Questions!Serve(c) \/ Questions!Answered(c) \/ Questions!Failed(c)
      PROVE  QuestionsInv'
  <2>1. CASE Questions!Serve(c) \/ Questions!Answered(c)
    BY <1>1, <2>1 DEF Questions!Serve, Questions!Answered
  <2>2. CASE Questions!Failed(c)
    <3>1. x4' = x4 /\ (Questions!Ask("alert", "told", NoSlot, NoSlot, Blank) \/ UNCHANGED <<x1, x2, x3>>)
      BY <2>2 DEF Questions!Failed
    <3> QED
      BY <1>1, <3>1, AskKeeps
  <2> QED
    BY <1>9, <2>1, <2>2
<1>10. CASE (\E t \in Slot \cup {NoSlot} : Questions!Refocus(t)) \/ Questions!OpenLibrary \/ Questions!CloseLibrary
  BY <1>1, <1>10 DEF Questions!Refocus, Questions!OpenLibrary, Questions!CloseLibrary
<1> QED
  BY <1>3, <1>4, <1>5, <1>6, <1>7, <1>8, <1>9, <1>10 DEF Questions!NextDialogs

LEMMA QuestionsInit == Questions!InitDialogs => QuestionsInv
<1> SUFFICES ASSUME Questions!InitDialogs PROVE QuestionsInv
  OBVIOUS
<1>1. x1 = << >> /\ x3 = << >> /\ x4 = {}
  BY DEF Questions!InitDialogs
<1>2. << >> \in Seq({}) /\ Len(<< >>) = 0
  OBVIOUS
<1> QED
  BY <1>1, <1>2 DEF QuestionsInv, Waiting, IsSequence

\* What a prompt hands its asker was written in its own field (DialogHost.vue, useDialog.ts), or
\* is the default it came with, however questions, alerts and escapes queue up; unless another
\* prompt waited with it and nobody typed in it since.
THEOREM AnswersStayApart == PageSpec => []AnswersKeepApart
<1> DEFINE inv == part = "questions" => QuestionsInv
<1>1. PageInit => inv
  BY QuestionsInit DEF PageInit
<1>2. inv /\ [PageNext]_<<own, spare, part>> => inv'
  <2> SUFFICES ASSUME inv, [PageNext]_<<own, spare, part>>, part' = "questions" PROVE QuestionsInv'
    OBVIOUS
  <2>1. part = "questions"
    BY DEF PageNext
  <2>2. CASE Questions!NextDialogs
    BY <2>1, <2>2, QuestionsStep
  <2>3. CASE UNCHANGED <<own, spare, part>>
    BY <2>1, <2>3 DEF QuestionsInv, Waiting, spare
  <2> QED
    BY <2>1, <2>2, <2>3 DEF PageNext
<1>3. inv => AnswersKeepApart
  BY DEF QuestionsInv, AnswersKeepApart, Questions!AnswersAreOnesOwn
<1> QED
  BY <1>1, <1>2, <1>3, PTL DEF PageSpec

=============================================================================
