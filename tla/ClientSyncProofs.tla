--------------------------- MODULE ClientSyncProofs ---------------------------
(***************************************************************************)
(* Proofs about the tabs of a room: no edit is lost, for any number of        *)
(* clients and paths, whatever drops, reloads, restarts and refusals it meets, *)
(* and whatever becomes of the loads of whole projects beside it.              *)
(***************************************************************************)
EXTENDS BulkLoad, FiniteSetTheorems, SequenceTheorems, WellFoundedInduction, TLAPS

-----------------------------------------------------------------------------
(* Numbers and sequences *)

LEMMA LeastNumber ==
  ASSUME NEW S \in SUBSET Nat, S # {}
  PROVE  \E x \in S : \A y \in S : x <= y
<1>1. PICK x \in S : \A y \in S : ~(<<y, x>> \in OpToRel(<, Nat))
  BY NatLessThanWellFounded, WFMin
<1>2. \A y \in S : ~(y < x)
  BY <1>1 DEF OpToRel
<1> QED
  BY <1>2

LEMMA GreatestNumber ==
  ASSUME NEW S \in SUBSET Nat, S # {}, NEW b \in Nat, \A x \in S : x <= b
  PROVE  \E x \in S : \A y \in S : y <= x
<1> DEFINE T == {b - x : x \in S}
<1>1. T \in SUBSET Nat /\ T # {}
  <2>1. \A x \in S : b - x \in Nat
    OBVIOUS
  <2> QED
    BY <2>1
<1>2. PICK z \in T : \A y \in T : z <= y
  BY <1>1, LeastNumber
<1>3. PICK x \in S : z = b - x
  OBVIOUS
<1>4. \A y \in S : b - y \in T
  OBVIOUS
<1> HIDE DEF T
<1>5. \A y \in S : b - x <= b - y
  BY <1>2, <1>3, <1>4
<1> QED
  BY <1>3, <1>5

\* What is in a sequence that has been made longer or shorter.
LEMMA Joined ==
  ASSUME NEW S, NEW s \in Seq(S), NEW u \in Seq(S)
  PROVE  /\ s \o u \in Seq(S) /\ Len(s \o u) = Len(s) + Len(u)
         /\ \A i \in 1..Len(s \o u) :
              \/ i \in 1..Len(s) /\ (s \o u)[i] = s[i]
              \/ \E j \in 1..Len(u) : i = Len(s) + j /\ (s \o u)[i] = u[j]
<1>1. Len(s) \in Nat /\ Len(u) \in Nat /\ s \o u \in Seq(S) /\ Len(s \o u) = Len(s) + Len(u)
  BY ConcatProperties
<1>2. ASSUME NEW i \in 1..Len(s \o u)
      PROVE  \/ i \in 1..Len(s) /\ (s \o u)[i] = s[i]
             \/ \E j \in 1..Len(u) : i = Len(s) + j /\ (s \o u)[i] = u[j]
  <2>1. i \in 1..(Len(s) + Len(u))
    BY <1>1
  <2>2. (s \o u)[i] = IF i <= Len(s) THEN s[i] ELSE u[i - Len(s)]
    BY <2>1
  <2>3. CASE i <= Len(s)
    BY <1>1, <2>1, <2>2, <2>3
  <2>4. CASE i > Len(s)
    <3>1. i - Len(s) \in 1..Len(u) /\ i = Len(s) + (i - Len(s)) /\ ~(i <= Len(s))
      BY <1>1, <2>1, <2>4
    <3> QED
      BY <2>2, <3>1
  <2> QED
    BY <1>1, <2>1, <2>3, <2>4
<1> QED
  BY <1>1, <1>2

LEMMA RequestsJoined ==
  ASSUME NEW s \in Seq(Request), NEW u \in Seq(Request)
  PROVE  \A i \in 1..Len(s \o u) :
              \/ i \in 1..Len(s) /\ (s \o u)[i] = s[i]
              \/ \E j \in 1..Len(u) : i = Len(s) + j /\ (s \o u)[i] = u[j]
BY Joined

LEMMA RepliesJoined ==
  ASSUME NEW s \in Seq(Reply), NEW u \in Seq(Reply)
  PROVE  /\ s \o u \in Seq(Reply) /\ Len(s \o u) = Len(s) + Len(u)
         /\ \A i \in 1..Len(s \o u) :
              \/ i \in 1..Len(s) /\ (s \o u)[i] = s[i]
              \/ \E j \in 1..Len(u) : i = Len(s) + j /\ (s \o u)[i] = u[j]
BY Joined

LEMMA Appended ==
  ASSUME NEW S, NEW s \in Seq(S), NEW x \in S
  PROVE  /\ Append(s, x) \in Seq(S) /\ Len(Append(s, x)) = Len(s) + 1
         /\ \A i \in 1..Len(Append(s, x)) :
              \/ i \in 1..Len(s) /\ Append(s, x)[i] = s[i]
              \/ i = Len(s) + 1 /\ Append(s, x)[i] = x
<1>1. Len(s) \in Nat
  OBVIOUS
<1> QED
  BY <1>1, AppendProperties

LEMMA Shortened ==
  ASSUME NEW S, NEW s \in Seq(S), s # <<>>
  PROVE  /\ Head(s) \in S /\ Tail(s) \in Seq(S) /\ 1 \in 1..Len(s) /\ Head(s) = s[1]
         /\ Len(Tail(s)) = Len(s) - 1
         /\ \A i \in 1..Len(Tail(s)) : i + 1 \in 1..Len(s) /\ Tail(s)[i] = s[i + 1]
<1>1. Len(s) \in Nat /\ Len(s) # 0
  OBVIOUS
<1> QED
  BY <1>1, HeadTailProperties

LEMMA SequenceOfSet ==
  ASSUME NEW S, IsFiniteSet(S)
  PROVE  /\ SetToSeq(S) \in Seq(S)
         /\ \A i, j \in 1..Len(SetToSeq(S)) : SetToSeq(S)[i] = SetToSeq(S)[j] => i = j
         /\ \A x \in S : \E i \in 1..Len(SetToSeq(S)) : SetToSeq(S)[i] = x
<1> DEFINE n == Cardinality(S)
<1>1. n \in Nat
  BY FS_CardinalityType
<1>2. PICK f \in [1..n -> S] : IsInjective(f) /\ \A x \in S : \E i \in 1..n : f[i] = x
  <2>1. ExistsBijection(1..n, S)
    BY FS_CardinalityType
  <2>2. PICK f \in Bijection(1..n, S) : TRUE
    BY <2>1 DEF ExistsBijection
  <2> QED
    BY <2>2 DEF Bijection, Injection, Surjection, IsInjective
<1> DEFINE s == SetToSeq(S)
<1>3. s \in [1..n -> S] /\ IsInjective(s)
  BY <1>2 DEF SetToSeq
<1>4. s \in Seq(S) /\ Len(s) = n
  BY <1>1, <1>3
<1>5. \A x \in S : \E i \in 1..n : s[i] = x
  <2>1. s \in Injection(1..n, S)
    BY <1>3 DEF Injection, IsInjective
  <2>2. Cardinality(1..n) = n
    BY <1>1, FS_Interval
  <2>3. s \in Surjection(1..n, S)
    BY <2>1, <2>2, FS_Injection
  <2> QED
    BY <2>3 DEF Surjection
<1> QED
  BY <1>1, <1>3, <1>4, <1>5 DEF IsInjective
-----------------------------------------------------------------------------
(* What is true of each tab *)

\* The edits there have been; the newest has this number.
Edits == spent.edits + spent.strays

MaybeValue == Value \cup {None}

\* A tab tracks one op per clientSeq, none that it has yet to use, of edits that have been; it
\* throttles and awaits only while live, and queues only while not.
Tracking(t, n) ==
  /\ \A e, f \in t.inFlight : e.seq = f.seq => e = f
  /\ t.pending # NoEntries \/ t.inFlight # {} => Live(t)
  /\ Live(t) => t.offline = NoEntries
  /\ \A e \in t.inFlight : 1 <= e.seq /\ e.seq <= t.clientSeq /\ e.value <= n
  /\ \A p \in Path : /\ t.pending[p] # None => t.pending[p].value <= n
                     /\ t.offline[p] # None => t.offline[p].value <= n

\* A hello is on its way alone; what is on its way under the clientSeq of an op in flight is that op.
Requesting(t) ==
  \A i \in 1..Len(t.up) :
    /\ t.up[i].type = "hello" => t.state = "opening" /\ Len(t.up) = 1
    /\ t.up[i].type # "hello" =>
         /\ t.up[i].clientSeq <= t.clientSeq
         /\ \A e \in t.inFlight :
              e.seq = t.up[i].clientSeq =>
                t.up[i].type = "set" /\ e.path = t.up[i].path /\ e.value = t.up[i].value

\* An answer on its way is about an op that nothing is owed for any more.
Settles(t, o, m) ==
  m.type \in {"set", "nack"} =>
    /\ m.clientSeq <= t.clientSeq
    /\ \A e \in t.inFlight : e.seq = m.clientSeq => o[e.path] # e.value

Settling(t, o, d) == \A i \in 1..Len(d) : Settles(t, o, d[i])

\* v is the value of the newest entry of p, said without choosing one.
Owes(t, p, v) ==
  IF t.pending[p] # None THEN t.pending[p].value = v
  ELSE IF InFlightOn(t, p) # {}
  THEN \E e \in InFlightOn(t, p) : e.value = v /\ \A f \in InFlightOn(t, p) : f.seq <= e.seq
  ELSE t.offline[p] # None /\ t.offline[p].value = v

Owing(t, o, n) == \A p \in Path : o[p] # None => o[p] <= n /\ Owes(t, p, o[p])

\* u is t later in the life of its connection: what it has in flight under an old clientSeq is not new.
Follows(t, u) ==
  /\ t.clientSeq <= u.clientSeq
  /\ \A e \in u.inFlight : e.seq <= t.clientSeq => \E f \in t.inFlight : f.seq = e.seq

Kept(t, o, d, n) == Tracking(t, n) /\ Requesting(t) /\ Settling(t, o, d) /\ Owing(t, o, n)

-----------------------------------------------------------------------------
(* The tiers *)

LEMMA InFlightEnds ==
  ASSUME NEW t \in Tab, NEW n, Tracking(t, n), NEW p \in Path, InFlightOn(t, p) # {}
  PROVE  /\ \E e \in InFlightOn(t, p) : \A f \in InFlightOn(t, p) : e.seq <= f.seq
         /\ \E e \in InFlightOn(t, p) : \A f \in InFlightOn(t, p) : f.seq <= e.seq
<1> DEFINE S == {e.seq : e \in InFlightOn(t, p)}
<1>1. InFlightOn(t, p) \subseteq Sent /\ t.clientSeq \in Nat
  BY DEF InFlightOn, Tab
<1>2. S \in SUBSET Nat /\ S # {} /\ \A x \in S : x <= t.clientSeq
  BY <1>1 DEF Sent, Tracking, InFlightOn
<1>3. PICK x \in S : \A y \in S : x <= y
  BY <1>2, LeastNumber
<1>4. PICK z \in S : \A y \in S : y <= z
  BY <1>1, <1>2, GreatestNumber
<1> QED
  BY <1>3, <1>4

LEMMA EntryFields ==
  ASSUME NEW x \in MaybeEntry
  PROVE  x # None => x \in [value : Value, prior : Value] /\ x.value \in Value /\ x.prior \in Value
BY DEF MaybeEntry

LEMMA EntryMade ==
  ASSUME NEW v \in Value, NEW w \in Value
  PROVE  Entry(v, w) \in MaybeEntry /\ Entry(v, w) # None /\ Entry(v, w).value = v /\ Entry(v, w).prior = w
BY ClientSyncAssumption DEF Entry, MaybeEntry

\* The newest entry is the one that Owes speaks of.
LEMMA NewestIsOwed ==
  ASSUME NEW t \in Tab, NEW n, Tracking(t, n), NEW p \in Path
  PROVE  /\ \A v : Owes(t, p, v) <=> HasPending(t, p) /\ Newest(t, p).value = v
         /\ HasPending(t, p) => Newest(t, p).value \in Value /\ Oldest(t, p).prior \in Value
         /\ HasPending(t, p) /\ n \in Nat => Newest(t, p).value <= n
<1>1. t.pending[p] \in MaybeEntry /\ t.offline[p] \in MaybeEntry /\ InFlightOn(t, p) \subseteq Sent
  BY DEF Tab, InFlightOn
<1>2. \A e \in Sent : e.value \in Value /\ e.prior \in Value /\ e.seq \in Nat
  BY DEF Sent
<1>3. CASE t.pending[p] # None
  <2>1. HasPending(t, p) /\ Newest(t, p) = t.pending[p]
    BY <1>3 DEF HasPending, Newest
  <2>2. Oldest(t, p).prior \in Value
    <3>1. CASE t.offline[p] # None
      BY <1>1, <3>1, EntryFields DEF Oldest
    <3>2. CASE t.offline[p] = None /\ InFlightOn(t, p) # {}
      BY <1>1, <1>2, <3>2, InFlightEnds DEF Oldest
    <3>3. CASE t.offline[p] = None /\ InFlightOn(t, p) = {}
      BY <1>1, <1>3, <3>3, EntryFields DEF Oldest
    <3> QED
      BY <3>1, <3>2, <3>3
  <2>3. \A v : Owes(t, p, v) <=> t.pending[p].value = v
    BY <1>3 DEF Owes
  <2> QED
    BY <1>1, <1>3, <2>1, <2>2, <2>3, EntryFields DEF Tracking
<1>4. CASE t.pending[p] = None /\ InFlightOn(t, p) # {}
  <2> DEFINE new == CHOOSE e \in InFlightOn(t, p) : \A f \in InFlightOn(t, p) : f.seq <= e.seq
  <2>1. new \in InFlightOn(t, p) /\ \A f \in InFlightOn(t, p) : f.seq <= new.seq
    BY <1>4, InFlightEnds
  <2>2. HasPending(t, p) /\ Newest(t, p) = new
    BY <1>4 DEF HasPending, Newest
  <2>3. Oldest(t, p).prior \in Value
    <3>1. CASE t.offline[p] # None
      BY <1>1, <3>1, EntryFields DEF Oldest
    <3>2. CASE t.offline[p] = None
      BY <1>1, <1>2, <1>4, <3>2, InFlightEnds DEF Oldest
    <3> QED
      BY <3>1, <3>2
  <2> HIDE DEF new
  <2>4. \A e \in InFlightOn(t, p) : (\A f \in InFlightOn(t, p) : f.seq <= e.seq) => e = new
    <3> SUFFICES ASSUME NEW e \in InFlightOn(t, p), \A f \in InFlightOn(t, p) : f.seq <= e.seq
                 PROVE  e = new
      OBVIOUS
    <3>1. new.seq <= e.seq /\ e.seq <= new.seq /\ e.seq \in Nat /\ new.seq \in Nat
      BY <1>1, <1>2, <2>1
    <3>2. e.seq = new.seq
      BY <3>1
    <3> QED
      BY <2>1, <3>2 DEF Tracking, InFlightOn
  <2>5. \A v : Owes(t, p, v) <=> new.value = v
    BY <1>4, <2>1, <2>4, Zenon DEF Owes
  <2>6. new.value \in Value /\ (n \in Nat => new.value <= n)
    BY <1>1, <1>2, <2>1 DEF Tracking, InFlightOn
  <2> QED
    BY <2>2, <2>3, <2>5, <2>6
<1>5. CASE t.pending[p] = None /\ InFlightOn(t, p) = {}
  <2>1. HasPending(t, p) <=> t.offline[p] # None
    BY <1>5 DEF HasPending
  <2>2. Newest(t, p) = t.offline[p]
    BY <1>5 DEF Newest
  <2>3. t.offline[p] # None => Oldest(t, p) = t.offline[p]
    BY DEF Oldest
  <2>4. \A v : Owes(t, p, v) <=> t.offline[p] # None /\ t.offline[p].value = v
    BY <1>5 DEF Owes
  <2> QED
    BY <1>1, <2>1, <2>2, <2>3, <2>4, EntryFields DEF Tracking
<1> QED
  BY <1>3, <1>4, <1>5
-----------------------------------------------------------------------------
(* What a flush makes of a tab *)

\* What the live tab t is once the entries of the paths in order have been sent.
SentTo(t, entries, order) ==
  [t EXCEPT !.pending = [p \in Path |-> IF entries[p] # None THEN None ELSE @[p]],
            !.clientSeq = @ + Len(order),
            !.inFlight = @ \cup {[seq |-> t.clientSeq + i, path |-> order[i], value |-> entries[order[i]].value,
                                  prior |-> entries[order[i]].prior, resends |-> 0] : i \in 1..Len(order)},
            !.up = @ \o [i \in 1..Len(order) |-> SetOp(t.clientSeq + i, order[i], entries[order[i]].value)]]

QueuedIn(t, entries) ==
  [t EXCEPT !.pending = [p \in Path |-> IF entries[p] # None THEN None ELSE @[p]],
            !.offline = [p \in Path |-> IF entries[p] # None THEN entries[p] ELSE @[p]]]

\* order lists the paths that have an entry.
Lists(order, entries) ==
  /\ order \in Seq({p \in Path : entries[p] # None})
  /\ \A i, j \in 1..Len(order) : order[i] = order[j] => i = j
  /\ \A p \in Path : entries[p] # None => \E i \in 1..Len(order) : order[i] = p

Bounded(entries, n) == \A p \in Path : entries[p] # None => entries[p].value <= n

\* Only a live tab sends.
Sends(t, r) == r.state = t.state /\ (Live(t) \/ r.up = t.up)

\* r keeps what t does, and owes what t or the entries do.
Flushed(t, r, entries, o, d, n) ==
  /\ r \in Tab /\ Sends(t, r) /\ Follows(t, r)
  /\ Tracking(r, n) /\ Requesting(r) /\ Settling(r, o, d)
  /\ \A p \in Path : IF entries[p] # None THEN Owes(r, p, entries[p].value)
                     ELSE \A v : Owes(t, p, v) => Owes(r, p, v)

LEMMA FlushCases ==
  ASSUME NEW t \in Tab, NEW entries \in [Path -> MaybeEntry]
  PROVE  /\ ~Live(t) => FlushAll(t, entries) = QueuedIn(t, entries)
         /\ Live(t) =>
              \E order : Lists(order, entries) /\ FlushAll(t, entries) = SentTo(t, entries, order)
<1> DEFINE due == {p \in Path : entries[p] # None}
           order == SetToSeq(due)
           rest == [t EXCEPT !.pending = [p \in Path |-> IF p \in due THEN None ELSE @[p]]]
<1>1. IsFiniteSet(due)
  BY ClientSyncAssumption, FS_Subset
<1>2. /\ order \in Seq(due)
      /\ \A i, j \in 1..Len(order) : order[i] = order[j] => i = j
      /\ \A p \in due : \E i \in 1..Len(order) : order[i] = p
  BY <1>1, SequenceOfSet
<1>3. DOMAIN order = 1..Len(order)
  BY <1>2
<1> HIDE DEF order
<1>4. Live(t) => FlushAll(t, entries) = SentTo(t, entries, order)
  BY <1>3 DEF FlushAll, SentTo, order, Tab
<1>5. ~Live(t) => FlushAll(t, entries) = QueuedIn(t, entries)
  BY DEF FlushAll, QueuedIn, Tab
<1>6. Lists(order, entries)
  BY <1>2 DEF Lists
<1> QED
  BY <1>4, <1>5, <1>6

LEMMA Queuing ==
  ASSUME NEW t \in Tab, NEW entries \in [Path -> MaybeEntry], NEW o, NEW d \in Seq(Reply), NEW n \in Nat,
         ~Live(t), Tracking(t, n), Requesting(t), Settling(t, o, d),
         Bounded(entries, n), NEW r, r = QueuedIn(t, entries)
  PROVE  Flushed(t, r, entries, o, d, n)
<1>1. /\ r \in Tab /\ r.state = t.state /\ r.inFlight = t.inFlight /\ r.clientSeq = t.clientSeq /\ r.up = t.up
      /\ r.pending = [p \in Path |-> IF entries[p] # None THEN None ELSE t.pending[p]]
      /\ r.offline = [p \in Path |-> IF entries[p] # None THEN entries[p] ELSE t.offline[p]]
  BY DEF QueuedIn, Tab, MaybeEntry
<1>2. t.pending = NoEntries /\ t.inFlight = {}
  BY DEF Tracking
<1>3. r.pending = NoEntries /\ r.inFlight = {}
  BY <1>1, <1>2 DEF NoEntries
<1>4. Tracking(r, n)
  BY <1>1, <1>3 DEF Tracking, NoEntries, Bounded, Live
<1>5. Requesting(r) /\ Settling(r, o, d)
  BY <1>1, <1>2 DEF Requesting, Settling, Settles, Live
<1>6. \A p \in Path : IF entries[p] # None THEN Owes(r, p, entries[p].value)
                      ELSE \A v : Owes(t, p, v) => Owes(r, p, v)
  BY <1>1, <1>2, <1>3 DEF Owes, InFlightOn, NoEntries
<1>7. Follows(t, r)
  BY <1>1 DEF Follows, Tab
<1> QED
  BY <1>1, <1>4, <1>5, <1>6, <1>7 DEF Flushed, Sends

LEMMA Sending ==
  ASSUME NEW t \in Tab, NEW entries \in [Path -> MaybeEntry], NEW o, NEW d \in Seq(Reply), NEW n \in Nat,
         Live(t), Tracking(t, n), Requesting(t), Settling(t, o, d),
         Bounded(entries, n), NEW order, Lists(order, entries), NEW r, r = SentTo(t, entries, order)
  PROVE  Flushed(t, r, entries, o, d, n)
<1> DEFINE op(i) == [seq |-> t.clientSeq + i, path |-> order[i], value |-> entries[order[i]].value,
                     prior |-> entries[order[i]].prior, resends |-> 0]
           msg(i) == SetOp(t.clientSeq + i, order[i], entries[order[i]].value)
           new == {op(i) : i \in 1..Len(order)}
           msgs == [i \in 1..Len(order) |-> msg(i)]
<1>lists. /\ order \in Seq({p \in Path : entries[p] # None})
          /\ \A i, j \in 1..Len(order) : order[i] = order[j] => i = j
          /\ \A p \in Path : entries[p] # None => \E i \in 1..Len(order) : order[i] = p
  BY DEF Lists
<1>1. /\ Len(order) \in Nat /\ t.clientSeq \in Nat /\ t.inFlight \in SUBSET Sent /\ t.up \in Seq(Request)
      /\ t.pending \in [Path -> MaybeEntry] /\ t.offline \in [Path -> MaybeEntry]
  BY <1>lists DEF Tab
<1>2. \A i \in 1..Len(order) : order[i] \in Path /\ entries[order[i]] # None
  BY <1>lists, ElementOfSeq
<1>3. \A i \in 1..Len(order) : entries[order[i]].value \in Value /\ entries[order[i]].prior \in Value
  BY <1>2, EntryFields
<1>4. \A i \in 1..Len(order) : op(i) \in Sent /\ msg(i) \in Request
  <2> SUFFICES ASSUME NEW i \in 1..Len(order) PROVE op(i) \in Sent /\ msg(i) \in Request
    OBVIOUS
  <2>1. t.clientSeq + i \in Nat /\ 0 \in 0..MaxResends
    <3>1. MaxResends \in Nat
      BY ClientSyncAssumption
    <3> QED
      BY <1>1, <3>1
  <2> QED
    BY <1>2, <1>3, <2>1 DEF Sent, Request, SetOp
<1> HIDE DEF op, msg
<1>5. new \in SUBSET Sent /\ msgs \in Seq(Request) /\ Len(msgs) = Len(order)
  <2>1. msgs \in [1..Len(order) -> Request]
    BY <1>4
  <2>2. new \in SUBSET Sent
    BY <1>4
  <2> HIDE DEF new, msgs
  <2>3. \A m \in Nat : \A f \in [1..m -> Request] : f \in Seq(Request) /\ Len(f) = m
    OBVIOUS
  <2> QED
    BY <1>1, <2>1, <2>2, <2>3
<1>6. \A i \in 1..Len(order) : /\ op(i).seq = t.clientSeq + i /\ op(i).path = order[i]
                               /\ op(i).value = entries[order[i]].value
                               /\ msgs[i].type = "set" /\ msgs[i].clientSeq = t.clientSeq + i
                               /\ msgs[i].path = order[i] /\ msgs[i].value = entries[order[i]].value
  BY DEF SetOp, op, msg
<1> HIDE DEF msgs
<1>7. /\ r.state = t.state /\ r.clientSeq = t.clientSeq + Len(order) /\ r.inFlight = t.inFlight \cup new
      /\ r.up = t.up \o msgs /\ r.offline = t.offline
      /\ r.pending = [p \in Path |-> IF entries[p] # None THEN None ELSE t.pending[p]]
  BY DEF SentTo, Tab, op, msgs, msg
<1>8. r \in Tab
  <2>1. t.up \o msgs \in Seq(Request)
    BY <1>1, <1>5, ConcatProperties
  <2>2. t.inFlight \cup new \in SUBSET Sent /\ t.clientSeq + Len(order) \in Nat
    BY <1>1, <1>5
  <2>3. r.pending \in [Path -> MaybeEntry]
    BY <1>1, <1>7 DEF MaybeEntry
  <2>4. r = [t EXCEPT !.pending = r.pending, !.clientSeq = t.clientSeq + Len(order),
                      !.inFlight = t.inFlight \cup new, !.up = t.up \o msgs]
    BY <1>7 DEF SentTo, Tab, op, msgs, msg
  <2> HIDE DEF new
  <2> QED
    BY <2>1, <2>2, <2>3, <2>4 DEF Tab
<1>9. \A e \in new : \E i \in 1..Len(order) : e = op(i)
  OBVIOUS
<1>10. \A i \in 1..Len(order) : op(i) \in new
  OBVIOUS
<1> HIDE DEF new
<1>11. \A e \in t.inFlight : e.seq \in Nat /\ 1 <= e.seq /\ e.seq <= t.clientSeq
  BY <1>1 DEF Tracking, Sent
<1>12. ASSUME NEW e \in new
       PROVE  /\ e.seq \in Nat /\ t.clientSeq < e.seq /\ e.seq <= r.clientSeq
              /\ e.value <= n /\ entries[e.path] # None /\ e.value = entries[e.path].value
  <2>1. PICK i \in 1..Len(order) : e = op(i)
    BY <1>9
  <2>2. e.seq = t.clientSeq + i /\ e.path = order[i] /\ e.value = entries[order[i]].value
    BY <1>6, <2>1
  <2>3. order[i] \in Path /\ entries[order[i]] # None /\ entries[order[i]].value <= n
    BY <1>2 DEF Bounded
  <2> QED
    BY <1>1, <1>7, <2>2, <2>3
<1>13. ASSUME NEW e \in new, NEW f \in new, e.seq = f.seq \/ e.path = f.path
       PROVE  e = f
  <2>1. PICK i \in 1..Len(order) : e = op(i)
    BY <1>9
  <2>2. PICK j \in 1..Len(order) : f = op(j)
    BY <1>9
  <2>3. e.seq = t.clientSeq + i /\ f.seq = t.clientSeq + j /\ e.path = order[i] /\ f.path = order[j]
    BY <1>6, <2>1, <2>2
  <2>4. i = j
    <3>1. CASE e.seq = f.seq
      BY <1>1, <2>3, <3>1
    <3>2. CASE e.path = f.path
      BY <1>lists, <2>3, <3>2
    <3> QED
      BY <1>13, <3>1, <3>2
  <2> QED
    BY <2>1, <2>2, <2>4
<1>14. Tracking(r, n)
  <2>1. \A e, f \in r.inFlight : e.seq = f.seq => e = f
    BY <1>1, <1>7, <1>11, <1>12, <1>13 DEF Tracking
  <2>2. \A e \in r.inFlight : 1 <= e.seq /\ e.seq <= r.clientSeq /\ e.value <= n
    BY <1>1, <1>7, <1>11, <1>12 DEF Tracking
  <2>3. \A p \in Path : /\ r.pending[p] # None => r.pending[p].value <= n
                        /\ r.offline[p] # None => r.offline[p].value <= n
    BY <1>7 DEF Tracking
  <2>4. Live(r) /\ r.offline = NoEntries
    BY <1>7 DEF Live, Tracking
  <2> QED
    BY <2>1, <2>2, <2>3, <2>4 DEF Tracking
<1>15. Requesting(r)
  <2> SUFFICES ASSUME NEW i \in 1..Len(r.up)
               PROVE  /\ r.up[i].type # "hello"
                      /\ r.up[i].clientSeq <= r.clientSeq
                      /\ \A e \in r.inFlight :
                           e.seq = r.up[i].clientSeq =>
                             r.up[i].type = "set" /\ e.path = r.up[i].path /\ e.value = r.up[i].value
    BY DEF Requesting
  <2>1. \/ i \in 1..Len(t.up) /\ r.up[i] = t.up[i]
        \/ \E j \in 1..Len(order) : r.up[i] = msgs[j]
    <3> DEFINE up == t.up
    <3>1. up \in Seq(Request) /\ msgs \in Seq(Request)
      BY <1>1, <1>5
    <3>2. r.up = up \o msgs /\ Len(msgs) = Len(order)
      BY <1>5, <1>7
    <3> HIDE DEF up
    <3>3. \A k \in 1..Len(up \o msgs) :
            \/ k \in 1..Len(up) /\ (up \o msgs)[k] = up[k]
            \/ \E j \in 1..Len(msgs) : k = Len(up) + j /\ (up \o msgs)[k] = msgs[j]
      BY <3>1, RequestsJoined
    <3>4. \/ i \in 1..Len(up) /\ r.up[i] = up[i]
          \/ \E j \in 1..Len(order) : r.up[i] = msgs[j]
      <4>1. i \in 1..Len(up \o msgs)
        BY <3>2
      <4>2. \/ i \in 1..Len(up) /\ (up \o msgs)[i] = up[i]
            \/ \E j \in 1..Len(msgs) : i = Len(up) + j /\ (up \o msgs)[i] = msgs[j]
        BY <3>3, <4>1, Zenon
      <4> QED
        BY <3>2, <4>2, Zenon
    <3> QED
      BY <3>4 DEF up
  <2>2. CASE i \in 1..Len(t.up) /\ r.up[i] = t.up[i]
    <3>5. t.up[i].type # "hello"
      BY <2>2 DEF Requesting, Live
    <3>1. t.up[i].clientSeq \in Nat /\ t.up[i].clientSeq <= t.clientSeq
      <4>1. t.up[i] \in Request
        BY <1>1, <2>2, ElementOfSeq
      <4> QED
        BY <2>2, <3>5, <4>1 DEF Requesting, Request
    <3>2. t.up[i].clientSeq <= r.clientSeq
      BY <1>1, <1>7, <3>1
    <3>3. \A e \in t.inFlight : e.seq = t.up[i].clientSeq =>
            t.up[i].type = "set" /\ e.path = t.up[i].path /\ e.value = t.up[i].value
      BY <2>2, <3>5 DEF Requesting
    <3>4. \A e \in new : e.seq # t.up[i].clientSeq
      BY <1>1, <1>12, <3>1
    <3> QED
      BY <1>7, <2>2, <3>2, <3>3, <3>4, <3>5
  <2>3. ASSUME NEW j \in 1..Len(order), r.up[i] = msgs[j]
        PROVE  /\ r.up[i].type # "hello"
               /\ r.up[i].clientSeq <= r.clientSeq
               /\ \A e \in r.inFlight :
                    e.seq = r.up[i].clientSeq =>
                      r.up[i].type = "set" /\ e.path = r.up[i].path /\ e.value = r.up[i].value
    <3>1. /\ r.up[i].type = "set" /\ r.up[i].clientSeq = t.clientSeq + j
          /\ r.up[i].path = order[j] /\ r.up[i].value = entries[order[j]].value
      BY <2>3, <1>6
    <3>2. \A e \in r.inFlight : e.seq = t.clientSeq + j => e \in new
      BY <1>1, <1>7, <1>11
    <3>3. \A e \in new : e.seq = t.clientSeq + j => e = op(j)
      <4>1. op(j) \in new /\ op(j).seq = t.clientSeq + j
        BY <1>6, <1>10
      <4> QED
        BY <4>1, <1>13
    <3>4. t.clientSeq + j <= r.clientSeq
      BY <1>1, <1>7
    <3>5. op(j).path = order[j] /\ op(j).value = entries[order[j]].value
      BY <1>6
    <3> QED
      BY <3>1, <3>2, <3>3, <3>4, <3>5
  <2> QED
    BY <2>1, <2>2, <2>3
<1>16. Settling(r, o, d)
  <2> SUFFICES ASSUME NEW i \in 1..Len(d), d[i].type \in {"set", "nack"}
               PROVE  /\ d[i].clientSeq <= r.clientSeq
                      /\ \A e \in r.inFlight : e.seq = d[i].clientSeq => o[e.path] # e.value
    BY DEF Settling, Settles
  <2>1. d[i].clientSeq \in Nat
    <3>1. d[i] \in Reply
      BY ElementOfSeq
    <3> QED
      BY <3>1 DEF Reply
  <2>2. d[i].clientSeq <= t.clientSeq /\ \A e \in t.inFlight : e.seq = d[i].clientSeq => o[e.path] # e.value
    BY DEF Settling, Settles
  <2> QED
    BY <1>1, <1>7, <1>12, <2>1, <2>2
<1>17. ASSUME NEW p \in Path, entries[p] # None
       PROVE  Owes(r, p, entries[p].value)
  <2>1. PICK i \in 1..Len(order) : order[i] = p
    BY <1>lists, <1>17
  <2>2. op(i) \in InFlightOn(r, p) /\ op(i).value = entries[p].value
    BY <1>6, <1>7, <1>10, <2>1 DEF InFlightOn
  <2>3. \A f \in InFlightOn(r, p) : f.seq <= op(i).seq
    <3>1. op(i) \in new /\ op(i).path = p /\ op(i).seq = t.clientSeq + i
      BY <1>6, <1>10, <2>1
    <3>2. \A f \in new : f.path = p => f = op(i)
      BY <1>13, <3>1
    <3>3. \A f \in t.inFlight : f.seq <= t.clientSeq + i
      BY <1>1, <1>11
    <3> QED
      BY <1>1, <1>7, <3>1, <3>2, <3>3 DEF InFlightOn
  <2>4. r.pending[p] = None
    BY <1>7, <1>17
  <2> QED
    BY <2>2, <2>3, <2>4 DEF Owes
<1>18. ASSUME NEW p \in Path, entries[p] = None
       PROVE  \A v : Owes(t, p, v) => Owes(r, p, v)
  <2>1. InFlightOn(r, p) = InFlightOn(t, p)
    BY <1>7, <1>12, <1>18 DEF InFlightOn
  <2>2. r.pending[p] = t.pending[p] /\ r.offline[p] = t.offline[p]
    BY <1>7, <1>18
  <2> QED
    BY <2>1, <2>2 DEF Owes
<1>19. Follows(t, r)
  <2>1. t.clientSeq <= r.clientSeq
    BY <1>1, <1>7
  <2>2. \A e \in r.inFlight : e.seq <= t.clientSeq => e \in t.inFlight
    BY <1>1, <1>7, <1>12
  <2> QED
    BY <2>1, <2>2 DEF Follows
<1> QED
  BY <1>7, <1>8, <1>14, <1>15, <1>16, <1>17, <1>18, <1>19 DEF Flushed, Sends

\* A flush of entries leaves each path owing what it did, or what its entry says.
LEMMA Flushing ==
  ASSUME NEW t \in Tab, NEW entries \in [Path -> MaybeEntry], NEW o, NEW d \in Seq(Reply), NEW n \in Nat,
         Tracking(t, n), Requesting(t), Settling(t, o, d), Bounded(entries, n)
  PROVE  Flushed(t, FlushAll(t, entries), entries, o, d, n)
<1>1. CASE Live(t)
  BY <1>1, FlushCases, Sending
<1>2. CASE ~Live(t)
  BY <1>2, FlushCases, Queuing
<1> QED
  BY <1>1, <1>2

-----------------------------------------------------------------------------
(* What is kept by the other changes of a tab *)

\* The outbox and the state of the connection are the same.
SameOutbox(t, u) ==
  /\ u.pending = t.pending /\ u.offline = t.offline /\ u.inFlight = t.inFlight
  /\ u.clientSeq = t.clientSeq /\ u.up = t.up /\ u.state = t.state

LEMMA KeptElsewhere ==
  ASSUME NEW t \in Tab, NEW u \in Tab, NEW o, NEW d, NEW n, SameOutbox(t, u), Kept(t, o, d, n)
  PROVE  Kept(u, o, d, n) /\ Follows(t, u)
<1>1. Tracking(u, n) /\ Requesting(u)
  BY DEF SameOutbox, Kept, Tracking, Requesting, Live
<1>2. Settling(u, o, d)
  BY DEF SameOutbox, Kept, Settling, Settles
<1>3. Owing(u, o, n)
  BY DEF SameOutbox, Kept, Owing, Owes, InFlightOn
<1>4. Follows(t, u)
  BY DEF SameOutbox, Follows, Tab
<1> QED
  BY <1>1, <1>2, <1>3, <1>4 DEF Kept

LEMMA SettlingMore ==
  ASSUME NEW t, NEW o, NEW d \in Seq(Reply), NEW m \in Seq(Reply), Settling(t, o, d),
         \A j \in 1..Len(m) : Settles(t, o, m[j])
  PROVE  d \o m \in Seq(Reply) /\ Settling(t, o, d \o m)
<1>1. /\ d \o m \in Seq(Reply)
      /\ \A i \in 1..Len(d \o m) : \/ i \in 1..Len(d) /\ (d \o m)[i] = d[i]
                                   \/ \E j \in 1..Len(m) : i = Len(d) + j /\ (d \o m)[i] = m[j]
  BY Joined
<1>2. ASSUME NEW i \in 1..Len(d \o m)
      PROVE  Settles(t, o, (d \o m)[i])
  <2>1. CASE i \in 1..Len(d) /\ (d \o m)[i] = d[i]
    BY <2>1 DEF Settling
  <2>2. CASE \E j \in 1..Len(m) : i = Len(d) + j /\ (d \o m)[i] = m[j]
    BY <2>2
  <2> QED
    BY <1>1, <2>1, <2>2
<1> QED
  BY <1>1, <1>2 DEF Settling

LEMMA SettlingOneMore ==
  ASSUME NEW t, NEW o, NEW d \in Seq(Reply), NEW m \in Reply, Settling(t, o, d), Settles(t, o, m)
  PROVE  Append(d, m) \in Seq(Reply) /\ Settling(t, o, Append(d, m))
<1>1. /\ Append(d, m) \in Seq(Reply)
      /\ \A i \in 1..Len(Append(d, m)) : \/ i \in 1..Len(d) /\ Append(d, m)[i] = d[i]
                                         \/ i = Len(d) + 1 /\ Append(d, m)[i] = m
  BY Appended
<1> QED
  BY <1>1 DEF Settling

LEMMA SettlingOneLess ==
  ASSUME NEW t, NEW o, NEW d \in Seq(Reply), d # <<>>, Settling(t, o, d)
  PROVE  Head(d) \in Reply /\ Tail(d) \in Seq(Reply) /\ Settling(t, o, Tail(d)) /\ Settles(t, o, Head(d))
<1>1. /\ Head(d) \in Reply /\ Tail(d) \in Seq(Reply) /\ 1 \in 1..Len(d) /\ Head(d) = d[1]
      /\ \A i \in 1..Len(Tail(d)) : i + 1 \in 1..Len(d) /\ Tail(d)[i] = d[i + 1]
  BY Shortened
<1> QED
  BY <1>1 DEF Settling

LEMMA RequestTaken ==
  ASSUME NEW t \in Tab, NEW o, NEW d, NEW n, Kept(t, o, d, n), t.up # <<>>,
         NEW u, u = [t EXCEPT !.up = Tail(@)]
  PROVE  u \in Tab /\ Kept(u, o, d, n) /\ Follows(t, u) /\ Head(t.up) \in Request
<1> DEFINE up == t.up
<1>1. up \in Seq(Request) /\ up # <<>>
  BY DEF Tab
<1> HIDE DEF up
<1>2. /\ Head(up) \in Request /\ Tail(up) \in Seq(Request)
      /\ \A i \in 1..Len(Tail(up)) : i + 1 \in 1..Len(up) /\ Tail(up)[i] = up[i + 1]
  BY <1>1, Shortened
<1>3. /\ u.pending = t.pending /\ u.offline = t.offline /\ u.inFlight = t.inFlight
      /\ u.clientSeq = t.clientSeq /\ u.state = t.state /\ u.up = Tail(up)
  BY DEF Tab, up
<1>4. u \in Tab
  BY <1>2 DEF Tab, up
<1>5. Requesting(u)
  <2>1. \A i \in 1..Len(up) :
          /\ up[i].type = "hello" => Len(up) = 1
          /\ up[i].type # "hello" =>
               /\ up[i].clientSeq <= t.clientSeq
               /\ \A e \in t.inFlight :
                    e.seq = up[i].clientSeq => up[i].type = "set" /\ e.path = up[i].path /\ e.value = up[i].value
    BY DEF Kept, Requesting, up
  <2>2. Len(up) = 1 => Len(Tail(up)) = 0
    BY <1>1, <1>2
  <2>3. \A i \in 1..Len(Tail(up)) : up[i + 1].type # "hello"
    BY <1>2, <2>1, <2>2
  <2> QED
    BY <1>2, <1>3, <2>1, <2>3 DEF Requesting
<1>6. Tracking(u, n) /\ Settling(u, o, d) /\ Owing(u, o, n)
  BY <1>3 DEF Kept, Tracking, Live, Settling, Settles, Owing, Owes, InFlightOn
<1>7. Follows(t, u)
  BY <1>3 DEF Follows, Tab
<1> QED
  BY <1>2, <1>4, <1>5, <1>6, <1>7 DEF Kept, up

\* Once the server has had an op, its path may owe nothing, and what is owed is as it was.
LEMMA HadKeeps ==
  ASSUME NEW t \in Tab, NEW o \in [Path -> MaybeValue], NEW d, NEW n, Kept(t, o, d, n),
         NEW p \in Path, NEW v \in Value,
         NEW h, h = [o EXCEPT ![p] = IF @ = v THEN None ELSE @]
  PROVE  /\ h \in [Path -> MaybeValue] /\ Kept(t, h, d, n) /\ h[p] # v
<1>1. h \in [Path -> MaybeValue] /\ h[p] # v /\ \A q \in Path : h[q] = o[q] \/ h[q] = None
  BY ClientSyncAssumption DEF MaybeValue
<1>2. \A e \in t.inFlight : e.path \in Path /\ e.value \in Value /\ e.value # None
  BY ClientSyncAssumption DEF Tab, Sent
<1>3. Settling(t, h, d)
  BY <1>1, <1>2 DEF Kept, Settling, Settles
<1>4. Owing(t, h, n)
  BY <1>1 DEF Kept, Owing
<1> QED
  BY <1>1, <1>3, <1>4 DEF Kept
-----------------------------------------------------------------------------
(* What is kept by each method of a tab *)

LEMMA FollowsOn ==
  ASSUME NEW t \in Tab, NEW u \in Tab, NEW r \in Tab, Follows(t, u), Follows(u, r)
  PROVE  Follows(t, r)
<1>1. t.clientSeq \in Nat /\ u.clientSeq \in Nat /\ r.clientSeq \in Nat
      /\ t.inFlight \in SUBSET Sent /\ u.inFlight \in SUBSET Sent /\ r.inFlight \in SUBSET Sent
  BY DEF Tab
<1>2. \A e \in r.inFlight : e.seq \in Nat
  BY <1>1 DEF Sent
<1>3. \A e \in r.inFlight : e.seq <= t.clientSeq => e.seq <= u.clientSeq
  BY <1>1, <1>2 DEF Follows
<1> QED
  BY <1>1, <1>3 DEF Follows

LEMMA NothingPending == NoEntries \in [Path -> MaybeEntry] /\ \A p \in Path : NoEntries[p] = None
BY DEF NoEntries, MaybeEntry

\* u is t with an entry for p put above whatever t tracked.
Entered(t, u, p, v, o, d, n) ==
  /\ u \in Tab /\ Sends(t, u) /\ Follows(t, u)
  /\ Tracking(u, n) /\ Requesting(u) /\ Settling(u, o, d)
  /\ Owes(u, p, v)
  /\ \A q \in Path \ {p} : \A w : Owes(t, q, w) => Owes(u, q, w)

LEMMA EntryFlushed ==
  ASSUME NEW t \in Tab, NEW o, NEW d \in Seq(Reply), NEW n \in Nat,
         Tracking(t, n), Requesting(t), Settling(t, o, d),
         NEW p \in Path, NEW x \in MaybeEntry, x # None, x.value <= n
  PROVE  Entered(t, FlushEntry(t, p, x), p, x.value, o, d, n)
<1> DEFINE u == FlushEntry(t, p, x)
<1> DEFINE entries == [NoEntries EXCEPT ![p] = x]
<1>1. entries \in [Path -> MaybeEntry] /\ entries[p] = x /\ \A q \in Path \ {p} : entries[q] = None
  BY NothingPending
<1> HIDE DEF entries
<1>2. Bounded(entries, n)
  BY <1>1 DEF Bounded
<1>3. u = FlushAll(t, entries)
  BY DEF FlushEntry, entries
<1> HIDE DEF u
<1>4. Flushed(t, u, entries, o, d, n)
  BY <1>1, <1>2, <1>3, Flushing
<1>5. Entered(t, u, p, x.value, o, d, n)
  BY <1>1, <1>4 DEF Flushed, Entered
<1> QED
  BY <1>5 DEF u

LEMMA CoalescedOwes ==
  ASSUME NEW t \in Tab, NEW n \in Nat, Tracking(t, n)
  PROVE  /\ Coalesced(t) \in [Path -> MaybeEntry] /\ Bounded(Coalesced(t), n)
         /\ \A p \in Path : \A v : Owes(t, p, v) => Coalesced(t)[p] # None /\ Coalesced(t)[p].value = v
<1>1. ASSUME NEW p \in Path
      PROVE  /\ Coalesced(t)[p] \in MaybeEntry
             /\ Coalesced(t)[p] # None => Coalesced(t)[p].value <= n
             /\ \A v : Owes(t, p, v) => Coalesced(t)[p] # None /\ Coalesced(t)[p].value = v
  <2>1. CASE HasPending(t, p)
    <3>1. Coalesced(t)[p] = Entry(Newest(t, p).value, Oldest(t, p).prior)
      BY <2>1 DEF Coalesced
    <3>2. Newest(t, p).value \in Value /\ Oldest(t, p).prior \in Value /\ Newest(t, p).value <= n
      BY <2>1, NewestIsOwed
    <3>3. \A v : Owes(t, p, v) => Newest(t, p).value = v
      BY NewestIsOwed
    <3> QED
      BY <3>1, <3>2, <3>3, EntryMade
  <2>2. CASE ~HasPending(t, p)
    <3>1. Coalesced(t)[p] = None
      BY <2>2 DEF Coalesced
    <3>2. \A v : ~Owes(t, p, v)
      BY <2>2, NewestIsOwed
    <3> QED
      BY <3>1, <3>2 DEF MaybeEntry
  <2> QED
    BY <2>1, <2>2
<1>2. Coalesced(t) = [p \in Path |-> Coalesced(t)[p]]
  BY DEF Coalesced
<1>3. Coalesced(t) \in [Path -> MaybeEntry]
  BY <1>1, <1>2
<1> QED
  BY <1>1, <1>3 DEF Bounded

LEMMA OfflineChanged ==
  ASSUME NEW s \in Tab, NEW f \in [Path -> MaybeEntry], NEW u, u = [s EXCEPT !.offline = f]
  PROVE  /\ u \in Tab /\ u.state = s.state /\ u.inFlight = s.inFlight /\ u.clientSeq = s.clientSeq
         /\ u.up = s.up /\ u.pending = s.pending /\ u.offline = f
BY DEF Tab

LEMMA PendingChanged ==
  ASSUME NEW s \in Tab, NEW f \in [Path -> MaybeEntry], NEW u, u = [s EXCEPT !.pending = f]
  PROVE  /\ u \in Tab /\ u.state = s.state /\ u.inFlight = s.inFlight /\ u.clientSeq = s.clientSeq
         /\ u.up = s.up /\ u.offline = s.offline /\ u.pending = f
BY DEF Tab

LEMMA SentChanged ==
  ASSUME NEW s \in Tab, NEW f \in SUBSET Sent, NEW m \in Seq(Request)
  PROVE  [s EXCEPT !.inFlight = f, !.up = m] \in Tab
BY DEF Tab

LEMMA OutboxChanged ==
  ASSUME NEW s \in Tab, NEW f \in [Path -> MaybeEntry],
         NEW x \in {"closed", "opening", "catching-up", "live"}
  PROVE  /\ [s EXCEPT !.pending = NoEntries, !.inFlight = {}, !.offline = f, !.state = x, !.up = <<>>] \in Tab
         /\ [s EXCEPT !.state = x] \in Tab
<1>1. NoEntries \in [Path -> MaybeEntry] /\ <<>> \in Seq(Request)
  BY NothingPending
<1> QED
  BY <1>1 DEF Tab

LEMMA Opened ==
  ASSUME NEW s \in Tab, NEW m \in Seq(Request)
  PROVE  [s EXCEPT !.state = "opening", !.up = m] \in Tab
BY DEF Tab

LEMMA EntryQueued ==
  ASSUME NEW s \in Tab, NEW o, NEW d \in Seq(Reply), NEW n \in Nat,
         Tracking(s, n), Requesting(s), Settling(s, o, d), ~Live(s),
         NEW p \in Path, NEW x \in MaybeEntry, x # None, x.value <= n,
         NEW f, f = [s.offline EXCEPT ![p] = x], NEW u, u = [s EXCEPT !.offline = f]
  PROVE  Entered(s, u, p, x.value, o, d, n)
<1>1. f \in [Path -> MaybeEntry] /\ f[p] = x /\ \A q \in Path \ {p} : f[q] = s.offline[q]
  BY DEF Tab
<1>2. /\ u \in Tab /\ u.state = s.state /\ u.inFlight = s.inFlight /\ u.clientSeq = s.clientSeq
      /\ u.up = s.up /\ u.pending = s.pending /\ u.offline = f
  BY <1>1, OfflineChanged
<1>3. s.pending = NoEntries /\ s.inFlight = {}
  BY DEF Tracking
<1>4. Tracking(u, n)
  BY <1>1, <1>2, <1>3 DEF Tracking, Live
<1>5. Requesting(u) /\ Settling(u, o, d) /\ Follows(s, u)
  BY <1>2 DEF Requesting, Settling, Settles, Follows, Tab
<1>6. Owes(u, p, x.value) /\ \A q \in Path \ {p} : \A v : Owes(s, q, v) => Owes(u, q, v)
  BY <1>1, <1>2, <1>3, NothingPending DEF Owes, InFlightOn
<1> QED
  BY <1>2, <1>4, <1>5, <1>6 DEF Entered, Sends

LEMMA EntryThrottled ==
  ASSUME NEW s \in Tab, NEW o, NEW d \in Seq(Reply), NEW n \in Nat,
         Tracking(s, n), Requesting(s), Settling(s, o, d), Live(s),
         NEW p \in Path, NEW x \in MaybeEntry, x # None, x.value <= n,
         NEW f, f = [s.pending EXCEPT ![p] = x], NEW u, u = [s EXCEPT !.pending = f]
  PROVE  Entered(s, u, p, x.value, o, d, n)
<1>1. f \in [Path -> MaybeEntry] /\ f[p] = x /\ \A q \in Path \ {p} : f[q] = s.pending[q]
  BY DEF Tab
<1>2. /\ u \in Tab /\ u.state = s.state /\ u.inFlight = s.inFlight /\ u.clientSeq = s.clientSeq
      /\ u.up = s.up /\ u.offline = s.offline /\ u.pending = f
  BY <1>1, PendingChanged
<1>3. Tracking(u, n)
  BY <1>1, <1>2 DEF Tracking, Live
<1>4. Requesting(u) /\ Settling(u, o, d) /\ Follows(s, u)
  BY <1>2 DEF Requesting, Settling, Settles, Follows, Tab
<1>5. Owes(u, p, x.value) /\ \A q \in Path \ {p} : \A v : Owes(s, q, v) => Owes(u, q, v)
  BY <1>1, <1>2 DEF Owes, InFlightOn
<1> QED
  BY <1>2, <1>3, <1>4, <1>5 DEF Entered, Sends

\* dispatchLocal: the path owes the edit from now on.
LEMMA EditKeeps ==
  ASSUME NEW t \in Tab, NEW o \in [Path -> MaybeValue], NEW d \in Seq(Reply), NEW n \in Nat,
         Kept(t, o, d, n), n + 1 \in Value, NEW p \in Path, NEW g \in BOOLEAN,
         NEW u, u = Enqueue([t EXCEPT !.project[p] = n + 1], p, n + 1, t.project[p], g),
         NEW owes, owes = [o EXCEPT ![p] = n + 1]
  PROVE  u \in Tab /\ Kept(u, owes, d, n + 1) /\ Follows(t, u) /\ Sends(t, u)
<1> DEFINE k == n + 1
           s == [t EXCEPT !.project[p] = k]
           Over(x) == Entry(k, IF x = None THEN t.project[p] ELSE x.prior)
<1>1. /\ t.project \in [Path -> Value] /\ t.clientSeq \in Nat /\ t.inFlight \in SUBSET Sent
      /\ t.pending \in [Path -> MaybeEntry] /\ t.offline \in [Path -> MaybeEntry]
  BY DEF Tab, Project
<1>2. s \in Tab /\ SameOutbox(t, s) /\ s.state = t.state
  BY DEF Tab, Project, SameOutbox
<1>3. k \in Nat /\ k \in Value /\ n < k
  OBVIOUS
<1>4. owes \in [Path -> MaybeValue] /\ owes[p] = k /\ \A q \in Path \ {p} : owes[q] = o[q]
  BY <1>3 DEF MaybeValue
<1>5. \A e \in t.inFlight : e.value \in Nat /\ e.value <= n /\ e.path \in Path
  BY <1>1, ClientSyncAssumption DEF Sent, Kept, Tracking
<1>values. \A x \in MaybeEntry : x # None => x.value \in Nat
  BY EntryFields, ClientSyncAssumption
<1> HIDE DEF s, k
<1>6. Kept(s, o, d, n) /\ Follows(t, s)
  BY <1>2, KeptElsewhere
<1>7. Tracking(s, k)
  <2>1. \A e \in s.inFlight : e.value <= k
    BY <1>2, <1>3, <1>5 DEF SameOutbox
  <2>2. \A q \in Path : /\ s.pending[q] # None => s.pending[q].value <= k
                        /\ s.offline[q] # None => s.offline[q].value <= k
    BY <1>1, <1>2, <1>3, <1>6, <1>values DEF Kept, Tracking, SameOutbox
  <2> QED
    BY <1>6, <2>1, <2>2 DEF Kept, Tracking
<1>8. Settling(s, owes, d)
  <2>1. \A e \in s.inFlight : owes[e.path] = o[e.path] \/ owes[e.path] # e.value
    BY <1>2, <1>3, <1>4, <1>5 DEF SameOutbox
  <2> QED
    BY <1>6, <2>1 DEF Kept, Settling, Settles
<1>9. \A q \in Path \ {p} : owes[q] # None => owes[q] <= k /\ Owes(s, q, owes[q])
  <2> SUFFICES ASSUME NEW q \in Path \ {p}, owes[q] # None PROVE owes[q] <= k /\ Owes(s, q, owes[q])
    OBVIOUS
  <2>1. o[q] # None /\ o[q] \in Nat /\ o[q] <= n /\ Owes(s, q, o[q])
    BY <1>4, <1>6, ClientSyncAssumption DEF Kept, Owing, MaybeValue
  <2> QED
    BY <1>3, <1>4, <2>1
<1>10. \A x \in MaybeEntry : Over(x) \in MaybeEntry /\ Over(x) # None /\ Over(x).value = k
  <2> SUFFICES ASSUME NEW x \in MaybeEntry
               PROVE  Over(x) \in MaybeEntry /\ Over(x) # None /\ Over(x).value = k
    OBVIOUS
  <2>1. (IF x = None THEN t.project[p] ELSE x.prior) \in Value
    BY <1>1, EntryFields
  <2> QED
    BY <1>3, <2>1, EntryMade
<1>sends. Sends(s, u) => Sends(t, u)
  BY <1>2 DEF Sends, SameOutbox, Live
<1> SUFFICES Entered(s, u, p, k, owes, d, k)
  <2>1. u \in Tab /\ Tracking(u, k) /\ Requesting(u) /\ Settling(u, owes, d)
    BY DEF Entered
  <2>owing. Owing(u, owes, k)
    <3> SUFFICES ASSUME NEW q \in Path, owes[q] # None PROVE owes[q] <= k /\ Owes(u, q, owes[q])
      BY DEF Owing
    <3>1. CASE q = p
      BY <1>3, <1>4, <3>1 DEF Entered
    <3>2. CASE q # p
      BY <1>9, <3>2 DEF Entered
    <3> QED
      BY <3>1, <3>2
  <2>2. Follows(t, u) /\ Sends(t, u)
    BY <1>2, <1>6, <1>sends, FollowsOn DEF Entered
  <2> QED
    BY <2>1, <2>owing, <2>2 DEF Kept, k
<1>11. u = Enqueue(s, p, k, t.project[p], g)
  BY DEF s, k
<1>maybe. s.offline[p] \in MaybeEntry /\ s.pending[p] \in MaybeEntry
  BY <1>1, <1>2 DEF SameOutbox
<1>requests. Requesting(s)
  BY <1>6 DEF Kept
<1>12. CASE ~Live(s)
  <2> DEFINE x == Over(s.offline[p])
             f == [s.offline EXCEPT ![p] = x]
  <2>1. u = [s EXCEPT !.offline = f]
    BY <1>11, <1>12 DEF Enqueue
  <2>2. x \in MaybeEntry /\ x # None /\ x.value = k
    BY <1>maybe, <1>10
  <2> HIDE DEF x
  <2>3. x.value <= k
    BY <1>3, <2>2
  <2> HIDE DEF f
  <2>4. f = [s.offline EXCEPT ![p] = x]
    BY DEF f
  <2> QED
    BY <1>2, <1>3, <1>requests, <1>7, <1>8, <1>12, <2>1, <2>2, <2>3, <2>4, EntryQueued
<1>13. CASE Live(s) /\ g
  <2> DEFINE x == Over(s.pending[p])
  <2>1. u = FlushEntry(s, p, x)
    BY <1>11, <1>13 DEF Enqueue
  <2>2. x \in MaybeEntry /\ x # None /\ x.value = k
    BY <1>maybe, <1>10
  <2> HIDE DEF x
  <2>3. x.value <= k
    BY <1>3, <2>2
  <2>4. s \in Tab /\ k \in Nat
    BY <1>2, <1>3
  <2>5. Entered(s, FlushEntry(s, p, x), p, x.value, owes, d, k)
    BY <1>requests, <1>7, <1>8, <2>2, <2>3, <2>4, EntryFlushed
  <2> QED
    BY <2>1, <2>2, <2>5
<1>14. CASE Live(s) /\ ~g
  <2> DEFINE x == Over(s.pending[p])
             f == [s.pending EXCEPT ![p] = x]
  <2>1. u = [s EXCEPT !.pending = f]
    BY <1>11, <1>14 DEF Enqueue
  <2>2. x \in MaybeEntry /\ x # None /\ x.value = k
    BY <1>maybe, <1>10
  <2> HIDE DEF x
  <2>3. x.value <= k
    BY <1>3, <2>2
  <2> HIDE DEF f
  <2>4. f = [s.pending EXCEPT ![p] = x]
    BY DEF f
  <2> QED
    BY <1>2, <1>3, <1>requests, <1>7, <1>8, <1>14, <2>1, <2>2, <2>3, <2>4, EntryThrottled
<1> QED
  BY <1>12, <1>13, <1>14

\* The throttle timer: what was throttled is owed in flight.
LEMMA FlushPathKeeps ==
  ASSUME NEW t \in Tab, NEW o, NEW d \in Seq(Reply), NEW n \in Nat, Kept(t, o, d, n),
         NEW p \in Path, t.pending[p] # None,
         NEW u, u = FlushEntry(t, p, t.pending[p])
  PROVE  u \in Tab /\ Kept(u, o, d, n) /\ Follows(t, u) /\ Sends(t, u)
<1> DEFINE x == t.pending[p]
<1>1. x \in MaybeEntry /\ x # None /\ x.value <= n
  BY DEF Tab, Kept, Tracking
<1>2. \A v : Owes(t, p, v) => v = x.value
  BY DEF Owes
<1>3. u = FlushEntry(t, p, x)
  OBVIOUS
<1> HIDE DEF x
<1>4. Entered(t, FlushEntry(t, p, x), p, x.value, o, d, n)
  BY <1>1, EntryFlushed DEF Kept
<1>5. Owing(u, o, n)
  BY <1>2, <1>3, <1>4 DEF Owing, Entered, Kept
<1> QED
  BY <1>3, <1>4, <1>5 DEF Entered, Kept

\* An op of t is taken for one that says the same.
Resent(t, e) ==
  [t EXCEPT !.inFlight = (@ \ {e}) \cup {[e EXCEPT !.resends = @ + 1]},
            !.up = Append(@, SetOp(e.seq, e.path, e.value))]

LEMMA AckTimeoutKeeps ==
  ASSUME NEW t \in Tab, NEW o, NEW d \in Seq(Reply), NEW n \in Nat, Kept(t, o, d, n), Live(t),
         NEW e, e \in t.inFlight, e.resends < MaxResends, NEW u, u = Resent(t, e)
  PROVE  u \in Tab /\ Kept(u, o, d, n) /\ Follows(t, u) /\ Sends(t, u)
<1> DEFINE f == [e EXCEPT !.resends = @ + 1]
           msg == SetOp(e.seq, e.path, e.value)
           up == t.up
<1>1. /\ up \in Seq(Request) /\ t.inFlight \in SUBSET Sent /\ t.clientSeq \in Nat
      /\ t.pending \in [Path -> MaybeEntry] /\ t.offline \in [Path -> MaybeEntry]
  BY DEF Tab
<1>2. e \in Sent /\ e.seq \in Nat /\ e.path \in Path /\ e.value \in Value /\ e.resends \in 0..MaxResends
  BY <1>1 DEF Sent
<1>3. f \in Sent /\ f.seq = e.seq /\ f.path = e.path /\ f.value = e.value
  <2>1. MaxResends \in Nat
    BY ClientSyncAssumption
  <2>2. e.resends + 1 \in 0..MaxResends
    BY <1>2, <2>1
  <2> QED
    BY <1>2, <2>2 DEF Sent
<1>4. msg \in Request /\ msg.type = "set" /\ msg.clientSeq = e.seq /\ msg.path = e.path /\ msg.value = e.value
  BY <1>2 DEF Request, SetOp
<1>5. /\ u.inFlight = (t.inFlight \ {e}) \cup {f} /\ u.up = Append(up, msg) /\ u.pending = t.pending
      /\ u.offline = t.offline /\ u.clientSeq = t.clientSeq /\ u.state = t.state
  BY DEF Tab, Resent
<1> HIDE DEF msg, up, f
<1>6. /\ Append(up, msg) \in Seq(Request)
      /\ \A i \in 1..Len(Append(up, msg)) : \/ i \in 1..Len(up) /\ Append(up, msg)[i] = up[i]
                                            \/ i = Len(up) + 1 /\ Append(up, msg)[i] = msg
  BY <1>1, <1>4, Appended
<1>7. u \in Tab
  <2>1. u = [t EXCEPT !.inFlight = (t.inFlight \ {e}) \cup {f}, !.up = Append(up, msg)]
    BY DEF f, msg, up, Tab, Resent
  <2>2. (t.inFlight \ {e}) \cup {f} \in SUBSET Sent
    BY <1>1, <1>3
  <2>3. [t EXCEPT !.inFlight = (t.inFlight \ {e}) \cup {f}, !.up = Append(up, msg)] \in Tab
    BY <1>6, <2>2, SentChanged
  <2> QED
    BY <2>1, <2>3
<1>8. \A x \in u.inFlight : \E y \in t.inFlight : y.seq = x.seq /\ y.path = x.path /\ y.value = x.value
  BY <1>3, <1>5
<1>9. \A y \in t.inFlight : \E x \in u.inFlight : y.seq = x.seq /\ y.path = x.path /\ y.value = x.value
  BY <1>3, <1>5
<1>10. Tracking(u, n)
  <2>1. \A x, y \in u.inFlight : x.seq = y.seq => x = y
    BY <1>3, <1>5 DEF Kept, Tracking
  <2>2. \A x \in u.inFlight : 1 <= x.seq /\ x.seq <= u.clientSeq /\ x.value <= n
    BY <1>5, <1>8 DEF Kept, Tracking
  <2>3. Live(u)
    BY <1>5 DEF Live
  <2> QED
    BY <1>5, <2>1, <2>2, <2>3 DEF Kept, Tracking
<1>11. Requesting(u)
  <2>1. \A i \in 1..Len(up) :
          /\ up[i].type # "hello"
          /\ up[i].clientSeq <= u.clientSeq
          /\ \A x \in u.inFlight :
               x.seq = up[i].clientSeq => up[i].type = "set" /\ x.path = up[i].path /\ x.value = up[i].value
    BY <1>5, <1>8 DEF Kept, Requesting, Live, up
  <2>2. e.seq <= u.clientSeq /\ \A x \in u.inFlight : x.seq = e.seq => x = f
    BY <1>3, <1>5, <1>10 DEF Kept, Tracking
  <2>3. \A i \in 1..Len(Append(up, msg)) :
          /\ Append(up, msg)[i].type # "hello"
          /\ Append(up, msg)[i].clientSeq <= u.clientSeq
          /\ \A x \in u.inFlight :
               x.seq = Append(up, msg)[i].clientSeq =>
                 /\ Append(up, msg)[i].type = "set"
                 /\ x.path = Append(up, msg)[i].path /\ x.value = Append(up, msg)[i].value
    BY <1>3, <1>4, <1>6, <2>1, <2>2
  <2> QED
    BY <1>5, <2>3 DEF Requesting
<1>12. Settling(u, o, d)
  <2>1. \A i \in 1..Len(d) : d[i].type \in {"set", "nack"} =>
          /\ d[i].clientSeq <= t.clientSeq
          /\ \A x \in t.inFlight : x.seq = d[i].clientSeq => o[x.path] # x.value
    BY DEF Kept, Settling, Settles
  <2> QED
    BY <1>5, <1>8, <2>1 DEF Settling, Settles
<1>13. \A p \in Path : \A v : Owes(t, p, v) => Owes(u, p, v)
  <2> SUFFICES ASSUME NEW p \in Path, NEW v, Owes(t, p, v) PROVE Owes(u, p, v)
    OBVIOUS
  <2>1. CASE t.pending[p] # None
    BY <1>5, <2>1 DEF Owes
  <2>2. CASE t.pending[p] = None /\ InFlightOn(t, p) # {}
    <3>1. PICK y \in InFlightOn(t, p) : y.value = v /\ \A z \in InFlightOn(t, p) : z.seq <= y.seq
      BY <2>2 DEF Owes
    <3>2. PICK x \in u.inFlight : y.seq = x.seq /\ y.path = x.path /\ y.value = x.value
      BY <1>9, <3>1 DEF InFlightOn
    <3>3. x \in InFlightOn(u, p)
      BY <3>1, <3>2 DEF InFlightOn
    <3>4. \A z \in InFlightOn(u, p) : z.seq <= x.seq
      BY <1>8, <3>1, <3>2 DEF InFlightOn
    <3> QED
      BY <1>5, <2>2, <3>1, <3>2, <3>3, <3>4 DEF Owes
  <2>3. CASE t.pending[p] = None /\ InFlightOn(t, p) = {}
    <3>1. InFlightOn(u, p) = {}
      BY <1>8, <2>3 DEF InFlightOn
    <3> QED
      BY <1>5, <2>3, <3>1 DEF Owes
  <2> QED
    BY <2>1, <2>2, <2>3
<1>14. Follows(t, u)
  BY <1>1, <1>5, <1>8 DEF Follows
<1> QED
  BY <1>5, <1>7, <1>10, <1>11, <1>12, <1>13, <1>14 DEF Kept, Owing, Sends

\* onClosed: everything tracked is queued, and owed as before.
LEMMA ClosedKeeps ==
  ASSUME NEW t \in Tab, NEW o, NEW d, NEW n \in Nat, Kept(t, o, d, n)
  PROVE  /\ Closed(t) \in Tab /\ Kept(Closed(t), o, <<>>, n)
         /\ Closed(t).state = "closed" /\ Closed(t).up = <<>>
<1> DEFINE u == Closed(t)
           queue == Coalesced(t)
<1>1. /\ queue \in [Path -> MaybeEntry] /\ Bounded(queue, n)
      /\ \A p \in Path : \A v : Owes(t, p, v) => queue[p] # None /\ queue[p].value = v
  BY CoalescedOwes DEF Kept
<1>2. u = [t EXCEPT !.pending = NoEntries, !.inFlight = {}, !.offline = queue, !.state = "closed", !.up = <<>>]
  BY DEF Closed, Untracked, Tab
<1> HIDE DEF queue, u
<1>3. /\ u.pending = NoEntries /\ u.inFlight = {} /\ u.offline = queue /\ u.state = "closed"
      /\ u.up = <<>> /\ u.clientSeq = t.clientSeq
  BY <1>2 DEF Tab
<1>4. u \in Tab
  BY <1>1, <1>2, OutboxChanged
<1>5. Tracking(u, n) /\ Requesting(u) /\ Settling(u, o, <<>>)
  BY <1>1, <1>3, NothingPending DEF Tracking, Live, Requesting, Settling, Bounded
<1>6. Owing(u, o, n)
  <2>1. ASSUME NEW p \in Path, NEW v, Owes(t, p, v) PROVE Owes(u, p, v)
    <3>1. u.pending[p] = None /\ InFlightOn(u, p) = {} /\ u.offline[p] = queue[p]
      BY <1>3, NothingPending DEF InFlightOn
    <3>2. queue[p] # None /\ queue[p].value = v
      BY <1>1, <2>1
    <3> QED
      BY <3>1, <3>2 DEF Owes
  <2> QED
    BY <2>1 DEF Kept, Owing
<1> QED
  BY <1>3, <1>4, <1>5, <1>6 DEF Kept, u

\* A page just loaded owes nothing.
LEMMA NewTabKeeps ==
  ASSUME NEW j \in BOOLEAN, NEW w \in Nat \cup {NoOp}, NEW q \in Nat, NEW n \in Nat
  PROVE  LET u == NewTab(j, w, q)
         IN u \in Tab /\ Kept(u, NoEntries, <<>>, n) /\ u.state = "closed" /\ u.up = <<>> /\ u.project = Fresh
<1> DEFINE u == NewTab(j, w, q)
<1>1. Fresh \in Project
  <2>1. MaxEdits + MaxStrays \in Nat
    BY ClientSyncAssumption
  <2>2. 0 \in Value
    BY <2>1, ClientSyncAssumption
  <2> QED
    BY <2>2 DEF Fresh, Project
<1>2. [p \in Path |-> NoOp] \in [Path -> Nat \cup {NoOp}]
  OBVIOUS
<1>3. u \in Tab
  BY <1>1, <1>2, NothingPending DEF NewTab, Tab
<1>4. /\ u.pending = NoEntries /\ u.offline = NoEntries /\ u.inFlight = {} /\ u.state = "closed"
      /\ u.up = <<>> /\ u.project = Fresh
  BY DEF NewTab
<1> HIDE DEF u
<1>5. Tracking(u, n) /\ Requesting(u) /\ Settling(u, NoEntries, <<>>) /\ Owing(u, NoEntries, n)
  BY <1>4, NothingPending DEF Tracking, Live, Requesting, Settling, Owing
<1> QED
  BY <1>3, <1>4, <1>5 DEF Kept, u

\* An op that nothing is owed for leaves the outbox.
LEMMA SettledKeeps ==
  ASSUME NEW t \in Tab, NEW u \in Tab, NEW o, NEW d \in Seq(Reply), NEW n \in Nat, Kept(t, o, d, n), NEW q,
         \A e \in t.inFlight : e.seq = q => o[e.path] # e.value,
         u.inFlight = {e \in t.inFlight : e.seq # q},
         u.pending = t.pending, u.offline = t.offline, u.clientSeq = t.clientSeq, u.up = t.up, u.state = t.state
  PROVE  Kept(u, o, d, n) /\ Follows(t, u)
<1>1. Tracking(u, n)
  BY DEF Kept, Tracking, Live
<1>2. Requesting(u) /\ Settling(u, o, d)
  BY DEF Kept, Requesting, Settling, Settles
<1>3. \A p \in Path : o[p] # None /\ Owes(t, p, o[p]) => Owes(u, p, o[p])
  <2> SUFFICES ASSUME NEW p \in Path, o[p] # None, Owes(t, p, o[p]) PROVE Owes(u, p, o[p])
    OBVIOUS
  <2>1. CASE t.pending[p] # None
    BY <2>1 DEF Owes
  <2>2. CASE t.pending[p] = None /\ InFlightOn(t, p) # {}
    <3>1. PICK y \in InFlightOn(t, p) : y.value = o[p] /\ \A z \in InFlightOn(t, p) : z.seq <= y.seq
      BY <2>2 DEF Owes
    <3>2. y \in InFlightOn(u, p)
      BY <3>1 DEF InFlightOn
    <3>3. \A z \in InFlightOn(u, p) : z.seq <= y.seq
      BY <3>1 DEF InFlightOn
    <3> QED
      BY <2>2, <3>1, <3>2, <3>3 DEF Owes
  <2>3. CASE t.pending[p] = None /\ InFlightOn(t, p) = {}
    <3>1. InFlightOn(u, p) = {}
      BY <2>3 DEF InFlightOn
    <3> QED
      BY <2>3, <3>1 DEF Owes
  <2> QED
    BY <2>1, <2>2, <2>3
<1>4. Follows(t, u)
  BY DEF Follows, Tab
<1> QED
  BY <1>1, <1>2, <1>3, <1>4 DEF Kept, Owing

LEMMA WatermarkKeeps ==
  ASSUME NEW t \in Tab, NEW m \in Nat
  PROVE  RecordOpIdSeen(t, m) \in Tab /\ SameOutbox(t, RecordOpIdSeen(t, m))
<1>1. (IF t.joined /\ m > t.opIdLastSeen THEN m ELSE t.opIdLastSeen) \in Nat \cup {NoOp}
  BY DEF Tab
<1> QED
  BY <1>1 DEF RecordOpIdSeen, Tab, SameOutbox

\* What a tab has on its way, and the state of its connection, are as they were.
SameLine(t, u) == u.state = t.state /\ u.up = t.up

\* An op from the server: one that comes back to its sender ends the tracking of it.
LEMMA DispatchedKeeps ==
  ASSUME NEW t \in Tab, NEW o, NEW d \in Seq(Reply), NEW n \in Nat, Kept(t, o, d, n),
         NEW msg \in Reply, msg.type = "set", Settles(t, o, msg)
  PROVE  /\ Dispatched(t, msg) \in Tab /\ Kept(Dispatched(t, msg), o, d, n)
         /\ Follows(t, Dispatched(t, msg)) /\ SameLine(t, Dispatched(t, msg))
<1> DEFINE echoed == [t EXCEPT !.inFlight = {e \in @ : e.seq # msg.clientSeq}]
           skip == msg.clientSeq # 0 /\ HasPending(echoed, msg.path)
           taken == [echoed EXCEPT !.lastApplied[msg.path] = msg.opId,
                                   !.project[msg.path] = IF skip THEN @ ELSE msg.value]
           next == IF ~IsNews(t, msg) THEN echoed ELSE taken
<1>1. msg.opId \in Nat /\ msg.path \in Path /\ msg.value \in Value
  BY DEF Reply
<1>2. echoed \in Tab
  BY DEF Tab
<1>3. /\ echoed.inFlight = {e \in t.inFlight : e.seq # msg.clientSeq}
      /\ echoed.pending = t.pending /\ echoed.offline = t.offline /\ echoed.clientSeq = t.clientSeq
      /\ echoed.up = t.up /\ echoed.state = t.state
  BY DEF Tab
<1>4. \A e \in t.inFlight : e.seq = msg.clientSeq => o[e.path] # e.value
  BY DEF Settles
<1>5. Dispatched(t, msg) = RecordOpIdSeen(next, msg.opId)
  BY DEF Dispatched
<1>6. Kept(echoed, o, d, n) /\ Follows(t, echoed)
  <2> HIDE DEF echoed
  <2>1. Kept(echoed, o, d, n)
    BY <1>2, <1>3, <1>4, SettledKeeps
  <2>2. Follows(t, echoed)
    BY <1>2, <1>3 DEF Follows, Tab
  <2> QED
    BY <2>1, <2>2
<1> HIDE DEF echoed, skip
<1>7. taken \in Tab /\ SameOutbox(echoed, taken)
  BY <1>1, <1>2 DEF Tab, SameOutbox, Project
<1>8. echoed \in Tab /\ SameOutbox(echoed, echoed)
  BY <1>2 DEF SameOutbox
<1>9. next \in Tab /\ SameOutbox(echoed, next)
  BY <1>7, <1>8
<1> HIDE DEF next
<1>10. RecordOpIdSeen(next, msg.opId) \in Tab /\ SameOutbox(echoed, RecordOpIdSeen(next, msg.opId))
  BY <1>1, <1>9, WatermarkKeeps DEF SameOutbox
<1>11. Kept(RecordOpIdSeen(next, msg.opId), o, d, n) /\ Follows(echoed, RecordOpIdSeen(next, msg.opId))
  BY <1>2, <1>6, <1>10, KeptElsewhere
<1>12. Follows(t, RecordOpIdSeen(next, msg.opId))
  BY <1>2, <1>6, <1>10, <1>11, FollowsOn
<1> QED
  BY <1>3, <1>5, <1>10, <1>11, <1>12 DEF SameOutbox, SameLine

\* A refused op is no longer tracked, and nothing was owed for it.
LEMMA RolledBackKeeps ==
  ASSUME NEW t \in Tab, NEW o, NEW d \in Seq(Reply), NEW n \in Nat, Kept(t, o, d, n),
         NEW seq, \A e \in t.inFlight : e.seq = seq => o[e.path] # e.value
  PROVE  RolledBack(t, seq) \in Tab /\ Kept(RolledBack(t, seq), o, d, n) /\ SameLine(t, RolledBack(t, seq))
<1> DEFINE refused == {e \in t.inFlight : e.seq = seq}
           back == [p \in Path |-> IF \E e \in refused : e.path = p
                                   THEN (CHOOSE e \in refused : e.path = p).prior
                                   ELSE t.project[p]]
           u == RolledBack(t, seq)
<1>1. refused \subseteq Sent /\ t.project \in [Path -> Value]
  BY DEF Tab, Project
<1>2. u = [t EXCEPT !.inFlight = t.inFlight \ refused, !.project = back]
  BY DEF RolledBack
<1>3. t.inFlight \ refused = {e \in t.inFlight : e.seq # seq}
  OBVIOUS
<1> HIDE DEF refused
<1>4. back \in Project
  <2>1. \A p \in Path : (\E e \in refused : e.path = p) => (CHOOSE e \in refused : e.path = p) \in Sent
    BY <1>1
  <2>2. \A e \in Sent : e.prior \in Value
    BY DEF Sent
  <2> QED
    BY <1>1, <2>1, <2>2 DEF Project
<1> HIDE DEF back, u
<1>5. u \in Tab
  BY <1>2, <1>4 DEF Tab
<1>6. /\ u.inFlight = {e \in t.inFlight : e.seq # seq} /\ u.pending = t.pending /\ u.offline = t.offline
      /\ u.clientSeq = t.clientSeq /\ u.up = t.up /\ u.state = t.state
  BY <1>2, <1>3 DEF Tab
<1>7. Kept(u, o, d, n)
  BY <1>5, <1>6, SettledKeeps
<1> QED
  BY <1>5, <1>6, <1>7 DEF SameLine, u

\* reassertPending: what was tracked is queued or sent again, and owed as before.
LEMMA ReassertKeeps ==
  ASSUME NEW t \in Tab, NEW o, NEW d \in Seq(Reply), NEW n \in Nat, Kept(t, o, d, n)
  PROVE  LET u == Reassert(t) IN u \in Tab /\ Kept(u, o, d, n) /\ Sends(t, u)
<1> DEFINE entries == Coalesced(t)
           onTop == [p \in Path |-> IF entries[p] # None THEN entries[p].value ELSE t.project[p]]
           s == [Untracked(t) EXCEPT !.project = onTop]
<1>1. /\ entries \in [Path -> MaybeEntry] /\ Bounded(entries, n)
      /\ \A p \in Path : \A v : Owes(t, p, v) => entries[p] # None /\ entries[p].value = v
  BY CoalescedOwes DEF Kept
<1>2. Reassert(t) = FlushAll(s, entries)
  BY DEF Reassert, Untracked, Tab
<1>3. s = [t EXCEPT !.pending = NoEntries, !.inFlight = {}, !.offline = NoEntries, !.project = onTop]
  BY DEF Untracked, Tab
<1> HIDE DEF entries
<1>4. onTop \in Project
  BY <1>1, EntryFields DEF Tab, Project
<1> HIDE DEF onTop, s
<1>5. s \in Tab
  BY <1>3, <1>4, NothingPending DEF Tab
<1>6. /\ s.pending = NoEntries /\ s.inFlight = {} /\ s.offline = NoEntries /\ s.clientSeq = t.clientSeq
      /\ s.state = t.state /\ s.up = t.up
  BY <1>3 DEF Tab
<1>7. Tracking(s, n) /\ Requesting(s) /\ Settling(s, o, d)
  BY <1>6, NothingPending DEF Kept, Tracking, Requesting, Settling, Settles
<1>8. Flushed(s, FlushAll(s, entries), entries, o, d, n)
  BY <1>1, <1>5, <1>7, Flushing
<1> DEFINE u == FlushAll(s, entries)
<1> HIDE DEF u
<1>9. Flushed(s, u, entries, o, d, n)
  BY <1>8 DEF u
<1>10. \A p \in Path : \A v : Owes(t, p, v) => Owes(u, p, v)
  BY <1>1, <1>9 DEF Flushed
<1>11. u \in Tab /\ Kept(u, o, d, n) /\ Sends(t, u)
  BY <1>6, <1>9, <1>10 DEF Flushed, Kept, Owing, Sends, Live
<1> QED
  BY <1>2, <1>11 DEF u

\* sync.complete: the queue goes out on a connection that has nothing else to send.
LEMMA CompleteKeeps ==
  ASSUME NEW t \in Tab, NEW o, NEW d \in Seq(Reply), NEW n \in Nat, Kept(t, o, d, n),
         \A i \in 1..Len(t.up) : t.up[i].type # "hello",
         NEW live, live = [t EXCEPT !.state = "live", !.syncReady = TRUE]
  PROVE  LET u == FlushAll([live EXCEPT !.offline = NoEntries], live.offline)
         IN u \in Tab /\ Kept(u, o, d, n) /\ Follows(t, u) /\ u.state = "live"
<1> DEFINE s == [live EXCEPT !.offline = NoEntries]
           queue == t.offline
<1>1. queue \in [Path -> MaybeEntry] /\ live.offline = queue
  BY DEF Tab
<1>2. live \in Tab
  BY DEF Tab
<1>3. s \in Tab
  BY <1>2, NothingPending DEF Tab
<1>4. /\ s.pending = t.pending /\ s.inFlight = t.inFlight /\ s.offline = NoEntries
      /\ s.clientSeq = t.clientSeq /\ s.state = "live" /\ s.up = t.up
  BY DEF Tab
<1> HIDE DEF s
<1>5. Tracking(s, n)
  BY <1>4, NothingPending DEF Kept, Tracking, Live
<1>6. Requesting(s) /\ Settling(s, o, d)
  BY <1>4 DEF Kept, Requesting, Settling, Settles
<1>7. Bounded(queue, n)
  BY DEF Kept, Tracking, Bounded
<1> DEFINE u == FlushAll(s, queue)
<1> HIDE DEF queue
<1>8. Flushed(s, u, queue, o, d, n)
  BY <1>1, <1>3, <1>5, <1>6, <1>7, Flushing
<1> HIDE DEF u
<1>9. ASSUME NEW p \in Path, NEW v, Owes(t, p, v)
      PROVE  Owes(u, p, v)
  <2>1. CASE Live(t)
    <3>1. queue[p] = None /\ Owes(s, p, v)
      BY <1>4, <1>9, <2>1, NothingPending DEF Kept, Tracking, Owes, InFlightOn, queue
    <3> QED
      BY <1>8, <3>1 DEF Flushed
  <2>2. CASE ~Live(t)
    <3>1. queue[p] # None /\ queue[p].value = v
      BY <1>9, <2>2, NothingPending DEF Kept, Tracking, Owes, InFlightOn, queue
    <3> QED
      BY <1>8, <3>1 DEF Flushed
  <2> QED
    BY <2>1, <2>2
<1>10. u \in Tab /\ Kept(u, o, d, n) /\ u.state = "live"
  BY <1>4, <1>8, <1>9 DEF Flushed, Kept, Owing, Sends
<1>11. Follows(t, u)
  BY <1>4, <1>8 DEF Flushed, Follows
<1> QED
  BY <1>1, <1>10, <1>11 DEF s, u

\* A socket opens with a hello, and a welcome answers it, while nothing is tracked but the queue.
Hailing(t, f) == [t EXCEPT !.state = "opening", !.up = <<[type |-> "hello", resumeFrom |-> f]>>]

LEMMA ConnectKeeps ==
  ASSUME NEW t \in Tab, NEW o, NEW d, NEW n, Kept(t, o, d, n), t.state = "closed",
         NEW f \in Nat \cup {NoOp}
  PROVE  Hailing(t, f) \in Tab /\ Kept(Hailing(t, f), o, d, n) /\ Hailing(t, f).state = "opening"
<1> DEFINE hello == [type |-> "hello", resumeFrom |-> f]
           u == Hailing(t, f)
<1>1. hello \in Request /\ hello.type = "hello"
  BY DEF Request
<1>2. u = [t EXCEPT !.state = "opening", !.up = <<hello>>]
  BY DEF Hailing
<1> HIDE DEF hello, u
<1>3. /\ u.pending = t.pending /\ u.offline = t.offline /\ u.inFlight = t.inFlight
      /\ u.clientSeq = t.clientSeq /\ u.state = "opening" /\ u.up = <<hello>>
  BY <1>2 DEF Tab
<1>4. u \in Tab
  <2> DEFINE m == <<hello>>
  <2>1. m \in Seq(Request) /\ u = [t EXCEPT !.state = "opening", !.up = m]
    BY <1>1, <1>2
  <2> HIDE DEF m
  <2>2. [t EXCEPT !.state = "opening", !.up = m] \in Tab
    BY <2>1, Opened
  <2> QED
    BY <2>1, <2>2, Zenon
<1>5. Requesting(u)
  BY <1>1, <1>3 DEF Requesting
<1>6. Tracking(u, n) /\ Settling(u, o, d) /\ Owing(u, o, n)
  BY <1>3 DEF Kept, Tracking, Live, Settling, Settles, Owing, Owes, InFlightOn
<1> QED
  BY <1>3, <1>4, <1>5, <1>6 DEF Kept, u

LEMMA WelcomeKeeps ==
  ASSUME NEW t \in Tab, NEW o, NEW d, NEW n, Kept(t, o, d, n), ~Live(t),
         \A i \in 1..Len(t.up) : t.up[i].type # "hello"
  PROVE  LET u == [t EXCEPT !.state = "catching-up", !.joined = TRUE]
         IN u \in Tab /\ Kept(u, o, d, n) /\ u.state = "catching-up" /\ u.up = t.up
<1> DEFINE u == [t EXCEPT !.state = "catching-up", !.joined = TRUE]
<1>1. /\ u.pending = t.pending /\ u.offline = t.offline /\ u.inFlight = t.inFlight
      /\ u.clientSeq = t.clientSeq /\ u.state = "catching-up" /\ u.up = t.up
  BY DEF Tab
<1>2. u \in Tab
  BY DEF Tab
<1> HIDE DEF u
<1>3. Requesting(u)
  BY <1>1 DEF Kept, Requesting
<1>4. Tracking(u, n) /\ Settling(u, o, d) /\ Owing(u, o, n)
  BY <1>1 DEF Kept, Tracking, Live, Settling, Settles, Owing, Owes, InFlightOn
<1> QED
  BY <1>1, <1>2, <1>3, <1>4 DEF Kept, u
-----------------------------------------------------------------------------
(* The hello and its answers *)

\* A closed tab has nothing on its way; a welcome and a sync.complete answer a hello that is no
\* longer on its way, in this order, and only a tab that is not live is welcomed.
Handshake(t, d) ==
  /\ t.state = "closed" => d = <<>> /\ t.up = <<>>
  /\ \A i \in 1..Len(d) :
       /\ d[i].type \in {"welcome", "complete"} => \A j \in 1..Len(t.up) : t.up[j].type # "hello"
       /\ d[i].type = "welcome" => ~Live(t) /\ \A j \in 1..i : d[j].type # "complete"

LEMMA HandshakeSends ==
  ASSUME NEW t, NEW u, NEW d, Handshake(t, d), Sends(t, u), Requesting(u)
  PROVE  Handshake(u, d)
<1>1. Live(t) => \A j \in 1..Len(u.up) : u.up[j].type # "hello"
  BY DEF Sends, Requesting, Live
<1> QED
  BY <1>1 DEF Handshake, Sends, Live

\* The server takes a frame from the tab.
LEMMA HandshakeTaken ==
  ASSUME NEW t \in Tab, NEW d, Handshake(t, d), t.up # <<>>, NEW u, u = [t EXCEPT !.up = Tail(@)]
  PROVE  Handshake(u, d) /\ u.state = t.state /\ t.state # "closed"
<1> DEFINE up == t.up
<1>1. up \in Seq(Request) /\ up # <<>>
  BY DEF Tab
<1>2. u.up = Tail(up) /\ u.state = t.state
  BY DEF Tab
<1> HIDE DEF up
<1>3. \A i \in 1..Len(Tail(up)) : i + 1 \in 1..Len(up) /\ Tail(up)[i] = up[i + 1]
  BY <1>1, Shortened
<1>4. (\A j \in 1..Len(up) : up[j].type # "hello") => \A j \in 1..Len(Tail(up)) : Tail(up)[j].type # "hello"
  BY <1>3
<1>5. t.state # "closed"
  BY <1>1 DEF Handshake, up
<1> QED
  BY <1>2, <1>4, <1>5 DEF Handshake, Live, up

\* The tab takes a frame from the server.
LEMMA HandshakeReceived ==
  ASSUME NEW t, NEW d \in Seq(Reply), d # <<>>, Handshake(t, d)
  PROVE  /\ Handshake(t, Tail(d)) /\ t.state # "closed"
         /\ Head(d).type \in {"welcome", "complete"} => \A j \in 1..Len(t.up) : t.up[j].type # "hello"
         /\ Head(d).type = "welcome" => ~Live(t)
         /\ Head(d).type = "complete" => \A i \in 1..Len(Tail(d)) : Tail(d)[i].type # "welcome"
<1>1. /\ 1 \in 1..Len(d) /\ Head(d) = d[1] /\ Len(Tail(d)) \in Nat
      /\ \A i \in 1..Len(Tail(d)) : i + 1 \in 1..Len(d) /\ Tail(d)[i] = d[i + 1]
  BY Shortened
<1>2. ASSUME NEW i \in 1..Len(Tail(d)), Tail(d)[i].type = "welcome"
      PROVE  ~Live(t) /\ d[1].type # "complete" /\ \A j \in 1..i : Tail(d)[j].type # "complete"
  <2>1. i + 1 \in 1..Len(d) /\ d[i + 1].type = "welcome"
    BY <1>1, <1>2
  <2>2. ~Live(t) /\ \A j \in 1..(i + 1) : d[j].type # "complete"
    BY <2>1 DEF Handshake
  <2>3. 1 \in 1..(i + 1) /\ \A j \in 1..i : j + 1 \in 1..(i + 1) /\ j \in 1..Len(Tail(d))
    BY <1>1
  <2> QED
    BY <1>1, <2>2, <2>3
<1>3. t.state # "closed"
  BY DEF Handshake
<1>4. Handshake(t, Tail(d))
  BY <1>1, <1>2, <1>3 DEF Handshake
<1> QED
  BY <1>1, <1>2, <1>3, <1>4 DEF Handshake

\* An open tab is sent ops, snapshots and nacks at any time.
LEMMA HandshakeAnswered ==
  ASSUME NEW t, NEW d \in Seq(Reply), NEW m \in Reply, Handshake(t, d), t.state # "closed",
         m.type \notin {"welcome", "complete"}
  PROVE  Handshake(t, Append(d, m))
<1>1. /\ Len(d) \in Nat /\ Len(Append(d, m)) = Len(d) + 1
      /\ \A i \in 1..Len(Append(d, m)) : \/ i \in 1..Len(d) /\ Append(d, m)[i] = d[i]
                                         \/ i = Len(d) + 1 /\ Append(d, m)[i] = m
  BY Appended
<1>2. \A i \in 1..Len(d) : i \in 1..Len(Append(d, m)) /\ Append(d, m)[i] = d[i] /\ \A j \in 1..i : j \in 1..Len(d)
  BY <1>1
<1>3. ASSUME NEW i \in 1..Len(Append(d, m))
      PROVE  LET e == Append(d, m)
             IN /\ e[i].type \in {"welcome", "complete"} => \A j \in 1..Len(t.up) : t.up[j].type # "hello"
                /\ e[i].type = "welcome" => ~Live(t) /\ \A j \in 1..i : e[j].type # "complete"
  <2>1. CASE i \in 1..Len(d) /\ Append(d, m)[i] = d[i]
    BY <1>2, <2>1 DEF Handshake
  <2>2. CASE Append(d, m)[i] = m
    BY <2>2
  <2> QED
    BY <1>1, <2>1, <2>2
<1> QED
  BY <1>3 DEF Handshake

\* The answer to a hello: a welcome, and behind it what catches the tab up.
LEMMA HandshakeWelcomed ==
  ASSUME NEW t \in Tab, NEW u, NEW d \in Seq(Reply), NEW w \in Reply, NEW m \in Seq(Reply), Handshake(t, d),
         NEW i \in 1..Len(t.up), t.up[i].type = "hello", t.state = "opening",
         u.state = t.state, \A j \in 1..Len(u.up) : u.up[j].type # "hello",
         w.type = "welcome", \A j \in 1..Len(m) : m[j].type # "welcome"
  PROVE  (d \o <<w>>) \o m \in Seq(Reply) /\ Handshake(u, (d \o <<w>>) \o m)
<1> DEFINE one == <<w>>
           e == d \o one
           f == e \o m
<1>1. one \in Seq(Reply) /\ Len(one) = 1 /\ one[1] = w
  OBVIOUS
<1> HIDE DEF one
<1>2. /\ e \in Seq(Reply) /\ Len(e) = Len(d) + 1 /\ Len(d) \in Nat
      /\ \A j \in 1..Len(e) : \/ j \in 1..Len(d) /\ e[j] = d[j]
                              \/ j = Len(d) + 1 /\ e[j] = w
  <2>1. /\ e \in Seq(Reply) /\ Len(e) = Len(d) + Len(one)
        /\ \A j \in 1..Len(e) : \/ j \in 1..Len(d) /\ e[j] = d[j]
                                \/ \E k \in 1..Len(one) : j = Len(d) + k /\ e[j] = one[k]
    BY <1>1, RepliesJoined
  <2> QED
    BY <1>1, <2>1
<1> HIDE DEF e
<1>3. /\ f \in Seq(Reply) /\ Len(f) = Len(e) + Len(m) /\ Len(e) \in Nat /\ Len(m) \in Nat
      /\ \A j \in 1..Len(f) : \/ j \in 1..Len(e) /\ f[j] = e[j]
                              \/ \E k \in 1..Len(m) : j = Len(e) + k /\ f[j] = m[k]
  <2>1. /\ f \in Seq(Reply) /\ Len(f) = Len(e) + Len(m)
        /\ \A j \in 1..Len(f) : \/ j \in 1..Len(e) /\ f[j] = e[j]
                                \/ \E k \in 1..Len(m) : j = Len(e) + k /\ f[j] = m[k]
    BY <1>2, RepliesJoined
  <2>2. Len(m) \in Nat /\ Len(e) \in Nat
    BY <1>2
  <2> HIDE DEF f
  <2> QED
    BY <2>1, <2>2, Zenon
<1> HIDE DEF f
<1>4. \A j \in 1..Len(d) : d[j].type \notin {"welcome", "complete"}
  BY DEF Handshake
<1>5. \A j \in 1..Len(e) : e[j].type # "complete"
  BY <1>2, <1>4
<1>6. ASSUME NEW j \in 1..Len(f), f[j].type = "welcome"
      PROVE  ~Live(u) /\ \A k \in 1..j : f[k].type # "complete"
  <2>1. j \in 1..Len(e)
    BY <1>3, <1>6
  <2>2. \A k \in 1..j : k \in 1..Len(e) /\ k \in 1..Len(f) /\ ~(\E l \in 1..Len(m) : k = Len(e) + l)
    BY <1>3, <2>1
  <2>3. \A k \in 1..j : f[k] = e[k]
    BY <1>3, <2>2
  <2> QED
    BY <1>5, <2>2, <2>3 DEF Live
<1>7. Handshake(u, f)
  BY <1>6 DEF Handshake
<1> QED
  BY <1>3, <1>7 DEF e, f, one
-----------------------------------------------------------------------------
(* The room *)

RoomTyped == room \in Room /\ room.nextOpId # 0

LEMMA OpAppended ==
  ASSUME NEW r \in Room, NEW c \in Client, NEW seq \in Nat, NEW p \in Path, NEW v \in Value
  PROVE  AppendOp(r, c, seq, p, v) \in Room /\ AppendOp(r, c, seq, p, v).nextOpId = r.nextOpId + 1
<1> DEFINE op == [opId |-> r.nextOpId, clientId |-> c, clientSeq |-> seq, path |-> p, value |-> v]
           pushed == Append(r.opLog, op)
           log == Evict(pushed)
           index == Reindex(r.opIndex, op, {pushed[i] : i \in 1..Excess(pushed)})
           next == r.nextOpId + 1
           ver == r.version + 1
           proj == [r.project EXCEPT ![p] = v]
<1>1. op \in Op /\ r.opLog \in Seq(Op) /\ r.opIndex \in SUBSET Op /\ next \in Nat /\ ver \in Nat
  BY DEF Op, Room
<1>2. proj \in Project
  BY DEF Room, Project
<1>3. AppendOp(r, c, seq, p, v) =
        [project |-> proj, opLog |-> log, opIndex |-> index, nextOpId |-> next, dirty |-> TRUE, version |-> ver]
  BY DEF AppendOp
<1> HIDE DEF op
<1>4. index \in SUBSET Op
  BY <1>1 DEF Reindex
<1>5. pushed \in Seq(Op)
  BY <1>1, Appended
<1> HIDE DEF pushed
<1>6. log \in Seq(Op)
  <2>1. Len(pushed) \in Nat /\ Excess(pushed) \in Nat /\ Capacity \in Nat
    BY <1>5, CapacityAssumption DEF Excess
  <2>2. \A i \in (Excess(pushed) + 1)..Len(pushed) : pushed[i] \in Op
    BY <1>5, <2>1
  <2> QED
    BY <1>5, <2>1, <2>2 DEF Evict
<1> HIDE DEF log, index, next, ver, proj
<1>7. AppendOp(r, c, seq, p, v) \in Room /\ AppendOp(r, c, seq, p, v).nextOpId = next
  BY <1>1, <1>2, <1>3, <1>4, <1>6 DEF Room
<1> QED
  BY <1>7 DEF next

\* sendCatchUp sends ops under no clientSeq.
LEMMA CatchUpReplies ==
  ASSUME RoomTyped, NEW from
  PROVE  /\ CatchUp(from) \in Seq(Reply)
         /\ \A i \in 1..Len(CatchUp(from)) :
              /\ CatchUp(from)[i].type \in {"snapshot", "set", "complete"}
              /\ CatchUp(from)[i].type = "set" => CatchUp(from)[i].clientSeq = 0
<1> DEFINE head == OpIdHead(room)
           log == room.opLog
           since == Cardinality(OpsSince(room, from))
           F == {m \in Reply : m.type \in {"snapshot", "set", "complete"} /\ (m.type = "set" => m.clientSeq = 0)}
           replay == [i \in 1..since |-> Echo(log[Len(log) - since + i], 0)]
           snapshot == [type |-> "snapshot", opId |-> head, project |-> room.project]
           complete == [type |-> "complete", opId |-> head]
           first == IF 0 <= from /\ from <= head /\ CanReplay(room, from) THEN replay ELSE <<snapshot>>
           last == <<complete>>
<1>1. CatchUp(from) = first \o last
  BY DEF CatchUp
<1>2. head \in Nat /\ log \in Seq(Op) /\ room.project \in Project /\ Len(log) \in Nat
  BY DEF RoomTyped, Room, OpIdHead
<1>3. snapshot \in F /\ complete \in F
  BY <1>2 DEF Reply
<1>4. since \in Nat /\ since <= Len(log)
  <2> DEFINE S == {log[i] : i \in 1..Len(log)}
             f == [i \in 1..Len(log) |-> log[i]]
  <2>1. IsFiniteSet(1..Len(log)) /\ Cardinality(1..Len(log)) = Len(log)
    <3>1. \A n \in Nat : IsFiniteSet(1..n) /\ Cardinality(1..n) = n
      BY FS_Interval
    <3> QED
      BY <1>2, <3>1, Zenon
  <2>2. f \in Surjection(1..Len(log), S)
    BY <1>2 DEF Surjection
  <2>3. IsFiniteSet(S) /\ Cardinality(S) <= Len(log)
    BY <2>1, <2>2, FS_Surjection
  <2>4. OpsSince(room, from) \subseteq S
    BY <1>2 DEF OpsSince
  <2> HIDE DEF S
  <2>5. IsFiniteSet(OpsSince(room, from)) /\ Cardinality(OpsSince(room, from)) <= Cardinality(S)
    BY <2>3, <2>4, FS_Subset
  <2>6. Cardinality(OpsSince(room, from)) \in Nat /\ Cardinality(S) \in Nat
    BY <2>3, <2>5, FS_CardinalityType
  <2> QED
    BY <1>2, <2>3, <2>5, <2>6
<1> HIDE DEF since
<1>5. ASSUME NEW i \in 1..since
      PROVE  Echo(log[Len(log) - since + i], 0) \in F
  <2>1. Len(log) - since + i \in 1..Len(log)
    BY <1>2, <1>4
  <2>2. log[Len(log) - since + i] \in Op
    BY <1>2, <2>1, ElementOfSeq
  <2> QED
    BY <2>2 DEF Op, Echo, Reply
<1> HIDE DEF F, snapshot, complete
<1>6. replay \in Seq(F)
  <2>1. replay \in [1..since -> F]
    BY <1>5
  <2> HIDE DEF replay
  <2> QED
    BY <1>4, <2>1
<1>7. first \in Seq(F) /\ last \in Seq(F)
  BY <1>3, <1>6
<1> HIDE DEF first, last
<1>8. first \o last \in Seq(F)
  BY <1>7, ConcatProperties
<1> DEFINE s == CatchUp(from)
<1> HIDE DEF s
<1>9. s \in Seq(F)
  BY <1>1, <1>8 DEF s
<1>10. F \subseteq Reply
  BY DEF F
<1>11. s \in Seq(Reply) /\ \A i \in 1..Len(s) : s[i] \in F
  BY <1>9, <1>10, ElementOfSeq
<1> QED
  BY <1>11 DEF F, s
-----------------------------------------------------------------------------
(* The invariant *)

TabsTyped ==
  /\ tab \in [Client -> Tab]
  /\ down \in [Client -> Seq(Reply)]
  /\ owed \in [Client -> [Path -> MaybeValue]]

TabsKept == \A c \in Client : Kept(tab[c], owed[c], down[c], Edits) /\ Handshake(tab[c], down[c])

SpentWithin ==
  spent \in [edits : 0..MaxEdits, drops : 0..MaxDrops, reloads : 0..MaxReloads, restarts : 0..MaxRestarts,
             nacks : 0..MaxNacks, strays : 0..MaxStrays]

ClientSets == gapped \cup excused \subseteq Client

IInv == RoomTyped /\ TabsTyped /\ TabsKept /\ SpentWithin /\ ClientSets

LEMMA IInvImplies == IInv => TypeOK /\ NoEditLost
<1> SUFFICES ASSUME IInv PROVE TypeOK /\ NoEditLost
  OBVIOUS
<1>1. TypeOK
  BY DEF IInv, RoomTyped, TabsTyped, TabsKept, Kept, Tracking, ClientSets, TypeOK, MaybeValue
<1>2. NoEditLost
  <2> SUFFICES ASSUME NEW c \in Client, NEW p \in Path, owed[c][p] # None
               PROVE  HasPending(tab[c], p) /\ Newest(tab[c], p).value = owed[c][p]
    BY DEF NoEditLost
  <2>1. tab[c] \in Tab /\ Tracking(tab[c], Edits) /\ Owes(tab[c], p, owed[c][p])
    BY DEF IInv, TabsTyped, TabsKept, Kept, Owing
  <2> QED
    BY <2>1, NewestIsOwed
<1> QED
  BY <1>1, <1>2

LEMMA EditsCounted ==
  ASSUME SpentWithin
  PROVE  /\ Edits \in Nat /\ spent.edits \in Nat /\ spent.strays \in Nat
         /\ spent.edits < MaxEdits \/ spent.strays < MaxStrays => Edits + 1 \in Value
<1>1. MaxEdits \in Nat /\ MaxStrays \in Nat /\ 0..(MaxEdits + MaxStrays) \subseteq Value
  BY ClientSyncAssumption
<1>2. spent.edits \in 0..MaxEdits /\ spent.strays \in 0..MaxStrays
  BY DEF SpentWithin
<1>3. Edits \in Nat /\ (spent.edits < MaxEdits \/ spent.strays < MaxStrays => Edits + 1 \in 0..(MaxEdits + MaxStrays))
  BY <1>1, <1>2 DEF Edits
<1> QED
  BY <1>1, <1>2, <1>3

\* A bound is used up one by one; only an edit makes the newest edit another.
LEMMA Counted ==
  ASSUME SpentWithin
  PROVE  /\ (\/ Mishap("drops", MaxDrops) \/ Mishap("reloads", MaxReloads) \/ Mishap("restarts", MaxRestarts)
             \/ Mishap("nacks", MaxNacks) \/ UNCHANGED spent)
              => SpentWithin' /\ Edits' = Edits
         /\ (\/ Mishap("strays", MaxStrays)
             \/ spent.edits < MaxEdits /\ spent' = [spent EXCEPT !.edits = @ + 1])
              => SpentWithin' /\ Edits' = Edits + 1
<1>1. /\ MaxEdits \in Nat /\ MaxStrays \in Nat /\ MaxDrops \in Nat /\ MaxReloads \in Nat
      /\ MaxRestarts \in Nat /\ MaxNacks \in Nat
  BY ClientSyncAssumption
<1>2. spent.edits \in 0..MaxEdits /\ spent.strays \in 0..MaxStrays
  BY DEF SpentWithin
<1>3. (\/ Mishap("drops", MaxDrops) \/ Mishap("reloads", MaxReloads)
       \/ Mishap("restarts", MaxRestarts) \/ Mishap("nacks", MaxNacks))
      => SpentWithin' /\ Edits' = Edits
  BY <1>1 DEF SpentWithin, Mishap, Edits
<1>4. UNCHANGED spent => SpentWithin' /\ Edits' = Edits
  BY DEF SpentWithin, Edits
<1>5. ASSUME Mishap("strays", MaxStrays)
      PROVE  SpentWithin' /\ Edits' = Edits + 1
  <2>1. spent' = [spent EXCEPT !.strays = spent.strays + 1] /\ spent.strays < MaxStrays
    BY <1>5 DEF Mishap
  <2>2. spent.strays + 1 \in 0..MaxStrays
    BY <1>1, <1>2, <2>1
  <2>3. SpentWithin' /\ spent'.strays = spent.strays + 1 /\ spent'.edits = spent.edits
    BY <2>1, <2>2 DEF SpentWithin
  <2>4. spent.edits + (spent.strays + 1) = (spent.edits + spent.strays) + 1
    BY <1>1, <1>2
  <2> QED
    BY <2>3, <2>4 DEF Edits
<1>6. ASSUME spent.edits < MaxEdits, spent' = [spent EXCEPT !.edits = @ + 1]
      PROVE  SpentWithin' /\ Edits' = Edits + 1
  <2>1. spent.edits + 1 \in 0..MaxEdits
    BY <1>1, <1>2, <1>6
  <2>2. SpentWithin' /\ spent'.strays = spent.strays /\ spent'.edits = spent.edits + 1
    BY <1>6, <2>1 DEF SpentWithin
  <2>3. (spent.edits + 1) + spent.strays = (spent.edits + spent.strays) + 1
    BY <1>1, <1>2
  <2> QED
    BY <2>2, <2>3 DEF Edits
<1> QED
  BY <1>3, <1>4, <1>5, <1>6

\* What is true of a tab stays so when others have made later edits.
LEMMA KeptLater ==
  ASSUME NEW t \in Tab, NEW o \in [Path -> MaybeValue], NEW d, NEW n \in Nat, NEW m \in Nat, n <= m,
         Kept(t, o, d, n)
  PROVE  Kept(t, o, d, m)
<1>1. \A v \in Value : v <= n => v <= m
  BY ClientSyncAssumption
<1>2. Tracking(t, m)
  <2>1. \A e \in t.inFlight : e.value \in Value
    BY DEF Tab, Sent
  <2>2. \A p \in Path : /\ t.pending[p] # None => t.pending[p].value \in Value
                        /\ t.offline[p] # None => t.offline[p].value \in Value
    BY EntryFields DEF Tab
  <2> QED
    BY <1>1, <2>1, <2>2 DEF Kept, Tracking
<1>3. Owing(t, o, m)
  BY <1>1 DEF Kept, Owing, MaybeValue
<1> QED
  BY <1>2, <1>3 DEF Kept

\* A step that changes one tab.
LEMMA OneTab ==
  ASSUME SpentWithin, SpentWithin', Edits <= Edits', TabsTyped, TabsTyped', TabsKept, NEW c \in Client,
         \A b \in Client \ {c} : tab'[b] = tab[b] /\ down'[b] = down[b] /\ owed'[b] = owed[b],
         Kept(tab'[c], owed'[c], down'[c], Edits'), Handshake(tab'[c], down'[c])
  PROVE  TabsKept'
<1>1. Edits \in Nat /\ Edits' \in Nat
  BY EditsCounted DEF SpentWithin, Edits
<1>2. ASSUME NEW b \in Client \ {c}
      PROVE  Kept(tab[b], owed[b], down[b], Edits') /\ Handshake(tab[b], down[b])
  <2>1. tab[b] \in Tab /\ owed[b] \in [Path -> MaybeValue] /\ Kept(tab[b], owed[b], down[b], Edits)
    BY DEF TabsTyped, TabsKept
  <2>2. Handshake(tab[b], down[b])
    BY DEF TabsKept
  <2> QED
    BY <1>1, <2>1, <2>2, KeptLater
<1>3. \A b \in Client : Kept(tab'[b], owed'[b], down'[b], Edits') /\ Handshake(tab'[b], down'[b])
  BY <1>2
<1> QED
  BY <1>3 DEF TabsKept

LEMMA OfTab ==
  ASSUME IInv, NEW c \in Client
  PROVE  /\ tab[c] \in Tab /\ owed[c] \in [Path -> MaybeValue] /\ down[c] \in Seq(Reply)
         /\ Edits \in Nat /\ Kept(tab[c], owed[c], down[c], Edits) /\ Handshake(tab[c], down[c])
BY EditsCounted DEF IInv, TabsTyped, TabsKept

\* A step that changes at most c's tab, what it owes and what is on its way to it.
StepOf(c, u, o, d) ==
  /\ tab' = [tab EXCEPT ![c] = u] \/ (tab' = tab /\ u = tab[c])
  /\ owed' = [owed EXCEPT ![c] = o] \/ (owed' = owed /\ o = owed[c])
  /\ down' = [down EXCEPT ![c] = d] \/ (down' = down /\ d = down[c])
  /\ u \in Tab /\ o \in [Path -> MaybeValue] /\ d \in Seq(Reply)
  /\ Kept(u, o, d, Edits') /\ Handshake(u, d)
  /\ RoomTyped' /\ SpentWithin' /\ Edits' \in {Edits, Edits + 1} /\ ClientSets'

LEMMA Stepped ==
  ASSUME IInv, NEW c \in Client, NEW u, NEW o, NEW d, StepOf(c, u, o, d)
  PROVE  IInv'
<1> USE DEF StepOf
<1>1. TabsTyped
  BY DEF IInv
<1>2. tab' \in [Client -> Tab] /\ tab'[c] = u /\ \A b \in Client \ {c} : tab'[b] = tab[b]
  BY <1>1 DEF TabsTyped
<1>3. owed' \in [Client -> [Path -> MaybeValue]] /\ owed'[c] = o /\ \A b \in Client \ {c} : owed'[b] = owed[b]
  BY <1>1 DEF TabsTyped
<1>4. down' \in [Client -> Seq(Reply)] /\ down'[c] = d /\ \A b \in Client \ {c} : down'[b] = down[b]
  BY <1>1 DEF TabsTyped
<1>5. TabsTyped'
  BY <1>2, <1>3, <1>4 DEF TabsTyped
<1>6. Edits <= Edits'
  BY EditsCounted DEF IInv
<1>7. TabsKept /\ SpentWithin
  BY DEF IInv
<1>8. Kept(tab'[c], owed'[c], down'[c], Edits') /\ Handshake(tab'[c], down'[c])
  BY <1>2, <1>3, <1>4
<1>9. \A b \in Client \ {c} : tab'[b] = tab[b] /\ down'[b] = down[b] /\ owed'[b] = owed[b]
  BY <1>2, <1>3, <1>4
<1>10. TabsKept'
  BY <1>1, <1>5, <1>6, <1>7, <1>8, <1>9, OneTab
<1> QED
  BY <1>5, <1>10 DEF IInv

LEMMA Unspent ==
  ASSUME IInv
  PROVE  /\ UNCHANGED spent => SpentWithin' /\ Edits' = Edits
         /\ UNCHANGED room => RoomTyped'
         /\ UNCHANGED <<gapped, excused>> => ClientSets'
<1>1. SpentWithin
  BY DEF IInv
<1>2. UNCHANGED spent => SpentWithin' /\ Edits' = Edits
  BY ONLY <1>1, Counted, Zenon
<1>3. UNCHANGED room => RoomTyped'
  BY DEF IInv, RoomTyped
<1>4. UNCHANGED <<gapped, excused>> => ClientSets'
  BY DEF IInv, ClientSets
<1> QED
  BY <1>2, <1>3, <1>4

LEMMA ConnectStep ==
  ASSUME IInv, NEW c \in Client, Connect(c)
  PROVE  IInv'
<1> DEFINE f == ResumeFrom(tab[c])
           u == Hailing(tab[c], f)
<1>1. /\ tab[c] \in Tab /\ owed[c] \in [Path -> MaybeValue] /\ down[c] \in Seq(Reply)
      /\ Kept(tab[c], owed[c], down[c], Edits) /\ Handshake(tab[c], down[c])
  BY OfTab
<1>2. tab[c].state = "closed" /\ UNCHANGED <<room, down, spent, owed, gapped, excused>>
  BY DEF Connect
<1>3. f \in Nat \cup {NoOp}
  BY <1>1 DEF Tab, ResumeFrom
<1>4. tab' = [tab EXCEPT ![c] = u]
  BY <1>1 DEF Connect, Hailing, IInv, TabsTyped
<1> HIDE DEF f
<1>5. u \in Tab /\ Kept(u, owed[c], down[c], Edits) /\ u.state = "opening"
  BY <1>1, <1>2, <1>3, ConnectKeeps, Zenon
<1> HIDE DEF u
<1>6. Handshake(u, down[c])
  BY <1>1, <1>2, <1>5 DEF Handshake
<1>7. RoomTyped' /\ SpentWithin' /\ Edits' = Edits /\ ClientSets'
  BY <1>2, Unspent
<1>step. StepOf(c, u, owed[c], down[c])
  BY <1>1, <1>2, <1>4, <1>5, <1>6, <1>7 DEF StepOf
<1> QED
  BY <1>step, Stepped

LEMMA EditStep ==
  ASSUME IInv, NEW c \in Client, NEW p \in Path, NEW g \in BOOLEAN, Edit(c, p, g)
  PROVE  IInv'
<1> DEFINE k == Edits + 1
           u == Enqueue([tab[c] EXCEPT !.project[p] = k], p, k, tab[c].project[p], g)
           o == [owed[c] EXCEPT ![p] = k]
<1>1. /\ tab[c] \in Tab /\ owed[c] \in [Path -> MaybeValue] /\ down[c] \in Seq(Reply) /\ Edits \in Nat
      /\ Kept(tab[c], owed[c], down[c], Edits) /\ Handshake(tab[c], down[c])
  BY OfTab
<1>2. /\ spent.edits < MaxEdits /\ spent' = [spent EXCEPT !.edits = @ + 1]
      /\ UNCHANGED <<room, down, gapped, excused>>
  BY DEF Edit
<1>3. SpentWithin' /\ Edits' = Edits + 1
  BY <1>2, Counted DEF IInv
<1>4. RoomTyped' /\ ClientSets'
  BY <1>2, Unspent
<1>5. Edits + 1 \in Value
  BY <1>2, EditsCounted DEF IInv
<1>6. tab' = [tab EXCEPT ![c] = u] /\ owed' = [owed EXCEPT ![c] = o]
  BY <1>1 DEF Edit, Edits, IInv, TabsTyped
<1>7. u \in Tab /\ Kept(u, o, down[c], Edits + 1) /\ Sends(tab[c], u)
  BY <1>1, <1>5, EditKeeps
<1>8. o \in [Path -> MaybeValue]
  BY <1>1, <1>5 DEF MaybeValue
<1> HIDE DEF u, o
<1>9. Handshake(u, down[c])
  BY <1>1, <1>7, HandshakeSends DEF Kept
<1>step. StepOf(c, u, o, down[c])
  BY <1>1, <1>2, <1>3, <1>4, <1>6, <1>7, <1>8, <1>9 DEF StepOf
<1> QED
  BY <1>step, Stepped

LEMMA StrayStep ==
  ASSUME IInv, NEW c \in Client, NEW p \in Path, Stray(c, p)
  PROVE  IInv'
<1> DEFINE u == [tab[c] EXCEPT !.project[p] = Edits + 1]
<1>1. /\ tab[c] \in Tab /\ owed[c] \in [Path -> MaybeValue] /\ down[c] \in Seq(Reply) /\ Edits \in Nat
      /\ Kept(tab[c], owed[c], down[c], Edits) /\ Handshake(tab[c], down[c])
  BY OfTab
<1>2. Mishap("strays", MaxStrays) /\ UNCHANGED <<room, down, owed, gapped>> /\ excused' = excused \cup {c}
  BY DEF Stray
<1>3. SpentWithin' /\ Edits' = Edits + 1
  BY <1>2, Counted DEF IInv
<1>4. RoomTyped' /\ ClientSets'
  BY <1>2 DEF IInv, RoomTyped, ClientSets
<1>5. Edits + 1 \in Value
  BY <1>2, EditsCounted DEF IInv, Mishap
<1>6. tab' = [tab EXCEPT ![c] = u]
  BY <1>1 DEF Stray, Edits, IInv, TabsTyped
<1>7. u \in Tab /\ SameOutbox(tab[c], u)
  BY <1>1, <1>5 DEF Tab, Project, SameOutbox
<1> HIDE DEF u
<1>8. Kept(u, owed[c], down[c], Edits)
  BY <1>1, <1>7, KeptElsewhere
<1>9. Kept(u, owed[c], down[c], Edits + 1)
  BY <1>1, <1>7, <1>8, KeptLater
<1>10. Handshake(u, down[c])
  BY <1>1, <1>7 DEF Handshake, SameOutbox, Live
<1>step. StepOf(c, u, owed[c], down[c])
  BY <1>1, <1>2, <1>3, <1>4, <1>6, <1>7, <1>9, <1>10 DEF StepOf
<1> QED
  BY <1>step, Stepped

LEMMA FlushPathStep ==
  ASSUME IInv, NEW c \in Client, NEW p \in Path, FlushPath(c, p)
  PROVE  IInv'
<1> DEFINE u == FlushEntry(tab[c], p, tab[c].pending[p])
<1>1. /\ tab[c] \in Tab /\ owed[c] \in [Path -> MaybeValue] /\ down[c] \in Seq(Reply) /\ Edits \in Nat
      /\ Kept(tab[c], owed[c], down[c], Edits) /\ Handshake(tab[c], down[c])
  BY OfTab
<1>2. tab[c].pending[p] # None /\ UNCHANGED <<room, down, spent, owed, gapped, excused>>
  BY DEF FlushPath
<1>3. tab' = [tab EXCEPT ![c] = u]
  BY DEF FlushPath, IInv, TabsTyped
<1>4. u \in Tab /\ Kept(u, owed[c], down[c], Edits) /\ Sends(tab[c], u)
  BY <1>1, <1>2, FlushPathKeeps
<1> HIDE DEF u
<1>5. Handshake(u, down[c])
  BY <1>1, <1>4, HandshakeSends DEF Kept
<1>6. RoomTyped' /\ SpentWithin' /\ Edits' = Edits /\ ClientSets'
  BY <1>2, Unspent
<1>step. StepOf(c, u, owed[c], down[c])
  BY <1>1, <1>2, <1>3, <1>4, <1>5, <1>6 DEF StepOf
<1> QED
  BY <1>step, Stepped

LEMMA AckTimeoutStep ==
  ASSUME IInv, NEW c \in Client, NEW e \in tab[c].inFlight, AckTimeout(c, e)
  PROVE  IInv'
<1> DEFINE u == Resent(tab[c], e)
<1>1. /\ tab[c] \in Tab /\ owed[c] \in [Path -> MaybeValue] /\ down[c] \in Seq(Reply) /\ Edits \in Nat
      /\ Kept(tab[c], owed[c], down[c], Edits) /\ Handshake(tab[c], down[c])
  BY OfTab
<1>2. Live(tab[c]) /\ e.resends < MaxResends /\ UNCHANGED <<room, down, spent, owed, gapped, excused>>
  BY DEF AckTimeout
<1>3. tab' = [tab EXCEPT ![c] = u]
  BY <1>1 DEF AckTimeout, IInv, TabsTyped, Resent
<1>4. u \in Tab /\ Kept(u, owed[c], down[c], Edits) /\ Sends(tab[c], u)
  BY <1>1, <1>2, AckTimeoutKeeps
<1> HIDE DEF u
<1>5. Handshake(u, down[c])
  BY <1>1, <1>4, HandshakeSends DEF Kept
<1>6. RoomTyped' /\ SpentWithin' /\ Edits' = Edits /\ ClientSets'
  BY <1>2, Unspent
<1>step. StepOf(c, u, owed[c], down[c])
  BY <1>1, <1>2, <1>3, <1>4, <1>5, <1>6 DEF StepOf
<1> QED
  BY <1>step, Stepped

\* Nothing is on its way to a closed tab, or from it.
LEMMA HandshakeClosed ==
  ASSUME NEW t, t.up = <<>>
  PROVE  Handshake(t, <<>>)
BY DEF Handshake

LEMMA DropStep ==
  ASSUME IInv, NEW c \in Client, Drop(c)
  PROVE  IInv'
<1> DEFINE u == Closed(tab[c])
<1>1. /\ tab[c] \in Tab /\ owed[c] \in [Path -> MaybeValue] /\ Edits \in Nat
      /\ Kept(tab[c], owed[c], down[c], Edits)
  BY OfTab
<1>2. Mishap("drops", MaxDrops) /\ UNCHANGED <<room, owed>>
  BY DEF Drop
<1>3. tab' = [tab EXCEPT ![c] = u] /\ down' = [down EXCEPT ![c] = <<>>]
  BY DEF Drop, IInv, TabsTyped
<1>4. u \in Tab /\ Kept(u, owed[c], <<>>, Edits) /\ u.up = <<>>
  BY <1>1, ClosedKeeps
<1> HIDE DEF u
<1>5. Handshake(u, <<>>)
  BY <1>4, HandshakeClosed
<1>6. SpentWithin' /\ Edits' = Edits
  BY <1>2, Counted DEF IInv
<1>7. RoomTyped' /\ ClientSets'
  BY <1>2 DEF Drop, IInv, RoomTyped, ClientSets
<1>step. StepOf(c, u, owed[c], <<>>)
  BY <1>1, <1>2, <1>3, <1>4, <1>5, <1>6, <1>7 DEF StepOf
<1> QED
  BY <1>step, Stepped

LEMMA ReloadStep ==
  ASSUME IInv, NEW c \in Client, Reload(c)
  PROVE  IInv'
<1> DEFINE u == NewTab(tab[c].joined, tab[c].opIdLastSeen, tab[c].clientSeq)
<1>1. tab[c] \in Tab /\ Edits \in Nat
  BY OfTab
<1>2. Mishap("reloads", MaxReloads) /\ UNCHANGED <<room, excused>>
  BY DEF Reload
<1>3. /\ tab' = [tab EXCEPT ![c] = u] /\ down' = [down EXCEPT ![c] = <<>>]
      /\ owed' = [owed EXCEPT ![c] = NoEntries]
  BY DEF Reload, IInv, TabsTyped
<1>4. tab[c].joined \in BOOLEAN /\ tab[c].opIdLastSeen \in Nat \cup {NoOp} /\ tab[c].clientSeq \in Nat
  BY <1>1 DEF Tab
<1>5. u \in Tab /\ Kept(u, NoEntries, <<>>, Edits) /\ u.up = <<>>
  <2> DEFINE j == tab[c].joined
  <2>1. j \in BOOLEAN /\ u = NewTab(j, tab[c].opIdLastSeen, tab[c].clientSeq)
    BY <1>4
  <2> HIDE DEF j, u
  <2> QED
    BY <1>1, <1>4, <2>1, NewTabKeeps, Zenon
<1> HIDE DEF u
<1>6. Handshake(u, <<>>)
  BY <1>5, HandshakeClosed
<1>7. SpentWithin' /\ Edits' = Edits
  BY <1>2, Counted DEF IInv
<1>8. RoomTyped' /\ ClientSets'
  BY <1>2 DEF Reload, IInv, RoomTyped, ClientSets
<1>9. NoEntries \in [Path -> MaybeValue]
  BY DEF NoEntries, MaybeValue
<1>step. StepOf(c, u, NoEntries, <<>>)
  BY <1>1, <1>2, <1>3, <1>5, <1>6, <1>7, <1>8, <1>9 DEF StepOf
<1> QED
  BY <1>step, Stepped

LEMMA RestartStep ==
  ASSUME IInv, Restart
  PROVE  IInv'
<1>1. Mishap("restarts", MaxRestarts) /\ UNCHANGED owed /\ tab' = [c \in Client |-> Closed(tab[c])]
  BY DEF Restart
<1>2. down' = [c \in Client |-> <<>>] /\ room' = NewRoom(room.project) /\ gapped' = {} /\ excused' = Client
  BY DEF Restart
<1>3. SpentWithin' /\ Edits' = Edits
  BY <1>1, Counted DEF IInv
<1>4. RoomTyped' /\ ClientSets'
  BY <1>2 DEF IInv, RoomTyped, Room, NewRoom, ClientSets
<1>5. ASSUME NEW c \in Client
      PROVE  /\ Closed(tab[c]) \in Tab /\ Kept(Closed(tab[c]), owed[c], <<>>, Edits)
             /\ Handshake(Closed(tab[c]), <<>>)
  <2>1. tab[c] \in Tab /\ Edits \in Nat /\ Kept(tab[c], owed[c], down[c], Edits)
    BY OfTab
  <2>2. Closed(tab[c]) \in Tab /\ Kept(Closed(tab[c]), owed[c], <<>>, Edits) /\ Closed(tab[c]).up = <<>>
    BY <2>1, ClosedKeeps
  <2> QED
    BY <2>2, HandshakeClosed
<1>6. TabsTyped'
  BY <1>1, <1>2, <1>5 DEF IInv, TabsTyped
<1>7. TabsKept'
  BY <1>1, <1>2, <1>3, <1>5 DEF TabsKept
<1> QED
  BY <1>3, <1>4, <1>6, <1>7 DEF IInv

\* What is on its way to an open tab grows by an answer that settles nothing that is owed.
LEMMA Answered ==
  ASSUME NEW t, NEW o, NEW d \in Seq(Reply), NEW n, Kept(t, o, d, n), Handshake(t, d),
         NEW m \in Reply, Settles(t, o, m), m.type \notin {"welcome", "complete"}, t.state # "closed"
  PROVE  Append(d, m) \in Seq(Reply) /\ Kept(t, o, Append(d, m), n) /\ Handshake(t, Append(d, m))
<1>1. Append(d, m) \in Seq(Reply) /\ Settling(t, o, Append(d, m))
  BY SettlingOneMore DEF Kept
<1>2. Handshake(t, Append(d, m))
  BY HandshakeAnswered
<1> QED
  BY <1>1, <1>2 DEF Kept

\* Nobody has an op in flight under the clientSeq of what others send.
LEMMA SettlesNothing ==
  ASSUME NEW t \in Tab, NEW o, NEW d, NEW n, Kept(t, o, d, n), NEW m,
         m.type \in {"set", "nack"} => m.clientSeq = 0
  PROVE  Settles(t, o, m)
<1>1. t.clientSeq \in Nat /\ \A e \in t.inFlight : e.seq \in Nat /\ 1 <= e.seq
  BY DEF Kept, Tracking, Tab, Sent
<1> QED
  BY <1>1 DEF Settles

LEMMA HandleHelloStep ==
  ASSUME IInv, NEW c \in Client, HandleHello(c)
  PROVE  IInv'
<1> DEFINE t == tab[c]
           u == [t EXCEPT !.up = Tail(@)]
           w == [type |-> "welcome"]
           m == CatchUp(Head(t.up).resumeFrom)
           d == (down[c] \o <<w>>) \o m
<1>1. /\ t \in Tab /\ owed[c] \in [Path -> MaybeValue] /\ down[c] \in Seq(Reply)
      /\ Kept(t, owed[c], down[c], Edits) /\ Handshake(t, down[c])
  BY OfTab
<1>2. t.up # <<>> /\ Head(t.up).type = "hello" /\ UNCHANGED <<room, spent, owed, gapped, excused>>
  BY DEF HandleHello, Take
<1>3. tab' = [tab EXCEPT ![c] = u] /\ down' = [down EXCEPT ![c] = d]
  BY DEF HandleHello, Take, IInv, TabsTyped
<1>4. /\ m \in Seq(Reply)
      /\ \A i \in 1..Len(m) : m[i].type \in {"snapshot", "set", "complete"}
      /\ \A i \in 1..Len(m) : m[i].type = "set" => m[i].clientSeq = 0
  BY CatchUpReplies DEF IInv
<1> HIDE DEF m
<1>types. \A i \in 1..Len(m) : m[i].type \notin {"welcome", "nack"}
  BY ONLY <1>4
<1>5. u \in Tab /\ Kept(u, owed[c], down[c], Edits)
  BY <1>1, <1>2, RequestTaken
<1>6. t.state = "opening" /\ 1 \in 1..Len(t.up) /\ t.up[1].type = "hello" /\ u.up = <<>> /\ u.state = t.state
  <2> DEFINE up == t.up
  <2>1. up \in Seq(Request) /\ up # <<>>
    BY <1>1, <1>2 DEF Tab
  <2>2. u.up = Tail(up) /\ u.state = t.state
    BY <1>1 DEF Tab
  <2>3. 1 \in 1..Len(up) /\ Head(up) = up[1] /\ Tail(up) \in Seq(Request) /\ Len(Tail(up)) = Len(up) - 1
    <3> HIDE DEF up
    <3> QED
      BY <2>1, Shortened
  <2>4. t.state = "opening" /\ Len(up) = 1
    BY <1>1, <1>2, <2>3 DEF Kept, Requesting
  <2>5. Tail(up) = <<>>
    <3>1. Len(Tail(up)) = 0
      BY <2>3, <2>4
    <3> HIDE DEF up
    <3> QED
      BY <2>3, <3>1, EmptySeq
  <2> QED
    BY <1>2, <2>2, <2>3, <2>4, <2>5
<1>7. w \in Reply /\ w.type = "welcome"
  BY DEF Reply
<1> HIDE DEF w, t, u
<1>8. d \in Seq(Reply) /\ Handshake(u, d)
  <2>1. \A j \in 1..Len(u.up) : u.up[j].type # "hello"
    BY <1>6
  <2>2. \A j \in 1..Len(m) : m[j].type # "welcome"
    BY <1>types
  <2> QED
    BY <1>1, <1>4, <1>6, <1>7, <2>1, <2>2, HandshakeWelcomed
<1>9. Settling(u, owed[c], d)
  <2> DEFINE one == <<w>>
  <2>1. one \in Seq(Reply) /\ Len(one) = 1 /\ one[1] = w
    BY <1>7
  <2>2. Settles(u, owed[c], w)
    BY <1>5, <1>7, SettlesNothing
  <2>3. \A j \in 1..Len(one) : Settles(u, owed[c], one[j])
    BY <2>1, <2>2
  <2>4. \A j \in 1..Len(m) : Settles(u, owed[c], m[j])
    <3>1. \A j \in 1..Len(m) : m[j].type \in {"set", "nack"} => m[j].clientSeq = 0
      BY <1>4, <1>types
    <3> QED
      BY <1>5, <3>1, SettlesNothing
  <2> HIDE DEF one
  <2>5. down[c] \o one \in Seq(Reply) /\ Settling(u, owed[c], down[c] \o one)
    BY <1>1, <1>5, <2>1, <2>3, SettlingMore DEF Kept
  <2>6. Settling(u, owed[c], (down[c] \o one) \o m)
    BY <1>4, <2>4, <2>5, SettlingMore
  <2> QED
    BY <2>6 DEF one
<1>10. Kept(u, owed[c], d, Edits)
  BY <1>5, <1>9 DEF Kept
<1>11. RoomTyped' /\ SpentWithin' /\ Edits' = Edits /\ ClientSets'
  BY <1>2, Unspent
<1> HIDE DEF d
<1>step. StepOf(c, u, owed[c], d)
  BY <1>1, <1>2, <1>3, <1>5, <1>8, <1>10, <1>11 DEF StepOf
<1> QED
  BY <1>step, Stepped

\* The server takes a set: nothing is owed for it any more.
TakenSet(c, msg, u, o) ==
  /\ u \in Tab /\ o \in [Path -> MaybeValue] /\ u.state # "closed"
  /\ tab' = [tab EXCEPT ![c] = u] /\ owed' = [owed EXCEPT ![c] = o]
  /\ \A b \in Client : tab[b].state = tab'[b].state
  /\ Kept(u, o, down[c], Edits) /\ Handshake(u, down[c])
  /\ msg.clientSeq \in Nat /\ msg.path \in Path /\ msg.value \in Value /\ msg.clientSeq <= u.clientSeq
  /\ \A e \in u.inFlight : e.seq = msg.clientSeq => o[e.path] # e.value

LEMMA SetTaken ==
  ASSUME IInv, NEW c \in Client, Take(c, "set"), Had(c, Head(tab[c].up))
  PROVE  \E u, o : TakenSet(c, Head(tab[c].up), u, o)
<1> DEFINE t == tab[c]
           msg == Head(t.up)
           u == [t EXCEPT !.up = Tail(@)]
           o == [owed[c] EXCEPT ![msg.path] = IF @ = msg.value THEN None ELSE @]
<1>1. /\ t \in Tab /\ owed[c] \in [Path -> MaybeValue] /\ down[c] \in Seq(Reply)
      /\ Kept(t, owed[c], down[c], Edits) /\ Handshake(t, down[c])
  BY OfTab
<1>2. t.up # <<>> /\ msg.type = "set"
  BY DEF Take
<1>3. tab' = [tab EXCEPT ![c] = u] /\ owed' = [owed EXCEPT ![c] = o]
  BY DEF Take, Had, IInv, TabsTyped
<1>4. u \in Tab /\ Kept(u, owed[c], down[c], Edits) /\ msg \in Request
  BY <1>1, <1>2, RequestTaken
<1>5. Handshake(u, down[c]) /\ u.state = t.state /\ t.state # "closed"
  BY <1>1, <1>2, HandshakeTaken
<1>6. msg.clientSeq \in Nat /\ msg.path \in Path /\ msg.value \in Value
  BY <1>2, <1>4 DEF Request
<1>7. u.inFlight = t.inFlight /\ u.clientSeq = t.clientSeq
  BY <1>1 DEF Tab
<1>8. /\ msg.clientSeq <= t.clientSeq
      /\ \A e \in t.inFlight : e.seq = msg.clientSeq => e.path = msg.path /\ e.value = msg.value
  <2> DEFINE up == t.up
  <2>1. up \in Seq(Request) /\ up # <<>>
    BY <1>1, <1>2 DEF Tab
  <2>2. 1 \in 1..Len(up) /\ Head(up) = up[1]
    <3> HIDE DEF up
    <3> QED
      BY <2>1, Shortened
  <2>3. up[1].type # "hello"
    BY <1>2, <2>2
  <2> QED
    BY <1>1, <2>2, <2>3 DEF Kept, Requesting
<1> HIDE DEF u, msg
<1>9. o \in [Path -> MaybeValue] /\ Kept(u, o, down[c], Edits) /\ o[msg.path] # msg.value
  BY <1>1, <1>4, <1>6, HadKeeps
<1> HIDE DEF o
<1>10. \A e \in u.inFlight : e.seq = msg.clientSeq => o[e.path] # e.value
  BY <1>7, <1>8, <1>9
<1>11. \A b \in Client : tab[b].state = tab'[b].state
  BY <1>3, <1>5 DEF IInv, TabsTyped
<1>12. TakenSet(c, msg, u, o)
  BY <1>3, <1>4, <1>5, <1>6, <1>7, <1>8, <1>9, <1>10, <1>11 DEF TakenSet
<1> QED
  BY <1>12 DEF msg

LEMMA NackStep ==
  ASSUME IInv, NEW c \in Client, Nack(c)
  PROVE  IInv'
<1> DEFINE msg == Head(tab[c].up)
           m == [type |-> "nack", clientSeq |-> msg.clientSeq]
           d == Append(down[c], m)
<1>1. PICK u, o : TakenSet(c, msg, u, o)
  BY SetTaken DEF Nack
<1>2. Mishap("nacks", MaxNacks) /\ UNCHANGED <<room, gapped, excused>> /\ down' = [down EXCEPT ![c] = d]
  BY DEF Nack, IInv, TabsTyped
<1>3. down[c] \in Seq(Reply)
  BY OfTab
<1>4. m \in Reply /\ m.type = "nack" /\ m.clientSeq = msg.clientSeq
  BY <1>1 DEF TakenSet, Reply
<1> HIDE DEF m
<1>5. Settles(u, o, m)
  BY <1>1, <1>4 DEF TakenSet, Settles
<1>6. d \in Seq(Reply) /\ Kept(u, o, d, Edits) /\ Handshake(u, d)
  <2>1. Kept(u, o, down[c], Edits) /\ Handshake(u, down[c]) /\ u.state # "closed"
    BY <1>1 DEF TakenSet
  <2> QED
    BY <1>3, <1>4, <1>5, <2>1, Answered
<1>7. SpentWithin' /\ Edits' = Edits
  BY <1>2, Counted DEF IInv
<1>8. RoomTyped' /\ ClientSets'
  BY <1>2, Unspent
<1> HIDE DEF d
<1>step. StepOf(c, u, o, d)
  BY <1>1, <1>2, <1>6, <1>7, <1>8 DEF StepOf, TakenSet
<1> QED
  BY <1>step, Stepped

LEMMA HandleSetStep ==
  ASSUME IInv, NEW c \in Client, HandleSet(c)
  PROVE  IInv'
<1> DEFINE msg == Head(tab[c].up)
           known == {op \in room.opIndex : Key(op) = <<c, msg.clientSeq>>}
           op == [opId |-> room.nextOpId, path |-> msg.path, value |-> msg.value]
           after == AppendOp(room, c, msg.clientSeq, msg.path, msg.value)
<1>1. PICK u, o : TakenSet(c, msg, u, o)
  BY SetTaken DEF HandleSet
<1>2. UNCHANGED <<spent, gapped, excused>>
  BY DEF HandleSet
<1>3. SpentWithin' /\ Edits' = Edits /\ ClientSets'
  BY <1>2, Unspent
<1>4. down[c] \in Seq(Reply) /\ Kept(u, o, down[c], Edits) /\ Handshake(u, down[c]) /\ u.state # "closed"
  BY <1>1, OfTab DEF TakenSet
<1>5. msg.clientSeq \in Nat /\ msg.path \in Path /\ msg.value \in Value
  BY <1>1 DEF TakenSet
<1>6. RoomTyped
  BY DEF IInv
<1>7. CASE IsDuplicate(room, c, msg.clientSeq)
  <2> DEFINE x == CHOOSE k \in known : TRUE
             m == Echo(x, msg.clientSeq)
             d == Append(down[c], m)
  <2>1. x \in Op
    <3>1. known # {} /\ known \subseteq Op
      BY <1>6, <1>7 DEF IsDuplicate, RoomTyped, Room
    <3> QED
      BY <3>1
  <2>2. down' = [down EXCEPT ![c] = d] /\ UNCHANGED room
    BY <1>7 DEF HandleSet, IInv, TabsTyped
  <2> HIDE DEF x
  <2>3. m \in Reply /\ m.type = "set" /\ m.clientSeq = msg.clientSeq
    BY <1>5, <2>1 DEF Echo, Reply, Op
  <2> HIDE DEF m
  <2>4. Settles(u, o, m)
    BY <1>1, <2>3 DEF TakenSet, Settles
  <2>5. d \in Seq(Reply) /\ Kept(u, o, d, Edits) /\ Handshake(u, d)
    BY <1>4, <2>3, <2>4, Answered
  <2>6. RoomTyped'
    BY <2>2, Unspent
  <2> HIDE DEF d
  <2>step. StepOf(c, u, o, d)
    BY <1>1, <1>3, <2>2, <2>5, <2>6 DEF StepOf, TakenSet
  <2> QED
    BY <2>step, Stepped
<1>8. CASE ~IsDuplicate(room, c, msg.clientSeq)
  <2> DEFINE m(b) == Echo(op, IF b = c THEN msg.clientSeq ELSE 0)
  <2>1. room' = after /\ down' = [b \in Client |-> IF b \in Audience(c) THEN Append(down[b], m(b)) ELSE down[b]]
    BY <1>8 DEF HandleSet
  <2>2. RoomTyped'
    <3>1. after \in Room /\ after.nextOpId = room.nextOpId + 1
      BY <1>5, <1>6, OpAppended DEF RoomTyped
    <3>2. room.nextOpId \in Nat
      BY <1>6 DEF RoomTyped, Room
    <3> HIDE DEF after
    <3> QED
      BY <2>1, <3>1, <3>2 DEF RoomTyped
  <2>3. \A b \in Client : m(b) \in Reply /\ m(b).type = "set" /\ m(b).clientSeq = (IF b = c THEN msg.clientSeq ELSE 0)
    BY <1>5, <1>6 DEF Echo, Reply, RoomTyped, Room
  <2> HIDE DEF m
  <2>4. down'[c] \in Seq(Reply) /\ Kept(u, o, down'[c], Edits) /\ Handshake(u, down'[c])
    <3>1. CASE c \in Audience(c)
      <4>1. down'[c] = Append(down[c], m(c))
        BY <2>1, <3>1
      <4>2. Settles(u, o, m(c))
        BY <1>1, <2>3 DEF TakenSet, Settles
      <4>3. m(c) \in Reply /\ m(c).type \notin {"welcome", "complete"}
        BY <2>3
      <4> QED
        BY <1>4, <4>1, <4>2, <4>3, Answered
    <3>2. CASE c \notin Audience(c)
      BY <1>4, <2>1, <3>2
    <3> QED
      BY <3>1, <3>2
  <2>5. ASSUME NEW b \in Client \ {c}
        PROVE  down'[b] \in Seq(Reply) /\ Kept(tab[b], owed[b], down'[b], Edits) /\ Handshake(tab[b], down'[b])
    <3>1. /\ tab[b] \in Tab /\ down[b] \in Seq(Reply)
          /\ Kept(tab[b], owed[b], down[b], Edits) /\ Handshake(tab[b], down[b])
      BY OfTab
    <3>2. CASE b \in Audience(c)
      <4>1. down'[b] = Append(down[b], m(b)) /\ tab[b].state # "closed"
        BY <2>1, <3>2 DEF Audience
      <4>2. m(b) \in Reply /\ m(b).type \notin {"welcome", "complete"} /\ m(b).clientSeq = 0
        BY <2>3
      <4>3. Settles(tab[b], owed[b], m(b))
        BY <3>1, <4>2, SettlesNothing
      <4> QED
        BY <3>1, <4>1, <4>2, <4>3, Answered
    <3>3. CASE b \notin Audience(c)
      BY <2>1, <3>1, <3>3
    <3> QED
      BY <3>2, <3>3
  <2>6. down' \in [Client -> Seq(Reply)]
    BY <2>1, <2>4, <2>5
  <2>7. /\ u \in Tab /\ o \in [Path -> MaybeValue]
        /\ tab' = [tab EXCEPT ![c] = u] /\ owed' = [owed EXCEPT ![c] = o]
    BY <1>1 DEF TakenSet
  <2>8. tab \in [Client -> Tab] /\ owed \in [Client -> [Path -> MaybeValue]]
    BY DEF IInv, TabsTyped
  <2>9. TabsTyped'
    BY <2>6, <2>7, <2>8 DEF TabsTyped
  <2>10. \A b \in Client \ {c} : tab'[b] = tab[b] /\ owed'[b] = owed[b]
    BY <2>7, <2>8
  <2>11. tab'[c] = u /\ owed'[c] = o
    BY <2>7, <2>8
  <2>12. \A b \in Client : Kept(tab'[b], owed'[b], down'[b], Edits) /\ Handshake(tab'[b], down'[b])
    BY <2>4, <2>5, <2>10, <2>11
  <2>13. TabsKept'
    BY <1>3, <2>12 DEF TabsKept
  <2> QED
    BY <1>3, <2>2, <2>9, <2>13 DEF IInv
<1> QED
  BY <1>7, <1>8

LEMMA ReceivedFacts ==
  ASSUME IInv, NEW c \in Client, down[c] # <<>>
  PROVE  /\ Head(down[c]) \in Reply /\ Tail(down[c]) \in Seq(Reply)
         /\ Kept(tab[c], owed[c], Tail(down[c]), Edits) /\ Handshake(tab[c], Tail(down[c]))
         /\ Settles(tab[c], owed[c], Head(down[c]))
<1>1. down[c] \in Seq(Reply) /\ Kept(tab[c], owed[c], down[c], Edits) /\ Handshake(tab[c], down[c])
  BY OfTab
<1>2. /\ Head(down[c]) \in Reply /\ Tail(down[c]) \in Seq(Reply)
      /\ Settling(tab[c], owed[c], Tail(down[c])) /\ Settles(tab[c], owed[c], Head(down[c]))
  BY <1>1, SettlingOneLess DEF Kept
<1>3. Handshake(tab[c], Tail(down[c]))
  BY <1>1, HandshakeReceived
<1> QED
  BY <1>1, <1>2, <1>3 DEF Kept

\* A tab receives a frame and goes on as next.
LEMMA ReceivedStep ==
  ASSUME IInv, NEW c \in Client, NEW u, down[c] # <<>>,
         tab' = [tab EXCEPT ![c] = u], down' = [down EXCEPT ![c] = Tail(down[c])],
         UNCHANGED <<spent, owed>>, RoomTyped', ClientSets',
         u \in Tab, Kept(u, owed[c], Tail(down[c]), Edits), Handshake(u, Tail(down[c]))
  PROVE  IInv'
<1> DEFINE d == Tail(down[c])
<1>1. owed[c] \in [Path -> MaybeValue] /\ d \in Seq(Reply)
  BY OfTab, ReceivedFacts
<1>2. SpentWithin' /\ Edits' = Edits
  BY Unspent
<1>3. down' = [down EXCEPT ![c] = d] /\ Kept(u, owed[c], d, Edits) /\ Handshake(u, d)
  OBVIOUS
<1> HIDE DEF d
<1>step. StepOf(c, u, owed[c], d)
  BY <1>1, <1>2, <1>3 DEF StepOf
<1> QED
  BY <1>step, Stepped

LEMMA OnWelcomeStep ==
  ASSUME IInv, NEW c \in Client, OnWelcome(c)
  PROVE  IInv'
<1> DEFINE u == [tab[c] EXCEPT !.state = "catching-up", !.joined = TRUE]
           d == Tail(down[c])
<1>1. /\ down[c] # <<>> /\ Head(down[c]).type = "welcome"
      /\ tab' = [tab EXCEPT ![c] = u] /\ down' = [down EXCEPT ![c] = d]
      /\ UNCHANGED <<room, spent, owed, gapped, excused>>
  BY DEF OnWelcome, Receive, IInv, TabsTyped
<1>2. tab[c] \in Tab /\ down[c] \in Seq(Reply) /\ Handshake(tab[c], down[c])
  BY OfTab
<1>3. ~Live(tab[c]) /\ \A j \in 1..Len(tab[c].up) : tab[c].up[j].type # "hello"
  BY <1>1, <1>2, HandshakeReceived
<1>4. Kept(tab[c], owed[c], d, Edits) /\ Handshake(tab[c], d)
  BY <1>1, ReceivedFacts
<1>5. u \in Tab /\ Kept(u, owed[c], d, Edits) /\ u.state = "catching-up" /\ u.up = tab[c].up
  BY <1>2, <1>3, <1>4, WelcomeKeeps
<1> HIDE DEF u
<1>6. Handshake(u, d)
  BY <1>4, <1>5 DEF Handshake, Live
<1>7. RoomTyped' /\ ClientSets'
  BY <1>1, Unspent
<1> QED
  BY <1>1, <1>5, <1>6, <1>7, ReceivedStep

LEMMA OnSnapshotStep ==
  ASSUME IInv, NEW c \in Client, OnSnapshot(c)
  PROVE  IInv'
<1> DEFINE msg == Head(down[c])
           s == [tab[c] EXCEPT !.snapshotRequired = FALSE, !.project = msg.project,
                               !.lastApplied = [p \in Path |-> NoOp]]
           seen == RecordOpIdSeen(s, msg.opId)
           u == Reassert(seen)
           d == Tail(down[c])
<1>1. /\ down[c] # <<>> /\ msg.type = "snapshot"
      /\ tab' = [tab EXCEPT ![c] = u] /\ down' = [down EXCEPT ![c] = d]
      /\ UNCHANGED <<room, spent, owed, gapped>> /\ excused' \subseteq excused
  BY DEF OnSnapshot, Receive, IInv, TabsTyped
<1>2. /\ msg \in Reply /\ d \in Seq(Reply) /\ tab[c] \in Tab /\ Edits \in Nat
      /\ Kept(tab[c], owed[c], d, Edits) /\ Handshake(tab[c], d)
  BY <1>1, ReceivedFacts, OfTab
<1>3. msg.opId \in Nat /\ msg.project \in Project
  BY <1>1, <1>2 DEF Reply
<1>4. s \in Tab /\ SameOutbox(tab[c], s)
  BY <1>2, <1>3 DEF Tab, SameOutbox
<1> HIDE DEF s, d, msg
<1>5. seen \in Tab /\ SameOutbox(s, seen)
  BY <1>3, <1>4, WatermarkKeeps
<1> HIDE DEF seen
<1>6. SameOutbox(tab[c], seen)
  BY <1>4, <1>5 DEF SameOutbox
<1>7. Kept(seen, owed[c], d, Edits)
  BY <1>2, <1>5, <1>6, KeptElsewhere
<1>8. u \in Tab /\ Kept(u, owed[c], d, Edits) /\ Sends(seen, u)
  BY <1>2, <1>5, <1>7, ReassertKeeps
<1> HIDE DEF u
<1>9. Handshake(seen, d)
  BY <1>2, <1>6 DEF Handshake, SameOutbox, Live
<1>10. Handshake(u, d)
  BY <1>8, <1>9, HandshakeSends DEF Kept
<1>11. RoomTyped' /\ ClientSets'
  BY <1>1 DEF IInv, RoomTyped, ClientSets
<1> QED
  BY <1>1, <1>8, <1>10, <1>11, ReceivedStep DEF d

LEMMA OnSetStep ==
  ASSUME IInv, NEW c \in Client, OnSet(c)
  PROVE  IInv'
<1> DEFINE msg == Head(down[c])
           u == Dispatched(tab[c], msg)
           d == Tail(down[c])
<1>1. /\ down[c] # <<>> /\ msg.type = "set"
      /\ tab' = [tab EXCEPT ![c] = u] /\ down' = [down EXCEPT ![c] = d]
      /\ UNCHANGED <<room, spent, owed, excused>> /\ gapped' \subseteq gapped \cup {c}
  BY DEF OnSet, Receive, IInv, TabsTyped
<1>2. /\ msg \in Reply /\ d \in Seq(Reply) /\ tab[c] \in Tab /\ Edits \in Nat
      /\ Kept(tab[c], owed[c], d, Edits) /\ Handshake(tab[c], d) /\ Settles(tab[c], owed[c], msg)
  BY <1>1, ReceivedFacts, OfTab
<1> HIDE DEF d, msg
<1>3. u \in Tab /\ Kept(u, owed[c], d, Edits) /\ SameLine(tab[c], u)
  BY <1>1, <1>2, DispatchedKeeps, Zenon
<1> HIDE DEF u
<1>4. Handshake(u, d)
  BY <1>2, <1>3 DEF Handshake, Live, SameLine
<1>5. RoomTyped' /\ ClientSets'
  BY <1>1 DEF IInv, RoomTyped, ClientSets
<1> QED
  BY <1>1, <1>3, <1>4, <1>5, ReceivedStep DEF d

LEMMA OnCompleteStep ==
  ASSUME IInv, NEW c \in Client, OnComplete(c)
  PROVE  IInv' /\ Follows(tab[c], tab'[c]) /\ \A b \in Client \ {c} : tab'[b] = tab[b]
<1> DEFINE msg == Head(down[c])
           seen == RecordOpIdSeen(tab[c], msg.opId)
           live == [seen EXCEPT !.state = "live", !.syncReady = TRUE]
           u == FlushAll([live EXCEPT !.offline = NoEntries], live.offline)
           d == Tail(down[c])
<1>1. /\ down[c] # <<>> /\ msg.type = "complete"
      /\ tab' = [tab EXCEPT ![c] = u] /\ down' = [down EXCEPT ![c] = d]
      /\ UNCHANGED <<room, spent, owed, excused>> /\ gapped' \subseteq gapped
  BY DEF OnComplete, Receive, IInv, TabsTyped
<1>2. /\ msg \in Reply /\ d \in Seq(Reply) /\ tab[c] \in Tab /\ Edits \in Nat
      /\ Kept(tab[c], owed[c], d, Edits) /\ Handshake(tab[c], d)
  BY <1>1, ReceivedFacts, OfTab
<1>3. /\ \A j \in 1..Len(tab[c].up) : tab[c].up[j].type # "hello"
      /\ \A i \in 1..Len(d) : d[i].type # "welcome"
  BY <1>1, OfTab, HandshakeReceived
<1>4. msg.opId \in Nat
  BY <1>1, <1>2 DEF Reply
<1> HIDE DEF d, msg
<1>5. seen \in Tab /\ SameOutbox(tab[c], seen)
  BY <1>2, <1>4, WatermarkKeeps
<1> HIDE DEF seen
<1>6. Kept(seen, owed[c], d, Edits) /\ Follows(tab[c], seen)
  BY <1>2, <1>5, KeptElsewhere
<1>7. \A j \in 1..Len(seen.up) : seen.up[j].type # "hello"
  BY <1>3, <1>5 DEF SameOutbox
<1>8. u \in Tab /\ Kept(u, owed[c], d, Edits) /\ Follows(seen, u) /\ u.state = "live"
  BY <1>2, <1>5, <1>6, <1>7, CompleteKeeps
<1> HIDE DEF u, live
<1>9. \A j \in 1..Len(u.up) : u.up[j].type # "hello"
  BY <1>8 DEF Kept, Requesting
<1>10. Handshake(u, d)
  BY <1>3, <1>8, <1>9 DEF Handshake
<1>11. RoomTyped' /\ ClientSets'
  BY <1>1 DEF IInv, RoomTyped, ClientSets
<1>12. Follows(tab[c], u)
  BY <1>2, <1>5, <1>6, <1>8, FollowsOn
<1>13. tab'[c] = u /\ \A b \in Client \ {c} : tab'[b] = tab[b]
  BY <1>1 DEF IInv, TabsTyped
<1> QED
  BY <1>1, <1>8, <1>10, <1>11, <1>12, <1>13, ReceivedStep DEF d

LEMMA OnNackStep ==
  ASSUME IInv, NEW c \in Client, OnNack(c)
  PROVE  IInv'
<1> DEFINE msg == Head(down[c])
           seq == msg.clientSeq
           u == RolledBack(tab[c], seq)
           d == Tail(down[c])
<1>1. /\ down[c] # <<>> /\ msg.type = "nack"
      /\ tab' = [tab EXCEPT ![c] = u] /\ down' = [down EXCEPT ![c] = d]
      /\ UNCHANGED <<room, spent, owed, gapped>> /\ excused' = excused \cup {c}
  BY DEF OnNack, Receive, IInv, TabsTyped
<1>2. /\ d \in Seq(Reply) /\ tab[c] \in Tab /\ Edits \in Nat
      /\ Kept(tab[c], owed[c], d, Edits) /\ Handshake(tab[c], d) /\ Settles(tab[c], owed[c], msg)
  BY <1>1, ReceivedFacts, OfTab
<1>3. \A e \in tab[c].inFlight : e.seq = seq => owed[c][e.path] # e.value
  BY <1>1, <1>2 DEF Settles
<1> HIDE DEF d, seq
<1>4. u \in Tab /\ Kept(u, owed[c], d, Edits) /\ SameLine(tab[c], u)
  BY <1>2, <1>3, RolledBackKeeps, Zenon
<1> HIDE DEF u
<1>5. Handshake(u, d)
  BY <1>2, <1>4 DEF Handshake, Live, SameLine
<1>6. RoomTyped' /\ ClientSets'
  BY <1>1 DEF IInv, RoomTyped, ClientSets
<1> QED
  BY <1>1, <1>4, <1>5, <1>6, ReceivedStep DEF d
-----------------------------------------------------------------------------
(* The theorems *)

LEMMA InitInv == Init => IInv
<1> SUFFICES ASSUME Init PROVE IInv
  OBVIOUS
<1>1. /\ MaxEdits \in Nat /\ MaxStrays \in Nat /\ MaxDrops \in Nat /\ MaxReloads \in Nat
      /\ MaxRestarts \in Nat /\ MaxNacks \in Nat
  BY ClientSyncAssumption
<1>2. SpentWithin /\ Edits = 0
  BY <1>1 DEF Init, SpentWithin, Edits
<1>3. /\ NewTab(FALSE, NoOp, 0) \in Tab /\ Kept(NewTab(FALSE, NoOp, 0), NoEntries, <<>>, 0)
      /\ NewTab(FALSE, NoOp, 0).up = <<>> /\ Fresh \in Project
  <2> DEFINE j == FALSE
             w == NoOp
  <2>1. j \in BOOLEAN /\ w \in Nat \cup {NoOp} /\ 0 \in Nat
    OBVIOUS
  <2> HIDE DEF j, w
  <2>2. LET u == NewTab(j, w, 0)
        IN u \in Tab /\ Kept(u, NoEntries, <<>>, 0) /\ u.up = <<>> /\ u.project = Fresh
    BY <2>1, NewTabKeeps, Zenon
  <2> DEFINE u == NewTab(j, w, 0)
  <2>3. u \in Tab /\ Kept(u, NoEntries, <<>>, 0) /\ u.up = <<>> /\ u.project = Fresh
    BY <2>2
  <2> HIDE DEF u
  <2>4. Fresh \in Project
    BY <2>3 DEF Tab
  <2> QED
    BY <2>3, <2>4 DEF u, j, w
<1>4. Handshake(NewTab(FALSE, NoOp, 0), <<>>)
  BY <1>3, HandshakeClosed
<1>5. NoEntries \in [Path -> MaybeValue]
  BY DEF NoEntries, MaybeValue
<1> DEFINE new == NewTab(FALSE, NoOp, 0)
<1>6. /\ tab = [c \in Client |-> new] /\ down = [c \in Client |-> <<>>]
      /\ owed = [c \in Client |-> NoEntries] /\ <<>> \in Seq(Reply)
  BY DEF Init
<1>7. TabsTyped /\ TabsKept
  <2> HIDE DEF new
  <2>1. new \in Tab /\ Kept(new, NoEntries, <<>>, 0) /\ Handshake(new, <<>>)
    BY <1>3, <1>4 DEF new
  <2> QED
    BY <1>2, <1>5, <1>6, <2>1 DEF TabsTyped, TabsKept
<1>8. RoomTyped /\ ClientSets
  BY <1>3 DEF Init, RoomTyped, Room, NewRoom, ClientSets
<1> QED
  BY <1>2, <1>7, <1>8 DEF IInv

LEMMA NextInv == IInv /\ [Next]_vars => IInv'
<1> SUFFICES ASSUME IInv, [Next]_vars PROVE IInv'
  OBVIOUS
<1>1. CASE UNCHANGED vars
  BY <1>1 DEF vars, IInv, RoomTyped, TabsTyped, TabsKept, SpentWithin, ClientSets, Edits
<1>2. ASSUME NEW c \in Client, Connect(c) PROVE IInv'
  BY <1>2, ConnectStep
<1>3. ASSUME NEW c \in Client, NEW p \in Path, NEW g \in BOOLEAN, Edit(c, p, g) PROVE IInv'
  BY <1>3, EditStep
<1>4. ASSUME NEW c \in Client, NEW p \in Path, Stray(c, p) PROVE IInv'
  BY <1>4, StrayStep
<1>5. ASSUME NEW c \in Client, NEW p \in Path, FlushPath(c, p) PROVE IInv'
  BY <1>5, FlushPathStep
<1>6. ASSUME NEW c \in Client, NEW e \in tab[c].inFlight, AckTimeout(c, e) PROVE IInv'
  BY <1>6, AckTimeoutStep
<1>7. ASSUME NEW c \in Client, Drop(c) PROVE IInv'
  BY <1>7, DropStep
<1>8. ASSUME NEW c \in Client, Reload(c) PROVE IInv'
  BY <1>8, ReloadStep
<1>9. ASSUME NEW c \in Client, HandleHello(c) PROVE IInv'
  BY <1>9, HandleHelloStep
<1>10. ASSUME NEW c \in Client, HandleSet(c) PROVE IInv'
  BY <1>10, HandleSetStep
<1>11. ASSUME NEW c \in Client, Nack(c) PROVE IInv'
  BY <1>11, NackStep
<1>12. CASE Restart
  BY <1>12, RestartStep
<1>13. ASSUME NEW c \in Client, OnWelcome(c) PROVE IInv'
  BY <1>13, OnWelcomeStep
<1>14. ASSUME NEW c \in Client, OnSnapshot(c) PROVE IInv'
  BY <1>14, OnSnapshotStep
<1>15. ASSUME NEW c \in Client, OnSet(c) PROVE IInv'
  BY <1>15, OnSetStep
<1>16. ASSUME NEW c \in Client, OnComplete(c) PROVE IInv'
  BY <1>16, OnCompleteStep
<1>17. ASSUME NEW c \in Client, OnNack(c) PROVE IInv'
  BY <1>17, OnNackStep
<1> QED
  BY <1>1, <1>2, <1>3, <1>4, <1>5, <1>6, <1>7, <1>8, <1>9, <1>10, <1>11, <1>12, <1>13, <1>14,
     <1>15, <1>16, <1>17 DEF Next

THEOREM TabsInvariant == Spec => []IInv
BY InitInv, NextInv, PTL DEF Spec

\* The tabs and the history are what the code makes of them: an op is resent at most MAX_RESENDS
\* times, one op of each clientSeq is in flight, and onClosed leaves nothing throttled or in flight.
THEOREM TabsTypeCorrect == Spec => []TypeOK
BY TabsInvariant, IInvImplies, PTL

\* A player's last edit of a path is the newest one the outbox holds until the server has had it,
\* however many tabs edit, drop, reload, are resent to, refused or restarted under (Outbox.ts).
THEOREM EditsAreKept == Spec => []NoEditLost
BY TabsInvariant, IInvImplies, PTL
-----------------------------------------------------------------------------
(* Loads between the edits *)

PendingLoad == [seq : Nat, next : Project, prior : Project, resent : BOOLEAN]

\* No op is in flight under the clientSeq of the load that l says is pending.
LoadKept(t, l) ==
  l # None => l \in PendingLoad /\ l.seq <= t.clientSeq /\ \A e \in t.inFlight : e.seq # l.seq

LoadsKept ==
  /\ loads \in 0..MaxLoads
  /\ loading \in [Client -> PendingLoad \cup {None}]
  /\ \A c \in Client : LoadKept(tab[c], loading[c])

BulkInv == IInv /\ LoadsKept

LEMMA LoadStays ==
  ASSUME NEW t \in Tab, NEW u \in Tab, NEW l, Follows(t, u), LoadKept(t, l)
  PROVE  LoadKept(u, l)
<1> SUFFICES ASSUME l # None PROVE l.seq <= u.clientSeq /\ \A e \in u.inFlight : e.seq # l.seq
  BY DEF LoadKept
<1>1. l.seq \in Nat /\ l.seq <= t.clientSeq /\ \A e \in t.inFlight : e.seq # l.seq
  BY DEF LoadKept, PendingLoad
<1>2. t.clientSeq \in Nat /\ u.clientSeq \in Nat /\ t.clientSeq <= u.clientSeq
  BY DEF Follows, Tab
<1> QED
  BY <1>1, <1>2 DEF Follows

\* A step of one tab that has nothing to do with loads.
LEMMA LoadsStay ==
  ASSUME BulkInv, IInv', NEW c \in Client, UNCHANGED <<loading, loads>>,
         \A b \in Client \ {c} : tab'[b] = tab[b], Follows(tab[c], tab'[c])
  PROVE  LoadsKept'
<1>1. tab[c] \in Tab /\ tab'[c] \in Tab
  BY DEF BulkInv, IInv, TabsTyped
<1>2. LoadKept(tab'[c], loading[c])
  BY <1>1, LoadStays DEF BulkInv, LoadsKept
<1> QED
  BY <1>2 DEF BulkInv, LoadsKept

\* The steps of ClientSync that loads leave as they are.
LEMMA FollowsItself ==
  ASSUME NEW t \in Tab, NEW u, u.inFlight = t.inFlight, u.clientSeq = t.clientSeq
  PROVE  Follows(t, u)
BY DEF Follows, Tab

LEMMA UntouchedStep ==
  ASSUME BulkInv, Untouched
  PROVE  BulkInv'
<1>inv. IInv /\ UNCHANGED <<loading, loads>> /\ tab \in [Client -> Tab]
  BY DEF BulkInv, Untouched, IInv, TabsTyped
<1>1. ASSUME NEW c \in Client, IInv', \A b \in Client \ {c} : tab'[b] = tab[b], Follows(tab[c], tab'[c])
      PROVE  BulkInv'
  BY <1>inv, <1>1, LoadsStay DEF BulkInv
<1>2. ASSUME NEW c \in Client, Connect(c) PROVE BulkInv'
  <2>1. IInv'
    BY <1>inv, <1>2, ConnectStep
  <2>2. /\ \A b \in Client \ {c} : tab'[b] = tab[b]
        /\ tab'[c].inFlight = tab[c].inFlight /\ tab'[c].clientSeq = tab[c].clientSeq
    BY <1>inv, <1>2 DEF Connect, Tab
  <2> QED
    BY <1>inv, <1>1, <2>1, <2>2, FollowsItself
<1>3. ASSUME NEW c \in Client, NEW p \in Path, NEW g \in BOOLEAN, Edit(c, p, g) PROVE BulkInv'
  <2>1. IInv'
    BY <1>inv, <1>3, EditStep
  <2> DEFINE u == Enqueue([tab[c] EXCEPT !.project[p] = Edits + 1], p, Edits + 1, tab[c].project[p], g)
             owes == [owed[c] EXCEPT ![p] = Edits + 1]
  <2>2. tab' = [tab EXCEPT ![c] = u]
    BY <1>inv, <1>3 DEF Edit, Edits
  <2>3. Edits + 1 \in Value
    BY <1>inv, <1>3, EditsCounted DEF Edit, IInv
  <2>4. /\ tab[c] \in Tab /\ owed[c] \in [Path -> MaybeValue] /\ down[c] \in Seq(Reply)
        /\ Edits \in Nat /\ Kept(tab[c], owed[c], down[c], Edits)
    BY <1>inv, OfTab
  <2>5. Follows(tab[c], u)
    <3>1. u \in Tab /\ Kept(u, owes, down[c], Edits + 1) /\ Follows(tab[c], u) /\ Sends(tab[c], u)
      BY <2>3, <2>4, EditKeeps
    <3> QED
      BY <3>1
  <2> HIDE DEF u
  <2> QED
    BY <1>inv, <1>1, <2>1, <2>2, <2>5
<1>4. ASSUME NEW c \in Client, NEW p \in Path, FlushPath(c, p) PROVE BulkInv'
  <2>1. IInv'
    BY <1>inv, <1>4, FlushPathStep
  <2> DEFINE u == FlushEntry(tab[c], p, tab[c].pending[p])
  <2>2. tab' = [tab EXCEPT ![c] = u] /\ tab[c].pending[p] # None
    BY <1>inv, <1>4 DEF FlushPath
  <2>3. /\ tab[c] \in Tab /\ down[c] \in Seq(Reply)
        /\ Edits \in Nat /\ Kept(tab[c], owed[c], down[c], Edits)
    BY <1>inv, OfTab
  <2>4. Follows(tab[c], u)
    BY <2>2, <2>3, FlushPathKeeps
  <2> HIDE DEF u
  <2> QED
    BY <1>inv, <1>1, <2>1, <2>2, <2>4
<1>5. ASSUME NEW c \in Client, HandleHello(c) \/ HandleSet(c) PROVE BulkInv'
  <2>1. IInv'
    BY <1>inv, <1>5, HandleHelloStep, HandleSetStep
  <2>2. tab' = [tab EXCEPT ![c].up = Tail(@)]
    BY <1>5 DEF HandleHello, HandleSet, Take
  <2>3. \A b \in Client \ {c} : tab'[b] = tab[b]
    BY <1>inv, <2>2
  <2>4. tab'[c].inFlight = tab[c].inFlight /\ tab'[c].clientSeq = tab[c].clientSeq
    BY <1>inv, <2>2 DEF Tab
  <2> QED
    BY <1>inv, <1>1, <2>1, <2>3, <2>4, FollowsItself
<1>6. ASSUME NEW c \in Client, OnWelcome(c) PROVE BulkInv'
  <2>1. IInv'
    BY <1>inv, <1>6, OnWelcomeStep
  <2>2. /\ \A b \in Client \ {c} : tab'[b] = tab[b]
        /\ tab'[c].inFlight = tab[c].inFlight /\ tab'[c].clientSeq = tab[c].clientSeq
    BY <1>inv, <1>6 DEF OnWelcome, Receive, Tab
  <2> QED
    BY <1>inv, <1>1, <2>1, <2>2, FollowsItself
<1>7. ASSUME NEW c \in Client, OnSet(c) PROVE BulkInv'
  <2>1. IInv'
    BY <1>inv, <1>7, OnSetStep
  <2> DEFINE msg == Head(down[c])
             u == Dispatched(tab[c], msg)
             d == Tail(down[c])
  <2>2. tab' = [tab EXCEPT ![c] = u] /\ down[c] # <<>> /\ msg.type = "set"
    BY <1>inv, <1>7 DEF OnSet, Receive
  <2>3. /\ msg \in Reply /\ d \in Seq(Reply) /\ tab[c] \in Tab /\ Edits \in Nat
        /\ Kept(tab[c], owed[c], d, Edits) /\ Settles(tab[c], owed[c], msg)
    BY <1>inv, <2>2, ReceivedFacts, OfTab
  <2> HIDE DEF msg, d
  <2>4. Follows(tab[c], u)
    BY <2>2, <2>3, DispatchedKeeps
  <2> HIDE DEF u
  <2> QED
    BY <1>inv, <1>1, <2>1, <2>2, <2>4
<1>8. ASSUME NEW c \in Client, OnComplete(c) PROVE BulkInv'
  BY <1>inv, <1>1, <1>8, OnCompleteStep
<1> QED
  BY <1>2, <1>3, <1>4, <1>5, <1>6, <1>7, <1>8 DEF Untouched

\* A step that ends, begins or changes the load of one tab.
LEMMA LoadMoves ==
  ASSUME BulkInv, NEW c \in Client, NEW l \in PendingLoad \cup {None}, loading' = [loading EXCEPT ![c] = l],
         loads' \in 0..MaxLoads, \A b \in Client \ {c} : tab'[b] = tab[b], LoadKept(tab'[c], l)
  PROVE  LoadsKept'
BY DEF BulkInv, LoadsKept

\* A clientSeq that no op has yet.
IsUnused(t, q) == \A e \in t.inFlight : e.seq # q

Renumbered(t, x) == [t EXCEPT !.project = x, !.clientSeq = @ + 1]

LEMMA SeqTaken ==
  ASSUME NEW t \in Tab, NEW o, NEW d \in Seq(Reply), NEW n, Kept(t, o, d, n), NEW x \in Project,
         NEW s, s = Renumbered(t, x)
  PROVE  s \in Tab /\ Kept(s, o, d, n) /\ Sends(t, s) /\ IsUnused(s, s.clientSeq)
<1>1. t.clientSeq \in Nat /\ t.inFlight \in SUBSET Sent /\ t.up \in Seq(Request)
  BY DEF Tab
<1>2. /\ s.pending = t.pending /\ s.offline = t.offline /\ s.inFlight = t.inFlight /\ s.up = t.up
      /\ s.state = t.state /\ s.clientSeq = t.clientSeq + 1
  BY DEF Renumbered, Tab
<1>tab. s \in Tab
  <2> DEFINE q == t.clientSeq + 1
  <2>1. q \in Nat /\ s = [t EXCEPT !.project = x, !.clientSeq = q]
    BY <1>1 DEF Renumbered
  <2> HIDE DEF q
  <2> QED
    BY <2>1 DEF Tab
<1>3. \A e \in t.inFlight : e.seq \in Nat /\ e.seq <= t.clientSeq
  BY <1>1 DEF Sent, Kept, Tracking
<1>4. Tracking(s, n)
  BY <1>1, <1>2, <1>3 DEF Kept, Tracking, Live
<1>5. Requesting(s)
  <2> DEFINE up == t.up
  <2>1. up \in Seq(Request)
    BY <1>1
  <2>2. \A i \in 1..Len(up) : up[i].type # "hello" => up[i].clientSeq \in Nat
    <3> HIDE DEF up
    <3> QED
      BY <2>1, ElementOfSeq DEF Request
  <2>3. \A i \in 1..Len(up) : up[i].type # "hello" => up[i].clientSeq <= t.clientSeq + 1
    BY <1>1, <2>2 DEF Kept, Requesting
  <2> QED
    BY <1>2, <2>3 DEF Kept, Requesting
<1>6. Settling(s, o, d)
  <2>1. \A i \in 1..Len(d) : d[i].type \in {"set", "nack"} => d[i].clientSeq \in Nat
    BY ElementOfSeq DEF Reply
  <2>2. \A i \in 1..Len(d) : d[i].type \in {"set", "nack"} => d[i].clientSeq <= t.clientSeq + 1
    BY <1>1, <2>1 DEF Kept, Settling, Settles
  <2> QED
    BY <1>2, <2>2 DEF Kept, Settling, Settles
<1>7. Owing(s, o, n)
  BY <1>2 DEF Kept, Owing, Owes, InFlightOn
<1>8. IsUnused(s, s.clientSeq)
  BY <1>1, <1>2, <1>3 DEF IsUnused
<1> QED
  BY <1>2, <1>tab, <1>4, <1>5, <1>6, <1>7, <1>8 DEF Kept, Sends

\* A load joins what a live tab has on its way.
LEMMA LoadSent ==
  ASSUME NEW t \in Tab, NEW o, NEW d, NEW n, Kept(t, o, d, n), Live(t), NEW q \in Nat, NEW x \in Project,
         q <= t.clientSeq, IsUnused(t, q),
         NEW u, u = [t EXCEPT !.up = Append(@, LoadMsg(q, x))]
  PROVE  u \in Tab /\ Kept(u, o, d, n) /\ Sends(t, u) /\ u.inFlight = t.inFlight /\ u.clientSeq = t.clientSeq
<1> DEFINE up == t.up
           m == LoadMsg(q, x)
<1>1. up \in Seq(Request) /\ m \in Request /\ m.type = "load" /\ m.clientSeq = q
  BY DEF Tab, LoadMsg, Request
<1>2. /\ u.pending = t.pending /\ u.offline = t.offline /\ u.inFlight = t.inFlight
      /\ u.state = t.state /\ u.clientSeq = t.clientSeq /\ u.up = Append(up, m)
  BY DEF Tab
<1>3. u = [t EXCEPT !.up = Append(up, m)]
  OBVIOUS
<1> HIDE DEF m, up
<1>4. /\ Append(up, m) \in Seq(Request)
      /\ \A i \in 1..Len(Append(up, m)) : \/ i \in 1..Len(up) /\ Append(up, m)[i] = up[i]
                                          \/ i = Len(up) + 1 /\ Append(up, m)[i] = m
  BY <1>1, Appended
<1>5. u \in Tab
  BY <1>3, <1>4 DEF Tab
<1>6. Requesting(u)
  <2>1. \A i \in 1..Len(up) :
          /\ up[i].type # "hello"
          /\ up[i].clientSeq <= t.clientSeq
          /\ \A e \in t.inFlight :
               e.seq = up[i].clientSeq => up[i].type = "set" /\ e.path = up[i].path /\ e.value = up[i].value
    BY DEF Kept, Requesting, Live, up
  <2> SUFFICES ASSUME NEW i \in 1..Len(Append(up, m))
               PROVE  LET f == Append(up, m)[i]
                      IN /\ f.type # "hello" /\ f.clientSeq <= t.clientSeq
                         /\ \A e \in t.inFlight :
                              e.seq = f.clientSeq => f.type = "set" /\ e.path = f.path /\ e.value = f.value
    BY <1>2 DEF Requesting
  <2>2. CASE i \in 1..Len(up) /\ Append(up, m)[i] = up[i]
    BY <2>1, <2>2
  <2>3. CASE Append(up, m)[i] = m
    BY <1>1, <2>3 DEF IsUnused
  <2> QED
    BY <1>4, <2>2, <2>3
<1>7. Tracking(u, n) /\ Settling(u, o, d) /\ Owing(u, o, n)
  BY <1>2 DEF Kept, Tracking, Live, Settling, Settles, Owing, Owes, InFlightOn
<1> QED
  BY <1>2, <1>5, <1>6, <1>7 DEF Kept, Sends, Live

LEMMA LoadStep ==
  ASSUME BulkInv, NEW c \in Client, Load(c)
  PROVE  BulkInv'
<1> DEFINE t == tab[c]
           next == [p \in Path |-> MaxEdits + loads + 1]
           s == Renumbered(t, next)
           u == IF Live(t) THEN [s EXCEPT !.up = Append(@, LoadMsg(t.clientSeq + 1, next))] ELSE s
           l == [seq |-> t.clientSeq + 1, next |-> next, prior |-> t.project, resent |-> FALSE]
<1>inv. IInv /\ LoadsKept
  BY DEF BulkInv
<1>1. /\ t \in Tab /\ owed[c] \in [Path -> MaybeValue] /\ down[c] \in Seq(Reply) /\ Edits \in Nat
      /\ Kept(t, owed[c], down[c], Edits) /\ Handshake(t, down[c])
  BY <1>inv, OfTab
<1>2. /\ loads < MaxLoads /\ loads' = loads + 1 /\ loading' = [loading EXCEPT ![c] = l]
      /\ UNCHANGED <<room, down, spent, owed, gapped, excused>>
  BY DEF Load
<1>3. next \in Project /\ loads' \in 0..MaxLoads
  <2>1. MaxEdits \in Nat /\ MaxLoads \in Nat /\ 0..(MaxEdits + MaxLoads) \subseteq Value
    BY ClientSyncAssumption, BulkLoadAssumption
  <2>2. loads \in 0..MaxLoads
    BY <1>inv DEF LoadsKept
  <2>3. MaxEdits + loads + 1 \in 0..(MaxEdits + MaxLoads) /\ loads' \in 0..MaxLoads
    BY <1>2, <2>1, <2>2
  <2>4. MaxEdits + loads + 1 \in Value
    BY <2>1, <2>3
  <2> QED
    BY <2>3, <2>4 DEF Project
<1>4. tab' = [tab EXCEPT ![c] = u]
  <2>1. tab \in [Client -> Tab]
    BY <1>inv DEF IInv, TabsTyped
  <2> QED
    BY <1>1, <2>1 DEF Load, Renumbered, Tab
<1> HIDE DEF next
<1>s. s = Renumbered(t, next)
  OBVIOUS
<1> HIDE DEF s, t
<1>5. s \in Tab /\ Kept(s, owed[c], down[c], Edits) /\ Sends(t, s) /\ IsUnused(s, s.clientSeq)
  BY <1>1, <1>3, <1>s, SeqTaken, Zenon
<1>6. t.clientSeq \in Nat /\ t.project \in Project /\ s.clientSeq = t.clientSeq + 1
  BY <1>1, <1>s DEF Tab, Renumbered
<1>7. t.clientSeq + 1 \in Nat /\ s.clientSeq <= t.clientSeq + 1 /\ t.clientSeq + 1 <= s.clientSeq
  BY <1>5, <1>6
<1>8. l \in PendingLoad /\ l.seq = t.clientSeq + 1
  BY <1>3, <1>6 DEF PendingLoad
<1>9. /\ u \in Tab /\ Kept(u, owed[c], down[c], Edits) /\ Sends(t, u)
      /\ u.inFlight = s.inFlight /\ u.clientSeq = s.clientSeq
  <2>1. CASE Live(t)
    <3> DEFINE r == [s EXCEPT !.up = Append(@, LoadMsg(t.clientSeq + 1, next))]
    <3>1. Live(s) /\ IsUnused(s, t.clientSeq + 1)
      BY <1>5, <1>6, <2>1 DEF Sends, Live
    <3>2. u = r
      BY <2>1
    <3>3. /\ r \in Tab /\ Kept(r, owed[c], down[c], Edits) /\ Sends(s, r)
          /\ r.inFlight = s.inFlight /\ r.clientSeq = s.clientSeq
      BY <1>3, <1>5, <1>7, <3>1, LoadSent
    <3> HIDE DEF r
    <3>4. Sends(t, r)
      BY <1>5, <2>1, <3>3 DEF Sends
    <3> QED
      BY <3>2, <3>3, <3>4
  <2>2. CASE ~Live(t)
    BY <1>5, <2>2
  <2> QED
    BY <2>1, <2>2
<1> HIDE DEF u, l
<1>10. Handshake(u, down[c])
  BY <1>1, <1>9, HandshakeSends DEF Kept
<1>11. RoomTyped' /\ SpentWithin' /\ Edits' = Edits /\ ClientSets'
  BY <1>inv, <1>2, Unspent
<1>12. StepOf(c, u, owed[c], down[c])
  BY <1>1, <1>2, <1>4, <1>9, <1>10, <1>11 DEF StepOf
<1>13. IInv'
  BY <1>inv, <1>12, Stepped
<1>14. tab'[c] = u /\ \A b \in Client \ {c} : tab'[b] = tab[b]
  BY <1>inv, <1>4 DEF IInv, TabsTyped
<1>15. LoadKept(u, l)
  BY <1>5, <1>6, <1>7, <1>8, <1>9 DEF LoadKept, IsUnused
<1>16. LoadsKept'
  BY <1>2, <1>3, <1>8, <1>14, <1>15, LoadMoves
<1> QED
  BY <1>13, <1>16 DEF BulkInv

LEMMA ResendLoadStep ==
  ASSUME BulkInv, NEW c \in Client, ResendLoad(c)
  PROVE  BulkInv'
<1> DEFINE t == tab[c]
           q == loading[c].seq
           x == loading[c].next
           l == [loading[c] EXCEPT !.resent = TRUE]
           u == IF Live(t) THEN [t EXCEPT !.up = Append(@, LoadMsg(q, x))] ELSE t
<1>inv. IInv /\ LoadsKept
  BY DEF BulkInv
<1>1. /\ t \in Tab /\ owed[c] \in [Path -> MaybeValue] /\ down[c] \in Seq(Reply) /\ Edits \in Nat
      /\ Kept(t, owed[c], down[c], Edits) /\ Handshake(t, down[c])
  BY <1>inv, OfTab
<1>2. /\ loading[c] # None /\ loading' = [loading EXCEPT ![c] = l]
      /\ UNCHANGED <<room, down, spent, owed, gapped, excused, loads>>
  BY <1>inv DEF ResendLoad, LoadsKept
<1>3. tab' = [tab EXCEPT ![c] = u]
  <2>1. tab \in [Client -> Tab]
    BY <1>inv DEF IInv, TabsTyped
  <2> QED
    BY <2>1 DEF ResendLoad
<1>4. loading[c] \in PendingLoad /\ LoadKept(t, loading[c])
  BY <1>inv, <1>2 DEF LoadsKept, LoadKept
<1>5. q \in Nat /\ x \in Project /\ q <= t.clientSeq /\ IsUnused(t, q)
  BY <1>2, <1>4 DEF PendingLoad, LoadKept, IsUnused
<1>6. l \in PendingLoad /\ l.seq = q
  BY <1>4 DEF PendingLoad
<1> HIDE DEF q, x, l, t
<1>7. /\ u \in Tab /\ Kept(u, owed[c], down[c], Edits) /\ Sends(t, u)
      /\ u.inFlight = t.inFlight /\ u.clientSeq = t.clientSeq
  <2>1. CASE Live(t)
    <3> DEFINE r == [t EXCEPT !.up = Append(@, LoadMsg(q, x))]
    <3>1. /\ r \in Tab /\ Kept(r, owed[c], down[c], Edits) /\ Sends(t, r)
          /\ r.inFlight = t.inFlight /\ r.clientSeq = t.clientSeq
      BY <1>1, <1>5, <2>1, LoadSent
    <3> HIDE DEF r
    <3>2. u = r
      BY <2>1 DEF r
    <3> QED
      BY <3>1, <3>2
  <2>2. CASE ~Live(t)
    BY <1>1, <2>2 DEF Sends
  <2> QED
    BY <2>1, <2>2
<1> HIDE DEF u
<1>8. Handshake(u, down[c])
  BY <1>1, <1>7, HandshakeSends DEF Kept
<1>9. RoomTyped' /\ SpentWithin' /\ Edits' = Edits /\ ClientSets'
  BY <1>inv, <1>2, Unspent
<1>10. StepOf(c, u, owed[c], down[c])
  BY <1>1, <1>2, <1>3, <1>7, <1>8, <1>9 DEF StepOf
<1>11. IInv'
  BY <1>inv, <1>10, Stepped
<1>12. tab'[c] = u /\ \A b \in Client \ {c} : tab'[b] = tab[b]
  BY <1>inv, <1>3 DEF IInv, TabsTyped
<1>13. LoadKept(u, l)
  BY <1>5, <1>6, <1>7 DEF LoadKept, IsUnused
<1>14. LoadsKept'
  BY <1>inv, <1>2, <1>6, <1>12, <1>13, LoadMoves DEF LoadsKept
<1> QED
  BY <1>11, <1>14 DEF BulkInv

\* A tab whose load is over has nothing to keep for it.
LEMMA LoadEnds ==
  ASSUME BulkInv, NEW c \in Client, loading' = [loading EXCEPT ![c] = None], UNCHANGED loads,
         \A b \in Client \ {c} : tab'[b] = tab[b]
  PROVE  LoadsKept'
<1>1. LoadKept(tab'[c], None)
  BY DEF LoadKept
<1>2. None \in PendingLoad \cup {None} /\ loads' \in 0..MaxLoads
  BY DEF BulkInv, LoadsKept
<1> QED
  BY <1>1, <1>2, LoadMoves

LEMMA GiveUpLoadStep ==
  ASSUME BulkInv, NEW c \in Client, GiveUpLoad(c)
  PROVE  BulkInv'
<1> DEFINE x == loading[c].prior
           u == [tab[c] EXCEPT !.project = x]
<1>inv. IInv /\ LoadsKept
  BY DEF BulkInv
<1>1. /\ tab[c] \in Tab /\ owed[c] \in [Path -> MaybeValue] /\ down[c] \in Seq(Reply) /\ Edits \in Nat
      /\ Kept(tab[c], owed[c], down[c], Edits) /\ Handshake(tab[c], down[c])
  BY <1>inv, OfTab
<1>2. /\ loading[c] # None /\ loading' = [loading EXCEPT ![c] = None] /\ excused' = excused \cup {c}
      /\ UNCHANGED <<room, down, spent, owed, gapped, loads>>
  BY DEF GiveUpLoad, Rollback
<1>3. tab' = [tab EXCEPT ![c] = u]
  BY <1>inv DEF GiveUpLoad, IInv, TabsTyped
<1>4. x \in Project
  BY <1>inv, <1>2 DEF LoadsKept, PendingLoad
<1> HIDE DEF x
<1>5. u \in Tab /\ SameOutbox(tab[c], u)
  BY <1>1, <1>4 DEF Tab, SameOutbox
<1> HIDE DEF u
<1>6. Kept(u, owed[c], down[c], Edits)
  BY <1>1, <1>5, KeptElsewhere
<1>7. Handshake(u, down[c])
  BY <1>1, <1>5 DEF Handshake, SameOutbox, Live
<1>8. RoomTyped' /\ SpentWithin' /\ Edits' = Edits
  BY <1>inv, <1>2, Unspent
<1>9. ClientSets'
  BY <1>inv, <1>2 DEF IInv, ClientSets
<1>10. StepOf(c, u, owed[c], down[c])
  BY <1>1, <1>2, <1>3, <1>5, <1>6, <1>7, <1>8, <1>9 DEF StepOf
<1>11. IInv'
  BY <1>inv, <1>10, Stepped
<1>12. \A b \in Client \ {c} : tab'[b] = tab[b]
  BY <1>inv, <1>3 DEF IInv, TabsTyped
<1>13. LoadsKept'
  BY <1>2, <1>12, LoadEnds
<1> QED
  BY <1>11, <1>13 DEF BulkInv

LEMMA ClosedLoadingKeeps ==
  ASSUME NEW t \in Tab, NEW o, NEW d, NEW n \in Nat, Kept(t, o, d, n), NEW l
  PROVE  /\ ClosedLoading(t, l) \in Tab /\ Kept(ClosedLoading(t, l), o, <<>>, n)
         /\ ClosedLoading(t, l).up = <<>>
<1> DEFINE s == Closed(t)
           u == [s EXCEPT !.snapshotRequired = TRUE]
<1>1. s \in Tab /\ Kept(s, o, <<>>, n) /\ s.up = <<>>
  BY ClosedKeeps
<1>2. ClosedLoading(t, l) = s \/ ClosedLoading(t, l) = u
  BY DEF ClosedLoading
<1> HIDE DEF s
<1>3. u \in Tab /\ SameOutbox(s, u)
  BY <1>1 DEF Tab, SameOutbox
<1> HIDE DEF u
<1>4. Kept(u, o, <<>>, n) /\ u.up = <<>>
  BY <1>1, <1>3, KeptElsewhere DEF SameOutbox
<1> QED
  BY <1>1, <1>2, <1>3, <1>4

LEMMA LoseConnectionStep ==
  ASSUME BulkInv, NEW c \in Client, LoseConnection(c)
  PROVE  BulkInv'
<1> DEFINE u == ClosedLoading(tab[c], loading[c])
<1>inv. IInv
  BY DEF BulkInv
<1>1. /\ tab[c] \in Tab /\ owed[c] \in [Path -> MaybeValue] /\ Edits \in Nat
      /\ Kept(tab[c], owed[c], down[c], Edits)
  BY <1>inv, OfTab
<1>2. /\ Mishap("drops", MaxDrops) /\ UNCHANGED <<room, owed, loads>>
      /\ loading' = [loading EXCEPT ![c] = None]
  BY DEF LoseConnection
<1>3. tab' = [tab EXCEPT ![c] = u] /\ down' = [down EXCEPT ![c] = <<>>]
  BY <1>inv DEF LoseConnection, IInv, TabsTyped
<1>4. u \in Tab /\ Kept(u, owed[c], <<>>, Edits) /\ u.up = <<>>
  BY <1>1, ClosedLoadingKeeps
<1> HIDE DEF u
<1>5. Handshake(u, <<>>)
  BY <1>4, HandshakeClosed
<1>6. SpentWithin' /\ Edits' = Edits
  BY <1>inv, <1>2, Counted DEF IInv
<1>7. RoomTyped' /\ ClientSets'
  BY <1>inv, <1>2 DEF LoseConnection, IInv, RoomTyped, ClientSets
<1>8. StepOf(c, u, owed[c], <<>>)
  BY <1>1, <1>2, <1>3, <1>4, <1>5, <1>6, <1>7 DEF StepOf
<1>9. IInv'
  BY <1>inv, <1>8, Stepped
<1>10. \A b \in Client \ {c} : tab'[b] = tab[b]
  BY <1>inv, <1>3 DEF IInv, TabsTyped
<1>11. LoadsKept'
  BY <1>2, <1>10, LoadEnds
<1> QED
  BY <1>9, <1>11 DEF BulkInv

\* The server takes a load: no op is in flight under its clientSeq.
TakenLoad(c, msg, u) ==
  /\ u \in Tab /\ u.state # "closed" /\ Follows(tab[c], u)
  /\ tab' = [tab EXCEPT ![c] = u]
  /\ Kept(u, owed[c], down[c], Edits) /\ Handshake(u, down[c])
  /\ msg.clientSeq \in Nat /\ msg.project \in Project /\ msg.clientSeq <= u.clientSeq
  /\ IsUnused(u, msg.clientSeq)

LEMMA LoadTaken ==
  ASSUME IInv, NEW c \in Client, Take(c, "load")
  PROVE  \E u : TakenLoad(c, Head(tab[c].up), u)
<1> DEFINE t == tab[c]
           msg == Head(t.up)
           u == [t EXCEPT !.up = Tail(@)]
<1>1. t \in Tab /\ Kept(t, owed[c], down[c], Edits) /\ Handshake(t, down[c])
  BY OfTab
<1>2. t.up # <<>> /\ msg.type = "load"
  BY DEF Take
<1>3. tab' = [tab EXCEPT ![c] = u]
  BY DEF Take, IInv, TabsTyped
<1>4. u \in Tab /\ Kept(u, owed[c], down[c], Edits) /\ msg \in Request /\ Follows(t, u)
  BY <1>1, <1>2, RequestTaken
<1>5. Handshake(u, down[c]) /\ u.state = t.state /\ t.state # "closed"
  BY <1>1, <1>2, HandshakeTaken
<1>6. msg.clientSeq \in Nat /\ msg.project \in Project
  BY <1>2, <1>4 DEF Request
<1>7. u.inFlight = t.inFlight /\ u.clientSeq = t.clientSeq
  BY <1>1 DEF Tab
<1>8. msg.clientSeq <= t.clientSeq /\ IsUnused(t, msg.clientSeq)
  <2> DEFINE up == t.up
  <2>1. up \in Seq(Request) /\ up # <<>>
    BY <1>1, <1>2 DEF Tab
  <2>2. 1 \in 1..Len(up) /\ Head(up) = up[1]
    <3> HIDE DEF up
    <3> QED
      BY <2>1, Shortened
  <2>3. up[1].type = "load"
    BY <1>2, <2>2
  <2> QED
    BY <1>1, <2>2, <2>3 DEF Kept, Requesting, IsUnused
<1> HIDE DEF u, msg
<1>9. TakenLoad(c, msg, u)
  BY <1>3, <1>4, <1>5, <1>6, <1>7, <1>8 DEF TakenLoad, IsUnused
<1> QED
  BY <1>9 DEF msg

LEMMA HandleLoadStep ==
  ASSUME BulkInv, NEW c \in Client, HandleLoad(c)
  PROVE  BulkInv'
<1> DEFINE msg == Head(tab[c].up)
           m == [type |-> "snapshot", opId |-> OpIdHead(room'), project |-> msg.project]
<1>inv. IInv
  BY DEF BulkInv
<1>1. PICK u : TakenLoad(c, msg, u)
  BY <1>inv, LoadTaken DEF HandleLoad
<1>2. /\ UNCHANGED <<spent, owed, gapped, excused, loading, loads>> /\ room' = ReplaceProject(room, msg.project)
      /\ down' = [d \in Client |-> IF d \in Audience(c) THEN Append(down[d], m) ELSE down[d]]
  BY DEF HandleLoad
<1>3. SpentWithin' /\ Edits' = Edits /\ ClientSets'
  BY <1>inv, <1>2, Unspent
<1>4. RoomTyped' /\ OpIdHead(room') \in Nat
  <2>1. room \in Room /\ room.nextOpId \in Nat /\ room.nextOpId # 0 /\ msg.project \in Project
    BY <1>inv, <1>1 DEF IInv, RoomTyped, Room, TakenLoad
  <2> HIDE DEF msg
  <2> QED
    BY <1>2, <2>1 DEF RoomTyped, Room, ReplaceProject, OpIdHead
<1>5. m \in Reply /\ m.type = "snapshot"
  BY <1>1, <1>4 DEF Reply, TakenLoad
<1> HIDE DEF m, msg
<1>6. tab \in [Client -> Tab] /\ owed \in [Client -> [Path -> MaybeValue]] /\ tab' = [tab EXCEPT ![c] = u]
  BY <1>inv, <1>1 DEF IInv, TabsTyped, TakenLoad
<1>7. u \in Tab /\ tab'[c] = u /\ \A b \in Client \ {c} : tab'[b] = tab[b]
  BY <1>1, <1>6 DEF TakenLoad
<1>8. ASSUME NEW b \in Client
      PROVE  down'[b] \in Seq(Reply) /\ Kept(tab'[b], owed[b], down'[b], Edits) /\ Handshake(tab'[b], down'[b])
  <2> DEFINE s == tab'[b]
  <2>1. s \in Tab /\ down[b] \in Seq(Reply) /\ Kept(s, owed[b], down[b], Edits) /\ Handshake(s, down[b])
    <3>1. CASE b = c
      BY <1>inv, <1>1, <1>7, <3>1, OfTab DEF TakenLoad
    <3>2. CASE b # c
      BY <1>inv, <1>7, <3>2, OfTab
    <3> QED
      BY <3>1, <3>2
  <2>2. tab[b].state # "closed" => s.state # "closed"
    BY <1>1, <1>7 DEF TakenLoad
  <2> HIDE DEF s
  <2>3. CASE b \in Audience(c)
    <3>1. down'[b] = Append(down[b], m) /\ s.state # "closed"
      BY <1>2, <2>2, <2>3 DEF Audience
    <3>2. Settles(s, owed[b], m)
      BY <2>1, <1>5, SettlesNothing
    <3>3. m \in Reply /\ m.type \notin {"welcome", "complete"}
      BY <1>5
    <3> QED
      BY <2>1, <3>1, <3>2, <3>3, Answered DEF s
  <2>4. CASE b \notin Audience(c)
    BY <1>2, <2>1, <2>4 DEF s
  <2> QED
    BY <2>3, <2>4
<1>9. TabsTyped'
  <2>1. down' \in [Client -> Seq(Reply)]
    BY <1>2, <1>8
  <2> QED
    BY <1>2, <1>6, <1>7, <2>1 DEF TabsTyped
<1>10. TabsKept'
  BY <1>2, <1>3, <1>8 DEF TabsKept
<1>11. IInv'
  BY <1>3, <1>4, <1>9, <1>10 DEF IInv
<1>12. LoadsKept'
  <2>1. Follows(tab[c], tab'[c])
    BY <1>1, <1>7 DEF TakenLoad
  <2> QED
    BY <1>2, <1>7, <1>11, <2>1, LoadsStay
<1> QED
  BY <1>11, <1>12 DEF BulkInv

LEMMA RefuseLoadStep ==
  ASSUME BulkInv, NEW c \in Client, RefuseLoad(c)
  PROVE  BulkInv'
<1> DEFINE msg == Head(tab[c].up)
           m == [type |-> "nack", clientSeq |-> msg.clientSeq]
           d == Append(down[c], m)
<1>inv. IInv
  BY DEF BulkInv
<1>1. PICK u : TakenLoad(c, msg, u)
  BY <1>inv, LoadTaken DEF RefuseLoad
<1>2. /\ Mishap("nacks", MaxNacks) /\ UNCHANGED <<room, owed, gapped, excused, loading, loads>>
      /\ down' = [down EXCEPT ![c] = d]
  BY <1>inv DEF RefuseLoad, IInv, TabsTyped
<1>3. down[c] \in Seq(Reply) /\ owed[c] \in [Path -> MaybeValue]
  BY <1>inv, OfTab
<1>4. m \in Reply /\ m.type = "nack" /\ m.clientSeq = msg.clientSeq
  BY <1>1 DEF TakenLoad, Reply
<1> HIDE DEF m
<1>5. Settles(u, owed[c], m)
  BY <1>1, <1>4 DEF TakenLoad, Settles, IsUnused
<1>6. d \in Seq(Reply) /\ Kept(u, owed[c], d, Edits) /\ Handshake(u, d)
  <2>1. Kept(u, owed[c], down[c], Edits) /\ Handshake(u, down[c]) /\ u.state # "closed"
    BY <1>1 DEF TakenLoad
  <2> QED
    BY <1>3, <1>4, <1>5, <2>1, Answered
<1>7. SpentWithin' /\ Edits' = Edits
  BY <1>inv, <1>2, Counted DEF IInv
<1>8. RoomTyped' /\ ClientSets'
  BY <1>inv, <1>2, Unspent
<1> HIDE DEF d
<1>9. StepOf(c, u, owed[c], d)
  BY <1>1, <1>2, <1>3, <1>6, <1>7, <1>8 DEF StepOf, TakenLoad
<1>10. IInv'
  BY <1>inv, <1>9, Stepped
<1>11. tab'[c] = u /\ Follows(tab[c], u) /\ \A b \in Client \ {c} : tab'[b] = tab[b]
  BY <1>inv, <1>1 DEF TakenLoad, IInv, TabsTyped
<1>12. LoadsKept'
  BY <1>2, <1>10, <1>11, LoadsStay
<1> QED
  BY <1>10, <1>12 DEF BulkInv

LEMMA RolledBackFollows ==
  ASSUME NEW t \in Tab, NEW seq
  PROVE  Follows(t, RolledBack(t, seq))
<1>1. RolledBack(t, seq).inFlight \subseteq t.inFlight /\ RolledBack(t, seq).clientSeq = t.clientSeq
  BY DEF RolledBack, Tab
<1>2. t.clientSeq \in Nat
  BY DEF Tab
<1> QED
  BY <1>1, <1>2 DEF Follows

LEMMA OnLoadNackStep ==
  ASSUME BulkInv, NEW c \in Client, OnLoadNack(c)
  PROVE  BulkInv'
<1> DEFINE msg == Head(down[c])
           seq == msg.clientSeq
           ours == loading[c] # None /\ loading[c].seq = seq
           x == loading[c].prior
           put == [tab[c] EXCEPT !.project = x]
           back == RolledBack(tab[c], seq)
           u == IF ours THEN put ELSE back
           d == Tail(down[c])
<1>inv. IInv /\ LoadsKept
  BY DEF BulkInv
<1>1. /\ down[c] # <<>> /\ msg.type = "nack"
      /\ tab' = [tab EXCEPT ![c] = u] /\ down' = [down EXCEPT ![c] = d]
      /\ UNCHANGED <<room, spent, owed, gapped, loads>>
      /\ IF ours THEN loading' = [loading EXCEPT ![c] = None] /\ excused' = excused \cup {c}
         ELSE UNCHANGED <<loading, excused>>
  BY DEF OnLoadNack, Receive, Rollback
<1>2. /\ d \in Seq(Reply) /\ tab[c] \in Tab /\ Edits \in Nat
      /\ Kept(tab[c], owed[c], d, Edits) /\ Handshake(tab[c], d) /\ Settles(tab[c], owed[c], msg)
  BY <1>inv, <1>1, ReceivedFacts, OfTab
<1>3. \A e \in tab[c].inFlight : e.seq = seq => owed[c][e.path] # e.value
  BY <1>1, <1>2 DEF Settles
<1>4. ours => x \in Project
  BY <1>inv DEF LoadsKept, PendingLoad
<1> HIDE DEF d, seq, x
<1>5. ours => put \in Tab /\ SameOutbox(tab[c], put)
  BY <1>2, <1>4 DEF Tab, SameOutbox
<1>6. back \in Tab /\ Kept(back, owed[c], d, Edits) /\ SameLine(tab[c], back)
  BY <1>2, <1>3, RolledBackKeeps, Zenon
<1>7. Follows(tab[c], back)
  BY <1>2, RolledBackFollows
<1> HIDE DEF ours, put, back
<1>8. ours => Kept(put, owed[c], d, Edits) /\ SameLine(tab[c], put)
  BY <1>2, <1>5, KeptElsewhere DEF SameOutbox, SameLine
<1>9. u \in Tab /\ Kept(u, owed[c], d, Edits) /\ SameLine(tab[c], u)
  BY <1>5, <1>6, <1>8
<1>10. ~ours => Follows(tab[c], u)
  BY <1>7
<1> HIDE DEF u
<1>11. Handshake(u, d)
  BY <1>2, <1>9 DEF Handshake, Live, SameLine
<1>12. RoomTyped' /\ ClientSets'
  BY <1>inv, <1>1 DEF IInv, RoomTyped, ClientSets
<1>13. IInv'
  BY <1>inv, <1>1, <1>9, <1>11, <1>12, ReceivedStep DEF d
<1>14. tab'[c] = u /\ \A b \in Client \ {c} : tab'[b] = tab[b]
  BY <1>inv, <1>1 DEF IInv, TabsTyped
<1>15. LoadsKept'
  <2>1. CASE ours
    BY <1>1, <1>14, <2>1, LoadEnds
  <2>2. CASE ~ours
    BY <1>1, <1>10, <1>13, <1>14, <2>2, LoadsStay
  <2> QED
    BY <2>1, <2>2
<1> QED
  BY <1>13, <1>15 DEF BulkInv

LEMMA OnSnapshotLoadingStep ==
  ASSUME BulkInv, NEW c \in Client, OnSnapshotLoading(c)
  PROVE  BulkInv'
<1>1. OnSnapshot(c) /\ loading' = [loading EXCEPT ![c] = None] /\ UNCHANGED loads
  BY DEF OnSnapshotLoading
<1>2. IInv
  BY DEF BulkInv
<1>3. IInv'
  BY <1>1, <1>2, OnSnapshotStep
<1>4. \A b \in Client \ {c} : tab'[b] = tab[b]
  BY <1>1, <1>2 DEF OnSnapshot, Receive, IInv, TabsTyped
<1>5. LoadsKept'
  BY <1>1, <1>4, LoadEnds
<1> QED
  BY <1>3, <1>5 DEF BulkInv

\* A tab that has joined and been caught up.
CaughtUp == [NewTab(TRUE, 0, 0) EXCEPT !.state = "live", !.snapshotRequired = FALSE, !.syncReady = TRUE]

LEMMA InitBulkInv == InitBulk => BulkInv
<1> SUFFICES ASSUME InitBulk PROVE BulkInv
  OBVIOUS
<1>1. /\ MaxEdits \in Nat /\ MaxStrays \in Nat /\ MaxDrops \in Nat /\ MaxReloads \in Nat
      /\ MaxRestarts \in Nat /\ MaxNacks \in Nat /\ MaxLoads \in Nat
  BY ClientSyncAssumption, BulkLoadAssumption
<1>2. SpentWithin /\ Edits = 0
  BY <1>1 DEF InitBulk, SpentWithin, Edits
<1> DEFINE new == NewTab(TRUE, 0, 0)
<1>3. new \in Tab
  <2> DEFINE j == TRUE
             w == 0
  <2>1. j \in BOOLEAN /\ w \in Nat \cup {NoOp} /\ 0 \in Nat
    OBVIOUS
  <2> HIDE DEF j, w
  <2>2. LET u == NewTab(j, w, 0) IN u \in Tab /\ Kept(u, NoEntries, <<>>, 0) /\ u.up = <<>> /\ u.project = Fresh
    BY <2>1, NewTabKeeps, Zenon
  <2> QED
    BY <2>2 DEF j, w
<1>4. /\ new.pending = NoEntries /\ new.inFlight = {} /\ new.offline = NoEntries /\ new.up = <<>>
      /\ new.project = Fresh
  BY DEF NewTab
<1>5. CaughtUp = [new EXCEPT !.state = "live", !.snapshotRequired = FALSE, !.syncReady = TRUE]
  BY DEF CaughtUp
<1> HIDE DEF new
<1>6. /\ CaughtUp \in Tab /\ CaughtUp.pending = NoEntries /\ CaughtUp.inFlight = {}
      /\ CaughtUp.offline = NoEntries /\ CaughtUp.up = <<>> /\ CaughtUp.state = "live"
  BY <1>3, <1>4, <1>5 DEF Tab
<1>7. Fresh \in Project
  BY <1>3, <1>4 DEF Tab
<1>8. Kept(CaughtUp, NoEntries, <<>>, 0)
  <2>1. Tracking(CaughtUp, 0) /\ Requesting(CaughtUp) /\ Settling(CaughtUp, NoEntries, <<>>)
    BY <1>6, NothingPending DEF Tracking, Requesting, Settling, Live
  <2>2. Owing(CaughtUp, NoEntries, 0)
    BY NothingPending DEF Owing
  <2> QED
    BY <2>1, <2>2 DEF Kept
<1>9. Handshake(CaughtUp, <<>>)
  BY <1>6, HandshakeClosed
<1>10. /\ tab = [c \in Client |-> CaughtUp] /\ down = [c \in Client |-> <<>>]
       /\ owed = [c \in Client |-> NoEntries] /\ <<>> \in Seq(Reply)
  BY DEF InitBulk, CaughtUp
<1>11. NoEntries \in [Path -> MaybeValue]
  BY DEF NoEntries, MaybeValue
<1>12. TabsTyped /\ TabsKept
  BY <1>2, <1>6, <1>8, <1>9, <1>10, <1>11 DEF TabsTyped, TabsKept
<1>13. RoomTyped /\ ClientSets
  BY <1>7 DEF InitBulk, RoomTyped, Room, NewRoom, ClientSets
<1>14. LoadsKept
  BY <1>1 DEF InitBulk, NoLoad, LoadsKept, LoadKept
<1> QED
  BY <1>2, <1>12, <1>13, <1>14 DEF BulkInv, IInv

LEMMA NextBulkInv == BulkInv /\ [NextBulk]_bulkVars => BulkInv'
<1> SUFFICES ASSUME BulkInv, [NextBulk]_bulkVars PROVE BulkInv'
  OBVIOUS
<1>1. CASE UNCHANGED bulkVars
  BY <1>1 DEF bulkVars, vars, BulkInv, LoadsKept, IInv, RoomTyped, TabsTyped, TabsKept, SpentWithin,
              ClientSets, Edits
<1>2. CASE Untouched
  BY <1>2, UntouchedStep
<1>3. ASSUME NEW c \in Client, Load(c) PROVE BulkInv'
  BY <1>3, LoadStep
<1>4. ASSUME NEW c \in Client, ResendLoad(c) PROVE BulkInv'
  BY <1>4, ResendLoadStep
<1>5. ASSUME NEW c \in Client, GiveUpLoad(c) PROVE BulkInv'
  BY <1>5, GiveUpLoadStep
<1>6. ASSUME NEW c \in Client, LoseConnection(c) PROVE BulkInv'
  BY <1>6, LoseConnectionStep
<1>7. ASSUME NEW c \in Client, HandleLoad(c) PROVE BulkInv'
  BY <1>7, HandleLoadStep
<1>8. ASSUME NEW c \in Client, RefuseLoad(c) PROVE BulkInv'
  BY <1>8, RefuseLoadStep
<1>9. ASSUME NEW c \in Client, OnLoadNack(c) PROVE BulkInv'
  BY <1>9, OnLoadNackStep
<1>10. ASSUME NEW c \in Client, OnSnapshotLoading(c) PROVE BulkInv'
  BY <1>10, OnSnapshotLoadingStep
<1> QED
  BY <1>1, <1>2, <1>3, <1>4, <1>5, <1>6, <1>7, <1>8, <1>9, <1>10 DEF NextBulk

\* No load, resent or refused, meets an op of the tab that sent it: the load and the ops of a tab
\* draw their numbers from one clientSeq (LoadTracker.ts, Outbox.ts).
THEOREM LoadsKeepApart == BulkSpec => []BulkInv
BY InitBulkInv, NextBulkInv, PTL DEF BulkSpec

\* A load, its resend, its refusal or the socket lost under it takes no edit out of an outbox before
\* the server has had it (LoadTracker.ts beside Outbox.ts).
THEOREM LoadsLoseNoEdit == BulkSpec => []NoEditLost
<1>1. BulkInv => NoEditLost
  BY IInvImplies DEF BulkInv
<1> QED
  BY <1>1, LoadsKeepApart, PTL
=============================================================================
