--------------------------- MODULE SessionSyncProofs ---------------------------
(***************************************************************************)
(* What SessionSync's rows hold: its shape and its flows over any pool, and *)
(* that a clean room is a saved room over a pool of one connection.         *)
(***************************************************************************)
EXTENDS SessionSync, SequenceTheorems, TLAPS

-----------------------------------------------------------------------------
(* Queues *)

\* The flows that wait for the one query they have out.
Flows == {"sweep", "grace", "hello"}

Alone(q, flow) == \A i, j \in DOMAIN q : q[i].by = flow /\ q[j].by = flow => i = j
Silent(q, flow) == \A i \in DOMAIN q : q[i].by # flow
NotAhead(q, e) == \A i \in DOMAIN q : q[i].content <= e

QueueOK(q, e) ==
  /\ q \in Seq(Query)
  /\ NotAhead(q, e)
  /\ \A flow \in Flows : Alone(q, flow)

\* Where the j-th query stood before the i-th was answered.
Origin(i, j) == IF j < i THEN j ELSE j + 1

\* What is left when a query is answered.
LEMMA Removing ==
  ASSUME NEW q \in Seq(Query), NEW i \in DOMAIN q
  PROVE  /\ RemoveAt(q, i) \in Seq(Query)
         /\ Len(RemoveAt(q, i)) = Len(q) - 1
         /\ RemoveAt(q, i) \o <<>> = RemoveAt(q, i)
         /\ \A j \in DOMAIN RemoveAt(q, i) :
              /\ j \in Nat /\ j < Len(q)
              /\ Origin(i, j) \in DOMAIN q
              /\ RemoveAt(q, i)[j] = q[Origin(i, j)]
<1> DEFINE front == SubSeq(q, 1, i - 1)
           back == SubSeq(q, i + 1, Len(q))
<1>1. i \in 1..Len(q) /\ Len(q) \in Nat /\ DOMAIN q = 1..Len(q)
  OBVIOUS
<1>2. front \in Seq(Query) /\ Len(front) = i - 1 /\ \A j \in 1..(i - 1) : front[j] = q[j]
  <2>1. \A j \in 1..(i - 1) : q[j] \in Query
    BY <1>1, ElementOfSeq
  <2> QED
    BY <1>1, <2>1
<1>3. back \in Seq(Query) /\ Len(back) = Len(q) - i
      /\ \A j \in 1..(Len(q) - i) : back[j] = q[j + i]
  <2>1. \A j \in (i + 1)..Len(q) : q[j] \in Query
    BY <1>1, ElementOfSeq
  <2> QED
    BY <1>1, <2>1
<1> HIDE DEF front, back
<1>4. RemoveAt(q, i) = front \o back
  BY DEF RemoveAt, front, back
<1>5. /\ front \o back \in Seq(Query)
      /\ Len(front \o back) = Len(front) + Len(back)
      /\ \A j \in 1..(Len(front) + Len(back)) :
           (front \o back)[j] = IF j <= Len(front) THEN front[j] ELSE back[j - Len(front)]
  BY <1>2, <1>3, ConcatProperties, Zenon
<1>6. (front \o back) \o <<>> = front \o back
  BY <1>5, ConcatEmptySeq, Zenon
<1> DEFINE r == front \o back
<1> HIDE DEF r
<1>7. Len(front) + Len(back) = Len(q) - 1
  BY <1>1, <1>2, <1>3
<1>8. /\ r \in Seq(Query)
      /\ Len(r) = Len(q) - 1
      /\ \A j \in 1..(Len(q) - 1) : r[j] = IF j <= i - 1 THEN front[j] ELSE back[j - (i - 1)]
  BY <1>2, <1>5, <1>7 DEF r
<1>9. \A j \in 1..(Len(q) - 1) : Origin(i, j) \in 1..Len(q) /\ r[j] = q[Origin(i, j)]
  <2> TAKE j \in 1..(Len(q) - 1)
  <2>1. CASE j < i
    BY <1>1, <1>2, <1>8, <2>1 DEF Origin
  <2>2. CASE ~(j < i)
    <3>1. j - (i - 1) \in 1..(Len(q) - i) /\ (j - (i - 1)) + i = j + 1
      BY <1>1, <2>2
    <3> QED
      BY <1>1, <1>3, <1>8, <2>2, <3>1 DEF Origin
  <2> QED
    BY <2>1, <2>2
<1>10. RemoveAt(q, i) = r /\ r \o <<>> = r
  BY <1>4, <1>6, Zenon DEF r
<1>11. \A j \in DOMAIN r : j \in 1..(Len(q) - 1)
  BY <1>8
<1>12. ASSUME NEW j \in DOMAIN r
       PROVE  j \in Nat /\ j < Len(q) /\ Origin(i, j) \in DOMAIN q /\ r[j] = q[Origin(i, j)]
  BY <1>1, <1>9, <1>11
<1> QED
  BY <1>8, <1>10, <1>12

\* A queue with one query more.
LEMMA Adding ==
  ASSUME NEW q \in Seq(Query), NEW x \in Query
  PROVE  /\ q \o <<x>> \in Seq(Query)
         /\ Append(q, x) = q \o <<x>>
         /\ Len(q \o <<x>>) = Len(q) + 1
         /\ \A j \in DOMAIN (q \o <<x>>) :
              /\ j \in 1..(Len(q) + 1)
              /\ j \in DOMAIN q => (q \o <<x>>)[j] = q[j]
              /\ j \notin DOMAIN q => j = Len(q) + 1 /\ (q \o <<x>>)[j] = x
  OBVIOUS

LEMMA AnsweredQueue ==
  ASSUME NEW q, NEW e \in Nat, QueueOK(q, e), NEW i \in DOMAIN q
  PROVE  /\ QueueOK(RemoveAt(q, i), e)
         /\ \A flow \in Flows : Silent(q, flow) \/ q[i].by = flow => Silent(RemoveAt(q, i), flow)
<1> USE DEF QueueOK
<1> DEFINE r == RemoveAt(q, i)
<1>1. /\ r \in Seq(Query)
      /\ \A j \in DOMAIN r : j \in Nat /\ Origin(i, j) \in DOMAIN q /\ r[j] = q[Origin(i, j)]
  BY Removing
<1>2. \A j, k \in Nat : Origin(i, j) = Origin(i, k) => j = k
  BY DEF Origin
<1>3. \A j \in Nat : Origin(i, j) # i
  BY DEF Origin
<1> HIDE DEF r
<1>4. NotAhead(r, e)
  BY <1>1 DEF NotAhead
<1>5. ASSUME NEW flow \in Flows PROVE Alone(r, flow)
  BY <1>1, <1>2 DEF Alone
<1>6. ASSUME NEW flow \in Flows, Silent(q, flow) \/ q[i].by = flow PROVE Silent(r, flow)
  BY <1>1, <1>3, <1>6 DEF Alone, Silent
<1> QED
  BY <1>1, <1>4, <1>5, <1>6 DEF r

LEMMA IssuedQueue ==
  ASSUME NEW q, NEW e \in Nat, QueueOK(q, e), NEW x \in Query, x.content <= e,
         x.by \in Flows => Silent(q, x.by)
  PROVE  /\ QueueOK(q \o <<x>>, e)
         /\ \A flow \in Flows : Silent(q, flow) /\ x.by # flow => Silent(q \o <<x>>, flow)
<1> USE DEF QueueOK
<1> DEFINE r == q \o <<x>>
<1>1. /\ r \in Seq(Query)
      /\ \A j \in DOMAIN r :
           /\ j \in DOMAIN q => r[j] = q[j]
           /\ j \notin DOMAIN q => j = Len(q) + 1 /\ r[j] = x
  BY Adding
<1> HIDE DEF r
<1>2. NotAhead(r, e)
  BY <1>1 DEF NotAhead
<1>3. ASSUME NEW flow \in Flows PROVE Alone(r, flow)
  BY <1>1 DEF Alone, Silent
<1>4. ASSUME NEW flow \in Flows, Silent(q, flow), x.by # flow PROVE Silent(r, flow)
  BY <1>1, <1>4 DEF Silent
<1> QED
  BY <1>1, <1>2, <1>3, <1>4 DEF r

LEMMA ServedQueue ==
  ASSUME NEW q, NEW e \in Nat, QueueOK(q, e), NEW i \in DOMAIN q, NEW x \in Query,
         x.by = q[i].by, x.content <= e
  PROVE  /\ QueueOK([q EXCEPT ![i] = x], e)
         /\ Len([q EXCEPT ![i] = x]) = Len(q)
         /\ \A flow \in Flows : Silent(q, flow) => Silent([q EXCEPT ![i] = x], flow)
<1> USE DEF QueueOK
<1> DEFINE r == [q EXCEPT ![i] = x]
<1>1. /\ r \in Seq(Query)
      /\ Len(r) = Len(q) /\ DOMAIN r = DOMAIN q
      /\ \A j \in DOMAIN r : r[j] = IF j = i THEN x ELSE q[j]
  BY ExceptSeq
<1> HIDE DEF r
<1>2. NotAhead(r, e)
  BY <1>1 DEF NotAhead
<1>3. ASSUME NEW flow \in Flows PROVE Alone(r, flow)
  BY <1>1 DEF Alone
<1>4. ASSUME NEW flow \in Flows, Silent(q, flow) PROVE Silent(r, flow)
  BY <1>1, <1>4 DEF Silent
<1> QED
  BY <1>1, <1>2, <1>3, <1>4 DEF r

LEMMA AheadLater ==
  ASSUME NEW q, NEW e \in Nat, QueueOK(q, e), NEW f \in Nat, e <= f
  PROVE  QueueOK(q, f)
<1>1. ASSUME NEW i \in DOMAIN q PROVE q[i].content \in Nat
  <2>1. q[i] \in Query
    BY DEF QueueOK
  <2> QED
    BY <2>1, SessionSyncAssumption DEF Query
<1> QED
  BY <1>1 DEF QueueOK, NotAhead

LEMMA EmptyQueue ==
  ASSUME NEW e \in Nat
  PROVE  /\ QueueOK(<<>>, e)
         /\ \A flow \in Flows : Silent(<<>>, flow)
  BY DEF QueueOK, NotAhead, Alone, Silent

-----------------------------------------------------------------------------
(* Any pool *)

Shape ==
  /\ room \in Room
  /\ present \in BOOLEAN
  /\ grace \in BOOLEAN
  /\ expiry \in {"idle", "flush", "get", "delete"}
  /\ sweep \in {"idle", "listed", "flush"}
  /\ loading \in {"none", "get", "snapshot"}
  /\ row \in {"owned", "guest", "none"}
  /\ edits \in 0..MaxEdits
  /\ crashes \in 0..MaxCrashes
  /\ snap \in 0..edits
  /\ room.version <= edits /\ room.content <= edits

\* A flow that does not wait has nothing out.
Waiting ==
  /\ sweep # "flush" => Silent(queries, "sweep")
  /\ expiry = "idle" => Silent(queries, "grace")
  /\ loading = "none" => Silent(queries, "hello")

\* What disconnects and stale sweeps add is bounded; a flow that waits adds one.
One(busy) == IF busy THEN 1 ELSE 0
Accounted ==
  Len(queries) <= MaxQueries + One(sweep = "flush") + One(expiry # "idle") + One(loading # "none")

IInv ==
  /\ Shape
  /\ QueueOK(queries, edits)
  /\ Waiting
  /\ Accounted
  /\ NoSnapshotWithoutRow

\* A query is answered and nothing follows it.
LEMMA AnswerEnds ==
  ASSUME IInv, NEW i \in Working, NEW by, NEW op, NEW ok, Answered(i, by, op, ok, <<>>)
  PROVE  /\ queries' = RemoveAt(queries, i)
         /\ QueueOK(queries', edits)
         /\ Len(queries') = Len(queries) - 1
         /\ \A flow \in Flows : Silent(queries, flow) \/ flow = by => Silent(queries', flow)
<1>1. QueueOK(queries, edits) /\ edits \in Nat /\ i \in DOMAIN queries /\ queries \in Seq(Query)
  BY SessionSyncAssumption DEF IInv, Shape, Working, QueueOK
<1>2. queries' = RemoveAt(queries, i) /\ queries[i].by = by
  BY <1>1, Removing DEF Answered
<1> QED
  BY <1>1, <1>2, Removing, AnsweredQueue

\* A query of a flow is answered and the next of that flow is issued.
LEMMA AnswerLeadsOn ==
  ASSUME IInv, NEW i \in Working, NEW by \in Flows, NEW op, NEW ok,
         NEW next \in {"get", "snapshot", "delete"},
         Answered(i, by, op, ok, <<Ask(by, next)>>)
  PROVE  /\ queries' = RemoveAt(queries, i) \o <<Ask(by, next)>>
         /\ QueueOK(queries', edits)
         /\ Len(queries') = Len(queries)
         /\ \A flow \in Flows : Silent(queries, flow) => Silent(queries', flow)
<1>1. QueueOK(queries, edits) /\ edits \in Nat /\ i \in DOMAIN queries /\ queries \in Seq(Query)
  BY SessionSyncAssumption DEF IInv, Shape, Working, QueueOK
<1> DEFINE q == RemoveAt(queries, i)
           x == Ask(by, next)
<1>2. queries' = q \o <<x>> /\ queries[i].by = by
  BY DEF Answered
<1>3. QueueOK(q, edits) /\ Len(q) = Len(queries) - 1 /\ Silent(q, by)
      /\ \A flow \in Flows : Silent(queries, flow) => Silent(q, flow)
  BY <1>1, <1>2, Removing, AnsweredQueue
<1>4. x \in Query /\ x.by = by /\ x.content = 0
  BY SessionSyncAssumption DEF Ask, Query, Flows
<1>5. QueueOK(q \o <<x>>, edits)
      /\ \A flow \in Flows : Silent(q, flow) /\ by # flow => Silent(q \o <<x>>, flow)
  <2> HIDE DEF q, x
  <2> QED
    BY <1>1, <1>3, <1>4, IssuedQueue
<1>6. Len(q \o <<x>>) = Len(q) + 1
  <2> HIDE DEF q, x
  <2> QED
    BY <1>3, <1>4, Adding DEF QueueOK
<1>7. ~Silent(queries, by)
  BY <1>1, <1>2 DEF Silent
<1>8. Len(queries) \in Nat
  BY <1>1
<1> QED
  BY <1>2, <1>3, <1>5, <1>6, <1>7, <1>8

\* A query is issued.
LEMMA QueryIssued ==
  ASSUME IInv, NEW x \in Query, x.content <= edits,
         x.by \in Flows => Silent(queries, x.by), queries' = queries \o <<x>>
  PROVE  /\ QueueOK(queries', edits)
         /\ Len(queries') = Len(queries) + 1
         /\ \A flow \in Flows : Silent(queries, flow) /\ x.by # flow => Silent(queries', flow)
<1>1. QueueOK(queries, edits) /\ edits \in Nat /\ queries \in Seq(Query)
  BY SessionSyncAssumption DEF IInv, Shape, QueueOK
<1> QED
  BY <1>1, IssuedQueue, Adding

\* A flush of a live room issues a save of what the room holds, any other none.
LEMMA FlushIssues ==
  ASSUME IInv, NEW by \in {"disconnect", "sweep", "grace"},
         by \in Flows => Silent(queries, by), queries' = queries \o Flush(by)
  PROVE  /\ QueueOK(queries', edits)
         /\ Len(queries') = Len(queries) + One(room.live)
         /\ \A flow \in Flows : Silent(queries, flow) /\ by # flow => Silent(queries', flow)
         /\ ~room.live => queries' = queries
<1>1. QueueOK(queries, edits) /\ edits \in Nat /\ queries \in Seq(Query) /\ Len(queries) \in Nat
  BY SessionSyncAssumption DEF IInv, Shape, QueueOK
<1>2. CASE room.live
  <2> DEFINE x == [Ask(by, "save") EXCEPT !.content = room.content, !.version = room.version]
  <2>1. x \in Query /\ x.by = by /\ x.content <= edits
    BY SessionSyncAssumption DEF Ask, Query, IInv, Shape, Room
  <2>2. queries' = queries \o <<x>>
    BY <1>2 DEF Flush
  <2> HIDE DEF x
  <2> QED
    BY <1>2, <2>1, <2>2, QueryIssued DEF One
<1>3. CASE ~room.live
  <2>1. queries' = queries
    BY <1>1, <1>3, ConcatEmptySeq DEF Flush
  <2> QED
    BY <1>1, <1>3, <2>1 DEF One
<1> QED
  BY <1>2, <1>3

\* A flag cleared or not, the room is what it was.
LEMMA AfterSaveKeeps ==
  ASSUME IInv, NEW i, NEW ok \in BOOLEAN, AfterSave(i, ok)
  PROVE  /\ room' \in Room
         /\ room'.live = room.live /\ room'.content = room.content
         /\ room'.version = room.version
  BY DEF AfterSave, ClearDirty, IInv, Shape, Room

LEMMA NoRoomType == NoRoom \in Room /\ ~NoRoom.live /\ NoRoom.content = 0 /\ NoRoom.version = 0
  BY SessionSyncAssumption DEF NoRoom, Room

LEMMA InitOK ==
  ASSUME Init
  PROVE  IInv
<1>1. Shape
  <2>1. room \in Room /\ room.content = 0 /\ room.version = 0
    BY NoRoomType DEF Init
  <2>2. 0 \in 0..MaxEdits /\ 0 \in 0..MaxCrashes /\ 0 \in 0..0
    BY SessionSyncAssumption
  <2>3. edits = 0 /\ crashes = 0 /\ snap = 0
    BY DEF Init
  <2>4. room \in Room /\ room.version <= edits /\ room.content <= edits
        /\ edits \in 0..MaxEdits /\ crashes \in 0..MaxCrashes /\ snap \in 0..edits
    BY <2>1, <2>2, <2>3
  <2>5. present \in BOOLEAN /\ grace \in BOOLEAN
    BY Zenon DEF Init
  <2> QED
    BY <2>4, <2>5, Zenon DEF Init, Shape
<1>2. QueueOK(queries, edits) /\ Waiting
  BY EmptyQueue, SessionSyncAssumption DEF Init, Waiting, Flows
<1>3. Accounted /\ NoSnapshotWithoutRow
  BY SessionSyncAssumption DEF Init, Accounted, One, NoSnapshotWithoutRow
<1> QED
  BY <1>1, <1>2, <1>3 DEF IInv

LEMMA StepOK ==
  ASSUME IInv, [Next]_vars
  PROVE  IInv'
<1> USE SessionSyncAssumption
<1>0. /\ Shape /\ QueueOK(queries, edits) /\ Waiting /\ Accounted /\ NoSnapshotWithoutRow
      /\ Len(queries) \in Nat /\ edits \in Nat
  BY DEF IInv, Shape, QueueOK
<1> USE DEF Flows, One
<1>1. ASSUME NEW i \in Working, Serve(i) PROVE IInv'
  <2>1. i \in DOMAIN queries /\ queries[i] \in Query
    BY <1>0 DEF Working, QueueOK
  <2>2. queries[i].content \in Nat /\ queries[i].content <= edits
    BY <1>0, <2>1 DEF QueueOK, NotAhead, Query
  <2>3. PICK x \in Query : /\ queries' = [queries EXCEPT ![i] = x]
                           /\ x.by = queries[i].by /\ x.content <= edits
    <3> DEFINE q == queries[i]
               x1 == [q EXCEPT !.done = TRUE]
               x2 == [q EXCEPT !.done = TRUE, !.row = row]
               x3 == [q EXCEPT !.done = TRUE, !.content = snap]
    <3>1. /\ x1 \in Query /\ x1.by = q.by /\ x1.content <= edits
          /\ x2 \in Query /\ x2.by = q.by /\ x2.content <= edits
          /\ x3 \in Query /\ x3.by = q.by /\ x3.content <= edits
      <4>1. row \in {"owned", "guest", "none"} /\ snap \in 0..MaxEdits /\ snap <= edits
        BY <1>0 DEF Shape
      <4> HIDE DEF q
      <4>2. q \in Query /\ q.content <= edits
        BY <2>1, <2>2 DEF q
      <4> QED
        BY <4>1, <4>2 DEF Query
    <3>2. \/ queries' = [queries EXCEPT ![i] = x1]
          \/ queries' = [queries EXCEPT ![i] = x2]
          \/ queries' = [queries EXCEPT ![i] = x3]
      BY <1>1, Zenon DEF Serve
    <3> HIDE DEF x1, x2, x3
    <3> QED
      BY <3>1, <3>2
  <2>4. /\ QueueOK(queries', edits) /\ Len(queries') = Len(queries)
        /\ \A flow \in Flows : Silent(queries, flow) => Silent(queries', flow)
    <3>1. QueueOK(queries, edits) /\ edits \in Nat
      BY <1>0
    <3>2. /\ QueueOK([queries EXCEPT ![i] = x], edits)
          /\ Len([queries EXCEPT ![i] = x]) = Len(queries)
          /\ \A flow \in Flows : Silent(queries, flow) => Silent([queries EXCEPT ![i] = x], flow)
      BY <2>1, <2>3, <3>1, ServedQueue
    <3> QED
      BY <2>3, <3>2
  <2>5. UNCHANGED <<room, members, expiry, sweep, loading, edits, crashes>>
    BY <1>1 DEF Serve
  <2>6. row' \in {"owned", "guest", "none"} /\ snap' \in 0..edits /\ NoSnapshotWithoutRow'
    BY <1>0, <1>1, <2>2 DEF Serve, Saved, Shape, NoSnapshotWithoutRow
  <2> QED
    BY <1>0, <2>4, <2>5, <2>6 DEF IInv, Shape, Waiting, Accounted, members
<1>2. CASE Edit
  <2>1. room' \in Room /\ room'.version <= edits' /\ room'.content <= edits'
        /\ edits' \in 0..MaxEdits /\ edits <= edits'
    BY <1>0, <1>2 DEF Edit, Shape, Room
  <2>2. UNCHANGED <<members, expiry, sweep, loading, queries, row, snap, crashes>>
    BY <1>2 DEF Edit
  <2>3. QueueOK(queries', edits')
    BY <1>0, <2>1, <2>2, AheadLater
  <2> QED
    BY <1>0, <2>1, <2>2, <2>3 DEF IInv, Shape, Waiting, Accounted, NoSnapshotWithoutRow, members
<1>3. CASE Join
  BY <1>0, <1>3 DEF Join, IInv, Shape, Waiting, Accounted, NoSnapshotWithoutRow
<1>4. CASE JoinLoads
  <2> DEFINE x == Ask("hello", "get")
  <2>1. x \in Query /\ x.by = "hello" /\ x.content = 0
    BY DEF Ask, Query
  <2>2. queries' = queries \o <<x>>
    BY <1>0, <1>4, <2>1, Adding DEF JoinLoads, QueueOK
  <2>3. Silent(queries, "hello")
    BY <1>0, <1>4 DEF JoinLoads, Waiting
  <2> HIDE DEF x
  <2>4. QueueOK(queries', edits) /\ Len(queries') = Len(queries) + 1
        /\ \A flow \in Flows : Silent(queries, flow) /\ "hello" # flow => Silent(queries', flow)
    BY <1>0, <2>1, <2>2, <2>3, QueryIssued
  <2> QED
    BY <1>0, <1>4, <2>4 DEF JoinLoads, IInv, Shape, Waiting, Accounted, NoSnapshotWithoutRow, members
<1>5. ASSUME NEW i \in Working, LoadGot(i) PROVE IInv'
  <2>1. UNCHANGED <<room, members, expiry, sweep, row, snap, edits, crashes>>
    BY <1>5 DEF LoadGot
  <2>2. CASE Answered(i, "hello", "get", TRUE, <<Ask("hello", "snapshot")>>) /\ loading' = "snapshot"
    <3>1. QueueOK(queries', edits) /\ Len(queries') = Len(queries)
          /\ \A flow \in Flows : Silent(queries, flow) => Silent(queries', flow)
      BY <2>2, AnswerLeadsOn
    <3>2. loading # "none"
      <4>1. ~Silent(queries, "hello")
        BY <2>2 DEF Answered, Working, Silent
      <4> QED
        BY <1>0, <4>1 DEF Waiting
    <3> QED
      BY <1>0, <2>1, <2>2, <3>1, <3>2 DEF IInv, Shape, Waiting, Accounted, NoSnapshotWithoutRow, members
  <2>3. CASE (\E ok \in BOOLEAN : Answered(i, "hello", "get", ok, <<>>)) /\ loading' = "none"
    <3>1. QueueOK(queries', edits) /\ Len(queries') = Len(queries) - 1
          /\ \A flow \in Flows : Silent(queries, flow) \/ flow = "hello" => Silent(queries', flow)
      BY <2>3, AnswerEnds
    <3>2. loading # "none"
      <4>1. ~Silent(queries, "hello")
        BY <2>3 DEF Answered, Working, Silent
      <4> QED
        BY <1>0, <4>1 DEF Waiting
    <3> QED
      BY <1>0, <2>1, <2>3, <3>1, <3>2 DEF IInv, Shape, Waiting, Accounted, NoSnapshotWithoutRow, members
  <2> QED
    BY <1>5, <2>2, <2>3 DEF LoadGot
<1>6. ASSUME NEW i \in Working, LoadRead(i) PROVE IInv'
  <2>1. UNCHANGED <<expiry, sweep, row, snap, edits, crashes>> /\ loading' = "none"
    BY <1>6 DEF LoadRead
  <2>2. PICK ok \in BOOLEAN : Answered(i, "hello", "snapshot", ok, <<>>)
    BY <1>6 DEF LoadRead
  <2>3. QueueOK(queries', edits) /\ Len(queries') = Len(queries) - 1
        /\ \A flow \in Flows : Silent(queries, flow) \/ flow = "hello" => Silent(queries', flow)
    BY <2>2, AnswerEnds
  <2>4. loading # "none"
    <3>1. ~Silent(queries, "hello")
      BY <2>2 DEF Answered, Working, Silent
    <3> QED
      BY <1>0, <3>1 DEF Waiting
  <2>5. queries[i].content \in 0..MaxEdits /\ queries[i].content <= edits
    <3>1. i \in DOMAIN queries /\ queries[i] \in Query
      BY <1>0 DEF QueueOK, Working
    <3> QED
      BY <1>0, <3>1 DEF QueueOK, NotAhead, Query
  <2>6. room' \in Room /\ room'.version <= edits /\ room'.content <= edits
        /\ present' \in BOOLEAN /\ grace' \in BOOLEAN
    <3>1. CASE UNCHANGED <<room, members>>
      BY <1>0, <3>1 DEF Shape, members
    <3>2. CASE /\ room' = [NoRoom EXCEPT !.live = TRUE, !.content = queries[i].content]
               /\ present' = TRUE /\ UNCHANGED grace
      <4>1. room'.version = 0 /\ room'.content = queries[i].content /\ room' \in Room
        BY <2>5, <3>2, NoRoomType DEF Room
      <4> QED
        BY <1>0, <2>5, <3>2, <4>1 DEF Shape
    <3> QED
      BY <1>6, <3>1, <3>2 DEF LoadRead
  <2> QED
    BY <1>0, <2>1, <2>3, <2>4, <2>6 DEF IInv, Shape, Waiting, Accounted, NoSnapshotWithoutRow
<1>7. ASSUME NEW last \in BOOLEAN, Disconnect(last) PROVE IInv'
  <2>1. UNCHANGED <<room, expiry, sweep, loading, row, snap, edits, crashes>>
        /\ present' \in BOOLEAN /\ grace' \in BOOLEAN /\ Len(queries) < MaxQueries
    BY <1>0, <1>7 DEF Disconnect, Shape, members
  <2>2. QueueOK(queries', edits) /\ Len(queries') <= Len(queries) + 1
        /\ \A flow \in Flows : Silent(queries, flow) => Silent(queries', flow)
    BY <1>0, <1>7, FlushIssues DEF Disconnect
  <2> QED
    BY <1>0, <2>1, <2>2 DEF IInv, Shape, Waiting, Accounted, NoSnapshotWithoutRow
<1>8. ASSUME NEW i \in Working, NEW ok \in BOOLEAN, DisconnectSaved(i, ok) PROVE IInv'
  <2>1. UNCHANGED <<members, expiry, sweep, loading, row, snap, edits, crashes>>
    BY <1>8 DEF DisconnectSaved
  <2>2. QueueOK(queries', edits) /\ Len(queries') = Len(queries) - 1
        /\ \A flow \in Flows : Silent(queries, flow) => Silent(queries', flow)
    BY <1>8, AnswerEnds DEF DisconnectSaved
  <2>3. room' \in Room /\ room'.content = room.content /\ room'.version = room.version
    BY <1>8, AfterSaveKeeps DEF DisconnectSaved
  <2> QED
    BY <1>0, <2>1, <2>2, <2>3 DEF IInv, Shape, Waiting, Accounted, NoSnapshotWithoutRow, members
<1>9. CASE SweepTick
  BY <1>0, <1>9 DEF SweepTick, SweepIsOver, IInv, Shape, Waiting, Accounted, NoSnapshotWithoutRow, members
<1>10. CASE SweepFlush
  <2>1. UNCHANGED <<room, members, expiry, loading, row, snap, edits, crashes>>
        /\ sweep = "listed" /\ sweep' = IF room.live THEN "flush" ELSE "idle"
    BY <1>10 DEF SweepFlush
  <2>2. Silent(queries, "sweep")
    BY <1>0, <2>1 DEF Waiting
  <2>3. QueueOK(queries', edits) /\ Len(queries') = Len(queries) + One(room.live)
        /\ \A flow \in Flows : Silent(queries, flow) /\ "sweep" # flow => Silent(queries', flow)
    BY <1>10, <2>2, FlushIssues DEF SweepFlush
  <2>4. ~room.live => queries' = queries
    BY <1>10, <2>2, FlushIssues DEF SweepFlush
  <2>5. Waiting'
    BY <1>0, <2>1, <2>2, <2>3, <2>4 DEF Waiting
  <2>6. Accounted'
    BY <1>0, <2>1, <2>3 DEF Accounted
  <2> QED
    BY <1>0, <2>1, <2>3, <2>5, <2>6 DEF IInv, Shape, NoSnapshotWithoutRow, members
<1>11. ASSUME NEW i \in Working, NEW ok \in BOOLEAN, SweepSaved(i, ok) PROVE IInv'
  <2>1. UNCHANGED <<members, expiry, loading, row, snap, edits, crashes>> /\ sweep' = "idle"
    BY <1>11 DEF SweepSaved, SweepAfter
  <2>2. QueueOK(queries', edits) /\ Len(queries') = Len(queries) - 1
        /\ \A flow \in Flows : Silent(queries, flow) \/ flow = "sweep" => Silent(queries', flow)
    BY <1>11, AnswerEnds DEF SweepSaved
  <2>3. room' \in Room /\ room'.content = room.content /\ room'.version = room.version
    BY <1>11, AfterSaveKeeps DEF SweepSaved
  <2>4. sweep = "flush"
    <3>1. ~Silent(queries, "sweep")
      BY <1>11 DEF SweepSaved, Answered, Working, Silent
    <3> QED
      BY <1>0, <3>1 DEF Waiting
  <2> QED
    BY <1>0, <2>1, <2>2, <2>3, <2>4 DEF IInv, Shape, Waiting, Accounted, NoSnapshotWithoutRow, members
<1>12. CASE GraceFires
  <2>1. UNCHANGED <<room, present, sweep, loading, row, snap, edits, crashes>>
        /\ expiry = "idle" /\ expiry' = "flush" /\ grace' = FALSE
    BY <1>12 DEF GraceFires
  <2>2. Silent(queries, "grace")
    BY <1>0, <2>1 DEF Waiting
  <2>3. QueueOK(queries', edits) /\ Len(queries') \in {Len(queries), Len(queries) + 1}
        /\ \A flow \in Flows : Silent(queries, flow) /\ "grace" # flow => Silent(queries', flow)
    BY <1>0, <1>12, <2>2, FlushIssues DEF GraceFires
  <2>4. Accounted'
    BY <1>0, <2>1, <2>3 DEF Accounted
  <2>5. Waiting'
    BY <1>0, <2>1, <2>3 DEF Waiting
  <2> QED
    BY <1>0, <2>1, <2>3, <2>4, <2>5 DEF IInv, Shape, NoSnapshotWithoutRow
<1>13. ASSUME NEW i \in Working, NEW ok \in BOOLEAN, ExpirySaved(i, ok) PROVE IInv'
  <2>1. UNCHANGED <<members, sweep, loading, row, snap, edits, crashes>> /\ expiry' = "get"
    BY <1>13 DEF ExpirySaved
  <2>2. QueueOK(queries', edits) /\ Len(queries') = Len(queries)
        /\ \A flow \in Flows : Silent(queries, flow) => Silent(queries', flow)
    BY <1>13, AnswerLeadsOn DEF ExpirySaved
  <2>3. room' \in Room /\ room'.content = room.content /\ room'.version = room.version
    BY <1>13, AfterSaveKeeps DEF ExpirySaved
  <2>4. expiry # "idle"
    <3>1. ~Silent(queries, "grace")
      BY <1>13 DEF ExpirySaved, Answered, Working, Silent
    <3> QED
      BY <1>0, <3>1 DEF Waiting
  <2> QED
    BY <1>0, <2>1, <2>2, <2>3, <2>4 DEF IInv, Shape, Waiting, Accounted, NoSnapshotWithoutRow, members
<1>14. ASSUME NEW pruned \in BOOLEAN, ExpiryEnds(pruned),
              UNCHANGED <<present, sweep, loading, row, snap, edits, crashes>>,
              NEW i \in Working, NEW op, NEW ok, Answered(i, "grace", op, ok, <<>>)
       PROVE  IInv'
  <2>1. QueueOK(queries', edits) /\ Len(queries') = Len(queries) - 1
        /\ \A flow \in Flows : Silent(queries, flow) \/ flow = "grace" => Silent(queries', flow)
    BY <1>14, AnswerEnds
  <2>2. expiry' = "idle" /\ grace' \in BOOLEAN
        /\ room' \in Room /\ room'.content <= edits /\ room'.version <= edits
    <3>1. grace' \in BOOLEAN /\ expiry' = "idle"
      BY <1>0, <1>14, Zenon DEF ExpiryEnds, Shape
    <3>2. room' = NoRoom \/ room' = room
      BY <1>14, Zenon DEF ExpiryEnds
    <3>3. room \in Room /\ room.content <= edits /\ room.version <= edits
      BY <1>0 DEF Shape
    <3>4. NoRoom \in Room /\ NoRoom.content <= edits /\ NoRoom.version <= edits
      BY <1>0, NoRoomType
    <3> QED
      BY <3>1, <3>2, <3>3, <3>4
  <2>3. expiry # "idle"
    <3>1. ~Silent(queries, "grace")
      BY <1>14 DEF Answered, Working, Silent
    <3> QED
      BY <1>0, <3>1 DEF Waiting
  <2> QED
    BY <1>0, <1>14, <2>1, <2>2, <2>3 DEF IInv, Shape, Waiting, Accounted, NoSnapshotWithoutRow
<1>15. ASSUME NEW i \in Working, ExpiryGot(i) PROVE IInv'
  <2>1. UNCHANGED <<present, sweep, loading, row, snap, edits, crashes>>
    BY <1>15 DEF ExpiryGot
  <2>2. CASE /\ Answered(i, "grace", "get", TRUE, <<Ask("grace", "delete")>>)
             /\ expiry' = "delete" /\ UNCHANGED <<room, grace>>
    <3>1. QueueOK(queries', edits) /\ Len(queries') = Len(queries)
          /\ \A flow \in Flows : Silent(queries, flow) => Silent(queries', flow)
      BY <2>2, AnswerLeadsOn
    <3>2. expiry # "idle"
      <4>1. ~Silent(queries, "grace")
        BY <2>2 DEF Answered, Working, Silent
      <4> QED
        BY <1>0, <4>1 DEF Waiting
    <3> QED
      BY <1>0, <2>1, <2>2, <3>1, <3>2 DEF IInv, Shape, Waiting, Accounted, NoSnapshotWithoutRow
  <2>3. CASE Answered(i, "grace", "get", TRUE, <<>>) /\ ExpiryEnds(TRUE)
    BY <1>14, <2>1, <2>3
  <2>4. CASE Answered(i, "grace", "get", FALSE, <<>>) /\ ExpiryEnds(FALSE)
    BY <1>14, <2>1, <2>4
  <2> QED
    BY <1>15, <2>2, <2>3, <2>4 DEF ExpiryGot
<1>16. ASSUME NEW i \in Working, NEW ok \in BOOLEAN, ExpiryDeleted(i, ok) PROVE IInv'
  BY <1>14, <1>16 DEF ExpiryDeleted
<1>17. CASE StaleSweep
  <2> DEFINE x == Ask("stale", "delete")
  <2>1. x \in Query /\ x.by = "stale" /\ x.content = 0
    BY DEF Ask, Query
  <2>2. queries' = queries \o <<x>>
    BY <1>0, <1>17, <2>1, Adding DEF StaleSweep, QueueOK
  <2> HIDE DEF x
  <2>3. QueueOK(queries', edits) /\ Len(queries') = Len(queries) + 1
        /\ \A flow \in Flows : Silent(queries, flow) => Silent(queries', flow)
    BY <1>0, <2>1, <2>2, QueryIssued
  <2> QED
    BY <1>0, <1>17, <2>3 DEF StaleSweep, IInv, Shape, Waiting, Accounted, NoSnapshotWithoutRow, members
<1>18. ASSUME NEW i \in Working, NEW ok \in BOOLEAN, StaleDeleted(i, ok) PROVE IInv'
  <2>1. UNCHANGED <<room, members, expiry, sweep, loading, row, snap, edits, crashes>>
    BY <1>18 DEF StaleDeleted
  <2>2. QueueOK(queries', edits) /\ Len(queries') = Len(queries) - 1
        /\ \A flow \in Flows : Silent(queries, flow) => Silent(queries', flow)
    BY <1>18, AnswerEnds DEF StaleDeleted
  <2> QED
    BY <1>0, <2>1, <2>2 DEF IInv, Shape, Waiting, Accounted, NoSnapshotWithoutRow, members
<1>19. CASE Crash
  <2>1. /\ room' = NoRoom /\ present' = FALSE /\ grace' = FALSE /\ expiry' = "idle"
        /\ sweep' = "idle" /\ loading' = "none" /\ queries' = <<>>
        /\ UNCHANGED <<row, snap, edits>> /\ crashes' \in 0..MaxCrashes
    BY <1>0, <1>19 DEF Crash, Shape
  <2>2. QueueOK(queries', edits) /\ \A flow \in Flows : Silent(queries', flow)
    <3>1. edits \in Nat
      BY <1>0
    <3> QED
      BY <2>1, <3>1, EmptyQueue
  <2>3. Shape'
    <3>1. room' \in Room /\ room'.version <= edits' /\ room'.content <= edits'
      <4>1. NoRoom \in Room /\ NoRoom.content <= edits /\ NoRoom.version <= edits
        BY <1>0, NoRoomType
      <4> QED
        BY <2>1, <4>1
    <3>2. present' \in BOOLEAN /\ grace' \in BOOLEAN
      BY <2>1, Zenon
    <3> QED
      BY <1>0, <2>1, <3>1, <3>2, Zenon DEF Shape
  <2>4. Accounted'
    BY <2>1 DEF Accounted
  <2> QED
    BY <1>0, <2>1, <2>2, <2>3, <2>4 DEF IInv, Waiting, NoSnapshotWithoutRow
<1>20. CASE UNCHANGED vars
  BY <1>0, <1>20 DEF vars, members, IInv, Shape, Waiting, Accounted, NoSnapshotWithoutRow
<1> QED
  BY <1>1, <1>2, <1>3, <1>4, <1>5, <1>6, <1>7, <1>8, <1>9, <1>10, <1>11, <1>12, <1>13, <1>15,
     <1>16, <1>17, <1>18, <1>19, <1>20 DEF Next

\* The state keeps its shape and the queue its bound, each flow that awaits a query has that
\* one out, and no snapshot outlives its session: over a pool of any size.
THEOREM FlowsKeepApart == Spec => [](TypeOK /\ OneQueryPerFlow /\ NoSnapshotWithoutRow)
<1>1. IInv => TypeOK
  <2> SUFFICES ASSUME IInv PROVE TypeOK
    OBVIOUS
  <2>1. Len(queries) \in Nat /\ queries \in Seq(Query)
    BY DEF IInv, QueueOK
  <2>2. Len(queries) <= MaxQueries + 3
    BY <2>1, SessionSyncAssumption DEF IInv, Accounted, One
  <2> QED
    BY <2>1, <2>2 DEF IInv, Shape, TypeOK
<1>2. IInv => OneQueryPerFlow
  <2> SUFFICES ASSUME IInv PROVE OneQueryPerFlow
    OBVIOUS
  <2>1. ASSUME NEW flow \in Flows PROVE \A i \in IssuedBy(flow) : IssuedBy(flow) = {i}
    BY DEF IInv, QueueOK, Alone, IssuedBy
  <2>2. /\ \A i \in IssuedBy("sweep") : sweep = "flush"
        /\ \A i \in IssuedBy("grace") : expiry # "idle"
        /\ \A i \in IssuedBy("hello") : loading # "none"
    BY DEF IInv, Waiting, Silent, IssuedBy
  <2> SUFFICES ASSUME NEW flow \in {<<"sweep", sweep = "flush">>, <<"grace", expiry # "idle">>,
                                   <<"hello", loading # "none">>}
               PROVE  \A i \in IssuedBy(flow[1]) : flow[2] /\ IssuedBy(flow[1]) = {i}
    BY Zenon DEF OneQueryPerFlow
  <2>3. CASE flow = <<"sweep", sweep = "flush">>
    <3>1. flow[1] = "sweep" /\ (flow[2] <=> sweep = "flush")
      BY <2>3
    <3> QED
      BY <2>1, <2>2, <3>1 DEF Flows
  <2>4. CASE flow = <<"grace", expiry # "idle">>
    <3>1. flow[1] = "grace" /\ (flow[2] <=> expiry # "idle")
      BY <2>4
    <3> QED
      BY <2>1, <2>2, <3>1 DEF Flows
  <2>5. CASE flow = <<"hello", loading # "none">>
    <3>1. flow[1] = "hello" /\ (flow[2] <=> loading # "none")
      BY <2>5
    <3> QED
      BY <2>1, <2>2, <3>1 DEF Flows
  <2> QED
    BY <2>3, <2>4, <2>5, Zenon
<1>3. IInv => NoSnapshotWithoutRow
  BY DEF IInv
<1> QED
  BY <1>1, <1>2, <1>3, InitOK, StepOK, PTL DEF Spec

-----------------------------------------------------------------------------
(* A pool of one *)

\* A chain or an armed timer has a live room without clients, and a session is loaded
\* only for a room that is not live.
Members ==
  /\ present => room.live
  /\ grace \/ expiry # "idle" => room.live /\ ~present
  /\ loading # "none" => ~room.live

\* Queries are worked on in the order they were issued, and what one of them found is
\* still so when it is answered.
InOrder(q, r, s) ==
  \A i \in DOMAIN q : q[i].done =>
    /\ i = 1
    /\ q[i].op = "save" /\ r # "none" => s = q[i].content
    /\ q[i].op = "snapshot" => s = q[i].content

\* Older content is ahead of newer, and none is behind a hello's query.
SavesInOrder(q) ==
  \A i, j \in DOMAIN q : i < j /\ q[j].op = "save" =>
    /\ q[i].op = "save" => q[i].content <= q[j].content
    /\ q[i].by # "hello"

\* The saves of a live room are its own: of a version it had, and with its content when
\* the version is the one it has or the room is clean.
SavesAreRooms(q, rm) ==
  rm.live =>
    \A i \in DOMAIN q : q[i].op = "save" =>
      /\ q[i].version <= rm.version
      /\ q[i].content <= rm.content
      /\ q[i].version = rm.version \/ ~rm.dirty => q[i].content = rm.content

OneInv ==
  /\ Members
  /\ InOrder(queries, row, snap)
  /\ SavesInOrder(queries)
  /\ SavesAreRooms(queries, room)
  /\ CleanMeansSaved

\* Who is where does not depend on the pool.
LEMMA MembersStep ==
  ASSUME IInv, Members, [Next]_vars
  PROVE  Members'
<1> USE DEF Members
<1>0. /\ expiry = "idle" => Silent(queries, "grace")
      /\ loading = "none" => Silent(queries, "hello")
      /\ \A i \in Working : i \in DOMAIN queries
      /\ loading # "none" => expiry = "idle" /\ ~grace /\ ~present
  BY DEF IInv, Waiting, Working
<1>1. ASSUME NEW i \in Working, Serve(i) PROVE Members'
  BY <1>1 DEF Serve, members
<1>2. CASE Edit
  <2>1. room'.live /\ UNCHANGED <<present, grace, expiry, loading>> /\ present
    BY <1>2 DEF Edit, members
  <2> QED
    BY <2>1
<1>3. CASE Join
  BY <1>0, <1>3 DEF Join
<1>4. CASE JoinLoads
  BY <1>4 DEF JoinLoads, members
<1>5. ASSUME NEW i \in Working, LoadGot(i) PROVE Members'
  <2>1. ~Silent(queries, "hello")
    BY <1>0, <1>5 DEF LoadGot, Answered, Silent
  <2>2. room' = room /\ present' = present /\ grace' = grace /\ expiry' = expiry
    BY <1>5, Zenon DEF LoadGot, members
  <2> QED
    BY <1>0, <2>1, <2>2
<1>6. ASSUME NEW i \in Working, LoadRead(i) PROVE Members'
  <2>1. ~Silent(queries, "hello")
    BY <1>0, <1>6 DEF LoadRead, Answered, Silent
  <2>2. expiry' = "idle" /\ ~grace /\ ~present /\ loading' = "none"
    BY <1>0, <1>6, <2>1 DEF LoadRead
  <2>3. CASE UNCHANGED <<room, members>>
    BY <2>2, <2>3 DEF members
  <2>4. CASE /\ room' = [NoRoom EXCEPT !.live = TRUE, !.content = queries[i].content]
             /\ present' = TRUE /\ UNCHANGED grace
    <3>1. room'.live
      BY <2>4 DEF NoRoom
    <3> QED
      BY <2>2, <2>4, <3>1
  <2> QED
    BY <1>6, <2>3, <2>4 DEF LoadRead
<1>7. ASSUME NEW last \in BOOLEAN, Disconnect(last) PROVE Members'
  BY <1>7 DEF Disconnect, members
<1>8. ASSUME NEW i \in Working, NEW ok \in BOOLEAN, DisconnectSaved(i, ok) PROVE Members'
  <2>1. room'.live = room.live
    BY <1>8, AfterSaveKeeps DEF DisconnectSaved
  <2> QED
    BY <1>8, <2>1 DEF DisconnectSaved, members
<1>9. CASE SweepTick
  BY <1>9 DEF SweepTick, members
<1>10. CASE SweepFlush
  BY <1>10 DEF SweepFlush, members
<1>11. ASSUME NEW i \in Working, NEW ok \in BOOLEAN, SweepSaved(i, ok) PROVE Members'
  <2>1. room'.live = room.live
    BY <1>11, AfterSaveKeeps DEF SweepSaved
  <2> QED
    BY <1>11, <2>1 DEF SweepSaved, members
<1>12. CASE GraceFires
  BY <1>12 DEF GraceFires
<1>13. ASSUME NEW i \in Working, NEW ok \in BOOLEAN, ExpirySaved(i, ok) PROVE Members'
  <2>1. room'.live = room.live
    BY <1>13, AfterSaveKeeps DEF ExpirySaved
  <2>2. ~Silent(queries, "grace")
    BY <1>0, <1>13 DEF ExpirySaved, Answered, Silent
  <2> QED
    BY <1>0, <1>13, <2>1, <2>2 DEF ExpirySaved, members
<1>14. ASSUME NEW pruned \in BOOLEAN, ExpiryEnds(pruned), UNCHANGED <<present, loading>>,
              expiry # "idle"
       PROVE  Members'
  <2>1. CASE pruned
    BY <1>14, <2>1, NoRoomType DEF ExpiryEnds
  <2>2. CASE ~pruned
    BY <1>14, <2>2 DEF ExpiryEnds
  <2> QED
    BY <2>1, <2>2
<1>15. ASSUME NEW i \in Working, ExpiryGot(i) PROVE Members'
  <2>1. ~Silent(queries, "grace")
    BY <1>0, <1>15 DEF ExpiryGot, Answered, Silent
  <2>2. expiry # "idle"
    BY <1>0, <2>1
  <2>3. CASE expiry' = "delete" /\ UNCHANGED <<room, grace>>
    BY <1>15, <2>2, <2>3 DEF ExpiryGot
  <2>4. CASE \E pruned \in BOOLEAN : ExpiryEnds(pruned)
    BY <1>14, <1>15, <2>2, <2>4 DEF ExpiryGot
  <2> QED
    BY <1>15, <2>3, <2>4 DEF ExpiryGot
<1>16. ASSUME NEW i \in Working, NEW ok \in BOOLEAN, ExpiryDeleted(i, ok) PROVE Members'
  <2>1. ~Silent(queries, "grace")
    BY <1>0, <1>16 DEF ExpiryDeleted, Answered, Silent
  <2> QED
    BY <1>0, <1>14, <1>16, <2>1 DEF ExpiryDeleted
<1>17. CASE StaleSweep
  BY <1>17 DEF StaleSweep, members
<1>18. ASSUME NEW i \in Working, NEW ok \in BOOLEAN, StaleDeleted(i, ok) PROVE Members'
  BY <1>18 DEF StaleDeleted, members
<1>19. CASE Crash
  BY <1>19 DEF Crash
<1>20. CASE UNCHANGED vars
  BY <1>20 DEF vars, members
<1> QED
  BY <1>1, <1>2, <1>3, <1>4, <1>5, <1>6, <1>7, <1>8, <1>9, <1>10, <1>11, <1>12, <1>13, <1>15,
     <1>16, <1>17, <1>18, <1>19, <1>20 DEF Next

\* With one connection only the head of the queue is in work.
LEMMA HeadOnly ==
  ASSUME Connections = 1, IInv, NEW i \in Working
  PROVE  i = 1 /\ 1 \in DOMAIN queries /\ queries \in Seq(Query) /\ Len(queries) \in Nat
  BY DEF Working, IInv, QueueOK

\* The head of the queue leaves: nothing that is left has been worked on.
LEMMA HeadLeaves ==
  ASSUME NEW q \in Seq(Query), 1 \in DOMAIN q, NEW r, NEW s, NEW rm,
         InOrder(q, r, s), SavesInOrder(q), SavesAreRooms(q, rm)
  PROVE  /\ \A j \in DOMAIN RemoveAt(q, 1) : ~RemoveAt(q, 1)[j].done
         /\ SavesInOrder(RemoveAt(q, 1))
         /\ SavesAreRooms(RemoveAt(q, 1), rm)
         /\ q[1].by = "hello" => \A j \in DOMAIN RemoveAt(q, 1) : RemoveAt(q, 1)[j].op # "save"
         /\ q[1].op = "save" =>
              \A j \in DOMAIN RemoveAt(q, 1) :
                RemoveAt(q, 1)[j].op = "save" => q[1].content <= RemoveAt(q, 1)[j].content
<1> DEFINE t == RemoveAt(q, 1)
<1>1. \A j \in DOMAIN t : j \in Nat /\ j + 1 \in DOMAIN q /\ t[j] = q[j + 1] /\ j + 1 > 1
  <2>1. t \in Seq(Query) /\ Len(t) \in Nat
        /\ \A j \in DOMAIN t : Origin(1, j) \in DOMAIN q /\ t[j] = q[Origin(1, j)]
    BY Removing
  <2>2. \A j \in DOMAIN t : j \in 1..Len(t)
    <3> HIDE DEF t
    <3> QED
      BY <2>1
  <2> HIDE DEF t
  <2> QED
    BY <2>1, <2>2 DEF Origin
<1>2. 1 \in 1..1
  OBVIOUS
<1> HIDE DEF t
<1>3. \A j \in DOMAIN t : ~t[j].done
  BY <1>1 DEF InOrder
<1>4. SavesInOrder(t)
  BY <1>1 DEF SavesInOrder
<1>5. SavesAreRooms(t, rm)
  BY <1>1 DEF SavesAreRooms
<1>6. q[1].by = "hello" => \A j \in DOMAIN t : t[j].op # "save"
  BY <1>1 DEF SavesInOrder
<1>7. q[1].op = "save" => \A j \in DOMAIN t : t[j].op = "save" => q[1].content <= t[j].content
  BY <1>1 DEF SavesInOrder
<1> QED
  BY <1>3, <1>4, <1>5, <1>6, <1>7 DEF t

LEMMA UndoneInOrder ==
  ASSUME NEW q, \A j \in DOMAIN q : ~q[j].done, NEW r, NEW s
  PROVE  InOrder(q, r, s)
  BY DEF InOrder

\* A query that is no save is issued last.
LEMMA OtherJoins ==
  ASSUME NEW q \in Seq(Query), NEW x \in Query, x.op # "save", ~x.done,
         NEW r, NEW s, NEW rm, InOrder(q, r, s), SavesInOrder(q), SavesAreRooms(q, rm)
  PROVE  /\ InOrder(q \o <<x>>, r, s)
         /\ SavesInOrder(q \o <<x>>)
         /\ SavesAreRooms(q \o <<x>>, rm)
         /\ (\A j \in DOMAIN q : ~q[j].done) => \A j \in DOMAIN (q \o <<x>>) : ~(q \o <<x>>)[j].done
         /\ (\A j \in DOMAIN q : q[j].op # "save")
              => \A j \in DOMAIN (q \o <<x>>) : (q \o <<x>>)[j].op # "save"
<1> DEFINE t == q \o <<x>>
<1>1. \A j \in DOMAIN t : /\ j \in 1..(Len(q) + 1)
                          /\ j \in DOMAIN q => t[j] = q[j]
                          /\ j \notin DOMAIN q => j = Len(q) + 1 /\ t[j] = x
  BY Adding
<1>2. Len(q) \in Nat /\ DOMAIN q = 1..Len(q)
  OBVIOUS
<1> HIDE DEF t
<1>3. InOrder(t, r, s)
  BY <1>1 DEF InOrder
<1>4. SavesInOrder(t)
  BY <1>1, <1>2 DEF SavesInOrder
<1>5. SavesAreRooms(t, rm)
  BY <1>1 DEF SavesAreRooms
<1>6. (\A j \in DOMAIN q : ~q[j].done) => \A j \in DOMAIN t : ~t[j].done
  BY <1>1
<1>7. (\A j \in DOMAIN q : q[j].op # "save") => \A j \in DOMAIN t : t[j].op # "save"
  BY <1>1
<1> QED
  BY <1>3, <1>4, <1>5, <1>6, <1>7 DEF t

\* A save of what the room holds is issued last.
LEMMA SaveJoins ==
  ASSUME NEW q \in Seq(Query), NEW x \in Query, x.op = "save", ~x.done, NEW rm \in Room, rm.live,
         x.content = rm.content, x.version = rm.version,
         NEW r, NEW s, InOrder(q, r, s), SavesInOrder(q), SavesAreRooms(q, rm),
         Silent(q, "hello")
  PROVE  /\ InOrder(q \o <<x>>, r, s)
         /\ SavesInOrder(q \o <<x>>)
         /\ SavesAreRooms(q \o <<x>>, rm)
<1> DEFINE t == q \o <<x>>
<1>1. \A j \in DOMAIN t : /\ j \in 1..(Len(q) + 1)
                          /\ j \in DOMAIN q => t[j] = q[j]
                          /\ j \notin DOMAIN q => j = Len(q) + 1 /\ t[j] = x
  BY Adding
<1>2. Len(q) \in Nat /\ DOMAIN q = 1..Len(q)
  OBVIOUS
<1> HIDE DEF t
<1>3. InOrder(t, r, s)
  BY <1>1 DEF InOrder
<1>4. ASSUME NEW i \in DOMAIN t, NEW j \in DOMAIN t, i < j, t[j].op = "save"
      PROVE  /\ t[i].op = "save" => t[i].content <= t[j].content
             /\ t[i].by # "hello"
  <2>1. i \in DOMAIN q /\ t[i] = q[i]
    BY <1>1, <1>2, <1>4
  <2>2. CASE j \in DOMAIN q
    BY <1>1, <1>4, <2>1, <2>2 DEF SavesInOrder
  <2>3. CASE j \notin DOMAIN q
    BY <1>1, <2>1, <2>3 DEF SavesAreRooms, Silent
  <2> QED
    BY <2>2, <2>3
<1>5. SavesInOrder(t)
  BY <1>4 DEF SavesInOrder
<1>6. rm.version \in Int /\ rm.content \in Int
  BY SessionSyncAssumption DEF Room
<1>7. SavesAreRooms(t, rm)
  BY <1>1, <1>6 DEF SavesAreRooms
<1> QED
  BY <1>3, <1>5, <1>7 DEF t

\* A flush leaves the queue in order.
LEMMA FlushInOrder ==
  ASSUME IInv, OneInv, NEW by \in {"disconnect", "sweep", "grace"}, queries' = queries \o Flush(by),
         UNCHANGED <<room, row, snap>>
  PROVE  /\ InOrder(queries', row', snap')
         /\ SavesInOrder(queries')
         /\ SavesAreRooms(queries', room')
         /\ CleanMeansSaved'
<1>1. queries \in Seq(Query) /\ room \in Room
  BY DEF IInv, QueueOK, Shape
<1>2. InOrder(queries, row, snap) /\ SavesInOrder(queries) /\ SavesAreRooms(queries, room)
      /\ CleanMeansSaved'
  BY DEF OneInv, CleanMeansSaved
<1>3. CASE room.live
  <2> DEFINE x == [Ask(by, "save") EXCEPT !.content = room.content, !.version = room.version]
  <2>1. x \in Query /\ x.op = "save" /\ ~x.done /\ x.content = room.content /\ x.version = room.version
    BY SessionSyncAssumption, <1>1 DEF Ask, Query, Room
  <2>2. queries' = queries \o <<x>>
    BY <1>3 DEF Flush
  <2>3. Silent(queries, "hello")
    BY <1>3 DEF IInv, Waiting, OneInv, Members
  <2> HIDE DEF x
  <2>4. /\ InOrder(queries \o <<x>>, row, snap)
        /\ SavesInOrder(queries \o <<x>>)
        /\ SavesAreRooms(queries \o <<x>>, room)
    BY <1>1, <1>2, <1>3, <2>1, <2>3, SaveJoins
  <2> QED
    BY <1>2, <2>2, <2>4
<1>4. CASE ~room.live
  <2>1. queries' = queries
    BY <1>1, <1>4, ConcatEmptySeq DEF Flush
  <2> QED
    BY <1>2, <2>1
<1> QED
  BY <1>3, <1>4

\* A save is answered: a flag it clears is that of a room whose content it saved.
LEMMA SaveAnswered ==
  ASSUME Connections = 1, IInv, OneInv, NEW i \in Working, NEW ok \in BOOLEAN, AfterSave(i, ok),
         queries[i].op = "save", ok => queries[i].done, UNCHANGED <<row, snap>>
  PROVE  /\ SavesAreRooms(RemoveAt(queries, 1), room')
         /\ CleanMeansSaved'
<1> DEFINE t == RemoveAt(queries, 1)
<1>1. i = 1 /\ 1 \in DOMAIN queries /\ queries \in Seq(Query) /\ queries[1] \in Query /\ room \in Room
  BY HeadOnly DEF IInv, Shape
<1>2. t \in Seq(Query)
  BY <1>1, Removing
<1>3. /\ SavesAreRooms(t, room)
      /\ \A j \in DOMAIN t : t[j].op = "save" => queries[1].content <= t[j].content
  BY <1>1, HeadLeaves DEF OneInv
<1> HIDE DEF t
<1>4. CASE room' = room
  BY <1>3, <1>4 DEF OneInv, CleanMeansSaved, t
<1>5. CASE room' # room
  <2>1. ok /\ room.live /\ room.version = queries[1].version /\ room' = [room EXCEPT !.dirty = FALSE]
    <3>1. ok /\ room' = [room EXCEPT !.dirty = IF room.live /\ room.version = queries[1].version
                                               THEN FALSE ELSE @]
      BY <1>1, <1>5 DEF AfterSave, ClearDirty
    <3>2. [room EXCEPT !.dirty = room.dirty] = room
      BY <1>1 DEF Room
    <3> QED
      BY <1>5, <3>1, <3>2
  <2>2. room'.live = room.live /\ room'.content = room.content /\ room'.version = room.version
    BY <1>1, <2>1 DEF Room
  <2>3. queries[1].content = room.content
    BY <1>1, <2>1 DEF OneInv, SavesAreRooms
  <2>4. row # "none" => snap = room.content
    BY <1>1, <2>1, <2>3 DEF OneInv, InOrder
  <2>5. ASSUME NEW j \in DOMAIN t, t[j].op = "save"
        PROVE  /\ t[j].version <= room.version
               /\ t[j].content = room.content
    <3>1. t[j] \in Query
      BY <1>2
    <3>2. t[j].content \in Int /\ room.content \in Int
      BY <1>1, <3>1, SessionSyncAssumption DEF Query, Room
    <3>3. room.content <= t[j].content /\ t[j].content <= room.content /\ t[j].version <= room.version
      BY <1>3, <2>1, <2>3, <2>5 DEF SavesAreRooms
    <3> QED
      BY <3>2, <3>3
  <2>6. room.content \in Int
    BY <1>1, SessionSyncAssumption DEF Room
  <2>7. SavesAreRooms(t, room')
    BY <2>2, <2>5, <2>6 DEF SavesAreRooms
  <2>8. CleanMeansSaved'
    BY <2>2, <2>4, <2>6 DEF CleanMeansSaved
  <2> QED
    BY <2>7, <2>8 DEF t
<1> QED
  BY <1>4, <1>5

LEMMA OneStep ==
  ASSUME Connections = 1, IInv, IInv', OneInv, [Next]_vars
  PROVE  OneInv'
<1>m. Members'
  BY MembersStep DEF OneInv
<1>q. queries \in Seq(Query) /\ room \in Room /\ queries' \in Seq(Query) /\ edits \in Nat
  BY SessionSyncAssumption DEF IInv, QueueOK, Shape
<1>o. /\ InOrder(queries, row, snap) /\ SavesInOrder(queries)
      /\ SavesAreRooms(queries, room) /\ CleanMeansSaved
  BY DEF OneInv
<1> DEFINE Fine == /\ InOrder(queries', row', snap') /\ SavesInOrder(queries')
                   /\ SavesAreRooms(queries', room') /\ CleanMeansSaved'
           t == RemoveAt(queries, 1)
<1> SUFFICES Fine
  BY <1>m DEF OneInv
<1>s. ASSUME UNCHANGED <<room, queries, row, snap>> PROVE Fine
  BY <1>o, <1>s DEF CleanMeansSaved
<1>h. ASSUME NEW i \in Working
      PROVE  /\ i = 1 /\ t \in Seq(Query) /\ t \o <<>> = t
             /\ \A r, s : InOrder(t, r, s)
             /\ \A j \in DOMAIN t : ~t[j].done
             /\ SavesInOrder(t) /\ SavesAreRooms(t, room)
             /\ queries[1].by = "hello" => \A j \in DOMAIN t : t[j].op # "save"
  <2>1. i = 1 /\ 1 \in DOMAIN queries
    BY <1>h, HeadOnly
  <2>2. t \in Seq(Query) /\ t \o <<>> = t
    BY <1>q, <2>1, Removing
  <2>3. /\ \A j \in DOMAIN t : ~t[j].done
        /\ SavesInOrder(t) /\ SavesAreRooms(t, room)
        /\ queries[1].by = "hello" => \A j \in DOMAIN t : t[j].op # "save"
    BY <1>q, <1>o, <2>1, HeadLeaves
  <2>4. \A r, s : InOrder(t, r, s)
    BY <2>3 DEF InOrder
  <2> QED
    BY <2>1, <2>2, <2>3, <2>4
<1> HIDE DEF t
\* An answer that leaves the room as it is, followed by nothing or by a query that is no save.
<1>a. ASSUME NEW i \in Working, NEW by, NEW op, NEW ok,
             \/ Answered(i, by, op, ok, <<>>)
             \/ \E next \in {"get", "snapshot", "delete"}, who \in {"grace", "hello"} :
                  Answered(i, by, op, ok, <<Ask(who, next)>>)
      PROVE  /\ \A r, s : InOrder(queries', r, s)
             /\ SavesInOrder(queries') /\ SavesAreRooms(queries', room)
             /\ by = "hello" => \A j \in DOMAIN queries' : queries'[j].op # "save"
  <2>1. CASE Answered(i, by, op, ok, <<>>)
    <3>1. queries' = t /\ queries[1].by = by
      BY <1>h, <2>1 DEF Answered, t
    <3> QED
      BY <1>h, <3>1
  <2>2. ASSUME NEW next \in {"get", "snapshot", "delete"}, NEW who \in {"grace", "hello"},
               Answered(i, by, op, ok, <<Ask(who, next)>>)
        PROVE  /\ \A r, s : InOrder(queries', r, s)
               /\ SavesInOrder(queries') /\ SavesAreRooms(queries', room)
               /\ by = "hello" => \A j \in DOMAIN queries' : queries'[j].op # "save"
    <3> DEFINE x == Ask(who, next)
    <3>1. queries' = t \o <<x>> /\ queries[1].by = by
      BY <1>h, <2>2 DEF Answered, t
    <3>2. x \in Query /\ x.op # "save" /\ ~x.done
      BY SessionSyncAssumption DEF Ask, Query
    <3> HIDE DEF x
    <3>3. ASSUME NEW r, NEW s PROVE InOrder(t \o <<x>>, r, s)
      BY <1>h, <3>2, OtherJoins
    <3>4. SavesInOrder(t \o <<x>>) /\ SavesAreRooms(t \o <<x>>, room)
          /\ ((\A j \in DOMAIN t : t[j].op # "save")
                => \A j \in DOMAIN (t \o <<x>>) : (t \o <<x>>)[j].op # "save")
      BY <1>h, <3>2, OtherJoins
    <3> QED
      BY <1>h, <3>1, <3>3, <3>4
  <2> QED
    BY <1>a, <2>1, <2>2
\* A save is answered.
<1>v. ASSUME NEW i \in Working, NEW by, NEW ok \in BOOLEAN, AfterSave(i, ok), UNCHANGED <<row, snap>>,
             \/ Answered(i, by, "save", ok, <<>>)
             \/ Answered(i, by, "save", ok, <<Ask("grace", "get")>>)
      PROVE  Fine
  <2>1. InOrder(queries', row', snap') /\ SavesInOrder(queries')
    BY <1>v, <1>a
  <2>2. SavesAreRooms(t, room') /\ CleanMeansSaved'
    BY <1>v, SaveAnswered DEF Answered, t
  <2>3. CASE Answered(i, by, "save", ok, <<>>)
    <3>1. queries' = t
      BY <1>h, <2>3 DEF Answered, t
    <3> QED
      BY <2>1, <2>2, <3>1
  <2>4. CASE Answered(i, by, "save", ok, <<Ask("grace", "get")>>)
    <3> DEFINE x == Ask("grace", "get")
    <3>1. queries' = t \o <<x>>
      BY <1>h, <2>4 DEF Answered, t
    <3>2. x \in Query /\ x.op # "save" /\ ~x.done
      BY SessionSyncAssumption DEF Ask, Query
    <3> HIDE DEF x
    <3>3. SavesAreRooms(t \o <<x>>, room')
      BY <1>h, <2>2, <3>2, OtherJoins
    <3> QED
      BY <2>1, <2>2, <3>1, <3>3
  <2> QED
    BY <1>v, <2>3, <2>4
<1>1. ASSUME NEW i \in Working, Serve(i) PROVE Fine
  <2>1. i = 1 /\ 1 \in DOMAIN queries /\ queries[1] \in Query
    BY <1>q, HeadOnly, <1>1
  <2>2. room' = room /\ ~queries[1].done
    BY <1>1, <2>1 DEF Serve
  <2>3. \A j \in DOMAIN queries : ~queries[j].done
    BY <1>o, <2>2 DEF InOrder
  <2>4. ASSUME NEW x \in Query, queries' = [queries EXCEPT ![1] = x], x.by = queries[1].by,
               x.op = queries[1].op, x.version = queries[1].version,
               x.op = "save" => x.content = queries[1].content,
               x.op = "save" /\ row' # "none" => snap' = x.content,
               x.op = "snapshot" => snap' = x.content
        PROVE  InOrder(queries', row', snap') /\ SavesInOrder(queries') /\ SavesAreRooms(queries', room')
    <3>1. DOMAIN queries' = DOMAIN queries
          /\ \A j \in DOMAIN queries : queries'[j] = IF j = 1 THEN x ELSE queries[j]
      BY <1>q, <2>1, <2>4
    <3>2. InOrder(queries', row', snap')
      BY <2>3, <2>4, <3>1 DEF InOrder
    <3>3. SavesInOrder(queries')
      BY <1>o, <2>4, <3>1 DEF SavesInOrder
    <3>4. SavesAreRooms(queries', room')
      BY <1>o, <2>2, <2>4, <3>1 DEF SavesAreRooms
    <3> QED
      BY <3>2, <3>3, <3>4
  <2> DEFINE q == queries[1]
  <2>5. CASE q.op = "save"
    <3> DEFINE x == [q EXCEPT !.done = TRUE]
    <3>1. x \in Query /\ x.by = q.by /\ x.op = q.op /\ x.version = q.version /\ x.content = q.content
      BY <2>1 DEF Query
    <3>2. queries' = [queries EXCEPT ![1] = x] /\ row' = row
          /\ snap' = IF row # "none" THEN q.content ELSE snap
      BY <1>1, <2>1, <2>5 DEF Serve, Saved
    <3>3. InOrder(queries', row', snap') /\ SavesInOrder(queries') /\ SavesAreRooms(queries', room')
      <4> HIDE DEF x
      <4> QED
        BY <2>4, <2>5, <3>1, <3>2
    <3>4. CleanMeansSaved'
      <4>1. room.content \in Int /\ (room.live /\ ~room.dirty => q.content = room.content)
        BY <1>o, <1>q, <2>1, <2>5, SessionSyncAssumption DEF SavesAreRooms, Room
      <4> QED
        BY <1>o, <2>2, <3>2, <4>1 DEF CleanMeansSaved
    <3> QED
      BY <3>3, <3>4
  <2>6. CASE q.op = "get"
    <3> DEFINE x == [q EXCEPT !.done = TRUE, !.row = row]
    <3>1. x \in Query /\ x.by = q.by /\ x.op = q.op /\ x.version = q.version /\ x.content = q.content
      BY <2>1 DEF Query, IInv, Shape
    <3>2. queries' = [queries EXCEPT ![1] = x] /\ row' = row /\ snap' = snap
      BY <1>1, <2>1, <2>6 DEF Serve
    <3>3. InOrder(queries', row', snap') /\ SavesInOrder(queries') /\ SavesAreRooms(queries', room')
      <4> HIDE DEF x
      <4> QED
        BY <2>4, <2>6, <3>1, <3>2
    <3> QED
      BY <1>o, <2>2, <3>2, <3>3 DEF CleanMeansSaved
  <2>7. CASE q.op = "snapshot"
    <3> DEFINE x == [q EXCEPT !.done = TRUE, !.content = snap]
    <3>1. x \in Query /\ x.by = q.by /\ x.op = q.op /\ x.version = q.version /\ x.content = snap
      <4>1. snap \in 0..MaxEdits
        BY SessionSyncAssumption DEF IInv, Shape
      <4> HIDE DEF q
      <4>2. q \in Query
        BY <2>1 DEF q
      <4> QED
        BY <4>1, <4>2 DEF Query
    <3>2. queries' = [queries EXCEPT ![1] = x] /\ row' = row /\ snap' = snap
      BY <1>1, <2>1, <2>7 DEF Serve
    <3>3. InOrder(queries', row', snap') /\ SavesInOrder(queries') /\ SavesAreRooms(queries', room')
      <4> HIDE DEF x
      <4> QED
        BY <2>4, <2>7, <3>1, <3>2
    <3> QED
      BY <1>o, <2>2, <3>2, <3>3 DEF CleanMeansSaved
  <2>8. CASE q.op = "delete"
    <3> DEFINE x == [q EXCEPT !.done = TRUE]
    <3>1. x \in Query /\ x.by = q.by /\ x.op = q.op /\ x.version = q.version
      BY <2>1 DEF Query
    <3>2. queries' = [queries EXCEPT ![1] = x] /\ row' = "none"
      BY <1>1, <2>1, <2>8 DEF Serve
    <3>3. InOrder(queries', row', snap') /\ SavesInOrder(queries') /\ SavesAreRooms(queries', room')
      <4> HIDE DEF x
      <4> QED
        BY <2>4, <2>8, <3>1, <3>2
    <3> QED
      BY <3>2, <3>3 DEF CleanMeansSaved
  <2> QED
    BY <2>1, <2>5, <2>6, <2>7, <2>8 DEF Query
<1>2. CASE Edit
  <2>1. room'.live /\ room'.dirty /\ room'.version = room.version + 1 /\ room'.content = edits + 1
        /\ UNCHANGED <<queries, row, snap>>
    BY <1>2 DEF Edit
  <2>2. room.live /\ room.content <= edits /\ room.version \in Nat /\ room.content \in Nat
    BY <1>2, <1>q, SessionSyncAssumption DEF Edit, OneInv, Members, IInv, Shape, Room
  <2>3. ASSUME NEW j \in DOMAIN queries, queries[j].op = "save"
        PROVE  queries[j].version < room'.version /\ queries[j].content <= room'.content
    <3>1. queries[j] \in Query
      BY <1>q
    <3>2. queries[j].version \in Nat /\ queries[j].content \in Nat
      BY <3>1, SessionSyncAssumption DEF Query
    <3>3. queries[j].version <= room.version /\ queries[j].content <= room.content
      BY <1>o, <2>2, <2>3 DEF SavesAreRooms
    <3> QED
      BY <1>q, <2>1, <2>2, <3>2, <3>3
  <2>4. SavesAreRooms(queries', room')
    <3>1. room'.version \in Int /\ \A j \in DOMAIN queries : queries[j].version \in Int
      <4>1. ASSUME NEW j \in DOMAIN queries PROVE queries[j].version \in Int
        <5>1. queries[j] \in Query
          BY <1>q
        <5> QED
          BY <5>1, SessionSyncAssumption DEF Query
      <4> QED
        BY <2>1, <2>2, <4>1
    <3> QED
      BY <2>1, <2>3, <3>1 DEF SavesAreRooms
  <2> QED
    BY <1>o, <2>1, <2>4 DEF CleanMeansSaved
<1>3. CASE Join
  BY <1>s, <1>3 DEF Join
<1>4. CASE JoinLoads
  <2> DEFINE x == Ask("hello", "get")
  <2>1. x \in Query /\ x.op # "save" /\ ~x.done
    BY SessionSyncAssumption DEF Ask, Query
  <2>2. queries' = queries \o <<x>> /\ UNCHANGED <<room, row, snap>>
    BY <1>q, <1>4, <2>1, Adding DEF JoinLoads
  <2> HIDE DEF x
  <2>3. InOrder(queries', row, snap) /\ SavesInOrder(queries') /\ SavesAreRooms(queries', room)
    BY <1>q, <1>o, <2>1, <2>2, OtherJoins
  <2> QED
    BY <1>o, <2>2, <2>3 DEF CleanMeansSaved
<1>5. ASSUME NEW i \in Working, LoadGot(i) PROVE Fine
  <2>1. UNCHANGED <<room, row, snap>>
    BY <1>5 DEF LoadGot
  <2>2. \/ \E ok \in BOOLEAN : Answered(i, "hello", "get", ok, <<>>)
        \/ Answered(i, "hello", "get", TRUE, <<Ask("hello", "snapshot")>>)
    BY <1>5 DEF LoadGot
  <2>3. InOrder(queries', row, snap) /\ SavesInOrder(queries') /\ SavesAreRooms(queries', room)
    BY <1>a, <2>2
  <2> QED
    BY <1>o, <2>1, <2>3 DEF CleanMeansSaved
<1>6. ASSUME NEW i \in Working, LoadRead(i) PROVE Fine
  <2>1. UNCHANGED <<row, snap>>
    BY <1>6 DEF LoadRead
  <2>2. \E ok \in BOOLEAN : Answered(i, "hello", "snapshot", ok, <<>>)
    BY <1>6 DEF LoadRead
  <2>3. InOrder(queries', row, snap) /\ SavesInOrder(queries') /\ SavesAreRooms(queries', room)
        /\ \A j \in DOMAIN queries' : queries'[j].op # "save"
    BY <1>a, <2>2
  <2>4. CASE UNCHANGED <<room, members>>
    BY <1>o, <2>1, <2>3, <2>4 DEF CleanMeansSaved
  <2>5. CASE /\ Answered(i, "hello", "snapshot", TRUE, <<>>)
             /\ room' = [NoRoom EXCEPT !.live = TRUE, !.content = queries[i].content]
    <3>1. i \in DOMAIN queries /\ queries[i].done /\ queries[i].op = "snapshot"
      BY <2>5 DEF Answered, Working
    <3>2. snap = queries[i].content
      BY <1>o, <3>1 DEF InOrder
    <3>3. room'.content = snap
      BY <2>5, <3>2 DEF NoRoom
    <3>4. snap \in Int
      BY DEF IInv, Shape
    <3> QED
      BY <2>1, <2>3, <3>3, <3>4 DEF CleanMeansSaved, SavesAreRooms
  <2> QED
    BY <1>6, <2>4, <2>5 DEF LoadRead
<1>7. ASSUME NEW last \in BOOLEAN, Disconnect(last) PROVE Fine
  BY <1>7, FlushInOrder DEF Disconnect
<1>8. ASSUME NEW i \in Working, NEW ok \in BOOLEAN, DisconnectSaved(i, ok) PROVE Fine
  BY <1>v, <1>8 DEF DisconnectSaved
<1>9. CASE SweepTick
  BY <1>s, <1>9 DEF SweepTick
<1>10. CASE SweepFlush
  BY <1>10, FlushInOrder DEF SweepFlush
<1>11. ASSUME NEW i \in Working, NEW ok \in BOOLEAN, SweepSaved(i, ok) PROVE Fine
  BY <1>v, <1>11 DEF SweepSaved
<1>12. CASE GraceFires
  BY <1>12, FlushInOrder DEF GraceFires
<1>13. ASSUME NEW i \in Working, NEW ok \in BOOLEAN, ExpirySaved(i, ok) PROVE Fine
  BY <1>v, <1>13 DEF ExpirySaved
\* The chain goes on or ends, with the room or without.
<1>14. ASSUME NEW i \in Working, NEW op, NEW ok, UNCHANGED <<row, snap>>, room' \in {room, NoRoom},
              \/ Answered(i, "grace", op, ok, <<>>)
              \/ Answered(i, "grace", op, ok, <<Ask("grace", "delete")>>)
       PROVE  Fine
  <2>1. InOrder(queries', row, snap) /\ SavesInOrder(queries') /\ SavesAreRooms(queries', room)
    BY <1>a, <1>14
  <2>2. CASE room' = room
    BY <1>o, <1>14, <2>1, <2>2 DEF CleanMeansSaved
  <2>3. CASE room' = NoRoom
    <3>1. ~room'.live
      BY <2>3, NoRoomType
    <3> QED
      BY <1>14, <2>1, <3>1 DEF CleanMeansSaved, SavesAreRooms
  <2> QED
    BY <1>14, <2>2, <2>3
<1>15. ASSUME NEW i \in Working, ExpiryGot(i) PROVE Fine
  <2>1. UNCHANGED <<row, snap>> /\ room' \in {room, NoRoom}
    BY <1>15 DEF ExpiryGot, ExpiryEnds
  <2>2. \E ok \in BOOLEAN : \/ Answered(i, "grace", "get", ok, <<>>)
                            \/ Answered(i, "grace", "get", ok, <<Ask("grace", "delete")>>)
    BY <1>15 DEF ExpiryGot
  <2> QED
    BY <1>14, <2>1, <2>2
<1>16. ASSUME NEW i \in Working, NEW ok \in BOOLEAN, ExpiryDeleted(i, ok) PROVE Fine
  <2>1. UNCHANGED <<row, snap>> /\ room' \in {room, NoRoom}
    BY <1>16 DEF ExpiryDeleted, ExpiryEnds
  <2> QED
    BY <1>14, <1>16, <2>1 DEF ExpiryDeleted
<1>17. CASE StaleSweep
  <2> DEFINE x == Ask("stale", "delete")
  <2>1. x \in Query /\ x.op # "save" /\ ~x.done
    BY SessionSyncAssumption DEF Ask, Query
  <2>2. queries' = queries \o <<x>> /\ UNCHANGED <<room, row, snap>>
    BY <1>q, <1>17, <2>1, Adding DEF StaleSweep
  <2> HIDE DEF x
  <2>3. InOrder(queries', row, snap) /\ SavesInOrder(queries') /\ SavesAreRooms(queries', room)
    BY <1>q, <1>o, <2>1, <2>2, OtherJoins
  <2> QED
    BY <1>o, <2>2, <2>3 DEF CleanMeansSaved
<1>18. ASSUME NEW i \in Working, NEW ok \in BOOLEAN, StaleDeleted(i, ok) PROVE Fine
  <2>1. UNCHANGED <<room, row, snap>> /\ Answered(i, "stale", "delete", ok, <<>>)
    BY <1>18 DEF StaleDeleted
  <2>2. InOrder(queries', row, snap) /\ SavesInOrder(queries') /\ SavesAreRooms(queries', room)
    BY <1>a, <2>1
  <2> QED
    BY <1>o, <2>1, <2>2 DEF CleanMeansSaved
<1>19. CASE Crash
  <2>1. queries' = <<>> /\ room' = NoRoom
    BY <1>19 DEF Crash
  <2>2. ~room'.live
    BY <2>1, NoRoomType
  <2> QED
    BY <2>1, <2>2 DEF InOrder, SavesInOrder, SavesAreRooms, CleanMeansSaved
<1>20. CASE UNCHANGED vars
  BY <1>s, <1>20 DEF vars
<1> QED
  BY <1>1, <1>2, <1>3, <1>4, <1>5, <1>6, <1>7, <1>8, <1>9, <1>10, <1>11, <1>12, <1>13, <1>15,
     <1>16, <1>17, <1>18, <1>19, <1>20 DEF Next

\* While queries take effect in the order they were issued, a clean room's edits are in its
\* snapshot: the version gate of clearDirty loses no update, whatever flushes, sweeps,
\* deletions and failures meet.
THEOREM RowsKeep == ASSUME Connections = 1 PROVE Spec => []RowsKeepUp
<1>1. Init => OneInv
  <2> SUFFICES ASSUME Init PROVE OneInv
    OBVIOUS
  <2>1. ~room.live
    BY NoRoomType DEF Init
  <2> QED
    BY <2>1 DEF Init, OneInv, Members, InOrder, SavesInOrder, SavesAreRooms, CleanMeansSaved
<1>2. IInv /\ IInv' /\ OneInv /\ [Next]_vars => OneInv'
  BY OneStep
<1>3. OneInv => CleanMeansSaved
  BY DEF OneInv
<1>4. TypeOK /\ OneQueryPerFlow /\ NoSnapshotWithoutRow /\ CleanMeansSaved => RowsKeepUp
  BY DEF RowsKeepUp
<1> QED
  BY <1>1, <1>2, <1>3, <1>4, InitOK, StepOK, FlowsKeepApart, PTL DEF Spec
=============================================================================
