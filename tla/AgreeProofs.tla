----------------------------- MODULE AgreeProofs -----------------------------
(*****************************************************************************)
(* Proofs that the tabs of a room come to show the project the server holds, *)
(* and are sent no op that skips one, for any number of clients, paths and   *)
(* values and any capacity of the ring buffer.                               *)
(*                                                                           *)
(* The invariant speaks of the room's history: the project after each op.  A *)
(* tab shows one of those projects, with newer ops applied leaf by leaf on top,*)
(* and whatever is newer than that is on its way, or will be in the answer to*)
(* its hello.  That needs three things of the frames on their way: they tell *)
(* the truth about the history; past its watermark, a live tab's ops leave no*)
(* gap; and a snapshot or sync.complete divides older ops from newer.        *)
(*****************************************************************************)
EXTENDS ClientSyncProofs, TabsMC

-----------------------------------------------------------------------------
(* What is true of a room and of what is on its way from it *)

\* g is the history of a room: its head, the project after each op, and the leaf each op wrote.
Unwritten(g, p, a, b) == \A o \in 1..g.head : a < o /\ o <= b => g.path[o] # p

OpTrue(g, op) == op.opId \in 1..g.head /\ op.path = g.path[op.opId] /\ op.value = g.at[op.opId][op.path]

\* A leaf changes by an op alone.
LeavesTrue(g) ==
  \A p \in Path : \A a, b \in 0..g.head : a <= b /\ Unwritten(g, p, a, b) => g.at[a][p] = g.at[b][p]

\* The log holds the newest ops, one after another.
LogTrue(g, log) ==
  /\ Len(log) <= g.head
  /\ \A i \in 1..Len(log) : log[i].opId = g.head - Len(log) + i /\ OpTrue(g, log[i])

History(g, r) ==
  /\ g.head = OpIdHead(r) /\ g.head \in Nat
  /\ g.at \in [0..g.head -> Project] /\ g.path \in [1..g.head -> Path]
  /\ g.at[g.head] = r.project
  /\ LeavesTrue(g) /\ LogTrue(g, r.opLog)
  /\ \A op \in r.opIndex : OpTrue(g, op)

Sets(d)  == {i \in 1..Len(d) : d[i].type = "set"}
Marks(d) == {i \in 1..Len(d) : d[i].type \in {"snapshot", "complete"}}

FrameTrue(g, m) ==
  /\ m.type = "set" => OpTrue(g, m)
  /\ m.type = "snapshot" => m.opId \in 0..g.head /\ m.project = g.at[m.opId]
  /\ m.type = "complete" => m.opId \in 0..g.head

FramesTrue(g, d) == \A i \in 1..Len(d) : FrameTrue(g, d[i])

\* What is behind a sync.complete is ops.
OpsBehindComplete(d) ==
  \A m \in 1..Len(d) : d[m].type = "complete" => \A j \in 1..Len(d) : m < j => d[j].type = "set"

\* Where a tab stands between a hello and the sync.complete that ends the answer to it.
Phase(t, d) ==
  /\ Live(t) => t.joined /\ \A i \in 1..Len(d) : d[i].type \in {"set", "nack"}
  /\ ~Live(t) => \A i \in 1..Len(t.up) : t.up[i].type = "hello"
  /\ \A i \in 1..Len(t.up) : t.up[i].type = "hello" => \A j \in 1..Len(d) : d[j].type = "set"
  /\ t.state \in {"opening", "catching-up"} /\ t.up = <<>> => \E m \in 1..Len(d) : d[m].type = "complete"
  /\ OpsBehindComplete(d)
  /\ t.state = "opening" => \A m \in Marks(d) : \E j \in 1..Len(d) : j < m /\ d[j].type = "welcome"
  /\ t.state = "catching-up" => t.joined
  /\ ~t.snapshotRequired => t.joined

\* The ops of d behind its k-th frame go on from opId w up to h, and none skips one.
IsNext(d, k, w, i) ==
  d[i].opId <= w + 1 \/ \E j \in Sets(d) : k < j /\ j < i /\ d[i].opId <= d[j].opId + 1

GetsTo(d, k, w, h) == h <= w \/ \E j \in Sets(d) : k < j /\ h <= d[j].opId

GoesOn(d, k, w, h) == GetsTo(d, k, w, h) /\ \A i \in Sets(d) : k < i => IsNext(d, k, w, i)

CompletesGoOn(g, d) ==
  \A m \in 1..Len(d) : d[m].type = "complete" => GoesOn(d, m, d[m].opId, g.head)

NoGap(g, t, d) == CompletesGoOn(g, d) /\ (Live(t) => GoesOn(d, 0, t.opIdLastSeen, g.head))

\* A snapshot or a sync.complete divides the older ops from the newer, all of which follow a snapshot.
NewerBehind(d) == \A m \in Marks(d) : \A j \in Sets(d) : m < j => d[m].opId < d[j].opId

OlderBefore(d) ==
  \A m \in Marks(d) : \A j \in 1..Len(d) :
    j < m /\ d[j].type \in {"set", "snapshot"} => d[j].opId <= d[m].opId

AllBehind(g, d) ==
  \A m \in 1..Len(d) : d[m].type = "snapshot" =>
    \A o \in 1..g.head : d[m].opId < o => \E j \in Sets(d) : m < j /\ d[j].opId = o

Divides(g, d) == NewerBehind(d) /\ OlderBefore(d) /\ AllBehind(g, d)

SeqsUsed(r, c, t) == \A op \in r.opIndex : op.clientId = c => op.clientSeq <= t.clientSeq

Frames(g, r, c, t, d) ==
  FramesTrue(g, d) /\ Phase(t, d) /\ NoGap(g, t, d) /\ Divides(g, d) /\ SeqsUsed(r, c, t)

-----------------------------------------------------------------------------
(* What is true of a tab that has missed nothing for good *)

\* The answer to the hello of a tab is still to be made, as the room then is.
Asks(t) == t.state = "closed" \/ \E i \in 1..Len(t.up) : t.up[i].type = "hello"

From(t) == IF t.state = "closed" THEN ResumeFrom(t) ELSE t.up[1].resumeFrom

CanCatchUp(g, r, from) == 0 <= from /\ from <= g.head /\ CanReplay(r, from)

Replays(g, r, t) == Asks(t) /\ CanCatchUp(g, r, From(t))

OpsAhead(g, r, t, d) ==
  {o \in 1..g.head : (\E i \in Sets(d) : d[i].opId = o) \/ (Replays(g, r, t) /\ From(t) < o)}

SnapshotAhead(g, r, t, d) ==
  (Asks(t) /\ ~Replays(g, r, t)) \/ \E i \in 1..Len(d) : d[i].type = "snapshot"

Upto(t, p, k) == IF t.lastApplied[p] > k THEN t.lastApplied[p] ELSE k

\* The tab shows op k's project, and on each leaf the op last applied if that is newer, but for the
\* leaves it has edits of; and an op ahead is either no news or newer than k.
Shows(g, t, A, k) ==
  /\ \A p \in Path : HasPending(t, p) \/ t.project[p] = g.at[Upto(t, p, k)][p]
  /\ \A o \in A : o <= t.lastApplied[g.path[o]] \/ k < o

\* No op newer than k is missing.
Covers(g, t, A, k) == \A o \in 1..g.head : k < o => o <= t.lastApplied[g.path[o]] \/ o \in A

\* An echo of an op in flight is news, and so is every echo of it before it.
Echoes(t, d) ==
  \A e \in t.inFlight : \A i \in Sets(d) : d[i].clientSeq = e.seq =>
     /\ d[i].path = e.path /\ d[i].opId > t.opIdLastSeen
     /\ \A j \in Sets(d) : d[j].opId = d[i].opId => d[j].clientSeq = e.seq

EchoAhead(d, op) == \E j \in Sets(d) : d[j].opId = op.opId /\ d[j].clientSeq = op.clientSeq

\* What the tab may send again and the room knows has been applied here, or its echo is on its way.
Resends(r, c, t, d) ==
  \A op \in r.opIndex : op.clientId = c =>
    /\ \A i \in 1..Len(t.up) : t.up[i].type = "set" /\ t.up[i].clientSeq = op.clientSeq =>
         op.opId <= t.lastApplied[op.path] \/ EchoAhead(d, op)
    /\ \A e \in t.inFlight : e.seq = op.clientSeq => op.path = e.path /\ EchoAhead(d, op)

At(g, r, t, d, k) ==
  /\ Shows(g, t, OpsAhead(g, r, t, d), k)
  /\ ~SnapshotAhead(g, r, t, d) => Covers(g, t, OpsAhead(g, r, t, d), k)

Reaches(g, r, t, d, gap) ==
  \E k \in 0..g.head : k <= t.opIdLastSeen /\ (~gap => k = t.opIdLastSeen) /\ At(g, r, t, d, k)

\* No watermark is ahead of the room, or of a snapshot or sync.complete on its way.
Placed(g, t, d) ==
  /\ t.opIdLastSeen <= g.head
  /\ ~t.snapshotRequired => \A p \in Path : t.lastApplied[p] <= t.opIdLastSeen
  /\ \A m \in Marks(d) : t.opIdLastSeen <= d[m].opId
  /\ Asks(t) => From(t) <= t.opIdLastSeen

Seen(g, r, c, t, d, gap) ==
  /\ Placed(g, t, d)
  /\ t.snapshotRequired => SnapshotAhead(g, r, t, d)
  /\ ~t.snapshotRequired => Reaches(g, r, t, d, gap)
  /\ Echoes(t, d) /\ Resends(r, c, t, d)

Agrees(g, r, c, t, d, gap, excuse) ==
  /\ Frames(g, r, c, t, d)
  /\ gap => ~Live(t)
  /\ ~excuse => Seen(g, r, c, t, d, gap)

AgreeInv(g) ==
  /\ History(g, room)
  /\ \A c \in Client : Agrees(g, room, c, tab[c], down[c], c \in gapped, c \in excused)

-----------------------------------------------------------------------------
(* What is on its way when a frame is added or taken *)

LEMMA ReplyFields ==
  ASSUME NEW m \in Reply
  PROVE  /\ m.type \in {"welcome", "snapshot", "set", "complete", "nack"}
         /\ m.type \in {"snapshot", "set", "complete"} => m.opId \in Nat
         /\ m.type = "snapshot" => m.project \in Project
         /\ m.type = "set" => m.clientSeq \in Nat /\ m.path \in Path /\ m.value \in Value
         /\ m.type = "nack" => m.clientSeq \in Nat
BY DEF Reply

\* e is d with the frames of m behind it.
Behind(d, m, e) ==
  /\ Len(d) \in Nat /\ Len(m) \in Nat /\ Len(e) = Len(d) + Len(m)
  /\ \A i \in 1..Len(d) : e[i] = d[i]
  /\ \A j \in 1..Len(m) : e[Len(d) + j] = m[j]

\* e is d with m behind it, and without its first frame.
OneMore(d, m, e) ==
  /\ Len(d) \in Nat /\ Len(e) = Len(d) + 1
  /\ \A i \in 1..Len(d) : e[i] = d[i]
  /\ e[Len(d) + 1] = m

OneLess(d, e) ==
  /\ Len(e) \in Nat /\ Len(d) = Len(e) + 1
  /\ \A i \in 1..Len(e) : e[i] = d[i + 1]

Numbered(d) == \A i \in 1..Len(d) : d[i].type \in {"snapshot", "set", "complete"} => d[i].opId \in Nat

LEMMA AddedOne ==
  ASSUME NEW S, NEW d \in Seq(S), NEW m \in S
  PROVE  OneMore(d, m, Append(d, m))
<1>1. Len(d) \in Nat
  OBVIOUS
<1> QED
  BY <1>1, AppendProperties DEF OneMore

LEMMA TakenOne ==
  ASSUME NEW S, NEW d \in Seq(S), d # <<>>
  PROVE  OneLess(d, Tail(d)) /\ Head(d) = d[1] /\ Head(d) \in S
<1>1. Len(d) \in Nat /\ Len(Tail(d)) \in Nat
  BY Shortened
<1> QED
  BY <1>1, Shortened DEF OneLess

LEMMA AddedMore ==
  ASSUME NEW S, NEW d \in Seq(S), NEW m \in Seq(S)
  PROVE  Behind(d, m, d \o m)
<1>1. Len(d) \in Nat /\ Len(m) \in Nat
  OBVIOUS
<1> QED
  BY <1>1, ConcatProperties DEF Behind

LEMMA AreNumbered ==
  ASSUME NEW d \in Seq(Reply)
  PROVE  Len(d) \in Nat /\ Numbered(d) /\ \A i \in 1..Len(d) : d[i] \in Reply
<1>1. \A i \in 1..Len(d) : d[i] \in Reply
  BY ElementOfSeq
<1> QED
  BY <1>1, ReplyFields DEF Numbered

LEMMA Ordered ==
  /\ \A a, b \in Int : ~(b <= a) => a + 1 <= b
  /\ \A a, b, c \in Int : a <= b + 1 /\ b <= c => a <= c + 1
  /\ \A a, b, c \in Int : a <= b + 1 /\ b + 1 <= c => a <= c
  /\ Nat \subseteq Int
OBVIOUS

\* A frame that is no op, one that is old, and one that is the next, behind the others.
LEMMA GoesOnFurther ==
  ASSUME NEW d, NEW e, NEW m, OneMore(d, m, e), Numbered(d), NEW k \in 0..Len(d), NEW w \in Int, NEW h \in Int,
         GoesOn(d, k, w, h)
  PROVE  /\ m.type # "set" => GoesOn(e, k, w, h)
         /\ m.type = "set" /\ m.opId \in Int /\ m.opId <= h => GoesOn(e, k, w, h)
         /\ m.type = "set" /\ m.opId = h + 1 => GoesOn(e, k, w, h + 1)
<1> DEFINE n == Len(d) + 1
<1>1. n \in Nat /\ Len(e) = n /\ e[n] = m /\ k < n /\ \A i \in 1..Len(d) : e[i] = d[i] /\ i < n /\ i \in Nat
  BY DEF OneMore
<1>2. \A i \in Sets(d) : i \in Sets(e) /\ i \in Nat /\ i < n /\ e[i] = d[i] /\ d[i].opId \in Nat
  BY <1>1 DEF Sets, Numbered
<1>3. \A i \in Sets(e) : i \in Sets(d) \/ (i = n /\ m.type = "set")
  BY <1>1 DEF Sets
<1>4. m.type = "set" => n \in Sets(e)
  BY <1>1 DEF Sets
<1> HIDE DEF n
<1>5. ASSUME NEW i \in Sets(d), k < i PROVE IsNext(e, k, w, i)
  <2>1. IsNext(d, k, w, i) /\ e[i] = d[i]
    BY <1>2, <1>5 DEF GoesOn
  <2>2. CASE d[i].opId <= w + 1
    BY <2>1, <2>2 DEF IsNext
  <2>3. CASE \E j \in Sets(d) : k < j /\ j < i /\ d[i].opId <= d[j].opId + 1
    <3>1. PICK j \in Sets(d) : k < j /\ j < i /\ d[i].opId <= d[j].opId + 1
      BY <2>3
    <3>2. j \in Sets(e) /\ e[j] = d[j]
      BY <1>2
    <3> QED
      BY <2>1, <3>1, <3>2, Zenon DEF IsNext
  <2> QED
    BY <2>1, <2>2, <2>3 DEF IsNext
<1>6. GetsTo(e, k, w, h)
  <2>1. CASE h <= w
    BY <2>1 DEF GetsTo
  <2>2. CASE \E j \in Sets(d) : k < j /\ h <= d[j].opId
    <3>1. PICK j \in Sets(d) : k < j /\ h <= d[j].opId
      BY <2>2
    <3>2. j \in Sets(e) /\ e[j] = d[j]
      BY <1>2
    <3> QED
      BY <3>1, <3>2, Zenon DEF GetsTo
  <2> QED
    BY <2>1, <2>2 DEF GoesOn, GetsTo

\* What is the next after the last op, or older.
<1>7. ASSUME m.opId \in Int, m.opId <= h + 1 PROVE IsNext(e, k, w, n)
  <2>1. CASE h <= w
    BY <1>1, <1>7, <2>1 DEF IsNext
  <2>2. CASE \E j \in Sets(d) : k < j /\ h <= d[j].opId
    <3>1. PICK j \in Sets(d) : k < j /\ h <= d[j].opId
      BY <2>2
    <3>2. j \in Sets(e) /\ e[j] = d[j] /\ j < n /\ e[n] = m /\ d[j].opId \in Nat
      BY <1>1, <1>2
    <3>3. m.opId <= d[j].opId + 1
      BY <1>7, <3>1, <3>2
    <3>4. e[n].opId <= e[j].opId + 1
      BY <3>2, <3>3
    <3> QED
      BY <3>1, <3>2, <3>4 DEF IsNext
  <2> QED
    BY <2>1, <2>2 DEF GoesOn, GetsTo
<1>8. m.type # "set" => GoesOn(e, k, w, h)
  BY <1>3, <1>5, <1>6 DEF GoesOn
<1>9. ASSUME m.type = "set", m.opId \in Int, m.opId <= h PROVE GoesOn(e, k, w, h)
  <2>1. IsNext(e, k, w, n)
    BY <1>7, <1>9
  <2> QED
    BY <1>3, <1>5, <1>6, <2>1 DEF GoesOn
<1>10. ASSUME m.type = "set", m.opId = h + 1 PROVE GoesOn(e, k, w, h + 1)
  <2>1. IsNext(e, k, w, n)
    BY <1>7, <1>10
  <2>2. n \in Sets(e) /\ k < n /\ h + 1 <= e[n].opId
    BY <1>1, <1>4, <1>10
  <2>3. GetsTo(e, k, w, h + 1)
    BY <2>2 DEF GetsTo
  <2> QED
    BY <1>3, <1>5, <2>1, <2>3 DEF GoesOn
<1> QED
  BY <1>8, <1>9, <1>10

LEMMA SetsMoved ==
  ASSUME NEW d, NEW e, OneLess(d, e)
  PROVE  /\ \A i \in Sets(e) : i + 1 \in Sets(d) /\ e[i] = d[i + 1] /\ i \in Nat /\ 1 <= i /\ i <= Len(e)
         /\ \A i \in Sets(d) : i \in Nat /\ (i = 1 \/ (i - 1 \in Sets(e) /\ e[i - 1] = d[i] /\ 1 < i))
         /\ \A i \in Marks(e) : i + 1 \in Marks(d) /\ e[i] = d[i + 1] /\ i \in Nat
         /\ \A i \in 1..Len(e) : i + 1 \in 1..Len(d) /\ e[i] = d[i + 1]
         /\ Len(d) \in Nat /\ 1 \in 1..Len(d)
<1>1. Len(e) \in Nat /\ Len(d) = Len(e) + 1 /\ \A i \in 1..Len(e) : e[i] = d[i + 1]
  BY DEF OneLess
<1>2. \A i \in 1..Len(d) : i = 1 \/ (i - 1 \in 1..Len(e) /\ e[i - 1] = d[i])
  BY <1>1
<1>3. \A i \in 1..Len(e) : i + 1 \in 1..Len(d)
  BY <1>1
<1> QED
  BY <1>1, <1>2, <1>3 DEF Sets, Marks

\* The first frame taken: what is behind a later one goes on as before, what was behind it too, and so
\* does everything from the watermark that an op moves.
LEMMA GoesOnTaken ==
  ASSUME NEW d, NEW e, OneLess(d, e), Numbered(d), NEW w \in Int, NEW h \in Int
  PROVE  /\ \A k \in 1..Len(d) : GoesOn(d, k, w, h) => GoesOn(e, k - 1, w, h)
         /\ d[1].type # "set" /\ GoesOn(d, 0, w, h) => GoesOn(e, 0, w, h)
         /\ d[1].type = "set" /\ GoesOn(d, 0, w, h) =>
              d[1].opId <= w + 1 /\ GoesOn(e, 0, IF d[1].opId > w THEN d[1].opId ELSE w, h)
<1>1. /\ \A i \in Sets(e) : i + 1 \in Sets(d) /\ e[i] = d[i + 1] /\ i \in Nat /\ 1 <= i
      /\ \A i \in Sets(d) : i \in Nat /\ (i = 1 \/ (i - 1 \in Sets(e) /\ e[i - 1] = d[i] /\ 1 < i))
      /\ Len(d) \in Nat /\ 1 \in 1..Len(d)
  BY SetsMoved
<1>2. \A i \in Sets(d) : d[i].opId \in Nat
  BY DEF Sets, Numbered
<1>3. ASSUME NEW k \in 0..Len(d), NEW x \in Int, w <= x, GoesOn(d, k, w, h),
             1 \in Sets(d) /\ k = 0 => d[1].opId <= x, NEW l \in {0, k - 1}, l <= k, k = 0 \/ l = k - 1
      PROVE  GoesOn(e, l, x, h)
  <2>1. GetsTo(e, l, x, h)
    <3>1. CASE h <= w
      BY <1>3, <3>1 DEF GetsTo
    <3>2. CASE \E j \in Sets(d) : k < j /\ h <= d[j].opId
      <4>1. PICK j \in Sets(d) : k < j /\ h <= d[j].opId
        BY <3>2
      <4>2. CASE j = 1
        <5>1. h <= x
          BY <1>2, <1>3, <4>1, <4>2
        <5> QED
          BY <5>1 DEF GetsTo
      <4>3. CASE j # 1
        <5>1. j - 1 \in Sets(e) /\ e[j - 1] = d[j] /\ l < j - 1
          BY <1>1, <1>3, <4>1, <4>3
        <5> QED
          BY <4>1, <5>1, Zenon DEF GetsTo
      <4> QED
        BY <4>2, <4>3
    <3> QED
      BY <1>3, <3>1, <3>2 DEF GoesOn, GetsTo
  <2>2. ASSUME NEW i \in Sets(e), l < i
        PROVE  IsNext(e, l, x, i)
    <3>1. i + 1 \in Sets(d) /\ k < i + 1 /\ e[i] = d[i + 1] /\ d[i + 1].opId \in Nat
      BY <1>1, <1>2, <1>3, <2>2
    <3>2. IsNext(d, k, w, i + 1)
      BY <1>3, <3>1 DEF GoesOn
    <3>3. CASE d[i + 1].opId <= w + 1
      BY <1>3, <3>1, <3>3 DEF IsNext
    <3>4. CASE \E j \in Sets(d) : k < j /\ j < i + 1 /\ d[i + 1].opId <= d[j].opId + 1
      <4>1. PICK j \in Sets(d) : k < j /\ j < i + 1 /\ d[i + 1].opId <= d[j].opId + 1
        BY <3>4
      <4>2. CASE j = 1
        <5>1. d[1].opId <= x /\ d[1].opId \in Nat
          BY <1>2, <1>3, <4>1, <4>2
        <5>2. d[i + 1].opId <= x + 1
          <6>1. d[i + 1].opId <= d[1].opId + 1
            BY <4>1, <4>2
          <6>2. d[i + 1].opId \in Int /\ d[1].opId \in Int
            BY <3>1, <5>1
          <6> QED
            BY <5>1, <6>1, <6>2
        <5> QED
          BY <3>1, <5>2 DEF IsNext
      <4>3. CASE j # 1
        <5>1. j - 1 \in Sets(e) /\ e[j - 1] = d[j] /\ l < j - 1 /\ j - 1 < i
          BY <1>1, <1>3, <3>1, <4>1, <4>3
        <5>2. e[i].opId <= e[j - 1].opId + 1
          BY <3>1, <4>1, <5>1
        <5> QED
          BY <5>1, <5>2 DEF IsNext
      <4> QED
        BY <4>2, <4>3
    <3> QED
      BY <3>2, <3>3, <3>4 DEF IsNext
  <2> QED
    BY <2>1, <2>2 DEF GoesOn
<1>4. ASSUME NEW k \in 1..Len(d), GoesOn(d, k, w, h) PROVE GoesOn(e, k - 1, w, h)
  BY <1>1, <1>3, <1>4
<1>5. ASSUME d[1].type # "set", GoesOn(d, 0, w, h) PROVE GoesOn(e, 0, w, h)
  <2>1. 1 \notin Sets(d)
    BY <1>5 DEF Sets
  <2>2. 0 \in 0..Len(d) /\ w <= w /\ 0 \in {0, 0 - 1}
    BY <1>1
  <2> QED
    BY <1>3, <1>5, <2>1, <2>2
<1>6. ASSUME d[1].type = "set", GoesOn(d, 0, w, h)
      PROVE  d[1].opId <= w + 1 /\ GoesOn(e, 0, IF d[1].opId > w THEN d[1].opId ELSE w, h)
  <2> DEFINE x == IF d[1].opId > w THEN d[1].opId ELSE w
  <2>1. 1 \in Sets(d) /\ d[1].opId \in Nat
    BY <1>1, <1>2, <1>6 DEF Sets
  <2>2. d[1].opId <= w + 1
    <3>1. ~\E j \in Sets(d) : 0 < j /\ j < 1
      BY <1>1
    <3>2. IsNext(d, 0, w, 1)
      BY <1>6, <2>1 DEF GoesOn
    <3> QED
      BY <3>1, <3>2 DEF IsNext
  <2>3. x \in Int /\ w <= x /\ d[1].opId <= x
    BY <2>1
  <2> HIDE DEF x
  <2>4. GoesOn(e, 0, x, h)
    BY <1>1, <1>3, <1>6, <2>3
  <2> QED
    BY <2>2, <2>4 DEF x
<1> QED
  BY <1>4, <1>5, <1>6

LEMMA GoesOnLater ==
  ASSUME NEW d, Numbered(d), NEW k, NEW w \in Int, NEW v \in Int, w <= v, NEW h \in Int, GoesOn(d, k, w, h)
  PROVE  GoesOn(d, k, v, h)
<1>1. \A i \in Sets(d) : d[i].opId \in Nat
  BY DEF Sets, Numbered
<1>2. \A i \in Sets(d) : IsNext(d, k, w, i) => IsNext(d, k, v, i)
  BY <1>1 DEF IsNext
<1>3. GetsTo(d, k, w, h) => GetsTo(d, k, v, h)
  BY DEF GetsTo
<1> QED
  BY <1>2, <1>3 DEF GoesOn

\* No op is missing from what goes on.
LEMMA GoesOnCovers ==
  ASSUME NEW d, Len(d) \in Nat, Numbered(d), NEW k \in Nat, NEW w \in Int, NEW h \in Int, GoesOn(d, k, w, h),
         NEW o \in Int, w < o, o <= h
  PROVE  \E i \in Sets(d) : k < i /\ d[i].opId = o
<1> DEFINE S == {i \in Sets(d) : k < i /\ o <= d[i].opId}
<1>1. \A i \in Sets(d) : d[i].opId \in Nat /\ i \in Nat
  BY DEF Sets, Numbered
<1>2. S \subseteq Nat /\ S # {}
  <2>1. PICK j \in Sets(d) : k < j /\ h <= d[j].opId
    BY DEF GoesOn, GetsTo
  <2>2. j \in S
    BY <1>1, <2>1
  <2> QED
    BY <1>1, <2>2
<1>3. PICK i \in S : \A j \in S : i <= j
  BY <1>2, LeastNumber
<1>4. IsNext(d, k, w, i)
  BY <1>3 DEF GoesOn
<1>5. ASSUME NEW j \in Sets(d), k < j, j < i, d[i].opId <= d[j].opId + 1
      PROVE  d[i].opId <= o
  <2>1. ~(o <= d[j].opId)
    <3>1. j \notin S
      BY <1>1, <1>2, <1>3, <1>5
    <3> QED
      BY <1>5, <3>1
  <2>2. d[j].opId + 1 <= o
    BY <1>1, <2>1, Ordered, Zenon
  <2>3. d[i].opId \in Int /\ d[j].opId \in Int
    BY <1>1, <1>3
  <2> QED
    BY <1>5, <2>2, <2>3, Ordered, Zenon
<1>6. d[i].opId <= o
  BY <1>1, <1>3, <1>4, <1>5 DEF IsNext
<1> QED
  BY <1>1, <1>3, <1>6

-----------------------------------------------------------------------------
(* The frames on their way, when one is added or taken *)

\* h is g after more ops.
Later(g, h) ==
  /\ g.head \in Nat /\ h.head \in Nat /\ g.head <= h.head
  /\ \A o \in 0..g.head : h.at[o] = g.at[o]
  /\ \A o \in 1..g.head : h.path[o] = g.path[o]

LEMMA TrueLater ==
  ASSUME NEW g, NEW h, Later(g, h)
  PROVE  /\ \A op : OpTrue(g, op) => OpTrue(h, op)
         /\ \A d : FramesTrue(g, d) => FramesTrue(h, d)
<1>1. 1..g.head \subseteq 1..h.head /\ 1..g.head \subseteq 0..g.head /\ 0..g.head \subseteq 0..h.head
  BY DEF Later
<1>2. \A op : OpTrue(g, op) => OpTrue(h, op)
  BY <1>1 DEF OpTrue, Later
<1>3. \A m : FrameTrue(g, m) => FrameTrue(h, m)
  BY <1>1, <1>2 DEF FrameTrue, Later
<1> QED
  BY <1>2, <1>3 DEF FramesTrue

LEMMA OneMoreIndex ==
  ASSUME NEW d, NEW m, NEW e, OneMore(d, m, e)
  PROVE  /\ Len(d) \in Nat /\ Len(e) = Len(d) + 1 /\ Len(d) + 1 \in 1..Len(e) /\ e[Len(d) + 1] = m
         /\ \A i \in 1..Len(d) : i \in 1..Len(e) /\ e[i] = d[i] /\ i \in Nat /\ i < Len(d) + 1
         /\ \A i \in 1..Len(e) : i \in Nat /\ (i \in 1..Len(d) \/ i = Len(d) + 1)
BY DEF OneMore

LEMMA FramesAdded ==
  ASSUME NEW d, NEW m, NEW e, OneMore(d, m, e), NEW g, FramesTrue(g, d), FrameTrue(g, m)
  PROVE  FramesTrue(g, e)
<1>1. \A i \in 1..Len(e) : (i \in 1..Len(d) /\ e[i] = d[i]) \/ e[i] = m
  BY OneMoreIndex
<1> QED
  BY <1>1, Zenon DEF FramesTrue

LEMMA FramesTaken ==
  ASSUME NEW d, NEW e, OneLess(d, e), NEW g, FramesTrue(g, d)
  PROVE  FramesTrue(g, e) /\ FrameTrue(g, d[1])
<1>1. 1 \in 1..Len(d) /\ \A i \in 1..Len(e) : i + 1 \in 1..Len(d) /\ e[i] = d[i + 1]
  BY SetsMoved
<1> QED
  BY <1>1, Zenon DEF FramesTrue

LEMMA DividesTaken ==
  ASSUME NEW d, NEW e, OneLess(d, e), NEW g, Divides(g, d)
  PROVE  Divides(g, e)
<1>1. /\ \A i \in Sets(e) : i + 1 \in Sets(d) /\ e[i] = d[i + 1] /\ i \in Nat
      /\ \A i \in Sets(d) : i \in Nat /\ (i = 1 \/ (i - 1 \in Sets(e) /\ e[i - 1] = d[i] /\ 1 < i))
      /\ \A i \in Marks(e) : i + 1 \in Marks(d) /\ e[i] = d[i + 1] /\ i \in Nat
      /\ \A i \in 1..Len(e) : i + 1 \in 1..Len(d) /\ e[i] = d[i + 1] /\ i \in Nat
  BY SetsMoved
<1>2. \A i, j \in Nat : i < j => i + 1 < j + 1
  OBVIOUS
<1>3. NewerBehind(e)
  BY <1>1, <1>2, Zenon DEF NewerBehind, Divides
<1>4. OlderBefore(e)
  <2>1. ASSUME NEW m \in Marks(e), NEW j \in 1..Len(e), j < m, e[j].type \in {"set", "snapshot"}
        PROVE  e[j].opId <= e[m].opId
    <3>1. m + 1 \in Marks(d) /\ j + 1 \in 1..Len(d) /\ j + 1 < m + 1 /\ e[j] = d[j + 1] /\ e[m] = d[m + 1]
      BY <1>1, <1>2, <2>1
    <3> QED
      BY <2>1, <3>1, Zenon DEF OlderBefore, Divides
  <2> QED
    BY <2>1, Zenon DEF OlderBefore
<1>5. AllBehind(g, e)
  <2>1. ASSUME NEW m \in 1..Len(e), e[m].type = "snapshot", NEW o \in 1..g.head, e[m].opId < o
        PROVE  \E j \in Sets(e) : m < j /\ e[j].opId = o
    <3>1. m + 1 \in 1..Len(d) /\ e[m] = d[m + 1] /\ m \in Nat
      BY <1>1
    <3>2. PICK j \in Sets(d) : m + 1 < j /\ d[j].opId = o
      BY <2>1, <3>1, Zenon DEF AllBehind, Divides
    <3>3. j - 1 \in Sets(e) /\ e[j - 1] = d[j] /\ m < j - 1
      BY <1>1, <3>1, <3>2
    <3> QED
      BY <3>2, <3>3, Zenon
  <2> QED
    BY <2>1, Zenon DEF AllBehind
<1> QED
  BY <1>3, <1>4, <1>5 DEF Divides

LEMMA CompletesTaken ==
  ASSUME NEW d, NEW e, OneLess(d, e), Numbered(d), NEW g, g.head \in Int, CompletesGoOn(g, d)
  PROVE  CompletesGoOn(g, e)
<1>1. \A i \in 1..Len(e) : i \in Nat /\ i + 1 \in 1..Len(d) /\ e[i] = d[i + 1] /\ (i + 1) - 1 = i
  BY SetsMoved
<1>2. ASSUME NEW m \in 1..Len(e), e[m].type = "complete" PROVE GoesOn(e, m, e[m].opId, g.head)
  <2>1. m + 1 \in 1..Len(d) /\ d[m + 1].opId \in Int /\ e[m] = d[m + 1] /\ (m + 1) - 1 = m
    BY <1>1, <1>2 DEF Numbered
  <2>2. GoesOn(d, m + 1, e[m].opId, g.head)
    BY <1>2, <2>1 DEF CompletesGoOn
  <2>3. GoesOn(e, (m + 1) - 1, e[m].opId, g.head)
    BY <2>1, <2>2, GoesOnTaken
  <2> QED
    BY <2>1, <2>3
<1> QED
  BY <1>2 DEF CompletesGoOn

\* The room's next op, behind everything.
LEMMA DividesNew ==
  ASSUME NEW d, NEW m, NEW e, OneMore(d, m, e), NEW g, NEW h, g.head \in Nat, h.head = g.head + 1,
         FramesTrue(g, d), Divides(g, d), m.type = "set", m.opId = h.head
  PROVE  Divides(h, e)
<1> DEFINE n == Len(d) + 1
<1>1. /\ n \in 1..Len(e) /\ e[n] = m
      /\ \A i \in 1..Len(d) : i \in 1..Len(e) /\ e[i] = d[i] /\ i \in Nat /\ i < n
      /\ \A i \in 1..Len(e) : i \in Nat /\ (i \in 1..Len(d) \/ i = n)
  BY OneMoreIndex
<1>2. /\ \A i \in Marks(e) : i \in Marks(d) /\ e[i] = d[i]
      /\ \A i \in Sets(e) : (i \in Sets(d) /\ e[i] = d[i]) \/ i = n
      /\ \A i \in Sets(d) : i \in Sets(e) /\ e[i] = d[i]
      /\ n \in Sets(e)
  BY <1>1 DEF Marks, Sets
<1>3. \A i \in Marks(d) : i \in 1..Len(d) /\ d[i].opId \in 0..g.head
  BY DEF Marks, FramesTrue, FrameTrue
<1> HIDE DEF n
<1>4. NewerBehind(e)
  <2>1. ASSUME NEW i \in Marks(e), NEW j \in Sets(e), i < j PROVE e[i].opId < e[j].opId
    <3>1. CASE j = n
      BY <1>1, <1>2, <1>3, <3>1
    <3>2. CASE j \in Sets(d) /\ e[j] = d[j]
      BY <1>2, <2>1, <3>2, Zenon DEF NewerBehind, Divides
    <3> QED
      BY <1>2, <3>1, <3>2
  <2> QED
    BY <2>1, Zenon DEF NewerBehind
<1>5. OlderBefore(e)
  <2>1. ASSUME NEW i \in Marks(e), NEW j \in 1..Len(e), j < i, e[j].type \in {"set", "snapshot"}
        PROVE  e[j].opId <= e[i].opId
    <3>1. i \in Marks(d) /\ e[i] = d[i] /\ j \in 1..Len(d) /\ e[j] = d[j]
      BY <1>1, <1>2, <1>3, <2>1
    <3> QED
      BY <2>1, <3>1, Zenon DEF OlderBefore, Divides
  <2> QED
    BY <2>1, Zenon DEF OlderBefore
<1>6. AllBehind(h, e)
  <2>1. ASSUME NEW i \in 1..Len(e), e[i].type = "snapshot", NEW o \in 1..h.head, e[i].opId < o
        PROVE  \E j \in Sets(e) : i < j /\ e[j].opId = o
    <3>1. i \in 1..Len(d) /\ e[i] = d[i] /\ i < n
      BY <1>1, <2>1
    <3>2. CASE o = h.head
      BY <1>1, <1>2, <3>1, <3>2
    <3>3. CASE o # h.head
      <4>1. o \in 1..g.head
        BY <3>3
      <4>2. PICK j \in Sets(d) : i < j /\ d[j].opId = o
        BY <2>1, <3>1, <4>1, Zenon DEF AllBehind, Divides
      <4> QED
        BY <1>2, <4>2, Zenon
    <3> QED
      BY <3>2, <3>3
  <2> QED
    BY <2>1, Zenon DEF AllBehind
<1> QED
  BY <1>4, <1>5, <1>6 DEF Divides

-----------------------------------------------------------------------------
(* The history of a room *)

\* The history once an op on p has made the project q.
Grown(g, p, q) ==
  [head |-> g.head + 1,
   at   |-> [o \in 0..(g.head + 1) |-> IF o <= g.head THEN g.at[o] ELSE q],
   path |-> [o \in 1..(g.head + 1) |-> IF o <= g.head THEN g.path[o] ELSE p]]

LEMMA GrownLater ==
  ASSUME NEW g, NEW p, NEW q, g.head \in Nat, NEW h, h = Grown(g, p, q)
  PROVE  /\ Later(g, h) /\ h.head = g.head + 1 /\ h.head \in 1..h.head
         /\ h.at[h.head] = q /\ h.path[h.head] = p
<1>1. g.head + 1 \in Nat /\ g.head <= g.head + 1 /\ ~(g.head + 1 <= g.head)
  OBVIOUS
<1>2. 0..g.head \subseteq 0..(g.head + 1) /\ 1..g.head \subseteq 1..(g.head + 1)
  OBVIOUS
<1>3. /\ h.head = g.head + 1
      /\ h.at = [o \in 0..(g.head + 1) |-> IF o <= g.head THEN g.at[o] ELSE q]
      /\ h.path = [o \in 1..(g.head + 1) |-> IF o <= g.head THEN g.path[o] ELSE p]
  BY DEF Grown
<1>4. g.head + 1 \in 0..(g.head + 1) /\ g.head + 1 \in 1..(g.head + 1)
  BY <1>1
<1>5. h.at[h.head] = q /\ h.path[h.head] = p
  BY <1>1, <1>3, <1>4
<1>6. \A o \in 0..g.head : h.at[o] = g.at[o]
  BY <1>2, <1>3
<1>7. \A o \in 1..g.head : h.path[o] = g.path[o]
  BY <1>2, <1>3
<1> QED
  BY <1>1, <1>3, <1>4, <1>5, <1>6, <1>7 DEF Later

LEMMA LeavesGrow ==
  ASSUME NEW g, g.head \in Nat, LeavesTrue(g), NEW p \in Path, NEW q, NEW h, h = Grown(g, p, q),
         \A x \in Path \ {p} : q[x] = g.at[g.head][x]
  PROVE  LeavesTrue(h)
<1>1. Later(g, h) /\ h.head = g.head + 1 /\ h.at[h.head] = q /\ h.path[h.head] = p /\ h.head \in 1..h.head
  BY GrownLater
<1>2. ASSUME NEW x \in Path, NEW a \in 0..h.head, NEW b \in 0..h.head, a <= b, Unwritten(h, x, a, b)
      PROVE  h.at[a][x] = h.at[b][x]
  <2>1. CASE b <= g.head
    <3>1. a \in 0..g.head /\ b \in 0..g.head
      BY <1>1, <1>2, <2>1
    <3>2. Unwritten(g, x, a, b)
      BY <1>1, <1>2 DEF Unwritten, Later
    <3>3. g.at[a][x] = g.at[b][x]
      BY <1>2, <3>1, <3>2 DEF LeavesTrue
    <3> QED
      BY <1>1, <3>1, <3>3 DEF Later
  <2>2. CASE a = b
    BY <2>2
  <2>3. CASE ~(b <= g.head) /\ a # b
    <3>1. b = h.head /\ a \in 0..g.head /\ a <= g.head /\ g.head \in 0..g.head
      BY <1>1, <1>2, <2>3
    <3>2. x # p
      BY <1>1, <1>2, <3>1 DEF Unwritten
    <3>3. Unwritten(g, x, a, g.head)
      <4>1. ASSUME NEW o \in 1..g.head, a < o PROVE g.path[o] # x
        <5>1. o \in 1..h.head /\ o <= b /\ h.path[o] = g.path[o]
          BY <1>1, <3>1 DEF Later
        <5> QED
          BY <1>2, <4>1, <5>1 DEF Unwritten
      <4> QED
        BY <4>1 DEF Unwritten
    <3>4. g.at[a][x] = g.at[g.head][x]
      BY <3>1, <3>3 DEF LeavesTrue
    <3>5. h.at[a] = g.at[a]
      BY <1>1, <3>1 DEF Later
    <3> QED
      BY <1>1, <3>1, <3>2, <3>4, <3>5
  <2> QED
    BY <2>1, <2>2, <2>3
<1> QED
  BY <1>2 DEF LeavesTrue

LEMMA LogGrows ==
  ASSUME NEW g, g.head \in Nat, NEW log \in Seq(Op), LogTrue(g, log), NEW op \in Op,
         NEW h, Later(g, h), h.head = g.head + 1, op.opId = h.head, OpTrue(h, op)
  PROVE  LogTrue(h, Evict(Append(log, op))) /\ Len(Evict(Append(log, op))) <= Len(log) + 1
<1> DEFINE pushed == Append(log, op)
           x == Excess(pushed)
           n == Len(log)
           e == Evict(pushed)
<1>1. n \in Nat /\ pushed \in Seq(Op) /\ OneMore(log, op, pushed) /\ Len(pushed) = n + 1
  BY AddedOne, Appended DEF OneMore
<1>2. \A i \in 1..(n + 1) : pushed[i].opId = h.head - (n + 1) + i /\ OpTrue(h, pushed[i])
  <2>1. ASSUME NEW i \in 1..n PROVE pushed[i].opId = h.head - (n + 1) + i /\ OpTrue(h, pushed[i])
    <3>1. pushed[i] = log[i]
      BY <1>1 DEF OneMore
    <3>2. log[i].opId = g.head - n + i /\ OpTrue(g, log[i])
      BY DEF LogTrue
    <3>3. OpTrue(h, log[i])
      BY <3>2, TrueLater
    <3>4. g.head - n + i = h.head - (n + 1) + i
      BY <1>1
    <3> QED
      BY <3>1, <3>2, <3>3, <3>4
  <2>2. pushed[n + 1] = op /\ h.head = h.head - (n + 1) + (n + 1)
    BY <1>1 DEF OneMore
  <2> QED
    BY <1>1, <2>1, <2>2
<1> HIDE DEF pushed, n
<1>3. x \in 0..(n + 1)
  BY <1>1, CapacityAssumption DEF Excess
<1>4. e = SubSeq(pushed, x + 1, n + 1)
  BY <1>1 DEF Evict
<1> HIDE DEF x, e
<1>5. Len(e) = n + 1 - x /\ \A i \in 1..Len(e) : e[i] = pushed[x + i] /\ x + i \in 1..(n + 1)
  <2>1. \A i \in (x + 1)..(n + 1) : pushed[i] \in Op
    BY <1>1, <1>3, ElementOfSeq
  <2>2. Len(e) = IF x + 1 <= n + 1 THEN (n + 1) - (x + 1) + 1 ELSE 0
    BY <1>1, <1>3, <1>4, <2>1, SubSeqProperties
  <2>3. Len(e) = n + 1 - x
    BY <1>1, <1>3, <2>2
  <2>4. ASSUME NEW i \in 1..Len(e) PROVE e[i] = pushed[x + i] /\ x + i \in 1..(n + 1)
    <3>1. x + i \in 1..(n + 1) /\ x + 1 + i - 1 = x + i /\ i \in 1..((n + 1) - (x + 1) + 1)
      BY <1>1, <1>3, <2>3
    <3> QED
      BY <1>1, <1>3, <1>4, <2>1, <3>1
  <2> QED
    BY <2>3, <2>4
<1>6. Len(e) <= h.head
  BY <1>1, <1>3, <1>5 DEF LogTrue, n
<1>7. ASSUME NEW i \in 1..Len(e) PROVE e[i].opId = h.head - Len(e) + i /\ OpTrue(h, e[i])
  <2>1. e[i] = pushed[x + i] /\ pushed[x + i].opId = h.head - (n + 1) + (x + i) /\ OpTrue(h, pushed[x + i])
    BY <1>2, <1>5
  <2>2. \A a, j, l \in Int : l = n + 1 - x /\ j = x + i => a - (n + 1) + j = a - l + i
    <3>1. n \in Int /\ x \in Int /\ i \in Int
      BY <1>1, <1>3, <1>5
    <3> QED
      BY <3>1
  <2>3. h.head \in Int /\ x + i \in Int /\ Len(e) \in Int /\ Len(e) = n + 1 - x
    BY <1>1, <1>3, <1>5 DEF Later
  <2> QED
    BY <2>1, <2>2, <2>3, Zenon
<1> QED
  BY <1>1, <1>3, <1>5, <1>6, <1>7 DEF LogTrue, e, pushed, n

\* The history that goes with an appended op.
After(g, r, c, seq, p, v) == Grown(g, p, AppendOp(r, c, seq, p, v).project)

LEMMA HistoryGrows ==
  ASSUME NEW r \in Room, r.nextOpId # 0, NEW g, History(g, r),
         NEW c \in Client, NEW seq \in Nat, NEW p \in Path, NEW v \in Value,
         NEW s, s = AppendOp(r, c, seq, p, v), NEW h, h = After(g, r, c, seq, p, v)
  PROVE  /\ History(h, s) /\ Later(g, h) /\ h.head = g.head + 1 /\ h.head \in 1..h.head /\ h.head = r.nextOpId
         /\ h.path[h.head] = p /\ h.at[h.head] \in Project /\ h.at[h.head][p] = v
         /\ Len(s.opLog) <= Len(r.opLog) + 1
         /\ \A x \in s.opIndex : x \in r.opIndex \/ (x.opId = h.head /\ x.clientId = c /\ x.clientSeq = seq)
<1> DEFINE op == [opId |-> r.nextOpId, clientId |-> c, clientSeq |-> seq, path |-> p, value |-> v]
           pushed == Append(r.opLog, op)
           log == Evict(pushed)
           index == Reindex(r.opIndex, op, {pushed[i] : i \in 1..Excess(pushed)})
           q == [r.project EXCEPT ![p] = v]
<1>1. /\ op \in Op /\ r.opLog \in Seq(Op) /\ r.nextOpId \in Nat /\ r.project \in Project
      /\ op.opId = r.nextOpId /\ op.clientId = c /\ op.clientSeq = seq /\ op.path = p /\ op.value = v
  BY DEF Op, Room
<1>2. q \in Project /\ q[p] = v /\ \A x \in Path \ {p} : q[x] = r.project[x]
  BY <1>1 DEF Project
<1>3. /\ s.project = q /\ s.opLog = log /\ s.opIndex = index /\ s.nextOpId = r.nextOpId + 1
  BY DEF AppendOp
<1> HIDE DEF op
<1>4. \A x \in index : x \in r.opIndex \/ x = op
  BY DEF Reindex
<1> HIDE DEF pushed, log, index, q
<1>5. g.head \in Nat /\ g.head = r.nextOpId - 1 /\ g.at[g.head] = r.project /\ h = Grown(g, p, q)
  BY <1>3 DEF History, OpIdHead, After
<1>6. /\ Later(g, h) /\ h.head = g.head + 1 /\ h.head \in 1..h.head /\ h.at[h.head] = q
      /\ h.path[h.head] = p
  BY <1>5, GrownLater
<1>7. OpTrue(h, op) /\ op.opId = h.head
  BY <1>1, <1>2, <1>5, <1>6 DEF OpTrue
<1>8. LogTrue(h, log) /\ Len(log) <= Len(r.opLog) + 1
  BY <1>1, <1>5, <1>6, <1>7, LogGrows DEF History, log, pushed
<1>9. LeavesTrue(h)
  BY <1>2, <1>5, LeavesGrow DEF History
<1>10. h.at \in [0..h.head -> Project] /\ h.path \in [1..h.head -> Path]
  <2>1. /\ h.head = g.head + 1
        /\ h.at = [o \in 0..(g.head + 1) |-> IF o <= g.head THEN g.at[o] ELSE q]
        /\ h.path = [o \in 1..(g.head + 1) |-> IF o <= g.head THEN g.path[o] ELSE p]
    BY <1>5 DEF Grown
  <2>2. \A o \in 0..(g.head + 1) : o <= g.head => g.at[o] \in Project
    BY <1>5 DEF History
  <2>3. \A o \in 1..(g.head + 1) : o <= g.head => g.path[o] \in Path
    BY <1>5 DEF History
  <2> QED
    BY <1>2, <2>1, <2>2, <2>3
<1>11. \A x \in s.opIndex : OpTrue(h, x)
  <2>1. \A x \in r.opIndex : OpTrue(h, x)
    BY <1>6, TrueLater DEF History
  <2> QED
    BY <1>3, <1>4, <1>7, <2>1
<1>12. h.head = OpIdHead(s) /\ h.head \in Nat /\ h.head = r.nextOpId
  BY <1>1, <1>3, <1>5, <1>6 DEF OpIdHead
<1>13. History(h, s)
  BY <1>3, <1>6, <1>8, <1>9, <1>10, <1>11, <1>12 DEF History
<1> QED
  BY <1>1, <1>2, <1>3, <1>4, <1>6, <1>8, <1>12, <1>13

\* A reseeded room has only its seed for a history.
Seeded(q) == [head |-> 0, at |-> [o \in 0..0 |-> q], path |-> [o \in 1..0 |-> q]]

LEMMA HistoryBegins ==
  ASSUME NEW q \in Project
  PROVE  History(Seeded(q), NewRoom(q)) /\ Seeded(q).head = 0
<1>1. Seeded(q).head = 0 /\ 0..0 = {0} /\ 1..0 = {}
  BY DEF Seeded
<1>2. Seeded(q).at \in [0..0 -> Project] /\ Seeded(q).path \in [1..0 -> Path] /\ Seeded(q).at[0] = q
  BY <1>1 DEF Seeded
<1>3. /\ NewRoom(q).project = q /\ NewRoom(q).opLog = <<>> /\ NewRoom(q).opIndex = {}
      /\ NewRoom(q).nextOpId = 1
  BY DEF NewRoom
<1>4. LeavesTrue(Seeded(q))
  BY <1>1 DEF LeavesTrue
<1>5. LogTrue(Seeded(q), <<>>)
  BY <1>1 DEF LogTrue
<1> QED
  BY <1>1, <1>2, <1>3, <1>4, <1>5 DEF History, OpIdHead

\* The log reaches back to every op that it holds.
LEMMA ReplayReach ==
  ASSUME NEW r \in Room, NEW g, History(g, r), NEW from \in 0..g.head
  PROVE  CanReplay(r, from) <=> g.head - Len(r.opLog) <= from
<1> DEFINE log == r.opLog
<1>1. log \in Seq(Op) /\ Len(log) \in Nat /\ g.head \in Nat /\ LogTrue(g, log) /\ OpIdHead(r) = g.head
  BY DEF Room, History
<1>2. CASE log = <<>>
  <2>1. Len(log) = 0
    BY <1>2
  <2> QED
    BY <1>1, <1>2, <2>1 DEF CanReplay
<1>3. CASE log # <<>>
  <2>1. 1 \in 1..Len(log)
    BY <1>1, <1>3, Shortened
  <2>2. log[1].opId = g.head - Len(log) + 1
    BY <1>1, <2>1 DEF LogTrue
  <2>3. CanReplay(r, from) <=> log[1].opId <= from + 1
    BY <1>3 DEF CanReplay
  <2> QED
    BY <1>1, <2>2, <2>3
<1> QED
  BY <1>2, <1>3

LEMMA ReplayShrinks ==
  ASSUME NEW r \in Room, NEW g, History(g, r), NEW s \in Room, NEW h, History(h, s), h.head = g.head + 1,
         Len(s.opLog) <= Len(r.opLog) + 1, NEW from \in 0..g.head, CanReplay(s, from)
  PROVE  CanReplay(r, from)
<1>1. g.head \in Nat /\ Len(r.opLog) \in Nat /\ Len(s.opLog) \in Nat
  BY DEF History, Room
<1>2. from \in 0..h.head
  BY <1>1
<1>3. h.head - Len(s.opLog) <= from
  BY <1>2, ReplayReach
<1>4. g.head - Len(r.opLog) <= from
  BY <1>1, <1>3
<1> QED
  BY <1>4, ReplayReach

LEMMA OpsCounted ==
  ASSUME NEW r \in Room, NEW g, History(g, r), NEW from \in 0..g.head, CanReplay(r, from)
  PROVE  Cardinality(OpsSince(r, from)) = g.head - from /\ g.head - from <= Len(r.opLog)
<1> DEFINE log == r.opLog
           l == Len(log)
           n == g.head - from
           S == OpsSince(r, from)
           f == [i \in 1..n |-> log[l - n + i]]
<1>1. l \in Nat /\ n \in Nat /\ g.head \in Nat /\ LogTrue(g, log)
  BY DEF History, Room
<1>2. n <= l
  BY <1>1, ReplayReach
<1>3. \A i \in 1..l : log[i].opId = g.head - l + i
  BY <1>1 DEF LogTrue
<1>4. S = {op \in {log[i] : i \in 1..l} : op.opId > from}
  BY DEF OpsSince, Room
<1> HIDE DEF log, l
<1>5. \A i \in 1..n : l - n + i \in 1..l /\ f[i] = log[l - n + i] /\ f[i].opId = from + i
  <2>1. ASSUME NEW i \in 1..n PROVE l - n + i \in 1..l /\ f[i] = log[l - n + i] /\ f[i].opId = from + i
    <3>1. l - n + i \in 1..l /\ g.head - l + (l - n + i) = from + i
      BY <1>1, <1>2
    <3>2. f[i] = log[l - n + i]
      OBVIOUS
    <3> QED
      BY <1>3, <3>1, <3>2
  <2> QED
    BY <2>1
<1>6. f \in [1..n -> S]
  <2>1. ASSUME NEW i \in 1..n PROVE f[i] \in S
    BY <1>4, <1>5
  <2> HIDE DEF S
  <2> QED
    BY <2>1
<1>7. \A i, j \in 1..n : f[i] = f[j] => i = j
  <2>1. ASSUME NEW i \in 1..n, NEW j \in 1..n, f[i] = f[j] PROVE i = j
    <3>1. from + i = from + j
      BY <1>5, <2>1
    <3> QED
      BY <3>1
  <2> QED
    BY <2>1
<1>8. \A x \in S : \E i \in 1..n : f[i] = x
  <2>1. ASSUME NEW k \in 1..l, log[k].opId > from PROVE \E i \in 1..n : f[i] = log[k]
    <3>1. g.head - l + k > from
      BY <1>3, <2>1
    <3>2. k - (l - n) \in 1..n /\ l - n + (k - (l - n)) = k
      BY <1>1, <1>2, <3>1
    <3> QED
      BY <1>5, <3>2
  <2> QED
    BY <1>4, <2>1
<1> HIDE DEF f, S, n
<1>9. f \in Bijection(1..n, S)
  BY <1>6, <1>7, <1>8 DEF Bijection, Injection, Surjection, IsInjective
<1>10. Cardinality(S) = n
  BY <1>1, <1>9, FS_CountingElements DEF ExistsBijection
<1> QED
  BY <1>2, <1>10 DEF S, n, l, log

-----------------------------------------------------------------------------
(* The answer to a hello *)

\* What follows the ops since from, or the snapshot, is a sync.complete of the head.
IsReplay(g, from, e) ==
  /\ Len(e) = g.head - from + 1
  /\ \A i \in 1..(g.head - from) :
       e[i].type = "set" /\ e[i].opId = from + i /\ e[i].clientSeq = 0 /\ OpTrue(g, e[i])
  /\ e[Len(e)].type = "complete" /\ e[Len(e)].opId = g.head

IsRefill(g, e) ==
  /\ Len(e) = 2
  /\ e[1].type = "snapshot" /\ e[1].opId = g.head /\ e[1].project = g.at[g.head]
  /\ e[2].type = "complete" /\ e[2].opId = g.head

\* The i-th of the newest ops of a log of l, with f the op before them and h the head.
LEMMA CountedBack ==
  ASSUME NEW h \in Nat, NEW f \in 0..h, NEW l \in Nat, h - f <= l, NEW i \in 1..(h - f)
  PROVE  l - (h - f) + i \in 1..l /\ h - l + (l - (h - f) + i) = f + i
OBVIOUS

LEMMA CatchUpShape ==
  ASSUME room \in Room, NEW g, History(g, room), NEW from \in Int
  PROVE  IF CanCatchUp(g, room, from) THEN IsReplay(g, from, CatchUp(from)) ELSE IsRefill(g, CatchUp(from))
<1> DEFINE log == room.opLog
           l == Len(log)
           n == g.head - from
           since == Cardinality(OpsSince(room, from))
           replay == [i \in 1..since |-> Echo(log[l - since + i], 0)]
           refill == <<[type |-> "snapshot", opId |-> OpIdHead(room), project |-> room.project]>>
           last == [type |-> "complete", opId |-> OpIdHead(room)]
           e == CatchUp(from)
<1>1. g.head = OpIdHead(room) /\ g.head \in Nat /\ l \in Nat /\ LogTrue(g, log) /\ g.at[g.head] = room.project
  BY DEF History, Room
<1>2. e = (IF CanCatchUp(g, room, from) THEN replay ELSE refill) \o <<last>>
  BY <1>1 DEF CatchUp, CanCatchUp
<1>3. last.type = "complete" /\ last.opId = g.head
  BY <1>1
<1> HIDE DEF last
<1>4. CASE CanCatchUp(g, room, from)
  <2>1. from \in 0..g.head /\ CanReplay(room, from) /\ n \in Nat
    BY <1>1, <1>4 DEF CanCatchUp
  <2>2. since = n /\ n <= l
    BY <2>1, OpsCounted
  <2>3. e = [i \in 1..n |-> Echo(log[l - n + i], 0)] \o <<last>>
    BY <1>2, <1>4, <2>2
  <2> DEFINE s == [i \in 1..n |-> Echo(log[l - n + i], 0)]
  <2>4. \A i \in 1..n : l - n + i \in 1..l /\ log[l - n + i].opId = from + i /\ OpTrue(g, log[l - n + i])
    <3>1. ASSUME NEW i \in 1..n PROVE l - n + i \in 1..l /\ g.head - l + (l - n + i) = from + i
      BY <1>1, <2>1, <2>2, CountedBack
    <3> HIDE DEF log, l, n
    <3>2. \A j \in 1..l : log[j].opId = g.head - l + j /\ OpTrue(g, log[j])
      BY <1>1 DEF LogTrue, l
    <3>3. ASSUME NEW i \in 1..n PROVE log[l - n + i].opId = from + i /\ OpTrue(g, log[l - n + i])
      BY <3>1, <3>2
    <3> QED
      BY <3>1, <3>3
  <2> HIDE DEF log, l, e, replay
  <2>5. \A i \in 1..n : /\ s[i].type = "set" /\ s[i].opId = from + i /\ s[i].clientSeq = 0
                        /\ OpTrue(g, s[i])
    BY <2>4 DEF Echo, OpTrue
  <2>6. s \in Seq({Echo(x, 0) : x \in {log[i] : i \in 1..l}}) /\ Len(s) = n
    <3> DEFINE S == {Echo(x, 0) : x \in {log[i] : i \in 1..l}}
    <3>1. s \in [1..n -> S]
      BY <2>4
    <3> HIDE DEF s, S
    <3> QED
      BY <2>1, <3>1 DEF S, s
  <2> HIDE DEF s, n
  <2>7. Len(e) = n + 1 /\ e[n + 1] = last /\ \A i \in 1..n : e[i] = s[i]
    <3> DEFINE S == {Echo(x, 0) : x \in {log[i] : i \in 1..l}} \cup {last}
    <3>1. s \in Seq(S) /\ <<last>> \in Seq(S) /\ Len(<<last>>) = 1 /\ <<last>>[1] = last
      BY <2>6
    <3>2. Behind(s, <<last>>, e)
      BY <2>3, <3>1, AddedMore DEF s
    <3> QED
      BY <2>6, <3>1, <3>2 DEF Behind
  <2>8. IsReplay(g, from, e)
    BY <1>3, <2>1, <2>5, <2>7 DEF IsReplay, n
  <2> QED
    BY <1>4, <2>8 DEF e
<1>5. CASE ~CanCatchUp(g, room, from)
  <2> DEFINE snap == [type |-> "snapshot", opId |-> OpIdHead(room), project |-> room.project]
  <2>1. snap.type = "snapshot" /\ snap.opId = g.head /\ snap.project = g.at[g.head]
    BY <1>1
  <2>2. e = <<snap>> \o <<last>>
    BY <1>2, <1>5
  <2> HIDE DEF snap, e
  <2>3. Len(e) = 2 /\ e[1] = snap /\ e[2] = last
    BY <2>2
  <2>4. IsRefill(g, e)
    BY <1>3, <2>1, <2>3 DEF IsRefill
  <2> QED
    BY <1>5, <2>4 DEF e
<1> QED
  BY <1>4, <1>5

\* e is d with a welcome behind it and what catches the tab up.
Welcomed(g, d, e) ==
  /\ Len(d) \in Nat /\ Len(e) \in Nat /\ Len(d) + 2 <= Len(e)
  /\ \A i \in 1..Len(d) : e[i] = d[i]
  /\ e[Len(d) + 1].type = "welcome"
  /\ \A i \in (Len(d) + 2)..Len(e) :
       /\ e[i].type \in {"set", "snapshot", "complete"} /\ FrameTrue(g, e[i])
       /\ e[i].type = "complete" <=> i = Len(e)
       /\ e[i].type # "set" => e[i].opId = g.head
       /\ e[i].type = "snapshot" => \A j \in i..Len(e) : e[j].type # "set"

Replayed(g, from, d, e) ==
  /\ \A i \in (Len(d) + 2)..Len(e) :
       e[i].type # "snapshot" /\ (e[i].type = "set" => e[i].opId > from /\ e[i].clientSeq = 0)
  /\ \A o \in 1..g.head : from < o => \E i \in (Len(d) + 2)..Len(e) : e[i].type = "set" /\ e[i].opId = o

Refilled(d, e) == Len(d) + 2 \in 1..Len(e) /\ e[Len(d) + 2].type = "snapshot"
                  /\ \A i \in (Len(d) + 2)..Len(e) : e[i].type # "set"

LEMMA HelloAnswered ==
  ASSUME room \in Room, RoomTyped, NEW g, History(g, room), NEW from \in Int, NEW d \in Seq(Reply),
         NEW e, e = d \o <<[type |-> "welcome"]>> \o CatchUp(from)
  PROVE  /\ Welcomed(g, d, e)
         /\ IF CanCatchUp(g, room, from) THEN Replayed(g, from, d, e) ELSE Refilled(d, e)
<1> DEFINE w == [type |-> "welcome"]
           s == CatchUp(from)
           n == Len(d)
<1>1. w \in Reply /\ w.type = "welcome" /\ s \in Seq(Reply)
  BY CatchUpReplies DEF Reply
<1>2. IF CanCatchUp(g, room, from) THEN IsReplay(g, from, s) ELSE IsRefill(g, s)
  BY CatchUpShape
<1> HIDE DEF w, s
<1>3. n \in Nat /\ Len(s) \in Nat /\ g.head \in Nat
  BY <1>1 DEF History
<1>4. Len(e) = n + 1 + Len(s) /\ (\A i \in 1..n : e[i] = d[i]) /\ e[n + 1] = w
      /\ \A j \in 1..Len(s) : e[n + 1 + j] = s[j]
  <2>1. <<w>> \in Seq(Reply) /\ Len(<<w>>) = 1 /\ <<w>>[1] = w /\ d \o <<w>> \in Seq(Reply)
    BY <1>1, ConcatProperties
  <2> DEFINE x == d \o <<w>>
  <2>2. Behind(d, <<w>>, x)
    BY <2>1, AddedMore
  <2>3. e = x \o s
    BY DEF w, s
  <2>4. Behind(x, s, e)
    BY <1>1, <2>1, <2>3, AddedMore
  <2> HIDE DEF x
  <2>5. Len(x) = n + 1 /\ (\A i \in 1..n : x[i] = d[i]) /\ x[n + 1] = w
    BY <2>1, <2>2 DEF Behind
  <2> QED
    BY <1>3, <2>4, <2>5 DEF Behind
<1>5. \A i \in (n + 2)..Len(e) : i - (n + 1) \in 1..Len(s) /\ e[i] = s[i - (n + 1)]
  <2>1. \A i \in (n + 2)..Len(e) : i - (n + 1) \in 1..Len(s) /\ n + 1 + (i - (n + 1)) = i
    BY <1>3, <1>4
  <2> QED
    BY <1>4, <2>1
<1>6. \A j \in 1..Len(s) : n + 1 + j \in (n + 2)..Len(e) /\ n + 1 + j \in 1..Len(e)
  BY <1>3, <1>4
<1>7. CASE CanCatchUp(g, room, from)
  <2> DEFINE k == g.head - from
  <2>1. k \in Nat /\ Len(s) = k + 1 /\ from \in Nat /\ IsReplay(g, from, s)
    BY <1>2, <1>3, <1>7 DEF IsReplay, CanCatchUp
  <2>2. \A j \in 1..k : s[j].type = "set" /\ s[j].opId = from + j /\ s[j].clientSeq = 0 /\ OpTrue(g, s[j])
    BY <2>1 DEF IsReplay
  <2>3. s[k + 1].type = "complete" /\ s[k + 1].opId = g.head
    BY <2>1 DEF IsReplay
  <2>4. \A j \in 1..Len(s) : j \in 1..k \/ j = k + 1
    BY <2>1
  <2>5. ASSUME NEW i \in (n + 2)..Len(e)
        PROVE  /\ e[i].type \in {"set", "complete"} /\ FrameTrue(g, e[i])
               /\ e[i].type = "complete" <=> i = Len(e)
               /\ e[i].type # "set" => e[i].opId = g.head
               /\ e[i].type = "set" => e[i].opId > from /\ e[i].clientSeq = 0
    <3> DEFINE j == i - (n + 1)
    <3>1. j \in 1..Len(s) /\ e[i] = s[j]
      BY <1>5
    <3>2. CASE j \in 1..k
      <4>1. i # Len(e)
        <5>1. i = n + 1 + j
          BY <1>3
        <5>2. Len(e) = n + 1 + Len(s) /\ Len(s) = k + 1 /\ n \in Nat /\ k \in Nat
          BY <1>3, <1>4, <2>1
        <5> HIDE DEF n, k, j
        <5> QED
          BY <3>2, <5>1, <5>2
      <4>2. from + j > from
        BY <2>1, <3>2
      <4> QED
        BY <2>2, <3>1, <3>2, <4>1, <4>2 DEF FrameTrue
    <3>3. CASE j = k + 1
      <4>1. i = Len(e)
        BY <1>3, <1>4, <2>1, <3>3
      <4>2. g.head \in 0..g.head
        BY <1>3
      <4> QED
        BY <2>3, <3>1, <3>3, <4>1, <4>2 DEF FrameTrue
    <3> QED
      BY <2>4, <3>1, <3>2, <3>3
  <2>6. ASSUME NEW o \in 1..g.head, from < o
        PROVE  \E i \in (n + 2)..Len(e) : e[i].type = "set" /\ e[i].opId = o
    <3>1. o - from \in 1..k /\ from + (o - from) = o /\ o - from \in 1..Len(s)
      BY <1>3, <2>1, <2>6
    <3>2. e[n + 1 + (o - from)] = s[o - from] /\ n + 1 + (o - from) \in (n + 2)..Len(e)
      BY <1>4, <1>6, <3>1
    <3>3. s[o - from].type = "set" /\ s[o - from].opId = o
      BY <2>2, <3>1
    <3> QED
      BY <3>2, <3>3, Zenon
  <2>7. Len(e) \in Nat /\ n + 2 <= Len(e)
    <3>1. Len(e) = n + 1 + Len(s) /\ Len(s) = k + 1 /\ k \in Nat
      BY <1>4, <2>1
    <3> HIDE DEF k, n
    <3> QED
      BY <1>3, <3>1
  <2>8. \A i \in (n + 2)..Len(e) :
               /\ e[i].type \in {"set", "snapshot", "complete"} /\ FrameTrue(g, e[i])
               /\ e[i].type = "complete" <=> i = Len(e)
               /\ e[i].type # "set" => e[i].opId = g.head
               /\ e[i].type = "snapshot" => \A j \in i..Len(e) : e[j].type # "set"
    BY <2>5
  <2>9. Welcomed(g, d, e)
    BY <1>1, <1>3, <1>4, <2>7, <2>8, Zenon DEF Welcomed
  <2>10. Replayed(g, from, d, e)
    BY <2>5, <2>6 DEF Replayed
  <2> QED
    BY <1>7, <2>9, <2>10
<1>8. CASE ~CanCatchUp(g, room, from)
  <2>1. /\ Len(s) = 2 /\ s[1].type = "snapshot" /\ s[1].opId = g.head /\ s[1].project = g.at[g.head]
        /\ s[2].type = "complete" /\ s[2].opId = g.head
    BY <1>2, <1>8 DEF IsRefill
  <2>2. Len(e) = n + 3 /\ e[n + 2] = s[1] /\ e[n + 3] = s[2]
    <3>1. 1 \in 1..Len(s) /\ 2 \in 1..Len(s) /\ n + 1 + 1 = n + 2 /\ n + 1 + 2 = n + 3
      BY <1>3, <2>1
    <3> QED
      BY <1>3, <1>4, <2>1, <3>1
  <2>3. \A i \in (n + 2)..Len(e) : i = n + 2 \/ i = n + 3
    BY <1>3, <2>2
  <2>4. g.head \in 0..g.head /\ n + 2 # n + 3 /\ n + 2 <= n + 3 /\ n + 2 \in 1..Len(e)
    BY <1>3, <2>2
  <2>5. FrameTrue(g, s[1]) /\ FrameTrue(g, s[2])
    BY <2>1, <2>4 DEF FrameTrue
  <2>6. \A i \in (n + 2)..Len(e) :
               /\ e[i].type \in {"snapshot", "complete"} /\ FrameTrue(g, e[i])
               /\ e[i].type = "complete" <=> i = Len(e)
               /\ e[i].opId = g.head
    BY <2>1, <2>2, <2>3, <2>4, <2>5
  <2>7. \A i \in (n + 2)..Len(e) : e[i].type # "set"
    BY <2>6
  <2>8. \A i \in (n + 2)..Len(e) : \A j \in i..Len(e) : j \in (n + 2)..Len(e)
    BY <1>3, <2>2
  <2>9. Welcomed(g, d, e)
    <3>1. \A i \in (n + 2)..Len(e) :
               /\ e[i].type \in {"set", "snapshot", "complete"} /\ FrameTrue(g, e[i])
               /\ e[i].type = "complete" <=> i = Len(e)
               /\ e[i].type # "set" => e[i].opId = g.head
               /\ e[i].type = "snapshot" => \A j \in i..Len(e) : e[j].type # "set"
      BY <2>6, <2>7, <2>8
    <3>2. Len(e) \in Nat /\ n + 2 <= Len(e)
      BY <1>3, <2>2
    <3> QED
      BY <1>1, <1>3, <1>4, <3>1, <3>2, Zenon DEF Welcomed
  <2>10. Refilled(d, e)
    BY <2>1, <2>2, <2>4, <2>7 DEF Refilled
  <2> QED
    BY <1>8, <2>9, <2>10
<1> QED
  BY <1>7, <1>8

-----------------------------------------------------------------------------
(* The frames of a tab after each kind of step *)

\* Nothing is on its way to the tab.
LEMMA FramesOfNone ==
  ASSUME NEW g, NEW r, NEW c, NEW u, ~Live(u), \A i \in 1..Len(u.up) : u.up[i].type = "hello",
         u.up = <<>> => u.state = "closed", u.state # "catching-up", ~u.snapshotRequired => u.joined,
         SeqsUsed(r, c, u)
  PROVE  Frames(g, r, c, u, <<>>)
<1>1. Len(<<>>) = 0 /\ 1..0 = {}
  OBVIOUS
<1> DEFINE d == <<>>
<1>2. Sets(d) = {} /\ Marks(d) = {} /\ 1..Len(d) = {}
  BY <1>1 DEF Sets, Marks
<1> HIDE DEF d
<1>3. FramesTrue(g, d) /\ CompletesGoOn(g, d) /\ Divides(g, d)
  BY <1>2 DEF FramesTrue, CompletesGoOn, Divides, NewerBehind, OlderBefore, AllBehind
<1>4. u.state # "live"
  BY DEF Live
<1>5. Phase(u, d)
  BY <1>2, <1>4 DEF Phase, OpsBehindComplete
<1> QED
  BY <1>3, <1>5 DEF Frames, NoGap, d

\* The tab goes on, sending if it is live, and what it has seen is the same.
Onward(t, u) ==
  /\ u.state = t.state /\ u.joined = t.joined /\ u.snapshotRequired = t.snapshotRequired
  /\ u.opIdLastSeen = t.opIdLastSeen /\ t.clientSeq \in Nat /\ u.clientSeq \in Nat
  /\ t.clientSeq <= u.clientSeq /\ (Live(t) \/ u.up = t.up)

LEMMA SeqsUsedLater ==
  ASSUME NEW r \in Room, NEW c, NEW t, NEW u, t.clientSeq \in Nat, u.clientSeq \in Nat, t.clientSeq <= u.clientSeq,
         SeqsUsed(r, c, t)
  PROVE  SeqsUsed(r, c, u)
<1>1. \A op \in r.opIndex : op.clientSeq \in Nat
  BY DEF Room, Op
<1> QED
  BY <1>1 DEF SeqsUsed

LEMMA FramesOnward ==
  ASSUME NEW g, NEW r \in Room, NEW c, NEW t, NEW u, NEW d, Frames(g, r, c, t, d), Onward(t, u), Requesting(u)
  PROVE  Frames(g, r, c, u, d)
<1>1. SeqsUsed(r, c, u)
  BY SeqsUsedLater DEF Frames, Onward
<1>2. CASE Live(t)
  <2>1. Live(u) /\ u.state = "live" /\ t.state = "live" /\ u.joined = t.joined
    BY <1>2 DEF Onward, Live
  <2>2. \A i \in 1..Len(u.up) : u.up[i].type # "hello"
    BY <2>1 DEF Requesting
  <2>3. Phase(u, d)
    BY <1>2, <2>1, <2>2 DEF Phase, Frames, Onward
  <2> QED
    BY <1>1, <1>2, <2>3 DEF Frames, NoGap, Onward
<1>3. CASE ~Live(t)
  <2>1. ~Live(u) /\ u.state = t.state /\ u.up = t.up /\ u.joined = t.joined
        /\ u.snapshotRequired = t.snapshotRequired
    BY <1>3 DEF Onward, Live
  <2>2. Phase(u, d)
    BY <1>3, <2>1 DEF Phase, Frames
  <2> QED
    BY <1>1, <2>1, <2>2 DEF Frames, NoGap
<1> QED
  BY <1>2, <1>3

\* A frame that is no mark behind the others leaves the phase as it is.
LEMMA PhaseAdded ==
  ASSUME NEW t, NEW d, NEW m, NEW e, OneMore(d, m, e), Phase(t, d),
         m.type = "set" \/ (m.type = "nack" /\ Live(t) /\ \A i \in 1..Len(t.up) : t.up[i].type # "hello")
  PROVE  Phase(t, e)
<1> DEFINE n == Len(d) + 1
<1>1. /\ n \in 1..Len(e) /\ e[n] = m
      /\ \A i \in 1..Len(d) : i \in 1..Len(e) /\ e[i] = d[i] /\ i \in Nat /\ i < n
      /\ \A i \in 1..Len(e) : i \in Nat /\ (i \in 1..Len(d) \/ i = n)
  BY OneMoreIndex
<1> HIDE DEF n
<1>2. \A i \in Marks(e) : i \in Marks(d) /\ e[i] = d[i]
  BY <1>1 DEF Marks
<1>3. Live(t) => t.joined /\ \A i \in 1..Len(e) : e[i].type \in {"set", "nack"}
  BY <1>1 DEF Phase
<1>4. \A i \in 1..Len(t.up) : t.up[i].type = "hello" => \A j \in 1..Len(e) : e[j].type = "set"
  BY <1>1 DEF Phase
<1>5. t.state \in {"opening", "catching-up"} /\ t.up = <<>> => \E i \in 1..Len(e) : e[i].type = "complete"
  BY <1>1 DEF Phase
<1>6. \A i \in 1..Len(e) : e[i].type = "complete" => \A j \in 1..Len(e) : i < j => e[j].type = "set"
  <2>1. CASE m.type = "set"
    BY <1>1, <2>1 DEF Phase, OpsBehindComplete
  <2>2. CASE Live(t) /\ m.type = "nack"
    BY <1>3, <2>2
  <2> QED
    BY <2>1, <2>2
<1>7. t.state = "opening" => \A i \in Marks(e) : \E j \in 1..Len(e) : j < i /\ e[j].type = "welcome"
  BY <1>1, <1>2 DEF Phase
<1> QED
  BY <1>3, <1>4, <1>5, <1>6, <1>7 DEF Phase, OpsBehindComplete

\* The room's next op behind the others.
LEMMA FramesNew ==
  ASSUME NEW g, NEW h, Later(g, h), h.head = g.head + 1, NEW r, NEW s, NEW c, NEW t, t.opIdLastSeen \in Int,
         NEW d \in Seq(Reply), NEW m, NEW e, OneMore(d, m, e), Frames(g, r, c, t, d),
         m.type = "set", m.opId = h.head, OpTrue(h, m), SeqsUsed(s, c, t)
  PROVE  Frames(h, s, c, t, e)
<1>1. Numbered(d) /\ g.head \in Nat /\ h.head \in Nat
  BY AreNumbered DEF Later
<1>2. FramesTrue(h, e)
  <2>1. FramesTrue(h, d)
    BY TrueLater DEF Frames
  <2>2. FrameTrue(h, m)
    BY DEF FrameTrue
  <2> QED
    BY <2>1, <2>2, FramesAdded
<1>3. Phase(t, e)
  BY PhaseAdded DEF Frames
<1>4. Divides(h, e)
  BY <1>1, DividesNew DEF Frames
<1>5. CompletesGoOn(h, e)
  <2>1. ASSUME NEW i \in 1..Len(e), e[i].type = "complete" PROVE GoesOn(e, i, e[i].opId, h.head)
    <3>1. i \in 1..Len(d) /\ e[i] = d[i] /\ i \in 0..Len(d)
      <4>1. i \in 1..Len(d) \/ i = Len(d) + 1
        BY OneMoreIndex
      <4>2. i \in 1..Len(d) /\ e[i] = d[i]
        BY <2>1, <4>1, OneMoreIndex
      <4> QED
        BY <4>2
    <3>2. GoesOn(d, i, e[i].opId, g.head) /\ e[i].opId \in Int
      BY <1>1, <2>1, <3>1 DEF Frames, NoGap, CompletesGoOn, Numbered
    <3> QED
      BY <1>1, <3>1, <3>2, GoesOnFurther
  <2> QED
    BY <2>1 DEF CompletesGoOn
<1>6. Live(t) => GoesOn(e, 0, t.opIdLastSeen, h.head)
  <2>1. 0 \in 0..Len(d)
    BY DEF OneMore
  <2>2. Live(t) => GoesOn(d, 0, t.opIdLastSeen, g.head)
    BY DEF Frames, NoGap
  <2> QED
    BY <1>1, <2>1, <2>2, GoesOnFurther
<1> QED
  BY <1>2, <1>3, <1>4, <1>5, <1>6 DEF Frames, NoGap

\* An old op or a nack, to a live tab.
LEMMA FramesAnswered ==
  ASSUME NEW g, g.head \in Nat, NEW r, NEW c, NEW t, t.opIdLastSeen \in Int, Live(t), Requesting(t),
         NEW d \in Seq(Reply), NEW m, NEW e, OneMore(d, m, e), Frames(g, r, c, t, d),
         m.type = "nack" \/ (m.type = "set" /\ OpTrue(g, m))
  PROVE  Frames(g, r, c, t, e)
<1>1. Numbered(d) /\ t.state = "live"
  BY AreNumbered DEF Live
<1>2. FramesTrue(g, e)
  <2>1. FrameTrue(g, m)
    BY DEF FrameTrue
  <2> QED
    BY <2>1, FramesAdded DEF Frames
<1>3. Phase(t, e)
  <2>1. \A i \in 1..Len(t.up) : t.up[i].type # "hello"
    BY <1>1 DEF Requesting
  <2> QED
    BY <2>1, PhaseAdded DEF Frames
<1>4. \A i \in 1..Len(e) : e[i].type \in {"set", "nack"}
  BY <1>3 DEF Phase
<1>5. Divides(g, e) /\ CompletesGoOn(g, e)
  BY <1>4 DEF Divides, NewerBehind, OlderBefore, AllBehind, CompletesGoOn, Marks
<1>6. GoesOn(e, 0, t.opIdLastSeen, g.head)
  <2>1. 0 \in 0..Len(d) /\ GoesOn(d, 0, t.opIdLastSeen, g.head)
    BY DEF OneMore, Frames, NoGap
  <2>2. m.type = "set" => m.opId \in Int /\ m.opId <= g.head
    BY DEF OpTrue
  <2> QED
    BY <1>1, <2>1, <2>2, GoesOnFurther
<1> QED
  BY <1>2, <1>3, <1>5, <1>6 DEF Frames, NoGap

\* The hello is answered.
LEMMA FramesWelcomed ==
  ASSUME NEW g, g.head \in Nat, NEW r, NEW c, NEW t, NEW u, NEW d, NEW e,
         Frames(g, r, c, t, d), \A i \in 1..Len(d) : d[i].type = "set", Welcomed(g, d, e),
         u.state = "opening", u.up = <<>>, u.joined = t.joined, u.snapshotRequired = t.snapshotRequired,
         u.clientSeq = t.clientSeq
  PROVE  Frames(g, r, c, u, e)
<1> DEFINE n == Len(d)
           l == Len(e)
<1>1. n \in Nat /\ l \in Nat /\ n + 2 <= l /\ l \in 1..l
      /\ \A i \in 1..n : i \in Nat /\ e[i] = d[i] /\ e[i].type = "set"
  BY DEF Welcomed
<1>2. \A i \in 1..l : i \in 1..n \/ i = n + 1 \/ i \in (n + 2)..l
  BY <1>1
<1>3. \A i \in (n + 2)..l :
        /\ e[i].type \in {"set", "snapshot", "complete"} /\ FrameTrue(g, e[i])
        /\ e[i].type = "complete" <=> i = l
        /\ e[i].type # "set" => e[i].opId = g.head
        /\ e[i].type = "snapshot" => \A j \in i..l : e[j].type # "set"
  BY DEF Welcomed
<1>4. e[n + 1].type = "welcome" /\ n + 1 \in 1..l
  BY <1>1 DEF Welcomed
<1> HIDE DEF n, l
<1>5. e[l].type = "complete" /\ l \in (n + 2)..l
  BY <1>1, <1>3
<1>6. \A i \in Marks(e) : i \in (n + 2)..l /\ e[i].opId = g.head /\ \A j \in Sets(e) : ~(i < j)
  <2>1. ASSUME NEW i \in Marks(e) PROVE i \in (n + 2)..l /\ e[i].opId = g.head /\ \A j \in Sets(e) : ~(i < j)
    <3>1. i \in 1..l /\ e[i].type \in {"snapshot", "complete"}
      BY DEF Marks, l
    <3>2. i \in (n + 2)..l
      BY <1>1, <1>2, <1>4, <3>1
    <3>3. ASSUME NEW j \in Sets(e), i < j PROVE FALSE
      <4>1. j \in 1..l /\ e[j].type = "set" /\ j \in i..l
        BY <1>1, <3>2, <3>3 DEF Sets, l
      <4>2. e[i].type # "snapshot"
        BY <1>3, <3>2, <4>1
      <4>3. i = l
        BY <1>3, <3>1, <3>2, <4>2
      <4> QED
        BY <1>1, <3>3, <4>1, <4>3
    <3> QED
      BY <1>3, <3>1, <3>2, <3>3
  <2> QED
    BY <2>1
<1>7. FramesTrue(g, e)
  <2>1. ASSUME NEW i \in 1..l PROVE FrameTrue(g, e[i])
    <3>1. CASE i \in 1..n
      BY <1>1, <3>1 DEF Frames, FramesTrue, n
    <3>2. CASE i = n + 1
      BY <1>4, <3>2 DEF FrameTrue
    <3> QED
      BY <1>2, <1>3, <3>1, <3>2
  <2> QED
    BY <2>1 DEF FramesTrue, l
<1>8. Phase(u, e)
  <2>1. ~Live(u) /\ (\A i \in 1..Len(u.up) : FALSE) /\ u.state # "catching-up"
    BY DEF Live
  <2>2. ~u.snapshotRequired => u.joined
    BY DEF Frames, Phase
  <2>3. \A i \in 1..l : e[i].type = "complete" => i = l
    BY <1>1, <1>2, <1>3, <1>4
  <2>4. \A i \in Marks(e) : n + 1 < i
    BY <1>1, <1>6
  <2>5. \A j \in 1..l : ~(l < j)
    BY <1>1
  <2> QED
    BY <1>1, <1>4, <1>5, <2>1, <2>2, <2>3, <2>4, <2>5 DEF Phase, OpsBehindComplete, l
<1>9. CompletesGoOn(g, e)
  <2>1. ASSUME NEW i \in 1..l, e[i].type = "complete" PROVE GoesOn(e, i, e[i].opId, g.head)
    <3>1. i \in Marks(e)
      BY <2>1 DEF Marks, l
    <3>2. e[i].opId = g.head /\ \A j \in Sets(e) : ~(i < j)
      BY <1>6, <3>1
    <3>3. g.head <= g.head
      OBVIOUS
    <3> QED
      BY <3>2, <3>3, Zenon DEF GoesOn, GetsTo
  <2> QED
    BY <2>1 DEF CompletesGoOn, l
<1>10. Divides(g, e)
  <2>1. NewerBehind(e)
    BY <1>6, Zenon DEF NewerBehind
  <2>2. OlderBefore(e)
    <3>1. ASSUME NEW i \in Marks(e), NEW j \in 1..l, e[j].type \in {"set", "snapshot"}
          PROVE  e[j].opId <= e[i].opId
      <4>1. FrameTrue(g, e[j])
        BY <1>7 DEF FramesTrue, l
      <4>2. e[j].opId <= g.head
        BY <3>1, <4>1 DEF FrameTrue, OpTrue
      <4> QED
        BY <1>6, <4>2
    <3> QED
      BY <3>1 DEF OlderBefore, l
  <2>3. AllBehind(g, e)
    <3>1. ASSUME NEW i \in 1..l, e[i].type = "snapshot" PROVE \A o \in 1..g.head : ~(e[i].opId < o)
      <4>1. i \in Marks(e)
        BY <3>1 DEF Marks, l
      <4> QED
        BY <1>6, <4>1
    <3> QED
      BY <3>1 DEF AllBehind, l
  <2> QED
    BY <2>1, <2>2, <2>3 DEF Divides
<1>11. SeqsUsed(r, c, u)
  BY DEF Frames, SeqsUsed
<1>12. ~Live(u)
  BY DEF Live
<1> QED
  BY <1>7, <1>8, <1>9, <1>10, <1>11, <1>12 DEF Frames, NoGap

\* The first frame is taken, and it is none that changes the state of the connection.
LEMMA PhaseTaken ==
  ASSUME NEW t, NEW u, NEW d, NEW e, OneLess(d, e), Phase(t, d), d[1].type \in {"set", "snapshot", "nack"},
         u.state = t.state, u.up = t.up, u.joined = t.joined, ~u.snapshotRequired => u.joined
  PROVE  Phase(u, e)
<1>0. OpsBehindComplete(d)
  BY DEF Phase
<1>1. /\ \A i \in 1..Len(e) : i + 1 \in 1..Len(d) /\ e[i] = d[i + 1] /\ i \in Nat
      /\ \A i \in Marks(e) : i + 1 \in Marks(d) /\ e[i] = d[i + 1] /\ i \in Nat
      /\ \A i \in 1..Len(d) : i # 1 => i - 1 \in 1..Len(e) /\ e[i - 1] = d[i] /\ i \in Nat
  <2>1. \A i \in 1..Len(d) : i # 1 => i - 1 \in 1..Len(e) /\ e[i - 1] = d[i] /\ i \in Nat
    <3>1. ASSUME NEW i \in 1..Len(d), i # 1 PROVE i - 1 \in 1..Len(e) /\ (i - 1) + 1 = i /\ i \in Nat
      BY <3>1 DEF OneLess
    <3> QED
      BY <3>1 DEF OneLess
  <2> QED
    BY <2>1, SetsMoved
<1>2. Live(u) <=> Live(t)
  BY DEF Live
<1>3. Live(u) => u.joined /\ \A i \in 1..Len(e) : e[i].type \in {"set", "nack"}
  <2>1. Live(t) => t.joined /\ \A i \in 1..Len(d) : d[i].type \in {"set", "nack"}
    BY DEF Phase
  <2>2. ASSUME Live(u), NEW i \in 1..Len(e) PROVE e[i].type \in {"set", "nack"}
    <3>1. i + 1 \in 1..Len(d) /\ e[i] = d[i + 1]
      BY <1>1
    <3> QED
      BY <1>2, <2>1, <2>2, <3>1, Zenon
  <2> QED
    BY <1>2, <2>1, <2>2
<1>4. ASSUME NEW i \in 1..Len(u.up), u.up[i].type = "hello", NEW j \in 1..Len(e) PROVE e[j].type = "set"
  <2>1. \A k \in 1..Len(d) : d[k].type = "set"
    BY <1>4 DEF Phase
  <2>2. j + 1 \in 1..Len(d) /\ e[j] = d[j + 1]
    BY <1>1
  <2> QED
    BY <2>1, <2>2, Zenon
<1>5. u.state \in {"opening", "catching-up"} /\ u.up = <<>> => \E i \in 1..Len(e) : e[i].type = "complete"
  <2>1. ASSUME u.state \in {"opening", "catching-up"}, u.up = <<>> PROVE \E i \in 1..Len(e) : e[i].type = "complete"
    <3>1. PICK i \in 1..Len(d) : d[i].type = "complete"
      BY <2>1 DEF Phase
    <3>2. i # 1
      BY <3>1
    <3> QED
      BY <1>1, <3>1, <3>2
  <2> QED
    BY <2>1
<1>6. OpsBehindComplete(e)
  <2>1. ASSUME NEW i \in 1..Len(e), e[i].type = "complete", NEW j \in 1..Len(e), i < j PROVE e[j].type = "set"
    <3>1. i + 1 \in 1..Len(d) /\ j + 1 \in 1..Len(d) /\ i + 1 < j + 1 /\ e[i] = d[i + 1] /\ e[j] = d[j + 1]
      BY <1>1, <2>1
    <3> QED
      BY <1>0, <2>1, <3>1, Zenon DEF OpsBehindComplete
  <2> QED
    BY <2>1 DEF OpsBehindComplete
<1>7. u.state = "opening" => \A i \in Marks(e) : \E j \in 1..Len(e) : j < i /\ e[j].type = "welcome"
  <2>1. ASSUME u.state = "opening", NEW i \in Marks(e) PROVE \E j \in 1..Len(e) : j < i /\ e[j].type = "welcome"
    <3>1. i + 1 \in Marks(d) /\ i \in Nat
      BY <1>1
    <3>2. PICK j \in 1..Len(d) : j < i + 1 /\ d[j].type = "welcome"
      BY <2>1, <3>1, Zenon DEF Phase
    <3>3. j # 1
      BY <3>2
    <3>4. j - 1 \in 1..Len(e) /\ e[j - 1] = d[j] /\ j - 1 < i
      BY <1>1, <3>1, <3>2, <3>3
    <3> QED
      BY <3>2, <3>4, Zenon
  <2> QED
    BY <2>1
<1>8. ~Live(u) => \A i \in 1..Len(u.up) : u.up[i].type = "hello"
  BY <1>2 DEF Phase
<1>9. u.state = "catching-up" => u.joined
  BY DEF Phase
<1> QED
  BY <1>3, <1>4, <1>5, <1>6, <1>7, <1>8, <1>9 DEF Phase

\* What the others have in common once the first frame is taken.
LEMMA FramesLess ==
  ASSUME NEW g, g.head \in Nat, NEW r, NEW c, NEW t, NEW d \in Seq(Reply), NEW e, OneLess(d, e), Frames(g, r, c, t, d)
  PROVE  FramesTrue(g, e) /\ CompletesGoOn(g, e) /\ Divides(g, e) /\ SeqsUsed(r, c, t) /\ FrameTrue(g, d[1])
         /\ Numbered(d) /\ 1 \in 1..Len(d)
<1>1. Numbered(d)
  BY AreNumbered
<1> QED
  BY <1>1, FramesTaken, CompletesTaken, DividesTaken, SetsMoved DEF Frames, NoGap

LEMMA FramesReceived ==
  ASSUME NEW g, g.head \in Nat, NEW r \in Room, NEW c, NEW t, NEW u, NEW d \in Seq(Reply), NEW e, OneLess(d, e),
         Frames(g, r, c, t, d), d[1].type \in {"set", "snapshot", "nack"},
         u.state = t.state, u.up = t.up, u.joined = t.joined, u.clientSeq = t.clientSeq,
         ~u.snapshotRequired => u.joined, t.opIdLastSeen \in Int,
         u.opIdLastSeen = (IF d[1].type = "set" /\ t.joined /\ d[1].opId > t.opIdLastSeen THEN d[1].opId
                           ELSE t.opIdLastSeen) \/ ~Live(t)
  PROVE  Frames(g, r, c, u, e)
<1>1. /\ FramesTrue(g, e) /\ CompletesGoOn(g, e) /\ Divides(g, e) /\ SeqsUsed(r, c, u)
      /\ Numbered(d) /\ 1 \in 1..Len(d)
  BY FramesLess DEF SeqsUsed
<1>2. Phase(u, e)
  BY PhaseTaken DEF Frames
<1>3. ASSUME Live(u) PROVE GoesOn(e, 0, u.opIdLastSeen, g.head)
  <2>1. Live(t) /\ t.joined /\ GoesOn(d, 0, t.opIdLastSeen, g.head)
    BY <1>3 DEF Live, Frames, NoGap, Phase
  <2>2. CASE d[1].type = "set"
    <3>1. GoesOn(e, 0, IF d[1].opId > t.opIdLastSeen THEN d[1].opId ELSE t.opIdLastSeen, g.head)
      BY <1>1, <2>1, <2>2, GoesOnTaken
    <3> QED
      BY <2>1, <2>2, <3>1
  <2>3. CASE d[1].type # "set"
    <3>1. GoesOn(e, 0, t.opIdLastSeen, g.head)
      BY <1>1, <2>1, <2>3, GoesOnTaken
    <3> QED
      BY <2>1, <2>3, <3>1
  <2> QED
    BY <2>2, <2>3
<1> QED
  BY <1>1, <1>2, <1>3 DEF Frames, NoGap

\* A welcome is taken.
LEMMA FramesJoined ==
  ASSUME NEW g, g.head \in Nat, NEW r \in Room, NEW c, NEW t \in Tab, NEW u, NEW d \in Seq(Reply), NEW e, OneLess(d, e),
         Frames(g, r, c, t, d), d[1].type = "welcome", t.state \notin {"closed", "live"},
         u.state = "catching-up", u.up = t.up, u.joined, u.clientSeq = t.clientSeq
  PROVE  Frames(g, r, c, u, e)
<1>0. OpsBehindComplete(d)
  BY DEF Phase, Frames
<1>1. FramesTrue(g, e) /\ CompletesGoOn(g, e) /\ Divides(g, e) /\ SeqsUsed(r, c, u) /\ 1 \in 1..Len(d)
  BY FramesLess DEF SeqsUsed
<1>2. /\ \A i \in 1..Len(e) : i + 1 \in 1..Len(d) /\ e[i] = d[i + 1] /\ i \in Nat
      /\ \A i \in 1..Len(d) : i # 1 => i - 1 \in 1..Len(e) /\ e[i - 1] = d[i] /\ i \in Nat
  <2>1. \A i \in 1..Len(d) : i # 1 => i - 1 \in 1..Len(e) /\ e[i - 1] = d[i] /\ i \in Nat
    <3>1. ASSUME NEW i \in 1..Len(d), i # 1 PROVE i - 1 \in 1..Len(e) /\ (i - 1) + 1 = i /\ i \in Nat
      BY <3>1 DEF OneLess
    <3> QED
      BY <3>1 DEF OneLess
  <2> QED
    BY <2>1, SetsMoved
<1>3. t.state \in {"opening", "catching-up"} /\ ~Live(t) /\ ~Live(u)
  BY DEF Tab, Live
<1>4. \A i \in 1..Len(u.up) : u.up[i].type = "hello" => \A j \in 1..Len(e) : e[j].type = "set"
  <2>1. \A i \in 1..Len(t.up) : t.up[i].type = "hello" => \A j \in 1..Len(d) : d[j].type = "set"
    BY DEF Phase, Frames
  <2> QED
    BY <1>2, <2>1
<1>5. u.up = <<>> => \E i \in 1..Len(e) : e[i].type = "complete"
  <2>1. ASSUME u.up = <<>> PROVE \E i \in 1..Len(e) : e[i].type = "complete"
    <3>1. PICK i \in 1..Len(d) : d[i].type = "complete"
      BY <1>3, <2>1 DEF Phase, Frames
    <3>2. i # 1
      BY <3>1
    <3> QED
      BY <1>2, <3>1, <3>2
  <2> QED
    BY <2>1
<1>6. OpsBehindComplete(e)
  <2>1. ASSUME NEW i \in 1..Len(e), e[i].type = "complete", NEW j \in 1..Len(e), i < j PROVE e[j].type = "set"
    <3>1. i + 1 \in 1..Len(d) /\ j + 1 \in 1..Len(d) /\ i + 1 < j + 1 /\ e[i] = d[i + 1] /\ e[j] = d[j + 1]
      BY <1>2, <2>1
    <3> QED
      BY <1>0, <2>1, <3>1, Zenon DEF OpsBehindComplete
  <2> QED
    BY <2>1 DEF OpsBehindComplete
<1>7. \A i \in 1..Len(u.up) : u.up[i].type = "hello"
  BY <1>3 DEF Phase, Frames
<1>8. Phase(u, e)
  BY <1>3, <1>4, <1>5, <1>6, <1>7 DEF Phase
<1> QED
  BY <1>1, <1>3, <1>8 DEF Frames, NoGap

\* A sync.complete is taken: what is behind it is ops.
LEMMA FramesCompleted ==
  ASSUME NEW g, g.head \in Nat, NEW r \in Room, NEW c, NEW t \in Tab, NEW u, NEW d \in Seq(Reply), NEW e, OneLess(d, e),
         Frames(g, r, c, t, d), d[1].type = "complete", t.state # "closed",
         u.state = "live", u.joined = t.joined, Requesting(u),
         u.clientSeq \in Nat, t.clientSeq <= u.clientSeq, u.opIdLastSeen \in Int, d[1].opId <= u.opIdLastSeen
  PROVE  Frames(g, r, c, u, e) /\ t.state = "catching-up" /\ t.joined /\ \A i \in 1..Len(e) : e[i].type = "set"
<1>0. OpsBehindComplete(d)
  BY DEF Phase, Frames
<1>1. /\ FramesTrue(g, e) /\ CompletesGoOn(g, e) /\ Divides(g, e) /\ SeqsUsed(r, c, t) /\ FrameTrue(g, d[1])
      /\ Numbered(d) /\ 1 \in 1..Len(d)
  BY FramesLess
<1>2. \A i \in 1..Len(e) : e[i].type = "set"
  <2>1. ASSUME NEW i \in 1..Len(e) PROVE e[i].type = "set"
    <3>1. i + 1 \in 1..Len(d) /\ e[i] = d[i + 1] /\ 1 < i + 1
      <4>1. i + 1 \in 1..Len(d) /\ e[i] = d[i + 1]
        BY SetsMoved
      <4> QED
        BY <4>1
    <3> QED
      BY <1>0, <1>1, <3>1, Zenon DEF OpsBehindComplete
  <2> QED
    BY <2>1
<1>3. t.state = "catching-up" /\ t.joined
  <2>1. t.state # "live"
    BY <1>1 DEF Phase, Frames, Live
  <2>2. t.state # "opening"
    <3>1. 1 \in Marks(d) /\ ~\E j \in 1..Len(d) : j < 1
      BY <1>1 DEF Marks
    <3> QED
      BY <3>1 DEF Phase, Frames
  <2> QED
    BY <2>1, <2>2 DEF Tab, Phase, Frames
<1>4. t.clientSeq \in Nat
  BY DEF Tab
<1>5. SeqsUsed(r, c, u)
  BY <1>1, <1>4, SeqsUsedLater
<1>6. Phase(u, e)
  <2>1. \A i \in 1..Len(u.up) : u.up[i].type # "hello"
    BY DEF Requesting
  <2> QED
    BY <1>2, <1>3, <2>1 DEF Phase, OpsBehindComplete, Live
<1>7. GoesOn(e, 0, u.opIdLastSeen, g.head)
  <2>1. GoesOn(d, 1, d[1].opId, g.head) /\ d[1].opId \in Int
    BY <1>1 DEF Frames, NoGap, CompletesGoOn, Numbered
  <2>2. GoesOn(e, 0, d[1].opId, g.head)
    <3>1. GoesOn(e, 1 - 1, d[1].opId, g.head)
      BY <1>1, <2>1, GoesOnTaken
    <3> QED
      BY <3>1
  <2>3. Numbered(e)
    <3>1. \A i \in 1..Len(e) : i + 1 \in 1..Len(d) /\ e[i] = d[i + 1]
      BY SetsMoved
    <3> QED
      BY <1>1, <3>1 DEF Numbered
  <2> QED
    BY <2>1, <2>2, <2>3, GoesOnLater
<1> QED
  BY <1>1, <1>2, <1>3, <1>5, <1>6, <1>7 DEF Frames, NoGap

-----------------------------------------------------------------------------
(* What has been seen, as a tab sends *)

LEMMA AsksSame ==
  ASSUME NEW t, NEW u, Onward(t, u), Requesting(t), Requesting(u)
  PROVE  (Asks(u) <=> Asks(t)) /\ (Asks(t) => From(u) = From(t))
<1>1. CASE Live(t)
  <2>1. t.state = "live" /\ u.state = "live"
    BY <1>1 DEF Live, Onward
  <2>2. ~Asks(t) /\ ~Asks(u)
    BY <2>1 DEF Asks, Requesting
  <2> QED
    BY <2>2
<1>2. CASE ~Live(t)
  <2>1. u.state = t.state /\ u.up = t.up /\ ResumeFrom(u) = ResumeFrom(t)
    BY <1>2 DEF Onward, ResumeFrom
  <2> QED
    BY <2>1 DEF Asks, From
<1> QED
  BY <1>1, <1>2

LEMMA AheadSame ==
  ASSUME NEW t, NEW u, Asks(u) <=> Asks(t), Asks(t) => From(u) = From(t), NEW g, NEW r, NEW d
  PROVE  /\ OpsAhead(g, r, u, d) = OpsAhead(g, r, t, d)
         /\ SnapshotAhead(g, r, u, d) <=> SnapshotAhead(g, r, t, d)
<1>1. Replays(g, r, u) <=> Replays(g, r, t)
  BY DEF Replays
<1>2. Replays(g, r, t) => From(u) = From(t)
  BY DEF Replays
<1>3. \A o : Replays(g, r, u) /\ From(u) < o <=> Replays(g, r, t) /\ From(t) < o
  BY <1>1, <1>2
<1> QED
  BY <1>1, <1>3, Zenon DEF OpsAhead, SnapshotAhead

\* u shows what t does, but for edits of its own.
ShowsAs(t, u) ==
  /\ u.lastApplied = t.lastApplied
  /\ \A p \in Path : HasPending(u, p) \/ (~HasPending(t, p) /\ u.project[p] = t.project[p])

LEMMA ShowsStill ==
  ASSUME NEW t, NEW u, ShowsAs(t, u), NEW g, NEW A, NEW k
  PROVE  (Shows(g, t, A, k) => Shows(g, u, A, k)) /\ (Covers(g, t, A, k) => Covers(g, u, A, k))
<1>1. \A p : Upto(u, p, k) = Upto(t, p, k)
  BY DEF ShowsAs, Upto
<1>2. Covers(g, t, A, k) => Covers(g, u, A, k)
  BY DEF ShowsAs, Covers
<1>3. ASSUME Shows(g, t, A, k) PROVE Shows(g, u, A, k)
  <2>1. \A p \in Path : HasPending(u, p) \/ u.project[p] = g.at[Upto(u, p, k)][p]
    BY <1>1, <1>3, Zenon DEF ShowsAs, Shows
  <2>2. \A o \in A : o <= u.lastApplied[g.path[o]] \/ k < o
    BY <1>3 DEF ShowsAs, Shows
  <2> QED
    BY <2>1, <2>2 DEF Shows
<1> QED
  BY <1>2, <1>3

\* What u tracks and sends is what t did, or under clientSeqs t has not used yet.
Outward(t, u) ==
  /\ ShowsAs(t, u)
  /\ \A e \in u.inFlight : t.clientSeq < e.seq \/ \E f \in t.inFlight : f.seq = e.seq /\ f.path = e.path
  /\ \A i \in 1..Len(u.up) : u.up[i].type = "set" =>
       \/ t.clientSeq < u.up[i].clientSeq
       \/ \E f \in t.inFlight : f.seq = u.up[i].clientSeq
       \/ \E j \in 1..Len(t.up) : t.up[j].type = "set" /\ t.up[j].clientSeq = u.up[i].clientSeq

\* No frame on its way to t has a clientSeq it has not used.
SeqsKnown(t, d) == \A i \in Sets(d) : d[i].clientSeq <= t.clientSeq /\ d[i].clientSeq \in Nat

LEMMA EchoesOutward ==
  ASSUME NEW t \in Tab, NEW u \in Tab, NEW d, Outward(t, u), u.opIdLastSeen = t.opIdLastSeen,
         SeqsKnown(t, d), Echoes(t, d)
  PROVE  Echoes(u, d)
<1>1. ASSUME NEW e \in u.inFlight, NEW i \in Sets(d), d[i].clientSeq = e.seq
      PROVE  /\ d[i].path = e.path /\ d[i].opId > u.opIdLastSeen
             /\ \A j \in Sets(d) : d[j].opId = d[i].opId => d[j].clientSeq = e.seq
  <2>1. e.seq \in Nat /\ t.clientSeq \in Nat
    BY DEF Tab, Sent
  <2>2. ~(t.clientSeq < e.seq)
    BY <1>1, <2>1 DEF SeqsKnown
  <2>3. PICK f \in t.inFlight : f.seq = e.seq /\ f.path = e.path
    BY <2>2 DEF Outward
  <2> QED
    BY <1>1, <2>3, Zenon DEF Echoes
<1> QED
  BY <1>1, Zenon DEF Echoes

LEMMA ResendsOutward ==
  ASSUME NEW t \in Tab, NEW u \in Tab, NEW d, Outward(t, u), NEW r \in Room, NEW c,
         SeqsUsed(r, c, t), Resends(r, c, t, d)
  PROVE  Resends(r, c, u, d)
<1> SUFFICES ASSUME NEW op \in r.opIndex, op.clientId = c
             PROVE  /\ \A i \in 1..Len(u.up) : u.up[i].type = "set" /\ u.up[i].clientSeq = op.clientSeq =>
                         op.opId <= u.lastApplied[op.path] \/ EchoAhead(d, op)
                    /\ \A e \in u.inFlight : e.seq = op.clientSeq => op.path = e.path /\ EchoAhead(d, op)
  BY Zenon DEF Resends
<1>1. op.clientSeq \in Nat /\ t.clientSeq \in Nat /\ op.clientSeq <= t.clientSeq
  BY DEF Room, Op, Tab, SeqsUsed
<1>2. ~(t.clientSeq < op.clientSeq)
  BY <1>1
<1>3. /\ \A i \in 1..Len(t.up) : t.up[i].type = "set" /\ t.up[i].clientSeq = op.clientSeq =>
           op.opId <= t.lastApplied[op.path] \/ EchoAhead(d, op)
      /\ \A e \in t.inFlight : e.seq = op.clientSeq => op.path = e.path /\ EchoAhead(d, op)
  BY Zenon DEF Resends
<1>4. u.lastApplied = t.lastApplied
  BY DEF Outward, ShowsAs
<1>5. ASSUME NEW i \in 1..Len(u.up), u.up[i].type = "set", u.up[i].clientSeq = op.clientSeq
      PROVE  op.opId <= u.lastApplied[op.path] \/ EchoAhead(d, op)
  <2>1. \/ \E f \in t.inFlight : f.seq = op.clientSeq
        \/ \E j \in 1..Len(t.up) : t.up[j].type = "set" /\ t.up[j].clientSeq = op.clientSeq
    BY <1>2, <1>5, Zenon DEF Outward
  <2> QED
    BY <1>3, <1>4, <2>1, Zenon
<1>6. ASSUME NEW e \in u.inFlight, e.seq = op.clientSeq PROVE op.path = e.path /\ EchoAhead(d, op)
  <2>1. \E f \in t.inFlight : f.seq = e.seq /\ f.path = e.path
    BY <1>2, <1>6, Zenon DEF Outward
  <2> QED
    BY <1>3, <1>6, <2>1, Zenon
<1> QED
  BY <1>5, <1>6

LEMMA SeenStill ==
  ASSUME NEW g, NEW r \in Room, NEW c, NEW t \in Tab, NEW u \in Tab, NEW d, NEW gap, Seen(g, r, c, t, d, gap),
         u.opIdLastSeen = t.opIdLastSeen, u.snapshotRequired = t.snapshotRequired,
         Asks(u) <=> Asks(t), Asks(t) => From(u) = From(t),
         Outward(t, u), SeqsUsed(r, c, t), SeqsKnown(t, d)
  PROVE  Seen(g, r, c, u, d, gap)
<1>1. /\ OpsAhead(g, r, u, d) = OpsAhead(g, r, t, d)
      /\ SnapshotAhead(g, r, u, d) <=> SnapshotAhead(g, r, t, d)
  BY AheadSame
<1>2. u.lastApplied = t.lastApplied
  BY DEF Outward, ShowsAs
<1>3. Placed(g, u, d)
  BY <1>2 DEF Placed, Seen
<1>4. \A k : At(g, r, t, d, k) => At(g, r, u, d, k)
  BY <1>1, ShowsStill, Zenon DEF At, Outward
<1>5. Reaches(g, r, t, d, gap) => Reaches(g, r, u, d, gap)
  BY <1>4, Zenon DEF Reaches
<1>6. Echoes(u, d) /\ Resends(r, c, u, d)
  BY EchoesOutward, ResendsOutward DEF Seen
<1> QED
  BY <1>1, <1>3, <1>5, <1>6 DEF Seen

LEMMA SeenOnward ==
  ASSUME NEW g, NEW r \in Room, NEW c, NEW t \in Tab, NEW u \in Tab, NEW d, NEW gap, Seen(g, r, c, t, d, gap),
         Onward(t, u), Outward(t, u), Requesting(t), Requesting(u), SeqsUsed(r, c, t), SeqsKnown(t, d)
  PROVE  Seen(g, r, c, u, d, gap)
<1>1. (Asks(u) <=> Asks(t)) /\ (Asks(t) => From(u) = From(t))
  BY AsksSame
<1> QED
  BY <1>1, SeenStill DEF Onward

-----------------------------------------------------------------------------
(* What has been seen, as entries go out *)

Flows(t, entries, u) ==
  /\ u.state = t.state /\ u.joined = t.joined /\ u.snapshotRequired = t.snapshotRequired
  /\ u.opIdLastSeen = t.opIdLastSeen /\ u.lastApplied = t.lastApplied /\ u.project = t.project
  /\ t.clientSeq \in Nat /\ u.clientSeq \in Nat /\ t.clientSeq <= u.clientSeq /\ (Live(t) \/ u.up = t.up)
  /\ \A e \in u.inFlight : e \in t.inFlight \/ t.clientSeq < e.seq
  /\ \A i \in 1..Len(u.up) : u.up[i].type = "set" =>
       t.clientSeq < u.up[i].clientSeq \/ \E j \in 1..Len(t.up) : t.up[j] = u.up[i]
  /\ \A p \in Path : HasPending(t, p) \/ entries[p] # None => HasPending(u, p)

LEMMA QueuedFlows ==
  ASSUME NEW t \in Tab, NEW entries \in [Path -> MaybeEntry], NEW u, u = QueuedIn(t, entries)
  PROVE  Flows(t, entries, u)
<1>1. /\ u.state = t.state /\ u.joined = t.joined /\ u.snapshotRequired = t.snapshotRequired
      /\ u.opIdLastSeen = t.opIdLastSeen /\ u.lastApplied = t.lastApplied /\ u.project = t.project
      /\ u.clientSeq = t.clientSeq /\ u.up = t.up /\ u.inFlight = t.inFlight
      /\ u.pending = [p \in Path |-> IF entries[p] # None THEN None ELSE t.pending[p]]
      /\ u.offline = [p \in Path |-> IF entries[p] # None THEN entries[p] ELSE t.offline[p]]
  BY DEF Tab, QueuedIn
<1>2. t.clientSeq \in Nat /\ t.clientSeq <= t.clientSeq
  BY DEF Tab
<1>3. ASSUME NEW p \in Path, HasPending(t, p) \/ entries[p] # None PROVE HasPending(u, p)
  <2>1. u.offline[p] = (IF entries[p] # None THEN entries[p] ELSE t.offline[p])
        /\ u.pending[p] = (IF entries[p] # None THEN None ELSE t.pending[p])
    BY <1>1
  <2>2. InFlightOn(u, p) = InFlightOn(t, p)
    BY <1>1 DEF InFlightOn
  <2> QED
    BY <1>3, <2>1, <2>2 DEF HasPending
<1> QED
  BY <1>1, <1>2, <1>3, Zenon DEF Flows

LEMMA SentFlows ==
  ASSUME NEW t \in Tab, NEW entries \in [Path -> MaybeEntry], Live(t), NEW order, Lists(order, entries),
         NEW u, u = SentTo(t, entries, order)
  PROVE  Flows(t, entries, u)
<1> DEFINE n == Len(order)
<1> DEFINE sent(i) == [seq |-> t.clientSeq + i, path |-> order[i], value |-> entries[order[i]].value,
                       prior |-> entries[order[i]].prior, resends |-> 0]
<1> DEFINE more == [i \in 1..n |-> SetOp(t.clientSeq + i, order[i], entries[order[i]].value)]
<1>1. /\ u.state = t.state /\ u.joined = t.joined /\ u.snapshotRequired = t.snapshotRequired
      /\ u.opIdLastSeen = t.opIdLastSeen /\ u.lastApplied = t.lastApplied /\ u.project = t.project
      /\ u.offline = t.offline /\ u.clientSeq = t.clientSeq + n /\ u.up = t.up \o more
      /\ u.inFlight = t.inFlight \cup {sent(i) : i \in 1..n}
      /\ u.pending = [p \in Path |-> IF entries[p] # None THEN None ELSE t.pending[p]]
  BY DEF Tab, SentTo
<1>2. t.clientSeq \in Nat /\ n \in Nat /\ t.up \in Seq(Request)
  BY DEF Tab, Lists
<1>3. t.clientSeq <= u.clientSeq /\ u.clientSeq \in Nat
  BY <1>1, <1>2
<1>4. \A i \in 1..n : sent(i).seq = t.clientSeq + i /\ sent(i).path = order[i]
  OBVIOUS
<1>5. \A i \in 1..n : t.clientSeq < t.clientSeq + i
  BY <1>2
<1>6. more \in Seq(Request) /\ Len(more) = n /\ \A i \in 1..n : more[i].clientSeq = t.clientSeq + i
  <2>1. \A i \in 1..n : order[i] \in Path /\ entries[order[i]] # None
    BY ElementOfSeq DEF Lists
  <2>2. ASSUME NEW i \in 1..n PROVE SetOp(t.clientSeq + i, order[i], entries[order[i]].value) \in Request
    <3>1. entries[order[i]].value \in Value
      BY <2>1, EntryFields
    <3>2. t.clientSeq + i \in Nat
      BY <1>2
    <3> QED
      BY <2>1, <3>1, <3>2 DEF SetOp, Request
  <2>3. more \in Seq(Request)
    BY <1>2, <2>2, IsASeq
  <2>4. Len(more) = n
    BY <1>2, LenProperties
  <2> QED
    BY <2>3, <2>4 DEF SetOp
<1> HIDE DEF sent, more, n
<1>7. ASSUME NEW e \in u.inFlight PROVE e \in t.inFlight \/ t.clientSeq < e.seq
  BY <1>1, <1>4, <1>5
<1>8. ASSUME NEW i \in 1..Len(u.up)
      PROVE  t.clientSeq < u.up[i].clientSeq \/ \E j \in 1..Len(t.up) : t.up[j] = u.up[i]
  <2>1. \/ i \in 1..Len(t.up) /\ u.up[i] = t.up[i]
        \/ \E j \in 1..Len(more) : u.up[i] = more[j]
    <3>1. \A l \in 1..Len(t.up \o more) :
            \/ l \in 1..Len(t.up) /\ (t.up \o more)[l] = t.up[l]
            \/ \E j \in 1..Len(more) : l = Len(t.up) + j /\ (t.up \o more)[l] = more[j]
      BY <1>2, <1>6, RequestsJoined
    <3>2. u.up = t.up \o more /\ i \in 1..Len(t.up \o more)
      BY <1>1
    <3> QED
      BY <3>1, <3>2, Zenon
  <2> QED
    BY <1>5, <1>6, <2>1
<1>9. ASSUME NEW p \in Path, HasPending(t, p) \/ entries[p] # None PROVE HasPending(u, p)
  <2>1. CASE entries[p] # None
    <3>1. PICK i \in 1..n : order[i] = p
      BY <2>1 DEF Lists, n
    <3>2. sent(i) \in u.inFlight /\ sent(i).path = p
      BY <1>1, <1>4, <3>1
    <3> QED
      BY <3>2 DEF HasPending, InFlightOn
  <2>2. CASE entries[p] = None
    <3>1. u.pending[p] = t.pending[p] /\ u.offline[p] = t.offline[p]
      BY <1>1, <2>2
    <3>2. InFlightOn(t, p) \subseteq InFlightOn(u, p)
      BY <1>1 DEF InFlightOn
    <3> QED
      BY <1>9, <2>2, <3>1, <3>2 DEF HasPending
  <2> QED
    BY <2>1, <2>2
<1> QED
  BY <1>1, <1>2, <1>3, <1>7, <1>8, <1>9, Zenon DEF Flows

LEMMA FlushFlows ==
  ASSUME NEW t \in Tab, NEW entries \in [Path -> MaybeEntry]
  PROVE  Flows(t, entries, FlushAll(t, entries))
<1>1. CASE ~Live(t)
  BY <1>1, FlushCases, QueuedFlows
<1>2. CASE Live(t)
  <2>1. PICK order : Lists(order, entries) /\ FlushAll(t, entries) = SentTo(t, entries, order)
    BY <1>2, FlushCases
  <2> QED
    BY <1>2, <2>1, SentFlows
<1> QED
  BY <1>1, <1>2

\* What flows out of x, which is t but for what it tracks, is all that t tracked.
LEMMA FlowsOutward ==
  ASSUME NEW t, NEW x, NEW entries, NEW u, Flows(x, entries, u),
         x.state = t.state, x.joined = t.joined, x.snapshotRequired = t.snapshotRequired,
         x.opIdLastSeen = t.opIdLastSeen, x.lastApplied = t.lastApplied, x.clientSeq = t.clientSeq, x.up = t.up,
         x.inFlight \subseteq t.inFlight,
         \A p \in Path : HasPending(t, p) => HasPending(x, p) \/ entries[p] # None,
         \A p \in Path : x.project[p] = t.project[p] \/ entries[p] # None
  PROVE  Onward(t, u) /\ Outward(t, u)
<1>1. Onward(t, u)
  BY DEF Onward, Flows, Live
<1>2. ShowsAs(t, u)
  BY Zenon DEF ShowsAs, Flows
<1>3. \A e \in u.inFlight : t.clientSeq < e.seq \/ \E f \in t.inFlight : f.seq = e.seq /\ f.path = e.path
  BY DEF Flows
<1>4. ASSUME NEW i \in 1..Len(u.up), u.up[i].type = "set"
      PROVE  \/ t.clientSeq < u.up[i].clientSeq
             \/ \E j \in 1..Len(t.up) : t.up[j].type = "set" /\ t.up[j].clientSeq = u.up[i].clientSeq
  <2>1. t.clientSeq < u.up[i].clientSeq \/ \E j \in 1..Len(t.up) : t.up[j] = u.up[i]
    BY <1>4 DEF Flows
  <2> QED
    BY <1>4, <2>1
<1> QED
  BY <1>1, <1>2, <1>3, <1>4, Zenon DEF Outward

-----------------------------------------------------------------------------
(* The steps of a tab that sends *)

LEMMA AgreesOnward ==
  ASSUME NEW g, NEW r \in Room, NEW c, NEW t \in Tab, NEW u \in Tab, NEW d, NEW gap, NEW excuse,
         Agrees(g, r, c, t, d, gap, excuse),
         Onward(t, u), Outward(t, u), Requesting(t), Requesting(u), SeqsKnown(t, d)
  PROVE  Agrees(g, r, c, u, d, gap, excuse)
<1>1. Frames(g, r, c, u, d) /\ SeqsUsed(r, c, t)
  BY FramesOnward DEF Agrees, Frames
<1>2. Live(u) <=> Live(t)
  BY DEF Onward, Live
<1>3. Seen(g, r, c, t, d, gap) => Seen(g, r, c, u, d, gap)
  BY <1>1, SeenOnward
<1> QED
  BY <1>1, <1>2, <1>3, Zenon DEF Agrees

LEMMA TabFacts ==
  ASSUME IInv, NEW c \in Client
  PROVE  /\ tab[c] \in Tab /\ down[c] \in Seq(Reply) /\ room \in Room /\ room.nextOpId # 0
         /\ tab[c].opIdLastSeen \in Int /\ tab[c].clientSeq \in Nat
         /\ Requesting(tab[c]) /\ SeqsKnown(tab[c], down[c])
         /\ tab[c].inFlight # {} => Live(tab[c])
         /\ \A e, f \in tab[c].inFlight : e.seq = f.seq => e = f
         /\ \A e \in tab[c].inFlight : 1 <= e.seq
         /\ tab[c].state = "closed" => down[c] = <<>> /\ tab[c].up = <<>>
<1>1. /\ tab[c] \in Tab /\ down[c] \in Seq(Reply)
      /\ Kept(tab[c], owed[c], down[c], Edits) /\ Handshake(tab[c], down[c])
  BY OfTab
<1>2. \A i \in 1..Len(down[c]) : down[c][i] \in Reply
  BY <1>1, AreNumbered
<1>3. SeqsKnown(tab[c], down[c])
  BY <1>1, <1>2, ReplyFields DEF Kept, Settling, Settles, SeqsKnown, Sets
<1>4. room \in Room /\ room.nextOpId # 0
  BY DEF IInv, RoomTyped
<1>5. tab[c].opIdLastSeen \in Int /\ tab[c].clientSeq \in Nat
  BY <1>1 DEF Tab, NoOp
<1>6. tab[c].state = "closed" => down[c] = <<>> /\ tab[c].up = <<>>
  BY <1>1 DEF Handshake
<1> QED
  BY <1>1, <1>3, <1>4, <1>5, <1>6, Zenon DEF Kept, Tracking

\* A step that changes one tab, what is on its way to it and what history says of it.
Elsewhere(c) ==
  /\ UNCHANGED room
  /\ \A b \in Client \ {c} : /\ tab'[b] = tab[b] /\ down'[b] = down[b]
                             /\ b \in gapped' <=> b \in gapped
                             /\ b \in excused' <=> b \in excused

LEMMA AgreeStepped ==
  ASSUME NEW g, AgreeInv(g), NEW c \in Client, Elsewhere(c),
         Agrees(g, room, c, tab'[c], down'[c], c \in gapped', c \in excused')
  PROVE  AgreeInv(g)'
<1>1. \A b \in Client \ {c} : Agrees(g, room, b, tab'[b], down'[b], b \in gapped', b \in excused')
  BY Zenon DEF AgreeInv, Elsewhere, Agrees, Seen, Reaches
<1>2. room' = room
  BY DEF Elsewhere
<1>3. \A b \in Client : Agrees(g, room', b, tab'[b], down'[b], b \in gapped', b \in excused')
  BY <1>1, <1>2, Zenon
<1>4. History(g, room')
  BY <1>2 DEF AgreeInv
<1> QED
  BY <1>3, <1>4, Zenon DEF AgreeInv

LEMMA SendStep ==
  ASSUME IInv, IInv', NEW g, AgreeInv(g), NEW c \in Client, UNCHANGED <<room, down, gapped, excused>>,
         NEW u, tab' = [tab EXCEPT ![c] = u], Onward(tab[c], u), Outward(tab[c], u)
  PROVE  AgreeInv(g)'
<1>1. /\ tab[c] \in Tab /\ room \in Room /\ Requesting(tab[c]) /\ SeqsKnown(tab[c], down[c])
  BY TabFacts
<1>2. tab \in [Client -> Tab]
  BY DEF IInv, TabsTyped
<1>3. tab'[c] = u /\ \A b \in Client \ {c} : tab'[b] = tab[b]
  BY <1>2
<1>4. tab'[c] \in Tab /\ Requesting(tab'[c])
  BY DEF IInv, TabsTyped, TabsKept, Kept
<1>5. Agrees(g, room, c, tab[c], down[c], c \in gapped, c \in excused)
  BY DEF AgreeInv
<1>6. Agrees(g, room, c, u, down[c], c \in gapped, c \in excused)
  BY <1>1, <1>3, <1>4, <1>5, AgreesOnward
<1>7. Elsewhere(c)
  BY <1>3 DEF Elsewhere
<1> QED
  BY <1>3, <1>6, <1>7, AgreeStepped

LEMMA FlushEntryOutward ==
  ASSUME NEW t \in Tab, NEW s \in Tab, NEW p \in Path, NEW x \in MaybeEntry, x # None,
         NEW q, s = [t EXCEPT !.project = q], \A y \in Path \ {p} : q[y] = t.project[y]
  PROVE  Onward(t, FlushEntry(s, p, x)) /\ Outward(t, FlushEntry(s, p, x))
<1> DEFINE entries == [NoEntries EXCEPT ![p] = x]
<1>1. entries \in [Path -> MaybeEntry] /\ entries[p] # None
  BY NothingPending
<1>2. FlushEntry(s, p, x) = FlushAll(s, entries)
  BY DEF FlushEntry
<1> HIDE DEF entries
<1> DEFINE u == FlushAll(s, entries)
<1>3. Flows(s, entries, u)
  BY <1>1, FlushFlows
<1> HIDE DEF u
<1>4. /\ s.state = t.state /\ s.joined = t.joined /\ s.snapshotRequired = t.snapshotRequired
      /\ s.opIdLastSeen = t.opIdLastSeen /\ s.lastApplied = t.lastApplied /\ s.clientSeq = t.clientSeq
      /\ s.up = t.up /\ s.inFlight = t.inFlight /\ s.pending = t.pending /\ s.offline = t.offline
      /\ s.project = q
  BY DEF Tab
<1>5. \A y \in Path : HasPending(t, y) => HasPending(s, y)
  BY <1>4 DEF HasPending, InFlightOn
<1>6. \A y \in Path : s.project[y] = t.project[y] \/ entries[y] # None
  BY <1>1, <1>4
<1>7. s.inFlight \subseteq t.inFlight
  BY <1>4
<1>8. \A y \in Path : HasPending(t, y) => HasPending(s, y) \/ entries[y] # None
  BY <1>5
<1>9. Onward(t, u) /\ Outward(t, u)
  BY ONLY <1>3, <1>4, <1>6, <1>7, <1>8, FlowsOutward
<1> QED
  BY <1>2, <1>9 DEF u

LEMMA FlushPathAgrees ==
  ASSUME IInv, IInv', NEW g, AgreeInv(g), NEW c \in Client, NEW p \in Path, FlushPath(c, p)
  PROVE  AgreeInv(g)'
<1> DEFINE t == tab[c]
           x == t.pending[p]
<1>1. t \in Tab
  BY TabFacts
<1>2. x \in MaybeEntry /\ x # None /\ t.project = t.project /\ t = [t EXCEPT !.project = t.project]
  BY <1>1 DEF FlushPath, Tab
<1>3. tab' = [tab EXCEPT ![c] = FlushEntry(t, p, x)] /\ UNCHANGED <<room, down, gapped, excused>>
  BY DEF FlushPath, IInv, TabsTyped
<1> DEFINE u == FlushEntry(t, p, x)
<1>4. Onward(t, u) /\ Outward(t, u)
  BY <1>1, <1>2, FlushEntryOutward
<1> HIDE DEF u
<1>5. tab' = [tab EXCEPT ![c] = u]
  BY <1>3 DEF u
<1> QED
  BY <1>3, <1>4, <1>5, SendStep

\* dispatchLocal: what the tab shows of the path is now its own edit.
LEMMA EditOutward ==
  ASSUME NEW t \in Tab, NEW p \in Path, NEW k \in Value, NEW end \in BOOLEAN,
         NEW u, u = Enqueue([t EXCEPT !.project[p] = k], p, k, t.project[p], end)
  PROVE  Onward(t, u) /\ Outward(t, u)
<1> DEFINE q == [t.project EXCEPT ![p] = k]
           s == [t EXCEPT !.project = q]
           Over(x) == Entry(k, IF x = None THEN t.project[p] ELSE x.prior)
<1>1. u = Enqueue(s, p, k, t.project[p], end)
  OBVIOUS
<1>2. q \in Project /\ \A y \in Path \ {p} : q[y] = t.project[y]
  BY DEF Tab, Project
<1> HIDE DEF q
<1>3. s \in Tab
  BY <1>2 DEF Tab
<1>4. /\ s.state = t.state /\ s.joined = t.joined /\ s.snapshotRequired = t.snapshotRequired
      /\ s.opIdLastSeen = t.opIdLastSeen /\ s.lastApplied = t.lastApplied /\ s.clientSeq = t.clientSeq
      /\ s.up = t.up /\ s.inFlight = t.inFlight /\ s.pending = t.pending /\ s.offline = t.offline
      /\ s.project = q
  BY DEF Tab
<1>5. s = [t EXCEPT !.project = q]
  OBVIOUS
<1> HIDE DEF s
<1>6. t.clientSeq \in Nat /\ t.clientSeq <= t.clientSeq
  BY DEF Tab
<1>7. \A x \in MaybeEntry : Over(x) \in MaybeEntry /\ Over(x) # None
  <2>1. \A x \in MaybeEntry : (IF x = None THEN t.project[p] ELSE x.prior) \in Value
    BY EntryFields DEF Tab, Project
  <2> QED
    BY <2>1, EntryMade
<1>8. s.offline \in [Path -> MaybeEntry] /\ s.pending \in [Path -> MaybeEntry]
  BY <1>3 DEF Tab

\* An entry set aside for the path.
<1>9. ASSUME u.state = t.state /\ u.joined = t.joined /\ u.snapshotRequired = t.snapshotRequired
             /\ u.opIdLastSeen = t.opIdLastSeen /\ u.lastApplied = t.lastApplied /\ u.clientSeq = t.clientSeq
             /\ u.up = t.up /\ u.inFlight = t.inFlight /\ u.project = q,
             HasPending(u, p), \A y \in Path \ {p} : HasPending(t, y) => HasPending(u, y)
      PROVE  Onward(t, u) /\ Outward(t, u)
  <2>1. Onward(t, u)
    BY <1>6, <1>9 DEF Onward
  <2>2. ShowsAs(t, u)
    BY <1>2, <1>9 DEF ShowsAs
  <2>3. /\ \A e \in u.inFlight : \E f \in t.inFlight : f.seq = e.seq /\ f.path = e.path
        /\ \A i \in 1..Len(u.up) : u.up[i].type = "set" =>
             \E j \in 1..Len(t.up) : t.up[j].type = "set" /\ t.up[j].clientSeq = u.up[i].clientSeq
    BY <1>9, Zenon
  <2> QED
    BY <2>1, <2>2, <2>3, Zenon DEF Outward
<1>10. CASE ~Live(s)
  <2> DEFINE x == Over(s.offline[p])
             f == [s.offline EXCEPT ![p] = x]
  <2>1. u = [s EXCEPT !.offline = f]
    BY <1>1, <1>10 DEF Enqueue
  <2>2. x # None
    BY <1>7, <1>8
  <2> HIDE DEF x
  <2>3. f[p] = x /\ \A y \in Path \ {p} : f[y] = s.offline[y]
    BY <1>8
  <2> HIDE DEF f
  <2>4. /\ u.state = t.state /\ u.joined = t.joined /\ u.snapshotRequired = t.snapshotRequired
        /\ u.opIdLastSeen = t.opIdLastSeen /\ u.lastApplied = t.lastApplied /\ u.clientSeq = t.clientSeq
        /\ u.up = t.up /\ u.inFlight = t.inFlight /\ u.project = q
        /\ u.pending = t.pending /\ u.offline = f
    BY <1>3, <1>4, <2>1 DEF Tab
  <2>5. HasPending(u, p) /\ \A y \in Path \ {p} : HasPending(t, y) => HasPending(u, y)
    BY <1>4, <2>2, <2>3, <2>4 DEF HasPending, InFlightOn
  <2> QED
    BY <1>9, <2>4, <2>5
<1>11. CASE Live(s) /\ ~end
  <2> DEFINE x == Over(s.pending[p])
             f == [s.pending EXCEPT ![p] = x]
  <2>1. u = [s EXCEPT !.pending = f]
    BY <1>1, <1>11 DEF Enqueue
  <2>2. x # None
    BY <1>7, <1>8
  <2> HIDE DEF x
  <2>3. f[p] = x /\ \A y \in Path \ {p} : f[y] = s.pending[y]
    BY <1>8
  <2> HIDE DEF f
  <2>4. /\ u.state = t.state /\ u.joined = t.joined /\ u.snapshotRequired = t.snapshotRequired
        /\ u.opIdLastSeen = t.opIdLastSeen /\ u.lastApplied = t.lastApplied /\ u.clientSeq = t.clientSeq
        /\ u.up = t.up /\ u.inFlight = t.inFlight /\ u.project = q
        /\ u.offline = t.offline /\ u.pending = f
    BY <1>3, <1>4, <2>1 DEF Tab
  <2>5. HasPending(u, p) /\ \A y \in Path \ {p} : HasPending(t, y) => HasPending(u, y)
    BY <1>4, <2>2, <2>3, <2>4 DEF HasPending, InFlightOn
  <2> QED
    BY <1>9, <2>4, <2>5
<1>12. CASE Live(s) /\ end
  <2> DEFINE x == Over(s.pending[p])
  <2>1. u = FlushEntry(s, p, x)
    BY <1>1, <1>12 DEF Enqueue
  <2>2. x \in MaybeEntry /\ x # None
    BY <1>7, <1>8
  <2> HIDE DEF x
  <2> QED
    BY <1>2, <1>3, <1>5, <2>1, <2>2, FlushEntryOutward
<1> QED
  BY <1>10, <1>11, <1>12

LEMMA EditAgrees ==
  ASSUME IInv, IInv', NEW g, AgreeInv(g), NEW c \in Client, NEW p \in Path, NEW end \in BOOLEAN, Edit(c, p, end)
  PROVE  AgreeInv(g)'
<1> DEFINE k == Edits + 1
           u == Enqueue([tab[c] EXCEPT !.project[p] = k], p, k, tab[c].project[p], end)
<1>1. tab[c] \in Tab
  BY TabFacts
<1>2. k \in Value
  BY EditsCounted DEF Edit, IInv
<1>3. tab' = [tab EXCEPT ![c] = u] /\ UNCHANGED <<room, down, gapped, excused>>
  BY <1>1 DEF Edit, Edits, IInv, TabsTyped
<1> HIDE DEF k
<1>4. Onward(tab[c], u) /\ Outward(tab[c], u)
  BY <1>1, <1>2, EditOutward
<1> HIDE DEF u
<1> QED
  BY <1>3, <1>4, SendStep

LEMMA AckTimeoutAgrees ==
  ASSUME IInv, IInv', NEW g, AgreeInv(g), NEW c \in Client, NEW e \in tab[c].inFlight, AckTimeout(c, e)
  PROVE  AgreeInv(g)'
<1> DEFINE t == tab[c]
           u == Resent(tab[c], e)
           f == [e EXCEPT !.resends = @ + 1]
           msg == SetOp(e.seq, e.path, e.value)
<1>1. t \in Tab /\ t.up \in Seq(Request) /\ t.clientSeq \in Nat /\ t.clientSeq <= t.clientSeq
  <2>1. t \in Tab
    BY TabFacts
  <2> QED
    BY <2>1 DEF Tab
<1>2. Live(t) /\ UNCHANGED <<room, down, gapped, excused>>
  BY DEF AckTimeout
<1>3. tab' = [tab EXCEPT ![c] = u]
  BY <1>1 DEF AckTimeout, IInv, TabsTyped, Resent
<1>4. e \in Sent /\ f.seq = e.seq /\ f.path = e.path
  BY <1>1 DEF Tab, Sent
<1>5. msg \in Request /\ msg.clientSeq = e.seq
  BY <1>4 DEF Request, SetOp, Sent
<1>6. /\ u.state = t.state /\ u.joined = t.joined /\ u.snapshotRequired = t.snapshotRequired
      /\ u.opIdLastSeen = t.opIdLastSeen /\ u.lastApplied = t.lastApplied /\ u.clientSeq = t.clientSeq
      /\ u.project = t.project /\ u.pending = t.pending /\ u.offline = t.offline
      /\ u.up = Append(t.up, msg) /\ u.inFlight = (t.inFlight \ {e}) \cup {f}
  BY <1>1 DEF Tab, Resent
<1> HIDE DEF u, f, msg
<1>7. Onward(t, u)
  BY <1>1, <1>2, <1>6 DEF Onward
<1>8. ShowsAs(t, u)
  <2>1. \A p : InFlightOn(t, p) # {} => InFlightOn(u, p) # {}
    BY <1>4, <1>6 DEF InFlightOn
  <2> QED
    BY <1>6, <2>1 DEF ShowsAs, HasPending
<1>9. \A x \in u.inFlight : \E y \in t.inFlight : y.seq = x.seq /\ y.path = x.path
  BY <1>4, <1>6
<1>10. ASSUME NEW i \in 1..Len(u.up), u.up[i].type = "set"
       PROVE  \/ \E y \in t.inFlight : y.seq = u.up[i].clientSeq
              \/ \E j \in 1..Len(t.up) : t.up[j].type = "set" /\ t.up[j].clientSeq = u.up[i].clientSeq
  <2>1. (i \in 1..Len(t.up) /\ u.up[i] = t.up[i]) \/ u.up[i] = msg
    BY <1>1, <1>5, <1>6, Appended
  <2> QED
    BY <1>5, <1>10, <2>1
<1>11. Outward(t, u)
  BY <1>8, <1>9, <1>10, Zenon DEF Outward
<1> QED
  BY <1>2, <1>3, <1>7, <1>11, SendStep

LEMMA StrayAgrees ==
  ASSUME IInv, IInv', NEW g, AgreeInv(g), NEW c \in Client, NEW p \in Path, Stray(c, p)
  PROVE  AgreeInv(g)'
<1> DEFINE t == tab[c]
           u == [tab[c] EXCEPT !.project[p] = Edits + 1]
<1>1. t \in Tab /\ room \in Room /\ t.clientSeq \in Nat /\ t.clientSeq <= t.clientSeq /\ Requesting(t)
  <2>1. t \in Tab /\ room \in Room /\ Requesting(t)
    BY TabFacts
  <2> QED
    BY <2>1 DEF Tab
<1>2. UNCHANGED <<room, down, gapped>> /\ excused' = excused \cup {c}
  BY DEF Stray
<1>3. tab' = [tab EXCEPT ![c] = u]
  BY <1>1 DEF Stray, Edits, IInv, TabsTyped
<1>4. /\ u.state = t.state /\ u.joined = t.joined /\ u.snapshotRequired = t.snapshotRequired
      /\ u.opIdLastSeen = t.opIdLastSeen /\ u.clientSeq = t.clientSeq /\ u.up = t.up /\ u.inFlight = t.inFlight
  BY <1>1 DEF Tab
<1> HIDE DEF u
<1>5. Onward(t, u) /\ Requesting(u)
  BY <1>1, <1>4 DEF Onward, Requesting
<1>6. Frames(g, room, c, t, down[c]) /\ (c \in gapped => ~Live(t))
  BY DEF AgreeInv, Agrees
<1>7. Frames(g, room, c, u, down[c]) /\ (c \in gapped => ~Live(u))
  BY <1>1, <1>4, <1>5, <1>6, FramesOnward DEF Live
<1>8. tab'[c] = u /\ \A b \in Client \ {c} : tab'[b] = tab[b]
  BY <1>3 DEF IInv, TabsTyped
<1>9. Elsewhere(c)
  BY <1>2, <1>8 DEF Elsewhere
<1>10. Agrees(g, room, c, tab'[c], down'[c], c \in gapped', c \in excused')
  <2>1. c \in excused'
    BY <1>2
  <2> QED
    BY <1>2, <1>7, <1>8, <2>1, Zenon DEF Agrees
<1> QED
  BY <1>9, <1>10, AgreeStepped
-----------------------------------------------------------------------------
(* The steps of a connection *)

LEMMA OfNone == Len(<<>>) = 0 /\ Sets(<<>>) = {} /\ Marks(<<>>) = {} /\ \A i \in 1..Len(<<>>) : FALSE
BY DEF Sets, Marks

\* A tab that has lost its connection gets the ops it missed when it asks again.
LEMMA SeenClosed ==
  ASSUME NEW g, g.head \in Nat, NEW r \in Room, NEW c, NEW t \in Tab, NEW u \in Tab, NEW d, Seen(g, r, c, t, d, FALSE),
         u.state = "closed", u.up = <<>>, u.inFlight = {}, u.joined = t.joined,
         u.opIdLastSeen = t.opIdLastSeen, u.snapshotRequired = t.snapshotRequired, ShowsAs(t, u),
         ~t.snapshotRequired => t.joined
  PROVE  Seen(g, r, c, u, <<>>, FALSE)
<1> DEFINE w == t.opIdLastSeen
<1>1. w \in Int /\ -1 <= w /\ u.lastApplied = t.lastApplied
  BY DEF Tab, NoOp, ShowsAs
<1>2. Asks(u) /\ From(u) = (IF u.snapshotRequired THEN -1 ELSE w)
  BY DEF Asks, From, ResumeFrom, NoOp
<1>3. Placed(g, u, <<>>)
  <2>1. From(u) <= u.opIdLastSeen
    BY <1>1, <1>2
  <2> QED
    BY <1>1, <2>1, OfNone DEF Placed, Seen
<1>4. u.snapshotRequired => SnapshotAhead(g, r, u, <<>>)
  BY <1>2 DEF SnapshotAhead, Replays, CanCatchUp
<1>5. ASSUME ~u.snapshotRequired PROVE Reaches(g, r, u, <<>>, FALSE)
  <2>1. w \in 0..g.head /\ At(g, r, t, d, w)
    BY <1>5 DEF Seen, Reaches
  <2> DEFINE A == OpsAhead(g, r, u, <<>>)
  <2>2. A = {o \in 1..g.head : Replays(g, r, u) /\ w < o}
    BY <1>2, <1>5, OfNone DEF OpsAhead
  <2>3. Shows(g, u, OpsAhead(g, r, t, d), w)
    BY <2>1, ShowsStill DEF At
  <2> HIDE DEF A
  <2>4. Shows(g, u, A, w)
    <3>1. \A o \in A : w < o
      BY <2>2
    <3> QED
      BY <2>3, <3>1, Zenon DEF Shows
  <2>5. ~SnapshotAhead(g, r, u, <<>>) => Covers(g, u, A, w)
    <3>1. ~SnapshotAhead(g, r, u, <<>>) => Replays(g, r, u)
      BY <1>2 DEF SnapshotAhead
    <3> QED
      BY <2>2, <3>1 DEF Covers
  <2>6. At(g, r, u, <<>>, w)
    BY <2>4, <2>5 DEF At, A
  <2>7. w <= u.opIdLastSeen
    BY <1>1
  <2> QED
    BY <2>1, <2>6, <2>7 DEF Reaches
<1>6. Echoes(u, <<>>) /\ Resends(r, c, u, <<>>)
  <2>1. \A i \in 1..Len(u.up) : FALSE
    BY OfNone
  <2> QED
    BY <2>1, Zenon DEF Echoes, Resends
<1> QED
  BY <1>3, <1>4, <1>5, <1>6 DEF Seen

\* A page just loaded asks for everything.
LEMMA SeenFresh ==
  ASSUME NEW g, NEW r, NEW c, NEW j, NEW w \in Nat \cup {NoOp}, NEW q, w <= g.head, NEW gap,
         NEW u, u = NewTab(j, w, q)
  PROVE  Seen(g, r, c, u, <<>>, gap)
<1>1. /\ u.state = "closed" /\ u.up = <<>> /\ u.inFlight = {} /\ u.snapshotRequired /\ u.opIdLastSeen = w
  BY DEF NewTab
<1>2. Asks(u) /\ From(u) = -1
  BY <1>1 DEF Asks, From, ResumeFrom, NoOp
<1>3. -1 <= w
  BY DEF NoOp
<1>4. Placed(g, u, <<>>)
  BY <1>1, <1>2, <1>3, OfNone DEF Placed
<1>5. SnapshotAhead(g, r, u, <<>>)
  BY <1>2 DEF SnapshotAhead, Replays, CanCatchUp
<1>6. Echoes(u, <<>>) /\ Resends(r, c, u, <<>>)
  <2>1. \A i \in 1..Len(u.up) : FALSE
    BY <1>1, OfNone
  <2> QED
    BY <1>1, <2>1, Zenon DEF Echoes, Resends
<1> QED
  BY <1>1, <1>4, <1>5, <1>6 DEF Seen

\* d and e hold the same ops, snapshots and sync.completes.
SameNews(d, e) ==
  /\ \A i \in Sets(d) : \E j \in Sets(e) : e[j] = d[i]
  /\ \A j \in Sets(e) : \E i \in Sets(d) : d[i] = e[j]
  /\ \A i \in Marks(d) : \E j \in Marks(e) : e[j] = d[i]
  /\ \A j \in Marks(e) : \E i \in Marks(d) : d[i] = e[j]

LEMMA SeenSame ==
  ASSUME NEW g, NEW r, NEW c, NEW t, NEW d, NEW e, NEW gap, SameNews(d, e), Seen(g, r, c, t, d, gap)
  PROVE  Seen(g, r, c, t, e, gap)
<1>1. \A o : (\E i \in Sets(d) : d[i].opId = o) <=> (\E i \in Sets(e) : e[i].opId = o)
  BY DEF SameNews
<1>2. OpsAhead(g, r, t, e) = OpsAhead(g, r, t, d)
  BY <1>1, Zenon DEF OpsAhead
<1>3. (\E i \in 1..Len(e) : e[i].type = "snapshot") <=> (\E i \in 1..Len(d) : d[i].type = "snapshot")
  <2>1. \A i \in 1..Len(d) : d[i].type = "snapshot" => i \in Marks(d)
    BY DEF Marks
  <2>2. \A i \in 1..Len(e) : e[i].type = "snapshot" => i \in Marks(e)
    BY DEF Marks
  <2>3. Marks(d) \subseteq 1..Len(d) /\ Marks(e) \subseteq 1..Len(e)
    BY DEF Marks
  <2> QED
    BY <2>1, <2>2, <2>3 DEF SameNews
<1>4. SnapshotAhead(g, r, t, e) <=> SnapshotAhead(g, r, t, d)
  BY <1>3 DEF SnapshotAhead
<1>5. Placed(g, t, e)
  <2>1. \A m \in Marks(d) : t.opIdLastSeen <= d[m].opId
    BY DEF Placed, Seen
  <2>2. \A m \in Marks(e) : t.opIdLastSeen <= e[m].opId
    BY <2>1, Zenon DEF SameNews
  <2> QED
    BY <2>2 DEF Placed, Seen
<1>6. Reaches(g, r, t, d, gap) => Reaches(g, r, t, e, gap)
  BY <1>2, <1>4, Zenon DEF Reaches, At
<1>7. Echoes(t, e)
  <2>1. Echoes(t, d)
    BY DEF Seen
  <2>2. ASSUME NEW x \in t.inFlight, NEW i \in Sets(e), e[i].clientSeq = x.seq
        PROVE  /\ e[i].path = x.path /\ e[i].opId > t.opIdLastSeen
               /\ \A j \in Sets(e) : e[j].opId = e[i].opId => e[j].clientSeq = x.seq
    <3>1. PICK m \in Sets(d) : d[m] = e[i]
      BY DEF SameNews
    <3>2. /\ d[m].path = x.path /\ d[m].opId > t.opIdLastSeen
          /\ \A j \in Sets(d) : d[j].opId = d[m].opId => d[j].clientSeq = x.seq
      BY <2>1, <2>2, <3>1, Zenon DEF Echoes
    <3> QED
      BY <3>1, <3>2 DEF SameNews
  <2> QED
    BY <2>2, Zenon DEF Echoes
<1>8. Resends(r, c, t, e)
  <2>1. \A op : EchoAhead(d, op) => EchoAhead(e, op)
    BY DEF EchoAhead, SameNews
  <2> QED
    BY <2>1, Zenon DEF Resends, Seen
<1> QED
  BY <1>4, <1>5, <1>6, <1>7, <1>8, Zenon DEF Seen

LEMMA ChangedAgrees ==
  ASSUME IInv, NEW g, AgreeInv(g), NEW c \in Client, NEW u, NEW e, UNCHANGED room, tab' = [tab EXCEPT ![c] = u],
         down' = [down EXCEPT ![c] = e] \/ (down' = down /\ e = down[c]),
         gapped' \cup {c} = gapped \cup {c}, excused' \cup {c} = excused \cup {c},
         Agrees(g, room, c, u, e, c \in gapped', c \in excused')
  PROVE  AgreeInv(g)'
<1>1. tab \in [Client -> Tab] /\ down \in [Client -> Seq(Reply)]
  BY DEF IInv, TabsTyped
<1>2. tab'[c] = u /\ \A b \in Client \ {c} : tab'[b] = tab[b]
  BY <1>1
<1>3. down'[c] = e /\ \A b \in Client \ {c} : down'[b] = down[b]
  BY <1>1
<1>4. \A b \in Client \ {c} : (b \in gapped' <=> b \in gapped) /\ (b \in excused' <=> b \in excused)
  OBVIOUS
<1>5. Elsewhere(c)
  BY <1>2, <1>3, <1>4, Zenon DEF Elsewhere
<1>6. Agrees(g, room, c, tab'[c], down'[c], c \in gapped', c \in excused')
  BY <1>2, <1>3
<1> QED
  BY <1>5, <1>6, AgreeStepped

LEMMA ConnectAgrees ==
  ASSUME IInv, IInv', NEW g, AgreeInv(g), NEW c \in Client, Connect(c)
  PROVE  AgreeInv(g)'
<1> DEFINE t == tab[c]
           f == ResumeFrom(tab[c])
           u == Hailing(tab[c], f)
<1>1. /\ t \in Tab /\ room \in Room /\ Requesting(t) /\ SeqsKnown(t, down[c])
      /\ t.state = "closed" /\ down[c] = <<>> /\ t.up = <<>>
  BY TabFacts DEF Connect
<1>2. UNCHANGED <<room, down, gapped, excused>> /\ tab' = [tab EXCEPT ![c] = u]
  BY <1>1 DEF Connect, Hailing, IInv, TabsTyped
<1>3. /\ u.state = "opening" /\ u.up = <<[type |-> "hello", resumeFrom |-> f]>> /\ u.joined = t.joined
      /\ u.snapshotRequired = t.snapshotRequired /\ u.opIdLastSeen = t.opIdLastSeen
      /\ u.lastApplied = t.lastApplied /\ u.clientSeq = t.clientSeq /\ u.inFlight = t.inFlight
      /\ u.project = t.project /\ u.pending = t.pending /\ u.offline = t.offline
  BY <1>1 DEF Tab, Hailing
<1>4. u \in Tab
  <2>1. tab' \in [Client -> Tab] /\ tab'[c] = u
    BY <1>2 DEF IInv, TabsTyped
  <2> QED
    BY <2>1
<1>5. Len(u.up) = 1 /\ u.up[1].type = "hello" /\ u.up[1].resumeFrom = f /\ u.up # <<>>
  BY <1>3
<1> HIDE DEF u
<1>6. (Asks(t) /\ Asks(u) /\ From(u) = From(t))
  <2>1. Asks(u)
    BY <1>5 DEF Asks
  <2> QED
    BY <1>1, <1>3, <1>5, <2>1 DEF Asks, From
<1>7. Agrees(g, room, c, t, <<>>, c \in gapped, c \in excused)
  BY <1>1 DEF AgreeInv
<1>8. SeqsUsed(room, c, t) /\ (~t.snapshotRequired => t.joined)
  BY <1>7 DEF Agrees, Frames, Phase
<1>9. \A i \in 1..Len(u.up) : u.up[i].type = "hello"
  BY <1>5
<1>10. Frames(g, room, c, u, <<>>)
  <2>1. ~Live(u) /\ u.state # "catching-up" /\ (~u.snapshotRequired => u.joined) /\ SeqsUsed(room, c, u)
    BY <1>3, <1>8 DEF Live, SeqsUsed
  <2> QED
    BY <1>5, <1>9, <2>1, FramesOfNone
<1>11. Outward(t, u)
  <2>1. \A p : HasPending(u, p) <=> HasPending(t, p)
    BY <1>3 DEF HasPending, InFlightOn
  <2>2. ShowsAs(t, u)
    BY <1>3, <2>1 DEF ShowsAs
  <2> QED
    BY <1>3, <1>9, <2>2 DEF Outward
<1>12. Seen(g, room, c, t, <<>>, c \in gapped) => Seen(g, room, c, u, <<>>, c \in gapped)
  BY <1>1, <1>3, <1>4, <1>6, <1>8, <1>11, SeenStill
<1>13. ~Live(u)
  BY <1>3 DEF Live
<1>14. Agrees(g, room, c, u, <<>>, c \in gapped, c \in excused)
  BY <1>7, <1>10, <1>12, <1>13, Zenon DEF Agrees
<1>15. Agrees(g, room, c, u, <<>>, c \in gapped', c \in excused')
  BY <1>2, <1>14
<1> QED
  BY <1>1, <1>2, <1>15, ChangedAgrees

LEMMA CoalescedAll ==
  ASSUME NEW t \in Tab, NEW n \in Nat, Tracking(t, n), NEW p \in Path, HasPending(t, p)
  PROVE  Coalesced(t) \in [Path -> MaybeEntry] /\ Coalesced(t)[p] # None
BY CoalescedOwes, NewestIsOwed

LEMMA DropAgrees ==
  ASSUME IInv, IInv', NEW g, AgreeInv(g), NEW c \in Client, Drop(c)
  PROVE  AgreeInv(g)'
<1> DEFINE t == tab[c]
           u == Closed(tab[c])
<1>1. t \in Tab /\ room \in Room /\ Kept(t, owed[c], down[c], Edits) /\ Edits \in Nat /\ g.head \in Nat
  BY OfTab, TabFacts DEF AgreeInv, History
<1>2. /\ tab' = [tab EXCEPT ![c] = u] /\ down' = [down EXCEPT ![c] = <<>>] /\ UNCHANGED room
      /\ excused' = excused \cup (gapped \cap {c}) /\ gapped' = gapped \ {c}
  BY DEF Drop, IInv, TabsTyped
<1>3. u \in Tab /\ u.state = "closed" /\ u.up = <<>>
  BY <1>1, ClosedKeeps
<1>4. /\ u.joined = t.joined /\ u.snapshotRequired = t.snapshotRequired /\ u.opIdLastSeen = t.opIdLastSeen
      /\ u.lastApplied = t.lastApplied /\ u.clientSeq = t.clientSeq /\ u.inFlight = {} /\ u.project = t.project
      /\ u.offline = Coalesced(t)
  BY <1>1 DEF Tab, Closed, Untracked
<1> HIDE DEF u
<1>5. ShowsAs(t, u)
  <2>1. ASSUME NEW p \in Path, HasPending(t, p) PROVE HasPending(u, p)
    <3>1. Coalesced(t)[p] # None
      BY <1>1, <2>1, CoalescedAll DEF Kept
    <3> QED
      BY <1>4, <3>1 DEF HasPending
  <2> QED
    BY <1>4, <2>1, Zenon DEF ShowsAs
<1>6. Agrees(g, room, c, t, down[c], c \in gapped, c \in excused)
  BY DEF AgreeInv
<1>7. SeqsUsed(room, c, u) /\ (~t.snapshotRequired => t.joined)
  BY <1>4, <1>6 DEF Agrees, Frames, Phase, SeqsUsed
<1>8. Frames(g, room, c, u, <<>>)
  <2>1. ~Live(u) /\ u.state # "catching-up" /\ (~u.snapshotRequired => u.joined) /\ \A i \in 1..Len(u.up) : FALSE
    BY <1>3, <1>4, <1>7, OfNone DEF Live
  <2> QED
    BY <1>3, <1>7, <2>1, FramesOfNone
<1>9. ASSUME c \notin excused' PROVE Seen(g, room, c, u, <<>>, FALSE)
  <2>1. c \notin excused /\ c \notin gapped
    BY <1>2, <1>9
  <2>2. Seen(g, room, c, t, down[c], FALSE)
    BY <1>6, <2>1, Zenon DEF Agrees, Seen, Reaches
  <2> QED
    BY <1>1, <1>3, <1>4, <1>5, <1>7, <2>2, SeenClosed
<1>10. c \notin gapped'
  BY <1>2
<1>11. Agrees(g, room, c, u, <<>>, c \in gapped', c \in excused')
  BY <1>8, <1>9, <1>10, Zenon DEF Agrees, Seen, Reaches
<1>12. gapped' \cup {c} = gapped \cup {c} /\ excused' \cup {c} = excused \cup {c}
  BY <1>2
<1> QED
  BY <1>2, <1>11, <1>12, ChangedAgrees

LEMMA ReloadAgrees ==
  ASSUME IInv, IInv', NEW g, AgreeInv(g), NEW c \in Client, Reload(c)
  PROVE  AgreeInv(g)'
<1> DEFINE t == tab[c]
           u == NewTab(t.joined, t.opIdLastSeen, t.clientSeq)
<1>1. t \in Tab /\ t.opIdLastSeen \in Nat \cup {NoOp}
  <2>1. t \in Tab
    BY TabFacts
  <2> QED
    BY <2>1 DEF Tab
<1>2. /\ tab' = [tab EXCEPT ![c] = u] /\ down' = [down EXCEPT ![c] = <<>>] /\ UNCHANGED <<room, excused>>
      /\ gapped' = gapped \ {c}
  BY DEF Reload, IInv, TabsTyped
<1>3. u.state = "closed" /\ u.up = <<>> /\ u.snapshotRequired /\ u.clientSeq = t.clientSeq
  BY DEF NewTab
<1> DEFINE j == t.joined
           w == t.opIdLastSeen
           q == t.clientSeq
<1>4. u = NewTab(j, w, q)
  OBVIOUS
<1> HIDE DEF u
<1>5. Agrees(g, room, c, t, down[c], c \in gapped, c \in excused)
  BY DEF AgreeInv
<1>6. Frames(g, room, c, u, <<>>)
  <2>1. SeqsUsed(room, c, u)
    BY <1>3, <1>5 DEF Agrees, Frames, SeqsUsed
  <2>2. ~Live(u) /\ u.state # "catching-up" /\ (~u.snapshotRequired => u.joined) /\ \A i \in 1..Len(u.up) : FALSE
    BY <1>3, OfNone DEF Live
  <2> QED
    BY <1>3, <2>1, <2>2, FramesOfNone
<1>7. ASSUME c \notin excused' PROVE Seen(g, room, c, u, <<>>, FALSE)
  <2>1. w <= g.head
    BY <1>2, <1>5, <1>7 DEF Agrees, Seen, Placed
  <2> QED
    BY <1>1, <1>4, <2>1, SeenFresh
<1>8. c \notin gapped'
  BY <1>2
<1>9. Agrees(g, room, c, u, <<>>, c \in gapped', c \in excused')
  BY <1>6, <1>7, <1>8, Zenon DEF Agrees, Seen, Reaches
<1>10. gapped' \cup {c} = gapped \cup {c} /\ excused' \cup {c} = excused \cup {c}
  BY <1>2
<1> QED
  BY <1>2, <1>9, <1>10, ChangedAgrees

LEMMA SameNewsTaken ==
  ASSUME NEW d, NEW e, OneLess(d, e), d[1].type \notin {"set", "snapshot", "complete"}
  PROVE  SameNews(d, e)
<1>1. \A i \in 1..Len(e) : i + 1 \in 1..Len(d) /\ e[i] = d[i + 1]
  BY SetsMoved
<1>2. ASSUME NEW i \in 1..Len(d), i # 1 PROVE \E j \in 1..Len(e) : e[j] = d[i]
  <2>1. i - 1 \in 1..Len(e) /\ (i - 1) + 1 = i
    BY <1>2 DEF OneLess
  <2> QED
    BY <1>1, <2>1
<1>3. \A i \in Sets(d) \cup Marks(d) : i \in 1..Len(d) /\ i # 1
  BY DEF Sets, Marks
<1>4. \A j \in Sets(e) \cup Marks(e) : j \in 1..Len(e)
  BY DEF Sets, Marks
<1>5. ASSUME NEW i \in Sets(d) PROVE \E j \in Sets(e) : e[j] = d[i]
  <2>1. PICK j \in 1..Len(e) : e[j] = d[i]
    BY <1>2, <1>3
  <2> QED
    BY <2>1 DEF Sets
<1>6. ASSUME NEW i \in Marks(d) PROVE \E j \in Marks(e) : e[j] = d[i]
  <2>1. PICK j \in 1..Len(e) : e[j] = d[i]
    BY <1>2, <1>3
  <2> QED
    BY <2>1 DEF Marks
<1>7. ASSUME NEW j \in Sets(e) PROVE \E i \in Sets(d) : d[i] = e[j]
  BY <1>1, <1>4 DEF Sets
<1>8. ASSUME NEW j \in Marks(e) PROVE \E i \in Marks(d) : d[i] = e[j]
  BY <1>1, <1>4 DEF Marks
<1> QED
  BY <1>5, <1>6, <1>7, <1>8 DEF SameNews

LEMMA SameNewsAdded ==
  ASSUME NEW d, NEW m, NEW e, OneMore(d, m, e), m.type \notin {"set", "snapshot", "complete"}
  PROVE  SameNews(d, e)
<1>1. /\ e[Len(d) + 1] = m
      /\ \A i \in 1..Len(d) : i \in 1..Len(e) /\ e[i] = d[i]
      /\ \A i \in 1..Len(e) : i \in 1..Len(d) \/ i = Len(d) + 1
  BY OneMoreIndex
<1>2. \A i \in Sets(d) : i \in Sets(e) /\ e[i] = d[i]
  BY <1>1 DEF Sets
<1>3. \A i \in Marks(d) : i \in Marks(e) /\ e[i] = d[i]
  BY <1>1 DEF Marks
<1>4. \A i \in Sets(e) : i \in Sets(d) /\ e[i] = d[i]
  BY <1>1 DEF Sets
<1>5. \A i \in Marks(e) : i \in Marks(d) /\ e[i] = d[i]
  BY <1>1 DEF Marks
<1> QED
  BY <1>2, <1>3, <1>4, <1>5 DEF SameNews

\* The tab is as it was, but for its line.
SameView(t, u) ==
  /\ u.opIdLastSeen = t.opIdLastSeen /\ u.snapshotRequired = t.snapshotRequired
  /\ u.lastApplied = t.lastApplied /\ u.project = t.project /\ u.clientSeq = t.clientSeq
  /\ u.pending = t.pending /\ u.offline = t.offline /\ u.inFlight = t.inFlight

LEMMA SameViewShows ==
  ASSUME NEW t, NEW u, SameView(t, u)
  PROVE  ShowsAs(t, u)
<1>1. \A p : HasPending(u, p) <=> HasPending(t, p)
  BY DEF SameView, HasPending, InFlightOn
<1> QED
  BY <1>1 DEF SameView, ShowsAs

\* The answer to a hello holds what the tab was to get.
LEMMA SeenHello ==
  ASSUME NEW g, g.head \in Nat, NEW r, NEW c, NEW t, NEW u, NEW d, NEW e, NEW gap, Seen(g, r, c, t, d, gap),
         SameView(t, u), u.state = "opening", u.up = <<>>, t.inFlight = {},
         t.state = "opening", 1 \in 1..Len(t.up), t.up[1].type = "hello", \A i \in 1..Len(d) : d[i].type = "set",
         Welcomed(g, d, e),
         IF CanCatchUp(g, r, From(t)) THEN Replayed(g, From(t), d, e) ELSE Refilled(d, e)
  PROVE  Seen(g, r, c, u, e, gap)
<1> DEFINE n == Len(d) + 2
<1>1. Asks(t) /\ ~Asks(u)
  BY DEF Asks
<1>2. Replays(g, r, t) <=> CanCatchUp(g, r, From(t))
  BY <1>1 DEF Replays
<1>3. /\ \A i \in 1..Len(d) : i \in 1..Len(e) /\ e[i] = d[i] /\ e[i].type = "set"
      /\ \A i \in n..Len(e) : i \in 1..Len(e)
      /\ \A i \in 1..Len(e) : i \in 1..Len(d) \/ e[i].type = "welcome" \/ i \in n..Len(e)
  <2>1. Len(d) \in Nat /\ Len(e) \in Nat /\ n <= Len(e)
    BY DEF Welcomed
  <2>2. \A i \in 1..Len(d) : i \in 1..Len(e) /\ e[i] = d[i] /\ e[i].type = "set"
    BY <2>1 DEF Welcomed
  <2>3. \A i \in n..Len(e) : i \in 1..Len(e)
    BY <2>1
  <2>4. \A i \in 1..Len(e) : i \in 1..Len(d) \/ i = Len(d) + 1 \/ i \in n..Len(e)
    BY <2>1
  <2> QED
    BY <2>2, <2>3, <2>4 DEF Welcomed
<1>4. \A i \in Sets(d) : i \in Sets(e) /\ e[i] = d[i]
  BY <1>3 DEF Sets
<1>5. \A i \in Sets(e) : (i \in Sets(d) /\ e[i] = d[i]) \/ i \in n..Len(e)
  BY <1>3 DEF Sets
<1>6. \A i \in 1..Len(d) : d[i].type # "snapshot"
  BY <1>3
<1>7. /\ OpsAhead(g, r, u, e) = OpsAhead(g, r, t, d)
      /\ SnapshotAhead(g, r, u, e) <=> SnapshotAhead(g, r, t, d)
  <2>1. CASE CanCatchUp(g, r, From(t))
    <3>1. Replayed(g, From(t), d, e)
      BY <2>1
    <3>2. ASSUME NEW o \in 1..g.head
          PROVE  (\E i \in Sets(e) : e[i].opId = o) <=> ((\E i \in Sets(d) : d[i].opId = o) \/ From(t) < o)
      <4>1. ASSUME NEW i \in Sets(e), e[i].opId = o
            PROVE  (\E j \in Sets(d) : d[j].opId = o) \/ From(t) < o
        <5>1. i \in n..Len(e) => e[i].opId > From(t)
          BY <3>1 DEF Replayed, Sets
        <5> QED
          BY <1>5, <4>1, <5>1
      <4>2. ASSUME From(t) < o PROVE \E i \in Sets(e) : e[i].opId = o
        <5>1. PICK i \in n..Len(e) : e[i].type = "set" /\ e[i].opId = o
          BY <3>1, <4>2 DEF Replayed
        <5> QED
          BY <1>3, <5>1 DEF Sets
      <4> QED
        BY <1>4, <4>1, <4>2
    <3>3. \A i \in 1..Len(e) : e[i].type # "snapshot"
      BY <1>3, <3>1 DEF Replayed
    <3>4. OpsAhead(g, r, u, e) = OpsAhead(g, r, t, d)
      BY <1>1, <1>2, <2>1, <3>2 DEF OpsAhead, Replays
    <3> QED
      BY <1>1, <1>2, <1>6, <2>1, <3>3, <3>4 DEF SnapshotAhead
  <2>2. CASE ~CanCatchUp(g, r, From(t))
    <3>1. Refilled(d, e)
      BY <2>2
    <3>2. \A i \in Sets(e) : i \in Sets(d) /\ e[i] = d[i]
      BY <1>5, <3>1 DEF Refilled, Sets
    <3>3. \A o : (\E i \in Sets(e) : e[i].opId = o) <=> (\E i \in Sets(d) : d[i].opId = o)
      BY <1>4, <3>2
    <3>4. OpsAhead(g, r, u, e) = OpsAhead(g, r, t, d)
      BY <1>1, <1>2, <2>2, <3>3 DEF OpsAhead, Replays
    <3>5. \E i \in 1..Len(e) : e[i].type = "snapshot"
      BY <3>1 DEF Refilled
    <3> QED
      BY <1>1, <1>2, <2>2, <3>4, <3>5 DEF SnapshotAhead
  <2> QED
    BY <2>1, <2>2
<1>8. Placed(g, u, e)
  <2>1. \A i \in Marks(e) : e[i].opId = g.head
    <3>1. \A i \in Marks(e) : i \in n..Len(e) /\ e[i].type # "set"
      BY <1>3 DEF Marks
    <3> QED
      BY <3>1 DEF Welcomed
  <2> QED
    BY <1>1, <2>1 DEF Placed, Seen, SameView
<1>9. \A k : At(g, r, t, d, k) => At(g, r, u, e, k)
  BY <1>7, ShowsStill, SameViewShows, Zenon DEF At
<1>10. Reaches(g, r, t, d, gap) => Reaches(g, r, u, e, gap)
  <2>1. u.opIdLastSeen = t.opIdLastSeen
    BY DEF SameView
  <2> QED
    BY <1>9, <2>1, Zenon DEF Reaches
<1>11. Echoes(u, e) /\ Resends(r, c, u, e)
  <2>1. u.inFlight = {} /\ \A i \in 1..Len(u.up) : FALSE
    BY OfNone DEF SameView
  <2> QED
    BY <2>1, Zenon DEF Echoes, Resends
<1>12. u.snapshotRequired = t.snapshotRequired
  BY DEF SameView
<1> QED
  BY <1>7, <1>8, <1>10, <1>11, <1>12, Zenon DEF Seen

LEMMA HandleHelloAgrees ==
  ASSUME IInv, IInv', NEW g, AgreeInv(g), NEW c \in Client, HandleHello(c)
  PROVE  AgreeInv(g)'
<1> DEFINE t == tab[c]
           from == Head(t.up).resumeFrom
           u == [t EXCEPT !.up = Tail(@)]
           d == down[c]
           e == d \o <<[type |-> "welcome"]>> \o CatchUp(from)
<1>1. /\ t \in Tab /\ d \in Seq(Reply) /\ room \in Room /\ Requesting(t) /\ (t.inFlight # {} => Live(t))
      /\ t.opIdLastSeen \in Int
  BY TabFacts
<1>2. /\ t.up # <<>> /\ Head(t.up).type = "hello" /\ UNCHANGED <<room, gapped, excused>>
      /\ tab' = [tab EXCEPT ![c] = u] /\ down' = [down EXCEPT ![c] = e]
  BY DEF HandleHello, Take, IInv, TabsTyped
<1>3. t.up \in Seq(Request) /\ Head(t.up) = t.up[1] /\ 1 \in 1..Len(t.up) /\ Head(t.up) \in Request
      /\ Len(Tail(t.up)) = Len(t.up) - 1 /\ Tail(t.up) \in Seq(Request)
  <2>1. t.up \in Seq(Request)
    BY <1>1 DEF Tab
  <2> QED
    BY <1>2, <2>1, Shortened
<1>4. t.state = "opening" /\ Len(t.up) = 1
  BY <1>1, <1>2, <1>3 DEF Requesting
<1>5. from \in Int
  BY <1>2, <1>3 DEF Request, NoOp
<1>6. /\ u.state = "opening" /\ u.up = <<>> /\ u.joined = t.joined /\ SameView(t, u)
  <2>1. Tail(t.up) = <<>>
    <3>1. Len(Tail(t.up)) = 0
      BY <1>3, <1>4
    <3> QED
      BY <1>3, <3>1, EmptySeq
  <2> QED
    BY <1>1, <1>4, <2>1 DEF Tab, SameView
<1>7. Agrees(g, room, c, t, d, c \in gapped, c \in excused) /\ History(g, room) /\ g.head \in Nat
  BY DEF AgreeInv, History
<1>8. \A i \in 1..Len(d) : d[i].type = "set"
  <2>1. \A i \in 1..Len(t.up) : t.up[i].type = "hello" => \A j \in 1..Len(d) : d[j].type = "set"
    BY <1>7 DEF Agrees, Frames, Phase
  <2> QED
    BY <1>2, <1>3, <2>1
<1>9. RoomTyped
  BY DEF IInv
<1> HIDE DEF from, u
<1>10. /\ Welcomed(g, d, e)
       /\ IF CanCatchUp(g, room, from) THEN Replayed(g, from, d, e) ELSE Refilled(d, e)
  BY <1>1, <1>5, <1>7, <1>9, HelloAnswered
<1> HIDE DEF e
<1>11. Frames(g, room, c, u, e)
  BY <1>1, <1>6, <1>7, <1>8, <1>10, FramesWelcomed DEF Agrees, SameView
<1>12. t.inFlight = {}
  BY <1>1, <1>4 DEF Live
<1>13. From(t) = from
  BY <1>3, <1>4 DEF From, from
<1>14. IF CanCatchUp(g, room, From(t)) THEN Replayed(g, From(t), d, e) ELSE Refilled(d, e)
  BY <1>10, <1>13
<1>15. t.up[1].type = "hello"
  BY <1>2, <1>3
<1>16. Seen(g, room, c, t, d, c \in gapped) => Seen(g, room, c, u, e, c \in gapped)
  BY <1>3, <1>4, <1>6, <1>7, <1>8, <1>10, <1>12, <1>14, <1>15, SeenHello
<1>17. ~Live(u)
  BY <1>6 DEF Live
<1>18. Agrees(g, room, c, u, e, c \in gapped', c \in excused')
  <2>1. Agrees(g, room, c, u, e, c \in gapped, c \in excused)
    BY <1>7, <1>11, <1>16, <1>17, Zenon DEF Agrees
  <2> QED
    BY <1>2, <2>1
<1> QED
  BY <1>2, <1>18, ChangedAgrees

LEMMA OnWelcomeAgrees ==
  ASSUME IInv, IInv', NEW g, AgreeInv(g), NEW c \in Client, OnWelcome(c)
  PROVE  AgreeInv(g)'
<1> DEFINE t == tab[c]
           u == [t EXCEPT !.state = "catching-up", !.joined = TRUE]
           d == down[c]
           e == Tail(d)
<1>1. /\ t \in Tab /\ d \in Seq(Reply) /\ room \in Room /\ SeqsKnown(t, d)
      /\ t.state = "closed" => d = <<>>
  BY TabFacts
<1>2. /\ d # <<>> /\ Head(d).type = "welcome" /\ UNCHANGED <<room, gapped, excused>>
      /\ tab' = [tab EXCEPT ![c] = u] /\ down' = [down EXCEPT ![c] = e]
  BY DEF OnWelcome, Receive, IInv, TabsTyped
<1>3. OneLess(d, e) /\ Head(d) = d[1] /\ 1 \in 1..Len(d)
  BY <1>1, <1>2, TakenOne, Shortened
<1>4. /\ u.state = "catching-up" /\ u.up = t.up /\ u.joined /\ SameView(t, u)
  BY <1>1 DEF Tab, SameView
<1>5. u \in Tab
  <2>1. tab' \in [Client -> Tab] /\ tab'[c] = u
    BY <1>2 DEF IInv, TabsTyped
  <2> QED
    BY <2>1
<1> HIDE DEF u, e
<1>6. Agrees(g, room, c, t, d, c \in gapped, c \in excused) /\ g.head \in Nat
  BY DEF AgreeInv, History
<1>7. Phase(t, d)
  BY <1>6 DEF Agrees, Frames
<1>8. t.state \notin {"closed", "live"}
  <2>1. Live(t) => \A i \in 1..Len(d) : d[i].type \in {"set", "nack"}
    BY <1>7 DEF Phase
  <2>2. ~Live(t)
    BY <1>2, <1>3, <2>1
  <2> QED
    BY <1>1, <1>2, <2>2 DEF Live
<1>9. Frames(g, room, c, u, e)
  BY <1>1, <1>2, <1>3, <1>4, <1>6, <1>8, FramesJoined DEF Agrees, SameView
<1>10. ~Asks(t) /\ ~Asks(u)
  <2>1. \A i \in 1..Len(t.up) : t.up[i].type = "hello" => \A j \in 1..Len(d) : d[j].type = "set"
    BY <1>7 DEF Phase
  <2>2. d[1].type # "set"
    BY <1>2, <1>3
  <2>3. \A i \in 1..Len(t.up) : t.up[i].type # "hello"
    BY <1>3, <2>1, <2>2
  <2> QED
    BY <1>4, <1>8, <2>3 DEF Asks
<1>11. SameNews(d, e)
  BY <1>2, <1>3, SameNewsTaken
<1>12. ASSUME Seen(g, room, c, t, d, c \in gapped) PROVE Seen(g, room, c, u, e, c \in gapped)
  <2>1. Seen(g, room, c, t, e, c \in gapped)
    BY <1>11, <1>12, SeenSame
  <2>2. SeqsKnown(t, e)
    BY <1>1, <1>11 DEF SeqsKnown, SameNews
  <2>3. Outward(t, u)
    <3>1. /\ \A x \in u.inFlight : \E y \in t.inFlight : y.seq = x.seq /\ y.path = x.path
          /\ \A i \in 1..Len(u.up) : u.up[i].type = "set" =>
               \E j \in 1..Len(t.up) : t.up[j].type = "set" /\ t.up[j].clientSeq = u.up[i].clientSeq
      BY <1>4, Zenon DEF SameView
    <3> QED
      BY <1>4, <3>1, SameViewShows, Zenon DEF Outward
  <2>4. SeqsUsed(room, c, t)
    BY <1>6 DEF Agrees, Frames
  <2> QED
    BY <1>1, <1>4, <1>5, <1>10, <2>1, <2>2, <2>3, <2>4, SeenStill DEF SameView
<1>13. ~Live(u)
  BY <1>4 DEF Live
<1>14. Agrees(g, room, c, u, e, c \in gapped', c \in excused')
  <2>1. Agrees(g, room, c, u, e, c \in gapped, c \in excused)
    BY <1>6, <1>9, <1>12, <1>13, Zenon DEF Agrees
  <2> QED
    BY <1>2, <2>1
<1> QED
  BY <1>2, <1>14, ChangedAgrees

\* A tab that has rolled an op back has what it missed with its next snapshot.
LEMMA OnNackAgrees ==
  ASSUME IInv, IInv', NEW g, AgreeInv(g), NEW c \in Client, OnNack(c)
  PROVE  AgreeInv(g)'
<1> DEFINE t == tab[c]
           d == down[c]
           e == Tail(d)
           u == RolledBack(t, Head(d).clientSeq)
<1>1. t \in Tab /\ d \in Seq(Reply) /\ room \in Room /\ t.opIdLastSeen \in Int
  BY TabFacts
<1>2. /\ d # <<>> /\ Head(d).type = "nack" /\ UNCHANGED <<room, gapped>> /\ excused' = excused \cup {c}
      /\ tab' = [tab EXCEPT ![c] = u] /\ down' = [down EXCEPT ![c] = e]
  BY DEF OnNack, Receive, IInv, TabsTyped
<1>3. OneLess(d, e) /\ Head(d) = d[1]
  BY <1>1, <1>2, TakenOne
<1>4. /\ u.state = t.state /\ u.up = t.up /\ u.joined = t.joined /\ u.clientSeq = t.clientSeq
      /\ u.snapshotRequired = t.snapshotRequired /\ u.opIdLastSeen = t.opIdLastSeen
  BY <1>1 DEF Tab, RolledBack
<1> HIDE DEF u, e
<1>5. Agrees(g, room, c, t, d, c \in gapped, c \in excused) /\ g.head \in Nat
  BY DEF AgreeInv, History
<1>6. ~u.snapshotRequired => u.joined
  BY <1>4, <1>5 DEF Agrees, Frames, Phase
<1>7. Frames(g, room, c, u, e)
  BY <1>1, <1>2, <1>3, <1>4, <1>5, <1>6, FramesReceived DEF Agrees
<1>8. c \in gapped' => ~Live(u)
  BY <1>2, <1>4, <1>5 DEF Agrees, Live
<1>9. c \in excused'
  BY <1>2
<1>10. Agrees(g, room, c, u, e, c \in gapped', c \in excused')
  BY <1>7, <1>8, <1>9, Zenon DEF Agrees
<1>11. gapped' \cup {c} = gapped \cup {c} /\ excused' \cup {c} = excused \cup {c}
  BY <1>2
<1> QED
  BY <1>2, <1>10, <1>11, ChangedAgrees
-----------------------------------------------------------------------------
(* What has been seen, as the server answers *)

LEMMA LiveHasAll ==
  ASSUME NEW g, NEW r, NEW c, NEW t, NEW d, NEW gap, Seen(g, r, c, t, d, gap), Phase(t, d), Live(t), Requesting(t)
  PROVE  /\ ~t.snapshotRequired /\ ~Asks(t) /\ ~SnapshotAhead(g, r, t, d)
         /\ \A p \in Path : t.lastApplied[p] <= t.opIdLastSeen
<1>1. t.state = "live" /\ \A i \in 1..Len(t.up) : t.up[i].type # "hello"
  BY DEF Live, Requesting
<1>2. ~Asks(t)
  BY <1>1 DEF Asks
<1>3. \A i \in 1..Len(d) : d[i].type # "snapshot"
  <2>1. \A i \in 1..Len(d) : d[i].type \in {"set", "nack"}
    BY DEF Phase
  <2> QED
    BY <2>1
<1>4. ~SnapshotAhead(g, r, t, d)
  BY <1>2, <1>3 DEF SnapshotAhead
<1> QED
  BY <1>2, <1>4 DEF Seen, Placed

\* An echo of what is known already.
LEMMA SeenEchoed ==
  ASSUME NEW g, NEW r \in Room, NEW c, NEW t, NEW d, NEW m, NEW e, NEW gap, OneMore(d, m, e), Seen(g, r, c, t, d, gap),
         t.opIdLastSeen \in Int, Numbered(d), ~t.snapshotRequired, t.lastApplied \in [Path -> Int],
         NEW x \in r.opIndex, x.clientId = c, OpTrue(g, x), x.opId <= t.lastApplied[x.path] \/ EchoAhead(d, x),
         m.type = "set", m.opId = x.opId, m.clientSeq = x.clientSeq, m.path = x.path
  PROVE  Seen(g, r, c, t, e, gap)
<1> DEFINE n == Len(d) + 1
           A == OpsAhead(g, r, t, d)
           B == OpsAhead(g, r, t, e)
<1>1. /\ n \in 1..Len(e) /\ e[n] = m
      /\ \A i \in 1..Len(d) : i \in 1..Len(e) /\ e[i] = d[i]
      /\ \A i \in 1..Len(e) : i \in 1..Len(d) \/ i = n
  BY OneMoreIndex
<1>2. \A i \in Sets(d) : i \in Sets(e) /\ e[i] = d[i]
  BY <1>1 DEF Sets
<1>3. \A i \in Sets(e) : (i \in Sets(d) /\ e[i] = d[i]) \/ e[i] = m
  BY <1>1 DEF Sets
<1>4. \A i \in Marks(e) : i \in Marks(d) /\ e[i] = d[i]
  BY <1>1 DEF Marks
<1>5. (\E i \in 1..Len(e) : e[i].type = "snapshot") <=> (\E i \in 1..Len(d) : d[i].type = "snapshot")
  BY <1>1
<1>6. SnapshotAhead(g, r, t, e) <=> SnapshotAhead(g, r, t, d)
  BY <1>5 DEF SnapshotAhead
<1>7. A \subseteq B /\ \A o \in B : o \in A \/ o = x.opId
  <2>1. ASSUME NEW o, \E i \in Sets(d) : d[i].opId = o PROVE \E i \in Sets(e) : e[i].opId = o
    BY <1>2, <2>1
  <2>2. ASSUME NEW o, \E i \in Sets(e) : e[i].opId = o PROVE o = x.opId \/ \E i \in Sets(d) : d[i].opId = o
    BY <1>3, <2>2
  <2> QED
    BY <2>1, <2>2 DEF OpsAhead
<1>8. x.opId <= t.lastApplied[g.path[x.opId]] \/ x.opId \in A
  <2>1. CASE x.opId <= t.lastApplied[x.path]
    BY <2>1 DEF OpTrue
  <2>2. CASE EchoAhead(d, x)
    BY <2>2 DEF EchoAhead, OpsAhead, OpTrue
  <2> QED
    BY <2>1, <2>2
<1> HIDE DEF A, B
<1>9. \A k : Shows(g, t, A, k) => Shows(g, t, B, k)
  BY <1>7, <1>8, Zenon DEF Shows
<1>10. \A k : Covers(g, t, A, k) => Covers(g, t, B, k)
  BY <1>7, Zenon DEF Covers
<1>11. \A k : At(g, r, t, d, k) => At(g, r, t, e, k)
  BY <1>6, <1>9, <1>10, Zenon DEF At, A, B
<1>12. Reaches(g, r, t, d, gap) => Reaches(g, r, t, e, gap)
  BY <1>11, Zenon DEF Reaches
<1>13. Placed(g, t, e)
  BY <1>4 DEF Placed, Seen
<1>14. \A op : EchoAhead(d, op) => EchoAhead(e, op)
  BY <1>2 DEF EchoAhead
<1>15. Resends(r, c, t, e)
  BY <1>14, Zenon DEF Resends, Seen
<1>16. Echoes(t, e)
  <2>1. Echoes(t, d)
    BY DEF Seen

\* An op whose echo is on its way is news, so it has no other echo.
  <2>2. ASSUME NEW y \in t.inFlight, y.seq = x.clientSeq
        PROVE  /\ m.path = y.path /\ m.opId > t.opIdLastSeen
               /\ \A j \in Sets(d) : d[j].opId = m.opId => d[j].clientSeq = y.seq
    <3>1. x.path = y.path /\ EchoAhead(d, x)
      BY <2>2 DEF Seen, Resends
    <3>2. PICK j \in Sets(d) : d[j].opId = x.opId /\ d[j].clientSeq = x.clientSeq
      BY <3>1 DEF EchoAhead
    <3>3. d[j].opId > t.opIdLastSeen /\ \A l \in Sets(d) : d[l].opId = d[j].opId => d[l].clientSeq = y.seq
      BY <2>1, <2>2, <3>2, Zenon DEF Echoes
    <3> QED
      BY <3>1, <3>2, <3>3
  <2>3. ASSUME NEW y \in t.inFlight, NEW i \in Sets(d), d[i].clientSeq = y.seq, d[i].opId = x.opId
        PROVE  x.clientSeq = y.seq
    <3>1. d[i].opId > t.opIdLastSeen /\ \A l \in Sets(d) : d[l].opId = d[i].opId => d[l].clientSeq = y.seq
      BY <2>1, <2>3, Zenon DEF Echoes
    <3>2. CASE EchoAhead(d, x)
      BY <2>3, <3>1, <3>2, Zenon DEF EchoAhead
    <3>3. CASE x.opId <= t.lastApplied[x.path]
      <4>1. x.path \in Path /\ x.opId \in Int
        BY DEF Room, Op
      <4>2. t.lastApplied[x.path] <= t.opIdLastSeen
        BY <4>1 DEF Seen, Placed
      <4>3. t.lastApplied[x.path] \in Int
        BY <4>1
      <4> QED
        BY <2>3, <3>1, <3>3, <4>1, <4>2, <4>3
    <3> QED
      BY <3>2, <3>3
  <2>4. ASSUME NEW y \in t.inFlight, NEW i \in Sets(e), e[i].clientSeq = y.seq
        PROVE  /\ e[i].path = y.path /\ e[i].opId > t.opIdLastSeen
               /\ \A j \in Sets(e) : e[j].opId = e[i].opId => e[j].clientSeq = y.seq
    <3>1. CASE e[i] = m
      <4>1. y.seq = x.clientSeq
        BY <2>4, <3>1
      <4>2. /\ m.path = y.path /\ m.opId > t.opIdLastSeen
            /\ \A j \in Sets(d) : d[j].opId = m.opId => d[j].clientSeq = y.seq
        BY <2>2, <4>1
      <4> QED
        BY <1>3, <3>1, <4>1, <4>2
    <3>2. CASE i \in Sets(d) /\ e[i] = d[i]
      <4>1. /\ d[i].path = y.path /\ d[i].opId > t.opIdLastSeen
            /\ \A j \in Sets(d) : d[j].opId = d[i].opId => d[j].clientSeq = y.seq
        BY <2>1, <2>4, <3>2, Zenon DEF Echoes
      <4>2. d[i].opId = m.opId => m.clientSeq = y.seq
        BY <2>3, <2>4, <3>2
      <4> QED
        BY <1>3, <3>2, <4>1, <4>2
    <3> QED
      BY <1>3, <3>1, <3>2
  <2> QED
    BY <2>4, Zenon DEF Echoes
<1> QED
  BY <1>6, <1>12, <1>13, <1>15, <1>16, Zenon DEF Seen

\* One more op: the tab is to get it, or the snapshot that has it.
LEMMA AheadLater ==
  ASSUME NEW g, NEW h, g.head \in Nat, h.head = g.head + 1, NEW r \in Room, NEW s \in Room, History(g, r), History(h, s),
         Len(s.opLog) <= Len(r.opLog) + 1, NEW t, NEW d, NEW m, NEW e, FramesTrue(g, d),
         Asks(t) => From(t) <= g.head /\ From(t) \in Int,
         \/ OneMore(d, m, e) /\ m.type = "set" /\ m.opId = h.head
         \/ e = d /\ Asks(t)
  PROVE  /\ OpsAhead(h, s, t, e) \subseteq OpsAhead(g, r, t, d) \cup {h.head}
         /\ SnapshotAhead(g, r, t, d) => SnapshotAhead(h, s, t, e)
         /\ ~SnapshotAhead(h, s, t, e) => OpsAhead(g, r, t, d) \cup {h.head} \subseteq OpsAhead(h, s, t, e)
<1>1. /\ \A i \in Sets(d) : i \in Sets(e) /\ e[i] = d[i]
      /\ \A i \in Sets(e) : (i \in Sets(d) /\ e[i] = d[i]) \/ e[i].opId = h.head
      /\ (\E i \in 1..Len(d) : d[i].type = "snapshot") => (\E i \in 1..Len(e) : e[i].type = "snapshot")
      /\ Asks(t) \/ \E i \in Sets(e) : e[i].opId = h.head
  <2>1. CASE OneMore(d, m, e) /\ m.type = "set" /\ m.opId = h.head
    <3>1. /\ Len(d) + 1 \in 1..Len(e) /\ e[Len(d) + 1] = m
          /\ \A i \in 1..Len(d) : i \in 1..Len(e) /\ e[i] = d[i]
          /\ \A i \in 1..Len(e) : i \in 1..Len(d) \/ i = Len(d) + 1
      BY <2>1, OneMoreIndex
    <3> QED
      BY <2>1, <3>1 DEF Sets
  <2>2. CASE e = d /\ Asks(t)
    BY <2>2
  <2> QED
    BY <2>1, <2>2
<1>2. Replays(h, s, t) => Replays(g, r, t)
  <2>1. ASSUME Replays(h, s, t) PROVE Replays(g, r, t)
    <3>1. Asks(t) /\ From(t) \in 0..g.head /\ CanReplay(s, From(t))
      BY <2>1 DEF Replays, CanCatchUp
    <3>2. CanReplay(r, From(t))
      BY <3>1, ReplayShrinks
    <3> QED
      BY <3>1, <3>2 DEF Replays, CanCatchUp
  <2> QED
    BY <2>1
<1>3. \A i \in Sets(d) : d[i].opId \in 1..g.head
  BY DEF Sets, FramesTrue, FrameTrue, OpTrue
<1>4. h.head \in 1..h.head /\ \A o \in 1..h.head : o \in 1..g.head \/ o = h.head
  OBVIOUS
<1>5. \A o \in 1..g.head : o \in 1..h.head
  OBVIOUS
<1>6. ASSUME NEW o \in OpsAhead(h, s, t, e) PROVE o \in OpsAhead(g, r, t, d) \cup {h.head}
  <2>1. /\ o \in 1..h.head
        /\ (\E i \in Sets(e) : e[i].opId = o) \/ (Replays(h, s, t) /\ From(t) < o)
    BY DEF OpsAhead
  <2>2. CASE o \in 1..g.head /\ o # h.head
    BY <1>1, <1>2, <2>1, <2>2 DEF OpsAhead
  <2> QED
    BY <1>4, <2>1, <2>2
<1>7. SnapshotAhead(g, r, t, d) => SnapshotAhead(h, s, t, e)
  BY <1>1, <1>2 DEF SnapshotAhead
<1>8. ASSUME ~SnapshotAhead(h, s, t, e), NEW o \in OpsAhead(g, r, t, d) PROVE o \in OpsAhead(h, s, t, e)
  <2>1. /\ o \in 1..g.head
        /\ (\E i \in Sets(d) : d[i].opId = o) \/ (Replays(g, r, t) /\ From(t) < o)
    BY DEF OpsAhead
  <2>2. Replays(g, r, t) => Replays(h, s, t)
    BY <1>8 DEF SnapshotAhead, Replays
  <2> QED
    BY <1>1, <1>5, <2>1, <2>2 DEF OpsAhead
<1>9. ASSUME ~SnapshotAhead(h, s, t, e) PROVE h.head \in OpsAhead(h, s, t, e)
  <2>1. CASE Asks(t)
    <3>1. Replays(h, s, t) /\ From(t) < h.head
      BY <1>9, <2>1 DEF SnapshotAhead
    <3> QED
      BY <1>4, <3>1 DEF OpsAhead
  <2>2. CASE ~Asks(t)
    BY <1>1, <1>4, <2>2 DEF OpsAhead
  <2> QED
    BY <2>1, <2>2
<1> QED
  BY <1>6, <1>7, <1>8, <1>9

LEMMA ShowsLater ==
  ASSUME NEW g, NEW h, Later(g, h), h.head = g.head + 1, NEW t, NEW A, A \subseteq 1..g.head, NEW B, B \subseteq A \cup {h.head},
         NEW k \in 0..g.head, t.lastApplied \in [Path -> Int], \A p \in Path : t.lastApplied[p] <= g.head,
         Shows(g, t, A, k)
  PROVE  Shows(h, t, B, k)
<1>1. \A p \in Path : HasPending(t, p) \/ t.project[p] = h.at[Upto(t, p, k)][p]
  <2>1. \A p \in Path : Upto(t, p, k) \in 0..g.head
    BY DEF Upto
  <2>2. \A p \in Path : h.at[Upto(t, p, k)] = g.at[Upto(t, p, k)]
    BY <2>1 DEF Later
  <2> QED
    BY <2>2 DEF Shows
<1>2. ASSUME NEW o \in B PROVE o <= t.lastApplied[h.path[o]] \/ k < o
  <2>1. CASE o \in A
    <3>1. h.path[o] = g.path[o]
      BY <2>1 DEF Later
    <3> QED
      BY <2>1, <3>1 DEF Shows
  <2>2. CASE o = h.head
    BY <2>2 DEF Later
  <2> QED
    BY <2>1, <2>2
<1> QED
  BY <1>1, <1>2 DEF Shows

LEMMA CoversLater ==
  ASSUME NEW g, NEW h, Later(g, h), h.head = g.head + 1, NEW t, NEW A, NEW B, A \cup {h.head} \subseteq B, NEW k,
         Covers(g, t, A, k)
  PROVE  Covers(h, t, B, k)
<1>1. ASSUME NEW o \in 1..h.head, k < o PROVE o <= t.lastApplied[h.path[o]] \/ o \in B
  <2>1. CASE o = h.head
    BY <2>1
  <2>2. CASE o # h.head
    <3>1. o \in 1..g.head
      BY <2>2 DEF Later
    <3>2. h.path[o] = g.path[o]
      BY <3>1 DEF Later
    <3> QED
      BY <1>1, <3>1, <3>2 DEF Covers
  <2> QED
    BY <2>1, <2>2
<1> QED
  BY <1>1 DEF Covers

\* A tab that sent the op has its echo ahead.
EchoesSent(t, m) == \A y \in t.inFlight : y.seq = m.clientSeq => m.path = y.path

LEMMA EchoesNew ==
  ASSUME NEW g, NEW h, g.head \in Nat, h.head = g.head + 1, NEW t, t.opIdLastSeen \in Int, t.opIdLastSeen <= g.head,
         NEW d, NEW m, NEW e, FramesTrue(g, d), OneMore(d, m, e), m.type = "set", m.opId = h.head,
         EchoesSent(t, m), Echoes(t, d)
  PROVE  Echoes(t, e)
<1>1. \A i \in Sets(e) : (i \in Sets(d) /\ e[i] = d[i]) \/ e[i] = m
  <2>1. \A i \in 1..Len(e) : (i \in 1..Len(d) /\ e[i] = d[i]) \/ e[i] = m
    BY OneMoreIndex
  <2> QED
    BY <2>1 DEF Sets
<1>2. \A i \in Sets(d) : d[i].opId \in 1..g.head
  BY DEF Sets, FramesTrue, FrameTrue, OpTrue
<1>3. \A i \in Sets(d) : d[i].opId # m.opId
  BY <1>2
<1>4. m.opId > t.opIdLastSeen
  OBVIOUS
<1>5. ASSUME NEW y \in t.inFlight, NEW i \in Sets(e), e[i].clientSeq = y.seq
      PROVE  /\ e[i].path = y.path /\ e[i].opId > t.opIdLastSeen
             /\ \A j \in Sets(e) : e[j].opId = e[i].opId => e[j].clientSeq = y.seq
  <2>1. CASE e[i] = m
    <3>1. m.path = y.path
      BY <1>5, <2>1 DEF EchoesSent
    <3> QED
      BY <1>1, <1>3, <1>4, <1>5, <2>1, <3>1
  <2>2. CASE i \in Sets(d) /\ e[i] = d[i]
    <3>1. /\ d[i].path = y.path /\ d[i].opId > t.opIdLastSeen
          /\ \A j \in Sets(d) : d[j].opId = d[i].opId => d[j].clientSeq = y.seq
      BY <1>5, <2>2, Zenon DEF Echoes
    <3> QED
      BY <1>1, <1>3, <2>2, <3>1
  <2> QED
    BY <1>1, <2>1, <2>2
<1> QED
  BY <1>5, Zenon DEF Echoes

\* The ops of c the room knows now are those it knew and the one just sent to it.
KnownOf(h, r, s, c, m) ==
  \A x \in s.opIndex : x.clientId = c =>
    x \in r.opIndex \/ (x.opId = h.head /\ x.clientSeq = m.clientSeq /\ x.path = m.path)

LEMMA ResendsNew ==
  ASSUME NEW h, NEW r, NEW s, NEW c, NEW t, NEW d, NEW m, NEW e, OneMore(d, m, e), m.type = "set", m.opId = h.head,
         KnownOf(h, r, s, c, m), EchoesSent(t, m), Resends(r, c, t, d)
  PROVE  Resends(s, c, t, e)
<1>1. \A i \in Sets(d) : i \in Sets(e) /\ e[i] = d[i]
  BY OneMoreIndex DEF Sets
<1>2. Len(d) + 1 \in Sets(e) /\ e[Len(d) + 1] = m
  BY OneMoreIndex DEF Sets
<1>3. \A op : EchoAhead(d, op) => EchoAhead(e, op)
  BY <1>1 DEF EchoAhead
<1>4. \A op : op.opId = h.head /\ op.clientSeq = m.clientSeq => EchoAhead(e, op)
  BY <1>2 DEF EchoAhead
<1>5. ASSUME NEW x \in s.opIndex, x.clientId = c
      PROVE  /\ \A i \in 1..Len(t.up) : t.up[i].type = "set" /\ t.up[i].clientSeq = x.clientSeq =>
                  x.opId <= t.lastApplied[x.path] \/ EchoAhead(e, x)
             /\ \A y \in t.inFlight : y.seq = x.clientSeq => x.path = y.path /\ EchoAhead(e, x)
  <2>1. CASE x \in r.opIndex
    BY <1>3, <1>5, <2>1, Zenon DEF Resends
  <2>2. CASE x.opId = h.head /\ x.clientSeq = m.clientSeq /\ x.path = m.path
    <3>1. EchoAhead(e, x)
      BY <1>4, <2>2
    <3>2. \A y \in t.inFlight : y.seq = x.clientSeq => x.path = y.path
      BY <2>2, Zenon DEF EchoesSent
    <3> QED
      BY <3>1, <3>2
  <2> QED
    BY <1>5, <2>1, <2>2 DEF KnownOf
<1> QED
  BY <1>5, Zenon DEF Resends

LEMMA AsksFrom ==
  ASSUME NEW t \in Tab, Requesting(t), Asks(t)
  PROVE  From(t) \in Int
<1>1. CASE t.state = "closed"
  BY <1>1 DEF From, ResumeFrom, Tab, NoOp
<1>2. CASE t.state # "closed"
  <2>1. PICK i \in 1..Len(t.up) : t.up[i].type = "hello"
    BY <1>2 DEF Asks
  <2>2. Len(t.up) = 1 /\ t.up \in Seq(Request)
    BY <2>1 DEF Requesting, Tab
  <2>3. i = 1
    BY <2>1, <2>2
  <2>4. t.up[1] \in Request
    BY <2>1, <2>2, <2>3, ElementOfSeq
  <2> QED
    BY <1>2, <2>1, <2>3, <2>4 DEF From, Request, NoOp
<1> QED
  BY <1>1, <1>2

\* The op is on its way to the tab, or the tab is closed and asks for it later.
GetsOp(h, r, s, c, t, d, m, e) ==
  \/ OneMore(d, m, e) /\ m.type = "set" /\ m.opId = h.head /\ KnownOf(h, r, s, c, m) /\ EchoesSent(t, m)
  \/ e = d /\ d = <<>> /\ t.state = "closed" /\ t.inFlight = {} /\ t.up = <<>>

LEMMA SeenNew ==
  ASSUME NEW g, NEW h, Later(g, h), h.head = g.head + 1, NEW r \in Room, NEW s \in Room, History(g, r), History(h, s),
         Len(s.opLog) <= Len(r.opLog) + 1, NEW c, NEW t \in Tab, Requesting(t), NEW d, FramesTrue(g, d), NEW gap,
         Seen(g, r, c, t, d, gap), NEW m, NEW e, GetsOp(h, r, s, c, t, d, m, e)
  PROVE  Seen(h, s, c, t, e, gap)
<1> DEFINE A == OpsAhead(g, r, t, d)
           B == OpsAhead(h, s, t, e)
<1>1. g.head \in Nat /\ t.opIdLastSeen \in Int /\ t.opIdLastSeen <= g.head
  BY DEF Later, Tab, NoOp, Seen, Placed
<1>2. Asks(t) => From(t) <= g.head /\ From(t) \in Int
  <2>1. ASSUME Asks(t) PROVE From(t) <= g.head /\ From(t) \in Int
    <3>1. From(t) \in Int
      BY <2>1, AsksFrom
    <3>2. From(t) <= t.opIdLastSeen
      BY <2>1 DEF Seen, Placed
    <3> QED
      BY <1>1, <3>1, <3>2
  <2> QED
    BY <2>1
<1>3. \/ OneMore(d, m, e) /\ m.type = "set" /\ m.opId = h.head
      \/ e = d /\ Asks(t)
  BY DEF GetsOp, Asks
<1>4. /\ B \subseteq A \cup {h.head}
      /\ SnapshotAhead(g, r, t, d) => SnapshotAhead(h, s, t, e)
      /\ ~SnapshotAhead(h, s, t, e) => A \cup {h.head} \subseteq B
  BY <1>1, <1>2, <1>3, AheadLater
<1>5. A \subseteq 1..g.head
  BY DEF OpsAhead
<1> HIDE DEF A, B
<1>6. Marks(e) \subseteq Marks(d) /\ \A i \in Marks(e) : e[i] = d[i]
  <2>1. CASE OneMore(d, m, e) /\ m.type = "set"
    <3>1. \A i \in 1..Len(e) : (i \in 1..Len(d) /\ e[i] = d[i]) \/ e[i] = m
      BY <2>1, OneMoreIndex
    <3> QED
      BY <2>1, <3>1 DEF Marks
  <2>2. CASE e = d
    BY <2>2
  <2> QED
    BY <1>3, <2>1, <2>2
<1>7. Placed(h, t, e)
  <2>1. t.opIdLastSeen <= h.head
    BY <1>1
  <2> QED
    BY <1>6, <2>1 DEF Placed, Seen
<1>8. ASSUME ~t.snapshotRequired PROVE Reaches(h, s, t, e, gap)
  <2>1. PICK k \in 0..g.head :
          k <= t.opIdLastSeen /\ (~gap => k = t.opIdLastSeen) /\ At(g, r, t, d, k)
    BY <1>8, Zenon DEF Seen, Reaches
  <2>2. Shows(g, t, A, k) /\ (~SnapshotAhead(g, r, t, d) => Covers(g, t, A, k))
    BY <2>1 DEF At, A
  <2>3. t.lastApplied \in [Path -> Int]
    BY DEF Tab, NoOp
  <2>4. \A p \in Path : t.lastApplied[p] <= g.head
    <3>1. ASSUME NEW p \in Path PROVE t.lastApplied[p] <= g.head
      <4>1. t.lastApplied[p] <= t.opIdLastSeen /\ t.lastApplied[p] \in Int
        BY <1>8, <2>3 DEF Seen, Placed
      <4> QED
        BY <1>1, <4>1
    <3> QED
      BY <3>1
  <2>5. Shows(h, t, B, k)
    BY <1>4, <1>5, <2>2, <2>3, <2>4, ShowsLater
  <2>6. ~SnapshotAhead(h, s, t, e) => Covers(h, t, B, k)
    BY <1>4, <2>2, CoversLater
  <2>7. At(h, s, t, e, k)
    BY <2>5, <2>6 DEF At, B
  <2>8. k \in 0..h.head
    BY <1>1
  <2> QED
    BY <2>1, <2>7, <2>8, Zenon DEF Reaches
<1>9. Echoes(t, e) /\ Resends(s, c, t, e)
  <2>1. CASE OneMore(d, m, e) /\ m.type = "set" /\ m.opId = h.head /\ KnownOf(h, r, s, c, m) /\ EchoesSent(t, m)
    BY <1>1, <2>1, EchoesNew, ResendsNew DEF Seen
  <2>2. CASE t.inFlight = {} /\ t.up = <<>>
    <3>1. \A i \in 1..Len(t.up) : FALSE
      BY <2>2, OfNone
    <3> QED
      BY <2>2, <3>1, Zenon DEF Echoes, Resends
  <2> QED
    BY <2>1, <2>2 DEF GetsOp
<1> QED
  BY <1>4, <1>7, <1>8, <1>9, Zenon DEF Seen

\* The server takes the first frame of a live tab.
Requests(t, u, msg) ==
  /\ Live(t) /\ Live(u) /\ u.joined = t.joined /\ SameView(t, u) /\ ~Asks(t) /\ ~Asks(u)
  /\ \A i \in 1..Len(u.up) : \E j \in 1..Len(t.up) : t.up[j] = u.up[i]
  /\ \E j \in 1..Len(t.up) : t.up[j] = msg
  /\ msg.type = "set" /\ msg.clientSeq \in Nat /\ msg.path \in Path /\ msg.value \in Value
  /\ msg.clientSeq <= t.clientSeq
  /\ \A y \in t.inFlight : y.seq = msg.clientSeq => msg.path = y.path

LEMMA RequestIsTaken ==
  ASSUME IInv, IInv', NEW g, AgreeInv(g), NEW c \in Client, Take(c, "set")
  PROVE  /\ tab' = [tab EXCEPT ![c] = [tab[c] EXCEPT !.up = Tail(tab[c].up)]]
         /\ Requests(tab[c], [tab[c] EXCEPT !.up = Tail(tab[c].up)], Head(tab[c].up))
         /\ tab'[c] = [tab[c] EXCEPT !.up = Tail(tab[c].up)]
<1> DEFINE t == tab[c]
           msg == Head(t.up)
           u == [t EXCEPT !.up = Tail(t.up)]
<1>1. t \in Tab /\ Requesting(t)
  BY TabFacts
<1>2. tab' = [tab EXCEPT ![c] = u] /\ t.up # <<>> /\ msg.type = "set"
  BY DEF Take, IInv, TabsTyped
<1>3. /\ t.up \in Seq(Request) /\ msg = t.up[1] /\ 1 \in 1..Len(t.up) /\ msg \in Request
      /\ \A i \in 1..Len(Tail(t.up)) : i + 1 \in 1..Len(t.up) /\ Tail(t.up)[i] = t.up[i + 1]
  <2>1. t.up \in Seq(Request)
    BY <1>1 DEF Tab
  <2> QED
    BY <1>2, <2>1, Shortened
<1>4. u.up = Tail(t.up) /\ u.state = t.state /\ u.joined = t.joined /\ SameView(t, u)
  BY <1>1 DEF Tab, SameView
<1>5. tab'[c] = u
  BY <1>2 DEF IInv, TabsTyped
<1>6. Live(t) /\ \A i \in 1..Len(t.up) : t.up[i].type # "hello"
  <2>1. ~Live(t) => \A i \in 1..Len(t.up) : t.up[i].type = "hello"
    BY DEF AgreeInv, Agrees, Frames, Phase
  <2>2. Live(t)
    BY <1>2, <1>3, <2>1
  <2> QED
    BY <1>1, <2>2 DEF Requesting, Live
<1>7. \A i \in 1..Len(u.up) : \E j \in 1..Len(t.up) : t.up[j] = u.up[i]
  BY <1>3, <1>4
<1>8. Live(u) /\ ~Asks(t) /\ ~Asks(u)
  <2>1. \A i \in 1..Len(u.up) : u.up[i].type # "hello"
    BY <1>6, <1>7
  <2> QED
    BY <1>4, <1>6, <2>1 DEF Live, Asks
<1>9. msg.clientSeq \in Nat /\ msg.path \in Path /\ msg.value \in Value
  BY <1>2, <1>3 DEF Request
<1>10. msg.clientSeq <= t.clientSeq /\ \A y \in t.inFlight : y.seq = msg.clientSeq => msg.path = y.path
  BY <1>1, <1>2, <1>3 DEF Requesting
<1>11. \E j \in 1..Len(t.up) : t.up[j] = msg
  BY <1>3
<1> HIDE DEF u, msg
<1>12. Requests(t, u, msg)
  BY <1>2, <1>4, <1>6, <1>7, <1>8, <1>9, <1>10, <1>11, Zenon DEF Requests
<1> QED
  BY <1>2, <1>5, <1>12 DEF u, msg

LEMMA RequestAgrees ==
  ASSUME NEW g, NEW r \in Room, NEW c, NEW t \in Tab, NEW u \in Tab, NEW d, NEW gap, NEW excuse, NEW msg,
         Agrees(g, r, c, t, d, gap, excuse), Requests(t, u, msg), Requesting(t), Requesting(u), SeqsKnown(t, d)
  PROVE  Agrees(g, r, c, u, d, gap, excuse)
<1>1. t.clientSeq \in Nat /\ t.clientSeq <= t.clientSeq
  BY DEF Tab
<1>2. Onward(t, u)
  BY <1>1 DEF Requests, SameView, Onward, Live
<1>3. Outward(t, u)
  <2>1. ShowsAs(t, u)
    BY SameViewShows DEF Requests
  <2>2. /\ \A x \in u.inFlight : \E y \in t.inFlight : y.seq = x.seq /\ y.path = x.path
        /\ \A i \in 1..Len(u.up) : u.up[i].type = "set" =>
             \E j \in 1..Len(t.up) : t.up[j].type = "set" /\ t.up[j].clientSeq = u.up[i].clientSeq
    BY DEF Requests, SameView
  <2> QED
    BY <2>1, <2>2, Zenon DEF Outward
<1> QED
  BY <1>2, <1>3, AgreesOnward

LEMMA NackAgrees ==
  ASSUME IInv, IInv', NEW g, AgreeInv(g), NEW c \in Client, Nack(c)
  PROVE  AgreeInv(g)'
<1> DEFINE t == tab[c]
           d == down[c]
           msg == Head(t.up)
           u == [t EXCEPT !.up = Tail(t.up)]
           m == [type |-> "nack", clientSeq |-> msg.clientSeq]
           e == Append(d, m)
<1>1. t \in Tab /\ d \in Seq(Reply) /\ room \in Room /\ Requesting(t) /\ SeqsKnown(t, d) /\ t.opIdLastSeen \in Int
  BY TabFacts
<1>2. tab' = [tab EXCEPT ![c] = u] /\ Requests(t, u, msg) /\ tab'[c] = u
  BY RequestIsTaken DEF Nack
<1>3. UNCHANGED <<room, gapped, excused>> /\ down' = [down EXCEPT ![c] = e]
  BY DEF Nack, IInv, TabsTyped
<1> HIDE DEF u
<1>4. u \in Tab /\ Requesting(u)
  BY <1>2 DEF IInv, TabsTyped, TabsKept, Kept
<1>5. Agrees(g, room, c, t, d, c \in gapped, c \in excused) /\ g.head \in Nat
  BY DEF AgreeInv, History
<1>6. Agrees(g, room, c, u, d, c \in gapped, c \in excused)
  BY <1>1, <1>2, <1>4, <1>5, RequestAgrees
<1>7. m \in Reply /\ m.type = "nack"
  BY <1>2 DEF Requests, Reply
<1> HIDE DEF m
<1>8. OneMore(d, m, e)
  BY <1>1, <1>7, AddedOne
<1> HIDE DEF e
<1>9. Live(u) /\ u.opIdLastSeen \in Int
  BY <1>1, <1>2 DEF Requests, SameView
<1>10. Frames(g, room, c, u, e)
  BY <1>1, <1>4, <1>5, <1>6, <1>7, <1>8, <1>9, FramesAnswered DEF Agrees
<1>11. Seen(g, room, c, u, d, c \in gapped) => Seen(g, room, c, u, e, c \in gapped)
  BY <1>7, <1>8, SameNewsAdded, SeenSame
<1>12. Agrees(g, room, c, u, e, c \in gapped', c \in excused')
  <2>1. Agrees(g, room, c, u, e, c \in gapped, c \in excused)
    BY <1>6, <1>10, <1>11, Zenon DEF Agrees
  <2> QED
    BY <1>3, <2>1
<1> QED
  BY <1>2, <1>3, <1>12, ChangedAgrees

LEMMA DuplicateAgrees ==
  ASSUME IInv, IInv', NEW g, AgreeInv(g), NEW c \in Client, HandleSet(c),
         IsDuplicate(room, c, Head(tab[c].up).clientSeq)
  PROVE  AgreeInv(g)'
<1> DEFINE t == tab[c]
           d == down[c]
           msg == Head(t.up)
           u == [t EXCEPT !.up = Tail(t.up)]
           known == {op \in room.opIndex : Key(op) = <<c, msg.clientSeq>>}
           x == CHOOSE k \in known : TRUE
           m == Echo(x, msg.clientSeq)
           e == Append(d, m)
<1>1. t \in Tab /\ d \in Seq(Reply) /\ room \in Room /\ Requesting(t) /\ SeqsKnown(t, d) /\ t.opIdLastSeen \in Int
  BY TabFacts
<1>2. tab' = [tab EXCEPT ![c] = u] /\ Requests(t, u, msg) /\ tab'[c] = u
  BY RequestIsTaken DEF HandleSet
<1>3. UNCHANGED <<room, gapped, excused>> /\ down' = [down EXCEPT ![c] = e]
  BY DEF HandleSet, IInv, TabsTyped
<1>4. x \in room.opIndex /\ x.clientId = c /\ x.clientSeq = msg.clientSeq
  <2>1. known # {}
    BY DEF IsDuplicate
  <2>2. x \in known
    BY <2>1
  <2> QED
    BY <2>2 DEF Key
<1> HIDE DEF u, x
<1>5. u \in Tab /\ Requesting(u)
  BY <1>2 DEF IInv, TabsTyped, TabsKept, Kept
<1>6. Agrees(g, room, c, t, d, c \in gapped, c \in excused) /\ g.head \in Nat /\ OpTrue(g, x)
  BY <1>4 DEF AgreeInv, History
<1>7. Agrees(g, room, c, u, d, c \in gapped, c \in excused)
  BY <1>1, <1>2, <1>5, <1>6, RequestAgrees
<1>8. m.type = "set" /\ m.opId = x.opId /\ m.clientSeq = x.clientSeq /\ m.path = x.path /\ m.value = x.value
  BY <1>4 DEF Echo
<1>9. m \in Reply
  BY <1>1, <1>4 DEF Echo, Reply, Room, Op
<1> HIDE DEF m
<1>10. OpTrue(g, m)
  BY <1>6, <1>8 DEF OpTrue
<1>11. OneMore(d, m, e)
  BY <1>1, <1>9, AddedOne
<1> HIDE DEF e
<1>12. Live(u) /\ u.opIdLastSeen \in Int /\ u.lastApplied = t.lastApplied
  BY <1>1, <1>2 DEF Requests, SameView
<1>13. Frames(g, room, c, u, e)
  BY <1>1, <1>5, <1>6, <1>7, <1>8, <1>9, <1>10, <1>11, <1>12, FramesAnswered DEF Agrees
<1>14. ASSUME c \notin excused PROVE Seen(g, room, c, u, e, c \in gapped)
  <2>1. Seen(g, room, c, t, d, c \in gapped) /\ Seen(g, room, c, u, d, c \in gapped) /\ Phase(u, d)
    BY <1>6, <1>7, <1>14, Zenon DEF Agrees, Frames
  <2>2. ~u.snapshotRequired
    BY <1>5, <1>12, <2>1, LiveHasAll
  <2>3. u.lastApplied \in [Path -> Int]
    BY <1>5 DEF Tab, NoOp
  <2>4. x.opId <= u.lastApplied[x.path] \/ EchoAhead(d, x)
    <3>1. PICK j \in 1..Len(t.up) : t.up[j] = msg
      BY <1>2 DEF Requests
    <3>2. t.up[j].type = "set" /\ t.up[j].clientSeq = x.clientSeq
      BY <1>2, <1>4, <3>1 DEF Requests
    <3>3. Resends(room, c, t, d)
      BY <2>1 DEF Seen
    <3> QED
      BY <1>4, <1>12, <3>2, <3>3 DEF Resends
  <2>5. Numbered(d)
    BY <1>1, AreNumbered
  <2> QED
    BY <1>1, <1>4, <1>6, <1>8, <1>11, <1>12, <2>1, <2>2, <2>3, <2>4, <2>5, SeenEchoed
<1>15. c \in gapped => ~Live(u)
  BY <1>7 DEF Agrees
<1>16. Agrees(g, room, c, u, e, c \in gapped', c \in excused')
  <2>1. Agrees(g, room, c, u, e, c \in gapped, c \in excused)
    BY <1>13, <1>14, <1>15, Zenon DEF Agrees
  <2> QED
    BY <1>3, <2>1
<1> QED
  BY <1>2, <1>3, <1>16, ChangedAgrees

\* A new op reaches one tab, or leaves a closed one as it is.
LEMMA AgreesNew ==
  ASSUME NEW g, NEW h, Later(g, h), h.head = g.head + 1, NEW r \in Room, NEW s \in Room, History(g, r), History(h, s),
         Len(s.opLog) <= Len(r.opLog) + 1, NEW c, NEW t \in Tab, Requesting(t), NEW d \in Seq(Reply), NEW gap, NEW excuse,
         Agrees(g, r, c, t, d, gap, excuse), NEW m, NEW e, GetsOp(h, r, s, c, t, d, m, e),
         OneMore(d, m, e) => OpTrue(h, m), SeqsUsed(s, c, t)
  PROVE  Agrees(h, s, c, t, e, gap, excuse)
<1>1. Frames(g, r, c, t, d) /\ (gap => ~Live(t)) /\ FramesTrue(g, d) /\ t.opIdLastSeen \in Int
  BY DEF Agrees, Frames, Tab, NoOp
<1>2. Frames(h, s, c, t, e)
  <2>1. CASE OneMore(d, m, e) /\ m.type = "set" /\ m.opId = h.head
    BY <1>1, <2>1, FramesNew
  <2>2. CASE e = d /\ d = <<>> /\ t.state = "closed" /\ t.up = <<>>
    <3>1. \A i \in 1..Len(t.up) : FALSE
      BY <2>2, OfNone
    <3>2. ~t.snapshotRequired => t.joined
      BY <1>1 DEF Frames, Phase
    <3>3. ~Live(t) /\ t.state # "catching-up"
      BY <2>2 DEF Live
    <3>4. Frames(h, s, c, t, <<>>)
      BY <2>2, <3>1, <3>2, <3>3, FramesOfNone
    <3> QED
      BY <2>2, <3>4
  <2> QED
    BY <2>1, <2>2 DEF GetsOp
<1>3. Seen(g, r, c, t, d, gap) => Seen(h, s, c, t, e, gap)
  <2>1. ASSUME Seen(g, r, c, t, d, gap) PROVE Seen(h, s, c, t, e, gap)
    BY <1>1, <2>1, SeenNew
  <2> QED
    BY <2>1
<1> QED
  BY <1>1, <1>2, <1>3, Zenon DEF Agrees

\* An op that is no duplicate becomes the newest of the room, and reaches every open tab.
LEMMA NewOpAgrees ==
  ASSUME IInv, IInv', NEW g, AgreeInv(g), NEW c \in Client, HandleSet(c),
         ~IsDuplicate(room, c, Head(tab[c].up).clientSeq)
  PROVE  \E h : AgreeInv(h)'
<1> DEFINE t == tab[c]
           msg == Head(t.up)
           u == [t EXCEPT !.up = Tail(t.up)]
           op == [opId |-> room.nextOpId, path |-> msg.path, value |-> msg.value]
           m(b) == Echo(op, IF b = c THEN msg.clientSeq ELSE 0)
           s == AppendOp(room, c, msg.clientSeq, msg.path, msg.value)
<1>history. PICK h : h = After(g, room, c, msg.clientSeq, msg.path, msg.value)
  OBVIOUS
<1>1. room \in Room /\ room.nextOpId # 0 /\ History(g, room) /\ g.head \in Nat
  BY TabFacts DEF AgreeInv, History
<1>2. tab' = [tab EXCEPT ![c] = u] /\ Requests(t, u, msg) /\ tab'[c] = u
  BY RequestIsTaken DEF HandleSet
<1>3. UNCHANGED <<gapped, excused>> /\ room' = s
      /\ down' = [b \in Client |-> IF b \in Audience(c) THEN Append(down[b], m(b)) ELSE down[b]]
  BY DEF HandleSet
<1>4. msg.clientSeq \in Nat /\ msg.path \in Path /\ msg.value \in Value /\ msg.clientSeq <= t.clientSeq
  BY <1>2 DEF Requests
<1>5. s \in Room
  BY <1>3 DEF IInv, RoomTyped
<1>new. s = AppendOp(room, c, msg.clientSeq, msg.path, msg.value)
  OBVIOUS
<1>made. /\ op.opId = room.nextOpId /\ op.path = msg.path /\ op.value = msg.value
         /\ \A b \in Client : m(b) = [type |-> "set", opId |-> op.opId, path |-> op.path, value |-> op.value,
                                      clientSeq |-> IF b = c THEN msg.clientSeq ELSE 0]
  BY DEF Echo
<1> HIDE DEF s, u, msg, op, m
<1>6. /\ History(h, s) /\ Later(g, h) /\ h.head = g.head + 1 /\ h.head \in 1..h.head /\ h.head = room.nextOpId
      /\ h.path[h.head] = msg.path /\ h.at[h.head][msg.path] = msg.value
      /\ Len(s.opLog) <= Len(room.opLog) + 1
      /\ \A x \in s.opIndex : x \in room.opIndex \/ (x.opId = h.head /\ x.clientId = c /\ x.clientSeq = msg.clientSeq)
  BY <1>1, <1>4, <1>new, <1>history, HistoryGrows
<1>7. /\ \A b \in Client : /\ m(b).type = "set" /\ m(b).opId = h.head /\ m(b).path = msg.path
                           /\ m(b).value = msg.value /\ m(b).clientSeq = (IF b = c THEN msg.clientSeq ELSE 0)
                           /\ m(b) \in Reply
  <2>1. ASSUME NEW b \in Client
        PROVE  /\ m(b).type = "set" /\ m(b).opId = h.head /\ m(b).path = msg.path
               /\ m(b).value = msg.value /\ m(b).clientSeq = (IF b = c THEN msg.clientSeq ELSE 0)
               /\ m(b) \in Reply
    <3>1. (IF b = c THEN msg.clientSeq ELSE 0) \in Nat /\ op.opId \in Nat
      BY <1>1, <1>4, <1>6, <1>made
    <3> QED
      BY <1>4, <1>6, <1>made, <3>1 DEF Reply
  <2> QED
    BY <2>1
<1>8. \A b \in Client : OpTrue(h, m(b))
  BY <1>6, <1>7 DEF OpTrue
<1>9. \A x \in s.opIndex : x.path = h.path[x.opId]
  BY <1>6 DEF History, OpTrue
<1>10. ASSUME NEW b \in Client
       PROVE  Agrees(h, s, b, tab'[b], down'[b], b \in gapped', b \in excused')
  <2> DEFINE y == tab'[b]
             d == down[b]
             e == down'[b]
  <2>1. y \in Tab /\ Requesting(y)
    BY <1>10 DEF IInv, TabsTyped, TabsKept, Kept
  <2>2. /\ tab[b] \in Tab /\ d \in Seq(Reply) /\ Requesting(tab[b]) /\ SeqsKnown(tab[b], d)
        /\ tab[b].state = "closed" => d = <<>> /\ tab[b].up = <<>>
        /\ tab[b].inFlight # {} => Live(tab[b])
        /\ \A x \in tab[b].inFlight : 1 <= x.seq
    BY TabFacts
  <2>3. y.state = tab[b].state /\ y.inFlight = tab[b].inFlight /\ y.clientSeq = tab[b].clientSeq
        /\ (b # c => y = tab[b])
    <3>1. CASE b = c
      BY <1>2, <3>1 DEF Requests, SameView, Live
    <3>2. CASE b # c
      BY <1>2, <3>2 DEF IInv, TabsTyped
    <3> QED
      BY <3>1, <3>2
  <2>4. Agrees(g, room, b, y, d, b \in gapped, b \in excused)
    <3>1. Agrees(g, room, b, tab[b], d, b \in gapped, b \in excused)
      BY DEF AgreeInv
    <3>2. CASE b = c
      <4>1. Agrees(g, room, c, tab[c], down[c], c \in gapped, c \in excused)
        BY <3>1, <3>2
      <4>2. tab[c] \in Tab /\ u \in Tab /\ Requesting(tab[c]) /\ Requesting(u) /\ SeqsKnown(tab[c], down[c])
        BY <1>2, <2>1, <2>2, <3>2
      <4>3. Agrees(g, room, c, u, down[c], c \in gapped, c \in excused)
        BY <1>1, <1>2, <4>1, <4>2, RequestAgrees
      <4> QED
        BY <1>2, <3>2, <4>3
    <3>3. CASE b # c
      BY <2>3, <3>1, <3>3
    <3> QED
      BY <3>2, <3>3
  <2>5. SeqsUsed(s, b, y)
    <3>1. SeqsUsed(room, b, y)
      BY <2>4 DEF Agrees, Frames
    <3>2. b = c => msg.clientSeq <= y.clientSeq
      BY <1>4, <2>3
    <3> QED
      BY <1>6, <3>1, <3>2 DEF SeqsUsed
  <2>6. b \in Audience(c) <=> tab[b].state # "closed"
    BY DEF Audience
  <2>7. KnownOf(h, room, s, b, m(b))
    BY <1>6, <1>7, <1>9 DEF KnownOf
  <2>8. EchoesSent(y, m(b))
    <3>1. CASE b = c
      BY <1>2, <1>7, <2>3, <3>1 DEF Requests, EchoesSent
    <3>2. CASE b # c
      <4>1. \A x \in y.inFlight : x.seq # 0
        BY <2>2, <2>3
      <4> QED
        BY <1>7, <3>2, <4>1 DEF EchoesSent
    <3> QED
      BY <3>1, <3>2
  <2>9. GetsOp(h, room, s, b, y, d, m(b), e)
    <3>1. CASE tab[b].state # "closed"
      <4>1. e = Append(d, m(b))
        BY <1>3, <2>6, <3>1
      <4>2. OneMore(d, m(b), e)
        BY <1>7, <2>2, <4>1, AddedOne
      <4> QED
        BY <1>7, <2>7, <2>8, <4>2, Zenon DEF GetsOp
    <3>2. CASE tab[b].state = "closed"
      <4>1. e = d /\ d = <<>>
        BY <1>3, <2>2, <2>6, <3>2
      <4>2. b # c
        BY <1>2, <3>2 DEF Requests, Live
      <4>3. y.inFlight = {} /\ y.up = <<>> /\ y.state = "closed"
        BY <2>2, <2>3, <3>2, <4>2 DEF Live
      <4> QED
        BY <4>1, <4>3, Zenon DEF GetsOp
    <3> QED
      BY <3>1, <3>2
  <2>10. OneMore(d, m(b), e) => OpTrue(h, m(b))
    BY <1>8
  <2> HIDE DEF y, d, e
  <2>11. Agrees(h, s, b, y, e, b \in gapped, b \in excused)
    BY <1>1, <1>5, <1>6, <2>1, <2>2, <2>4, <2>5, <2>9, <2>10, AgreesNew DEF d
  <2> QED
    BY <1>3, <2>11 DEF y, e
<1>11. AgreeInv(h)'
  BY <1>3, <1>6, <1>10, Zenon DEF AgreeInv
<1> QED
  BY <1>11

\* A tab that has applied every op up to a later one shows that one's project.
LEMMA ShowsRaised ==
  ASSUME NEW g, g.head \in Nat, LeavesTrue(g), g.path \in [1..g.head -> Path], NEW t, t.lastApplied \in [Path -> Int],
         NEW A, A \subseteq 1..g.head, NEW k \in 0..g.head, NEW l \in 0..g.head, k <= l,
         \A o \in 1..g.head : k < o /\ o <= l => o <= t.lastApplied[g.path[o]], Shows(g, t, A, k)
  PROVE  Shows(g, t, A, l)
<1>1. ASSUME NEW p \in Path PROVE HasPending(t, p) \/ t.project[p] = g.at[Upto(t, p, l)][p]
  <2> DEFINE a == Upto(t, p, k)
             b == Upto(t, p, l)
  <2>1. t.lastApplied[p] \in Int
    OBVIOUS
  <2>2. a \in Int /\ b \in Int /\ a <= b /\ t.lastApplied[p] <= a /\ k <= a
    BY <2>1 DEF Upto
  <2>3. a # b => a <= l /\ b = l
    BY <2>1 DEF Upto
  <2> HIDE DEF a, b
  <2>4. a # b => Unwritten(g, p, a, b)
    <3>1. ASSUME NEW o \in 1..g.head, a # b, a < o, o <= b, g.path[o] = p PROVE FALSE
      <4>1. t.lastApplied[p] <= a /\ k <= a /\ o <= l
        BY <2>2, <2>3, <3>1
      <4>2. k < o
        BY <3>1, <4>1, <2>2
      <4>3. o <= t.lastApplied[p]
        BY <3>1, <4>1, <4>2
      <4>4. a \in Int /\ b \in Int
        BY <2>1 DEF a, b, Upto
      <4> QED
        BY <2>1, <3>1, <4>1, <4>3, <4>4
    <3> QED
      BY <3>1 DEF Unwritten
  <2>5. a # b => a \in 0..g.head /\ b \in 0..g.head /\ a <= b
    <3>1. a \in Int /\ 0 <= a /\ a <= b
      BY <2>1 DEF a, b, Upto
    <3> QED
      BY <2>3, <3>1
  <2>6. a # b => g.at[a][p] = g.at[b][p]
    BY <2>4, <2>5 DEF LeavesTrue
  <2> QED
    BY <2>6, Zenon DEF Shows, a, b
<1>2. ASSUME NEW o \in A PROVE o <= t.lastApplied[g.path[o]] \/ l < o
  <2>1. o \in 1..g.head
    OBVIOUS
  <2>2. o <= t.lastApplied[g.path[o]] \/ k < o
    BY DEF Shows
  <2> QED
    BY <2>1, <2>2
<1> QED
  BY <1>1, <1>2, Zenon DEF Shows

\* What a set from the server changes.
Applied(t, m, u) ==
  /\ u.state = t.state /\ u.joined = t.joined /\ u.snapshotRequired = t.snapshotRequired /\ u.up = t.up
  /\ u.clientSeq = t.clientSeq /\ u.pending = t.pending /\ u.offline = t.offline
  /\ u.opIdLastSeen = (IF t.joined /\ m.opId > t.opIdLastSeen THEN m.opId ELSE t.opIdLastSeen)
  /\ u.inFlight = {y \in t.inFlight : y.seq # m.clientSeq}
  /\ \A p \in Path : u.lastApplied[p] = IF p = m.path /\ IsNews(t, m) THEN m.opId ELSE t.lastApplied[p]
  /\ \A p \in Path : p # m.path \/ ~IsNews(t, m) => u.project[p] = t.project[p]
  /\ IsNews(t, m) => HasPending(u, m.path) \/ u.project[m.path] = m.value

LEMMA DispatchedApplies ==
  ASSUME NEW t \in Tab, NEW m \in Reply, m.type = "set", NEW u, u = Dispatched(t, m)
  PROVE  Applied(t, m, u)
<1> DEFINE f == {y \in t.inFlight : y.seq # m.clientSeq}
           echoed == [t EXCEPT !.inFlight = f]
           skip == m.clientSeq # 0 /\ HasPending(echoed, m.path)
           s == IF ~IsNews(t, m) THEN echoed
                ELSE [echoed EXCEPT !.lastApplied[m.path] = m.opId,
                                    !.project[m.path] = IF skip THEN @ ELSE m.value]
<1>1. m.path \in Path /\ m.opId \in Nat /\ m.value \in Value
  BY ReplyFields
<1>2. u = [s EXCEPT !.opIdLastSeen = IF s.joined /\ m.opId > @ THEN m.opId ELSE @]
  BY DEF Dispatched, RecordOpIdSeen
<1>3. /\ echoed.state = t.state /\ echoed.joined = t.joined /\ echoed.snapshotRequired = t.snapshotRequired
      /\ echoed.up = t.up /\ echoed.clientSeq = t.clientSeq /\ echoed.pending = t.pending
      /\ echoed.offline = t.offline /\ echoed.opIdLastSeen = t.opIdLastSeen /\ echoed.inFlight = f
      /\ echoed.lastApplied = t.lastApplied /\ echoed.project = t.project /\ echoed \in Tab
  BY DEF Tab
<1> HIDE DEF echoed, f
<1>4. /\ s.state = t.state /\ s.joined = t.joined /\ s.snapshotRequired = t.snapshotRequired
      /\ s.up = t.up /\ s.clientSeq = t.clientSeq /\ s.pending = t.pending
      /\ s.offline = t.offline /\ s.opIdLastSeen = t.opIdLastSeen /\ s.inFlight = f
  BY <1>3 DEF Tab
<1>5. s \in [state : {s.state}, project : {s.project}, joined : {s.joined}, opIdLastSeen : {s.opIdLastSeen},
             clientSeq : {s.clientSeq}, snapshotRequired : {s.snapshotRequired}, lastApplied : {s.lastApplied},
             syncReady : {s.syncReady}, pending : {s.pending}, inFlight : {s.inFlight}, offline : {s.offline},
             up : {s.up}]
  BY <1>3 DEF Tab
<1>6. \A p \in Path : s.lastApplied[p] = IF p = m.path /\ IsNews(t, m) THEN m.opId ELSE t.lastApplied[p]
  BY <1>1, <1>3 DEF Tab
<1>7. \A p \in Path : p # m.path \/ ~IsNews(t, m) => s.project[p] = t.project[p]
  BY <1>1, <1>3 DEF Tab, Project
<1>8. IsNews(t, m) /\ ~skip => s.project[m.path] = m.value
  BY <1>1, <1>3 DEF Tab, Project
<1> HIDE DEF s
<1>9. /\ u.state = s.state /\ u.joined = s.joined /\ u.snapshotRequired = s.snapshotRequired
      /\ u.up = s.up /\ u.clientSeq = s.clientSeq /\ u.pending = s.pending
      /\ u.offline = s.offline /\ u.inFlight = s.inFlight /\ u.lastApplied = s.lastApplied /\ u.project = s.project
      /\ u.opIdLastSeen = IF s.joined /\ m.opId > s.opIdLastSeen THEN m.opId ELSE s.opIdLastSeen
  BY <1>2, <1>5
<1>10. skip => HasPending(u, m.path)
  BY <1>3, <1>4, <1>9 DEF HasPending, InFlightOn
<1> HIDE DEF skip
<1> QED
  BY <1>4, <1>6, <1>7, <1>8, <1>9, <1>10 DEF Applied, f

\* What is ahead of a tab that has taken an op.
LEMMA AheadTaken ==
  ASSUME NEW g, NEW r, NEW t, NEW u, NEW d, NEW e, OneLess(d, e), d[1].type # "snapshot",
         u.state = t.state, u.up = t.up, t.state # "closed"
  PROVE  /\ Asks(u) <=> Asks(t)
         /\ From(u) = From(t)
         /\ OpsAhead(g, r, u, e) \subseteq OpsAhead(g, r, t, d)
         /\ \A o \in OpsAhead(g, r, t, d) : o \in OpsAhead(g, r, u, e) \/ (d[1].type = "set" /\ o = d[1].opId)
         /\ SnapshotAhead(g, r, u, e) <=> SnapshotAhead(g, r, t, d)
<1>1. (Asks(u) <=> Asks(t)) /\ From(u) = From(t)
  BY DEF Asks, From
<1>2. Replays(g, r, u) <=> Replays(g, r, t)
  BY <1>1 DEF Replays
<1>3. /\ \A i \in Sets(e) : i + 1 \in Sets(d) /\ e[i] = d[i + 1]
      /\ \A i \in Sets(d) : i = 1 \/ (i - 1 \in Sets(e) /\ e[i - 1] = d[i])
      /\ \A i \in 1..Len(e) : i + 1 \in 1..Len(d) /\ e[i] = d[i + 1]
  BY SetsMoved
<1>4. OpsAhead(g, r, u, e) \subseteq OpsAhead(g, r, t, d)
  BY <1>1, <1>2, <1>3 DEF OpsAhead
<1>5. \A o \in OpsAhead(g, r, t, d) : o \in OpsAhead(g, r, u, e) \/ (d[1].type = "set" /\ o = d[1].opId)
  <2>1. \A o : (\E i \in Sets(d) : d[i].opId = o) =>
                  (\E i \in Sets(e) : e[i].opId = o) \/ (d[1].type = "set" /\ o = d[1].opId)
    BY <1>3 DEF Sets
  <2> QED
    BY <1>1, <1>2, <2>1 DEF OpsAhead
<1>6. (\E i \in 1..Len(e) : e[i].type = "snapshot") <=> (\E i \in 1..Len(d) : d[i].type = "snapshot")
  <2>1. \A i \in 1..Len(d) : i = 1 \/ (i - 1 \in 1..Len(e) /\ e[i - 1] = d[i])
    BY DEF OneLess
  <2> QED
    BY <1>3, <2>1
<1>7. SnapshotAhead(g, r, u, e) <=> SnapshotAhead(g, r, t, d)
  BY <1>1, <1>2, <1>6 DEF SnapshotAhead
<1> QED
  BY <1>1, <1>4, <1>5, <1>7

\* The echo of an op in flight is news where nothing newer has been applied.
StillPending(t, u, m) ==
  \A p \in Path : HasPending(t, p) => HasPending(u, p) \/ (p = m.path /\ IsNews(t, m))

LEMMA EchoIsNews ==
  ASSUME NEW t \in Tab, NEW d, 1 \in Sets(d), Echoes(t, d), NEW u, Applied(t, d[1], u), d[1].opId \in Int,
         d[1].path \in Path, t.lastApplied[d[1].path] <= t.opIdLastSeen
  PROVE  StillPending(t, u, d[1])
<1>1. ASSUME NEW p \in Path, HasPending(t, p), ~HasPending(u, p)
      PROVE  p = d[1].path /\ IsNews(t, d[1])
  <2>1. PICK y \in t.inFlight : y.path = p /\ y \notin u.inFlight
    BY <1>1 DEF Applied, HasPending, InFlightOn
  <2>2. y.seq = d[1].clientSeq
    BY <2>1 DEF Applied
  <2>3. d[1].path = y.path /\ d[1].opId > t.opIdLastSeen
    BY <2>2 DEF Echoes
  <2>4. t.opIdLastSeen \in Int /\ t.lastApplied[d[1].path] \in Int
    BY DEF Tab, NoOp
  <2>5. d[1].opId > t.lastApplied[d[1].path]
    BY <2>3, <2>4
  <2> QED
    BY <2>1, <2>3, <2>5 DEF IsNews
<1> QED
  BY <1>1 DEF StillPending

\* The leaf an op writes is shown as the op has it, unless it is no news.
LEMMA ShowsApplied ==
  ASSUME NEW g, NEW t \in Tab, NEW u \in Tab, NEW m, OpTrue(g, m), m.opId \in Int, m.path \in Path, Applied(t, m, u),
         StillPending(t, u, m), NEW A, m.opId \in A, NEW B, B \subseteq A, A \subseteq 1..g.head,
         g.path \in [1..g.head -> Path], NEW k \in Int, Shows(g, t, A, k)
  PROVE  Shows(g, u, B, k)
<1>1. t.lastApplied \in [Path -> Int] /\ u.lastApplied \in [Path -> Int]
  BY DEF Tab, NoOp
<1>2. \A p \in Path : u.lastApplied[p] = IF p = m.path /\ IsNews(t, m) THEN m.opId ELSE t.lastApplied[p]
  BY Zenon DEF Applied
<1>3. ASSUME NEW p \in Path PROVE HasPending(u, p) \/ u.project[p] = g.at[Upto(u, p, k)][p]
  <2>1. CASE p = m.path /\ IsNews(t, m)
    <3>1. m.opId > t.lastApplied[p]
      BY <2>1 DEF IsNews
    <3>2. g.path[m.opId] = p
      BY <2>1 DEF OpTrue
    <3>3. k < m.opId
      BY <1>1, <3>1, <3>2 DEF Shows
    <3>4. u.lastApplied[p] = m.opId
      BY <1>2, <2>1
    <3>5. Upto(u, p, k) = m.opId
      BY <3>3, <3>4 DEF Upto
    <3>6. m.value = g.at[m.opId][p]
      BY <2>1 DEF OpTrue
    <3> QED
      BY <2>1, <3>5, <3>6 DEF Applied
  <2>2. CASE ~(p = m.path /\ IsNews(t, m))
    <3>1. u.lastApplied[p] = t.lastApplied[p]
      BY <1>2, <2>2
    <3>2. Upto(u, p, k) = Upto(t, p, k)
      BY <3>1 DEF Upto
    <3>3. u.project[p] = t.project[p]
      BY <2>2, Zenon DEF Applied
    <3>4. HasPending(t, p) => HasPending(u, p)
      BY <2>2, Zenon DEF StillPending
    <3> QED
      BY <3>2, <3>3, <3>4, Zenon DEF Shows
  <2> QED
    BY <2>1, <2>2
<1>4. ASSUME NEW o \in B PROVE o <= u.lastApplied[g.path[o]] \/ k < o
  <2>1. o \in 1..g.head /\ (o <= t.lastApplied[g.path[o]] \/ k < o)
    BY DEF Shows
  <2>2. CASE g.path[o] = m.path /\ IsNews(t, m)
    <3>1. t.lastApplied[m.path] < m.opId /\ t.lastApplied[m.path] \in Int
      BY <1>1, <2>2 DEF IsNews
    <3>2. u.lastApplied[g.path[o]] = m.opId
      BY <1>2, <2>2
    <3> QED
      BY <2>1, <2>2, <3>1, <3>2
  <2>3. CASE ~(g.path[o] = m.path /\ IsNews(t, m)) /\ g.path[o] \in Path
    BY <1>2, <2>1, <2>3
  <2>4. g.path[o] \in Path
    BY <2>1
  <2> QED
    BY <2>2, <2>3, <2>4
<1> QED
  BY <1>3, <1>4, Zenon DEF Shows

LEMMA CoversApplied ==
  ASSUME NEW g, NEW t \in Tab, NEW u \in Tab, NEW m, OpTrue(g, m), m.opId \in Int, m.path \in Path, Applied(t, m, u),
         NEW A, NEW B, \A o \in A : o \in B \/ o = m.opId, NEW k, g.path \in [1..g.head -> Path], Covers(g, t, A, k)
  PROVE  Covers(g, u, B, k)
<1>1. t.lastApplied \in [Path -> Int] /\ u.lastApplied \in [Path -> Int]
  BY DEF Tab, NoOp
<1>2. \A p \in Path : u.lastApplied[p] = IF p = m.path /\ IsNews(t, m) THEN m.opId ELSE t.lastApplied[p]
  BY Zenon DEF Applied
<1>3. \A p \in Path : t.lastApplied[p] <= u.lastApplied[p]
  BY <1>1, <1>2 DEF IsNews
<1>4. m.opId <= u.lastApplied[m.path] /\ g.path[m.opId] = m.path
  <2>1. m.opId <= u.lastApplied[m.path]
    BY <1>1, <1>2 DEF IsNews
  <2> QED
    BY <2>1 DEF OpTrue
<1>5. ASSUME NEW o \in 1..g.head, k < o PROVE o <= u.lastApplied[g.path[o]] \/ o \in B
  <2>1. o <= t.lastApplied[g.path[o]] \/ o \in A
    BY <1>5 DEF Covers
  <2>2. g.path[o] \in Path
    OBVIOUS
  <2>3. o <= t.lastApplied[g.path[o]] => o <= u.lastApplied[g.path[o]]
    <3>1. t.lastApplied[g.path[o]] \in Int /\ u.lastApplied[g.path[o]] \in Int
      BY <1>1, <2>2
    <3> QED
      BY <1>3, <2>2, <3>1
  <2> QED
    BY <1>4, <2>1, <2>3
<1> QED
  BY <1>5 DEF Covers

LEMMA EchoesTaken ==
  ASSUME NEW t \in Tab, NEW u, NEW d, NEW e, OneLess(d, e), Numbered(d), 1 \in Sets(d), Applied(t, d[1], u), Echoes(t, d),
         t.inFlight # {} => d[1].opId <= t.opIdLastSeen + 1
  PROVE  Echoes(u, e)
<1>1. /\ \A i \in Sets(e) : i + 1 \in Sets(d) /\ e[i] = d[i + 1]
      /\ \A i \in Sets(d) : d[i].opId \in Nat
  BY SetsMoved DEF Sets, Numbered
<1>2. t.opIdLastSeen \in Int
  BY DEF Tab, NoOp
<1>3. ASSUME NEW y \in u.inFlight, NEW i \in Sets(e), e[i].clientSeq = y.seq
      PROVE  /\ e[i].path = y.path /\ e[i].opId > u.opIdLastSeen
             /\ \A j \in Sets(e) : e[j].opId = e[i].opId => e[j].clientSeq = y.seq
  <2>1. y \in t.inFlight /\ y.seq # d[1].clientSeq
    BY DEF Applied
  <2>2. i + 1 \in Sets(d) /\ e[i] = d[i + 1] /\ d[i + 1].opId \in Nat /\ d[1].opId \in Nat
    BY <1>1
  <2>3. /\ d[i + 1].path = y.path /\ d[i + 1].opId > t.opIdLastSeen
        /\ \A j \in Sets(d) : d[j].opId = d[i + 1].opId => d[j].clientSeq = y.seq
    BY <1>3, <2>1, <2>2 DEF Echoes
  <2>4. d[1].opId # d[i + 1].opId
    BY <2>1, <2>3
  <2>5. d[1].opId <= t.opIdLastSeen + 1
    BY <2>1
  <2>6. d[i + 1].opId > u.opIdLastSeen
    <3>1. \/ u.opIdLastSeen = d[1].opId /\ d[1].opId > t.opIdLastSeen
          \/ u.opIdLastSeen = t.opIdLastSeen
      BY DEF Applied
    <3> QED
      BY <1>2, <2>2, <2>3, <2>4, <2>5, <3>1
  <2>7. \A j \in Sets(e) : e[j].opId = d[i + 1].opId => e[j].clientSeq = y.seq
    BY <1>1, <2>3
  <2> QED
    BY <2>2, <2>3, <2>6, <2>7
<1> QED
  BY <1>3, Zenon DEF Echoes

LEMMA ResendsTaken ==
  ASSUME NEW g, NEW r, NEW c, NEW t \in Tab, NEW u \in Tab, NEW d, NEW e, OneLess(d, e), 1 \in Sets(d), OpTrue(g, d[1]),
         d[1].opId \in Nat, d[1].path \in Path, Applied(t, d[1], u), \A op \in r.opIndex : OpTrue(g, op) /\ op \in Op,
         Resends(r, c, t, d)
  PROVE  Resends(r, c, u, e)
<1>1. \A j \in Sets(d) : j = 1 \/ (j - 1 \in Sets(e) /\ e[j - 1] = d[j])
  BY SetsMoved
<1>2. \A p \in Path : u.lastApplied[p] = IF p = d[1].path /\ IsNews(t, d[1]) THEN d[1].opId ELSE t.lastApplied[p]
  BY Zenon DEF Applied
<1>3. t.lastApplied \in [Path -> Int] /\ u.lastApplied \in [Path -> Int]
  BY DEF Tab, NoOp
<1>4. \A p \in Path : t.lastApplied[p] <= u.lastApplied[p]
  BY <1>2, <1>3 DEF IsNews
<1>5. d[1].opId <= u.lastApplied[d[1].path]
  BY <1>2, <1>3 DEF IsNews
<1>6. \A op : EchoAhead(d, op) => EchoAhead(e, op) \/ (d[1].opId = op.opId /\ d[1].clientSeq = op.clientSeq)
  BY <1>1 DEF EchoAhead
<1>7. ASSUME NEW op \in r.opIndex, op.clientId = c
      PROVE  /\ \A i \in 1..Len(u.up) : u.up[i].type = "set" /\ u.up[i].clientSeq = op.clientSeq =>
                  op.opId <= u.lastApplied[op.path] \/ EchoAhead(e, op)
             /\ \A y \in u.inFlight : y.seq = op.clientSeq => op.path = y.path /\ EchoAhead(e, op)
  <2>1. op.path \in Path /\ op.opId \in Int
    BY DEF Op
  <2>2. op.opId <= t.lastApplied[op.path] => op.opId <= u.lastApplied[op.path]
    <3>1. t.lastApplied[op.path] \in Int /\ u.lastApplied[op.path] \in Int /\ t.lastApplied[op.path] <= u.lastApplied[op.path]
      BY <1>3, <1>4, <2>1
    <3> QED
      BY <2>1, <3>1
  <2>3. d[1].opId = op.opId => op.opId <= u.lastApplied[op.path]
    BY <1>5 DEF OpTrue
  <2>4. ASSUME NEW i \in 1..Len(u.up), u.up[i].type = "set", u.up[i].clientSeq = op.clientSeq
        PROVE  op.opId <= u.lastApplied[op.path] \/ EchoAhead(e, op)
    <3>1. i \in 1..Len(t.up) /\ t.up[i].type = "set" /\ t.up[i].clientSeq = op.clientSeq
      BY <2>4 DEF Applied
    <3>2. op.opId <= t.lastApplied[op.path] \/ EchoAhead(d, op)
      BY <1>7, <3>1, Zenon DEF Resends
    <3> QED
      BY <1>6, <2>2, <2>3, <3>2
  <2>5. ASSUME NEW y \in u.inFlight, y.seq = op.clientSeq PROVE op.path = y.path /\ EchoAhead(e, op)
    <3>1. y \in t.inFlight /\ y.seq # d[1].clientSeq
      BY DEF Applied
    <3>2. op.path = y.path /\ EchoAhead(d, op)
      BY <1>7, <2>5, <3>1, Zenon DEF Resends
    <3> QED
      BY <1>6, <2>5, <3>1, <3>2
  <2> QED
    BY <2>4, <2>5
<1> QED
  BY <1>7, Zenon DEF Resends

LEMMA PlacedTaken ==
  ASSUME NEW g, g.head \in Nat, NEW t \in Tab, NEW u \in Tab, NEW d \in Seq(Reply), NEW e, OneLess(d, e), 1 \in Sets(d),
         OpTrue(g, d[1]), d[1].path \in Path, OlderBefore(d), Applied(t, d[1], u), t.state # "closed",
         ~t.snapshotRequired => t.joined, Asks(t) => From(t) \in Int, Placed(g, t, d)
  PROVE  Placed(g, u, e)
<1>1. t.opIdLastSeen \in Int /\ u.opIdLastSeen \in Int /\ d[1].opId \in 1..g.head
  BY DEF Tab, NoOp, OpTrue
<1>2. /\ u.opIdLastSeen = d[1].opId \/ u.opIdLastSeen = t.opIdLastSeen
      /\ t.opIdLastSeen <= u.opIdLastSeen
      /\ t.joined => d[1].opId <= u.opIdLastSeen
  BY <1>1 DEF Applied
<1>3. u.opIdLastSeen <= g.head
  BY <1>1, <1>2 DEF Placed
<1>4. ASSUME ~u.snapshotRequired, NEW p \in Path PROVE u.lastApplied[p] <= u.opIdLastSeen
  <2>1. ~t.snapshotRequired /\ t.joined
    BY <1>4 DEF Applied
  <2>2. t.lastApplied[p] <= t.opIdLastSeen /\ t.lastApplied[p] \in Int
    BY <2>1 DEF Placed, Tab, NoOp
  <2>3. u.lastApplied[p] = d[1].opId \/ u.lastApplied[p] = t.lastApplied[p]
    BY Zenon DEF Applied
  <2> QED
    BY <1>1, <1>2, <2>1, <2>2, <2>3
<1>5. ASSUME NEW i \in Marks(e) PROVE u.opIdLastSeen <= e[i].opId
  <2>1. i + 1 \in Marks(d) /\ e[i] = d[i + 1] /\ i \in Nat /\ 1 \in 1..Len(d) /\ i # 0
    <3>1. i + 1 \in Marks(d) /\ e[i] = d[i + 1] /\ i \in Nat /\ 1 \in 1..Len(d)
      BY SetsMoved
    <3> QED
      BY <3>1 DEF Marks
  <2>2. t.opIdLastSeen <= e[i].opId
    BY <2>1 DEF Placed
  <2>3. d[1].opId <= e[i].opId
    BY <2>1 DEF OlderBefore, Sets
  <2> QED
    BY <1>2, <2>2, <2>3
<1>6. ASSUME Asks(u) PROVE From(u) <= u.opIdLastSeen
  <2>1. Asks(t) /\ From(u) = From(t)
    BY <1>6 DEF Applied, Asks, From
  <2> QED
    BY <1>1, <1>2, <2>1 DEF Placed
<1> QED
  BY <1>3, <1>4, <1>5, <1>6 DEF Placed

\* A set from the server, applied.
LEMMA SeenApplied ==
  ASSUME NEW g, NEW r \in Room, History(g, r), NEW c, NEW t \in Tab, NEW u \in Tab, Requesting(t), NEW d \in Seq(Reply),
         NEW e, OneLess(d, e), d[1].type = "set", Frames(g, r, c, t, d), Applied(t, d[1], u), t.state # "closed",
         t.inFlight # {} => Live(t), NEW gap, NEW skips, ~skips => ~gap /\ d[1].opId <= t.opIdLastSeen + 1,
         Seen(g, r, c, t, d, gap)
  PROVE  Seen(g, r, c, u, e, skips)
<1> DEFINE m == d[1]
           A == OpsAhead(g, r, t, d)
           B == OpsAhead(g, r, u, e)
<1>1. /\ g.head \in Nat /\ g.path \in [1..g.head -> Path] /\ LeavesTrue(g)
      /\ \A op \in r.opIndex : OpTrue(g, op) /\ op \in Op
  BY DEF History, Room
<1>2. /\ 1 \in 1..Len(d) /\ 1 \in Sets(d) /\ Numbered(d) /\ m \in Reply /\ m.opId \in Nat /\ m.path \in Path
      /\ OpTrue(g, m)
  <2>1. 1 \in 1..Len(d) /\ Numbered(d) /\ FrameTrue(g, m) /\ m \in Reply
    BY <1>1, FramesLess, AreNumbered
  <2> QED
    BY <2>1, ReplyFields DEF Sets, FrameTrue
<1>3. OlderBefore(d) /\ (~t.snapshotRequired => t.joined)
  BY DEF Frames, Divides, Phase
<1>4. Asks(t) => From(t) \in Int
  BY AsksFrom
<1>5. Live(t) => m.opId <= t.opIdLastSeen + 1
  <2>1. ASSUME Live(t) PROVE m.opId <= t.opIdLastSeen + 1
    <3>1. GoesOn(d, 0, t.opIdLastSeen, g.head)
      BY <2>1 DEF Frames, NoGap
    <3>2. t.opIdLastSeen \in Int /\ g.head \in Int
      BY <1>1 DEF Tab, NoOp
    <3> QED
      BY <1>2, <3>1, <3>2, GoesOnTaken
  <2> QED
    BY <2>1
<1>6. Placed(g, t, d) /\ Echoes(t, d) /\ Resends(r, c, t, d)
  BY DEF Seen
<1>7. Placed(g, u, e)
  BY <1>1, <1>2, <1>3, <1>4, <1>6, PlacedTaken
<1>8. Echoes(u, e)
  BY <1>2, <1>5, <1>6, EchoesTaken
<1>9. Resends(r, c, u, e)
  BY <1>1, <1>2, <1>6, ResendsTaken
<1>10. u.state = t.state /\ u.up = t.up /\ u.snapshotRequired = t.snapshotRequired
  BY DEF Applied
<1>11. /\ B \subseteq A /\ \A o \in A : o \in B \/ o = m.opId
       /\ SnapshotAhead(g, r, u, e) <=> SnapshotAhead(g, r, t, d)
  <2>1. OneLess(d, e) /\ d[1].type = "set" /\ d[1].type # "snapshot" /\ t.state # "closed"
    OBVIOUS
  <2>2. /\ B \subseteq A
        /\ \A o \in A : o \in B \/ (d[1].type = "set" /\ o = d[1].opId)
        /\ SnapshotAhead(g, r, u, e) <=> SnapshotAhead(g, r, t, d)
    BY ONLY <1>10, <2>1, AheadTaken
  <2> QED
    BY <2>2
<1>12. A \subseteq 1..g.head /\ m.opId \in A
  BY <1>2 DEF OpsAhead, OpTrue
<1> HIDE DEF A, B
<1>13. ASSUME ~u.snapshotRequired PROVE Reaches(g, r, u, e, skips)
  <2>1. PICK k \in 0..g.head : k <= t.opIdLastSeen /\ (~gap => k = t.opIdLastSeen) /\ At(g, r, t, d, k)
    BY <1>10, <1>13, Zenon DEF Seen, Reaches
  <2>2. t.joined /\ t.lastApplied[m.path] <= t.opIdLastSeen
    BY <1>2, <1>3, <1>6, <1>10, <1>13 DEF Placed
  <2>3. StillPending(t, u, m)
    BY <1>2, <1>6, <2>2, EchoIsNews
  <2>4. Shows(g, t, A, k) /\ (~SnapshotAhead(g, r, t, d) => Covers(g, t, A, k))
    BY <2>1 DEF At, A
  <2>5. Shows(g, u, B, k)
    <3>1. k \in Int /\ m.opId \in Int /\ Applied(t, m, u) /\ t \in Tab /\ u \in Tab
      BY <1>1, <1>2
    <3> HIDE DEF m
    <3> QED
      BY ONLY <1>1, <1>2, <1>11, <1>12, <2>3, <2>4, <3>1, ShowsApplied
  <2>6. Covers(g, t, A, k) => Covers(g, u, B, k)
    BY <1>1, <1>2, <1>11, CoversApplied
  <2>7. u.opIdLastSeen = IF m.opId > t.opIdLastSeen THEN m.opId ELSE t.opIdLastSeen
    BY <2>2 DEF Applied
  <2>8. t.opIdLastSeen \in Int /\ u.opIdLastSeen \in Int
    BY DEF Tab, NoOp
  <2>9. CASE skips \/ m.opId <= t.opIdLastSeen
    <3>1. At(g, r, u, e, k)
      BY <1>11, <2>4, <2>5, <2>6 DEF At, B
    <3>2. k <= u.opIdLastSeen /\ (~skips => k = u.opIdLastSeen)
      BY <1>2, <2>1, <2>7, <2>8, <2>9
    <3> QED
      BY <2>1, <3>1, <3>2, Zenon DEF Reaches
  <2>10. CASE ~skips /\ m.opId > t.opIdLastSeen
    <3> DEFINE l == m.opId
    <3>1. l = k + 1 /\ l = u.opIdLastSeen /\ l \in 0..g.head /\ k <= l
      BY <1>2, <2>1, <2>7, <2>8, <2>10 DEF OpTrue
    <3>2. u.lastApplied \in [Path -> Int]
      BY DEF Tab, NoOp
    <3>3. m.opId <= u.lastApplied[m.path] /\ g.path[m.opId] = m.path
      <4>1. u.lastApplied[m.path] = IF IsNews(t, m) THEN m.opId ELSE t.lastApplied[m.path]
        BY <1>2 DEF Applied
      <4>2. t.lastApplied[m.path] \in Int
        BY <1>2 DEF Tab, NoOp
      <4> QED
        BY <1>2, <4>1, <4>2 DEF IsNews, OpTrue
    <3>4. \A o \in 1..g.head : k < o /\ o <= l => o <= u.lastApplied[g.path[o]]
      <4>1. \A o \in 1..g.head : k < o /\ o <= l => o = m.opId
        BY <3>1
      <4> QED
        BY <3>3, <4>1
    <3>5. B \subseteq 1..g.head
      BY <1>11, <1>12
    <3> HIDE DEF l
    <3>6. Shows(g, u, B, l)
      BY <1>1, <2>5, <3>1, <3>2, <3>4, <3>5, ShowsRaised
    <3>7. Covers(g, u, B, k) => Covers(g, u, B, l)
      BY <3>1 DEF Covers
    <3>8. At(g, r, u, e, l)
      BY <1>11, <2>4, <2>6, <3>6, <3>7 DEF At, B
    <3>9. l <= u.opIdLastSeen
      BY <2>8, <3>1
    <3> QED
      BY <3>1, <3>8, <3>9, Zenon DEF Reaches
  <2> QED
    BY <1>2, <2>8, <2>9, <2>10
<1>14. u.snapshotRequired => SnapshotAhead(g, r, u, e)
  BY <1>10, <1>11 DEF Seen
<1> QED
  BY <1>7, <1>8, <1>9, <1>13, <1>14, Zenon DEF Seen

LEMMA OnSetAgrees ==
  ASSUME IInv, IInv', NEW g, AgreeInv(g), NEW c \in Client, OnSet(c)
  PROVE  AgreeInv(g)'
<1> DEFINE t == tab[c]
           d == down[c]
           u == Dispatched(t, Head(d))
           e == Tail(d)
           skips == c \in gapped'
<1>1. /\ t \in Tab /\ d \in Seq(Reply) /\ room \in Room /\ Requesting(t) /\ t.opIdLastSeen \in Int
      /\ t.inFlight # {} => Live(t)
      /\ t.state = "closed" => d = <<>>
  BY TabFacts
<1>2. /\ d # <<>> /\ Head(d).type = "set" /\ tab' = [tab EXCEPT ![c] = u] /\ down' = [down EXCEPT ![c] = e]
      /\ gapped' = (IF Head(d).opId > t.opIdLastSeen + 1 THEN gapped \cup {c} ELSE gapped)
      /\ UNCHANGED <<room, excused>>
  BY DEF OnSet, Receive
<1>3. OneLess(d, e) /\ Head(d) = d[1] /\ Head(d) \in Reply
  BY <1>1, <1>2, TakenOne
<1>4. tab'[c] = u
  BY <1>2 DEF IInv, TabsTyped
<1>5. u \in Tab
  BY <1>4 DEF IInv, TabsTyped
<1>6. Applied(t, d[1], u)
  BY <1>1, <1>2, <1>3, DispatchedApplies
<1>7. d[1].type = "set" /\ t.state # "closed"
  BY <1>1, <1>2, <1>3
<1> HIDE DEF u, e
<1>8. Agrees(g, room, c, t, d, c \in gapped, c \in excused) /\ g.head \in Nat /\ History(g, room)
  BY DEF AgreeInv, History
<1>9. Frames(g, room, c, t, d)
  BY <1>8 DEF Agrees
<1>10. Frames(g, room, c, u, e)
  <2>1. /\ u.state = t.state /\ u.up = t.up /\ u.joined = t.joined /\ u.clientSeq = t.clientSeq
        /\ ~u.snapshotRequired => u.joined
        /\ u.opIdLastSeen = (IF d[1].type = "set" /\ t.joined /\ d[1].opId > t.opIdLastSeen THEN d[1].opId
                             ELSE t.opIdLastSeen) \/ ~Live(t)
    BY <1>6, <1>7, <1>9 DEF Applied, Frames, Phase
  <2> QED
    BY <1>1, <1>3, <1>7, <1>8, <1>9, <2>1, FramesReceived
<1>11. d[1].opId \in Int
  BY <1>3, <1>7, ReplyFields
<1>12. ~skips => c \notin gapped /\ d[1].opId <= t.opIdLastSeen + 1
  BY <1>1, <1>2, <1>3, <1>11
<1>13. skips => ~Live(u)
  <2>1. c \in gapped => ~Live(u)
    BY <1>6, <1>8 DEF Agrees, Applied, Live
  <2>2. Live(u) => d[1].opId <= t.opIdLastSeen + 1
    <3>1. ASSUME Live(u) PROVE d[1].opId <= t.opIdLastSeen + 1
      <4>1. Live(t)
        BY <1>6, <3>1 DEF Applied, Live
      <4>2. GoesOn(d, 0, t.opIdLastSeen, g.head)
        BY <1>9, <4>1 DEF Frames, NoGap
      <4>3. Numbered(d) /\ g.head \in Int
        BY <1>1, <1>8, AreNumbered
      <4> QED
        BY <1>1, <1>3, <1>7, <4>2, <4>3, GoesOnTaken
    <3> QED
      BY <3>1
  <2> QED
    BY <1>1, <1>2, <1>3, <1>11, <2>1, <2>2
<1>14. Seen(g, room, c, t, d, c \in gapped) => Seen(g, room, c, u, e, skips)
  <2> DEFINE gap == c \in gapped
  <2>1. ~skips => ~gap /\ d[1].opId <= t.opIdLastSeen + 1
    BY <1>12
  <2> HIDE DEF gap, skips
  <2>2. Seen(g, room, c, t, d, gap) => Seen(g, room, c, u, e, skips)
    BY <1>1, <1>3, <1>5, <1>6, <1>7, <1>8, <1>9, <2>1, SeenApplied
  <2> QED
    BY <2>2 DEF gap
<1>15. Agrees(g, room, c, u, e, skips, c \in excused')
  <2>1. Agrees(g, room, c, u, e, skips, c \in excused)
    BY <1>8, <1>10, <1>13, <1>14, Zenon DEF Agrees
  <2> QED
    BY <1>2, <2>1
<1>16. gapped' \cup {c} = gapped \cup {c} /\ excused' \cup {c} = excused \cup {c}
  BY <1>2
<1> QED
  BY <1>2, <1>15, <1>16, ChangedAgrees

\* The answer to a hello is at its end: everything up to the head it promised has come.
LEMMA SeenCompleted ==
  ASSUME NEW g, NEW r \in Room, History(g, r), NEW c, NEW t \in Tab, NEW s \in Tab, Requesting(t), NEW d \in Seq(Reply),
         NEW e, OneLess(d, e), d[1].type = "complete", Frames(g, r, c, t, d), t.state = "catching-up",
         t.inFlight = {}, \A i \in 1..Len(e) : e[i].type = "set",
         SameView([t EXCEPT !.opIdLastSeen = d[1].opId], s), s.up = t.up, Live(s), NEW gap, Seen(g, r, c, t, d, gap)
  PROVE  Seen(g, r, c, s, e, FALSE)
<1> DEFINE h == d[1].opId
           A == OpsAhead(g, r, t, d)
<1>1. /\ g.head \in Nat /\ g.path \in [1..g.head -> Path] /\ LeavesTrue(g)
  BY DEF History
<1>2. /\ 1 \in 1..Len(d) /\ 1 \in Marks(d) /\ Numbered(d) /\ h \in 0..g.head
  <2>1. 1 \in 1..Len(d) /\ Numbered(d) /\ FrameTrue(g, d[1])
    BY <1>1, FramesLess
  <2> QED
    BY <2>1 DEF Marks, FrameTrue
<1>3. /\ s.opIdLastSeen = h /\ s.snapshotRequired = t.snapshotRequired /\ s.lastApplied = t.lastApplied
      /\ s.project = t.project /\ s.pending = t.pending /\ s.offline = t.offline /\ s.inFlight = t.inFlight
  BY DEF SameView, Tab
<1>4. /\ \A i \in Sets(e) : i + 1 \in Sets(d) /\ e[i] = d[i + 1] /\ i \in Nat /\ 1 <= i
      /\ \A i \in Sets(d) : i \in Nat /\ (i = 1 \/ (i - 1 \in Sets(e) /\ e[i - 1] = d[i] /\ 1 < i))
      /\ Len(e) \in Nat /\ Len(d) = Len(e) + 1 /\ \A i \in 1..Len(e) : e[i] = d[i + 1]
  <2>1. Len(e) \in Nat /\ Len(d) = Len(e) + 1 /\ \A i \in 1..Len(e) : e[i] = d[i + 1]
    BY DEF OneLess
  <2> QED
    BY <2>1, SetsMoved
<1>5. 1 \notin Sets(d) /\ Marks(e) = {}
  BY DEF Sets, Marks
<1>6. t.up = <<>>
  <2>1. \A i \in 1..Len(t.up) : t.up[i].type = "hello"
    BY DEF Frames, Phase, Live
  <2>2. \A i \in 1..Len(t.up) : t.up[i].type # "hello"
    BY <1>2 DEF Frames, Phase
  <2>3. Len(t.up) = 0
    <3>1. Len(t.up) \in Nat
      BY DEF Tab
    <3>2. Len(t.up) # 0 => 1 \in 1..Len(t.up)
      BY <3>1
    <3> QED
      BY <2>1, <2>2, <3>2
  <2> QED
    BY <2>3, EmptySeq DEF Tab
<1>7. ~Asks(t) /\ ~Asks(s)
  BY <1>6, OfNone DEF Asks, Live
<1>8. ~SnapshotAhead(g, r, t, d)
  <2>1. \A i \in 1..Len(d) : d[i].type # "snapshot"
    <3>1. \A i \in 1..Len(d) : i = 1 \/ (i - 1 \in 1..Len(e) /\ e[i - 1] = d[i])
      BY <1>4
    <3> QED
      BY <3>1
  <2> QED
    BY <1>7, <2>1 DEF SnapshotAhead
<1>9. ~t.snapshotRequired
  BY <1>8 DEF Seen
<1>10. OpsAhead(g, r, s, e) = A /\ A \subseteq 1..g.head /\ \A o \in A : \E i \in Sets(d) : d[i].opId = o
  <2>1. \A i \in Sets(d) : i - 1 \in Sets(e) /\ e[i - 1] = d[i]
    BY <1>4, <1>5
  <2>2. \A i \in Sets(e) : i + 1 \in Sets(d) /\ e[i] = d[i + 1]
    BY <1>4
  <2>3. \A o : (\E i \in Sets(d) : d[i].opId = o) <=> (\E i \in Sets(e) : e[i].opId = o)
    BY <2>1, <2>2
  <2> QED
    BY <1>7, <2>3 DEF OpsAhead, Replays
<1>11. ASSUME NEW o \in A PROVE h < o
  <2>1. PICK i \in Sets(d) : d[i].opId = o
    BY <1>10
  <2>2. 1 < i
    BY <1>4, <1>5
  <2>3. NewerBehind(d)
    BY DEF Frames, Divides
  <2> QED
    BY <1>2, <2>1, <2>2, <2>3 DEF NewerBehind
<1> HIDE DEF A
<1>12. t.opIdLastSeen <= h /\ t.opIdLastSeen \in Int
  BY <1>2 DEF Seen, Placed, Tab, NoOp
<1>13. Placed(g, s, e)
  <2>1. ASSUME NEW p \in Path PROVE s.lastApplied[p] <= h
    <3>1. t.lastApplied[p] <= t.opIdLastSeen /\ t.lastApplied[p] \in Int
      BY <1>9 DEF Seen, Placed, Tab, NoOp
    <3> QED
      BY <1>2, <1>3, <1>12, <3>1
  <2> QED
    BY <1>1, <1>2, <1>3, <1>5, <1>7, <2>1 DEF Placed
<1>14. Reaches(g, r, s, e, FALSE)
  <2>1. PICK k \in 0..g.head : k <= t.opIdLastSeen /\ At(g, r, t, d, k)
    BY <1>9, Zenon DEF Seen, Reaches
  <2>2. Shows(g, t, A, k) /\ Covers(g, t, A, k)
    BY <1>8, <2>1 DEF At, A
  <2>3. ShowsAs(t, s)
    BY <1>3 DEF ShowsAs, HasPending, InFlightOn
  <2>4. Shows(g, s, A, k) /\ Covers(g, s, A, k)
    BY <2>2, <2>3, ShowsStill
  <2>5. \A o \in 1..g.head : k < o /\ o <= h => o <= s.lastApplied[g.path[o]]
    <3>1. ASSUME NEW o \in 1..g.head, k < o, o <= h PROVE o <= s.lastApplied[g.path[o]]
      <4>1. o <= s.lastApplied[g.path[o]] \/ o \in A
        BY <2>4, <3>1 DEF Covers
      <4>2. o \notin A
        BY <1>2, <1>11, <3>1
      <4> QED
        BY <4>1, <4>2
    <3> QED
      BY <3>1
  <2>6. s.lastApplied \in [Path -> Int] /\ k <= h
    BY <1>2, <1>12, <2>1 DEF Tab, NoOp
  <2> HIDE DEF h
  <2>7. Shows(g, s, A, h)
    BY <1>1, <1>2, <1>10, <2>1, <2>4, <2>5, <2>6, ShowsRaised
  <2>8. Covers(g, s, A, h)
    BY <1>2, <2>1, <2>4, <2>6 DEF Covers
  <2>9. At(g, r, s, e, h)
    BY <1>10, <2>7, <2>8 DEF At
  <2>10. h \in 0..g.head /\ h <= s.opIdLastSeen /\ h = s.opIdLastSeen
    BY <1>2, <1>3
  <2> QED
    BY <2>9, <2>10, Zenon DEF Reaches
<1>15. Echoes(s, e) /\ Resends(r, c, s, e)
  BY <1>3, <1>6, OfNone DEF Echoes, Resends
<1> QED
  BY <1>3, <1>9, <1>13, <1>14, <1>15, Zenon DEF Seen

LEMMA OnCompleteAgrees ==
  ASSUME IInv, IInv', NEW g, AgreeInv(g), NEW c \in Client, OnComplete(c)
  PROVE  AgreeInv(g)'
<1> DEFINE t == tab[c]
           d == down[c]
           h == Head(d).opId
           s == [RecordOpIdSeen(t, h) EXCEPT !.state = "live", !.syncReady = TRUE]
           x == [s EXCEPT !.offline = NoEntries]
           u == FlushAll(x, s.offline)
           e == Tail(d)
<1>1. /\ t \in Tab /\ d \in Seq(Reply) /\ room \in Room /\ Requesting(t) /\ t.opIdLastSeen \in Int
      /\ t.inFlight # {} => Live(t)
      /\ t.state = "closed" => d = <<>>
      /\ SeqsKnown(t, d)
  BY TabFacts
<1>2. /\ d # <<>> /\ Head(d).type = "complete" /\ tab' = [tab EXCEPT ![c] = u] /\ down' = [down EXCEPT ![c] = e]
      /\ gapped' = gapped \ {c} /\ UNCHANGED <<room, excused>>
  BY DEF OnComplete, Receive
<1>3. OneLess(d, e) /\ Head(d) = d[1] /\ Head(d) \in Reply
  BY <1>1, <1>2, TakenOne
<1>4. tab'[c] = u
  BY <1>2 DEF IInv, TabsTyped
<1>5. u \in Tab /\ Requesting(u)
  BY <1>4 DEF IInv, TabsTyped, TabsKept, Kept
<1>6. d[1].type = "complete" /\ t.state # "closed" /\ h = d[1].opId /\ h \in Nat
  BY <1>1, <1>2, <1>3, ReplyFields
<1> HIDE DEF h
<1>7. /\ s \in Tab /\ s.state = "live" /\ s.joined = t.joined /\ s.snapshotRequired = t.snapshotRequired
      /\ s.lastApplied = t.lastApplied /\ s.project = t.project /\ s.clientSeq = t.clientSeq
      /\ s.pending = t.pending /\ s.offline = t.offline /\ s.inFlight = t.inFlight /\ s.up = t.up
      /\ s.opIdLastSeen = IF t.joined /\ h > t.opIdLastSeen THEN h ELSE t.opIdLastSeen
  BY <1>1, <1>6 DEF RecordOpIdSeen, Tab
<1> HIDE DEF s
<1>8. /\ x \in Tab /\ x.state = s.state /\ x.joined = s.joined /\ x.snapshotRequired = s.snapshotRequired
      /\ x.lastApplied = s.lastApplied /\ x.project = s.project /\ x.clientSeq = s.clientSeq
      /\ x.pending = s.pending /\ x.inFlight = s.inFlight /\ x.up = s.up /\ x.opIdLastSeen = s.opIdLastSeen
  BY <1>7, NothingPending DEF Tab
<1> HIDE DEF x
<1>9. Flows(x, s.offline, u)
  <2>1. s.offline \in [Path -> MaybeEntry]
    BY <1>7 DEF Tab
  <2> QED
    BY <1>8, <2>1, FlushFlows
<1> HIDE DEF u, e
<1>10. Onward(s, u) /\ Outward(s, u)
  <2>1. \A p \in Path : HasPending(s, p) => HasPending(x, p) \/ s.offline[p] # None
    BY <1>8 DEF HasPending, InFlightOn
  <2>2. x.inFlight \subseteq s.inFlight /\ \A p \in Path : x.project[p] = s.project[p] \/ s.offline[p] # None
    BY <1>8
  <2> QED
    BY ONLY <1>8, <1>9, <2>1, <2>2, FlowsOutward
<1>11. Agrees(g, room, c, t, d, c \in gapped, c \in excused) /\ g.head \in Nat /\ History(g, room)
  BY DEF AgreeInv, History
<1>12. Frames(g, room, c, t, d)
  BY <1>11 DEF Agrees
<1>13. u.state = "live" /\ u.joined = t.joined /\ u.clientSeq \in Nat /\ t.clientSeq <= u.clientSeq
       /\ u.opIdLastSeen \in Int /\ u.opIdLastSeen = s.opIdLastSeen
  BY <1>5, <1>7, <1>10 DEF Onward, Tab, NoOp

\* The tab has been welcomed on this connection or before.
<1>14. t.joined
  <2>1. t.state # "live"
    <3>1. Live(t) => d[1].type \in {"set", "nack"}
      <4>1. 1 \in 1..Len(d)
        BY <1>3, SetsMoved
      <4> QED
        BY <1>12, <4>1 DEF Frames, Phase
    <3> QED
      BY <1>6, <3>1 DEF Live
  <2>2. t.state # "opening"
    <3>1. ASSUME t.state = "opening" PROVE FALSE
      <4>1. 1 \in Marks(d)
        BY <1>3, <1>6, SetsMoved DEF Marks
      <4>2. \E j \in 1..Len(d) : j < 1 /\ d[j].type = "welcome"
        BY <1>12, <3>1, <4>1 DEF Frames, Phase
      <4> QED
        BY <4>2
    <3> QED
      BY <3>1
  <2>3. t.state = "catching-up"
    BY <1>1, <1>6, <2>1, <2>2 DEF Tab
  <2> QED
    BY <1>12, <2>3 DEF Frames, Phase
<1>15. d[1].opId <= u.opIdLastSeen
  <2>1. s.opIdLastSeen = IF h > t.opIdLastSeen THEN h ELSE t.opIdLastSeen
    BY <1>7, <1>14
  <2>2. h <= s.opIdLastSeen
    BY <1>1, <1>6, <2>1
  <2>3. d[1].opId = h /\ u.opIdLastSeen = s.opIdLastSeen
    BY <1>6, <1>13
  <2> QED
    BY ONLY <2>2, <2>3
<1>16. Frames(g, room, c, u, e) /\ t.state = "catching-up" /\ \A i \in 1..Len(e) : e[i].type = "set"
  <2>1. g.head \in Nat
    BY <1>11
  <2> HIDE DEF t, d
  <2>2. /\ OneLess(d, e) /\ d[1].type = "complete" /\ t.state # "closed" /\ t \in Tab /\ d \in Seq(Reply)
        /\ room \in Room /\ Requesting(u) /\ u.state = "live" /\ u.joined = t.joined /\ u.clientSeq \in Nat
        /\ t.clientSeq <= u.clientSeq /\ u.opIdLastSeen \in Int
    BY ONLY <1>1, <1>3, <1>5, <1>6, <1>13
  <2>3. Frames(g, room, c, u, e) /\ t.state = "catching-up" /\ t.joined /\ \A i \in 1..Len(e) : e[i].type = "set"
    BY ONLY <1>12, <1>15, <2>1, <2>2, FramesCompleted
  <2> QED
    BY ONLY <2>3
<1>17. ASSUME c \notin excused PROVE Seen(g, room, c, u, e, FALSE)
  <2> DEFINE gap == c \in gapped
  <2>1. Seen(g, room, c, t, d, gap)
    BY <1>11, <1>17, Zenon DEF Agrees
  <2> HIDE DEF gap
  <2>2. t.opIdLastSeen <= h
    <3>1. 1 \in Marks(d)
      BY <1>3, <1>6, SetsMoved DEF Marks
    <3> QED
      BY <1>6, <2>1, <3>1 DEF Seen, Placed
  <2>3. SameView([t EXCEPT !.opIdLastSeen = d[1].opId], s)
    <3>1. s.opIdLastSeen = d[1].opId
      BY <1>1, <1>6, <1>7, <1>14, <2>2
    <3> QED
      BY <1>1, <1>7, <3>1 DEF SameView, Tab
  <2>4. t.inFlight = {} /\ Live(s)
    BY <1>1, <1>7, <1>16 DEF Live
  <2>5. Seen(g, room, c, s, e, FALSE)
    BY <1>1, <1>3, <1>6, <1>7, <1>11, <1>12, <1>16, <2>1, <2>3, <2>4, SeenCompleted
  <2>6. Requesting(s)
    <3>1. \A i \in 1..Len(t.up) : t.up[i].type # "hello"
      <4>1. 1 \in 1..Len(d)
        BY <1>3, SetsMoved
      <4> QED
        BY <1>6, <1>12, <4>1 DEF Frames, Phase
    <3> QED
      BY <1>1, <1>7, <3>1 DEF Requesting
  <2>7. SeqsKnown(s, e) /\ SeqsUsed(room, c, s)
    <3>1. \A i \in Sets(e) : i + 1 \in Sets(d) /\ e[i] = d[i + 1]
      BY <1>3, SetsMoved
    <3> QED
      BY <1>1, <1>7, <1>12, <3>1 DEF SeqsKnown, Frames, SeqsUsed
  <2> QED
    BY <1>1, <1>5, <1>7, <1>10, <2>5, <2>6, <2>7, SeenOnward
<1>18. c \notin gapped'
  BY <1>2
<1>19. Agrees(g, room, c, u, e, c \in gapped', c \in excused')
  <2>1. c \notin excused' => Seen(g, room, c, u, e, FALSE)
    BY <1>2, <1>17
  <2> QED
    BY <1>16, <1>18, <2>1, Zenon DEF Agrees, Seen, Reaches
<1>20. gapped' \cup {c} = gapped \cup {c} /\ excused' \cup {c} = excused \cup {c}
  BY <1>2
<1>21. tab' = [tab EXCEPT ![c] = u] /\ down' = [down EXCEPT ![c] = e] /\ UNCHANGED room
  BY <1>2
<1> QED
  BY <1>19, <1>20, <1>21, ChangedAgrees

\* The tab shows a snapshot: what it had seen before does not matter.
LEMMA SeenSnapshot ==
  ASSUME NEW g, NEW r, g.head \in Nat, NEW c, NEW t, NEW d, NEW e, OneLess(d, e), NEW gap, d[1].type = "snapshot",
         d[1].opId \in 0..g.head, d[1].project = g.at[d[1].opId], Divides(g, d),
         t.state \notin {"closed", "opening"}, t.up = <<>>, t.inFlight = {}, ~t.snapshotRequired, t.opIdLastSeen = d[1].opId,
         \A p \in Path : t.lastApplied[p] = NoOp /\ t.project[p] = d[1].project[p]
  PROVE  Seen(g, r, c, t, e, gap)
<1> DEFINE k == d[1].opId
           A == OpsAhead(g, r, t, e)
<1>1. ~Asks(t)
  BY OfNone DEF Asks
<1>2. 1 \in 1..Len(d) /\ 1 \in Marks(d) /\ 1 \notin Sets(d)
  BY SetsMoved DEF Marks, Sets
<1>3. Placed(g, t, e)
  <2>1. ASSUME NEW i \in Marks(e) PROVE k <= e[i].opId
    <3>1. i + 1 \in Marks(d) /\ e[i] = d[i + 1] /\ i \in Nat /\ i # 0
      <4>1. i + 1 \in Marks(d) /\ e[i] = d[i + 1] /\ i \in Nat
        BY SetsMoved
      <4> QED
        BY <4>1 DEF Marks
    <3> QED
      BY <1>2, <3>1 DEF Divides, OlderBefore
  <2>2. \A p \in Path : t.lastApplied[p] <= t.opIdLastSeen
    BY DEF NoOp
  <2> QED
    BY <1>1, <2>1, <2>2 DEF Placed
<1>4. \A i \in Sets(e) : i + 1 \in Sets(d) /\ e[i] = d[i + 1] /\ i \in Nat /\ 1 < i + 1
  BY SetsMoved
<1>5. \A o \in A : k < o
  <2>1. \A o \in A : \E i \in Sets(e) : e[i].opId = o
    BY <1>1 DEF OpsAhead, Replays
  <2> QED
    BY <1>2, <1>4, <2>1 DEF Divides, NewerBehind
<1>6. \A o \in 1..g.head : k < o => o \in A
  <2>1. ASSUME NEW o \in 1..g.head, k < o PROVE o \in A
    <3>1. PICK j \in Sets(d) : 1 < j /\ d[j].opId = o
      BY <1>2, <2>1 DEF Divides, AllBehind
    <3>2. j - 1 \in Sets(e) /\ e[j - 1] = d[j]
      BY <1>2, <3>1, SetsMoved
    <3> QED
      BY <3>1, <3>2 DEF OpsAhead
  <2> QED
    BY <2>1
<1>7. Reaches(g, r, t, e, gap)
  <2>1. Shows(g, t, A, k)
    <3>1. \A p \in Path : Upto(t, p, k) = k
      BY DEF Upto, NoOp
    <3> QED
      BY <1>5, <3>1 DEF Shows
  <2>2. Covers(g, t, A, k)
    BY <1>6 DEF Covers
  <2>3. At(g, r, t, e, k)
    BY <2>1, <2>2 DEF At
  <2>4. k \in 0..g.head /\ k <= t.opIdLastSeen /\ k = t.opIdLastSeen
    OBVIOUS
  <2> HIDE DEF k
  <2> QED
    BY <2>3, <2>4, Zenon DEF Reaches
<1>8. Echoes(t, e) /\ Resends(r, c, t, e)
  BY OfNone DEF Echoes, Resends
<1> QED
  BY <1>3, <1>7, <1>8, Zenon DEF Seen

LEMMA OnSnapshotAgrees ==
  ASSUME IInv, IInv', NEW g, AgreeInv(g), NEW c \in Client, OnSnapshot(c)
  PROVE  AgreeInv(g)'
<1> DEFINE t == tab[c]
           d == down[c]
           h == Head(d).opId
           q == Head(d).project
           s == RecordOpIdSeen([t EXCEPT !.snapshotRequired = FALSE, !.project = q,
                                         !.lastApplied = [p \in Path |-> NoOp]], h)
           entries == Coalesced(s)
           x == [Untracked(s) EXCEPT
                   !.project = [p \in Path |-> IF entries[p] # None THEN entries[p].value ELSE @[p]]]
           u == Reassert(s)
           e == Tail(d)
<1>1. /\ t \in Tab /\ d \in Seq(Reply) /\ room \in Room /\ Requesting(t) /\ t.opIdLastSeen \in Int
      /\ t.inFlight # {} => Live(t)
      /\ t.state = "closed" => d = <<>>
      /\ SeqsKnown(t, d)
  BY TabFacts
<1>2. /\ d # <<>> /\ Head(d).type = "snapshot" /\ tab' = [tab EXCEPT ![c] = u] /\ down' = [down EXCEPT ![c] = e]
      /\ excused' = (IF s.opIdLastSeen = h THEN excused \ {c} ELSE excused) /\ UNCHANGED <<room, gapped>>
  BY DEF OnSnapshot, Receive
<1>3. OneLess(d, e) /\ Head(d) = d[1] /\ Head(d) \in Reply
  BY <1>1, <1>2, TakenOne
<1>4. tab'[c] = u
  BY <1>2 DEF IInv, TabsTyped
<1>5. u \in Tab /\ Requesting(u)
  BY <1>4 DEF IInv, TabsTyped, TabsKept, Kept
<1>6. /\ d[1].type = "snapshot" /\ t.state # "closed" /\ h = d[1].opId /\ q = d[1].project
      /\ h \in Nat /\ q \in Project /\ 1 \in 1..Len(d)
  BY <1>1, <1>2, <1>3, ReplyFields, SetsMoved
<1> HIDE DEF h, q
<1>7. Agrees(g, room, c, t, d, c \in gapped, c \in excused) /\ g.head \in Nat /\ History(g, room)
  BY DEF AgreeInv, History
<1>8. Frames(g, room, c, t, d)
  BY <1>7 DEF Agrees
<1>9. FrameTrue(g, d[1]) /\ Divides(g, d)
  BY <1>6, <1>8 DEF Frames, FramesTrue
<1>10. t.state = "catching-up" /\ t.joined
  <2>1. t.state # "live"
    BY <1>6, <1>8 DEF Frames, Phase, Live
  <2>2. ASSUME t.state = "opening" PROVE FALSE
    <3>1. 1 \in Marks(d)
      BY <1>6 DEF Marks
    <3>2. \E j \in 1..Len(d) : j < 1 /\ d[j].type = "welcome"
      BY <1>8, <2>2, <3>1 DEF Frames, Phase
    <3> QED
      BY <3>2
  <2>3. t.state = "catching-up"
    BY <1>1, <1>6, <2>1, <2>2 DEF Tab
  <2> QED
    BY <1>8, <2>3 DEF Frames, Phase
<1>11. ~Live(t) /\ t.inFlight = {}
  BY <1>1, <1>10 DEF Live
<1>12. t.up = <<>>
  <2>1. \A i \in 1..Len(t.up) : t.up[i].type = "hello"
    BY <1>8, <1>11 DEF Frames, Phase
  <2>2. \A i \in 1..Len(t.up) : t.up[i].type # "hello"
    BY <1>6, <1>8 DEF Frames, Phase
  <2>3. Len(t.up) \in Nat
    BY <1>1 DEF Tab
  <2>4. Len(t.up) # 0 => 1 \in 1..Len(t.up)
    BY <2>3
  <2>5. Len(t.up) = 0
    BY <2>1, <2>2, <2>4
  <2> QED
    BY <1>1, <2>5, EmptySeq DEF Tab
<1>13. /\ s \in Tab /\ s.state = t.state /\ s.joined = t.joined /\ ~s.snapshotRequired
       /\ s.lastApplied = [p \in Path |-> NoOp] /\ s.project = q /\ s.clientSeq = t.clientSeq
       /\ s.pending = t.pending /\ s.offline = t.offline /\ s.inFlight = t.inFlight /\ s.up = t.up
       /\ s.opIdLastSeen = IF t.joined /\ h > t.opIdLastSeen THEN h ELSE t.opIdLastSeen
  BY <1>1, <1>6 DEF RecordOpIdSeen, Tab
<1> HIDE DEF s
<1>14. entries \in [Path -> MaybeEntry] /\ \A p \in Path : HasPending(s, p) => entries[p] # None
  <2>1. Edits \in Nat /\ Tracking(t, Edits)
    BY OfTab DEF Kept
  <2>2. Tracking(s, Edits)
    BY <1>13, <2>1 DEF Tracking, Live
  <2>3. entries \in [Path -> MaybeEntry]
    BY <1>13, <2>1, <2>2, CoalescedOwes
  <2> QED
    BY <1>13, <2>1, <2>2, <2>3, CoalescedAll
<1>15. u = FlushAll(x, entries)
  BY DEF Reassert
<1> HIDE DEF entries
<1>16. /\ x \in Tab /\ x.state = s.state /\ x.joined = s.joined /\ x.snapshotRequired = s.snapshotRequired
       /\ x.lastApplied = s.lastApplied /\ x.clientSeq = s.clientSeq
       /\ x.inFlight = {} /\ x.up = s.up /\ x.opIdLastSeen = s.opIdLastSeen
       /\ \A p \in Path : x.project[p] = s.project[p] \/ entries[p] # None
  <2>1. [p \in Path |-> IF entries[p] # None THEN entries[p].value ELSE s.project[p]] \in Project
    <3>1. ASSUME NEW p \in Path PROVE (IF entries[p] # None THEN entries[p].value ELSE s.project[p]) \in Value
      <4>1. entries[p] \in MaybeEntry /\ s.project[p] \in Value
        BY <1>13, <1>14 DEF Tab, Project
      <4> QED
        BY <4>1, EntryFields
    <3> QED
      BY <3>1 DEF Project
  <2> QED
    BY <1>13, <2>1, NothingPending DEF Untracked, Tab
<1> HIDE DEF x, u, e
<1>17. Flows(x, entries, u)
  BY <1>14, <1>15, <1>16, FlushFlows
<1>18. Onward(s, u) /\ Outward(s, u)
  <2>1. \A p \in Path : HasPending(s, p) => HasPending(x, p) \/ entries[p] # None
    BY <1>14
  <2>2. x.inFlight \subseteq s.inFlight
    BY <1>16
  <2> QED
    BY ONLY <1>16, <1>17, <2>1, <2>2, FlowsOutward
<1>19. /\ u.state = t.state /\ u.up = t.up /\ u.joined = t.joined /\ u.clientSeq = t.clientSeq
       /\ ~u.snapshotRequired /\ ~Live(u)
  <2>1. ~Live(x)
    BY <1>11, <1>13, <1>16 DEF Live
  <2>2. u = QueuedIn(x, entries)
    BY <1>14, <1>15, <1>16, <2>1, FlushCases
  <2>3. u.clientSeq = x.clientSeq
    BY <1>16, <2>2 DEF QueuedIn, Tab
  <2> QED
    BY <1>11, <1>13, <1>16, <1>18, <2>3 DEF Onward, Live
<1>20. Frames(g, room, c, u, e)
  <2>1. g.head \in Nat /\ d[1].type \in {"set", "snapshot", "nack"}
    BY <1>6, <1>7
  <2>2. ~u.snapshotRequired => u.joined
    BY <1>10, <1>19
  <2> HIDE DEF t, d
  <2> QED
    BY ONLY <1>1, <1>3, <1>8, <1>11, <1>19, <2>1, <2>2, FramesReceived
<1>21. ASSUME c \notin excused' PROVE s.opIdLastSeen = h
  <2>1. CASE c \notin excused
    <3>1. Seen(g, room, c, t, d, c \in gapped)
      BY <1>7, <2>1, Zenon DEF Agrees
    <3>2. 1 \in Marks(d)
      BY <1>6 DEF Marks
    <3>3. t.opIdLastSeen <= h
      BY <1>6, <3>1, <3>2 DEF Seen, Placed
    <3> QED
      BY <1>1, <1>6, <1>10, <1>13, <3>3
  <2>2. CASE c \in excused
    BY <1>2, <1>21, <2>2
  <2> QED
    BY <2>1, <2>2
<1>22. ASSUME c \notin excused', NEW gap PROVE Seen(g, room, c, u, e, gap)
  <2>1. s.opIdLastSeen = d[1].opId
    BY <1>6, <1>21, <1>22
  <2>2. \A p \in Path : s.lastApplied[p] = NoOp /\ s.project[p] = d[1].project[p]
    BY <1>6, <1>13
  <2>3. d[1].opId \in 0..g.head /\ d[1].project = g.at[d[1].opId]
    BY <1>6, <1>9 DEF FrameTrue
  <2>4. s.state \notin {"closed", "opening"} /\ s.up = <<>> /\ s.inFlight = {} /\ ~s.snapshotRequired
    BY <1>10, <1>11, <1>12, <1>13
  <2>5. Seen(g, room, c, s, e, gap)
    BY <1>3, <1>6, <1>7, <1>9, <2>1, <2>2, <2>3, <2>4, SeenSnapshot
  <2>6. Requesting(s)
    BY <1>12, <1>13, OfNone DEF Requesting
  <2>7. SeqsKnown(s, e) /\ SeqsUsed(room, c, s)
    <3>1. \A i \in Sets(e) : i + 1 \in Sets(d) /\ e[i] = d[i + 1]
      BY <1>3, SetsMoved
    <3> QED
      BY <1>1, <1>8, <1>13, <3>1 DEF SeqsKnown, Frames, SeqsUsed
  <2> QED
    BY <1>1, <1>5, <1>13, <1>18, <2>5, <2>6, <2>7, SeenOnward
<1>23. Agrees(g, room, c, u, e, c \in gapped', c \in excused')
  <2>1. ~(c \in excused') => Seen(g, room, c, u, e, c \in gapped')
    BY <1>22
  <2> QED
    BY <1>19, <1>20, <2>1, Zenon DEF Agrees
<1>24. gapped' \cup {c} = gapped \cup {c} /\ excused' \cup {c} = excused \cup {c}
  BY <1>2
<1>25. tab' = [tab EXCEPT ![c] = u] /\ down' = [down EXCEPT ![c] = e] /\ UNCHANGED room
  BY <1>2
<1> QED
  BY <1>23, <1>24, <1>25, ChangedAgrees

LEMMA RestartAgrees ==
  ASSUME IInv, IInv', NEW g, AgreeInv(g), Restart
  PROVE  \E h : AgreeInv(h)'
<1>history. PICK h : h = Seeded(room.project)
  OBVIOUS
<1>1. /\ room' = NewRoom(room.project) /\ excused' = Client
      /\ \A c \in Client : tab'[c] = Closed(tab[c]) /\ down'[c] = <<>> /\ c \notin gapped'
  BY DEF Restart
<1>2. room.project \in Project
  BY DEF IInv, RoomTyped, Room
<1>3. History(h, room')
  BY <1>1, <1>2, <1>history, HistoryBegins
<1>4. ASSUME NEW c \in Client
      PROVE  Agrees(h, room', c, tab'[c], down'[c], c \in gapped', c \in excused')
  <2> DEFINE t == tab[c]
             u == Closed(t)
  <2>1. t \in Tab /\ Kept(t, owed[c], down[c], Edits) /\ Edits \in Nat
    BY OfTab
  <2>2. u \in Tab /\ u.state = "closed" /\ u.up = <<>>
    BY <2>1, ClosedKeeps
  <2>3. u.joined = t.joined /\ u.snapshotRequired = t.snapshotRequired
    BY <2>1 DEF Tab, Closed, Untracked
  <2>4. ~t.snapshotRequired => t.joined
    BY DEF AgreeInv, Agrees, Frames, Phase
  <2>5. SeqsUsed(room', c, u)
    BY <1>1 DEF SeqsUsed, NewRoom
  <2> HIDE DEF u
  <2>6. ~Live(u) /\ u.state # "catching-up" /\ \A i \in 1..Len(u.up) : FALSE
    BY <2>2, OfNone DEF Live
  <2>7. Frames(h, room', c, u, <<>>)
    BY <2>2, <2>3, <2>4, <2>5, <2>6, FramesOfNone
  <2>8. tab'[c] = u /\ down'[c] = <<>> /\ c \in excused'
    BY <1>1 DEF u
  <2> QED
    BY <2>6, <2>7, <2>8, Zenon DEF Agrees
<1>5. AgreeInv(h)'
  BY <1>3, <1>4, Zenon DEF AgreeInv
<1> QED
  BY <1>5

\* A room and its tabs agree by some history of the room.
Agreeing == \E g : AgreeInv(g)

LEMMA InitAgrees ==
  ASSUME Init
  PROVE  Agreeing
<1>history. PICK g : g = Seeded(Fresh)
  OBVIOUS
<1>1. /\ room = NewRoom(Fresh)
      /\ \A c \in Client : tab[c] = NewTab(FALSE, NoOp, 0) /\ down[c] = <<>>
      /\ gapped = {} /\ excused = {}
  BY DEF Init
<1>2. Fresh \in Project
  BY ClientSyncAssumption DEF Fresh, Project
<1>3. History(g, room) /\ g.head = 0
  BY <1>1, <1>2, <1>history, HistoryBegins
<1>4. ASSUME NEW c \in Client
      PROVE  Agrees(g, room, c, tab[c], down[c], c \in gapped, c \in excused)
  <2> DEFINE u == NewTab(FALSE, NoOp, 0)
  <2>1. u.state = "closed" /\ u.up = <<>> /\ u.snapshotRequired
    BY DEF NewTab
  <2>2. SeqsUsed(room, c, u)
    BY <1>1 DEF SeqsUsed, NewRoom
  <2>3. NoOp \in Nat \cup {NoOp} /\ NoOp <= g.head
    BY <1>3 DEF NoOp
  <2>4. Seen(g, room, c, u, <<>>, FALSE)
    BY <2>3, SeenFresh
  <2> HIDE DEF u
  <2>5. ~Live(u) /\ u.state # "catching-up" /\ \A i \in 1..Len(u.up) : FALSE
    BY <2>1, OfNone DEF Live
  <2>6. Frames(g, room, c, u, <<>>)
    BY <2>1, <2>2, <2>5, FramesOfNone
  <2>7. tab[c] = u /\ down[c] = <<>> /\ c \notin gapped
    BY <1>1 DEF u
  <2> QED
    BY <2>4, <2>6, <2>7, Zenon DEF Agrees, Seen, Reaches
<1>5. AgreeInv(g)
  BY <1>3, <1>4, Zenon DEF AgreeInv
<1> QED
  BY <1>5 DEF Agreeing

LEMMA HandleSetAgrees ==
  ASSUME IInv, IInv', NEW g, AgreeInv(g), NEW c \in Client, HandleSet(c)
  PROVE  \E h : AgreeInv(h)'
<1>1. CASE IsDuplicate(room, c, Head(tab[c].up).clientSeq)
  <2>1. AgreeInv(g)'
    BY <1>1, DuplicateAgrees
  <2> QED
    BY <2>1
<1>2. CASE ~IsDuplicate(room, c, Head(tab[c].up).clientSeq)
  BY <1>2, NewOpAgrees
<1> QED
  BY <1>1, <1>2

LEMMA NextAgrees ==
  ASSUME IInv, IInv', Agreeing, [Next]_vars
  PROVE  Agreeing'
<1>1. PICK g : AgreeInv(g)
  BY DEF Agreeing
<1> SUFFICES \E h : AgreeInv(h)'
  BY DEF Agreeing
<1>2. CASE UNCHANGED vars
  <2>1. AgreeInv(g)'
    BY <1>1, <1>2 DEF vars, AgreeInv
  <2> QED
    BY <2>1
<1> SUFFICES ASSUME Next PROVE \E h : AgreeInv(h)'
  BY <1>2
<1>3. ASSUME NEW c \in Client, Connect(c) PROVE \E h : AgreeInv(h)'
  <2>1. AgreeInv(g)'
    BY <1>1, <1>3, ConnectAgrees
  <2> QED
    BY <2>1
<1>4. ASSUME NEW c \in Client, NEW p \in Path, NEW end \in BOOLEAN, Edit(c, p, end) PROVE \E h : AgreeInv(h)'
  <2>1. AgreeInv(g)'
    BY <1>1, <1>4, EditAgrees
  <2> QED
    BY <2>1
<1>5. ASSUME NEW c \in Client, NEW p \in Path, Stray(c, p) PROVE \E h : AgreeInv(h)'
  <2>1. AgreeInv(g)'
    BY <1>1, <1>5, StrayAgrees
  <2> QED
    BY <2>1
<1>6. ASSUME NEW c \in Client, NEW p \in Path, FlushPath(c, p) PROVE \E h : AgreeInv(h)'
  <2>1. AgreeInv(g)'
    BY <1>1, <1>6, FlushPathAgrees
  <2> QED
    BY <2>1
<1>7. ASSUME NEW c \in Client, NEW e \in tab[c].inFlight, AckTimeout(c, e) PROVE \E h : AgreeInv(h)'
  <2>1. AgreeInv(g)'
    BY <1>1, <1>7, AckTimeoutAgrees
  <2> QED
    BY <2>1
<1>8. ASSUME NEW c \in Client, Drop(c) PROVE \E h : AgreeInv(h)'
  <2>1. AgreeInv(g)'
    BY <1>1, <1>8, DropAgrees
  <2> QED
    BY <2>1
<1>9. ASSUME NEW c \in Client, Reload(c) PROVE \E h : AgreeInv(h)'
  <2>1. AgreeInv(g)'
    BY <1>1, <1>9, ReloadAgrees
  <2> QED
    BY <2>1
<1>10. ASSUME NEW c \in Client, HandleHello(c) PROVE \E h : AgreeInv(h)'
  <2>1. AgreeInv(g)'
    BY <1>1, <1>10, HandleHelloAgrees
  <2> QED
    BY <2>1
<1>11. ASSUME NEW c \in Client, HandleSet(c) PROVE \E h : AgreeInv(h)'
  BY <1>1, <1>11, HandleSetAgrees
<1>12. ASSUME NEW c \in Client, Nack(c) PROVE \E h : AgreeInv(h)'
  <2>1. AgreeInv(g)'
    BY <1>1, <1>12, NackAgrees
  <2> QED
    BY <2>1
<1>13. ASSUME Restart PROVE \E h : AgreeInv(h)'
  BY <1>1, <1>13, RestartAgrees
<1>14. ASSUME NEW c \in Client, OnWelcome(c) PROVE \E h : AgreeInv(h)'
  <2>1. AgreeInv(g)'
    BY <1>1, <1>14, OnWelcomeAgrees
  <2> QED
    BY <2>1
<1>15. ASSUME NEW c \in Client, OnSnapshot(c) PROVE \E h : AgreeInv(h)'
  <2>1. AgreeInv(g)'
    BY <1>1, <1>15, OnSnapshotAgrees
  <2> QED
    BY <2>1
<1>16. ASSUME NEW c \in Client, OnSet(c) PROVE \E h : AgreeInv(h)'
  <2>1. AgreeInv(g)'
    BY <1>1, <1>16, OnSetAgrees
  <2> QED
    BY <2>1
<1>17. ASSUME NEW c \in Client, OnComplete(c) PROVE \E h : AgreeInv(h)'
  <2>1. AgreeInv(g)'
    BY <1>1, <1>17, OnCompleteAgrees
  <2> QED
    BY <2>1
<1>18. ASSUME NEW c \in Client, OnNack(c) PROVE \E h : AgreeInv(h)'
  <2>1. AgreeInv(g)'
    BY <1>1, <1>18, OnNackAgrees
  <2> QED
    BY <2>1
<1> QED
  BY <1>3, <1>4, <1>5, <1>6, <1>7, <1>8, <1>9, <1>10, <1>11, <1>12, <1>13, <1>14, <1>15, <1>16, <1>17, <1>18 DEF Next

-----------------------------------------------------------------------------
(* What the invariant says of a tab that is live, and of one that is quiet *)

LEMMA AgreeingHasNoGap == IInv /\ Agreeing => NoGapWhileLive
<1> SUFFICES ASSUME IInv, NEW g, AgreeInv(g), NEW c \in Client, Live(tab[c]), down[c] # <<>>,
                    Head(down[c]).type = "set"
             PROVE  Head(down[c]).opId <= tab[c].opIdLastSeen + 1
  BY DEF Agreeing, NoGapWhileLive
<1> DEFINE t == tab[c]
           d == down[c]
<1>1. d \in Seq(Reply) /\ t.opIdLastSeen \in Int /\ g.head \in Int
  BY TabFacts DEF AgreeInv, History
<1>2. OneLess(d, Tail(d)) /\ Head(d) = d[1] /\ Numbered(d)
  BY <1>1, TakenOne, AreNumbered
<1>3. GoesOn(d, 0, t.opIdLastSeen, g.head)
  BY DEF AgreeInv, Agrees, Frames, NoGap
<1> HIDE DEF t, d
<1>4. d[1].type = "set"
  BY <1>2 DEF d
<1>5. d[1].opId <= t.opIdLastSeen + 1
  BY <1>1, <1>2, <1>3, <1>4, GoesOnTaken
<1> QED
  BY <1>2, <1>5 DEF t, d

\* Nothing is on its way to or from the tab, so nothing newer than its watermark exists.
LEMMA AgreeingTabsAgree == IInv /\ Agreeing => QuietTabsAgree
<1> SUFFICES ASSUME IInv, NEW g, AgreeInv(g), NEW c \in Client, c \notin excused, Settled(c)
             PROVE  tab[c].project = room.project
  BY DEF Agreeing, QuietTabsAgree
<1> DEFINE t == tab[c]
           d == down[c]
           A == OpsAhead(g, room, t, d)
<1>1. /\ t \in Tab /\ d \in Seq(Reply) /\ room \in Room /\ Requesting(t) /\ t.opIdLastSeen \in Int
      /\ Live(t) /\ t.up = <<>> /\ d = <<>> /\ \A p \in Path : ~HasPending(t, p)
  BY TabFacts DEF Settled
<1>2. History(g, room) /\ g.head \in Nat
  BY DEF AgreeInv, History
<1>3. Agrees(g, room, c, t, d, c \in gapped, c \in excused)
  BY DEF AgreeInv
<1>4. c \notin gapped /\ Frames(g, room, c, t, d)
  BY <1>1, <1>3 DEF Agrees
<1>5. Seen(g, room, c, t, d, FALSE)
  BY <1>3, <1>4, Zenon DEF Agrees, Seen, Reaches
<1> HIDE DEF t, d
<1>6. Phase(t, d) /\ GoesOn(d, 0, t.opIdLastSeen, g.head)
  BY <1>1, <1>4 DEF Frames, NoGap
<1>7. ~t.snapshotRequired /\ ~Asks(t) /\ ~SnapshotAhead(g, room, t, d)
      /\ \A p \in Path : t.lastApplied[p] <= t.opIdLastSeen
  BY <1>1, <1>5, <1>6, LiveHasAll
<1>8. Sets(d) = {}
  BY <1>1, OfNone
<1>9. A = {}
  BY <1>7, <1>8 DEF OpsAhead, Replays
<1> HIDE DEF A
<1>10. t.opIdLastSeen = g.head
  <2>1. g.head <= t.opIdLastSeen
    BY <1>6, <1>8 DEF GoesOn, GetsTo
  <2>2. t.opIdLastSeen <= g.head
    BY <1>5 DEF Seen, Placed
  <2> QED
    BY <1>1, <1>2, <2>1, <2>2
<1>11. PICK k \in 0..g.head : k = t.opIdLastSeen /\ At(g, room, t, d, k)
  BY <1>5, <1>7, Zenon DEF Seen, Reaches
<1>12. Shows(g, t, A, g.head)
  BY <1>10, <1>11 DEF At, A
<1>13. ASSUME NEW p \in Path PROVE t.project[p] = room.project[p]
  <2>1. t.lastApplied[p] <= g.head
    BY <1>7, <1>10
  <2>2. t.lastApplied[p] \in Int
    BY <1>1 DEF Tab, NoOp
  <2>3. Upto(t, p, g.head) = g.head
    BY <1>2, <2>1, <2>2 DEF Upto
  <2>4. t.project[p] = g.at[g.head][p]
    BY <1>1, <1>12, <2>3 DEF Shows
  <2> QED
    BY <1>2, <2>4 DEF History
<1>14. t.project \in [Path -> Value] /\ room.project \in [Path -> Value]
  BY <1>1 DEF Tab, Room, Project
<1>15. t.project = room.project
  BY <1>13, <1>14
<1> QED
  BY <1>15 DEF t

-----------------------------------------------------------------------------
(* The theorems *)

LEMMA InitAgreeing == Init => IInv /\ Agreeing
BY InitInv, InitAgrees

LEMMA NextAgreeing == IInv /\ Agreeing /\ [Next]_vars => IInv' /\ Agreeing'
<1> SUFFICES ASSUME IInv, Agreeing, [Next]_vars PROVE IInv' /\ Agreeing'
  OBVIOUS
<1>1. IInv'
  BY NextInv
<1> QED
  BY <1>1, NextAgrees

\* By some history of the room, each tab shows an op's project and all that is newer is on its way to it.
THEOREM TabsFollowRoom == Spec => [](IInv /\ Agreeing)
BY InitAgreeing, NextAgreeing, PTL DEF Spec

\* A live tab never receives an op that skips one, so the resync of messageDispatch.ts has no occasion
\* on a connection that keeps its frames in order.
THEOREM NothingIsSkipped == Spec => []NoGapWhileLive
BY TabsFollowRoom, AgreeingHasNoGap, PTL

\* A tab on which nothing is under way shows the project the server holds, whatever order echoes,
\* peers' ops, reconnects, resends and snapshots came in (Outbox.ts, messageDispatch.ts, CommandBus.ts).
THEOREM QuietTabsShowTheRoom == Spec => []QuietTabsAgree
BY TabsFollowRoom, AgreeingTabsAgree, PTL

\* The part of the behaviours that edits.
EditsFollow == part = "edits" => IInv /\ Agreeing

LEMMA EditsFollowFirst == TabsInit => EditsFollow
BY InitAgreeing DEF TabsInit, EditsFollow

LEMMA EditsFollowNext == EditsFollow /\ [TabsNext]_<<bulkVars, part>> => EditsFollow'
<1> SUFFICES ASSUME EditsFollow, [TabsNext]_<<bulkVars, part>>, part' = "edits" PROVE IInv' /\ Agreeing'
  BY DEF EditsFollow
<1>1. part = "edits" /\ [Next]_vars
  BY DEF TabsNext, bulkVars
<1> QED
  BY <1>1, NextAgreeing DEF EditsFollow

LEMMA FollowingAgrees == EditsFollow => EditsAgree
BY IInvImplies, AgreeingTabsAgree, AgreeingHasNoGap DEF EditsFollow, EditsAgree

\* Quiet tabs show what the server holds and no live tab is sent an op that skips one, for any number of
\* clients, paths and values, any capacity of the ring buffer and any bounds on what befalls the room.
THEOREM EditsReachAgreement == TabsSpec => []EditsAgree
BY EditsFollowFirst, EditsFollowNext, FollowingAgrees, PTL DEF TabsSpec
=============================================================================
