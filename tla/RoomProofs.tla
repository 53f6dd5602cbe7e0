----------------------------- MODULE RoomProofs -----------------------------
(***************************************************************************)
(* The properties of a room's log, of the project as a document, of the     *)
(* library and of who is present, proved for every value of their constants. *)
(* The first two are proved of RoomLog and Documents, the others of their    *)
(* parts of the server that RoomServerMC composes.                          *)
(*                                                                         *)
(* RoomLog.  Base, the opId just below the log, is where replay ends.       *)
(* Above it every ledger entry is a logged set, one per key (LogContiguous, *)
(* IndexMirrorsLog); at it sits a load, the room's creation, or the end of  *)
(* a full window (LogReachesBack).  These give the exact replay window and  *)
(* the dedup window.  WritesSurvive, stated path by path, is what makes     *)
(* catch-up inductive: CatchUpRebuilds alone says nothing of the write a    *)
(* later op hides.                                                          *)
(*                                                                         *)
(* Documents, for pools, buffers, engines and keys of any number: what every *)
(* operation makes of whole projects, of old rows and of files of any       *)
(* content, and from that its four promises.  What is whole, old or any is  *)
(* said by the sets of Documents: DocumentsTypeOK puts each copy into its   *)
(* set and is inductive.                                                    *)
(*                                                                         *)
(* The library and the roster: an inductive invariant each, stated where    *)
(* its section begins.                                                      *)
(***************************************************************************)
EXTENDS RoomServerMC, SequenceTheorems, TLAPS

-----------------------------------------------------------------------------
(* The log of a room *)

\* The opId just below the log: the newest one a replay can no longer include.
Base == OpIdHead(room) - Len(room.opLog)

\* The log starts where it does for a reason: the ring buffer is full, or opId
\* Base was the room's creation or a load.
LogReachesBack ==
  /\ Base \in Nat
  /\ \/ Len(room.opLog) = Capacity
     \/ Base = 0
     \/ ledger[Base].load

\* Path p after opId k: untouched by the ops since, or last written by one of them.
WriteSurvives(k, p) ==
  \/ /\ \A op \in OpsSince(room, k) : op.path # p
     /\ ProjectAt(k)[p] = room.project[p]
  \/ \E op \in OpsSince(room, k) :
       /\ op.path = p
       /\ op.value = room.project[p]
       /\ \A o \in OpsSince(room, k) : o.path = p => o.opId <= op.opId

WritesSurvive == \A k \in Base..OpIdHead(room) : \A p \in Path : WriteSurvives(k, p)

Ind ==
  /\ TypeOK
  /\ LogContiguous
  /\ IndexMirrorsLog
  /\ LogReachesBack
  /\ AppliedOncePerWindow
  /\ WritesSurvive

-----------------------------------------------------------------------------

\* Pushing op and dropping the e oldest ops turns the log into kept.
Pushed(log, op, e, kept) ==
  /\ e = 1 <=> Len(log) = Capacity
  /\ kept \in Seq(Op)
  /\ Len(kept) = Len(log) + 1 - e
  /\ \A i \in 1..(Len(log) + 1 - e) :
       kept[i] = IF i = Len(log) + 1 - e THEN op ELSE log[i + e]

\* The splice at the end of appendOp drops one op exactly when the log was full.
LEMMA PushShape ==
  ASSUME NEW log \in Seq(Op), NEW op \in Op, Len(log) <= Capacity
  PROVE  \E e \in {0, 1} : /\ e = Excess(Append(log, op))
                           /\ Pushed(log, op, e, Evict(Append(log, op)))
<1>1. PICK pushed, excess, kept : /\ pushed = Append(log, op)
                                  /\ excess = Excess(pushed)
                                  /\ kept = Evict(pushed)
  OBVIOUS
<1>2. /\ pushed \in Seq(Op)
      /\ Len(pushed) = Len(log) + 1
      /\ \A i \in 1..Len(log) : pushed[i] = log[i]
      /\ pushed[Len(log) + 1] = op
  BY <1>1 DEF Op
<1>3. excess = IF Len(log) = Capacity THEN 1 ELSE 0
  BY <1>1, <1>2, CapacityAssumption DEF Excess
<1>4. PICK e \in {0, 1} : /\ e = excess
                          /\ e = 1 <=> Len(log) = Capacity
  BY <1>3
<1>5. Len(log) \in Nat
  OBVIOUS
<1>6. kept = SubSeq(pushed, e + 1, Len(log) + 1)
  BY <1>1, <1>2, <1>4 DEF Evict
<1>7. /\ kept \in Seq(Op)
      /\ Len(kept) = Len(log) + 1 - e
      /\ \A i \in 1..(Len(log) + 1 - e) : kept[i] = pushed[i + e]
  BY <1>2, <1>4, <1>5, <1>6, CapacityAssumption
<1>8. \A i \in 1..(Len(log) + 1 - e) :
        kept[i] = IF i = Len(log) + 1 - e THEN op ELSE log[i + e]
  <2> TAKE i \in 1..(Len(log) + 1 - e)
  <2>1. CASE i = Len(log) + 1 - e
    <3>1. i + e = Len(log) + 1
      BY <2>1, <1>5
    <3>2. QED BY <2>1, <3>1, <1>2, <1>7
  <2>2. CASE i # Len(log) + 1 - e
    <3>1. i + e \in 1..Len(log)
      BY <2>2, <1>5
    <3>2. pushed[i + e] = log[i + e]
      BY <3>1, <1>2
    <3>3. kept[i] = pushed[i + e]
      BY <1>7
    <3>4. QED BY <2>2, <3>2, <3>3
  <2>3. QED BY <2>1, <2>2
<1>9. QED BY <1>1, <1>4, <1>7, <1>8 DEF Pushed

\* What the invariant says of the numbers every proof below computes with.
LEMMA Numbers ==
  ASSUME Ind
  PROVE  /\ Len(room.opLog) \in 0..Capacity
         /\ OpIdHead(room) \in Nat
         /\ room.nextOpId = OpIdHead(room) + 1
         /\ Len(ledger) = OpIdHead(room)
         /\ Base \in 0..OpIdHead(room)
         /\ DOMAIN ledger = 1..OpIdHead(room)
         /\ DOMAIN room.opLog = 1..Len(room.opLog)
         /\ \A i \in 1..Len(room.opLog) : room.opLog[i] \in Op
<1>1. /\ room.opLog \in Seq(Op)
      /\ room.nextOpId \in Nat
      /\ ledger \in Seq(LoadEntry \cup SetEntry)
  BY DEF Ind, TypeOK, Room
<1>2. /\ Len(room.opLog) \in Nat
      /\ DOMAIN room.opLog = 1..Len(room.opLog)
      /\ \A i \in 1..Len(room.opLog) : room.opLog[i] \in Op
  BY <1>1
<1>3. Len(room.opLog) <= Capacity
  BY DEF Ind, TypeOK
<1>4. Len(ledger) \in Nat /\ DOMAIN ledger = 1..Len(ledger)
  BY <1>1
<1>5. Len(ledger) = room.nextOpId - 1
  BY DEF Ind, LogContiguous, OpIdHead
<1>6. Base \in Nat
  BY DEF Ind, LogReachesBack
<1>7. QED
  BY <1>1, <1>2, <1>3, <1>4, <1>5, <1>6, CapacityAssumption DEF OpIdHead, Base

\* A room starts with the invariant: no ops, nothing below the log.
LEMMA InitInd == Init => Ind
<1> SUFFICES ASSUME Init PROVE Ind
  OBVIOUS
<1> USE CapacityAssumption, RoomLogAssumption DEF Init, NewRoom
<1>1. TypeOK
  BY DEF TypeOK, Room, Op, Project
<1>2. OpIdHead(room) = 0 /\ Base = 0 /\ Len(room.opLog) = 0
  BY DEF OpIdHead, Base
<1>3. LogContiguous /\ IndexMirrorsLog /\ LogReachesBack /\ AppliedOncePerWindow
  BY <1>2 DEF LogContiguous, IndexMirrorsLog, LogReachesBack, AppliedOncePerWindow
<1>4. WritesSurvive
  BY <1>2 DEF WritesSurvive, WriteSurvives, OpsSince, ProjectAt
<1>5. QED BY <1>1, <1>3, <1>4 DEF Ind

\* A record with fields of the right types is a room.
LEMMA MakeRoom ==
  ASSUME NEW project \in Project, NEW opLog \in Seq(Op), NEW opIndex \in SUBSET Op,
         NEW nextOpId \in Nat, NEW dirty \in BOOLEAN, NEW version \in Nat
  PROVE  [project |-> project, opLog |-> opLog, opIndex |-> opIndex,
          nextOpId |-> nextOpId, dirty |-> dirty, version |-> version] \in Room
BY DEF Room

\* Every logged op sits at its opId, in the index, and its ledger entry is its own.
LEMMA LogEntries ==
  ASSUME Ind
  PROVE  /\ \A i \in 1..Len(room.opLog) : /\ room.opLog[i].opId = Base + i
                                          /\ room.opLog[i] \in room.opIndex
                                          /\ room.opLog[i] \in Op
                                          /\ Logged(Base + i, room.opLog[i])
         /\ \A o \in room.opIndex : \E i \in 1..Len(room.opLog) :
              o = room.opLog[i] /\ o.opId = Base + i
<1>1. \A i \in 1..Len(room.opLog) : Logged(Base + i, room.opLog[i])
  BY Numbers DEF Ind, LogContiguous, Base
<1>2. \A i \in 1..Len(room.opLog) : room.opLog[i].opId = Base + i
  BY <1>1 DEF Logged
<1>3. room.opIndex = {room.opLog[i] : i \in 1..Len(room.opLog)}
  BY Numbers DEF Ind, IndexMirrorsLog
<1>4. QED BY <1>1, <1>2, <1>3, Numbers

\* What the ledger is after a new op.
LedgerEffect(c, seq) ==
  /\ ledger' \in Seq(LoadEntry \cup SetEntry)
  /\ Len(ledger') = OpIdHead(room) + 1
  /\ \A i \in 1..OpIdHead(room) : ledger'[i] = ledger[i]
  /\ ledger'[OpIdHead(room) + 1].load = FALSE
  /\ ledger'[OpIdHead(room) + 1].clientId = c
  /\ ledger'[OpIdHead(room) + 1].clientSeq = seq
  /\ ledger'[OpIdHead(room) + 1].project = room'.project

\* What the room is after a new op whose push made the ring buffer drop e ops.
RoomEffect(op, e) ==
  /\ room' \in Room
  /\ room'.project = [room.project EXCEPT ![op.path] = op.value]
  /\ room'.nextOpId = OpIdHead(room) + 2
  /\ Pushed(room.opLog, op, e, room'.opLog)
  /\ room'.opIndex = {o \in room.opIndex : o.opId > Base + e} \cup {op}

\* The effect of a new op, in the terms the invariant needs.
AppendEffect(c, seq, op, e) ==
  /\ op \in Op
  /\ op.opId = OpIdHead(room) + 1
  /\ Key(op) = <<c, seq>>
  /\ RoomEffect(op, e)
  /\ LedgerEffect(c, seq)

\* A new op has that effect.
LEMMA AppendShape ==
  ASSUME Ind, NEW c \in Client, NEW seq \in 1..MaxSeq,
         ~IsDuplicate(room, c, seq), ApplySet(c, seq)
  PROVE  \E op : \E e \in {0, 1} : AppendEffect(c, seq, op, e)
<1> PICK op : op = [opId |-> room.nextOpId, clientId |-> c, clientSeq |-> seq,
                    path |-> Payload[c][seq].path, value |-> Payload[c][seq].value]
  OBVIOUS
<1>1. op.path = Payload[c][seq].path /\ op.value = Payload[c][seq].value
  OBVIOUS
<1>2. /\ room' = AppendOp(room, c, seq, op.path, op.value)
      /\ ledger' = Append(ledger, [load |-> FALSE, clientId |-> c, clientSeq |-> seq,
                                   project |-> room'.project])
  BY <1>1 DEF ApplySet
<1>3. op \in Op /\ room \in Room
  BY RoomLogAssumption DEF Ind, TypeOK, Room, Op
<1>4. PICK pushed : pushed = Append(room.opLog, op)
  OBVIOUS
<1>5. PICK project, opLog, opIndex :
        /\ project = [room.project EXCEPT ![op.path] = op.value]
        /\ opLog = Evict(pushed)
        /\ opIndex = Reindex(room.opIndex, op, {pushed[i] : i \in 1..Excess(pushed)})
  OBVIOUS
<1>6. room' = [project |-> project, opLog |-> opLog, opIndex |-> opIndex,
               nextOpId |-> room.nextOpId + 1, dirty |-> TRUE, version |-> room.version + 1]
  BY <1>4, <1>5, <1>2 DEF AppendOp
<1>7. /\ room'.project = project
      /\ room'.opLog = opLog
      /\ room'.opIndex = opIndex
      /\ room'.nextOpId = room.nextOpId + 1
  BY <1>6
<1>8. PICK e \in {0, 1} : e = Excess(pushed) /\ Pushed(room.opLog, op, e, Evict(pushed))
  <2>1. room.opLog \in Seq(Op) /\ Len(room.opLog) <= Capacity
    BY DEF Ind, TypeOK, Room
  <2>2. QED BY <1>4, <1>3, <2>1, PushShape
<1>9. \A o \in room.opIndex : Key(o) # Key(op) /\ o \in Op
  BY <1>3 DEF IsDuplicate, Key, Room
<1>10. Reindex(room.opIndex, op, {pushed[i] : i \in 1..Excess(pushed)})
        = {o \in room.opIndex : o.opId > Base + e} \cup {op}
  <2>1. CASE e = 0
    <3>1. {pushed[i] : i \in 1..Excess(pushed)} = {}
      BY <2>1, <1>8
    <3>2. \A o \in room.opIndex : o.opId > Base
      BY Numbers, LogEntries
    <3>3. Base + e = Base
      BY <2>1, Numbers
    <3>4. {o \in room.opIndex : o.opId > Base + e} = room.opIndex
      BY <3>2, <3>3
    <3>5. QED BY <3>1, <3>4, <1>9 DEF Reindex
  <2>2. CASE e = 1
    <3>1. 1 \in 1..Len(room.opLog) /\ pushed[1] = room.opLog[1]
      BY <2>2, <1>4, <1>3, <1>8, Numbers, CapacityAssumption DEF Room, Pushed
    <3>2. {pushed[i] : i \in 1..Excess(pushed)} = {room.opLog[1]}
      BY <2>2, <1>8, <3>1
    <3>3. room.opLog[1].opId = Base + 1 /\ room.opLog[1] \in room.opIndex
      BY <3>1, LogEntries
    <3>4. \A o \in room.opIndex : o # room.opLog[1] => o.opId > Base + 1
      <4>1. TAKE o \in room.opIndex
      <4>2. PICK i \in 1..Len(room.opLog) : o = room.opLog[i] /\ o.opId = Base + i
        BY LogEntries
      <4>3. QED BY <4>2, Numbers
    <3>5. \A o \in room.opIndex : Key(o) # Key(room.opLog[1]) <=> o.opId > Base + 1
      <4>1. TAKE o \in room.opIndex
      <4>2. CASE o = room.opLog[1]
        BY <4>2, <3>3, Numbers
      <4>3. CASE o # room.opLog[1]
        BY <4>3, <3>3, <3>4 DEF Ind, IndexMirrorsLog
      <4>4. QED BY <4>2, <4>3
    <3>6. Key(op) # Key(room.opLog[1])
      BY <3>3, <1>9
    <3>7. QED BY <2>2, <3>2, <3>5, <3>6, <1>9 DEF Reindex
  <2>3. QED BY <2>1, <2>2
<1>11. room' \in Room
  <2>1. opIndex \in SUBSET Op
    BY <1>3, <1>5, <1>9, <1>10
  <2>2. project \in Project
    BY <1>3, <1>5 DEF Room, Op, Project
  <2>3. room.nextOpId + 1 \in Nat /\ room.version + 1 \in Nat
    BY <1>3 DEF Room
  <2>4. opLog \in Seq(Op)
    BY <1>5, <1>8 DEF Pushed
  <2>5. QED BY <1>6, <2>1, <2>2, <2>3, <2>4, MakeRoom
<1>12. room.nextOpId = OpIdHead(room) + 1 /\ room'.nextOpId = OpIdHead(room) + 2
  BY <1>3, <1>7 DEF OpIdHead, Room
<1>13. /\ ledger' \in Seq(LoadEntry \cup SetEntry)
       /\ Len(ledger') = OpIdHead(room) + 1
       /\ \A i \in 1..OpIdHead(room) : ledger'[i] = ledger[i]
       /\ ledger'[OpIdHead(room) + 1].load = FALSE
       /\ ledger'[OpIdHead(room) + 1].clientId = c
       /\ ledger'[OpIdHead(room) + 1].clientSeq = seq
       /\ ledger'[OpIdHead(room) + 1].project = room'.project
  <2>1. PICK entry : entry = [load |-> FALSE, clientId |-> c, clientSeq |-> seq,
                              project |-> room'.project]
    OBVIOUS
  <2>2. /\ entry \in LoadEntry \cup SetEntry
        /\ entry.load = FALSE
        /\ entry.clientId = c
        /\ entry.clientSeq = seq
        /\ entry.project = room'.project
    BY <1>11, <2>1 DEF SetEntry, Room
  <2>3. ledger \in Seq(LoadEntry \cup SetEntry) /\ Len(ledger) = OpIdHead(room)
    BY Numbers DEF Ind, TypeOK
  <2>4. ledger' = Append(ledger, entry)
    BY <1>2, <2>1
  <2>5. /\ ledger' \in Seq(LoadEntry \cup SetEntry)
        /\ Len(ledger') = OpIdHead(room) + 1
        /\ \A i \in 1..OpIdHead(room) : ledger'[i] = ledger[i]
        /\ ledger'[OpIdHead(room) + 1] = entry
    BY <2>2, <2>3, <2>4
  <2>6. QED BY <2>2, <2>5
<1>14. /\ Pushed(room.opLog, op, e, room'.opLog)
       /\ room'.opIndex = {o \in room.opIndex : o.opId > Base + e} \cup {op}
  <2>1. room'.opLog = Evict(pushed)
    BY <1>5, <1>7
  <2>2. QED BY <1>5, <1>8, <1>10, <1>7, <2>1
<1>15. AppendEffect(c, seq, op, e)
  <2>1. op.opId = OpIdHead(room) + 1 /\ Key(op) = <<c, seq>>
    BY <1>12 DEF Key
  <2>2. room'.project = [room.project EXCEPT ![op.path] = op.value]
    BY <1>5, <1>7
  <2>3. RoomEffect(op, e)
    BY <1>11, <1>12, <1>14, <2>2 DEF RoomEffect
  <2>4. LedgerEffect(c, seq)
    BY <1>13 DEF LedgerEffect
  <2>5. QED BY <1>3, <2>1, <2>3, <2>4 DEF AppendEffect
<1>16. QED BY <1>15

\* A new op preserves every part of the invariant.
LEMMA AppendInd ==
  ASSUME Ind, NEW c \in Client, NEW seq \in 1..MaxSeq,
         ~IsDuplicate(room, c, seq), ApplySet(c, seq),
         clientSeq' \in [Client -> 0..MaxSeq]
  PROVE  Ind'
<1>1. PICK op : \E e \in {0, 1} : AppendEffect(c, seq, op, e)
  BY AppendShape
<1>2. PICK e \in {0, 1} : AppendEffect(c, seq, op, e)
  BY <1>1
<1>3. PICK n, h : n = Len(room.opLog) /\ h = OpIdHead(room)
  OBVIOUS
<1>4. /\ op \in Op
      /\ op.opId = h + 1
      /\ Key(op) = <<c, seq>>
      /\ room' \in Room
      /\ room'.project = [room.project EXCEPT ![op.path] = op.value]
      /\ room'.nextOpId = h + 2
      /\ OpIdHead(room') = h + 1
      /\ ledger' \in Seq(LoadEntry \cup SetEntry)
      /\ Len(ledger') = h + 1
      /\ \A i \in 1..h : ledger'[i] = ledger[i]
      /\ ledger'[h + 1].load = FALSE
      /\ ledger'[h + 1].clientId = c
      /\ ledger'[h + 1].clientSeq = seq
      /\ ledger'[h + 1].project = room'.project
      /\ Pushed(room.opLog, op, e, room'.opLog)
      /\ room'.opIndex = {o \in room.opIndex : o.opId > Base + e} \cup {op}
  <2>1. h \in Nat
    BY <1>3, Numbers
  <2>2. OpIdHead(room') = room'.nextOpId - 1
    BY DEF OpIdHead
  <2>3. QED BY <1>2, <1>3, <2>1, <2>2 DEF AppendEffect, RoomEffect, LedgerEffect
<1>5. /\ e = 0 \/ e = 1
      /\ Capacity \in Nat
      /\ Capacity >= 1
      /\ n \in Nat
      /\ n <= Capacity
      /\ h \in Nat
      /\ n <= h
      /\ Base \in Nat
      /\ Base = h - n
      /\ Base \in 0..h
      /\ DOMAIN ledger = 1..h
      /\ DOMAIN ledger' = 1..(h + 1)
  BY <1>2, <1>4, <1>3, Numbers, CapacityAssumption DEF Base
<1>6. /\ Len(room'.opLog) = n + 1 - e
      /\ DOMAIN room'.opLog = 1..(n + 1 - e)
      /\ e = 1 <=> n = Capacity
      /\ \A i \in 1..(n + 1 - e) :
           room'.opLog[i] = IF i = n + 1 - e THEN op ELSE room.opLog[i + e]
  <2>1. room'.opLog \in Seq(Op)
    BY <1>4, <1>3 DEF Pushed
  <2>2. QED BY <1>4, <1>3, <2>1 DEF Pushed
<1>7. Base' = Base + e /\ Base' \in Nat /\ Base' <= h
  <2>1. Base' = room'.nextOpId - 1 - Len(room'.opLog)
    BY DEF Base, OpIdHead
  <2>2. QED BY <2>1, <1>4, <1>5, <1>6, CapacityAssumption
<1>8. TypeOK'
  <2>1. Len(room'.opLog) <= Capacity
    BY <1>5, <1>6
  <2>2. room' \in Room /\ clientSeq' \in [Client -> 0..MaxSeq] /\ ledger' \in Seq(LoadEntry \cup SetEntry)
    BY <1>4
  <2> QED
    BY <2>1, <2>2 DEF TypeOK
<1>9. LogContiguous'
  <2>1. ASSUME NEW i \in 1..(n + 1 - e)
        PROVE  LET k == h + 1 - (n + 1 - e) + i
               IN /\ room'.opLog[i].opId = k
                  /\ ledger'[k].load = FALSE
                  /\ Key(ledger'[k]) = Key(room'.opLog[i])
    <3>1. CASE i = n + 1 - e
      <4>1. room'.opLog[i] = op /\ h + 1 - (n + 1 - e) + i = h + 1
        BY <3>1, <1>5, <1>6
      <4>2. QED BY <4>1, <1>4 DEF Key
    <3>2. CASE i # n + 1 - e
      <4>1. room'.opLog[i] = room.opLog[i + e]
        BY <3>2, <1>6
      <4>2. i + e \in 1..n /\ h + 1 - (n + 1 - e) + i = h - n + (i + e)
        BY <3>2, <1>5
      <4>3. Logged(h - n + (i + e), room.opLog[i + e])
        BY <4>2, <1>5, LogEntries, <1>3
      <4>4. h - n + (i + e) \in 1..h
        BY <4>2, <1>5
      <4>5. QED BY <4>1, <4>2, <4>3, <4>4, <1>4 DEF Logged, Key
    <3>3. QED BY <3>1, <3>2
  <2>2. /\ Len(ledger') = room'.nextOpId - 1
        /\ room'.nextOpId - 1 - Len(room'.opLog) = h + 1 - (n + 1 - e)
    BY <1>4, <1>5, <1>6
  <2>3. \A i \in DOMAIN room'.opLog :
          LET k == room'.nextOpId - 1 - Len(room'.opLog) + i
          IN /\ room'.opLog[i].opId = k
             /\ ledger'[k].load = FALSE
             /\ Key(ledger'[k]) = Key(room'.opLog[i])
    BY <2>1, <2>2, <1>6
  <2>4. QED BY <2>2, <2>3 DEF LogContiguous, Logged, OpIdHead, Key
<1>10. IndexMirrorsLog'
  <2>1. {room'.opLog[i] : i \in 1..(n + 1 - e)} = {o \in room.opIndex : o.opId > Base + e} \cup {op}
    <3>1. ASSUME NEW i \in 1..(n + 1 - e)
          PROVE  room'.opLog[i] \in {o \in room.opIndex : o.opId > Base + e} \cup {op}
      <4>1. CASE i = n + 1 - e
        BY <4>1, <1>6
      <4>2. CASE i # n + 1 - e
        <5>1. room'.opLog[i] = room.opLog[i + e] /\ i + e \in 1..n
          BY <4>2, <1>5, <1>6
        <5>2. room.opLog[i + e].opId = Base + (i + e)
          BY <5>1, <1>5, LogEntries, <1>3
        <5>3. room.opLog[i + e] \in room.opIndex
          BY <5>1, LogEntries, <1>3
        <5>4. QED BY <5>1, <5>2, <5>3, <1>5
      <4>3. QED BY <4>1, <4>2
    <3>2. ASSUME NEW o \in room.opIndex, o.opId > Base + e
          PROVE  \E i \in 1..(n + 1 - e) : room'.opLog[i] = o
      <4>1. PICK k \in 1..n : o = room.opLog[k] /\ o.opId = Base + k
        BY LogEntries, <1>3
      <4>3. k - e \in 1..(n + 1 - e) /\ k - e # n + 1 - e /\ (k - e) + e = k
        BY <3>2, <4>1, <1>5
      <4>4. QED BY <4>1, <4>3, <1>6
    <3>3. room'.opLog[n + 1 - e] = op /\ n + 1 - e \in 1..(n + 1 - e)
      BY <1>5, <1>6, CapacityAssumption
    <3>4. QED BY <3>1, <3>2, <3>3
  <2>2. \A x \in room.opIndex : Key(x) # Key(op)
    BY <1>4 DEF IsDuplicate
  <2>3. \A x, y \in room'.opIndex : Key(x) = Key(y) => x = y
    BY <1>4, <2>2 DEF Ind, IndexMirrorsLog
  <2>4. QED BY <2>1, <2>3, <1>4, <1>6 DEF IndexMirrorsLog
<1>11. LogReachesBack'
  <2>1. CASE e = 1
    <3>1. Len(room'.opLog) = Capacity
      BY <2>1, <1>5, <1>6
    <3>2. QED BY <3>1, <1>7 DEF LogReachesBack
  <2>2. CASE e = 0
    <3>1. Base = 0 \/ ledger[Base].load
      BY <2>2, <1>6, <1>3 DEF Ind, LogReachesBack
    <3>2. Base' = Base
      BY <2>2, <1>5, <1>7
    <3>3. Base # 0 => ledger'[Base] = ledger[Base]
      BY <1>4, <1>5
    <3>4. Base' = 0 \/ ledger'[Base'].load
      BY <3>1, <3>2, <3>3
    <3>5. QED BY <3>4, <1>7 DEF LogReachesBack
  <2>3. QED BY <2>1, <2>2
<1>12. AppliedOncePerWindow'
  <2> SUFFICES ASSUME NEW j \in 1..(h + 1), NEW i \in 1..(j - 1),
                      ~ledger'[i].load, ~ledger'[j].load,
                      Key(ledger'[i]) = Key(ledger'[j])
               PROVE  \/ j - i > Capacity
                      \/ \E k \in (i + 1)..(j - 1) : ledger'[k].load
    BY <1>5 DEF AppliedOncePerWindow, Key
  <2>1. i \in 1..h /\ ledger'[i] = ledger[i]
    BY <1>4, <1>5
  <2>2. CASE j <= h
    <3>1. j \in 1..h /\ ledger'[j] = ledger[j]
      BY <2>2, <1>4, <1>5
    <3>2. \A k \in (i + 1)..(j - 1) : ledger'[k] = ledger[k]
      BY <2>2, <1>4, <1>5
    <3>3. \/ j - i > Capacity
          \/ \E k \in (i + 1)..(j - 1) : ledger[k].load
      BY <2>1, <3>1, <1>5, <1>3 DEF Ind, AppliedOncePerWindow
    <3>4. QED BY <3>2, <3>3
  <2>3. CASE j = h + 1
    <3>1. Key(ledger[i]) = <<c, seq>>
      BY <2>1, <2>3, <1>4 DEF Key
    <3>2. ASSUME i > Base
          PROVE  FALSE
      <4>1. PICK m \in 1..n : i = Base + m
        <5>1. i - Base \in 1..n /\ i = Base + (i - Base)
          BY <3>2, <2>1, <1>5
        <5>2. QED BY <5>1
      <4>2. Logged(i, room.opLog[m]) /\ room.opLog[m] \in room.opIndex
        BY <4>1, LogEntries, <1>3
      <4>3. QED BY <3>1, <4>2 DEF Logged, IsDuplicate
    <3>3. CASE n = Capacity
      BY <3>2, <3>3, <2>1, <2>3, <1>5, CapacityAssumption
    <3>4. CASE n # Capacity
      <4>1. Base # 0
        BY <3>2, <2>1, <1>5
      <4>2. ledger[Base].load
        BY <1>3, <3>4, <4>1 DEF Ind, LogReachesBack
      <4>3. i # Base
        BY <4>2, <2>1
      <4>4. Base \in (i + 1)..(j - 1) /\ ledger'[Base] = ledger[Base]
        BY <4>1, <4>3, <3>2, <2>1, <2>3, <1>4, <1>5
      <4>5. QED BY <4>2, <4>4
    <3>5. QED BY <3>3, <3>4
  <2>4. QED BY <2>2, <2>3, <1>5
<1>13. WritesSurvive'
  <2>1. \A k : OpsSince(room', k) = {o \in room'.opIndex : o.opId > k}
    BY <1>10 DEF IndexMirrorsLog, OpsSince
  <2>2. \A k : OpsSince(room, k) = {o \in room.opIndex : o.opId > k}
    BY DEF Ind, IndexMirrorsLog, OpsSince
  <2>3. \A o \in room.opIndex : o.opId \in Nat /\ o.opId <= h /\ o.path \in Path
    <3>1. TAKE o \in room.opIndex
    <3>2. PICK m \in 1..n : o = room.opLog[m] /\ o.opId = Base + m
      BY LogEntries, <1>3
    <3>3. o \in Op
      BY <3>2, LogEntries, <1>3
    <3>4. o.opId \in Nat /\ o.path \in Path
      BY <3>3 DEF Op
    <3>5. Base + m <= h
      BY <1>5
    <3>6. o.opId <= h
      BY <3>2, <3>5
    <3>7. QED BY <3>4, <3>6
  <2>4. /\ ProjectAt(h + 1)' = room'.project
        /\ \A k \in 0..h : ProjectAt(k)' = ProjectAt(k)
    BY <1>4, <1>5 DEF ProjectAt
  <2> SUFFICES ASSUME NEW k \in Base'..(h + 1), NEW p \in Path
               PROVE  WriteSurvives(k, p)'
    BY <1>4 DEF WritesSurvive
  <2>5. CASE k = h + 1
    <3>1. OpsSince(room', k) = {}
      BY <2>5, <2>1, <2>3, <1>4, <1>5, <1>4
    <3>2. QED BY <3>1, <2>4, <2>5 DEF WriteSurvives
  <2>6. CASE k <= h
    <3>1. k \in Base..h /\ k >= Base + e
      BY <2>6, <1>5, <1>7
    <3>2. OpsSince(room', k) = OpsSince(room, k) \cup {op}
      BY <3>1, <2>1, <2>2, <2>3, <1>4, <1>5, <1>4
    <3>3. WriteSurvives(k, p)
      BY <3>1, <1>3 DEF Ind, WritesSurvive
    <3>4. CASE p = op.path
      <4>1. room'.project[p] = op.value
        BY <3>4, <1>4 DEF Ind, TypeOK, Room, Project
      <4>2. \A o \in OpsSince(room', k) : o.path = p => o.opId <= op.opId
        BY <3>2, <2>2, <2>3, <1>5, <1>4
      <4>3. QED BY <3>2, <3>4, <4>1, <4>2 DEF WriteSurvives
    <3>5. CASE p # op.path
      <4>1. room'.project[p] = room.project[p]
        BY <3>5, <1>4 DEF Ind, TypeOK, Room, Project
      <4>2. ProjectAt(k)' = ProjectAt(k)
        BY <2>4, <3>1, <1>5
      <4>3. QED BY <3>2, <3>3, <3>5, <4>1, <4>2 DEF WriteSurvives
    <3>6. QED BY <3>4, <3>5
  <2>7. QED BY <2>5, <2>6, <1>5, <1>7
<1>14. QED
  BY <1>8, <1>9, <1>10, <1>11, <1>12, <1>13 DEF Ind

\* A load preserves every part of the invariant: the log is empty and the load is its horizon.
LEMMA LoadInd ==
  ASSUME Ind, NEW project \in Project,
         room' = ReplaceProject(room, project),
         ledger' = Append(ledger, [load |-> TRUE, project |-> project]),
         clientSeq' = clientSeq
  PROVE  Ind'
<1>1. PICK h : h = OpIdHead(room)
  OBVIOUS
<1>2. h \in Nat /\ room.nextOpId = h + 1 /\ Len(ledger) = h
  BY <1>1, Numbers
<1>3. /\ room'.project = project
      /\ room'.opLog = <<>>
      /\ room'.opIndex = {}
      /\ room'.nextOpId = h + 2
      /\ OpIdHead(room') = h + 1
  BY <1>2 DEF ReplaceProject, OpIdHead
<1>4. /\ ledger' \in Seq(LoadEntry \cup SetEntry)
      /\ Len(ledger') = h + 1
      /\ \A i \in 1..h : ledger'[i] = ledger[i]
      /\ ledger'[h + 1].load = TRUE
      /\ ledger'[h + 1].project = project
  <2>1. [load |-> TRUE, project |-> project] \in LoadEntry \cup SetEntry
    BY DEF LoadEntry
  <2>2. ledger \in Seq(LoadEntry \cup SetEntry)
    BY DEF Ind, TypeOK
  <2>3. QED BY <2>1, <2>2, <1>2
<1>5. /\ Base' = h + 1
      /\ Len(room'.opLog) = 0
      /\ DOMAIN room'.opLog = {}
      /\ DOMAIN ledger' = 1..(h + 1)
  BY <1>2, <1>3, <1>4 DEF Base, OpIdHead
<1>6. TypeOK'
  <2>1. room' \in Room
    <3>1. room.nextOpId + 1 \in Nat /\ room.version + 1 \in Nat /\ <<>> \in Seq(Op)
      BY DEF Ind, TypeOK, Room
    <3>2. QED BY <3>1, MakeRoom DEF ReplaceProject
  <2>2. QED BY <2>1, <1>4, <1>5, CapacityAssumption DEF Ind, TypeOK
<1>7. LogContiguous' /\ IndexMirrorsLog'
  <2>1. LogContiguous'
    BY <1>2, <1>3, <1>4, <1>5 DEF LogContiguous, OpIdHead
  <2>2. IndexMirrorsLog'
    BY <1>2, <1>3, <1>4, <1>5 DEF IndexMirrorsLog
  <2> QED
    BY <2>1, <2>2
<1>8. LogReachesBack'
  BY <1>2, <1>4, <1>5 DEF LogReachesBack
<1>9. AppliedOncePerWindow'
  <2> SUFFICES ASSUME NEW j \in 1..(h + 1), NEW i \in 1..(j - 1),
                      ~ledger'[i].load, ~ledger'[j].load,
                      Key(ledger'[i]) = Key(ledger'[j])
               PROVE  \/ j - i > Capacity
                      \/ \E k \in (i + 1)..(j - 1) : ledger'[k].load
    BY <1>5 DEF AppliedOncePerWindow
  <2>1. j \in 1..h /\ i \in 1..h /\ \A k \in (i + 1)..(j - 1) : k \in 1..h
    BY <1>2, <1>4
  <2>2. /\ ledger'[i] = ledger[i]
        /\ ledger'[j] = ledger[j]
        /\ \A k \in (i + 1)..(j - 1) : ledger'[k] = ledger[k]
    BY <2>1, <1>4
  <2>3. \/ j - i > Capacity
        \/ \E k \in (i + 1)..(j - 1) : ledger[k].load
    BY <2>1, <2>2, <1>1, Numbers DEF Ind, AppliedOncePerWindow
  <2>4. QED BY <2>2, <2>3
<1>10. WritesSurvive'
  <2>1. ProjectAt(h + 1)' = room'.project
    BY <1>2, <1>3, <1>4 DEF ProjectAt
  <2>2. OpsSince(room', h + 1) = {}
    BY <1>3 DEF OpsSince
  <2>3. \A p \in Path : WriteSurvives(h + 1, p)'
    BY <2>1, <2>2 DEF WriteSurvives
  <2>4. Base'..OpIdHead(room') = {h + 1}
    BY <1>2, <1>3, <1>5
  <2>5. QED BY <2>3, <2>4 DEF WritesSurvive, OpIdHead
<1>11. QED
  BY <1>6, <1>7, <1>8, <1>9, <1>10 DEF Ind

\* Every reachable state of a room satisfies the inductive invariant.
THEOREM Invariance == Spec => []Ind
<1>1. Init => Ind
  BY InitInd
<1>2. Ind /\ [Next]_vars => Ind'
  <2> SUFFICES ASSUME Ind, [Next]_vars PROVE Ind'
    OBVIOUS
  <2>1. ASSUME UNCHANGED <<room, ledger>>, clientSeq' \in [Client -> 0..MaxSeq]
        PROVE  Ind'
    <3>1. room' = room /\ ledger' = ledger
      BY <2>1
    <3>2. TypeOK'
      BY <2>1, <3>1 DEF Ind, TypeOK
    <3>3. LogContiguous' /\ IndexMirrorsLog' /\ AppliedOncePerWindow'
      <4>1. LogContiguous'
        BY <3>1 DEF Ind, LogContiguous, Logged
      <4>2. IndexMirrorsLog'
        BY <3>1 DEF Ind, IndexMirrorsLog
      <4>3. AppliedOncePerWindow'
        BY <3>1 DEF Ind, AppliedOncePerWindow
      <4> QED
        BY <4>1, <4>2, <4>3
    <3>4. LogReachesBack'
      BY <3>1 DEF Ind, LogReachesBack, Base
    <3>5. WritesSurvive'
      BY <3>1 DEF Ind, WritesSurvive, WriteSurvives, ProjectAt, Base
    <3>6. QED BY <3>2, <3>3, <3>4, <3>5 DEF Ind
  <2>2. ASSUME NEW c \in Client, NEW seq \in 1..MaxSeq, ApplySet(c, seq),
               clientSeq' \in [Client -> 0..MaxSeq]
        PROVE  Ind'
    <3>1. CASE IsDuplicate(room, c, seq)
      BY <2>1, <2>2, <3>1 DEF ApplySet
    <3>2. CASE ~IsDuplicate(room, c, seq)
      BY <2>2, <3>2, AppendInd
    <3>3. QED BY <3>1, <3>2
  <2>3. ASSUME NEW c \in Client, Set(c)
        PROVE  Ind'
    <3>1. /\ clientSeq[c] + 1 \in 1..MaxSeq
          /\ clientSeq' \in [Client -> 0..MaxSeq]
      BY <2>3, RoomLogAssumption DEF Ind, TypeOK, Set
    <3>2. QED BY <2>2, <2>3, <3>1 DEF Set
  <2>4. ASSUME NEW c \in Client, NEW seq \in 1..MaxSeq, Resend(c, seq)
        PROVE  Ind'
    BY <2>2, <2>4 DEF Resend, Ind, TypeOK
  <2>5. ASSUME NEW project \in Loadable, Load(project)
        PROVE  Ind'
    BY <2>5, LoadInd, RoomLogAssumption DEF Load
  <2>6. CASE UNCHANGED vars
    BY <2>1, <2>6 DEF vars, Ind, TypeOK
  <2>7. QED BY <2>3, <2>4, <2>5, <2>6 DEF Next
<1>3. QED BY <1>1, <1>2, PTL DEF Spec

-----------------------------------------------------------------------------

\* getOpsSince replays exactly from Base on.
LEMMA ReplayFromBase ==
  ASSUME Ind, NEW k \in 0..OpIdHead(room)
  PROVE  CanReplay(room, k) <=> k >= Base
<1>1. PICK n, h : n = Len(room.opLog) /\ h = OpIdHead(room)
  OBVIOUS
<1>2. n \in Nat /\ h \in Nat /\ Base = h - n /\ k \in 0..h /\ room.opLog \in Seq(Op)
  BY <1>1, Numbers DEF Base, Ind, TypeOK, Room
<1>3. CASE n = 0
  <2>1. room.opLog = <<>>
    BY <1>1, <1>2, <1>3, EmptySeq
  <2>2. QED BY <1>1, <1>2, <1>3, <2>1 DEF CanReplay
<1>4. CASE n # 0
  <2>1. room.opLog # <<>> /\ 1 \in 1..n
    BY <1>1, <1>2, <1>4
  <2>2. room.opLog[1].opId = Base + 1
    BY <1>1, <2>1, LogEntries
  <2>3. QED BY <1>1, <1>2, <2>1, <2>2 DEF CanReplay
<1>5. QED BY <1>3, <1>4

\* The invariant makes the replay window exact.
LEMMA WindowExact == Ind => ReplayWindow
<1> SUFFICES ASSUME Ind, NEW k \in 0..OpIdHead(room)
             PROVE  CanReplay(room, k) <=>
                      /\ OpIdHead(room) - k <= Capacity
                      /\ \A j \in (k + 1)..OpIdHead(room) : ~ledger[j].load
  BY DEF ReplayWindow
<1>1. PICK n, h : n = Len(room.opLog) /\ h = OpIdHead(room)
  OBVIOUS
<1>2. /\ n \in Nat
      /\ n <= Capacity
      /\ Capacity \in Nat
      /\ h \in Nat
      /\ Base = h - n
      /\ Base \in Nat
      /\ k \in 0..h
  BY <1>1, Numbers, CapacityAssumption DEF Base
<1>3. ASSUME k >= Base
      PROVE  h - k <= Capacity /\ \A j \in (k + 1)..h : ~ledger[j].load
  <2>1. h - k <= Capacity
    BY <1>2, <1>3
  <2>2. ASSUME NEW j \in (k + 1)..h
        PROVE  ~ledger[j].load
    <3>1. j - Base \in 1..n /\ Base + (j - Base) = j
      BY <1>2, <1>3
    <3>2. Logged(j, room.opLog[j - Base])
      BY <1>1, <3>1, LogEntries
    <3>3. QED BY <3>2 DEF Logged
  <2>3. QED BY <2>1, <2>2
<1>4. ASSUME k < Base, h - k <= Capacity, \A j \in (k + 1)..h : ~ledger[j].load
      PROVE  FALSE
  <2>1. n # Capacity /\ Base # 0 /\ Base \in (k + 1)..h
    BY <1>2, <1>4
  <2>2. ledger[Base].load
    BY <1>1, <2>1 DEF Ind, LogReachesBack
  <2>3. QED BY <1>4, <2>1, <2>2
<1>5. CanReplay(room, k) <=> k >= Base
  BY ReplayFromBase
<1>6. QED BY <1>1, <1>2, <1>3, <1>4, <1>5

\* The invariant makes every replay rebuild the room's project.
LEMMA ReplayRebuilds == Ind => CatchUpRebuilds
<1> SUFFICES ASSUME Ind, NEW k \in 0..OpIdHead(room), CanReplay(room, k)
             PROVE  Replay(ProjectAt(k), OpsSince(room, k)) = room.project
  BY DEF CatchUpRebuilds
<1>1. PICK ops : ops = OpsSince(room, k)
  OBVIOUS
<1>2. \A x, y \in ops : x.opId = y.opId => x = y
  <2>1. \A x \in ops : \E i \in 1..Len(room.opLog) : x = room.opLog[i] /\ x.opId = Base + i
    <3>1. \A x \in ops : \E i \in 1..Len(room.opLog) : x = room.opLog[i]
      BY <1>1, Numbers DEF OpsSince
    <3>2. QED BY <3>1, LogEntries
  <2>2. QED BY <2>1, Numbers
<1>3. \A x \in ops : x.opId \in Nat
  BY <1>1, Numbers DEF OpsSince, Op
<1>4. ASSUME NEW p \in Path
      PROVE  (IF \E op \in ops : op.path = p THEN LastWrite(ops, p).value ELSE ProjectAt(k)[p])
               = room.project[p]
  <2>1. WriteSurvives(k, p)
    <3>1. k \in Base..OpIdHead(room)
      BY ReplayFromBase, Numbers
    <3>2. QED BY <3>1 DEF Ind, WritesSurvive
  <2>2. CASE \A op \in ops : op.path # p
    BY <1>1, <2>1, <2>2 DEF WriteSurvives
  <2>3. CASE \E op \in ops : op.path = p
    <3>1. PICK w \in ops : /\ w.path = p
                           /\ w.value = room.project[p]
                           /\ \A o \in ops : o.path = p => o.opId <= w.opId
      BY <1>1, <2>1, <2>3 DEF WriteSurvives
    <3>2. \A x \in ops : (x.path = p /\ \A o \in ops : o.path = p => o.opId <= x.opId) => x = w
      BY <3>1, <1>2, <1>3
    <3>3. LastWrite(ops, p) = w
      BY <3>1, <3>2 DEF LastWrite
    <3>4. QED BY <2>3, <3>1, <3>3
  <2>4. QED BY <2>2, <2>3
<1>5. room.project = [p \in Path |-> room.project[p]]
  BY DEF Ind, TypeOK, Room, Project
<1>6. QED BY <1>1, <1>4, <1>5 DEF Replay

-----------------------------------------------------------------------------

\* The room, its log and the history keep their types, and the ring buffer its
\* bound, whatever the clients send (InMemoryRoomStore.appendOp, replaceProject).
THEOREM TypeCorrect == Spec => []TypeOK
BY Invariance, PTL DEF Ind

\* opIds are contiguous in the log for every number of clients, ops and loads.
THEOREM Contiguous == Spec => []LogContiguous
BY Invariance, PTL DEF Ind

\* The dedup index never drifts from the log it mirrors.
THEOREM IndexMirrors == Spec => []IndexMirrorsLog
BY Invariance, PTL DEF Ind

\* Replay is offered exactly inside the window, for every ring-buffer capacity.
THEOREM WindowIsExact == Spec => []ReplayWindow
BY Invariance, WindowExact, PTL

\* A replay always rebuilds the room's project, whatever opId it starts from.
THEOREM CatchUpIsComplete == Spec => []CatchUpRebuilds
BY Invariance, ReplayRebuilds, PTL

\* A resend inside the ring buffer's window is never applied a second time.
THEOREM AppliedOnce == Spec => []AppliedOncePerWindow
BY Invariance, PTL DEF Ind

-----------------------------------------------------------------------------
(* The project as a document *)

LEMMA ObjectsAreNotBad ==
  /\ \A v \in AnySlice : IsObject(v)
  /\ \A v \in AnyStep : IsObject(v)
  /\ \A v \in AnyMixer : IsObject(v)
  /\ \A v \in AnyEngines : IsObject(v)
  /\ \A v \in AnySteps : IsObject(v)
  /\ \A v \in AnyTrack : IsObject(v)
  /\ \A v \in AnyTracks : IsObject(v)
  /\ \A v \in [Slot -> Slot] : IsObject(v)
  /\ \A D \in SUBSET Slot : \A v \in [D -> OldTrack] : IsObject(v)
BY Zenon, DocumentsAssumption DEF IsObject

LEMMA LeavesAreNotBad ==
  /\ \A v \in Legal : IsObject(v)
  /\ \A v \in EngineType : IsObject(v)
  /\ \A v \in BOOLEAN : IsObject(v)
  /\ \A v \in Nat : IsObject(v)
BY Zenon, DocumentsAssumption DEF IsObject

LEMMA Sizes ==
  /\ PoolSize \in Nat \ {0} /\ BufferSize \in Nat \ {0} /\ DefaultEnabled \in Slot
  /\ DefaultLength \in Row /\ DefaultEngine \in EngineType /\ Default \in Legal
  /\ BpmMin \in Nat /\ BpmMax \in Nat /\ DefaultBpm \in BpmMin..BpmMax
  /\ OptionalStepKey \subseteq StepKey /\ Absent # Garbage
BY Zenon, DocumentsAssumption

LEMMA ArrayIsASequence ==
  ASSUME NEW n \in Nat, NEW S, NEW f \in [1..n -> S]
  PROVE  f \in Seq(S) /\ Len(f) = n
OBVIOUS

LEMMA SequenceIsAnArray ==
  ASSUME NEW S, NEW f \in Seq(S), NEW n \in Nat, Len(f) = n
  PROVE  f \in [1..n -> S]
BY LenProperties

LEMMA OldStepsAreAny == WholeStep \subseteq AnyStep
BY Zenon DEF WholeStep, AnyStep, Leaf, Bad

LEMMA OldIsAny ==
  /\ [Param -> Legal \cup {Absent}] \subseteq AnySlice
  /\ [EngineType -> [Param -> Legal \cup {Absent}] \cup {Absent}] \subseteq AnyEngines
  /\ [MixerKey -> Legal] \subseteq AnyMixer
  /\ Seq(WholeStep) \subseteq AnySteps
  /\ OldTrack \subseteq AnyTrack
  /\ Seq(OldTrack) \subseteq AnyTracks
<1>1. [Param -> Legal \cup {Absent}] \subseteq AnySlice
  BY DEF AnySlice, Leaf, Bad
<1>2. [EngineType -> [Param -> Legal \cup {Absent}] \cup {Absent}] \subseteq AnyEngines
  BY <1>1 DEF AnyEngines, Bad
<1>3. [MixerKey -> Legal] \subseteq AnyMixer
  BY DEF AnyMixer, Leaf
<1>4. Seq(WholeStep) \subseteq AnySteps
  BY OldStepsAreAny, SeqMonotonic, Zenon DEF AnySteps
<1>5. OldTrack \subseteq AnyTrack
  <2> SUFFICES ASSUME NEW t \in OldTrack PROVE t \in AnyTrack
    OBVIOUS
  <2> HIDE DEF AnySteps, AnyEngines, AnyMixer
  <2> QED
    BY <1>2, <1>3, <1>4, Zenon DEF OldTrack, AnyTrack, Leaf, Bad
<1>6. Seq(OldTrack) \subseteq AnyTracks
  BY <1>5, SeqMonotonic, Zenon DEF AnyTracks
<1> QED
  BY <1>1, <1>2, <1>3, <1>4, <1>5, <1>6

LEMMA WholeIsOld ==
  /\ [EngineType -> [Param -> Legal]] \subseteq [EngineType -> [Param -> Legal \cup {Absent}] \cup {Absent}]
  /\ [Row -> WholeStep] \subseteq Seq(WholeStep)
  /\ WholeTrack \subseteq OldTrack
  /\ [Slot -> WholeTrack] \subseteq Seq(OldTrack)
<1>1. [EngineType -> [Param -> Legal]] \subseteq [EngineType -> [Param -> Legal \cup {Absent}] \cup {Absent}]
  OBVIOUS
<1>2. [Row -> WholeStep] \subseteq Seq(WholeStep)
  BY ArrayIsASequence, Sizes DEF Row
<1>3. WholeTrack \subseteq OldTrack
  BY <1>1, <1>2, Zenon DEF WholeTrack, OldTrack
<1>4. [Slot -> WholeTrack] \subseteq Seq(OldTrack)
  <2> SUFFICES ASSUME NEW f \in [Slot -> WholeTrack] PROVE f \in Seq(OldTrack)
    OBVIOUS
  <2>1. f \in [1..PoolSize -> OldTrack]
    BY <1>3 DEF Slot
  <2> QED
    BY <2>1, ArrayIsASequence, Sizes
<1> QED
  BY <1>1, <1>2, <1>3, <1>4

LEMMA WholeProjectIsAny == WholeProject \subseteq AnyProject
<1> SUFFICES ASSUME NEW p \in WholeProject PROVE p \in AnyProject
  OBVIOUS
<1>1. [Slot -> WholeTrack] \subseteq AnyTracks
  BY WholeIsOld, OldIsAny
<1>2. 2 \in 1..(2 + 1) /\ BpmMin..BpmMax \subseteq BpmMin..(BpmMax + 1)
  BY Sizes
<1> QED
  BY <1>1, <1>2, Zenon DEF WholeProject, AnyProject, CurrentVersion

LEMMA IdentityIsAnOrder == IdentityOrder \in Order
<1>1. IdentityOrder \in [Slot -> Slot]
  BY DEF IdentityOrder
<1>2. IsObject(IdentityOrder)
  BY <1>1, ObjectsAreNotBad
<1>3. Len(IdentityOrder) = PoolSize
  BY <1>1, ArrayIsASequence, Sizes DEF Slot
<1>4. {IdentityOrder[i] : i \in DOMAIN IdentityOrder} = Slot
  BY DEF IdentityOrder
<1> QED
  BY <1>1, <1>2, <1>3, <1>4 DEF Order, IsPermutation

LEMMA CoercedOrder ==
  ASSUME NEW o \in Order \cup Bad
  PROVE  /\ CoerceTrackOrder(o) \in Order
         /\ IsPermutation(o) <=> o \in Order
         /\ o \in Order => CoerceTrackOrder(o) = o
<1>1. IsPermutation(o) <=> o \in Order
  BY DEF Order, IsPermutation, IsObject
<1> QED
  BY <1>1, IdentityIsAnOrder DEF CoerceTrackOrder

LEMMA CoercedBpm ==
  ASSUME NEW n \in (BpmMin..(BpmMax + 1)) \cup Bad
  PROVE  /\ CoerceBpm(n) \in BpmMin..BpmMax
         /\ n \in BpmMin..BpmMax => CoerceBpm(n) = n
<1>1. CASE n \in Bad
  <2>1. n \notin BpmMin..BpmMax
    <3>1. n \notin Nat
      BY <1>1, LeavesAreNotBad DEF IsObject
    <3> QED
      BY <3>1, Sizes
  <2> QED
    BY <1>1, <2>1, Sizes DEF CoerceBpm, Bad
<1>2. CASE n \notin Bad
  BY <1>2, Sizes DEF CoerceBpm, ClampTo, Bad
<1> QED
  BY <1>1, <1>2

-----------------------------------------------------------------------------
(* Whole tracks *)

LEMMA FreshTrackIsWhole ==
  ASSUME NEW b \in BOOLEAN
  PROVE  FreshTrack(b) \in WholeTrack
<1>1. FreshSlice \in [Param -> Legal] /\ FreshMixer \in [MixerKey -> Legal]
  BY Sizes DEF FreshSlice, FreshMixer
<1>2. FreshStep \in WholeStep
  <2>1. Default # Absent
    BY Sizes, LeavesAreNotBad DEF IsObject, Bad
  <2> QED
    BY Sizes, <2>1 DEF FreshStep, WholeStep
<1>3. [e \in EngineType |-> FreshSlice] \in [EngineType -> [Param -> Legal]]
  BY <1>1
<1>4. [j \in Row |-> FreshStep] \in [Row -> WholeStep]
  BY <1>2
<1> QED
  BY <1>1, <1>3, <1>4, Sizes, Zenon DEF FreshTrack, WholeTrack

LEMMA FreshProjectIsWhole == FreshProject \in WholeProject
<1>1. \A i \in Slot : (i <= DefaultEnabled) \in BOOLEAN
  BY Sizes DEF Slot
<1>2. [i \in Slot |-> FreshTrack(i <= DefaultEnabled)] \in [Slot -> WholeTrack]
  BY <1>1, FreshTrackIsWhole, Zenon
<1> QED
  BY <1>2, IdentityIsAnOrder, Sizes, Zenon DEF FreshProject, WholeProject

LEMMA WholeTrackMade ==
  ASSUME NEW type \in EngineType, NEW name \in Legal, NEW engines \in [EngineType -> [Param -> Legal]],
         NEW mixer \in [MixerKey -> Legal], NEW length \in Row, NEW steps \in [Row -> WholeStep],
         NEW enabled \in BOOLEAN
  PROVE  [type |-> type, name |-> name, engines |-> engines, mixer |-> mixer, length |-> length,
          steps |-> steps, enabled |-> enabled] \in WholeTrack
BY Zenon DEF WholeTrack

LEMMA WholeProjectMade ==
  ASSUME NEW bpm \in BpmMin..BpmMax, NEW sorted \in Order, NEW tracks \in [Slot -> WholeTrack]
  PROVE  [version |-> CurrentVersion, bpm |-> bpm, order |-> sorted, tracks |-> tracks] \in WholeProject
BY Zenon DEF WholeProject

LEMMA WholeTrackFields ==
  ASSUME NEW t \in WholeTrack
  PROVE  /\ t.type \in EngineType /\ t.name \in Legal /\ t.enabled \in BOOLEAN
         /\ t.engines \in [EngineType -> [Param -> Legal]] /\ t.mixer \in [MixerKey -> Legal]
         /\ t.length \in Row /\ t.steps \in [Row -> WholeStep]
         /\ t = [type |-> t.type, name |-> t.name, engines |-> t.engines, mixer |-> t.mixer,
                 length |-> t.length, steps |-> t.steps, enabled |-> t.enabled]
BY Zenon DEF WholeTrack

LEMMA WholeTrackIsLegal ==
  ASSUME NEW t \in WholeTrack
  PROVE  LegalTrack(t) /\ IsValidTrack(t) /\ IsObject(t)
<1> USE WholeTrackFields
<1>1. IsObject(t)
  BY WholeIsOld, OldIsAny, ObjectsAreNotBad
<1>2. IsObject(t.mixer) /\ \A k \in MixerKey : t.mixer[k] \in Legal
  BY OldIsAny, ObjectsAreNotBad
<1>3. /\ IsObject(t.steps) /\ Len(t.steps) = BufferSize
      /\ \A j \in Row : t.steps[j] \in WholeStep
  <2>1. t.steps \in AnySteps
    BY WholeIsOld, OldIsAny
  <2> QED
    BY <2>1, ObjectsAreNotBad, ArrayIsASequence, Sizes DEF Row
<1>4. \A s \in WholeStep : LegalStep(s) /\ IsObject(s)
  BY OldStepsAreAny, ObjectsAreNotBad DEF WholeStep, LegalStep
<1>5. \A e \in EngineType : t.engines[e] \in [Param -> Legal]
  OBVIOUS
<1>6. \A s \in [Param -> Legal] : LegalSlice(s) /\ IsComplete(s)
  <2> SUFFICES ASSUME NEW s \in [Param -> Legal] PROVE LegalSlice(s) /\ IsComplete(s)
    OBVIOUS
  <2>1. IsObject(s)
    BY OldIsAny, ObjectsAreNotBad
  <2>2. \A k \in Param : s[k] \in Legal /\ s[k] # Absent
    BY LeavesAreNotBad DEF IsObject, Bad
  <2> QED
    BY <2>1, <2>2 DEF LegalSlice, IsComplete
<1>7. \A e \in EngineType : Slice(t, e) = t.engines[e]
  <2>1. IsObject(t.engines)
    BY WholeIsOld, OldIsAny, ObjectsAreNotBad
  <2> QED
    BY <2>1 DEF Slice
<1>8. LegalTrack(t)
  BY <1>1, <1>2, <1>3, <1>4, <1>5, <1>6, Zenon DEF LegalTrack
<1>9. IsValidTrack(t)
  BY <1>2, <1>3, <1>4, <1>5, <1>6, <1>7, Zenon DEF IsValidTrack
<1> QED
  BY <1>1, <1>8, <1>9

-----------------------------------------------------------------------------
(* Normalising *)

\* What IsValidTrack takes of a row's tracks is whole; what it does not, the repair makes whole.
LEMMA OldTrackFields ==
  ASSUME NEW t \in OldTrack
  PROVE  /\ t.type \in EngineType /\ t.name \in Legal \cup {Absent} /\ t.enabled \in BOOLEAN \cup {Absent}
         /\ t.engines \in [EngineType -> [Param -> Legal \cup {Absent}] \cup {Absent}]
         /\ t.mixer \in [MixerKey -> Legal]
         /\ t.length \in Row \cup {Absent} /\ t.steps \in Seq(WholeStep)
         /\ t = [type |-> t.type, name |-> t.name, engines |-> t.engines, mixer |-> t.mixer,
                 length |-> t.length, steps |-> t.steps, enabled |-> t.enabled]
BY Zenon DEF OldTrack

LEMMA HealedSlice ==
  ASSUME NEW s \in [Param -> Legal \cup {Absent}] \cup {Absent}
  PROVE  /\ HealSlice(FreshSlice, s) \in [Param -> Legal]
         /\ IsComplete(s) => s \in [Param -> Legal]
<1>1. FreshSlice \in [Param -> Legal] /\ DOMAIN FreshSlice = Param
  BY Sizes DEF FreshSlice
<1>2. CASE s = Absent
  BY <1>1, <1>2 DEF HealSlice, IsComplete, IsObject, Bad
<1>3. CASE s \in [Param -> Legal \cup {Absent}]
  <2>1. IsObject(s)
    BY <1>3, OldIsAny, ObjectsAreNotBad
  <2>2. \A k \in Param : s[k] # Absent => s[k] \in Legal
    BY <1>3
  <2>3. HealSlice(FreshSlice, s) = [k \in Param |-> IF s[k] = Absent THEN FreshSlice[k] ELSE s[k]]
    BY <2>1, <1>1 DEF HealSlice
  <2>4. HealSlice(FreshSlice, s) \in [Param -> Legal]
    BY <1>1, <2>2, <2>3
  <2>5. ASSUME IsComplete(s) PROVE s \in [Param -> Legal]
    BY <2>2, <2>5, <1>3 DEF IsComplete
  <2> QED
    BY <2>4, <2>5
<1> QED
  BY <1>2, <1>3

LEMMA RepairedTrackIsWhole ==
  ASSUME NEW t \in OldTrack
  PROVE  /\ RepairTrack(t) \in WholeTrack
         /\ IsValidTrack(t) => t \in WholeTrack
<1> USE OldTrackFields
<1>1. IsObject(t.engines) /\ IsObject(t.mixer) /\ IsObject(t.steps)
  BY OldIsAny, ObjectsAreNotBad
<1>2. \A e \in EngineType : Slice(t, e) = t.engines[e]
  BY <1>1 DEF Slice
<1>3. \A j \in DOMAIN t.steps : t.steps[j] \in WholeStep
  BY ElementOfSeq, LenProperties
<1>4. \A s \in WholeStep : IsObject(s)
  BY OldStepsAreAny, ObjectsAreNotBad
<1>5. ~IsObject(Absent) /\ Absent \notin Legal /\ Absent \notin BOOLEAN /\ Absent \notin Row
  BY LeavesAreNotBad DEF IsObject, Bad, Row
<1>6. FreshTrack(TRUE) \in WholeTrack /\ FreshStep \in WholeStep
  <2>1. FreshTrack(TRUE) \in WholeTrack
    BY FreshTrackIsWhole
  <2>2. 1 \in Row /\ FreshTrack(TRUE).steps[1] = FreshStep
    BY Sizes DEF Row, FreshTrack
  <2> QED
    BY <2>1, <2>2, WholeTrackFields
<1>7. RepairTrack(t).name \in Legal /\ RepairTrack(t).enabled \in BOOLEAN
  BY Sizes, Zenon DEF RepairTrack
<1>8. RepairTrack(t).length \in Row
  <2>1. CASE t.length = Absent
    BY <2>1, Sizes DEF RepairTrack
  <2>2. CASE t.length \in Row
    <3>1. t.length \notin {Absent, Garbage} /\ t.length \in Nat
      BY <2>2, LeavesAreNotBad DEF IsObject, Bad, Row
    <3>2. ClampTo(t.length, 1, BufferSize) \in Row
      BY <2>2, Sizes DEF Row, ClampTo
    <3> QED
      BY <3>1, <3>2 DEF RepairTrack
  <2> QED
    BY <2>1, <2>2
<1>9. [e \in EngineType |-> HealSlice(FreshSlice, Slice(t, e))] \in [EngineType -> [Param -> Legal]]
  BY <1>2, HealedSlice
<1>10. [j \in Row |-> IF IsObject(StepAt(t, j)) THEN StepAt(t, j) ELSE FreshStep] \in [Row -> WholeStep]
  <2>1. \A j \in Row : StepAt(t, j) \in WholeStep \cup {Absent}
    BY <1>1, <1>3 DEF StepAt
  <2> QED
    BY <2>1, <1>4, <1>5, <1>6
<1>11. RepairTrack(t) \in WholeTrack
  <2>1. RepairTrack(t) =
          [type |-> t.type, name |-> RepairTrack(t).name, engines |-> RepairTrack(t).engines,
           mixer |-> t.mixer, length |-> RepairTrack(t).length, steps |-> RepairTrack(t).steps,
           enabled |-> RepairTrack(t).enabled]
    BY <1>1 DEF RepairTrack
  <2>2. RepairTrack(t).engines \in [EngineType -> [Param -> Legal]] /\ RepairTrack(t).steps \in [Row -> WholeStep]
    BY <1>9, <1>10 DEF RepairTrack
  <2> QED
    <3>1. t.type \in EngineType /\ t.mixer \in [MixerKey -> Legal]
      OBVIOUS
    <3>2. [type |-> t.type, name |-> RepairTrack(t).name, engines |-> RepairTrack(t).engines,
           mixer |-> t.mixer, length |-> RepairTrack(t).length, steps |-> RepairTrack(t).steps,
           enabled |-> RepairTrack(t).enabled] \in WholeTrack
      BY <2>2, <1>7, <1>8, <3>1, WholeTrackMade, Zenon
    <3> QED
      BY <2>1, <3>2, Zenon
<1>12. ASSUME IsValidTrack(t) PROVE t \in WholeTrack
  <2>1. t.name \in Legal /\ t.enabled \in BOOLEAN /\ t.length \in Row
    BY <1>12, Zenon DEF IsValidTrack
  <2>2. t.engines \in [EngineType -> [Param -> Legal]]
    <3>1. \A e \in EngineType : IsComplete(t.engines[e])
      BY <1>2, <1>12 DEF IsValidTrack
    <3> QED
      BY <3>1, HealedSlice
  <2>3. t.steps \in [Row -> WholeStep]
    BY <1>12, SequenceIsAnArray, Sizes DEF IsValidTrack, Row
  <2> QED
    <3>1. t.type \in EngineType /\ t.mixer \in [MixerKey -> Legal]
      OBVIOUS
    <3>2. [type |-> t.type, name |-> t.name, engines |-> t.engines, mixer |-> t.mixer,
           length |-> t.length, steps |-> t.steps, enabled |-> t.enabled] \in WholeTrack
      BY <2>1, <2>2, <2>3, <3>1, WholeTrackMade, Zenon
    <3> QED
      BY <3>2, Zenon
<1> QED
  BY <1>11, <1>12

LEMMA ReenabledPoolIsWhole ==
  ASSUME NEW tracks \in [Slot -> WholeTrack]
  PROVE  Reenabled(tracks) \in [Slot -> WholeTrack]
<1>1. \A t \in WholeTrack : [t EXCEPT !.enabled = TRUE] \in WholeTrack
  BY Zenon DEF WholeTrack
<1> QED
  BY <1>1, Zenon DEF Reenabled

LEMMA RepairedPoolIsWhole ==
  ASSUME NEW tracks \in Seq(OldTrack) \cup {Absent}
  PROVE  Repaired(tracks) \in [Slot -> WholeTrack]
<1> SUFFICES ASSUME NEW i \in Slot PROVE Repaired(tracks)[i] \in WholeTrack
  BY Zenon DEF Repaired
<1>1. CASE ~IsObject(tracks) \/ i \notin DOMAIN tracks
  <2>1. Repaired(tracks)[i] = FreshTrack(FALSE)
    BY <1>1 DEF Repaired
  <2> QED
    BY <2>1, FreshTrackIsWhole
<1>2. CASE IsObject(tracks) /\ i \in DOMAIN tracks
  <2>1. tracks \in Seq(OldTrack)
    BY <1>2 DEF IsObject, Bad
  <2>2. tracks[i] \in OldTrack
    BY <1>2, <2>1, ElementOfSeq, LenProperties
  <2>3. Repaired(tracks)[i] = IF IsValidTrack(tracks[i]) THEN tracks[i] ELSE RepairTrack(tracks[i])
    BY <1>2, Zenon DEF Repaired
  <2> QED
    BY <2>2, <2>3, RepairedTrackIsWhole, Zenon
<1> QED
  BY <1>1, <1>2

LEMMA NormalizedIsWhole ==
  ASSUME NEW p, NEW version, NEW bpm \in (BpmMin..BpmMax) \cup {Absent}, NEW sorted \in Order \cup {Absent},
         NEW tracks \in Seq(OldTrack) \cup {Absent},
         p = [version |-> version, bpm |-> bpm, order |-> sorted, tracks |-> tracks]
  PROVE  Normalize(p) \in WholeProject
<1>1. p.version = version /\ p.bpm = bpm /\ p.order = sorted /\ p.tracks = tracks
  OBVIOUS
<1>2. CASE IsAlreadyValid(p)
  <2>1. version = CurrentVersion /\ bpm \in BpmMin..BpmMax /\ sorted \in Order
    BY <1>1, <1>2, CoercedOrder DEF IsAlreadyValid, Bad
  <2>2. tracks \in Seq(OldTrack) /\ Len(tracks) = PoolSize /\ \A i \in Slot : IsValidTrack(tracks[i])
    BY <1>1, <1>2 DEF IsAlreadyValid, IsObject, Bad
  <2>3. tracks \in [Slot -> OldTrack]
    BY <2>2, SequenceIsAnArray, Sizes DEF Slot
  <2>4. tracks \in [Slot -> WholeTrack]
    BY <2>2, <2>3, RepairedTrackIsWhole
  <2>5. Normalize(p) = p
    BY <1>2 DEF Normalize
  <2> QED
    BY <2>1, <2>4, <2>5, WholeProjectMade
<1>3. CASE ~IsAlreadyValid(p)
  <2>1. Normalize(p) = [version |-> CurrentVersion, bpm |-> CoerceBpm(bpm), order |-> CoerceTrackOrder(sorted),
                        tracks |-> Reenabled(Repaired(tracks))]
    BY <1>1, <1>3 DEF Normalize
  <2>2. CoerceBpm(bpm) \in BpmMin..BpmMax
    <3>1. bpm \in (BpmMin..(BpmMax + 1)) \cup Bad
      BY Sizes DEF Bad
    <3> QED
      BY <3>1, CoercedBpm
  <2>3. CoerceTrackOrder(sorted) \in Order
    BY CoercedOrder DEF Bad
  <2>4. Reenabled(Repaired(tracks)) \in [Slot -> WholeTrack]
    BY RepairedPoolIsWhole, ReenabledPoolIsWhole
  <2> QED
    BY <2>1, <2>2, <2>3, <2>4, WholeProjectMade
<1> QED
  BY <1>2, <1>3

LEMMA WholeProjectFields ==
  ASSUME NEW p \in WholeProject
  PROVE  /\ p.version = CurrentVersion /\ p.bpm \in BpmMin..BpmMax /\ p.order \in Order
         /\ p.tracks \in [Slot -> WholeTrack]
         /\ p = [version |-> p.version, bpm |-> p.bpm, order |-> p.order, tracks |-> p.tracks]
BY Zenon DEF WholeProject

\* A whole project is normal, unless nothing in it is enabled.
LEMMA NormalizedWhole ==
  ASSUME NEW p \in WholeProject
  PROVE  /\ LegalProject(p)
         /\ Normalize(p) = IF \E i \in Slot : p.tracks[i].enabled THEN p
                           ELSE [p EXCEPT !.tracks = Reenabled(@)]
<1> USE WholeProjectFields
<1>1. IsPermutation(p.order) /\ CoerceTrackOrder(p.order) = p.order
  BY CoercedOrder
<1>2. IsObject(p.tracks) /\ Len(p.tracks) = PoolSize
  <2>1. p.tracks \in AnyTracks
    BY WholeIsOld, OldIsAny
  <2> QED
    BY <2>1, ObjectsAreNotBad, ArrayIsASequence, Sizes DEF Slot
<1>3. \A i \in Slot : LegalTrack(p.tracks[i]) /\ IsValidTrack(p.tracks[i])
  BY WholeTrackIsLegal
<1>4. LegalProject(p)
  BY <1>1, <1>2, <1>3, Zenon DEF LegalProject
<1>5. CASE \E i \in Slot : p.tracks[i].enabled
  <2>1. IsAlreadyValid(p)
    BY <1>1, <1>2, <1>3, <1>5, Zenon DEF IsAlreadyValid
  <2> QED
    BY <1>4, <1>5, <2>1, Zenon DEF Normalize
<1>6. CASE ~\E i \in Slot : p.tracks[i].enabled
  <2>1. ~IsAlreadyValid(p)
    BY <1>6, Zenon DEF IsAlreadyValid
  <2>2. Repaired(p.tracks) = p.tracks
    <3>1. Repaired(p.tracks) = [i \in Slot |-> p.tracks[i]]
      BY <1>2, <1>3, Zenon DEF Repaired
    <3> QED
      BY <3>1
  <2>3. CoerceBpm(p.bpm) = p.bpm
    <3>1. p.bpm \in (BpmMin..(BpmMax + 1)) \cup Bad
      BY Sizes
    <3> QED
      BY <3>1, CoercedBpm
  <2>4. Normalize(p) = [version |-> p.version, bpm |-> p.bpm, order |-> p.order, tracks |-> Reenabled(p.tracks)]
    BY <1>1, <2>1, <2>2, <2>3, Zenon DEF Normalize
  <2>5. [p EXCEPT !.tracks = Reenabled(@)] =
          [version |-> p.version, bpm |-> p.bpm, order |-> p.order, tracks |-> Reenabled(p.tracks)]
    BY WholeProjectFields
  <2> QED
    BY <1>4, <1>6, <2>4, <2>5
<1> QED
  BY <1>5, <1>6

-----------------------------------------------------------------------------
(* The row *)

LEMMA OldRowFields ==
  ASSUME NEW row, IsOldRow(row)
  PROVE  /\ row.sparse \in BOOLEAN /\ row.version \in 1..CurrentVersion
         /\ row.bpm \in (BpmMin..BpmMax) \cup {Absent} /\ row.order \in Order \cup {Absent}
         /\ DOMAIN row.tracks \subseteq Slot /\ row.tracks \in [DOMAIN row.tracks -> OldTrack]
         /\ ~row.sparse => row.tracks \in Seq(OldTrack)
BY Zenon DEF IsOldRow

LEMMA UnpackedIsWhole ==
  ASSUME NEW row, IsOldRow(row)
  PROVE  Unpack(row) \in WholeProject
<1> USE OldRowFields
<1>1. IsObject(row.tracks)
  BY ObjectsAreNotBad
<1> DEFINE unpacked == IF IsObject(row.tracks) /\ row.sparse
                THEN [i \in Slot |-> IF i \in DOMAIN row.tracks THEN row.tracks[i] ELSE FreshTrack(FALSE)]
                ELSE row.tracks
<1>2. unpacked \in Seq(OldTrack)
  <2>1. CASE row.sparse
    <3>1. \A i \in Slot : (IF i \in DOMAIN row.tracks THEN row.tracks[i] ELSE FreshTrack(FALSE)) \in OldTrack
      <4>1. FreshTrack(FALSE) \in OldTrack
        BY FreshTrackIsWhole, WholeIsOld
      <4> QED
        BY <4>1, Zenon
    <3>2. [i \in Slot |-> IF i \in DOMAIN row.tracks THEN row.tracks[i] ELSE FreshTrack(FALSE)] \in [1..PoolSize -> OldTrack]
      BY <3>1, Zenon DEF Slot
    <3> HIDE DEF unpacked
    <3>3. unpacked \in [1..PoolSize -> OldTrack]
      BY <3>2, <2>1, <1>1, Zenon DEF unpacked
    <3> QED
      BY <3>3, ArrayIsASequence, Sizes
  <2>2. CASE ~row.sparse
    BY <2>2, Zenon
  <2> QED
    BY <2>1, <2>2, Zenon
<1>3. Unpack(row) = Normalize([version |-> row.version, bpm |-> row.bpm, order |-> row.order, tracks |-> unpacked])
  BY Zenon DEF Unpack
<1> HIDE DEF unpacked
<1>4. Normalize([version |-> row.version, bpm |-> row.bpm, order |-> row.order, tracks |-> unpacked])
        \in WholeProject
  BY <1>2, NormalizedIsWhole, Zenon
<1> QED
  BY <1>3, <1>4, Zenon

LEMMA PackedIsOld ==
  ASSUME NEW p \in WholeProject
  PROVE  /\ IsOldRow(Pack(p))
         /\ Unpack(Pack(p)) = Normalize(p)
<1> USE WholeProjectFields
<1> DEFINE kept == {i \in Slot : p.tracks[i].enabled \/ p.tracks[i] # FreshTrack(FALSE)}
<1>1. Pack(p) = [sparse |-> TRUE, version |-> p.version, bpm |-> p.bpm, order |-> p.order,
                 tracks |-> [i \in kept |-> p.tracks[i]]]
  BY Zenon DEF Pack
<1>2. kept \subseteq Slot /\ [i \in kept |-> p.tracks[i]] \in [kept -> OldTrack]
  BY WholeIsOld
<1>3. IsOldRow(Pack(p))
  <2> HIDE DEF kept
  <2>1. /\ Pack(p).sparse = TRUE /\ Pack(p).version = p.version /\ Pack(p).bpm = p.bpm /\ Pack(p).order = p.order
        /\ Pack(p).tracks = [i \in kept |-> p.tracks[i]]
    BY <1>1
  <2>2. p.version \in 1..CurrentVersion
    BY DEF CurrentVersion
  <2>3. DOMAIN Pack(p).tracks = kept
    BY <2>1
  <2> QED
    BY <1>1, <1>2, <2>1, <2>2, <2>3, Zenon DEF IsOldRow
<1>4. Unpack(Pack(p)) = Normalize([version |-> p.version, bpm |-> p.bpm, order |-> p.order, tracks |-> p.tracks])
  <2> HIDE DEF kept
  <2>1. Pack(p).sparse /\ Pack(p).version = p.version /\ Pack(p).bpm = p.bpm /\ Pack(p).order = p.order
        /\ Pack(p).tracks = [i \in kept |-> p.tracks[i]]
    BY <1>1
  <2>2. IsObject(Pack(p).tracks)
    BY <2>1, <1>2, ObjectsAreNotBad
  <2>3. [i \in Slot |-> IF i \in DOMAIN Pack(p).tracks THEN Pack(p).tracks[i] ELSE FreshTrack(FALSE)] = p.tracks
    <3>1. \A i \in Slot : i \notin kept => p.tracks[i] = FreshTrack(FALSE)
      BY Zenon DEF kept
    <3>2. DOMAIN Pack(p).tracks = kept
      BY <2>1
    <3>3. \A i \in kept : Pack(p).tracks[i] = p.tracks[i]
      BY <2>1
    <3>4. [i \in Slot |-> IF i \in DOMAIN Pack(p).tracks THEN Pack(p).tracks[i] ELSE FreshTrack(FALSE)] =
            [i \in Slot |-> p.tracks[i]]
      BY <3>1, <3>2, <3>3, Zenon
    <3> QED
      BY <3>4
  <2> QED
    BY <2>1, <2>2, <2>3, Zenon DEF Unpack
<1> QED
  BY <1>3, <1>4, Zenon

LEMMA ArrayIsOld ==
  ASSUME NEW version \in 1..CurrentVersion, NEW bpm \in (BpmMin..BpmMax) \cup {Absent},
         NEW sorted \in Order \cup {Absent},
         NEW tracks \in Seq(OldTrack), Len(tracks) <= PoolSize
  PROVE  IsOldRow([sparse |-> FALSE, version |-> version, bpm |-> bpm, order |-> sorted, tracks |-> tracks])
<1>1. DOMAIN tracks \subseteq Slot /\ tracks \in [DOMAIN tracks -> OldTrack]
  BY LenProperties, ElementOfSeq, Sizes DEF Slot
<1> QED
  BY <1>1, Zenon DEF IsOldRow

LEMMA OldRowMade ==
  ASSUME NEW sparse \in BOOLEAN, NEW version \in 1..CurrentVersion,
         NEW bpm \in (BpmMin..BpmMax) \cup {Absent}, NEW sorted \in Order \cup {Absent},
         NEW D \in SUBSET Slot, NEW tracks \in [D -> OldTrack], sparse \/ tracks \in Seq(OldTrack)
  PROVE  IsOldRow([sparse |-> sparse, version |-> version, bpm |-> bpm, order |-> sorted, tracks |-> tracks])
<1>1. DOMAIN tracks = D
  OBVIOUS
<1> QED
  BY <1>1, Zenon DEF IsOldRow

LEMMA OldTrackMade ==
  ASSUME NEW type \in EngineType, NEW name \in Legal \cup {Absent},
         NEW engines \in [EngineType -> [Param -> Legal \cup {Absent}] \cup {Absent}],
         NEW mixer \in [MixerKey -> Legal], NEW length \in Row \cup {Absent}, NEW steps \in Seq(WholeStep),
         NEW enabled \in BOOLEAN \cup {Absent}
  PROVE  [type |-> type, name |-> name, engines |-> engines, mixer |-> mixer, length |-> length,
          steps |-> steps, enabled |-> enabled] \in OldTrack
BY Zenon DEF OldTrack

LEMMA ShorterSequence ==
  ASSUME NEW S, NEW s \in Seq(S)
  PROVE  Shorter(s) \in Seq(S)
<1> USE DEF Shorter
<1>1. Len(s) \in Nat
  BY LenProperties
<1>2. CASE Len(s) = 0
  <2>1. SubSeq(s, 1, Len(s) - 1) = << >>
    BY <1>2, SubSeqEmpty
  <2> QED
    BY <2>1, <1>2
<1>3. CASE Len(s) > 0
  BY <1>1, <1>3, SubSeqProperties
<1> QED
  BY <1>1, <1>2, <1>3

LEMMA AgedTrackIsOld ==
  ASSUME NEW t \in OldTrack, NEW u \in AgedTrack(t)
  PROVE  u \in OldTrack
<1> USE OldTrackFields
<1>1. CASE u \in {[t EXCEPT ![f] = Absent] : f \in {"name", "length", "enabled"}}
  <2>1. CASE u = [t EXCEPT !.name = Absent]
    BY <2>1, Zenon DEF OldTrack
  <2>2. CASE u = [t EXCEPT !.length = Absent]
    BY <2>2, Zenon DEF OldTrack
  <2>3. CASE u = [t EXCEPT !.enabled = Absent]
    BY <2>3, Zenon DEF OldTrack
  <2> QED
    BY <1>1, <2>1, <2>2, <2>3, Zenon
<1>2. ASSUME NEW engines \in [EngineType -> [Param -> Legal \cup {Absent}] \cup {Absent}],
             u = [t EXCEPT !.engines = engines]
      PROVE  u \in OldTrack
  BY <1>2, Zenon DEF OldTrack
<1>3. ASSUME NEW steps \in Seq(WholeStep), u = [t EXCEPT !.steps = steps]
      PROVE  u \in OldTrack
  BY <1>3, Zenon DEF OldTrack
<1>4. ASSUME NEW e \in EngineType, u = [t EXCEPT !.engines[e] = Absent]
      PROVE  u \in OldTrack
  <2>1. [t.engines EXCEPT ![e] = Absent] \in [EngineType -> [Param -> Legal \cup {Absent}] \cup {Absent}]
    OBVIOUS
  <2> QED
    BY <1>2, <1>4, <2>1, Zenon
<1>5. ASSUME NEW e \in EngineType, IsObject(t.engines[e]), NEW k \in Param,
             u = [t EXCEPT !.engines[e][k] = Absent]
      PROVE  u \in OldTrack
  <2>1. t.engines[e] \in [Param -> Legal \cup {Absent}]
    BY <1>5 DEF IsObject, Bad
  <2>2. [t.engines[e] EXCEPT ![k] = Absent] \in [Param -> Legal \cup {Absent}]
    BY <2>1
  <2>3. [t.engines EXCEPT ![e][k] = Absent] \in [EngineType -> [Param -> Legal \cup {Absent}] \cup {Absent}]
    BY <2>2
  <2> QED
    BY <1>2, <1>5, <2>3, Zenon
<1>6. [t EXCEPT !.steps = Shorter(t.steps)] \in OldTrack
  <2>1. Shorter(t.steps) \in Seq(WholeStep)
    BY ShorterSequence
  <2> QED
    BY <2>1, Zenon DEF OldTrack
<1>7. ASSUME NEW j \in DOMAIN t.steps, NEW k \in OptionalStepKey, u = [t EXCEPT !.steps[j][k] = Absent]
      PROVE  u \in OldTrack
  <2>1. j \in 1..Len(t.steps) /\ t.steps[j] \in WholeStep
    BY LenProperties, ElementOfSeq
  <2>2. [t.steps[j] EXCEPT ![k] = Absent] \in WholeStep
    BY <2>1 DEF WholeStep
  <2>3. [t.steps EXCEPT ![j] = [t.steps[j] EXCEPT ![k] = Absent]] \in Seq(WholeStep)
    BY <2>1, <2>2, ExceptSeq
  <2>4. u = [t EXCEPT !.steps = [t.steps EXCEPT ![j] = [t.steps[j] EXCEPT ![k] = Absent]]]
    BY <1>7, Zenon
  <2> QED
    BY <1>3, <2>3, <2>4, Zenon
<1> QED
  <2>1. CASE u \in {[t EXCEPT !.engines[e] = Absent] : e \in EngineType}
    BY <1>4, <2>1, Zenon
  <2>2. CASE u \in UNION {IF IsObject(t.engines[e])
                         THEN {[t EXCEPT !.engines[e][k] = Absent] : k \in Param} ELSE {} : e \in EngineType}
    <3>1. PICK e \in EngineType : u \in (IF IsObject(t.engines[e])
                                        THEN {[t EXCEPT !.engines[e][k] = Absent] : k \in Param} ELSE {})
      BY <2>2
    <3>2. IsObject(t.engines[e]) /\ u \in {[t EXCEPT !.engines[e][k] = Absent] : k \in Param}
      BY <3>1
    <3>3. PICK k \in Param : u = [t EXCEPT !.engines[e][k] = Absent]
      BY <3>2
    <3> QED
      BY <1>5, <3>2, <3>3
  <2>3. CASE u \in {[t EXCEPT !.steps = Shorter(t.steps)]}
    BY <1>6, <2>3, Zenon
  <2>4. CASE u \in UNION {{[t EXCEPT !.steps[j][k] = Absent] : k \in OptionalStepKey} : j \in DOMAIN t.steps}
    <3>1. PICK j \in DOMAIN t.steps, k \in OptionalStepKey : u = [t EXCEPT !.steps[j][k] = Absent]
      BY <2>4
    <3> QED
      BY <1>7, <3>1
  <2> QED
    BY <1>1, <2>1, <2>2, <2>3, <2>4, Zenon DEF AgedTrack

LEMMA AgedRowIsOld ==
  ASSUME NEW row, IsOldRow(row), NEW new \in Aged(row)
  PROVE  IsOldRow(new)
<1> USE OldRowFields
<1>1. row = [sparse |-> row.sparse, version |-> row.version, bpm |-> row.bpm, order |-> row.order,
             tracks |-> row.tracks]
  BY Zenon DEF IsOldRow
<1>2. DOMAIN row.tracks \in SUBSET Slot /\ (row.sparse \/ row.tracks \in Seq(OldTrack))
  BY Zenon
<1>3. ASSUME new = [row EXCEPT !.order = Absent] PROVE IsOldRow(new)
  <2>1. new = [sparse |-> row.sparse, version |-> row.version, bpm |-> row.bpm, order |-> Absent,
               tracks |-> row.tracks]
    BY <1>1, <1>3
  <2>2. Absent \in Order \cup {Absent}
    OBVIOUS
  <2> QED
    BY <1>2, <2>1, <2>2, OldRowMade, Zenon
<1>4. ASSUME new = [row EXCEPT !.bpm = Absent] PROVE IsOldRow(new)
  <2>1. new = [sparse |-> row.sparse, version |-> row.version, bpm |-> Absent, order |-> row.order,
               tracks |-> row.tracks]
    BY <1>1, <1>4
  <2>2. Absent \in (BpmMin..BpmMax) \cup {Absent}
    OBVIOUS
  <2> QED
    BY <1>2, <2>1, <2>2, OldRowMade, Zenon
<1>5. ASSUME new = [row EXCEPT !.version = 1] PROVE IsOldRow(new)
  <2>1. new = [sparse |-> row.sparse, version |-> 1, bpm |-> row.bpm, order |-> row.order,
               tracks |-> row.tracks]
    BY <1>1, <1>5
  <2>2. 1 \in 1..CurrentVersion
    BY DEF CurrentVersion
  <2> QED
    BY <1>2, <2>1, <2>2, OldRowMade, Zenon
<1>6. ASSUME NEW i \in DOMAIN row.tracks, NEW t \in AgedTrack(row.tracks[i]), new = [row EXCEPT !.tracks[i] = t]
      PROVE  IsOldRow(new)
  <2>1. t \in OldTrack
    BY AgedTrackIsOld
  <2> DEFINE tracks == [row.tracks EXCEPT ![i] = t]
  <2>2. tracks \in [DOMAIN row.tracks -> OldTrack]
    BY <2>1
  <2>3. row.sparse \/ tracks \in Seq(OldTrack)
    <3>1. row.tracks \in Seq(OldTrack) => i \in 1..Len(row.tracks)
      BY LenProperties
    <3>2. row.tracks \in Seq(OldTrack) => tracks \in Seq(OldTrack)
      BY <2>1, <3>1, ExceptSeq
    <3> QED
      BY <1>2, <3>2, Zenon
  <2>4. new = [sparse |-> row.sparse, version |-> row.version, bpm |-> row.bpm, order |-> row.order,
               tracks |-> tracks]
    BY <1>1, <1>6
  <2> HIDE DEF tracks
  <2> QED
    BY <1>2, <2>2, <2>3, <2>4, OldRowMade, Zenon
<1>7. ASSUME DOMAIN row.tracks = Slot, NEW n \in {1, PoolSize}, new = AsArray(row, n)
      PROVE  IsOldRow(new)
  <2> DEFINE first == SubSeq(row.tracks, 1, n)
  <2>1. row.tracks \in [1..PoolSize -> OldTrack]
    BY <1>7, Zenon DEF Slot
  <2>2. first \in Seq(OldTrack) /\ Len(first) = n
    BY <2>1, Sizes, SubSeqProperties
  <2>3. Len(first) <= PoolSize
    BY <2>2, Sizes
  <2> HIDE DEF first
  <2>4. new = [sparse |-> FALSE, version |-> row.version, bpm |-> row.bpm, order |-> row.order,
               tracks |-> first]
    BY <1>7, Zenon DEF AsArray, first
  <2> QED
    BY <2>2, <2>3, <2>4, ArrayIsOld, Zenon
<1> QED
  <2>1. CASE new \in {[row EXCEPT ![f] = Absent] : f \in {"order", "bpm"}}
    BY <1>3, <1>4, <2>1, Zenon
  <2>2. CASE new \in {[row EXCEPT !.version = 1]}
    BY <1>5, <2>2, Zenon
  <2>3. CASE new \in UNION {{[row EXCEPT !.tracks[i] = t] : t \in AgedTrack(row.tracks[i])} : i \in DOMAIN row.tracks}
    BY <1>6, <2>3, Zenon
  <2>4. CASE DOMAIN row.tracks = Slot /\ new \in {AsArray(row, n) : n \in {1, PoolSize}}
    <3>1. PICK n \in {1, PoolSize} : new = AsArray(row, n)
      BY <2>4, Zenon
    <3> QED
      BY <1>7, <2>4, <3>1
  <2> QED
    BY <2>1, <2>2, <2>3, <2>4, Zenon DEF Aged

-----------------------------------------------------------------------------
(* Writes *)

\* What a set op puts into a track by its path's form.
LEMMA TrackWritten ==
  ASSUME NEW t \in WholeTrack
  PROVE  /\ \A v \in EngineType : [t EXCEPT !.type = v] \in WholeTrack
         /\ \A v \in Row : [t EXCEPT !.length = v] \in WholeTrack
         /\ \A v \in BOOLEAN : [t EXCEPT !.enabled = v] \in WholeTrack
         /\ \A v \in Legal : [t EXCEPT !.name = v] \in WholeTrack
         /\ \A k \in MixerKey, v \in Legal : [t EXCEPT !.mixer[k] = v] \in WholeTrack
         /\ \A e \in EngineType, s \in [Param -> Legal] : [t EXCEPT !.engines[e] = s] \in WholeTrack
         /\ \A e \in EngineType, k \in Param, v \in Legal : [t EXCEPT !.engines[e][k] = v] \in WholeTrack
         /\ \A j \in Row, k \in StepKey, v \in Legal \cup {Absent} :
              (v = Absent => k \in OptionalStepKey) => [t EXCEPT !.steps[j][k] = v] \in WholeTrack
<1> USE WholeTrackFields
<1>1. /\ \A v \in EngineType : [t EXCEPT !.type = v] \in WholeTrack
      /\ \A v \in Row : [t EXCEPT !.length = v] \in WholeTrack
      /\ \A v \in BOOLEAN : [t EXCEPT !.enabled = v] \in WholeTrack
      /\ \A v \in Legal : [t EXCEPT !.name = v] \in WholeTrack
  BY Zenon DEF WholeTrack
<1>2. \A m \in [MixerKey -> Legal] : [t EXCEPT !.mixer = m] \in WholeTrack
  BY Zenon DEF WholeTrack
<1>3. \A g \in [EngineType -> [Param -> Legal]] : [t EXCEPT !.engines = g] \in WholeTrack
  BY Zenon DEF WholeTrack
<1>4. \A s \in [Row -> WholeStep] : [t EXCEPT !.steps = s] \in WholeTrack
  BY Zenon DEF WholeTrack
<1>5. ASSUME NEW k \in MixerKey, NEW v \in Legal
      PROVE  [t EXCEPT !.mixer[k] = v] \in WholeTrack
  <2>1. [t.mixer EXCEPT ![k] = v] \in [MixerKey -> Legal]
    OBVIOUS
  <2> QED
    BY <1>2, <2>1, Zenon
<1>6. ASSUME NEW e \in EngineType, NEW s \in [Param -> Legal]
      PROVE  [t EXCEPT !.engines[e] = s] \in WholeTrack
  <2>1. [t.engines EXCEPT ![e] = s] \in [EngineType -> [Param -> Legal]]
    OBVIOUS
  <2> QED
    BY <1>3, <2>1, Zenon
<1>7. ASSUME NEW e \in EngineType, NEW k \in Param, NEW v \in Legal
      PROVE  [t EXCEPT !.engines[e][k] = v] \in WholeTrack
  <2>1. [t.engines EXCEPT ![e][k] = v] \in [EngineType -> [Param -> Legal]]
    OBVIOUS
  <2> QED
    BY <1>3, <2>1, Zenon
<1>8. ASSUME NEW j \in Row, NEW k \in StepKey, NEW v \in Legal \cup {Absent}, v = Absent => k \in OptionalStepKey
      PROVE  [t EXCEPT !.steps[j][k] = v] \in WholeTrack
  <2>1. [t.steps[j] EXCEPT ![k] = v] \in WholeStep
    BY <1>8 DEF WholeStep
  <2>2. [t.steps EXCEPT ![j][k] = v] \in [Row -> WholeStep]
    BY <2>1
  <2> QED
    BY <1>4, <2>2, Zenon
<1> QED
  BY <1>1, <1>5, <1>6, <1>7, <1>8, Zenon

LEMMA ProjectWritten ==
  ASSUME NEW p \in WholeProject
  PROVE  /\ \A v \in BpmMin..BpmMax : [p EXCEPT !.bpm = v] \in WholeProject
         /\ \A v \in Order : [p EXCEPT !.order = v] \in WholeProject
         /\ \A i \in Slot, t \in WholeTrack : [p EXCEPT !.tracks[i] = t] \in WholeProject
<1> USE WholeProjectFields
<1>1. /\ \A v \in BpmMin..BpmMax : [p EXCEPT !.bpm = v] \in WholeProject
      /\ \A v \in Order : [p EXCEPT !.order = v] \in WholeProject
      /\ \A v \in [Slot -> WholeTrack] : [p EXCEPT !.tracks = v] \in WholeProject
  BY Zenon DEF WholeProject
<1>2. ASSUME NEW i \in Slot, NEW t \in WholeTrack
      PROVE  [p EXCEPT !.tracks[i] = t] \in WholeProject
  <2>1. [p.tracks EXCEPT ![i] = t] \in [Slot -> WholeTrack]
    OBVIOUS
  <2> QED
    BY <1>1, <2>1, Zenon
<1> QED
  BY <1>1, <1>2, Zenon

LEMMA WriteKeepsWhole ==
  ASSUME NEW p \in WholeProject, NEW path \in Pattern, NEW value \in Candidate(path), Accepted(path, value)
  PROVE  SetDeep(p, path, value) \in WholeProject
<1>1. InRange(path) /\ LeafSchema(path, value)
  BY DEF Accepted
<1>2. CASE path = <<"bpm">>
  <2>1. value \in BpmMin..BpmMax
    BY <1>1, <1>2 DEF LeafSchema, TrackLeafSchema, IsWholeTrack
  <2>2. SetDeep(p, path, value) = [p EXCEPT !.bpm = value]
    BY <1>2 DEF SetDeep, IsWholeTrack
  <2> QED
    BY <2>1, <2>2, ProjectWritten
<1>3. CASE path = <<"trackOrder">>
  <2>1. IsPermutation(value) /\ value \in {[i \in Slot |-> PoolSize + 1 - i], [i \in Slot |-> 1], Garbage}
    <3>1. path[1] = "trackOrder"
      BY <1>3
    <3>2. IsPermutation(value)
      BY <1>1, <3>1, Zenon DEF LeafSchema, TrackLeafSchema, IsWholeTrack
    <3>3. value \in {[i \in Slot |-> PoolSize + 1 - i], [i \in Slot |-> 1], Garbage}
      BY <3>1, Zenon DEF Candidate, IsWholeTrack
    <3> QED
      BY <3>2, <3>3
  <2>2. value \in [Slot -> Slot]
    <3>1. [i \in Slot |-> PoolSize + 1 - i] \in [Slot -> Slot] /\ [i \in Slot |-> 1] \in [Slot -> Slot]
      BY Sizes DEF Slot
    <3>2. value # Garbage
      BY <2>1 DEF IsPermutation, IsObject, Bad
    <3> QED
      BY <2>1, <3>1, <3>2
  <2>3. value \in Order
    BY <2>1, <2>2, Zenon DEF Order
  <2> QED
    BY <1>3, <2>3, ProjectWritten DEF SetDeep, IsWholeTrack
<1>4. CASE path \in {"tracks"} \X (1..(PoolSize + 1))
  <2>1. PICK i \in 1..(PoolSize + 1) : path = <<"tracks", i>>
    BY <1>4
  <2> DEFINE stepless == [FreshTrack(TRUE) EXCEPT !.steps = <<>>]
  <2>a. path[1] = "tracks" /\ path[2] = i /\ Len(path) = 2
    BY <2>1
  <2>b. i \in Slot
    BY <1>1, <2>a DEF InRange
  <2>c. path[1] # "bpm" /\ path[1] # "trackOrder"
    BY <2>a
  <2>2. LegalTrack(value)
    BY <1>1, <2>a, <2>c, Zenon DEF LeafSchema, TrackLeafSchema, IsWholeTrack
  <2>3. value \in {FreshTrack(TRUE), stepless, Garbage}
    BY <2>a, <2>c, Zenon DEF Candidate, IsWholeTrack
  <2>4. value # Garbage
    BY <2>2 DEF LegalTrack, IsObject, Bad
  <2>5. value # stepless
    <3>1. stepless.steps = <<>>
      BY DEF FreshTrack
    <3>2. Len(value.steps) = BufferSize
      BY <2>2, Zenon DEF LegalTrack
    <3>3. Len(<<>>) = 0 /\ BufferSize # 0
      BY Sizes
    <3> HIDE DEF stepless
    <3> QED
      BY <3>1, <3>2, <3>3
  <2> HIDE DEF stepless
  <2>6. value \in WholeTrack
    BY <2>3, <2>4, <2>5, FreshTrackIsWhole
  <2>7. SetDeep(p, path, value) = [p EXCEPT !.tracks[i] = value]
    BY <2>a, <2>c, Zenon DEF SetDeep, IsWholeTrack
  <2> QED
    BY <2>b, <2>6, <2>7, ProjectWritten
<1>5. ASSUME NEW i \in Slot, Len(path) > 2, path[1] = "tracks", path[2] = i,
             SetInTrack(p.tracks[i], path, value) \in WholeTrack
      PROVE  SetDeep(p, path, value) \in WholeProject
  BY <1>5, ProjectWritten DEF SetDeep, IsWholeTrack
<1>6. CASE path \in {"tracks"} \X (1..(PoolSize + 1)) \X TrackLeaf
  <2>1. PICK i \in 1..(PoolSize + 1), f \in TrackLeaf : path = <<"tracks", i, f>>
    BY <1>6
  <2>2. i \in Slot
    BY <1>1, <2>1 DEF InRange
  <2>3. p.tracks[i] \in WholeTrack
    BY <2>2, WholeProjectFields
  <2>4. path[1] = "tracks" /\ path[2] = i /\ path[3] = f /\ Len(path) = 3
    BY <2>1
  <2>5. SetInTrack(p.tracks[i], path, value) = [p.tracks[i] EXCEPT ![f] = value]
    BY <2>4 DEF SetInTrack, TrackLeaf
  <2>6. [p.tracks[i] EXCEPT ![f] = value] \in WholeTrack
    <3>1. CASE f = "type"
      BY <1>1, <2>3, <2>4, <3>1, TrackWritten DEF LeafSchema, TrackLeafSchema, IsWholeTrack
    <3>2. CASE f = "length"
      BY <1>1, <2>3, <2>4, <3>2, TrackWritten DEF LeafSchema, TrackLeafSchema, IsWholeTrack
    <3>3. CASE f = "enabled"
      <4>1. value \in BOOLEAN
        BY <1>1, <2>4, <3>3 DEF LeafSchema, TrackLeafSchema, IsWholeTrack
      <4> QED
        BY <2>3, <3>3, <4>1, TrackWritten, Zenon
    <3>4. CASE f = "name"
      BY <1>1, <2>3, <2>4, <3>4, TrackWritten DEF LeafSchema, TrackLeafSchema, IsWholeTrack
    <3> QED
      BY <3>1, <3>2, <3>3, <3>4 DEF TrackLeaf
  <2> QED
    BY <1>5, <2>2, <2>4, <2>5, <2>6
<1>7. CASE path \in {"tracks"} \X (1..(PoolSize + 1)) \X {"mixer"} \X MixerKey
  <2>1. PICK i \in 1..(PoolSize + 1), k \in MixerKey : path = <<"tracks", i, "mixer", k>>
    BY <1>7
  <2>2. i \in Slot /\ value \in Legal
    BY <1>1, <2>1 DEF InRange, LeafSchema, TrackLeafSchema, IsWholeTrack
  <2>3. p.tracks[i] \in WholeTrack
    BY <2>2, WholeProjectFields
  <2>4. SetInTrack(p.tracks[i], path, value) \in WholeTrack
    BY <2>1, <2>2, <2>3, TrackWritten DEF SetInTrack
  <2> QED
    BY <1>5, <2>1, <2>2, <2>4
<1>8. CASE path \in {"tracks"} \X (1..(PoolSize + 1)) \X {"engines"} \X EngineType \X Param
  <2>1. PICK i \in 1..(PoolSize + 1), e \in EngineType, k \in Param : path = <<"tracks", i, "engines", e, k>>
    BY <1>8
  <2>2. i \in Slot /\ value \in Legal
    BY <1>1, <2>1 DEF InRange, LeafSchema, TrackLeafSchema, IsWholeTrack
  <2>3. p.tracks[i] \in WholeTrack
    BY <2>2, WholeProjectFields
  <2>4. SetInTrack(p.tracks[i], path, value) \in WholeTrack
    BY <2>1, <2>2, <2>3, TrackWritten DEF SetInTrack
  <2> QED
    BY <1>5, <2>1, <2>2, <2>4
<1>9. CASE path \in {"tracks"} \X (1..(PoolSize + 1)) \X {"steps"} \X (1..(BufferSize + 1)) \X StepKey
  <2>1. PICK i \in 1..(PoolSize + 1), j \in 1..(BufferSize + 1), k \in StepKey :
          path = <<"tracks", i, "steps", j, k>>
    BY <1>9
  <2>2. i \in Slot /\ j \in Row /\ value \in Legal \cup {Absent} /\ (value = Absent => k \in OptionalStepKey)
    <3>1. i \in Slot /\ j \in Row
      BY <1>1, <2>1 DEF InRange
    <3>2. value \in Legal \/ (k \in OptionalStepKey /\ value = Absent)
      BY <1>1, <2>1 DEF LeafSchema, TrackLeafSchema, IsWholeTrack
    <3>3. value \in Legal => value # Absent
      BY LeavesAreNotBad DEF IsObject, Bad
    <3> QED
      BY <3>1, <3>2, <3>3
  <2>3. p.tracks[i] \in WholeTrack
    BY <2>2, WholeProjectFields
  <2>4. SetInTrack(p.tracks[i], path, value) \in WholeTrack
    <3>1. SetInTrack(p.tracks[i], path, value) = [p.tracks[i] EXCEPT !.steps[j][k] = value]
      BY <2>1 DEF SetInTrack
    <3> QED
      BY <2>2, <2>3, <3>1, TrackWritten
  <2> QED
    BY <1>5, <2>1, <2>2, <2>4
<1> QED
  BY <1>2, <1>3, <1>4, <1>6, <1>7, <1>8, <1>9, Zenon DEF Pattern

-----------------------------------------------------------------------------
(* Presets *)

\* A preset writes the leaves the accept list takes, and keeps the track's for the others.
LEMMA PresetKeepsWhole ==
  ASSUME NEW p \in WholeProject, NEW i \in Slot, NEW e \in EngineType, NEW params
  PROVE  WithPreset(p, i, e, params) \in WholeProject
<1> DEFINE preset == DeepMerge(FreshSlice, params)
           typed == SetDeep(p, <<"tracks", i, "type">>, e)
           kept == {k \in Param : Accepted(<<"tracks", i, "engines", e, k>>, preset[k])}
           slice == [k \in Param |-> IF k \in kept THEN preset[k] ELSE typed.tracks[i].engines[e][k]]
<1>1. typed \in WholeProject
  <2>1. typed = [p EXCEPT !.tracks[i] = [p.tracks[i] EXCEPT !.type = e]]
    BY DEF SetDeep, SetInTrack, IsWholeTrack
  <2>2. [p.tracks[i] EXCEPT !.type = e] \in WholeTrack
    BY WholeProjectFields, TrackWritten
  <2> QED
    BY <2>1, <2>2, ProjectWritten
<1>2. \A k \in kept : preset[k] \in Legal
  <2> HIDE DEF preset
  <2> QED
    BY DEF Accepted, LeafSchema, TrackLeafSchema, IsWholeTrack
<1>3. WithPreset(p, i, e, params) = SetDeep(typed, <<"tracks", i>>, [typed.tracks[i] EXCEPT !.engines[e] = slice])
  BY Zenon DEF WithPreset
<1> HIDE DEF typed, kept, preset
<1>4. typed.tracks[i] \in WholeTrack
  BY <1>1, WholeProjectFields
<1>5. slice \in [Param -> Legal]
  <2>1. typed.tracks[i].engines[e] \in [Param -> Legal]
    BY <1>4, WholeTrackFields
  <2> QED
    BY <1>2, <2>1
<1> HIDE DEF slice
<1> DEFINE new == [typed.tracks[i] EXCEPT !.engines[e] = slice]
<1>6. new \in WholeTrack
  BY <1>4, <1>5, TrackWritten, Zenon
<1> HIDE DEF new
<1>7. SetDeep(typed, <<"tracks", i>>, new) = [typed EXCEPT !.tracks[i] = new]
  BY DEF SetDeep, IsWholeTrack
<1>8. WithPreset(p, i, e, params) = [typed EXCEPT !.tracks[i] = new]
  BY <1>3, <1>7, Zenon DEF new
<1> QED
  BY <1>1, <1>6, <1>8, ProjectWritten

-----------------------------------------------------------------------------
(* Files *)

LEMMA AnyTrackFields ==
  ASSUME NEW t \in AnyTrack
  PROVE  /\ t.type \in EngineType \cup Bad /\ t.name \in Leaf /\ t.engines \in AnyEngines \cup Bad
         /\ t.mixer \in AnyMixer \cup Bad /\ t.length \in Row \cup Bad /\ t.steps \in AnySteps \cup Bad
         /\ t.enabled \in BOOLEAN \cup Bad
         /\ t = [type |-> t.type, name |-> t.name, engines |-> t.engines, mixer |-> t.mixer,
                 length |-> t.length, steps |-> t.steps, enabled |-> t.enabled]
BY Zenon DEF AnyTrack

LEMMA AnyProjectFields ==
  ASSUME NEW p \in AnyProject
  PROVE  /\ p.version \in 1..(CurrentVersion + 1) \cup Bad /\ p.bpm \in BpmMin..(BpmMax + 1) \cup Bad
         /\ p.order \in Order \cup Bad /\ p.tracks \in AnyTracks \cup Bad
         /\ p = [version |-> p.version, bpm |-> p.bpm, order |-> p.order, tracks |-> p.tracks]
BY Zenon DEF AnyProject

LEMMA AnyStructures ==
  /\ \A s \in AnyEngines : IsObject(s)
  /\ \A s \in AnySteps : IsObject(s)
  /\ \A b \in Bad : ~IsObject(b)
BY ObjectsAreNotBad DEF IsObject

\* The parts that stand in a track whatever its file holds.
LEMMA PartReplaced ==
  ASSUME NEW t \in AnyTrack, NEW v \in Bad, NEW u \in WithPart(t, v)
  PROVE  u \in AnyTrack
<1> USE AnyTrackFields
<1>1. v \in Leaf
  BY DEF Leaf
<1>2. CASE u \in {[t EXCEPT ![f] = v] :
                  f \in {"type", "name", "engines", "mixer", "length", "steps", "enabled"}}
  <2>1. PICK f \in {"type", "name", "engines", "mixer", "length", "steps", "enabled"} : u = [t EXCEPT ![f] = v]
    BY <1>2
  <2>2. CASE f = "type"
    BY <2>1, <2>2, Zenon DEF AnyTrack
  <2>3. CASE f = "name"
    BY <1>1, <2>1, <2>3, Zenon DEF AnyTrack
  <2>4. CASE f = "engines"
    BY <2>1, <2>4, Zenon DEF AnyTrack
  <2>5. CASE f = "mixer"
    BY <2>1, <2>5, Zenon DEF AnyTrack
  <2>6. CASE f = "length"
    BY <2>1, <2>6, Zenon DEF AnyTrack
  <2>7. CASE f = "steps"
    BY <2>1, <2>7, Zenon DEF AnyTrack
  <2>8. CASE f = "enabled"
    BY <2>1, <2>8, Zenon DEF AnyTrack
  <2> QED
    BY <2>1, <2>2, <2>3, <2>4, <2>5, <2>6, <2>7, <2>8
<1>3. ASSUME NEW mixer \in AnyMixer \cup Bad
      PROVE  [t EXCEPT !.mixer = mixer] \in AnyTrack
  BY Zenon DEF AnyTrack
<1>4. ASSUME NEW engines \in AnyEngines \cup Bad
      PROVE  [t EXCEPT !.engines = engines] \in AnyTrack
  BY Zenon DEF AnyTrack
<1>5. ASSUME NEW steps \in AnySteps \cup Bad
      PROVE  [t EXCEPT !.steps = steps] \in AnyTrack
  BY Zenon DEF AnyTrack
<1>6. ASSUME IsObject(t.mixer), NEW k \in MixerKey, u = [t EXCEPT !.mixer[k] = v]
      PROVE  u \in AnyTrack
  <2>1. t.mixer \in AnyMixer
    BY <1>6, AnyStructures
  <2>2. [t.mixer EXCEPT ![k] = v] \in AnyMixer
    BY <1>1, <2>1 DEF AnyMixer
  <2> QED
    BY <1>3, <1>6, <2>2, Zenon
<1>7. ASSUME IsObject(t.engines), NEW e \in EngineType, u = [t EXCEPT !.engines[e] = v]
      PROVE  u \in AnyTrack
  <2>1. t.engines \in AnyEngines
    BY <1>7, AnyStructures
  <2>2. [t.engines EXCEPT ![e] = v] \in AnyEngines
    BY <2>1 DEF AnyEngines
  <2> QED
    BY <1>4, <1>7, <2>2, Zenon
<1>8. ASSUME IsObject(t.engines), NEW e \in EngineType, IsObject(t.engines[e]), NEW k \in Param,
             u = [t EXCEPT !.engines[e][k] = v]
      PROVE  u \in AnyTrack
  <2>1. t.engines \in AnyEngines
    BY <1>8, AnyStructures
  <2>2. t.engines[e] \in AnySlice
    BY <1>8, <2>1, AnyStructures DEF AnyEngines
  <2>3. [t.engines[e] EXCEPT ![k] = v] \in AnySlice
    BY <1>1, <2>2 DEF AnySlice
  <2>4. [t.engines EXCEPT ![e][k] = v] \in AnyEngines
    BY <2>1, <2>3 DEF AnyEngines
  <2> QED
    BY <1>4, <1>8, <2>4, Zenon
<1>9. ASSUME IsObject(t.steps)
      PROVE  [t EXCEPT !.steps = Shorter(t.steps)] \in AnyTrack
  <2>1. t.steps \in AnySteps
    BY <1>9, AnyStructures
  <2>2. Shorter(t.steps) \in AnySteps
    BY <2>1, ShorterSequence DEF AnySteps
  <2> QED
    BY <1>5, <2>2, Zenon
<1>10. ASSUME IsObject(t.steps), NEW j \in DOMAIN t.steps, u = [t EXCEPT !.steps[j] = v]
       PROVE  u \in AnyTrack
  <2>1. t.steps \in AnySteps
    BY <1>10, AnyStructures
  <2>2. j \in 1..Len(t.steps)
    BY <2>1, LenProperties DEF AnySteps
  <2>3. [t.steps EXCEPT ![j] = v] \in AnySteps
    BY <2>1, <2>2, ExceptSeq DEF AnySteps
  <2> QED
    BY <1>5, <1>10, <2>3, Zenon
<1>11. ASSUME IsObject(t.steps), NEW j \in DOMAIN t.steps, IsObject(t.steps[j]), NEW k \in StepKey,
              u = [t EXCEPT !.steps[j][k] = v]
       PROVE  u \in AnyTrack
  <2>1. t.steps \in AnySteps
    BY <1>11, AnyStructures
  <2>2. j \in 1..Len(t.steps) /\ t.steps[j] \in AnyStep \cup Bad
    BY <2>1, LenProperties, ElementOfSeq DEF AnySteps
  <2>3. t.steps[j] \in AnyStep
    BY <1>11, <2>2, AnyStructures
  <2>4. [t.steps[j] EXCEPT ![k] = v] \in AnyStep
    BY <1>1, <2>3 DEF AnyStep
  <2>5. [t.steps EXCEPT ![j] = [t.steps[j] EXCEPT ![k] = v]] \in AnySteps
    BY <2>1, <2>2, <2>4, ExceptSeq DEF AnySteps
  <2>6. u = [t EXCEPT !.steps = [t.steps EXCEPT ![j] = [t.steps[j] EXCEPT ![k] = v]]]
    BY <1>11, Zenon
  <2> QED
    BY <1>5, <2>5, <2>6, Zenon
<1>12. CASE u \in IF IsObject(t.mixer) THEN {[t EXCEPT !.mixer[k] = v] : k \in MixerKey} ELSE {}
  BY <1>6, <1>12
<1>13. CASE u \in IF IsObject(t.engines)
         THEN {[t EXCEPT !.engines[e] = v] : e \in EngineType}
              \cup UNION {IF IsObject(t.engines[e])
                          THEN {[t EXCEPT !.engines[e][k] = v] : k \in Param} ELSE {} : e \in EngineType}
         ELSE {}
  <2>1. IsObject(t.engines)
    BY <1>13
  <2>2. CASE u \in {[t EXCEPT !.engines[e] = v] : e \in EngineType}
    BY <1>7, <2>1, <2>2
  <2>3. CASE u \in UNION {IF IsObject(t.engines[e])
                         THEN {[t EXCEPT !.engines[e][k] = v] : k \in Param} ELSE {} : e \in EngineType}
    <3>1. PICK e \in EngineType : u \in IF IsObject(t.engines[e])
                                       THEN {[t EXCEPT !.engines[e][k] = v] : k \in Param} ELSE {}
      BY <2>3
    <3> QED
      BY <1>8, <2>1, <3>1
  <2> QED
    BY <1>13, <2>1, <2>2, <2>3
<1>14. CASE u \in IF IsObject(t.steps)
         THEN {[t EXCEPT !.steps = Shorter(t.steps)]}
              \cup {[t EXCEPT !.steps[j] = v] : j \in DOMAIN t.steps}
              \cup UNION {IF IsObject(t.steps[j])
                          THEN {[t EXCEPT !.steps[j][k] = v] : k \in StepKey} ELSE {} : j \in DOMAIN t.steps}
         ELSE {}
  <2>1. IsObject(t.steps)
    BY <1>14
  <2>2. CASE u \in {[t EXCEPT !.steps = Shorter(t.steps)]}
    BY <1>9, <2>1, <2>2, Zenon
  <2>3. CASE u \in {[t EXCEPT !.steps[j] = v] : j \in DOMAIN t.steps}
    BY <1>10, <2>1, <2>3
  <2>4. CASE u \in UNION {IF IsObject(t.steps[j])
                         THEN {[t EXCEPT !.steps[j][k] = v] : k \in StepKey} ELSE {} : j \in DOMAIN t.steps}
    <3>1. PICK j \in DOMAIN t.steps : u \in IF IsObject(t.steps[j])
                                            THEN {[t EXCEPT !.steps[j][k] = v] : k \in StepKey} ELSE {}
      BY <2>4
    <3> QED
      BY <1>11, <2>1, <3>1
  <2> QED
    BY <1>14, <2>1, <2>2, <2>3, <2>4
<1> QED
  BY <1>2, <1>12, <1>13, <1>14, Zenon DEF WithPart

LEMMA HandEditedIsAny ==
  ASSUME NEW p \in AnyProject, NEW v \in Bad, NEW q \in HandEdited(p, v)
  PROVE  q \in AnyProject
<1> USE AnyProjectFields
<1>1. ASSUME NEW tracks \in AnyTracks
      PROVE  [p EXCEPT !.tracks = tracks] \in AnyProject
  BY Zenon DEF AnyProject
<1>2. CASE q \in {[p EXCEPT ![f] = v] : f \in {"version", "bpm", "order", "tracks"}}
  <2>1. PICK f \in {"version", "bpm", "order", "tracks"} : q = [p EXCEPT ![f] = v]
    BY <1>2
  <2>2. CASE f = "version"
    BY <2>1, <2>2, Zenon DEF AnyProject
  <2>3. CASE f = "bpm"
    BY <2>1, <2>3, Zenon DEF AnyProject
  <2>4. CASE f = "order"
    BY <2>1, <2>4, Zenon DEF AnyProject
  <2>5. CASE f = "tracks"
    BY <2>1, <2>5, Zenon DEF AnyProject
  <2> QED
    BY <2>1, <2>2, <2>3, <2>4, <2>5
<1>3. CASE q \in {[p EXCEPT !.version = n] : n \in {1, CurrentVersion + 1}}
  <2>1. PICK n \in {1, CurrentVersion + 1} : q = [p EXCEPT !.version = n]
    BY <1>3
  <2>2. n \in 1..(CurrentVersion + 1)
    BY DEF CurrentVersion
  <2> QED
    BY <2>1, <2>2, Zenon DEF AnyProject
<1>4. CASE q \in {[p EXCEPT !.bpm = BpmMax + 1]}
  <2>1. BpmMax + 1 \in BpmMin..(BpmMax + 1)
    BY Sizes
  <2> QED
    BY <1>4, <2>1, Zenon DEF AnyProject
<1>5. ASSUME IsObject(p.tracks)
      PROVE  [p EXCEPT !.tracks = Shorter(p.tracks)] \in AnyProject
  <2>1. p.tracks \in AnyTracks
    BY <1>5, AnyStructures
  <2>2. Shorter(p.tracks) \in AnyTracks
    BY <2>1, ShorterSequence DEF AnyTracks
  <2> QED
    BY <1>1, <2>2, Zenon
<1>6. ASSUME IsObject(p.tracks), NEW i \in DOMAIN p.tracks, NEW t \in AnyTrack \cup Bad,
             q = [p EXCEPT !.tracks[i] = t]
      PROVE  q \in AnyProject
  <2>1. p.tracks \in AnyTracks
    BY <1>6, AnyStructures
  <2>2. i \in 1..Len(p.tracks)
    BY <2>1, LenProperties DEF AnyTracks
  <2>3. [p.tracks EXCEPT ![i] = t] \in AnyTracks
    BY <2>1, <2>2, ExceptSeq DEF AnyTracks
  <2> QED
    BY <1>1, <1>6, <2>3, Zenon
<1>7. CASE IsObject(p.tracks) /\ q \in {[p EXCEPT !.tracks[i] = v] : i \in DOMAIN p.tracks}
  BY <1>6, <1>7
<1>8. CASE IsObject(p.tracks) /\
           q \in UNION {IF IsObject(p.tracks[i])
                        THEN {[p EXCEPT !.tracks[i] = t] : t \in WithPart(p.tracks[i], v)}
                        ELSE {} : i \in DOMAIN p.tracks}
  <2>1. PICK i \in DOMAIN p.tracks : q \in IF IsObject(p.tracks[i])
                                           THEN {[p EXCEPT !.tracks[i] = t] : t \in WithPart(p.tracks[i], v)}
                                           ELSE {}
    BY <1>8
  <2>2. IsObject(p.tracks[i])
    BY <2>1
  <2>3. PICK t \in WithPart(p.tracks[i], v) : q = [p EXCEPT !.tracks[i] = t]
    BY <2>1, <2>2
  <2>4. p.tracks[i] \in AnyTrack
    <3>1. p.tracks \in AnyTracks
      BY <1>8, AnyStructures
    <3>2. p.tracks[i] \in AnyTrack \cup Bad
      BY <3>1, LenProperties, ElementOfSeq DEF AnyTracks
    <3> QED
      BY <2>2, <3>2, AnyStructures
  <2>5. t \in AnyTrack
    BY <2>3, <2>4, PartReplaced
  <2> QED
    BY <1>6, <1>8, <2>3, <2>5
<1> QED
  <2>1. CASE IsObject(p.tracks)
    <3>1. CASE q \in {[p EXCEPT !.tracks = Shorter(p.tracks)]}
      BY <1>5, <2>1, <3>1, Zenon
    <3> QED
      BY <1>2, <1>3, <1>4, <1>7, <1>8, <2>1, <3>1, Zenon DEF HandEdited
  <2>2. CASE ~IsObject(p.tracks)
    BY <1>2, <1>3, <1>4, <2>2, Zenon DEF HandEdited
  <2> QED
    BY <2>1, <2>2

-----------------------------------------------------------------------------
(* Reading a file *)

\* A merge fills what is missing, keeps what is there, and passes on what is of the wrong kind.
LEMMA Healed ==
  ASSUME NEW K, NEW template \in [K -> Legal], NEW s \in [K -> Leaf] \cup Bad,
         \A f \in [K -> Leaf] : IsObject(f)
  PROVE  /\ HealSlice(template, s) = [k \in K |-> HealSlice(template, s)[k]]
         /\ ~GarbageIn(s, K) => HealSlice(template, s) \in [K -> Legal]
         /\ s \in [K -> Legal] => HealSlice(template, s) = s
<1>1. CASE s \in Bad
  <2>1. HealSlice(template, s) = template
    BY <1>1, AnyStructures DEF HealSlice
  <2>2. s \notin [K -> Legal]
    <3>1. \A f \in [K -> Legal] : f \in [K -> Leaf]
      BY DEF Leaf
    <3> QED
      BY <1>1, <3>1, AnyStructures
  <2> QED
    BY <2>1, <2>2
<1>2. CASE s \in [K -> Leaf]
  <2>1. HealSlice(template, s) = [k \in K |-> IF s[k] = Absent THEN template[k] ELSE s[k]]
    BY <1>2 DEF HealSlice
  <2>2. ASSUME ~GarbageIn(s, K) PROVE HealSlice(template, s) \in [K -> Legal]
    <3>1. \A k \in K : s[k] \in Legal \cup {Absent}
      BY <1>2, <2>2 DEF GarbageIn, Leaf, Bad
    <3> QED
      BY <2>1, <3>1
  <2>3. ASSUME s \in [K -> Legal] PROVE HealSlice(template, s) = s
    <3>1. \A k \in K : s[k] # Absent
      BY <2>3, LeavesAreNotBad DEF IsObject, Bad
    <3> QED
      BY <2>1, <2>3, <3>1
  <2> QED
    BY <2>1, <2>2, <2>3
<1> QED
  BY <1>1, <1>2

LEMMA Templates ==
  /\ FreshSlice \in [Param -> Legal] /\ FreshMixer \in [MixerKey -> Legal] /\ FreshStep \in [StepKey -> Legal]
  /\ [StepKey -> Legal] \subseteq WholeStep
<1>1. \A v \in Legal : v # Absent
  BY LeavesAreNotBad DEF IsObject, Bad
<1> QED
  BY <1>1, Sizes DEF FreshSlice, FreshMixer, FreshStep, WholeStep

LEMMA MissingTrackIsAny ==
  /\ NoTrack \in AnyTrack /\ ~GarbageInTrack(NoTrack)
  /\ \A v \in AnyTrack : (IF IsObject(v) THEN v ELSE NoTrack) = v
  /\ \A v \in Bad : (IF IsObject(v) THEN v ELSE NoTrack) = NoTrack
<1>1. NoTrack \in AnyTrack
  <2>1. Absent \in Bad /\ Absent \in Leaf
    BY DEF Bad, Leaf
  <2> QED
    BY <2>1, Zenon DEF NoTrack, AnyTrack
<1>2. ~GarbageInTrack(NoTrack)
  BY Sizes, AnyStructures DEF NoTrack, GarbageInTrack, GarbageIn, Bad
<1> QED
  BY <1>1, <1>2, ObjectsAreNotBad, AnyStructures

\* What reconcileTrack reads: nothing of what is no object.
TrackRead(loaded) == IF IsObject(loaded) THEN loaded ELSE NoTrack

LEMMA ReconciledParts ==
  ASSUME NEW loaded \in AnyTrack \cup Bad, NEW b \in BOOLEAN
  PROVE  /\ TrackRead(loaded) \in AnyTrack
         /\ ReconcileTrack(loaded, b) =
              [type |-> ReconcileTrack(loaded, b).type, name |-> ReconcileTrack(loaded, b).name,
               engines |-> ReconcileTrack(loaded, b).engines, mixer |-> ReconcileTrack(loaded, b).mixer,
               length |-> ReconcileTrack(loaded, b).length, steps |-> ReconcileTrack(loaded, b).steps,
               enabled |-> ReconcileTrack(loaded, b).enabled]
         /\ ReconcileTrack(loaded, b).type = IF TrackRead(loaded).type = Absent THEN DefaultEngine ELSE TrackRead(loaded).type
         /\ ReconcileTrack(loaded, b).name = IF TrackRead(loaded).name \in Legal THEN TrackRead(loaded).name ELSE Default
         /\ ReconcileTrack(loaded, b).engines = [e \in EngineType |-> HealSlice(FreshSlice, Slice(TrackRead(loaded), e))]
         /\ ReconcileTrack(loaded, b).mixer = HealSlice(FreshMixer, TrackRead(loaded).mixer)
         /\ ReconcileTrack(loaded, b).length =
              CASE TrackRead(loaded).length = Absent  -> DefaultLength
                [] TrackRead(loaded).length = Garbage -> Garbage
                [] OTHER              -> ClampTo(TrackRead(loaded).length, 1, BufferSize)
         /\ ReconcileTrack(loaded, b).steps = [j \in Row |-> HealSlice(FreshStep, StepAt(TrackRead(loaded), j))]
         /\ ReconcileTrack(loaded, b).enabled = IF TrackRead(loaded).enabled \in BOOLEAN THEN TrackRead(loaded).enabled ELSE b
         /\ \A e \in EngineType : Slice(TrackRead(loaded), e) \in AnySlice \cup Bad
         /\ \A j \in Row : StepAt(TrackRead(loaded), j) \in AnyStep \cup Bad
<1> DEFINE t == TrackRead(loaded)
<1>1. t \in AnyTrack
  BY MissingTrackIsAny DEF TrackRead
<1> HIDE DEF t
<1>2. \A e \in EngineType : Slice(t, e) \in AnySlice \cup Bad
  <2>1. t.engines \in AnyEngines \cup Bad
    BY <1>1, AnyTrackFields
  <2>2. Absent \in Bad
    BY DEF Bad
  <2>3. IsObject(t.engines) => t.engines \in AnyEngines
    BY <2>1, AnyStructures
  <2> QED
    BY <2>2, <2>3 DEF Slice, AnyEngines
<1>3. \A j \in Row : StepAt(t, j) \in AnyStep \cup Bad
  <2>1. t.steps \in AnySteps \cup Bad
    BY <1>1, AnyTrackFields
  <2>2. Absent \in Bad
    BY DEF Bad
  <2>3. IsObject(t.steps) => t.steps \in AnySteps
    BY <2>1, AnyStructures
  <2>4. \A s \in AnySteps : \A j \in DOMAIN s : s[j] \in AnyStep \cup Bad
    BY LenProperties, ElementOfSeq DEF AnySteps
  <2> QED
    BY <2>2, <2>3, <2>4 DEF StepAt
<1> DEFINE engines == [e \in EngineType |-> HealSlice(FreshSlice, Slice(t, e))]
           length == CASE t.length = Absent  -> DefaultLength
                       [] t.length = Garbage -> Garbage
                       [] OTHER              -> ClampTo(t.length, 1, BufferSize)
           steps == [j \in Row |-> HealSlice(FreshStep, StepAt(t, j))]
           enabled == IF t.enabled \in BOOLEAN THEN t.enabled ELSE b
<1>4. ReconcileTrack(loaded, b) =
        [type |-> IF t.type = Absent THEN DefaultEngine ELSE t.type,
         name |-> IF t.name \in Legal THEN t.name ELSE Default,
         engines |-> engines, mixer |-> HealSlice(FreshMixer, t.mixer), length |-> length, steps |-> steps,
         enabled |-> enabled]
  BY Zenon DEF ReconcileTrack, DeepMerge, TrackRead, t
<1> HIDE DEF engines, length, steps, enabled
<1>5. /\ ReconcileTrack(loaded, b) =
              [type |-> ReconcileTrack(loaded, b).type, name |-> ReconcileTrack(loaded, b).name,
               engines |-> ReconcileTrack(loaded, b).engines, mixer |-> ReconcileTrack(loaded, b).mixer,
               length |-> ReconcileTrack(loaded, b).length, steps |-> ReconcileTrack(loaded, b).steps,
               enabled |-> ReconcileTrack(loaded, b).enabled]
      /\ ReconcileTrack(loaded, b).type = IF t.type = Absent THEN DefaultEngine ELSE t.type
      /\ ReconcileTrack(loaded, b).name = IF t.name \in Legal THEN t.name ELSE Default
      /\ ReconcileTrack(loaded, b).engines = engines
      /\ ReconcileTrack(loaded, b).mixer = HealSlice(FreshMixer, t.mixer)
      /\ ReconcileTrack(loaded, b).length = length
      /\ ReconcileTrack(loaded, b).steps = steps
      /\ ReconcileTrack(loaded, b).enabled = enabled
  BY <1>4
<1> QED
  BY <1>1, <1>2, <1>3, <1>5, Zenon DEF engines, length, steps, enabled, t

LEMMA Unmixed ==
  /\ \A f \in [Param -> Leaf] : IsObject(f)
  /\ \A f \in [StepKey -> Leaf] : IsObject(f)
  /\ \A f \in [MixerKey -> Leaf] : IsObject(f)
BY ObjectsAreNotBad DEF AnySlice, AnyStep, AnyMixer

\* What the schema takes of a reconciled track is whole.
LEMMA LegalReconciledIsWhole ==
  ASSUME NEW loaded \in AnyTrack \cup Bad, NEW b \in BOOLEAN, LegalTrack(ReconcileTrack(loaded, b))
  PROVE  ReconcileTrack(loaded, b) \in WholeTrack
<1> DEFINE r == ReconcileTrack(loaded, b)
           t == TrackRead(loaded)
<1>1. r.type \in EngineType /\ r.name \in Legal /\ r.enabled \in BOOLEAN /\ r.length \in Row
  BY Zenon DEF LegalTrack
<1>2. t \in AnyTrack
  BY ReconciledParts, Zenon
<1> HIDE DEF t
<1>3. r.engines \in [EngineType -> [Param -> Legal]]
  <2>1. r.engines = [e \in EngineType |-> HealSlice(FreshSlice, Slice(t, e))]
    BY ReconciledParts, Zenon DEF t
  <2>2. \A e \in EngineType : Slice(t, e) \in [Param -> Leaf] \cup Bad
    BY ReconciledParts, Zenon DEF t, AnySlice
  <2>3. \A e \in EngineType : LegalSlice(r.engines[e])
    BY Zenon DEF LegalTrack
  <2> HIDE DEF r
  <2>4. ASSUME NEW e \in EngineType PROVE r.engines[e] \in [Param -> Legal]
    <3>1. r.engines[e] = HealSlice(FreshSlice, Slice(t, e))
      BY <2>1
    <3>2. r.engines[e] = [k \in Param |-> r.engines[e][k]]
      BY <2>2, <3>1, Healed, Templates, Unmixed
    <3>3. \A k \in Param : r.engines[e][k] \in Legal
      BY <2>3 DEF LegalSlice
    <3> QED
      BY <3>2, <3>3
  <2> QED
    BY <2>1, <2>4
<1>4. r.mixer \in [MixerKey -> Legal]
  <2>1. r.mixer = HealSlice(FreshMixer, t.mixer)
    BY ReconciledParts, Zenon DEF t
  <2>2. t.mixer \in [MixerKey -> Leaf] \cup Bad
    BY <1>2, AnyTrackFields DEF AnyMixer
  <2>3. r.mixer = [k \in MixerKey |-> r.mixer[k]]
    BY <2>1, <2>2, Healed, Templates, Unmixed
  <2>4. \A k \in MixerKey : r.mixer[k] \in Legal
    BY Zenon DEF LegalTrack
  <2> HIDE DEF r
  <2> QED
    BY <2>3, <2>4
<1>5. r.steps \in [Row -> WholeStep]
  <2>1. r.steps = [j \in Row |-> HealSlice(FreshStep, StepAt(t, j))]
    BY ReconciledParts, Zenon DEF t
  <2>2. \A j \in Row : StepAt(t, j) \in [StepKey -> Leaf] \cup Bad
    BY ReconciledParts, Zenon DEF t, AnyStep
  <2>3. \A j \in Row : LegalStep(r.steps[j])
    BY Zenon DEF LegalTrack
  <2> HIDE DEF r
  <2>4. ASSUME NEW j \in Row PROVE r.steps[j] \in WholeStep
    <3>1. r.steps[j] = HealSlice(FreshStep, StepAt(t, j))
      BY <2>1
    <3>2. r.steps[j] = [k \in StepKey |-> r.steps[j][k]]
      BY <2>2, <3>1, Healed, Templates, Unmixed
    <3>3. \A k \in StepKey : r.steps[j][k] \in Legal \/ (k \in OptionalStepKey /\ r.steps[j][k] = Absent)
      BY <2>3 DEF LegalStep
    <3>4. \A v \in Legal : v # Absent
      BY LeavesAreNotBad DEF IsObject, Bad
    <3> HIDE DEF r
    <3> QED
      BY <3>2, <3>3, <3>4 DEF WholeStep
  <2> QED
    BY <2>1, <2>4
<1>6. r = [type |-> r.type, name |-> r.name, engines |-> r.engines, mixer |-> r.mixer,
           length |-> r.length, steps |-> r.steps, enabled |-> r.enabled]
  BY ReconciledParts, Zenon
<1> HIDE DEF r
<1>7. [type |-> r.type, name |-> r.name, engines |-> r.engines, mixer |-> r.mixer,
       length |-> r.length, steps |-> r.steps, enabled |-> r.enabled] \in WholeTrack
  BY <1>1, <1>3, <1>4, <1>5, WholeTrackMade, Zenon
<1>8. r \in WholeTrack
  BY <1>6, <1>7, Zenon
<1> QED
  BY <1>8 DEF r

\* A track in which nothing is of the wrong kind comes out whole.
LEMMA CleanReconciledIsWhole ==
  ASSUME NEW loaded \in AnyTrack \cup {Absent}, NEW b \in BOOLEAN,
         IsObject(loaded) => ~GarbageInTrack(loaded)
  PROVE  ReconcileTrack(loaded, b) \in WholeTrack
<1> DEFINE r == ReconcileTrack(loaded, b)
           t == TrackRead(loaded)
<1>1. loaded \in AnyTrack \cup Bad
  BY DEF Bad
<1>2. t \in AnyTrack /\ ~GarbageInTrack(t)
  <2>1. t \in AnyTrack
    BY <1>1, ReconciledParts, Zenon
  <2> QED
    BY <2>1, MissingTrackIsAny DEF TrackRead
<1> HIDE DEF t
<1> USE <1>1
<1>3. Absent \notin Row
  BY LeavesAreNotBad DEF IsObject, Bad, Row
<1>4. r.type \in EngineType /\ r.name \in Legal /\ r.enabled \in BOOLEAN
  <2>1. t.type \in EngineType \cup {Absent}
    BY <1>2, AnyTrackFields DEF GarbageInTrack, Bad
  <2>2. r.type = IF t.type = Absent THEN DefaultEngine ELSE t.type
    BY ReconciledParts, Zenon DEF t
  <2>3. r.name = IF t.name \in Legal THEN t.name ELSE Default
    BY ReconciledParts, Zenon DEF t
  <2>4. r.enabled = IF t.enabled \in BOOLEAN THEN t.enabled ELSE b
    BY ReconciledParts, Zenon DEF t
  <2>5. r.enabled \in BOOLEAN
    BY <2>4, Zenon
  <2> HIDE DEF r
  <2> QED
    BY <2>1, <2>2, <2>3, <2>5, Sizes, Zenon
<1>5. r.length \in Row
  <2>1. t.length \in Row \cup {Absent}
    BY <1>2, AnyTrackFields DEF GarbageInTrack, Bad
  <2>2. r.length = CASE t.length = Absent  -> DefaultLength
                     [] t.length = Garbage -> Garbage
                     [] OTHER              -> ClampTo(t.length, 1, BufferSize)
    BY ReconciledParts, Zenon DEF t
  <2> HIDE DEF r
  <2>3. CASE t.length = Absent
    BY <2>2, <2>3, Sizes
  <2>4. CASE t.length \in Row
    <3>1. t.length # Garbage /\ t.length # Absent
      BY <2>4, LeavesAreNotBad DEF IsObject, Bad, Row
    <3>2. ClampTo(t.length, 1, BufferSize) = t.length
      BY <2>4, Sizes DEF ClampTo, Row
    <3> QED
      BY <2>2, <2>4, <3>1, <3>2
  <2> QED
    BY <2>1, <2>3, <2>4
<1>6. r.engines \in [EngineType -> [Param -> Legal]]
  <2>1. r.engines = [e \in EngineType |-> HealSlice(FreshSlice, Slice(t, e))]
    BY ReconciledParts, Zenon DEF t
  <2>2. \A e \in EngineType : Slice(t, e) \in [Param -> Leaf] \cup Bad
    BY ReconciledParts, Zenon DEF t, AnySlice
  <2>3. \A e \in EngineType : ~GarbageIn(Slice(t, e), Param)
    <3>1. ~GarbageIn(Absent, Param)
      BY Sizes, AnyStructures DEF GarbageIn, Bad
    <3>2. IsObject(t.engines) => \A e \in EngineType : ~GarbageIn(t.engines[e], Param)
      BY <1>2 DEF GarbageInTrack
    <3> QED
      BY <3>1, <3>2 DEF Slice
  <2> HIDE DEF r
  <2>4. \A e \in EngineType : HealSlice(FreshSlice, Slice(t, e)) \in [Param -> Legal]
    BY <2>2, <2>3, Healed, Templates, Unmixed
  <2> QED
    BY <2>1, <2>4
<1>7. r.mixer \in [MixerKey -> Legal]
  <2>1. r.mixer = HealSlice(FreshMixer, t.mixer)
    BY ReconciledParts, Zenon DEF t
  <2>2. t.mixer \in [MixerKey -> Leaf] \cup Bad
    BY <1>2, AnyTrackFields DEF AnyMixer
  <2>3. ~GarbageIn(t.mixer, MixerKey)
    BY <1>2, Zenon DEF GarbageInTrack
  <2> QED
    BY <2>1, <2>2, <2>3, Healed, Templates, Unmixed
<1>8. r.steps \in [Row -> WholeStep]
  <2>1. r.steps = [j \in Row |-> HealSlice(FreshStep, StepAt(t, j))]
    BY ReconciledParts, Zenon DEF t
  <2>2. \A j \in Row : StepAt(t, j) \in [StepKey -> Leaf] \cup Bad
    BY ReconciledParts, Zenon DEF t, AnyStep
  <2>3. \A j \in Row : ~GarbageIn(StepAt(t, j), StepKey)
    <3>1. ~GarbageIn(Absent, StepKey)
      BY Sizes, AnyStructures DEF GarbageIn, Bad
    <3>2. IsObject(t.steps) => \A j \in DOMAIN t.steps : ~GarbageIn(t.steps[j], StepKey)
      BY <1>2 DEF GarbageInTrack
    <3> QED
      BY <3>1, <3>2 DEF StepAt
  <2> HIDE DEF r
  <2>4. \A j \in Row : HealSlice(FreshStep, StepAt(t, j)) \in WholeStep
    BY <2>2, <2>3, Healed, Templates, Unmixed
  <2> QED
    BY <2>1, <2>4
<1>9. r = [type |-> r.type, name |-> r.name, engines |-> r.engines, mixer |-> r.mixer,
           length |-> r.length, steps |-> r.steps, enabled |-> r.enabled]
  BY ReconciledParts, Zenon
<1> HIDE DEF r
<1>10. [type |-> r.type, name |-> r.name, engines |-> r.engines, mixer |-> r.mixer,
       length |-> r.length, steps |-> r.steps, enabled |-> r.enabled] \in WholeTrack
  BY <1>4, <1>5, <1>6, <1>7, <1>8, WholeTrackMade, Zenon
<1>11. r \in WholeTrack
  BY <1>9, <1>10, Zenon
<1> QED
  BY <1>11 DEF r

LEMMA StepsReplaced ==
  ASSUME NEW type, NEW name, NEW engines, NEW mixer, NEW length, NEW enabled, NEW steps, NEW new, NEW u,
         u = [type |-> type, name |-> name, engines |-> engines, mixer |-> mixer, length |-> length,
              steps |-> steps, enabled |-> enabled]
  PROVE  [u EXCEPT !.steps = new] =
           [type |-> type, name |-> name, engines |-> engines, mixer |-> mixer, length |-> length,
            steps |-> new, enabled |-> enabled]
OBVIOUS

\* A whole track comes out as it was, but for the optional keys its steps lack.
LEMMA WholeReconciledIsTheSame ==
  ASSUME NEW t \in WholeTrack, NEW b \in BOOLEAN
  PROVE  TrackWithoutOptional(ReconcileTrack(t, b)) = TrackWithoutOptional(t)
<1> DEFINE r == ReconcileTrack(t, b)
           strip(u) == [j \in Row |-> [k \in StepKey \ OptionalStepKey |-> u.steps[j][k]]]
<1>1. t \in AnyTrack /\ t \in AnyTrack \cup Bad /\ IsObject(t)
  BY WholeIsOld, OldIsAny, ObjectsAreNotBad
<1>2. TrackRead(t) = t
  BY <1>1 DEF TrackRead
<1> DEFINE Parts(u) ==
             /\ r.type = IF u.type = Absent THEN DefaultEngine ELSE u.type
             /\ r.name = IF u.name \in Legal THEN u.name ELSE Default
             /\ r.engines = [e \in EngineType |-> HealSlice(FreshSlice, Slice(u, e))]
             /\ r.mixer = HealSlice(FreshMixer, u.mixer)
             /\ r.length = CASE u.length = Absent  -> DefaultLength
                              [] u.length = Garbage -> Garbage
                              [] OTHER              -> ClampTo(u.length, 1, BufferSize)
             /\ r.steps = [j \in Row |-> HealSlice(FreshStep, StepAt(u, j))]
             /\ r.enabled = IF u.enabled \in BOOLEAN THEN u.enabled ELSE b
<1>parts. Parts(t)
  <2>1. Parts(TrackRead(t))
    BY <1>1, ReconciledParts, ZenonT(60)
  <2> HIDE DEF Parts
  <2> QED
    BY <2>1, <1>2
<1> USE WholeTrackFields
<1>3. r.type = t.type
  <2>1. r.type = IF t.type = Absent THEN DefaultEngine ELSE t.type
    BY <1>parts, Zenon
  <2>2. t.type # Absent
    BY LeavesAreNotBad DEF IsObject, Bad
  <2> HIDE DEF r
  <2> QED
    BY <2>1, <2>2
<1>4. r.name = t.name
  BY <1>parts, Zenon
<1>5. r.enabled = t.enabled
  <2>1. r.enabled = IF t.enabled \in BOOLEAN THEN t.enabled ELSE b
    BY <1>parts, Zenon
  <2>2. t.enabled \in BOOLEAN
    OBVIOUS
  <2> HIDE DEF r
  <2> QED
    BY <2>1, <2>2, Zenon
<1>6. r.length = t.length
  <2>1. r.length = CASE t.length = Absent  -> DefaultLength
                     [] t.length = Garbage -> Garbage
                     [] OTHER              -> ClampTo(t.length, 1, BufferSize)
    BY <1>parts, Zenon
  <2>2. t.length # Garbage /\ t.length # Absent
    BY LeavesAreNotBad DEF IsObject, Bad, Row
  <2>3. ClampTo(t.length, 1, BufferSize) = t.length
    BY Sizes DEF ClampTo, Row
  <2> HIDE DEF r
  <2> QED
    BY <2>1, <2>2, <2>3
<1>7. r.engines = t.engines
  <2>1. r.engines = [e \in EngineType |-> HealSlice(FreshSlice, Slice(t, e))]
    BY <1>parts, Zenon
  <2>2. \A e \in EngineType : Slice(t, e) = t.engines[e]
    <3>1. IsObject(t.engines)
      BY WholeIsOld, OldIsAny, ObjectsAreNotBad
    <3> QED
      BY <3>1 DEF Slice
  <2>3. \A s \in [Param -> Legal] : s \in [Param -> Leaf] \cup Bad
    BY DEF Leaf
  <2>4. \A e \in EngineType : HealSlice(FreshSlice, Slice(t, e)) = t.engines[e]
    BY <2>2, <2>3, Healed, Templates, Unmixed
  <2> HIDE DEF r
  <2> QED
    BY <2>1, <2>4
<1>8. r.mixer = t.mixer
  <2>1. r.mixer = HealSlice(FreshMixer, t.mixer)
    BY <1>parts, Zenon
  <2>2. t.mixer \in [MixerKey -> Leaf] \cup Bad
    BY DEF Leaf
  <2> QED
    BY <2>1, <2>2, Healed, Templates, Unmixed
<1>9. strip(r) = strip(t)
  <2>1. r.steps = [j \in Row |-> HealSlice(FreshStep, StepAt(t, j))]
    BY <1>parts, Zenon
  <2>2. IsObject(t.steps) /\ DOMAIN t.steps = Row
    BY WholeIsOld, OldIsAny, ObjectsAreNotBad
  <2> HIDE DEF r
  <2>3. ASSUME NEW j \in Row, NEW k \in StepKey \ OptionalStepKey
        PROVE  r.steps[j][k] = t.steps[j][k]
    <3>1. t.steps[j] \in WholeStep
      OBVIOUS
    <3>2. StepAt(t, j) = t.steps[j]
      BY <2>2 DEF StepAt
    <3>3. IsObject(t.steps[j])
      BY <3>1, OldStepsAreAny, ObjectsAreNotBad
    <3>4. t.steps[j][k] # Absent
      BY <3>1 DEF WholeStep
    <3>5. DOMAIN FreshStep = StepKey
      BY DEF FreshStep
    <3>6. HealSlice(FreshStep, t.steps[j])[k] = t.steps[j][k]
      BY <3>3, <3>4, <3>5 DEF HealSlice
    <3> QED
      BY <2>1, <3>2, <3>6
  <2> QED
    BY <2>3
<1>10. r = [type |-> r.type, name |-> r.name, engines |-> r.engines, mixer |-> r.mixer,
            length |-> r.length, steps |-> r.steps, enabled |-> r.enabled]
  BY <1>1, ReconciledParts, ZenonT(60)
<1>11. r = [type |-> t.type, name |-> t.name, engines |-> t.engines, mixer |-> t.mixer,
            length |-> t.length, steps |-> r.steps, enabled |-> t.enabled]
  BY <1>3, <1>4, <1>5, <1>6, <1>7, <1>8, <1>10, Zenon
<1> DEFINE stripped == strip(t)
<1>12. TrackWithoutOptional(r) = [r EXCEPT !.steps = stripped] /\ TrackWithoutOptional(t) = [t EXCEPT !.steps = stripped]
  BY <1>9, Zenon DEF TrackWithoutOptional
<1> HIDE DEF r, stripped
<1>13. [r EXCEPT !.steps = stripped] = [t EXCEPT !.steps = stripped]
  <2>1. t = [type |-> t.type, name |-> t.name, engines |-> t.engines, mixer |-> t.mixer,
             length |-> t.length, steps |-> t.steps, enabled |-> t.enabled]
    BY Zenon
  <2> QED
    <3> DEFINE type == t.type
               name == t.name
               engines == t.engines
               mixer == t.mixer
               length == t.length
               enabled == t.enabled
    <3> HIDE DEF type, name, engines, mixer, length, enabled
    <3>1. [r EXCEPT !.steps = stripped] = [type |-> type, name |-> name, engines |-> engines, mixer |-> mixer,
                                           length |-> length, steps |-> stripped, enabled |-> enabled]
      <4>1. r = [type |-> type, name |-> name, engines |-> engines, mixer |-> mixer,
                 length |-> length, steps |-> r.steps, enabled |-> enabled]
        BY <1>11, Zenon DEF type, name, engines, mixer, length, enabled
      <4> QED
        BY <4>1, StepsReplaced
    <3>2. [t EXCEPT !.steps = stripped] = [type |-> type, name |-> name, engines |-> engines, mixer |-> mixer,
                                           length |-> length, steps |-> stripped, enabled |-> enabled]
      <4>1. t = [type |-> type, name |-> name, engines |-> engines, mixer |-> mixer,
                 length |-> length, steps |-> t.steps, enabled |-> enabled]
        BY <2>1, Zenon DEF type, name, engines, mixer, length, enabled
      <4> QED
        BY <4>1, StepsReplaced
    <3> QED
      BY <3>1, <3>2
<1> QED
  BY <1>12, <1>13 DEF r

-----------------------------------------------------------------------------
(* Opening a file *)

\* Nothing in a whole project is of the wrong kind.
LEMMA WholeIsClean ==
  ASSUME NEW p \in WholeProject
  PROVE  ~HasGarbage(p)
<1> USE WholeProjectFields
<1>1. p.version # Garbage /\ p.bpm # Garbage /\ p.order # Garbage /\ p.tracks # Garbage
  <2>1. p.version \in Nat /\ p.bpm \in Nat
    BY Sizes DEF CurrentVersion
  <2>2. IsObject(p.order)
    BY ObjectsAreNotBad DEF Order
  <2>3. IsObject(p.tracks)
    BY WholeIsOld, OldIsAny, ObjectsAreNotBad
  <2> QED
    BY <2>1, <2>2, <2>3, LeavesAreNotBad DEF IsObject, Bad
<1>2. \A v \in Legal : v # Garbage
  BY LeavesAreNotBad DEF IsObject, Bad
<1>3. ASSUME NEW t \in WholeTrack PROVE t # Garbage /\ ~GarbageInTrack(t)
  <2> USE WholeTrackFields
  <2>1. t # Garbage
    BY WholeTrackIsLegal DEF IsObject, Bad
  <2>2. t.type # Garbage /\ t.name # Garbage /\ t.length # Garbage
    BY LeavesAreNotBad DEF IsObject, Bad, Row
  <2>3. t.enabled # Garbage
    <3>1. t.enabled \in BOOLEAN
      BY Zenon
    <3> QED
      BY <3>1, LeavesAreNotBad, Zenon DEF IsObject, Bad
  <2>4. t.engines # Garbage /\ t.steps # Garbage /\ DOMAIN t.steps = Row
    <3>1. IsObject(t.engines) /\ IsObject(t.steps)
      BY WholeIsOld, OldIsAny, ObjectsAreNotBad
    <3> QED
      BY <3>1 DEF IsObject, Bad
  <2>5. ~GarbageIn(t.mixer, MixerKey)
    <3>1. IsObject(t.mixer)
      BY OldIsAny, ObjectsAreNotBad
    <3> QED
      BY <1>2, <3>1 DEF GarbageIn, IsObject, Bad
  <2>6. ASSUME NEW e \in EngineType PROVE ~GarbageIn(t.engines[e], Param)
    <3>1. IsObject(t.engines[e])
      BY OldIsAny, ObjectsAreNotBad DEF Leaf, AnySlice, Bad
    <3> QED
      BY <1>2, <3>1 DEF GarbageIn, IsObject, Bad
  <2>7. ASSUME NEW j \in Row PROVE ~GarbageIn(t.steps[j], StepKey)
    <3>1. t.steps[j] \in WholeStep
      OBVIOUS
    <3>2. IsObject(t.steps[j])
      BY <3>1, OldStepsAreAny, ObjectsAreNotBad
    <3>3. \A k \in StepKey : t.steps[j][k] # Garbage
      BY <1>2, <3>1, Sizes DEF WholeStep
    <3> QED
      BY <3>2, <3>3 DEF GarbageIn, IsObject, Bad
  <2> QED
    BY <2>1, <2>2, <2>3, <2>4, <2>5, <2>6, <2>7, Zenon DEF GarbageInTrack
<1>4. DOMAIN p.tracks = Slot /\ \A i \in Slot : p.tracks[i] \in WholeTrack
  OBVIOUS
<1> QED
  BY <1>1, <1>3, <1>4, Zenon DEF HasGarbage

\* The tracks of a file as the reader takes them.
LEMMA ReadTracks ==
  ASSUME NEW p \in AnyProject,
         NEW tracks, tracks = IF IsObject(p.tracks) THEN p.tracks ELSE <<>>
  PROVE  /\ tracks \in AnyTracks /\ Len(tracks) \in Nat
         /\ \A i \in DOMAIN tracks : tracks[i] \in AnyTrack \cup Bad
<1>1. tracks \in AnyTracks
  <2>1. <<>> \in AnyTracks
    BY EmptySeq DEF AnyTracks
  <2> QED
    BY <2>1, AnyProjectFields, AnyStructures
<1> QED
  BY <1>1, LenProperties, ElementOfSeq DEF AnyTracks

\* reconcileWithDefaults, with the flag each track is given.
InUse(p, i) ==
  LET tracks == IF IsObject(p.tracks) THEN p.tracks ELSE <<>>
      inUse  == IF Len(tracks) > DefaultEnabled THEN Len(tracks) ELSE DefaultEnabled
  IN i <= inUse

Loaded(p, i) ==
  LET tracks == IF IsObject(p.tracks) THEN p.tracks ELSE <<>>
  IN IF i \in DOMAIN tracks THEN tracks[i] ELSE Absent

LEMMA ReconciledProject ==
  ASSUME NEW p \in AnyProject
  PROVE  /\ Reconcile(p) = [version |-> CurrentVersion, bpm |-> CoerceBpm(p.bpm), order |-> CoerceTrackOrder(p.order),
                            tracks |-> [i \in Slot |-> ReconcileTrack(Loaded(p, i), InUse(p, i))]]
         /\ CoerceBpm(p.bpm) \in BpmMin..BpmMax /\ CoerceTrackOrder(p.order) \in Order
         /\ \A i \in Slot : InUse(p, i) \in BOOLEAN /\ Loaded(p, i) \in AnyTrack \cup Bad
<1>1. Reconcile(p) = [version |-> CurrentVersion, bpm |-> CoerceBpm(p.bpm), order |-> CoerceTrackOrder(p.order),
                      tracks |-> [i \in Slot |-> ReconcileTrack(Loaded(p, i), InUse(p, i))]]
  BY Zenon DEF Reconcile, Loaded, InUse
<1>2. CoerceBpm(p.bpm) \in BpmMin..BpmMax /\ CoerceTrackOrder(p.order) \in Order
  BY AnyProjectFields, CoercedBpm, CoercedOrder
<1>3. ASSUME NEW i \in Slot PROVE InUse(p, i) \in BOOLEAN
  <2> DEFINE tracks == IF IsObject(p.tracks) THEN p.tracks ELSE <<>>
  <2>1. Len(tracks) \in Nat
    BY ReadTracks
  <2> HIDE DEF tracks
  <2>2. \A n \in Nat : (i <= n) \in BOOLEAN
    BY Sizes DEF Slot
  <2>3. (IF Len(tracks) > DefaultEnabled THEN Len(tracks) ELSE DefaultEnabled) \in Nat
    BY <2>1, Sizes DEF Slot
  <2>4. InUse(p, i) = (i <= (IF Len(tracks) > DefaultEnabled THEN Len(tracks) ELSE DefaultEnabled))
    BY Zenon DEF InUse, tracks
  <2> QED
    BY <2>2, <2>3, <2>4, Zenon
<1>4. ASSUME NEW i \in Slot PROVE Loaded(p, i) \in AnyTrack \cup Bad
  BY ReadTracks DEF Loaded, Bad
<1> QED
  BY <1>1, <1>2, <1>3, <1>4

LEMMA MigratedIsAny ==
  ASSUME NEW p \in AnyProject
  PROVE  /\ MigrateToLatest(p) \in AnyProject
         /\ p.version = CurrentVersion => MigrateToLatest(p) = p
         /\ p.version = 1 => MigrateToLatest(p) = [p EXCEPT !.version = CurrentVersion]
         /\ p.version \in Bad => MigrateToLatest(p) = FreshProject
<1>1. CurrentVersion \in 1..(CurrentVersion + 1) /\ CurrentVersion # 1
  BY DEF CurrentVersion
<1>2. [p EXCEPT !.version = CurrentVersion] \in AnyProject
  BY <1>1, AnyProjectFields, Zenon DEF AnyProject
<1>3. FreshProject \in AnyProject
  BY FreshProjectIsWhole, WholeProjectIsAny
<1>4. p.version \in Bad => p.version # CurrentVersion /\ p.version # 1
  <2>1. CurrentVersion \in Nat /\ 1 \in Nat
    BY DEF CurrentVersion
  <2> QED
    BY <2>1, LeavesAreNotBad DEF IsObject
<1> QED
  BY <1>1, <1>2, <1>3, <1>4 DEF MigrateToLatest

LEMMA OpenedIsWhole ==
  ASSUME NEW p \in AnyProject, Admitted(p)
  PROVE  /\ Deserialize(p) \in WholeProject
         /\ Normalize(Deserialize(p)) \in WholeProject
<1> DEFINE q == MigrateToLatest(p)
           d == Deserialize(p)
<1>1. q \in AnyProject
  BY MigratedIsAny
<1>2. d = Reconcile(q)
  BY DEF Deserialize
<1>3. LegalProject(d)
  BY DEF Admitted
<1> HIDE DEF q, d
<1>4. \A i \in Slot : d.tracks[i] = ReconcileTrack(Loaded(q, i), InUse(q, i))
  BY <1>1, <1>2, ReconciledProject
<1>5. \A i \in Slot : ReconcileTrack(Loaded(q, i), InUse(q, i)) \in WholeTrack
  <2>1. \A i \in Slot : LegalTrack(ReconcileTrack(Loaded(q, i), InUse(q, i)))
    BY <1>3, <1>4 DEF LegalProject
  <2> QED
    BY <1>1, <2>1, ReconciledProject, LegalReconciledIsWhole
<1> DEFINE tracks == [i \in Slot |-> ReconcileTrack(Loaded(q, i), InUse(q, i))]
<1>6. tracks \in [Slot -> WholeTrack]
  BY <1>5
<1>7. d = [version |-> CurrentVersion, bpm |-> CoerceBpm(q.bpm), order |-> CoerceTrackOrder(q.order), tracks |-> tracks]
  BY <1>1, <1>2, ReconciledProject
<1> HIDE DEF tracks
<1>8. d \in WholeProject
  BY <1>1, <1>6, <1>7, ReconciledProject, WholeProjectMade
<1>9. Normalize(d) \in WholeProject
  <2>1. tracks \in Seq(OldTrack)
    BY <1>6, WholeIsOld
  <2> QED
    BY <1>1, <1>7, <2>1, ReconciledProject, NormalizedIsWhole
<1> QED
  BY <1>8, <1>9 DEF d

\* A file of which the parts that are there are of the right kind is admitted.
LEMMA CleanIsAdmitted ==
  ASSUME NEW p \in AnyProject, ~HasGarbage(p), ~IsFuture(p)
  PROVE  Admitted(p)
<1> DEFINE q == MigrateToLatest(p)
<1>1. q \in AnyProject /\ ~HasGarbage(q)
  <2>1. CASE p.version = CurrentVersion
    BY <2>1, MigratedIsAny
  <2>2. CASE p.version = 1
    <3>1. q = [p EXCEPT !.version = CurrentVersion]
      BY <2>2, MigratedIsAny
    <3>2. q.version = CurrentVersion /\ q.bpm = p.bpm /\ q.order = p.order /\ q.tracks = p.tracks
      BY <3>1, AnyProjectFields
    <3>3. CurrentVersion # Garbage
      <4>1. CurrentVersion \in Nat
        BY DEF CurrentVersion
      <4> QED
        BY <4>1, LeavesAreNotBad DEF IsObject, Bad
    <3>4. ~HasGarbage(q)
      BY <3>2, <3>3, Zenon DEF HasGarbage
    <3> QED
      BY <3>4, MigratedIsAny
  <2>3. CASE p.version \in Bad
    <3>1. q = FreshProject /\ q \in WholeProject /\ q \in AnyProject
      BY <2>3, MigratedIsAny, FreshProjectIsWhole
    <3>2. ~HasGarbage(q)
      BY <3>1, WholeIsClean
    <3> QED
      BY <3>1, <3>2
  <2>4. p.version \in {1, CurrentVersion} \cup Bad
    <3>1. p.version \notin Nat \ {1, CurrentVersion}
      BY DEF IsFuture
    <3>2. p.version \in 1..(CurrentVersion + 1) \cup Bad
      BY AnyProjectFields
    <3> QED
      BY <3>1, <3>2 DEF CurrentVersion
  <2> QED
    BY <2>1, <2>2, <2>3, <2>4
<1>2. Deserialize(p) = Reconcile(q)
  BY DEF Deserialize
<1> HIDE DEF q
<1>3. ASSUME NEW i \in Slot
      PROVE  ReconcileTrack(Loaded(q, i), InUse(q, i)) \in WholeTrack
  <2>1. InUse(q, i) \in BOOLEAN /\ Loaded(q, i) \in AnyTrack \cup Bad
    BY <1>1, ReconciledProject
  <2>2. Loaded(q, i) # Garbage /\ (IsObject(Loaded(q, i)) => ~GarbageInTrack(Loaded(q, i)))
    <3>1. CASE ~IsObject(q.tracks)
      <4>1. Loaded(q, i) = Absent
        BY <3>1 DEF Loaded
      <4> QED
        BY <4>1, Sizes, AnyStructures DEF Bad
    <3>2. CASE IsObject(q.tracks) /\ i \notin DOMAIN q.tracks
      <4>1. Loaded(q, i) = Absent
        BY <3>2 DEF Loaded
      <4> QED
        BY <4>1, Sizes, AnyStructures DEF Bad
    <3>3. CASE IsObject(q.tracks) /\ i \in DOMAIN q.tracks
      <4>1. Loaded(q, i) = q.tracks[i]
        BY <3>3 DEF Loaded
      <4> QED
        BY <1>1, <3>3, <4>1, Zenon DEF HasGarbage
    <3> QED
      BY <3>1, <3>2, <3>3
  <2>3. Loaded(q, i) \in AnyTrack \cup {Absent}
    BY <2>1, <2>2 DEF Bad
  <2> QED
    BY <2>1, <2>2, <2>3, CleanReconciledIsWhole
<1> DEFINE tracks == [i \in Slot |-> ReconcileTrack(Loaded(q, i), InUse(q, i))]
<1>4. tracks \in [Slot -> WholeTrack]
  BY <1>3
<1>5. Reconcile(q) = [version |-> CurrentVersion, bpm |-> CoerceBpm(q.bpm), order |-> CoerceTrackOrder(q.order),
                      tracks |-> tracks]
  BY <1>1, ReconciledProject
<1> HIDE DEF tracks
<1>6. Reconcile(q) \in WholeProject
  BY <1>1, <1>4, <1>5, ReconciledProject, WholeProjectMade
<1> QED
  BY <1>2, <1>6, NormalizedWhole DEF Admitted

\* A whole project is saved and opened again as it was.
LEMMA WholeReopens ==
  ASSUME NEW p \in WholeProject
  PROVE  /\ Admitted(p)
         /\ WithoutOptional(Deserialize(p)) = WithoutOptional(p)
<1> USE WholeProjectFields
<1>1. p \in AnyProject
  BY WholeProjectIsAny
<1>2. ~IsFuture(p)
  BY DEF IsFuture
<1>3. Admitted(p)
  BY <1>1, <1>2, WholeIsClean, CleanIsAdmitted
<1>4. Deserialize(p) = Reconcile(p)
  BY <1>1, MigratedIsAny DEF Deserialize
<1> DEFINE tracks == [i \in Slot |-> ReconcileTrack(Loaded(p, i), InUse(p, i))]
<1>5. Reconcile(p) = [version |-> p.version, bpm |-> p.bpm, order |-> p.order, tracks |-> tracks]
  <2>1. CoerceTrackOrder(p.order) = p.order
    BY CoercedOrder
  <2>2. CoerceBpm(p.bpm) = p.bpm
    <3>1. p.bpm \in (BpmMin..(BpmMax + 1)) \cup Bad
      BY Sizes
    <3> QED
      BY <3>1, CoercedBpm
  <2> QED
    BY <1>1, <2>1, <2>2, ReconciledProject, Zenon
<1>6. ASSUME NEW i \in Slot PROVE TrackWithoutOptional(tracks[i]) = TrackWithoutOptional(p.tracks[i])
  <2>1. IsObject(p.tracks)
    BY WholeIsOld, OldIsAny, ObjectsAreNotBad
  <2>2. Loaded(p, i) = p.tracks[i]
    BY <2>1 DEF Loaded
  <2>3. InUse(p, i) \in BOOLEAN
    BY <1>1, ReconciledProject
  <2>4. tracks[i] = ReconcileTrack(p.tracks[i], InUse(p, i))
    BY <2>2
  <2> QED
    BY <2>3, <2>4, WholeReconciledIsTheSame
<1> HIDE DEF tracks
<1> DEFINE stripped == [i \in Slot |-> TrackWithoutOptional(p.tracks[i])]
<1>7. WithoutOptional(Reconcile(p)) = [Reconcile(p) EXCEPT !.tracks = stripped]
  <2>1. Reconcile(p).tracks = tracks
    BY <1>5
  <2>2. [i \in Slot |-> TrackWithoutOptional(tracks[i])] = stripped
    BY <1>6
  <2> HIDE DEF stripped
  <2> QED
    BY <2>1, <2>2, Zenon DEF WithoutOptional
<1>8. WithoutOptional(p) = [p EXCEPT !.tracks = stripped]
  BY Zenon DEF WithoutOptional
<1> HIDE DEF stripped
<1>9. [Reconcile(p) EXCEPT !.tracks = stripped] = [p EXCEPT !.tracks = stripped]
  BY <1>5
<1> QED
  BY <1>3, <1>4, <1>7, <1>8, <1>9

-----------------------------------------------------------------------------
(* The theorems *)

\* Whatever moves it, each copy of a project stays of its kind: the room's is whole, the row is
\* one that some release wrote, the file is one that hands may have left.
THEOREM CopiesKeepTheirKind == DocumentsSpec => []DocumentsTypeOK
<1>1. InitDocuments => DocumentsTypeOK
  <2> SUFFICES ASSUME InitDocuments PROVE DocumentsTypeOK
    OBVIOUS
  <2> USE FreshProjectIsWhole
  <2>1. IsOldRow(Pack(FreshProject))
    BY PackedIsOld
  <2>2. FreshProject \in AnyProject
    BY WholeProjectIsAny
  <2> QED
    BY <2>1, <2>2, Zenon DEF InitDocuments, DocumentsTypeOK
<1>2. DocumentsTypeOK /\ [NextDocuments]_documentVars => DocumentsTypeOK'
  <2> SUFFICES ASSUME DocumentsTypeOK, [NextDocuments]_documentVars PROVE DocumentsTypeOK'
    OBVIOUS
  <2>1. served \in WholeProject /\ IsOldRow(stored) /\ file \in AnyProject
    BY Zenon DEF DocumentsTypeOK
  <2>2. CASE UNCHANGED documentVars
    BY <2>1, <2>2, Zenon DEF documentVars, DocumentsTypeOK
  <2>3. CASE \E path \in Pattern : \E value \in Candidate(path) : Write(path, value)
    BY <2>1, <2>3, WriteKeepsWhole, Zenon DEF Write, DocumentsTypeOK
  <2>4. CASE \E i \in Slot, e \in EngineType, params \in [Param -> Leaf] : ApplyPreset(i, e, params)
    BY <2>1, <2>4, PresetKeepsWhole, Zenon DEF ApplyPreset, DocumentsTypeOK
  <2>5. CASE Flush
    BY <2>1, <2>5, PackedIsOld, Zenon DEF Flush, DocumentsTypeOK
  <2>6. CASE Reseed
    BY <2>1, <2>6, UnpackedIsWhole, Zenon DEF Reseed, DocumentsTypeOK
  <2>7. CASE Save
    <3>1. served \in AnyProject
      BY <2>1, WholeProjectIsAny
    <3> QED
      BY <2>1, <2>7, <3>1, Zenon DEF Save, DocumentsTypeOK
  <2>8. CASE Open
    BY <2>1, <2>8, OpenedIsWhole, Zenon DEF Open, DocumentsTypeOK
  <2>9. CASE Age
    BY <2>1, <2>9, AgedRowIsOld, Zenon DEF Age, DocumentsTypeOK
  <2>10. CASE \E v \in {Absent, Garbage} : HandEdit(v)
    <3>1. PICK v \in Bad : HandEdit(v)
      BY <2>10, Zenon DEF Bad
    <3> QED
      BY <2>1, <3>1, HandEditedIsAny, Zenon DEF HandEdit, DocumentsTypeOK
  <2>11. CASE RepairScript
    <3> DEFINE tracks == IF stored.sparse THEN Absent ELSE stored.tracks
               raw == [version |-> stored.version, bpm |-> stored.bpm, order |-> stored.order, tracks |-> tracks]
               new == Normalize(raw)
    <3>1. new \in WholeProject
      <4>1. tracks \in Seq(OldTrack) \cup {Absent}
        BY <2>1, OldRowFields, Zenon
      <4> HIDE DEF tracks
      <4> QED
        BY <2>1, <4>1, OldRowFields, NormalizedIsWhole, Zenon
    <3>2. stored' = [sparse |-> FALSE, version |-> new.version, bpm |-> new.bpm, order |-> new.order,
                     tracks |-> new.tracks] /\ served' = served /\ file' = file
      BY <2>11, Zenon DEF RepairScript
    <3> HIDE DEF new
    <3>3. IsOldRow(stored')
      <4>1. new.version \in 1..CurrentVersion
        BY <3>1, WholeProjectFields DEF CurrentVersion
      <4>2. new.tracks \in Seq(OldTrack) /\ Len(new.tracks) <= PoolSize
        <5>1. new.tracks \in [1..PoolSize -> WholeTrack]
          BY <3>1, WholeProjectFields DEF Slot
        <5>2. Len(new.tracks) = PoolSize
          BY <5>1, ArrayIsASequence, Sizes
        <5> QED
          BY <5>1, <5>2, WholeIsOld, Sizes DEF Slot
      <4> QED
        BY <3>1, <3>2, <4>1, <4>2, WholeProjectFields, ArrayIsOld, Zenon
    <3> QED
      BY <2>1, <3>2, <3>3, Zenon DEF DocumentsTypeOK
  <2> QED
    BY <2>2, <2>3, <2>4, <2>5, <2>6, <2>7, <2>8, <2>9, <2>10, <2>11, Zenon DEF NextDocuments
<1> QED
  BY <1>1, <1>2, PTL DEF DocumentsSpec

\* The room's project is one the schema allows, after any mixture of writes checked leaf by leaf,
\* presets, reseeds from rows of any age, and files that hands have edited (accept-list.ts,
\* normalize.ts, storage.ts).
THEOREM ProjectStaysLegal == DocumentsSpec => []RoomLegal
<1>1. DocumentsTypeOK => RoomLegal
  BY NormalizedWhole DEF DocumentsTypeOK, RoomLegal
<1> QED
  BY <1>1, CopiesKeepTheirKind, PTL

\* What the sparse row leaves out, unpacking puts back (snapshot-codec.ts).
THEOREM FlushedRowRestores == DocumentsSpec => []RowRestores
<1>1. DocumentsTypeOK => RowRestores
  BY PackedIsOld, NormalizedWhole DEF DocumentsTypeOK, RowRestores
<1> QED
  BY <1>1, CopiesKeepTheirKind, PTL

\* A project saved to a file is admitted wherever it is opened, and comes back the same
\* (storage.ts, ConnectionHandler's load).
THEOREM SavedFileReopens == DocumentsSpec => []ReopenRestores
<1>1. DocumentsTypeOK => ReopenRestores
  BY WholeReopens DEF DocumentsTypeOK, ReopenRestores
<1> QED
  BY <1>1, CopiesKeepTheirKind, PTL

\* A file that lacks parts, and has nothing of the wrong kind, opens (storage.ts).
THEOREM OldFileOpens == DocumentsSpec => []OlderFilesOpen
<1>1. DocumentsTypeOK => OlderFilesOpen
  BY CleanIsAdmitted DEF DocumentsTypeOK, OlderFilesOpen
<1> QED
  BY <1>1, CopiesKeepTheirKind, PTL

-----------------------------------------------------------------------------
(* The library, in its part of the server *)

RequestStages == {"sent", "rowed", "found", "200", "201", "204", "4xx", "500"}
LibraryRequests ==
  [op : {"post", "patch", "delete", "get", "list", "hello"}, kind : Shelves!Kinds,
   who : Caller, id : RoomId,
   occupied : SUBSET RoomId, at : RequestStages]

\* A request to create this has got past its first statement.
Made(kind, id) ==
  \E n \in 1..Len(x4) : x4[n].op = "post" /\ x4[n].kind = kind /\ x4[n].id = id /\ x4[n].at # "sent"

\* An id is created once.
CreatedOnce ==
  \A m, n \in 1..Len(x4) : x4[m].op = "post" /\ x4[n].op = "post" /\ x4[m].id = x4[n].id => m = n

RowsAreMade ==
  /\ DOMAIN x1 = Shelves!Kinds
  /\ \A kind \in Shelves!Kinds : \A id \in DOMAIN x1[kind] : Made(kind, id)
  /\ DOMAIN x2 \subseteq DOMAIN x1["session"]

\* What a deletion has found was made.
FoundWasMade == \A n \in 1..Len(x4) : x4[n].op = "delete" /\ x4[n].at = "found" => Made(x4[n].kind, x4[n].id)

ConfirmedStands ==
  \A n \in 1..Len(x4) : x4[n].op = "post" /\ x4[n].at = "201" /\ x4[n].id \notin x6 =>
    /\ x4[n].id \in DOMAIN x1[x4[n].kind]
    /\ x4[n].kind = "session" => x4[n].id \in DOMAIN x2

\* What is gone has no row, and no creation of it is still to start.
GoneStaysGone ==
  \A id \in x6 : /\ \A kind \in Shelves!Kinds : id \notin DOMAIN x1[kind]
                 /\ \E kind \in Shelves!Kinds : Made(kind, id)

LibraryInv ==
  /\ x4 \in Seq(LibraryRequests) /\ DOMAIN x3 \subseteq RoomId
  /\ CreatedOnce /\ RowsAreMade /\ FoundWasMade /\ ConfirmedStands /\ GoneStaysGone

LEMMA RowsAreOfOneKind ==
  ASSUME LibraryInv, NEW n \in 1..Len(x4), x4[n].op = "post",
         NEW kind, Made(kind, x4[n].id)
  PROVE  x4[n].kind = kind /\ x4[n].at # "sent"
BY DEF LibraryInv, CreatedOnce, Made

LEMMA RequestsAreTyped ==
  ASSUME LibraryInv
  PROVE  \A m \in 1..Len(x4) : /\ x4[m] \in LibraryRequests
                               /\ x4[m].kind \in Shelves!Kinds /\ x4[m].id \in RoomId
<1>1. \A m \in 1..Len(x4) : x4[m] \in LibraryRequests
  BY DEF LibraryInv
<1> QED
  BY <1>1 DEF LibraryRequests

LEMMA LibraryIsWholeNow == LibraryInv => Shelves!ConfirmedIsWhole
<1> SUFFICES ASSUME LibraryInv, NEW n \in DOMAIN x4
             PROVE  /\ x4[n].op = "post" /\ x4[n].at = "201" /\ x4[n].id \notin x6 =>
                         Shelves!Traces(x4[n].id) = IF x4[n].kind = "session" THEN {"session", "snapshot"} ELSE {"preset"}
                    /\ x4[n].id \in x6 => Shelves!Traces(x4[n].id) = {}
  BY DEF Shelves!ConfirmedIsWhole
<1>1. n \in 1..Len(x4) /\ x4[n] \in LibraryRequests
  BY DEF LibraryInv
<1>2. x4[n].kind \in {"session", "preset"}
  BY <1>1 DEF LibraryRequests, Shelves!Kinds
<1>3. DOMAIN x2 \subseteq DOMAIN x1["session"]
  BY DEF LibraryInv, RowsAreMade
<1>4. ASSUME x4[n].id \in x6 PROVE Shelves!Traces(x4[n].id) = {}
  BY <1>3, <1>4 DEF LibraryInv, GoneStaysGone, Shelves!Traces, Shelves!Rows, Shelves!Kinds
<1>5. ASSUME x4[n].op = "post", x4[n].at = "201", x4[n].id \notin x6
      PROVE  Shelves!Traces(x4[n].id) = IF x4[n].kind = "session" THEN {"session", "snapshot"} ELSE {"preset"}
  <2>1. \A kind \in {"session", "preset"} : x4[n].id \in DOMAIN x1[kind] => kind = x4[n].kind
    BY <1>1, <1>5, RowsAreOfOneKind DEF LibraryInv, RowsAreMade, Shelves!Kinds
  <2>2. /\ x4[n].id \in DOMAIN x1[x4[n].kind]
        /\ x4[n].kind = "session" => x4[n].id \in DOMAIN x2
    BY <1>1, <1>5 DEF LibraryInv, ConfirmedStands
  <2>3. CASE x4[n].kind = "session"
    BY <2>1, <2>2, <2>3 DEF Shelves!Traces, Shelves!Rows, Shelves!Kinds
  <2>4. CASE x4[n].kind = "preset"
    BY <1>3, <2>1, <2>2, <2>4 DEF Shelves!Traces, Shelves!Rows, Shelves!Kinds
  <2> QED
    BY <1>2, <2>3, <2>4
<1> QED
  BY <1>4, <1>5

LEMMA LibraryInit == Shelves!InitLibrary => LibraryInv
<1> SUFFICES ASSUME Shelves!InitLibrary PROVE LibraryInv
  OBVIOUS
<1>1. x4 = << >> /\ x3 = << >> /\ x2 = << >> /\ x6 = {} /\ x1 = [k \in Shelves!Kinds |-> << >>]
  BY DEF Shelves!InitLibrary
<1>2. << >> \in Seq(LibraryRequests) /\ Len(<< >>) = 0 /\ DOMAIN << >> = {}
  OBVIOUS
<1> QED
  BY <1>1, <1>2 DEF LibraryInv, CreatedOnce, RowsAreMade, FoundWasMade, ConfirmedStands, GoneStaysGone, Shelves!Kinds

\* What an answer leaves as it was.
LEMMA AnsweredOnly ==
  ASSUME LibraryInv, NEW n \in DOMAIN x4, NEW code \in RequestStages \ {"sent"}, Shelves!Answer(n, code)
  PROVE  /\ x4' \in Seq(LibraryRequests) /\ Len(x4') = Len(x4) /\ n \in 1..Len(x4)
         /\ \A m \in 1..Len(x4) : /\ x4'[m].op = x4[m].op /\ x4'[m].kind = x4[m].kind /\ x4'[m].id = x4[m].id
                                  /\ x4'[m].at = IF m = n THEN code ELSE x4[m].at
         /\ \A kind, id : Made(kind, id) => Made(kind, id)'
         /\ CreatedOnce'
<1>1. x4 \in Seq(LibraryRequests) /\ n \in 1..Len(x4)
  BY DEF LibraryInv
<1>2. x4[n] \in LibraryRequests
  BY <1>1
<1>3. [x4[n] EXCEPT !.at = code] \in LibraryRequests
  <2> DEFINE Ops == {"post", "patch", "delete", "get", "list", "hello"}
  <2>1. LibraryRequests = [op : Ops, kind : Shelves!Kinds, who : Caller, id : RoomId,
                           occupied : SUBSET RoomId, at : RequestStages]
    BY DEF LibraryRequests
  <2> HIDE DEF Ops
  <2> QED
    BY <1>2, <2>1
<1>4. x4' = [x4 EXCEPT ![n] = [x4[n] EXCEPT !.at = code]]
  BY DEF Shelves!Answer
<1>5. x4' \in Seq(LibraryRequests) /\ Len(x4') = Len(x4)
  BY <1>1, <1>3, <1>4
<1>6. \A m \in 1..Len(x4) : m # n => x4'[m] = x4[m]
  BY <1>1, <1>4
<1>7. x4'[n] = [x4[n] EXCEPT !.at = code]
  BY <1>1, <1>4
<1>8. /\ x4'[n].op = x4[n].op /\ x4'[n].kind = x4[n].kind /\ x4'[n].id = x4[n].id
      /\ x4'[n].at = code
  BY <1>2, <1>7 DEF LibraryRequests
<1>9. \A m \in 1..Len(x4) : /\ x4'[m].op = x4[m].op /\ x4'[m].kind = x4[m].kind /\ x4'[m].id = x4[m].id
                            /\ x4'[m].at = IF m = n THEN code ELSE x4[m].at
  BY <1>6, <1>8
<1>10. \A kind, id : Made(kind, id) => Made(kind, id)'
  BY <1>5, <1>9 DEF Made
<1>11. CreatedOnce'
  BY <1>5, <1>9 DEF LibraryInv, CreatedOnce
<1> QED
  BY <1>1, <1>5, <1>9, <1>10, <1>11

\* An answer that touches no table keeps the library, if it confirms no creation and finds
\* nothing to delete that is not there.
LEMMA AnswerKeeps ==
  ASSUME LibraryInv, NEW n \in DOMAIN x4, NEW code \in RequestStages \ {"sent", "201"}, Shelves!Answer(n, code),
         x4[n].op = "delete" /\ code = "found" => Made(x4[n].kind, x4[n].id),
         UNCHANGED <<x2, x6>>, DOMAIN x3' \subseteq RoomId,
         DOMAIN x1' = DOMAIN x1, \A k \in Shelves!Kinds : DOMAIN x1'[k] = DOMAIN x1[k]
  PROVE  LibraryInv'
<1>1. /\ x4' \in Seq(LibraryRequests) /\ Len(x4') = Len(x4) /\ n \in 1..Len(x4)
      /\ \A m \in 1..Len(x4) : /\ x4'[m].op = x4[m].op /\ x4'[m].kind = x4[m].kind /\ x4'[m].id = x4[m].id
                               /\ x4'[m].at = IF m = n THEN code ELSE x4[m].at
      /\ \A kind, id : Made(kind, id) => Made(kind, id)'
      /\ CreatedOnce'
  BY AnsweredOnly
<1>2. FoundWasMade'
  BY <1>1 DEF LibraryInv, FoundWasMade
<1>3. ConfirmedStands'
  BY <1>1, RequestsAreTyped DEF LibraryInv, ConfirmedStands
<1>4. RowsAreMade'
  BY <1>1 DEF LibraryInv, RowsAreMade, Shelves!Kinds
<1>5. GoneStaysGone'
  BY <1>1 DEF LibraryInv, GoneStaysGone
<1> QED
  BY <1>1, <1>2, <1>3, <1>4, <1>5 DEF LibraryInv

\* The tables after a deletion.
LEMMA DeleteKeeps ==
  ASSUME LibraryInv, NEW kind \in Shelves!Kinds, NEW id, Made(kind, id), Shelves!Delete(kind, id),
         \A k, i : Made(k, i) => Made(k, i)'
  PROVE  RowsAreMade' /\ GoneStaysGone' /\ x6' = x6 \cup {id}
         /\ \A k \in Shelves!Kinds : DOMAIN x1'[k] = DOMAIN x1[k] \ {id}
         /\ DOMAIN x2' = DOMAIN x2 \ {id}
<1>1. /\ x1' = [x1 EXCEPT ![kind] = Shelves!Without(x1[kind], id)]
      /\ x2' = Shelves!Without(x2, id) /\ x6' = x6 \cup {id}
  BY DEF Shelves!Delete
<1>2. \A f, y : DOMAIN Shelves!Without(f, y) = DOMAIN f \ {y}
  BY DEF Shelves!Without, Shelves!Restrict
<1>3. DOMAIN x1' = Shelves!Kinds /\ DOMAIN x1'[kind] = DOMAIN x1[kind] \ {id}
      /\ \A k \in Shelves!Kinds : k # kind => x1'[k] = x1[k]
  BY <1>1, <1>2 DEF LibraryInv, RowsAreMade
<1>4. \A k \in Shelves!Kinds : k # kind => id \notin DOMAIN x1[k]
  BY DEF LibraryInv, RowsAreMade, CreatedOnce, Made
<1>5. \A k \in Shelves!Kinds : DOMAIN x1'[k] = DOMAIN x1[k] \ {id}
  BY <1>3, <1>4
<1>6. DOMAIN x2' = DOMAIN x2 \ {id}
  BY <1>1, <1>2
<1>7. RowsAreMade'
  <2>1. "session" \in Shelves!Kinds
    BY DEF Shelves!Kinds
  <2> QED
    BY <1>3, <1>5, <1>6, <2>1 DEF LibraryInv, RowsAreMade
<1>8. GoneStaysGone'
  BY <1>1, <1>5 DEF LibraryInv, GoneStaysGone
<1> QED
  BY <1>1, <1>5, <1>6, <1>7, <1>8

LEMMA DeleteRowKeeps ==
  ASSUME LibraryInv, NEW n \in DOMAIN x4, Shelves!DeleteRow(n)
  PROVE  LibraryInv'
<1>1. /\ Shelves!Answer(n, "204") /\ Shelves!Delete(x4[n].kind, x4[n].id) /\ x3' = x3
      /\ x4[n].op = "delete" /\ x4[n].at = "found"
  BY DEF Shelves!DeleteRow, Shelves!Serving
<1>2. "204" \in RequestStages \ {"sent"}
  BY DEF RequestStages
<1>3. /\ x4' \in Seq(LibraryRequests) /\ Len(x4') = Len(x4) /\ n \in 1..Len(x4)
      /\ \A m \in 1..Len(x4) : /\ x4'[m].op = x4[m].op /\ x4'[m].kind = x4[m].kind /\ x4'[m].id = x4[m].id
                               /\ x4'[m].at = IF m = n THEN "204" ELSE x4[m].at
      /\ \A kind, id : Made(kind, id) => Made(kind, id)'
      /\ CreatedOnce'
  BY <1>1, <1>2, AnsweredOnly
<1>4. Made(x4[n].kind, x4[n].id)
  <2> FoundWasMade
    BY DEF LibraryInv
  <2> QED
    BY <1>1, <1>3 DEF FoundWasMade
<1>5. x4[n].kind \in Shelves!Kinds
  BY <1>3, RequestsAreTyped
<1>6. RowsAreMade' /\ GoneStaysGone' /\ x6' = x6 \cup {x4[n].id}
      /\ (\A k \in Shelves!Kinds : DOMAIN x1'[k] = DOMAIN x1[k] \ {x4[n].id})
      /\ DOMAIN x2' = DOMAIN x2 \ {x4[n].id}
  BY <1>1, <1>3, <1>4, <1>5, DeleteKeeps
<1>7. FoundWasMade'
  BY <1>3 DEF LibraryInv, FoundWasMade
<1>8. ConfirmedStands'
  <2>1. \A m \in 1..Len(x4) : x4[m].kind \in Shelves!Kinds
    BY RequestsAreTyped
  <2> QED
    BY <1>1, <1>3, <1>6, <2>1 DEF LibraryInv, ConfirmedStands
<1> QED
  BY <1>1, <1>3, <1>6, <1>7, <1>8 DEF LibraryInv

LEMMA EmptyKeeps ==
  ASSUME LibraryInv, NEW id, Shelves!Empty(id)
  PROVE  LibraryInv'
<1>1. x4' = x4 /\ DOMAIN x3' \subseteq RoomId
  BY DEF Shelves!Empty, Shelves!Without, Shelves!Restrict, LibraryInv
<1>2. CreatedOnce' /\ FoundWasMade' /\ \A k, i : Made(k, i) => Made(k, i)'
  BY <1>1 DEF LibraryInv, CreatedOnce, FoundWasMade, Made
<1>3. CASE UNCHANGED <<x1, x2, x6>>
  BY <1>1, <1>2, <1>3 DEF LibraryInv, RowsAreMade, ConfirmedStands, GoneStaysGone, Made
<1>4. CASE Shelves!Delete("session", id) /\ id \in DOMAIN x1["session"]
  <2>1. "session" \in Shelves!Kinds /\ Made("session", id)
    BY <1>4 DEF LibraryInv, RowsAreMade, Shelves!Kinds
  <2>2. RowsAreMade' /\ GoneStaysGone' /\ x6' = x6 \cup {id}
        /\ (\A k \in Shelves!Kinds : DOMAIN x1'[k] = DOMAIN x1[k] \ {id})
        /\ DOMAIN x2' = DOMAIN x2 \ {id}
    BY <1>2, <1>4, <2>1, DeleteKeeps
  <2>3. \A m \in 1..Len(x4) : x4[m].kind \in Shelves!Kinds
    BY RequestsAreTyped
  <2>4. ConfirmedStands'
    BY <1>1, <2>2, <2>3 DEF LibraryInv, ConfirmedStands
  <2> QED
    BY <1>1, <1>2, <2>2, <2>4 DEF LibraryInv
<1> QED
  BY <1>3, <1>4 DEF Shelves!Empty, Shelves!Rows

LEMMA AskKeeps ==
  ASSUME LibraryInv, NEW op \in {"post", "patch", "delete", "get", "list", "hello"}, NEW kind \in Shelves!Kinds,
         NEW who \in Caller, NEW id \in RoomId,
         Shelves!Request(op, kind, who, id),
         op = "post" => \A n \in DOMAIN x4 : x4[n].op = "post" => x4[n].id # id
  PROVE  LibraryInv'
<1> DEFINE r == [op |-> op, kind |-> kind, who |-> who, id |-> id, occupied |-> DOMAIN x3, at |-> "sent"]
<1>1. /\ x4' = Append(x4, r) /\ UNCHANGED <<x1, x2, x3, x6>>
      /\ x4 \in Seq(LibraryRequests) /\ DOMAIN x3 \subseteq RoomId
  BY DEF Shelves!Request, LibraryInv
<1>2. r \in LibraryRequests
  BY <1>1 DEF LibraryRequests, RequestStages
<1>3. r.op = op /\ r.kind = kind /\ r.id = id /\ r.at = "sent"
  OBVIOUS
<1> HIDE DEF r
<1>4. /\ x4' \in Seq(LibraryRequests) /\ Len(x4') = Len(x4) + 1 /\ Len(x4) \in Nat
      /\ \A m \in 1..Len(x4) : x4'[m] = x4[m]
      /\ x4'[Len(x4) + 1] = r
  BY <1>1, <1>2
<1>5. \A m \in 1..Len(x4') : m \in 1..Len(x4) \/ m = Len(x4) + 1
  BY <1>4
<1>6. 1..Len(x4) \subseteq 1..Len(x4') /\ DOMAIN x4 = 1..Len(x4)
  BY <1>1, <1>4
<1>7. \A k, i : Made(k, i) => Made(k, i)'
  BY <1>4, <1>6 DEF Made
<1>8. CreatedOnce'
  <2> SUFFICES ASSUME NEW a \in 1..Len(x4'), NEW b \in 1..Len(x4'), a # b,
                      x4'[a].op = "post", x4'[b].op = "post", x4'[a].id = x4'[b].id
               PROVE  FALSE
    BY DEF CreatedOnce
  <2>1. CASE a \in 1..Len(x4) /\ b \in 1..Len(x4)
    BY <1>4, <2>1 DEF LibraryInv, CreatedOnce
  <2>2. CASE a = Len(x4) + 1 \/ b = Len(x4) + 1
    BY <1>3, <1>4, <1>5, <1>6, <2>2
  <2> QED
    BY <1>5, <2>1, <2>2
<1>9. FoundWasMade'
  <2> SUFFICES ASSUME NEW m \in 1..Len(x4'), x4'[m].op = "delete", x4'[m].at = "found"
               PROVE  \E n \in 1..Len(x4') : x4'[n].op = "post" /\ x4'[n].kind = x4'[m].kind
                                             /\ x4'[n].id = x4'[m].id /\ x4'[n].at # "sent"
    BY DEF FoundWasMade, Made
  <2>1. m \in 1..Len(x4) /\ x4'[m] = x4[m]
    BY <1>3, <1>4, <1>5
  <2>2. Made(x4[m].kind, x4[m].id)
    BY <2>1 DEF LibraryInv, FoundWasMade
  <2> QED
    BY <1>4, <1>6, <2>1, <2>2 DEF Made
<1>10. ConfirmedStands'
  BY <1>1, <1>3, <1>4, <1>5 DEF LibraryInv, ConfirmedStands
<1>11. RowsAreMade' /\ GoneStaysGone'
  BY <1>1, <1>7 DEF LibraryInv, RowsAreMade, GoneStaysGone
<1> QED
  BY <1>1, <1>4, <1>8, <1>9, <1>10, <1>11 DEF LibraryInv

LEMMA InsertRowKeeps ==
  ASSUME LibraryInv, NEW n \in DOMAIN x4, Shelves!InsertRow(n)
  PROVE  LibraryInv'
<1>1. /\ Shelves!Answer(n, "rowed") /\ UNCHANGED <<x2, x3, x6>>
      /\ x4[n].op = "post" /\ x4[n].at = "sent"
  BY DEF Shelves!InsertRow, Shelves!Serving
<1>2. PICK row : x1' = [x1 EXCEPT ![x4[n].kind] = Shelves!With(x1[x4[n].kind], x4[n].id, row)]
  BY DEF Shelves!InsertRow
<1>3. "rowed" \in RequestStages \ {"sent"}
  BY DEF RequestStages
<1>4. /\ x4' \in Seq(LibraryRequests) /\ Len(x4') = Len(x4) /\ n \in 1..Len(x4)
      /\ \A m \in 1..Len(x4) : /\ x4'[m].op = x4[m].op /\ x4'[m].kind = x4[m].kind /\ x4'[m].id = x4[m].id
                               /\ x4'[m].at = IF m = n THEN "rowed" ELSE x4[m].at
      /\ \A kind, id : Made(kind, id) => Made(kind, id)'
      /\ CreatedOnce'
  BY <1>1, <1>3, AnsweredOnly
<1>5. x4[n].kind \in Shelves!Kinds
  BY <1>4, RequestsAreTyped
<1>6. Made(x4[n].kind, x4[n].id)'
  BY <1>1, <1>4 DEF Made
<1>7. x4[n].id \notin x6
  <2>1. \A kind : ~Made(kind, x4[n].id)
    BY <1>1, <1>4, RowsAreOfOneKind
  <2> QED
    BY <2>1 DEF LibraryInv, GoneStaysGone
<1>9. /\ DOMAIN x1' = Shelves!Kinds
      /\ DOMAIN x1'[x4[n].kind] = DOMAIN x1[x4[n].kind] \cup {x4[n].id}
      /\ \A k \in Shelves!Kinds : k # x4[n].kind => DOMAIN x1'[k] = DOMAIN x1[k]
  <2>1. DOMAIN x1 = Shelves!Kinds
    BY DEF LibraryInv, RowsAreMade
  <2>2. DOMAIN x1'[x4[n].kind] = DOMAIN x1[x4[n].kind] \cup {x4[n].id}
    <3>1. x1'[x4[n].kind] = Shelves!With(x1[x4[n].kind], x4[n].id, row)
      BY <1>2, <1>5, <2>1
    <3> QED
      BY <3>1 DEF Shelves!With
  <2>3. \A k \in Shelves!Kinds : k # x4[n].kind => x1'[k] = x1[k]
    BY <1>2, <2>1
  <2>4. DOMAIN x1' = Shelves!Kinds
    BY <1>2, <2>1
  <2> QED
    BY <2>2, <2>3, <2>4
<1>10. RowsAreMade'
  <2>1. "session" \in Shelves!Kinds
    BY DEF Shelves!Kinds
  <2>2. DOMAIN x2' \subseteq DOMAIN x1'["session"]
    BY <1>1, <1>9, <2>1 DEF LibraryInv, RowsAreMade
  <2>3. \A kind \in Shelves!Kinds : \A id \in DOMAIN x1'[kind] : Made(kind, id)'
    <3> SUFFICES ASSUME NEW kind \in Shelves!Kinds, NEW id \in DOMAIN x1'[kind] PROVE Made(kind, id)'
      OBVIOUS
    <3>1. CASE id \in DOMAIN x1[kind]
      <4> RowsAreMade
        BY DEF LibraryInv
      <4>1. Made(kind, id)
        BY <3>1 DEF RowsAreMade
      <4> QED
        BY <1>4, <4>1
    <3>2. CASE id \notin DOMAIN x1[kind]
      <4>1. kind = x4[n].kind /\ id = x4[n].id
        BY <1>9, <3>2
      <4> QED
        BY <1>4, <1>6, <4>1 DEF Made
    <3> QED
      BY <3>1, <3>2
  <2> QED
    BY <1>9, <2>2, <2>3 DEF RowsAreMade
<1>11. FoundWasMade'
  BY <1>4 DEF LibraryInv, FoundWasMade
<1>12. ConfirmedStands'
  <2> SUFFICES ASSUME NEW m \in 1..Len(x4'), x4'[m].op = "post", x4'[m].at = "201", x4'[m].id \notin x6'
               PROVE  /\ x4'[m].id \in DOMAIN x1'[x4'[m].kind]
                      /\ x4'[m].kind = "session" => x4'[m].id \in DOMAIN x2'
    BY DEF ConfirmedStands
  <2>1. m \in 1..Len(x4) /\ m # n /\ x4[m].kind \in Shelves!Kinds
    BY <1>4, RequestsAreTyped
  <2>2. x4[m].op = "post" /\ x4[m].at = "201" /\ x4[m].id \notin x6
    BY <1>1, <1>4, <2>1
  <2>3. /\ x4[m].id \in DOMAIN x1[x4[m].kind]
        /\ x4[m].kind = "session" => x4[m].id \in DOMAIN x2
    BY <2>1, <2>2 DEF LibraryInv, ConfirmedStands
  <2> QED
    BY <1>1, <1>4, <1>9, <2>1, <2>3
<1>13. GoneStaysGone'
  BY <1>1, <1>4, <1>7, <1>9 DEF LibraryInv, GoneStaysGone
<1> QED
  BY <1>1, <1>4, <1>10, <1>11, <1>12, <1>13 DEF LibraryInv

LEMMA FinishPostKeeps ==
  ASSUME LibraryInv, NEW n \in DOMAIN x4, Shelves!FinishPost(n)
  PROVE  LibraryInv'
<1>1. /\ Shelves!Answer(n, "201") /\ UNCHANGED <<x1, x3, x6>>
      /\ x4[n].op = "post" /\ x4[n].at = "rowed"
      /\ x4[n].kind = "session" => x4[n].id \in DOMAIN x1["session"]
      /\ x4[n].kind # "session" => x4[n].id \in DOMAIN x1["preset"]
      /\ x2' = IF x4[n].kind = "session" THEN Shelves!With(x2, x4[n].id, "seed") ELSE x2
  BY DEF Shelves!FinishPost, Shelves!Serving, Shelves!MayInsertSnapshot, Shelves!Rows
<1>2. "201" \in RequestStages \ {"sent"}
  BY DEF RequestStages
<1>3. /\ x4' \in Seq(LibraryRequests) /\ Len(x4') = Len(x4) /\ n \in 1..Len(x4)
      /\ \A m \in 1..Len(x4) : /\ x4'[m].op = x4[m].op /\ x4'[m].kind = x4[m].kind /\ x4'[m].id = x4[m].id
                               /\ x4'[m].at = IF m = n THEN "201" ELSE x4[m].at
      /\ \A kind, id : Made(kind, id) => Made(kind, id)'
      /\ CreatedOnce'
  BY <1>1, <1>2, AnsweredOnly
<1>4. DOMAIN x2' = IF x4[n].kind = "session" THEN DOMAIN x2 \cup {x4[n].id} ELSE DOMAIN x2
  BY <1>1 DEF Shelves!With
<1>5. x4[n].kind \in {"session", "preset"}
  BY <1>3, RequestsAreTyped DEF Shelves!Kinds
<1>6. RowsAreMade'
  BY <1>1, <1>3, <1>4 DEF LibraryInv, RowsAreMade
<1>7. FoundWasMade'
  BY <1>3 DEF LibraryInv, FoundWasMade
<1>8. ConfirmedStands'
  BY <1>1, <1>3, <1>4, <1>5 DEF LibraryInv, ConfirmedStands
<1>9. GoneStaysGone'
  BY <1>1, <1>3 DEF LibraryInv, GoneStaysGone
<1> QED
  BY <1>1, <1>3, <1>6, <1>7, <1>8, <1>9 DEF LibraryInv

LEMMA UpdateRowKeeps ==
  ASSUME LibraryInv, NEW n \in DOMAIN x4, Shelves!UpdateRow(n)
  PROVE  LibraryInv'
<1>1. Shelves!Answer(n, "204") /\ UNCHANGED <<x2, x3, x6>> /\ x4[n].op = "patch" /\ DOMAIN x3' \subseteq RoomId
  BY DEF Shelves!UpdateRow, Shelves!Serving, LibraryInv
<1>2. PICK public : x1' = [x1 EXCEPT ![x4[n].kind] = Shelves!Update(@, x4[n], public)]
  BY DEF Shelves!UpdateRow
<1>3. DOMAIN Shelves!Update(x1[x4[n].kind], x4[n], public) = DOMAIN x1[x4[n].kind]
  BY DEF Shelves!Update, Shelves!With
<1>4. DOMAIN x1' = DOMAIN x1 /\ \A k \in Shelves!Kinds : DOMAIN x1'[k] = DOMAIN x1[k]
  BY <1>2, <1>3 DEF LibraryInv, RowsAreMade
<1>5. "204" \in RequestStages \ {"sent", "201"}
  BY DEF RequestStages
<1> QED
  BY <1>1, <1>4, <1>5, AnswerKeeps

LEMMA SaveKeeps ==
  ASSUME LibraryInv, NEW id, Shelves!Save(id)
  PROVE  LibraryInv'
<1>1. /\ UNCHANGED <<x1, x3, x4, x6>> /\ DOMAIN x2 \subseteq DOMAIN x2'
      /\ DOMAIN x2' \subseteq DOMAIN x2 \cup (DOMAIN x1["session"])
  BY DEF Shelves!Save, Shelves!MaySave, Shelves!With, Shelves!Rows
<1>2. \A k, i : Made(k, i) <=> Made(k, i)'
  BY <1>1 DEF Made
<1>3. RowsAreMade' /\ CreatedOnce' /\ GoneStaysGone'
  BY <1>1, <1>2 DEF LibraryInv, RowsAreMade, CreatedOnce, GoneStaysGone
<1>4. FoundWasMade' /\ ConfirmedStands'
  BY <1>1, <1>2 DEF LibraryInv, FoundWasMade, ConfirmedStands
<1> QED
  BY <1>1, <1>3, <1>4 DEF LibraryInv

LEMMA LibraryStep == LibraryInv /\ Shelves!NextLibrary => LibraryInv'
<1> SUFFICES ASSUME LibraryInv, Shelves!NextLibrary PROVE LibraryInv'
  OBVIOUS
<1>1. ASSUME NEW kind \in Shelves!Kinds, NEW who \in Caller, NEW id \in RoomId,
             \/ Shelves!Post(kind, who, id) \/ Shelves!List(kind, who, id)
             \/ \E op \in {"patch", "delete"} : Shelves!About(op, kind, who, id)
             \/ kind = "session" /\ (Shelves!About("get", kind, who, id) \/ Shelves!Hello(who, id))
      PROVE  LibraryInv'
  <2>1. \A n \in DOMAIN x4 : x4[n].op = "post" => x4[n].id # id \/ ~Shelves!Post(kind, who, id)
    BY DEF Shelves!Post
  <2>2. \E op \in {"post", "patch", "delete", "get", "list", "hello"} :
          /\ Shelves!Request(op, kind, who, id)
          /\ op = "post" => Shelves!Post(kind, who, id)
    BY <1>1 DEF Shelves!Post, Shelves!List, Shelves!About, Shelves!Hello
  <2> QED
    BY <2>1, <2>2, AskKeeps
<1>2. ASSUME NEW n \in DOMAIN x4,
             \/ Shelves!TurnAway(n) \/ Shelves!ReadList(n) \/ Shelves!ReadRow(n) \/ Shelves!LoadRow(n)
             \/ Shelves!LoadSnapshot(n) \/ Shelves!Fail(n) \/ Shelves!FindRow(n)
      PROVE  LibraryInv'
  <2>1. UNCHANGED <<x1, x2, x6>>
    BY <1>2 DEF Shelves!TurnAway, Shelves!ReadList, Shelves!ReadRow, Shelves!LoadRow, Shelves!LoadSnapshot,
                Shelves!Fail, Shelves!FindRow
  <2>2. n \in 1..Len(x4) /\ x4[n].id \in RoomId
    <3>1. DOMAIN x4 = 1..Len(x4)
      BY DEF LibraryInv
    <3> QED
      BY <3>1, RequestsAreTyped
  <2>3. DOMAIN x3' \subseteq RoomId
    BY <1>2, <2>2 DEF LibraryInv, Shelves!TurnAway, Shelves!ReadList, Shelves!ReadRow, Shelves!LoadRow, Shelves!LoadSnapshot,
                      Shelves!Fail, Shelves!FindRow, Shelves!With
  <2>4. \E code \in RequestStages \ {"sent", "201"} :
          Shelves!Answer(n, code) /\ (x4[n].op = "delete" /\ code = "found" => Made(x4[n].kind, x4[n].id))
    <3>1. CASE Shelves!FindRow(n)
      <4>1. CASE x4[n].id \in DOMAIN x1[x4[n].kind]
        <5>1. Made(x4[n].kind, x4[n].id)
          BY <2>2, <4>1, RequestsAreTyped DEF LibraryInv, RowsAreMade
        <5>2. \E code \in {"found", "4xx"} : Shelves!Answer(n, code)
          BY <3>1 DEF Shelves!FindRow
        <5> QED
          BY <5>1, <5>2 DEF RequestStages
      <4>2. CASE x4[n].id \notin DOMAIN x1[x4[n].kind]
        <5>1. Shelves!Answer(n, "4xx")
          BY <3>1, <4>2 DEF Shelves!FindRow, Shelves!Rows
        <5> QED
          BY <5>1 DEF RequestStages
      <4> QED
        BY <4>1, <4>2
    <3>2. CASE Shelves!LoadRow(n)
      <4>1. x4[n].op = "hello" /\ \E code \in {"found", "4xx"} : Shelves!Answer(n, code)
        BY <3>2 DEF Shelves!LoadRow, Shelves!Serving
      <4> QED
        BY <4>1 DEF RequestStages
    <3>3. CASE ~Shelves!FindRow(n) /\ ~Shelves!LoadRow(n)
      <4>1. \E code \in {"4xx", "200", "500"} : Shelves!Answer(n, code)
        BY <1>2, <3>3 DEF Shelves!TurnAway, Shelves!ReadList, Shelves!ReadRow, Shelves!LoadSnapshot, Shelves!Fail
      <4> QED
        BY <4>1 DEF RequestStages
    <3> QED
      BY <3>1, <3>2, <3>3
  <2> QED
    BY <2>1, <2>3, <2>4, AnswerKeeps
<1> QED
  BY <1>1, <1>2, InsertRowKeeps, FinishPostKeeps, UpdateRowKeeps, DeleteRowKeeps, SaveKeeps, EmptyKeeps DEF Shelves!NextLibrary

\* Whatever the requests, saves, joins and prunes of a server do between one another's statements,
\* and whichever statement fails (routes/sessions.ts, routes/presets.ts, SessionSync): what a 201
\* confirmed has its row, and a session its snapshot, until it is deleted, and then neither.
THEOREM LibraryStaysWhole == ServerSpec => []LibraryIsWhole
<1> DEFINE inv == part = "library" => LibraryInv
<1>1. ServerInit => inv
  BY LibraryInit DEF ServerInit
<1>2. inv /\ [ServerNext]_<<Outside, spare>> => inv'
  <2> SUFFICES ASSUME inv, [ServerNext]_<<Outside, spare>>, part' = "library" PROVE LibraryInv'
    OBVIOUS
  <2>1. part = "library"
    BY DEF ServerNext, Outside
  <2>2. CASE Shelves!NextLibrary
    BY <2>1, <2>2, LibraryStep
  <2>3. CASE UNCHANGED <<Outside, spare>>
    BY <2>1, <2>3 DEF LibraryInv, CreatedOnce, RowsAreMade, FoundWasMade, ConfirmedStands, GoneStaysGone, Made, spare
  <2> QED
    BY <2>1, <2>2, <2>3 DEF ServerNext
<1>3. inv => LibraryIsWhole
  BY LibraryIsWholeNow DEF LibraryIsWhole
<1> QED
  BY <1>1, <1>2, <1>3, PTL DEF ServerSpec

-----------------------------------------------------------------------------
(* Who is present, in its part of the server *)

IsSequence(s) == \E S : s \in Seq(S)

\* What a tab that has heard its box out will list: the last roster in it, or the one it lists now.
Hears(box, roster, truth) ==
  \/ \E k \in 1..Len(box) : /\ box[k].type # "set" /\ box[k].roster = truth
                            /\ \A j \in 1..Len(box) : j > k => box[j].type = "set"
  \/ roster = truth /\ \A j \in 1..Len(box) : box[j].type = "set"

PresentOnes == Roster!ListConnected(x1, x2)
Greeted(t) == Roster!Welcomed(t)
Busy(t) == x3[t].at \in {"runs", "chosen", "marked", "told"}

\* In the room or on the way in, so that the room is not on its way out.
Inside(t) == x3[t].open /\ x3[t].at \notin {"new", "waits"} /\ ~(x3[t].at = "done" /\ x3[t].id = 0)

MessageTypes == {"welcome", "presence", "set"}
Boxes(box) ==
  /\ DOMAIN box = Tab
  /\ \A t \in Tab : IsSequence(box[t]) /\ \A k \in 1..Len(box[t]) : box[t][k].type \in MessageTypes

ConnFields == {"open", "at", "token", "id", "present", "roster"}
Conns(conn) ==
  /\ DOMAIN conn = Tab
  /\ \A t \in Tab : /\ ConnFields \subseteq DOMAIN conn[t]
                    /\ conn[t].at \in {"new", "waits", "loads", "verifies", "asks", "runs"} => conn[t].id = 0

PresenceTypes ==
  /\ Boxes(x4) /\ Conns(x3) /\ DOMAIN x5 = Tab /\ DOMAIN x6 = Tab
  /\ \A t \in Tab : "roster" \in DOMAIN x5[t] /\ {"shown", "sweeper"} \subseteq DOMAIN x6[t]
  /\ x8 \in [ids : Nat, edits : Nat, conns : Nat]
  /\ \A i \in x1 : i.id # 0

HearsWithin(box, roster, all) == \E r : Hears(box, roster, r) /\ r \subseteq all

\* What a hello that has read the roster will send shows nobody who left, and everybody if it runs alone.
ToldWell ==
  \A t \in Tab : x3[t].at = "told" =>
    /\ x3[t].roster \subseteq PresentOnes
    /\ x9 \/ /\ x3[t].roster = PresentOnes
             /\ Greeted(t) => Hears(x4[t], x5[t].roster, PresentOnes)

\* Every tab that was welcomed will have heard of nobody who left, and unless hellos run or ran
\* together of everybody who is present; and the room is not taken down under one.
PresenceInv ==
  /\ PresenceTypes
  /\ \A t \in Tab : Greeted(t) => HearsWithin(x4[t], x5[t].roster, PresentOnes)
  /\ ToldWell
  /\ x9 \/ \A t \in Tab, u \in Tab : Busy(t) /\ Busy(u) => t = u
  /\ x9 \/ (Roster!Drained => \A t \in Tab : Greeted(t) => Hears(x4[t], x5[t].roster, PresentOnes))
  /\ x7 \in {"grace", "expiring"} => \A t \in Tab : ~Inside(t)
  /\ Roster!TouchesAreSwept

LEMMA HearsTheLast ==
  ASSUME NEW box, IsSequence(box), NEW m, m.type # "set", NEW roster
  PROVE  Hears(Append(box, m), roster, m.roster)
<1>1. PICK S : box \in Seq(S)
  BY DEF IsSequence
<1>2. Append(box, m) \in Seq(S \cup {m}) /\ Len(box) \in Nat /\ Len(Append(box, m)) = Len(box) + 1
      /\ Append(box, m)[Len(box) + 1] = m
  <2>1. box \in Seq(S \cup {m}) /\ m \in S \cup {m}
    BY <1>1
  <2> QED
    BY <2>1
<1> DEFINE new == Append(box, m)
<1> HIDE DEF new
<1>3. Len(box) + 1 \in 1..Len(new) /\ \A j \in 1..Len(new) : ~(j > Len(box) + 1)
  BY <1>2 DEF new
<1> QED
  BY <1>2, <1>3 DEF Hears, new

LEMMA HearsPastASet ==
  ASSUME NEW box, IsSequence(box), NEW m, m.type = "set", NEW roster, NEW truth, Hears(box, roster, truth)
  PROVE  Hears(Append(box, m), roster, truth)
<1>1. PICK S : box \in Seq(S)
  BY DEF IsSequence
<1> DEFINE new == Append(box, m)
<1>2. Len(box) \in Nat /\ Len(new) = Len(box) + 1 /\ new[Len(box) + 1] = m
      /\ \A j \in 1..Len(box) : new[j] = box[j]
  <2>1. box \in Seq(S \cup {m}) /\ m \in S \cup {m}
    BY <1>1
  <2> QED
    BY <2>1
<1> HIDE DEF new
<1>3. \A j \in 1..Len(new) : j \in 1..Len(box) \/ j = Len(box) + 1
  BY <1>2
<1>4. 1..Len(box) \subseteq 1..Len(new)
  BY <1>2
<1> QED
  BY <1>2, <1>3, <1>4 DEF Hears, new

LEMMA HearsOn ==
  ASSUME NEW box, IsSequence(box), box # << >>, NEW roster, NEW truth, Hears(box, roster, truth)
  PROVE  Hears(Tail(box), IF Head(box).type = "set" THEN roster ELSE Head(box).roster, truth)
<1>1. PICK S : box \in Seq(S)
  BY DEF IsSequence
<1> DEFINE rest == Tail(box)
<1>2. Len(box) \in Nat \ {0} /\ Len(rest) = Len(box) - 1 /\ Head(box) = box[1]
      /\ \A j \in 1..Len(rest) : rest[j] = box[j + 1]
  BY <1>1
<1> HIDE DEF rest
<1>3. \A j \in 1..Len(rest) : j + 1 \in 1..Len(box) /\ rest[j] = box[j + 1]
  BY <1>2
<1>4. ASSUME NEW k \in 1..Len(box), box[k].type # "set", box[k].roster = truth,
             \A j \in 1..Len(box) : j > k => box[j].type = "set"
      PROVE  Hears(rest, IF Head(box).type = "set" THEN roster ELSE Head(box).roster, truth)
  <2>1. CASE k = 1
    <3>1. \A j \in 1..Len(rest) : j + 1 > k
      BY <1>2, <2>1
    <3> QED
      BY <1>2, <1>3, <1>4, <2>1, <3>1 DEF Hears
  <2>2. CASE k # 1
    <3>1. k - 1 \in 1..Len(rest) /\ rest[k - 1] = box[k]
      <4>1. k - 1 \in 1..Len(rest) /\ (k - 1) + 1 = k
        BY <1>2, <2>2
      <4> QED
        BY <1>3, <4>1
    <3>2. \A j \in 1..Len(rest) : j > k - 1 => rest[j].type = "set"
      <4>1. \A j \in 1..Len(rest) : j > k - 1 => j + 1 > k
        BY <1>2
      <4> QED
        BY <1>3, <1>4, <4>1
    <3> QED
      BY <1>4, <3>1, <3>2 DEF Hears
  <2> QED
    BY <2>1, <2>2
<1>5. CASE roster = truth /\ \A j \in 1..Len(box) : box[j].type = "set"
  <2>1. 1 \in 1..Len(box)
    BY <1>2
  <2> QED
    BY <1>2, <1>3, <1>5, <2>1 DEF Hears
<1> QED
  BY <1>4, <1>5 DEF Hears, rest

LEMMA PeersAreShownNow == PresenceInv => Roster!RosterSettlesApart /\ Roster!TouchesAreSwept
<1> SUFFICES ASSUME PresenceInv PROVE Roster!RosterSettlesApart
  BY DEF PresenceInv
<1>1. ASSUME NEW t \in Tab, Greeted(t), x4[t] = << >>, NEW r, Hears(x4[t], x5[t].roster, r)
      PROVE  x5[t].roster = r
  BY <1>1 DEF Hears
<1>2. \A t \in Tab : Roster!HeardAll(t) => x5[t].roster \subseteq PresentOnes
  BY <1>1 DEF PresenceInv, HearsWithin, Greeted, Roster!HeardAll
<1>3. x9 \/ Roster!RosterSettles
  BY <1>1 DEF PresenceInv, Greeted, Roster!HeardAll, Roster!RosterSettles, PresentOnes
<1> QED
  BY <1>2, <1>3 DEF Roster!RosterSettlesApart, PresentOnes

LEMMA PresenceInit == Roster!InitPresence => PresenceInv
<1> SUFFICES ASSUME Roster!InitPresence PROVE PresenceInv
  OBVIOUS
<1>1. /\ x1 = {} /\ x7 = "none" /\ x8 = [ids |-> 0, edits |-> 0, conns |-> 0] /\ ~x9
      /\ x3 = [t \in Tab |-> [open |-> FALSE, at |-> "new", token |-> FALSE, id |-> 0, present |-> {}, roster |-> {}]]
      /\ x4 = [t \in Tab |-> << >>]
      /\ x5 = [t \in Tab |-> [self |-> 0, roster |-> {}, stored |-> 0]]
      /\ x6 = [t \in Tab |-> [shown |-> {}, sweeper |-> FALSE]]
  BY DEF Roster!InitPresence, Roster!Away, Roster!Stranger, Roster!NoTouches
<1>2. << >> \in Seq({}) /\ Len(<< >>) = 0
  OBVIOUS
<1>3. \A t \in Tab : ~Greeted(t) /\ ~Busy(t) /\ x3[t].at # "told"
  BY <1>1 DEF Greeted, Roster!Welcomed, Busy
<1>4. PresenceTypes
  <2>1. Boxes(x4)
    BY <1>1, <1>2 DEF Boxes, IsSequence
  <2>2. Conns(x3)
    BY <1>1 DEF Conns, ConnFields
  <2>3. \A t \in Tab : "roster" \in DOMAIN x5[t] /\ {"shown", "sweeper"} \subseteq DOMAIN x6[t]
    BY <1>1
  <2> QED
    BY <1>1, <2>1, <2>2, <2>3 DEF PresenceTypes
<1>5. Roster!TouchesAreSwept
  BY <1>1 DEF Roster!TouchesAreSwept
<1> QED
  BY <1>1, <1>3, <1>4, <1>5 DEF PresenceInv, ToldWell

LEMMA TellsThem ==
  ASSUME NEW box, Boxes(box), NEW to, NEW m, m.type \in MessageTypes
  PROVE  /\ Boxes(Roster!Tell(box, to, m))
         /\ \A t \in Tab : Roster!Tell(box, to, m)[t] = IF t \in to THEN Append(box[t], m) ELSE box[t]
<1> DEFINE new == Roster!Tell(box, to, m)
<1>1. DOMAIN new = Tab /\ \A t \in Tab : new[t] = IF t \in to THEN Append(box[t], m) ELSE box[t]
  BY DEF Roster!Tell
<1>2. ASSUME NEW t \in Tab
      PROVE  IsSequence(Append(box[t], m)) /\ \A k \in 1..Len(Append(box[t], m)) : Append(box[t], m)[k].type \in MessageTypes
  <2>1. PICK S : box[t] \in Seq(S)
    BY DEF Boxes, IsSequence
  <2>2. box[t] \in Seq(S \cup {m}) /\ m \in S \cup {m}
    BY <2>1
  <2>3. /\ Append(box[t], m) \in Seq(S \cup {m})
        /\ \A k \in 1..Len(Append(box[t], m)) : Append(box[t], m)[k] = IF k \in 1..Len(box[t]) THEN box[t][k] ELSE m
    BY <2>2
  <2> QED
    BY <2>3 DEF IsSequence, Boxes
<1> HIDE DEF new
<1>3. Boxes(new)
  BY <1>1, <1>2 DEF Boxes
<1> QED
  BY <1>1, <1>3 DEF new

\* A callback that takes the handler of one socket further, but to no identity.
LEMMA HandlerKeeps ==
  ASSUME PresenceInv, NEW t \in Tab, Roster!Drained, UNCHANGED <<x1, x2, x5, x6>>,
         x8' \in [ids : Nat, edits : Nat, conns : Nat],
         Boxes(x4'), \A u \in Tab : u # t => x4'[u] = x4[u],
         Conns(x3'), \A u \in Tab : u # t => x3'[u] = x3[u],
         x3'[t].id = 0, x3'[t].at \notin {"chosen", "marked", "told"},
         x9' <=> (x9 /\ x3'[t].at # "runs"),
         x7' \in {"grace", "expiring"} => x7' = x7 /\ (Inside(t)' => Inside(t))
  PROVE  PresenceInv'
<1>1. PresentOnes' = PresentOnes
  BY DEF PresentOnes, Roster!ListConnected
<1>2. \A u \in Tab : Greeted(u)' => u # t /\ Greeted(u)
  BY DEF Greeted, Roster!Welcomed
<1>3. \A u \in Tab : ~Busy(u) /\ x3'[u].at # "told" /\ (Busy(u)' => u = t /\ x3'[t].at = "runs")
  BY DEF Busy, Roster!Drained
<1>4. PresenceTypes' /\ Roster!TouchesAreSwept'
  BY DEF PresenceInv, PresenceTypes, Roster!TouchesAreSwept
<1>5. ToldWell'
  BY <1>3 DEF ToldWell
<1>6. \A u \in Tab : Greeted(u)' => HearsWithin(x4'[u], x5'[u].roster, PresentOnes')
  BY <1>1, <1>2 DEF PresenceInv
<1>7. x9' \/ (Roster!Drained' => \A u \in Tab : Greeted(u)' => Hears(x4'[u], x5'[u].roster, PresentOnes'))
  <2>1. Roster!Drained' => x3'[t].at # "runs"
    BY DEF Roster!Drained
  <2> QED
    BY <1>1, <1>2, <2>1 DEF PresenceInv
<1>8. x7' \in {"grace", "expiring"} => \A u \in Tab : ~Inside(u)'
  <2>1. \A u \in Tab : u # t => (Inside(u)' <=> Inside(u))
    BY DEF Inside
  <2> QED
    BY <2>1 DEF PresenceInv
<1> QED
  BY <1>3, <1>4, <1>5, <1>6, <1>7, <1>8 DEF PresenceInv

\* A hello that runs grows what is present, and has told nobody yet.
LEMMA GrowthKeeps ==
  ASSUME PresenceInv, NEW t \in Tab, UNCHANGED <<x4, x5, x6, x7>>,
         x8' \in [ids : Nat, edits : Nat, conns : Nat], \A i \in x1' : i.id # 0,
         PresentOnes \subseteq PresentOnes',
         Conns(x3'), \A u \in Tab : u # t => x3'[u] = x3[u],
         x3'[t].open <=> x3[t].open, x3'[t].at \in {"chosen", "marked"},
         x3[t].at \notin {"new", "waits", "done"},
         \/ Busy(t) /\ x9' = x9
         \/ Roster!Drained /\ x9' = FALSE
  PROVE  PresenceInv'
<1>1. \A u \in Tab : Greeted(u)' => u # t /\ Greeted(u)
  BY DEF Greeted, Roster!Welcomed
<1>2. PresenceTypes' /\ Roster!TouchesAreSwept'
  BY DEF PresenceInv, PresenceTypes, Boxes, Roster!TouchesAreSwept
<1>3. \A u \in Tab : Greeted(u)' => HearsWithin(x4'[u], x5'[u].roster, PresentOnes')
  <2> SUFFICES ASSUME NEW u \in Tab, Greeted(u)' PROVE HearsWithin(x4'[u], x5'[u].roster, PresentOnes')
    OBVIOUS
  <2>1. PICK r : Hears(x4[u], x5[u].roster, r) /\ r \subseteq PresentOnes
    BY <1>1 DEF PresenceInv, HearsWithin
  <2> QED
    BY <2>1 DEF HearsWithin
<1>4. x9' \/ \A u \in Tab : Busy(u)' => u = t
  BY DEF PresenceInv, Busy, Roster!Drained
<1>5. ToldWell'
  <2> SUFFICES ASSUME NEW u \in Tab, x3'[u].at = "told"
               PROVE  x3'[u].roster \subseteq PresentOnes' /\ x9'
    BY DEF ToldWell
  <2>1. u # t /\ x3[u].at = "told" /\ Busy(u)' /\ Busy(u)
    BY DEF Busy
  <2> QED
    BY <1>4, <2>1 DEF PresenceInv, ToldWell
<1>6. ~Roster!Drained'
  BY DEF Roster!Drained
<1>7. x7' \in {"grace", "expiring"} => \A u \in Tab : ~Inside(u)'
  <2>1. \A u \in Tab : Inside(u)' => Inside(u)
    BY DEF Inside, PresenceInv, PresenceTypes, Conns
  <2> QED
    BY <2>1 DEF PresenceInv
<1> QED
  BY <1>2, <1>3, <1>4, <1>5, <1>6, <1>7 DEF PresenceInv

\* The roster a hello reads welcomes its own socket ...
LEMMA WelcomeKeeps ==
  ASSUME PresenceInv, NEW t \in Tab, Roster!Welcome(t)
  PROVE  PresenceInv'
<1> DEFINE m == [type |-> "welcome", id |-> x3[t].id, roster |-> PresentOnes]
<1>1. /\ x3[t].at = "marked" /\ x3' = [x3 EXCEPT ![t] = [x3[t] EXCEPT !.at = "told", !.roster = PresentOnes]]
      /\ x4' = Roster!Tell(x4, {t} \intersect Roster!InPool, m)
      /\ UNCHANGED <<x1, x2, x5, x6, x7, x8, x9>>
  BY DEF Roster!Welcome, Roster!Handler, PresentOnes
<1>2. m.type = "welcome" /\ m.roster = PresentOnes
  OBVIOUS
<1> HIDE DEF m
<1>3. Boxes(x4') /\ \A u \in Tab : x4'[u] = IF u \in {t} \intersect Roster!InPool THEN Append(x4[u], m) ELSE x4[u]
  BY <1>1, <1>2, TellsThem DEF MessageTypes, PresenceInv, PresenceTypes
<1>4. /\ Conns(x3') /\ \A u \in Tab : u # t => x3'[u] = x3[u]
      /\ x3'[t].at = "told" /\ x3'[t].roster = PresentOnes
      /\ x3'[t].open = x3[t].open /\ x3'[t].id = x3[t].id
  BY <1>1 DEF PresenceInv, PresenceTypes, Conns, ConnFields
<1>5. PresenceTypes' /\ Roster!TouchesAreSwept' /\ PresentOnes' = PresentOnes
  BY <1>1, <1>3, <1>4 DEF PresenceInv, PresenceTypes, Roster!TouchesAreSwept, PresentOnes, Roster!ListConnected
<1>6. Greeted(t)' => Hears(x4'[t], x5'[t].roster, PresentOnes)
  <2> SUFFICES ASSUME Greeted(t)' PROVE Hears(x4'[t], x5'[t].roster, PresentOnes)
    OBVIOUS
  <2>1. t \in Roster!InPool
    BY <1>4 DEF Greeted, Roster!Welcomed, Roster!InPool
  <2>2. x4'[t] = Append(x4[t], m) /\ IsSequence(x4[t])
    BY <1>3, <2>1 DEF PresenceInv, PresenceTypes, Boxes
  <2> QED
    BY <1>2, <2>2, HearsTheLast
<1>7. \A u \in Tab : u # t => (Greeted(u)' <=> Greeted(u)) /\ x4'[u] = x4[u] /\ x5'[u] = x5[u]
  BY <1>1, <1>3, <1>4 DEF Greeted, Roster!Welcomed
<1>8. \A u \in Tab : Greeted(u)' => HearsWithin(x4'[u], x5'[u].roster, PresentOnes')
  BY <1>5, <1>6, <1>7 DEF PresenceInv, HearsWithin
<1>9. x9' \/ \A u \in Tab : Busy(u)' => u = t
  BY <1>1, <1>4 DEF PresenceInv, Busy
<1>10. ToldWell'
  <2>1. \A u \in Tab : u # t /\ x3'[u].at = "told" => x3'[u].roster \subseteq PresentOnes /\ x9'
    BY <1>1, <1>4, <1>9 DEF PresenceInv, ToldWell, Busy
  <2> QED
    BY <1>4, <1>5, <1>6, <2>1 DEF ToldWell
<1>11. ~Roster!Drained'
  BY <1>4 DEF Roster!Drained
<1>12. \A u \in Tab : Inside(u)' => Inside(u)
  BY <1>1, <1>4 DEF Inside
<1> QED
  BY <1>1, <1>5, <1>8, <1>9, <1>10, <1>11, <1>12 DEF PresenceInv

\* ... and goes to the others as it was read.
LEMMA AnnounceKeeps ==
  ASSUME PresenceInv, NEW t \in Tab, Roster!Announce(t)
  PROVE  PresenceInv'
<1> DEFINE m == Roster!Presence(x3[t].roster)
<1>1. /\ x3[t].at = "told" /\ x3' = [x3 EXCEPT ![t] = [x3[t] EXCEPT !.at = "done", !.roster = {}]]
      /\ x4' = Roster!Tell(x4, Roster!InPool \ {t}, m)
      /\ UNCHANGED <<x1, x2, x5, x6, x7, x8, x9>>
  BY DEF Roster!Announce, Roster!Handler
<1>2. m.type = "presence" /\ m.roster = x3[t].roster
  BY DEF Roster!Presence
<1> HIDE DEF m
<1>3. Boxes(x4') /\ \A u \in Tab : x4'[u] = IF u \in Roster!InPool \ {t} THEN Append(x4[u], m) ELSE x4[u]
  BY <1>1, <1>2, TellsThem DEF MessageTypes, PresenceInv, PresenceTypes
<1>4. /\ Conns(x3') /\ \A u \in Tab : u # t => x3'[u] = x3[u]
      /\ x3'[t].at = "done" /\ x3'[t].open = x3[t].open /\ x3'[t].id = x3[t].id
  BY <1>1 DEF PresenceInv, PresenceTypes, Conns, ConnFields
<1>5. PresenceTypes' /\ Roster!TouchesAreSwept' /\ PresentOnes' = PresentOnes
  BY <1>1, <1>3, <1>4 DEF PresenceInv, PresenceTypes, Roster!TouchesAreSwept, PresentOnes, Roster!ListConnected
<1>6. /\ x3[t].roster \subseteq PresentOnes
      /\ x9 \/ (x3[t].roster = PresentOnes /\ (Greeted(t) => Hears(x4[t], x5[t].roster, PresentOnes)))
  BY <1>1 DEF PresenceInv, ToldWell
<1>7. \A u \in Tab : Greeted(u)' <=> Greeted(u)
  BY <1>1, <1>4 DEF Greeted, Roster!Welcomed
<1>8. \A u \in Tab : Greeted(u) /\ u # t => Hears(x4'[u], x5'[u].roster, x3[t].roster)
  <2> SUFFICES ASSUME NEW u \in Tab, Greeted(u), u # t PROVE Hears(x4'[u], x5'[u].roster, x3[t].roster)
    OBVIOUS
  <2>1. x4'[u] = Append(x4[u], m) /\ IsSequence(x4[u])
    BY <1>3 DEF PresenceInv, PresenceTypes, Boxes, Greeted, Roster!Welcomed, Roster!InPool
  <2> QED
    BY <1>2, <2>1, HearsTheLast
<1>9. x4'[t] = x4[t] /\ x5'[t] = x5[t]
  BY <1>1, <1>3
<1>10. \A u \in Tab : Greeted(u)' => HearsWithin(x4'[u], x5'[u].roster, PresentOnes')
  BY <1>5, <1>6, <1>7, <1>8, <1>9 DEF PresenceInv, HearsWithin
<1>11. x9' \/ \A u \in Tab : Greeted(u)' => Hears(x4'[u], x5'[u].roster, PresentOnes')
  BY <1>1, <1>5, <1>6, <1>7, <1>8, <1>9
<1>12. \A u \in Tab : (Busy(u)' => Busy(u) /\ u # t) /\ (x3'[u].at = "told" => u # t /\ Busy(u))
  BY <1>4 DEF Busy
<1>13. ToldWell'
  BY <1>1, <1>4, <1>5, <1>11, <1>12 DEF PresenceInv, ToldWell, Busy
<1>14. \A u \in Tab : Inside(u)' => Inside(u)
  BY <1>1, <1>4 DEF Inside
<1> QED
  BY <1>1, <1>5, <1>10, <1>11, <1>12, <1>13, <1>14 DEF PresenceInv

\* A socket that closes tells those that stay, if it was anybody's.
LEMMA OnCloseKeeps ==
  ASSUME PresenceInv, NEW t \in Tab, Roster!OnClose(t), UNCHANGED <<x1, x8>>,
         DOMAIN x5' = Tab, \A u \in Tab : "roster" \in DOMAIN x5'[u] /\ (u # t => x5'[u] = x5[u]),
         DOMAIN x6' = Tab, \A u \in Tab : {"shown", "sweeper"} \subseteq DOMAIN x6'[u], Roster!TouchesAreSwept'
  PROVE  PresenceInv'
<1> DEFINE c == x3[t]
           left == x2 \ {c.id}
           peers == Roster!InPool \ {t}
           news == Roster!Presence(Roster!ListConnected(x1, left))
           told == Roster!Tell(x4, IF c.id = 0 THEN {} ELSE peers, news)
<1>1. /\ x3' = [x3 EXCEPT ![t] = [c EXCEPT !.open = FALSE, !.id = 0]] /\ Roster!Drained
      /\ x2' = left /\ x4' = [told EXCEPT ![t] = << >>]
      /\ x7' = IF c.id # 0 /\ peers = {} THEN "grace" ELSE x7
      /\ x9' <=> x9 /\ c.id = 0
  BY DEF Roster!OnClose, Roster!RosterOnClose, Roster!Handler
<1>2. PresentOnes' = Roster!ListConnected(x1, left)
  BY <1>1 DEF PresentOnes, Roster!ListConnected
<1>3. news.type = "presence" /\ news.roster = Roster!ListConnected(x1, left)
  BY DEF Roster!Presence
<1>4. c.id = 0 => PresentOnes' = PresentOnes
  BY <1>2 DEF PresentOnes, Roster!ListConnected, PresenceInv, PresenceTypes
<1>5. /\ Boxes(told)
      /\ \A u \in Tab : told[u] = IF c.id # 0 /\ u \in peers THEN Append(x4[u], news) ELSE x4[u]
  <2> HIDE DEF news, peers
  <2> QED
    BY <1>3, TellsThem DEF MessageTypes, PresenceInv, PresenceTypes
<1> HIDE DEF news, told
<1>6. Boxes(x4') /\ \A u \in Tab : u # t => x4'[u] = told[u]
  <2>1. DOMAIN told = Tab
    BY <1>5 DEF Boxes
  <2>2. DOMAIN x4' = Tab /\ x4'[t] = << >> /\ \A u \in Tab : u # t => x4'[u] = told[u]
    BY <1>1, <2>1
  <2>3. << >> \in Seq({}) /\ Len(<< >>) = 0
    OBVIOUS
  <2>4. IsSequence(x4'[t]) /\ \A k \in 1..Len(x4'[t]) : x4'[t][k].type \in MessageTypes
    BY <2>2, <2>3 DEF IsSequence
  <2>5. \A u \in Tab : u # t => IsSequence(x4'[u]) /\ \A k \in 1..Len(x4'[u]) : x4'[u][k].type \in MessageTypes
    BY <1>5, <2>2 DEF Boxes
  <2> QED
    BY <2>2, <2>4, <2>5 DEF Boxes
<1>7. /\ Conns(x3')
      /\ \A u \in Tab : u # t => x3'[u] = x3[u]
      /\ ~x3'[t].open /\ x3'[t].at = c.at
  BY <1>1 DEF PresenceInv, PresenceTypes, Conns, ConnFields
<1>8. \A u \in Tab : ~Busy(u)' /\ x3'[u].at # "told"
  BY <1>1, <1>7 DEF Busy, Roster!Drained
<1>9. ASSUME NEW u \in Tab, Greeted(u)'
      PROVE  u # t /\ Greeted(u) /\ u \in peers /\ IsSequence(x4[u])
  BY <1>7, <1>9 DEF Greeted, Roster!Welcomed, Roster!InPool, PresenceInv, PresenceTypes, Boxes
<1>10. ASSUME c.id # 0, NEW u \in Tab, Greeted(u)' PROVE Hears(x4'[u], x5'[u].roster, PresentOnes')
  <2>1. x4'[u] = Append(x4[u], news)
    BY <1>5, <1>6, <1>9, <1>10
  <2> QED
    BY <1>2, <1>3, <1>9, <1>10, <2>1, HearsTheLast
<1>11. ASSUME c.id = 0, NEW u \in Tab, Greeted(u)'
       PROVE  Greeted(u) /\ x4'[u] = x4[u] /\ x5'[u] = x5[u]
  BY <1>5, <1>6, <1>9, <1>11
<1>12. \A u \in Tab : Greeted(u)' => HearsWithin(x4'[u], x5'[u].roster, PresentOnes')
  BY <1>4, <1>10, <1>11 DEF PresenceInv, HearsWithin
<1>13. x9' \/ \A u \in Tab : Greeted(u)' => Hears(x4'[u], x5'[u].roster, PresentOnes')
  BY <1>1, <1>4, <1>10, <1>11 DEF PresenceInv
<1>14. x7' \in {"grace", "expiring"} => \A u \in Tab : ~Inside(u)'
  <2>1. CASE c.id # 0 /\ peers = {}
    <3>1. \A u \in Tab : ~x3'[u].open
      BY <1>7, <2>1 DEF Roster!InPool
    <3> QED
      BY <3>1 DEF Inside
  <2>2. CASE ~(c.id # 0 /\ peers = {})
    <3>1. x7' = x7 /\ \A u \in Tab : Inside(u)' => Inside(u)
      BY <1>1, <1>7, <2>2 DEF Inside
    <3> QED
      BY <3>1 DEF PresenceInv
  <2> QED
    BY <2>1, <2>2
<1>15. PresenceTypes'
  BY <1>6, <1>7 DEF PresenceInv, PresenceTypes
<1> QED
  BY <1>8, <1>12, <1>13, <1>14, <1>15 DEF PresenceInv, ToldWell

\* Whoever still hears the same roster last.
LEMMA ListenersKeep ==
  ASSUME PresenceInv, UNCHANGED <<x1, x2, x3, x7, x9>>, PresenceTypes', Roster!TouchesAreSwept',
         \A u \in Tab : Greeted(u) =>
           \A r : Hears(x4[u], x5[u].roster, r) => Hears(x4'[u], x5'[u].roster, r)
  PROVE  PresenceInv'
<1>1. /\ PresentOnes' = PresentOnes /\ (Roster!Drained' <=> Roster!Drained)
      /\ \A u \in Tab : (Greeted(u)' <=> Greeted(u)) /\ (Busy(u)' <=> Busy(u)) /\ (Inside(u)' <=> Inside(u))
  BY DEF PresentOnes, Roster!ListConnected, Roster!Drained, Greeted, Roster!Welcomed, Busy, Inside
<1>2. \A u \in Tab : Greeted(u)' => HearsWithin(x4'[u], x5'[u].roster, PresentOnes')
  BY <1>1 DEF PresenceInv, HearsWithin
<1>3. ToldWell'
  BY <1>1 DEF PresenceInv, ToldWell
<1> QED
  BY <1>1, <1>2, <1>3 DEF PresenceInv

LEMMA DeliverKeeps ==
  ASSUME PresenceInv, NEW t \in Tab, Roster!Deliver(t)
  PROVE  PresenceInv'
<1> DEFINE m == Head(x4[t])
<1>1. /\ x4[t] # << >> /\ x4' = [x4 EXCEPT ![t] = Tail(x4[t])] /\ UNCHANGED <<x1, x2, x3, x7, x8, x9>>
  BY DEF Roster!Deliver
<1>2. PICK S : x4[t] \in Seq(S)
  BY DEF PresenceInv, PresenceTypes, Boxes, IsSequence
<1>3. /\ Tail(x4[t]) \in Seq(S) /\ Len(x4[t]) \in Nat \ {0} /\ Len(Tail(x4[t])) = Len(x4[t]) - 1
      /\ \A k \in 1..Len(Tail(x4[t])) : k + 1 \in 1..Len(x4[t]) /\ Tail(x4[t])[k] = x4[t][k + 1]
      /\ m = x4[t][1]
  BY <1>1, <1>2
<1>4. m.type \in MessageTypes
  <2>1. 1 \in 1..Len(x4[t])
    BY <1>3
  <2> QED
    BY <1>3, <2>1 DEF PresenceInv, PresenceTypes, Boxes
<1>5. Boxes(x4')
  <2>1. IsSequence(Tail(x4[t])) /\ \A k \in 1..Len(Tail(x4[t])) : Tail(x4[t])[k].type \in MessageTypes
    BY <1>3 DEF IsSequence, PresenceInv, PresenceTypes, Boxes
  <2> QED
    BY <1>1, <2>1 DEF PresenceInv, PresenceTypes, Boxes
<1>6. /\ DOMAIN x5' = Tab /\ \A u \in Tab : u # t => x5'[u] = x5[u]
      /\ "roster" \in DOMAIN x5'[t]
      /\ x5'[t].roster = IF m.type = "set" THEN x5[t].roster ELSE m.roster
  <2>1. DOMAIN x5 = Tab /\ "roster" \in DOMAIN x5[t]
    BY DEF PresenceInv, PresenceTypes
  <2>2. CASE m.type = "welcome"
    <3>1. x5' = [x5 EXCEPT ![t] = [self |-> m.id, roster |-> m.roster, stored |-> m.id]]
      BY <2>2 DEF Roster!Deliver
    <3> QED
      BY <2>1, <2>2, <3>1
  <2>3. CASE m.type = "presence"
    <3>1. x5' = [x5 EXCEPT ![t] = [x5[t] EXCEPT !.roster = m.roster]]
      BY <2>3 DEF Roster!Deliver
    <3> QED
      BY <2>1, <2>3, <3>1
  <2>4. CASE m.type = "set"
    <3>1. x5' = [x5 EXCEPT ![t] = x5[t]]
      BY <2>4 DEF Roster!Deliver
    <3> QED
      BY <2>1, <2>4, <3>1
  <2> QED
    BY <1>4, <2>2, <2>3, <2>4 DEF MessageTypes
<1>7. /\ DOMAIN x6' = Tab
      /\ \A u \in Tab : {"shown", "sweeper"} \subseteq DOMAIN x6'[u] /\ (x6'[u].sweeper <=> x6'[u].shown # {})
  <2> DEFINE noted == Roster!Noted(t, m.id)
  <2>1. \A u \in Tab : {"shown", "sweeper"} \subseteq DOMAIN x6[u] /\ (x6[u].sweeper <=> x6[u].shown # {})
    BY DEF PresenceInv, PresenceTypes, Roster!TouchesAreSwept
  <2>2. {"shown", "sweeper"} \subseteq DOMAIN noted /\ (noted.sweeper <=> noted.shown # {})
    <3> DEFINE known == {i \in x5[t].roster : i.id = m.id}
               shown == {[by |-> i.id, colour |-> i.colour, ticks |-> TouchTtl] : i \in known}
    <3>1. CASE m.id = x5[t].self \/ known = {}
      BY <2>1, <3>1 DEF Roster!Noted
    <3>2. CASE ~(m.id = x5[t].self \/ known = {})
      <4>1. noted = [shown |-> shown, sweeper |-> TRUE]
        BY <3>2 DEF Roster!Noted
      <4>2. shown # {}
        BY <3>2
      <4> HIDE DEF shown, noted
      <4> QED
        BY <4>1, <4>2
    <3> QED
      BY <3>1, <3>2
  <2>3. x6' = x6 \/ x6' = [x6 EXCEPT ![t] = noted]
    BY DEF Roster!Deliver
  <2> HIDE DEF noted
  <2> QED
    BY <2>1, <2>2, <2>3 DEF PresenceInv, PresenceTypes
<1>8. PresenceTypes'
  BY <1>1, <1>5, <1>6, <1>7 DEF PresenceInv, PresenceTypes
<1>9. Roster!TouchesAreSwept'
  BY <1>7 DEF Roster!TouchesAreSwept
<1>10. ASSUME NEW u \in Tab, NEW r, Hears(x4[u], x5[u].roster, r) PROVE Hears(x4'[u], x5'[u].roster, r)
  <2>1. IsSequence(x4[u]) /\ DOMAIN x4 = Tab
    BY DEF PresenceInv, PresenceTypes, Boxes
  <2>2. CASE u = t
    <3>1. Hears(Tail(x4[t]), IF m.type = "set" THEN x5[t].roster ELSE m.roster, r)
      BY <1>1, <1>10, <2>1, <2>2, HearsOn
    <3> QED
      BY <1>1, <1>6, <2>1, <2>2, <3>1
  <2>3. CASE u # t
    BY <1>1, <1>6, <1>10, <2>1, <2>3
  <2> QED
    BY <2>2, <2>3
<1> QED
  BY <1>1, <1>8, <1>9, <1>10, ListenersKeep

LEMMA EditKeeps ==
  ASSUME PresenceInv, NEW t \in Tab, Roster!Edit(t)
  PROVE  PresenceInv'
<1> DEFINE m == [type |-> "set", id |-> x3[t].id]
<1>1. /\ x4' = Roster!Tell(x4, Roster!InPool, m) /\ UNCHANGED <<x1, x2, x3, x5, x6, x7, x9>>
      /\ x8' = [x8 EXCEPT !.edits = @ + 1]
  BY DEF Roster!Edit
<1>2. m.type = "set"
  OBVIOUS
<1> HIDE DEF m
<1>3. Boxes(x4') /\ \A u \in Tab : x4'[u] = IF u \in Roster!InPool THEN Append(x4[u], m) ELSE x4[u]
  BY <1>1, <1>2, TellsThem DEF MessageTypes, PresenceInv, PresenceTypes
<1>4. x8' \in [ids : Nat, edits : Nat, conns : Nat]
  BY <1>1 DEF PresenceInv, PresenceTypes
<1>5. PresenceTypes' /\ Roster!TouchesAreSwept'
  BY <1>1, <1>3, <1>4 DEF PresenceInv, PresenceTypes, Roster!TouchesAreSwept
<1>6. ASSUME NEW u \in Tab, NEW r, Hears(x4[u], x5[u].roster, r) PROVE Hears(x4'[u], x5'[u].roster, r)
  <2>1. IsSequence(x4[u])
    BY DEF PresenceInv, PresenceTypes, Boxes
  <2>2. Hears(Append(x4[u], m), x5[u].roster, r)
    BY <1>2, <1>6, <2>1, HearsPastASet
  <2> QED
    BY <1>1, <1>3, <1>6, <2>2
<1> QED
  BY <1>1, <1>5, <1>6, ListenersKeep

LEMMA LeaveKeeps ==
  ASSUME PresenceInv, NEW t \in Tab, Roster!Leave(t)
  PROVE  PresenceInv'
<1>1. /\ x5' = [x5 EXCEPT ![t] = [Roster!Stranger EXCEPT !.stored = x5[t].stored]]
      /\ x6' = [x6 EXCEPT ![t] = [shown |-> {}, sweeper |-> FALSE]]
      /\ UNCHANGED <<x1, x8>>
  BY DEF Roster!Leave, Roster!Reset, Roster!NoTouches
<1>2. /\ DOMAIN x5' = Tab /\ \A u \in Tab : "roster" \in DOMAIN x5'[u] /\ (u # t => x5'[u] = x5[u])
  BY <1>1 DEF Roster!Stranger, PresenceInv, PresenceTypes
<1>3. /\ DOMAIN x6' = Tab
      /\ \A u \in Tab : {"shown", "sweeper"} \subseteq DOMAIN x6'[u] /\ (x6'[u].sweeper <=> x6'[u].shown # {})
  BY <1>1 DEF PresenceInv, PresenceTypes, Roster!TouchesAreSwept
<1>4. Roster!TouchesAreSwept'
  BY <1>3 DEF Roster!TouchesAreSwept
<1>5. CASE Roster!OnClose(t)
  BY <1>1, <1>2, <1>3, <1>4, <1>5, OnCloseKeeps
<1>6. CASE ~x3[t].open /\ UNCHANGED <<x2, x3, x4, x7, x9>>
  <2>1. PresenceTypes'
    BY <1>1, <1>2, <1>3, <1>6 DEF PresenceInv, PresenceTypes, Boxes, Conns
  <2>2. \A u \in Tab : Greeted(u) => u # t
    BY <1>6 DEF Greeted, Roster!Welcomed
  <2> QED
    BY <1>1, <1>2, <1>4, <1>6, <2>1, <2>2, ListenersKeep
<1> QED
  BY <1>5, <1>6 DEF Roster!Leave

LEMMA CloseKeeps ==
  ASSUME PresenceInv, NEW t \in Tab, Roster!Close(t)
  PROVE  PresenceInv'
<1>1. Roster!OnClose(t) /\ UNCHANGED <<x1, x5, x6, x8>>
  BY DEF Roster!Close
<1> QED
  BY <1>1, OnCloseKeeps DEF PresenceInv, PresenceTypes, Roster!TouchesAreSwept

LEMMA OnwardConn ==
  ASSUME NEW c, ConnFields \subseteq DOMAIN c, NEW token, NEW r
  PROVE  /\ ConnFields \subseteq DOMAIN Roster!Onward(c, token, r)
         /\ Roster!Onward(c, token, r).at = Roster!Stop(token, r)
         /\ Roster!Onward(c, token, r).open = c.open /\ Roster!Onward(c, token, r).id = c.id
         /\ Roster!Stop(token, r) \in {"waits", "loads", "verifies", "runs"}
BY DEF Roster!Onward, Roster!Stop, ConnFields

\* The callbacks before a hello has its identity.
LEMMA HandshakeKeeps ==
  ASSUME PresenceInv, NEW t \in Tab,
         \/ Roster!Connect(t) \/ (\E token \in BOOLEAN : Roster!Hello(t, token)) \/ Roster!LoadAnswered(t)
         \/ Roster!Verified(t) \/ Roster!HelloFails(t)
  PROVE  PresenceInv'
<1>1. /\ DOMAIN x3 = Tab /\ Boxes(x4) /\ x8 \in [ids : Nat, edits : Nat, conns : Nat]
      /\ \A u \in Tab : ConnFields \subseteq DOMAIN x3[u]
      /\ \A u \in Tab : x3[u].at \in {"new", "waits", "loads", "verifies", "asks", "runs"} => x3[u].id = 0
  BY DEF PresenceInv, PresenceTypes, Conns
<1>2. ASSUME NEW c, x3' = [x3 EXCEPT ![t] = c], ConnFields \subseteq DOMAIN c, c.id = 0
      PROVE  Conns(x3') /\ x3'[t] = c /\ \A u \in Tab : u # t => x3'[u] = x3[u]
  BY <1>1, <1>2 DEF Conns
<1>3. CASE Roster!Connect(t)
  <2> DEFINE c == [Roster!Away EXCEPT !.open = TRUE]
  <2>1. /\ Roster!Drained /\ x3' = [x3 EXCEPT ![t] = c] /\ x8' = [x8 EXCEPT !.conns = @ + 1]
        /\ UNCHANGED <<x1, x2, x4, x5, x6, x7, x9>>
    BY <1>3 DEF Roster!Connect, Roster!Handler
  <2>2. ConnFields \subseteq DOMAIN c /\ c.id = 0 /\ c.at = "new"
    BY DEF Roster!Away, ConnFields
  <2>3. x8' \in [ids : Nat, edits : Nat, conns : Nat]
    BY <1>1, <2>1
  <2> HIDE DEF c
  <2>4. Conns(x3') /\ x3'[t] = c /\ \A u \in Tab : u # t => x3'[u] = x3[u]
    BY <1>2, <2>1, <2>2
  <2>5. ~Inside(t)'
    BY <2>2, <2>4 DEF Inside
  <2> QED
    BY <1>1, <2>1, <2>2, <2>3, <2>4, <2>5, HandlerKeeps
<1>4. ASSUME NEW token, NEW r, Roster!GoesOn(t, token, r), Roster!Drained, x3[t].id = 0,
             UNCHANGED <<x1, x2, x4, x5, x6, x8>>,
             x7' \in {"grace", "expiring"} => x7' = x7 /\ (r = "expiring" \/ x3[t].at \notin {"new", "waits", "done"})
      PROVE  PresenceInv'
  <2> DEFINE c == Roster!Onward(x3[t], token, r)
  <2>1. x3' = [x3 EXCEPT ![t] = c] /\ (x9' <=> x9 /\ Roster!Stop(token, r) # "runs")
    BY <1>4 DEF Roster!GoesOn, Roster!Handler
  <2>2. /\ ConnFields \subseteq DOMAIN c /\ c.at = Roster!Stop(token, r) /\ c.open = x3[t].open /\ c.id = 0
        /\ c.at \in {"waits", "loads", "verifies", "runs"}
    BY <1>1, <1>4, OnwardConn
  <2> HIDE DEF c
  <2>3. Conns(x3') /\ x3'[t] = c /\ \A u \in Tab : u # t => x3'[u] = x3[u]
    BY <1>2, <2>1, <2>2
  <2>4. r = "expiring" => c.at = "waits"
    BY <2>2 DEF Roster!Stop
  <2>5. x7' \in {"grace", "expiring"} => x7' = x7 /\ (Inside(t)' => Inside(t))
    BY <1>4, <2>2, <2>3, <2>4 DEF Inside
  <2> QED
    BY <1>1, <1>4, <2>1, <2>2, <2>3, <2>5, HandlerKeeps
<1>5. ASSUME NEW token \in BOOLEAN, Roster!Hello(t, token) PROVE PresenceInv'
  <2>1. /\ Roster!Drained /\ x3[t].at = "new" /\ x7' = (IF x7 = "grace" THEN "live" ELSE x7)
        /\ Roster!GoesOn(t, token, x7') /\ UNCHANGED <<x1, x2, x4, x5, x6, x8>>
    BY <1>5 DEF Roster!Hello
  <2>2. x7' \in {"grace", "expiring"} => x7' = x7 /\ x7' = "expiring"
    BY <2>1
  <2>3. x3[t].id = 0
    BY <1>1, <2>1
  <2> QED
    BY <1>4, <2>1, <2>2, <2>3
<1>6. CASE Roster!LoadAnswered(t)
  <2>1. /\ Roster!Drained /\ x3[t].at = "loads" /\ x7' = (IF x7 = "none" THEN "live" ELSE x7)
        /\ Roster!GoesOn(t, x3[t].token, "live") /\ UNCHANGED <<x1, x2, x4, x5, x6, x8>>
    BY <1>6 DEF Roster!LoadAnswered
  <2>2. x7' \in {"grace", "expiring"} => x7' = x7
    BY <2>1
  <2>3. x3[t].id = 0
    BY <1>1, <2>1
  <2> QED
    BY <1>4, <2>1, <2>2, <2>3
<1>7. ASSUME NEW c, x3' = [x3 EXCEPT ![t] = c], ConnFields \subseteq DOMAIN c, c.id = 0, Roster!Drained,
             c.at \in {"done", "asks"}, c.open => x3[t].open, x3[t].at \in {"loads", "verifies", "asks"},
             Boxes(x4'), \A u \in Tab : u # t => x4'[u] = x4[u], UNCHANGED <<x1, x2, x5, x6, x7, x8, x9>>
      PROVE  PresenceInv'
  <2>1. Conns(x3') /\ x3'[t] = c /\ \A u \in Tab : u # t => x3'[u] = x3[u]
    BY <1>2, <1>7
  <2>2. Inside(t)' => Inside(t)
    BY <1>7, <2>1 DEF Inside
  <2>3. c.at # "runs" /\ c.at \notin {"chosen", "marked", "told"}
    BY <1>7
  <2> QED
    BY <1>1, <1>7, <2>1, <2>2, <2>3, HandlerKeeps
<1>8. CASE Roster!Verified(t)
  <2> DEFINE gone == [x3[t] EXCEPT !.at = "done"]
             asks == [x3[t] EXCEPT !.at = "asks", !.present = PresentOnes]
  <2>1. /\ Roster!Drained /\ x3[t].at = "verifies" /\ x3[t].id = 0 /\ UNCHANGED <<x1, x2, x4, x5, x6, x7, x8, x9>>
        /\ \/ x3' = [x3 EXCEPT ![t] = gone]
           \/ x3' = [x3 EXCEPT ![t] = asks]
    BY <1>1, <1>8 DEF Roster!Verified, Roster!Handler, PresentOnes
  <2>2. /\ ConnFields \subseteq DOMAIN gone /\ gone.id = x3[t].id /\ gone.at = "done" /\ gone.open = x3[t].open
        /\ ConnFields \subseteq DOMAIN asks /\ asks.id = x3[t].id /\ asks.at = "asks" /\ asks.open = x3[t].open
    BY <1>1 DEF ConnFields
  <2> HIDE DEF gone, asks
  <2> QED
    BY <1>1, <1>7, <2>1, <2>2
<1>9. CASE Roster!HelloFails(t)
  <2> DEFINE c == [x3[t] EXCEPT !.at = "done", !.present = {}, !.open = @ /\ x3[t].at = "asks"]
  <2>1. /\ Roster!Drained /\ x3[t].at \in {"loads", "verifies", "asks"} /\ x3' = [x3 EXCEPT ![t] = c]
        /\ x4' = x4 \/ x4' = [x4 EXCEPT ![t] = << >>]
        /\ UNCHANGED <<x1, x2, x5, x6, x7, x8, x9>>
    BY <1>9 DEF Roster!HelloFails, Roster!Handler
  <2>2. ConnFields \subseteq DOMAIN c /\ c.id = x3[t].id /\ c.at = "done" /\ (c.open => x3[t].open)
    BY <1>1 DEF ConnFields
  <2>3. x3[t].id = 0
    BY <1>1, <2>1
  <2>4. Boxes(x4') /\ \A u \in Tab : u # t => x4'[u] = x4[u]
    <3>1. << >> \in Seq({}) /\ Len(<< >>) = 0
      OBVIOUS
    <3>2. DOMAIN x4' = Tab /\ \A u \in Tab : x4'[u] = x4[u] \/ x4'[u] = << >>
      BY <1>1, <2>1 DEF Boxes
    <3>3. CASE x4' = x4
      BY <1>1, <3>3
    <3>4. CASE x4' = [x4 EXCEPT ![t] = << >>]
      <4>1. \A u \in Tab : u # t => x4'[u] = x4[u]
        BY <1>1, <3>4 DEF Boxes
      <4>2. ASSUME NEW u \in Tab
            PROVE  IsSequence(x4'[u]) /\ \A k \in 1..Len(x4'[u]) : x4'[u][k].type \in MessageTypes
        <5>1. CASE x4'[u] = x4[u]
          BY <1>1, <5>1 DEF Boxes
        <5>2. CASE x4'[u] = << >>
          BY <3>1, <5>2 DEF IsSequence
        <5> QED
          BY <3>2, <5>1, <5>2
      <4> QED
        BY <3>2, <4>1, <4>2 DEF Boxes
    <3> QED
      BY <2>1, <3>3, <3>4
  <2> HIDE DEF c
  <2> QED
    BY <1>7, <2>1, <2>2, <2>3, <2>4
<1> QED
  BY <1>3, <1>5, <1>6, <1>8, <1>9

\* A hello takes its identity.
LEMMA TakesKeeps ==
  ASSUME PresenceInv, NEW t \in Tab, NEW i, i.id # 0, Roster!Takes(t, i), UNCHANGED <<x2, x4, x5, x6, x7>>,
         x8' \in [ids : Nat, edits : Nat, conns : Nat],
         x3[t].at \notin {"new", "waits", "done"},
         \/ Busy(t) /\ x9' = x9
         \/ Roster!Drained /\ x9' = FALSE
  PROVE  PresenceInv'
<1> DEFINE c == [x3[t] EXCEPT !.at = "chosen", !.id = i.id, !.present = {}]
<1>1. x1' = x1 \union {i} /\ x3' = [x3 EXCEPT ![t] = c]
  BY DEF Roster!Takes, Roster!Handler
<1>2. DOMAIN x3 = Tab /\ ConnFields \subseteq DOMAIN x3[t]
  BY DEF PresenceInv, PresenceTypes, Conns
<1>3. ConnFields \subseteq DOMAIN c /\ c.at = "chosen" /\ c.open = x3[t].open
  BY <1>2 DEF ConnFields
<1> HIDE DEF c
<1>4. Conns(x3') /\ x3'[t] = c /\ \A u \in Tab : u # t => x3'[u] = x3[u]
  BY <1>1, <1>2, <1>3 DEF PresenceInv, PresenceTypes, Conns
<1>5. PresentOnes \subseteq PresentOnes' /\ \A j \in x1' : j.id # 0
  BY <1>1 DEF PresentOnes, Roster!ListConnected, PresenceInv, PresenceTypes
<1> QED
  BY <1>3, <1>4, <1>5, GrowthKeeps

LEMMA IdentityKeeps ==
  ASSUME PresenceInv, NEW t \in Tab,
         Roster!ChooseIdentity(t) \/ Roster!UsernameAnswered(t) \/ Roster!MarkConnected(t)
  PROVE  PresenceInv'
<1>1. ASSUME NEW present, NEW user, Roster!Minted
      PROVE  /\ Roster!MakeIdentity(present, user).id # 0
             /\ x8' \in [ids : Nat, edits : Nat, conns : Nat]
  <2>1. Roster!MakeIdentity(present, user).id = x8.ids + 1
    BY DEF Roster!MakeIdentity
  <2> QED
    BY <1>1, <2>1 DEF PresenceInv, PresenceTypes, Roster!Minted
<1>2. CASE Roster!ChooseIdentity(t)
  <2>1. x3[t].at = "runs" /\ Busy(t) /\ UNCHANGED <<x2, x4, x5, x6, x7, x9>>
    BY <1>2 DEF Roster!ChooseIdentity, Busy
  <2>2. CASE UNCHANGED x8 /\ \E i \in Roster!Resumed(t) : Roster!Takes(t, i)
    <3>1. PICK i \in Roster!Resumed(t) : Roster!Takes(t, i)
      BY <2>2
    <3>2. i.id # 0 /\ x8' \in [ids : Nat, edits : Nat, conns : Nat]
      BY <2>2 DEF PresenceInv, PresenceTypes, Roster!Resumed
    <3> QED
      BY <2>1, <3>1, <3>2, TakesKeeps
  <2>3. CASE Roster!Minted /\ Roster!Takes(t, Roster!MakeIdentity(Roster!ListConnected(x1, x2), Guest))
    BY <1>1, <2>1, <2>3, TakesKeeps
  <2> QED
    BY <1>2, <2>2, <2>3 DEF Roster!ChooseIdentity
<1>3. CASE Roster!UsernameAnswered(t)
  <2>1. Roster!Drained /\ x3[t].at = "asks" /\ UNCHANGED <<x2, x4, x5, x6, x7>>
    BY <1>3 DEF Roster!UsernameAnswered
  <2>2. CASE x7 = "none"
    <3> DEFINE c == [x3[t] EXCEPT !.at = "done", !.present = {}]
    <3>1. x3' = [x3 EXCEPT ![t] = c] /\ UNCHANGED <<x1, x8, x9>>
      BY <1>3, <2>2 DEF Roster!UsernameAnswered, Roster!Handler
    <3>2. DOMAIN x3 = Tab /\ ConnFields \subseteq DOMAIN x3[t] /\ x3[t].id = 0 /\ x8 \in [ids : Nat, edits : Nat, conns : Nat]
      BY <2>1 DEF PresenceInv, PresenceTypes, Conns
    <3>3. ConnFields \subseteq DOMAIN c /\ c.id = 0 /\ c.at = "done"
      BY <3>2 DEF ConnFields
    <3> HIDE DEF c
    <3>4. Conns(x3') /\ x3'[t] = c /\ \A u \in Tab : u # t => x3'[u] = x3[u]
      BY <3>1, <3>2, <3>3 DEF PresenceInv, PresenceTypes, Conns
    <3>5. Boxes(x4') /\ ~(x7' \in {"grace", "expiring"})
      BY <2>1, <2>2 DEF PresenceInv, PresenceTypes, Boxes
    <3> QED
      BY <2>1, <3>1, <3>2, <3>3, <3>4, <3>5, HandlerKeeps
  <2>3. CASE x7 # "none"
    <3>1. Roster!Minted /\ Roster!Takes(t, Roster!MakeIdentity(x3[t].present, t)) /\ x9' = FALSE
      BY <1>3, <2>3 DEF Roster!UsernameAnswered
    <3> QED
      BY <1>1, <2>1, <3>1, TakesKeeps
  <2> QED
    BY <2>2, <2>3
<1>4. CASE Roster!MarkConnected(t)
  <2> DEFINE c == [x3[t] EXCEPT !.at = "marked"]
  <2>1. /\ x3[t].at = "chosen" /\ Busy(t) /\ x3' = [x3 EXCEPT ![t] = c] /\ x2' = x2 \union {x3[t].id}
        /\ UNCHANGED <<x1, x4, x5, x6, x7, x8, x9>>
    BY <1>4 DEF Roster!MarkConnected, Roster!Handler, Busy
  <2>2. DOMAIN x3 = Tab /\ ConnFields \subseteq DOMAIN x3[t] /\ x8 \in [ids : Nat, edits : Nat, conns : Nat]
    BY DEF PresenceInv, PresenceTypes, Conns
  <2>3. ConnFields \subseteq DOMAIN c /\ c.at = "marked" /\ c.open = x3[t].open
    BY <2>2 DEF ConnFields
  <2> HIDE DEF c
  <2>4. Conns(x3') /\ x3'[t] = c /\ \A u \in Tab : u # t => x3'[u] = x3[u]
    BY <2>1, <2>2, <2>3 DEF PresenceInv, PresenceTypes, Conns
  <2>5. PresentOnes \subseteq PresentOnes' /\ \A j \in x1' : j.id # 0
    BY <2>1 DEF PresentOnes, Roster!ListConnected, PresenceInv, PresenceTypes
  <2> QED
    BY <2>1, <2>2, <2>3, <2>4, <2>5, GrowthKeeps
<1> QED
  BY <1>2, <1>3, <1>4

\* Only the touches change, each still swept while there is one.
LEMMA TouchesKeep ==
  ASSUME PresenceInv, UNCHANGED <<x1, x2, x3, x4, x7, x8, x9>>,
         DOMAIN x5' = Tab, \A u \in Tab : "roster" \in DOMAIN x5'[u] /\ (Greeted(u) => x5'[u].roster = x5[u].roster),
         DOMAIN x6' = Tab,
         \A u \in Tab : {"shown", "sweeper"} \subseteq DOMAIN x6'[u] /\ (x6'[u].sweeper <=> x6'[u].shown # {})
  PROVE  PresenceInv'
<1>1. PresenceTypes' /\ Roster!TouchesAreSwept'
  BY DEF PresenceInv, PresenceTypes, Boxes, Conns, Roster!TouchesAreSwept
<1> QED
  BY <1>1, ListenersKeep

LEMMA SweepsKeep ==
  ASSUME PresenceInv,
         \/ Roster!Tick \/ \E t \in Tab : Roster!Sweep(t)
         \/ \E t \in Tab, u \in Tab : Roster!Duplicate(t, u)
  PROVE  PresenceInv'
<1>1. /\ DOMAIN x5 = Tab /\ DOMAIN x6 = Tab
      /\ \A u \in Tab : /\ "roster" \in DOMAIN x5[u] /\ {"shown", "sweeper"} \subseteq DOMAIN x6[u]
                        /\ x6[u].sweeper <=> x6[u].shown # {}
  BY DEF PresenceInv, PresenceTypes, Roster!TouchesAreSwept
<1>2. CASE Roster!Tick
  <2> DEFINE Older(s) == [s EXCEPT !.ticks = IF @ = 0 THEN 0 ELSE @ - 1]
  <2>1. x6' = [t \in Tab |-> [x6[t] EXCEPT !.shown = {Older(s) : s \in x6[t].shown}]]
        /\ UNCHANGED <<x1, x2, x3, x4, x5, x7, x8, x9>>
    BY <1>2 DEF Roster!Tick
  <2> HIDE DEF Older
  <2>2. /\ DOMAIN x6' = Tab
        /\ \A u \in Tab : {"shown", "sweeper"} \subseteq DOMAIN x6'[u] /\ (x6'[u].sweeper <=> x6'[u].shown # {})
    <3>1. DOMAIN x6' = Tab /\ \A u \in Tab : x6'[u] = [x6[u] EXCEPT !.shown = {Older(s) : s \in x6[u].shown}]
      BY <2>1
    <3> SUFFICES ASSUME NEW u \in Tab
                 PROVE  {"shown", "sweeper"} \subseteq DOMAIN x6'[u] /\ (x6'[u].sweeper <=> x6'[u].shown # {})
      BY <3>1
    <3>2. {"shown", "sweeper"} \subseteq DOMAIN x6'[u] /\ (x6'[u].sweeper <=> x6[u].sweeper)
      BY <1>1, <3>1
    <3>3. x6'[u].shown = {Older(s) : s \in x6[u].shown}
      BY <1>1, <3>1
    <3>4. x6'[u].shown # {} <=> x6[u].shown # {}
      BY <3>3
    <3> QED
      BY <1>1, <3>2, <3>4
  <2> QED
    BY <1>1, <2>1, <2>2, TouchesKeep
<1>3. ASSUME NEW t \in Tab, Roster!Sweep(t) PROVE PresenceInv'
  <2> DEFINE left == {s \in x6[t].shown : s.ticks > 0}
  <2>1. x6' = [x6 EXCEPT ![t] = [shown |-> left, sweeper |-> left # {}]] /\ UNCHANGED <<x1, x2, x3, x4, x5, x7, x8, x9>>
    BY <1>3 DEF Roster!Sweep
  <2> HIDE DEF left
  <2>2. /\ DOMAIN x6' = Tab
        /\ \A u \in Tab : {"shown", "sweeper"} \subseteq DOMAIN x6'[u] /\ (x6'[u].sweeper <=> x6'[u].shown # {})
    BY <1>1, <2>1
  <2> QED
    BY <1>1, <2>1, <2>2, TouchesKeep
<1>4. ASSUME NEW t \in Tab, NEW u \in Tab, Roster!Duplicate(t, u) PROVE PresenceInv'
  <2>1. /\ x5' = [x5 EXCEPT ![u] = [x5[u] EXCEPT !.stored = x5[t].stored]]
        /\ x6' = [x6 EXCEPT ![u] = [shown |-> {}, sweeper |-> FALSE]]
        /\ x3[u] = Roster!Away /\ UNCHANGED <<x1, x2, x3, x4, x7, x8, x9>>
    BY <1>4 DEF Roster!Duplicate, Roster!NoTouches
  <2>2. /\ DOMAIN x6' = Tab
        /\ \A v \in Tab : {"shown", "sweeper"} \subseteq DOMAIN x6'[v] /\ (x6'[v].sweeper <=> x6'[v].shown # {})
    BY <1>1, <2>1
  <2>3. /\ DOMAIN x5' = Tab
        /\ \A v \in Tab : "roster" \in DOMAIN x5'[v] /\ (Greeted(v) => x5'[v].roster = x5[v].roster)
    BY <1>1, <2>1 DEF Greeted, Roster!Welcomed, Roster!Away
  <2> QED
    BY <2>1, <2>2, <2>3, TouchesKeep
<1> QED
  BY <1>2, <1>3, <1>4

\* The room goes, or stays, with nobody inside.
LEMMA ExpiryKeeps ==
  ASSUME PresenceInv, Roster!GraceFires \/ Roster!Prune \/ Roster!ExpiryFailed
  PROVE  PresenceInv'
<1>1. /\ Roster!Drained /\ x7 \in {"grace", "expiring"} /\ UNCHANGED <<x4, x5, x6, x8>>
      /\ \A u \in Tab : ~Inside(u) /\ ~Busy(u) /\ x3[u].at # "told"
  BY DEF Roster!GraceFires, Roster!Prune, Roster!ExpiryFailed, PresenceInv, Roster!Drained, Busy
<1>2. CASE Roster!GraceFires
  <2>1. UNCHANGED <<x1, x2, x3, x9>>
    BY <1>2 DEF Roster!GraceFires
  <2>2. \A u \in Tab : ~Inside(u)' /\ ~Busy(u)' /\ ~Greeted(u)' /\ x3'[u].at # "told"
    BY <1>1, <2>1 DEF Inside, Busy, Greeted, Roster!Welcomed
  <2>3. PresenceTypes' /\ Roster!TouchesAreSwept'
    BY <1>1, <2>1 DEF PresenceInv, PresenceTypes, Boxes, Conns, Roster!TouchesAreSwept
  <2> QED
    BY <2>2, <2>3 DEF PresenceInv, ToldWell
<1>3. ASSUME NEW r \in {"none", "live"}, Roster!Woken(r), x7' = r, \A i \in x1' : i.id # 0,
             x9' \/ \A t \in Tab, u \in Tab :
               x3[t].at = "waits" /\ Roster!Stop(x3[t].token, r) = "runs"
               /\ x3[u].at = "waits" /\ Roster!Stop(x3[u].token, r) = "runs" => t = u
      PROVE  PresenceInv'
  <2>1. /\ DOMAIN x3' = Tab
        /\ \A u \in Tab : x3'[u] = IF x3[u].at = "waits" THEN Roster!Onward(x3[u], x3[u].token, r) ELSE x3[u]
    BY <1>3 DEF Roster!Woken
  <2>2. \A u \in Tab : ConnFields \subseteq DOMAIN x3[u] /\ (x3[u].at = "waits" => x3[u].id = 0)
    BY DEF PresenceInv, PresenceTypes, Conns
  <2>3. ASSUME NEW u \in Tab
        PROVE  /\ ConnFields \subseteq DOMAIN x3'[u]
               /\ x3'[u].at \in {"new", "waits", "loads", "verifies", "asks", "runs"} => x3'[u].id = 0
               /\ ~Greeted(u)' /\ x3'[u].at # "told"
               /\ Busy(u)' => x3[u].at = "waits" /\ Roster!Stop(x3[u].token, r) = "runs"
    <3>1. CASE x3[u].at = "waits"
      <4>1. /\ ConnFields \subseteq DOMAIN x3'[u] /\ x3'[u].at = Roster!Stop(x3[u].token, r) /\ x3'[u].id = 0
            /\ x3'[u].at \in {"waits", "loads", "verifies", "runs"}
        BY <2>1, <2>2, <3>1, OnwardConn
      <4> QED
        BY <3>1, <4>1 DEF Greeted, Roster!Welcomed, Busy
    <3>2. CASE x3[u].at # "waits"
      <4>1. x3'[u] = x3[u]
        BY <2>1, <3>2
      <4> QED
        BY <1>1, <4>1 DEF Greeted, Roster!Welcomed, Busy, Inside, PresenceInv, PresenceTypes, Conns
    <3> QED
      BY <3>1, <3>2
  <2>4. PresenceTypes' /\ Roster!TouchesAreSwept'
    <3>1. Conns(x3')
      BY <2>1, <2>3 DEF Conns
    <3> QED
      BY <1>1, <1>3, <3>1 DEF PresenceInv, PresenceTypes, Boxes, Roster!TouchesAreSwept
  <2>5. x7' \notin {"grace", "expiring"}
    BY <1>3
  <2> QED
    BY <1>3, <2>3, <2>4, <2>5 DEF PresenceInv, ToldWell
<1>4. CASE Roster!Prune
  <2>1. x7' = "none" /\ x1' = {} /\ Roster!Woken("none") /\ \A token : Roster!Stop(token, "none") = "loads"
    BY <1>4 DEF Roster!Prune, Roster!Stop
  <2> QED
    BY <1>3, <2>1
<1>5. CASE Roster!ExpiryFailed
  <2>1. /\ x7' = "live" /\ x1' = x1 /\ Roster!Woken("live")
        /\ \A token : Roster!Stop(token, "live") = IF token THEN "verifies" ELSE "runs"
        /\ x9' <=> \E t \in Tab, u \in Tab : /\ x3[t].at = "waits" /\ ~x3[t].token
                                            /\ x3[u].at = "waits" /\ ~x3[u].token /\ t # u
    BY <1>5 DEF Roster!ExpiryFailed, Roster!Stop
  <2>2. \A i \in x1' : i.id # 0
    BY <2>1 DEF PresenceInv, PresenceTypes
  <2> QED
    BY <1>3, <2>1, <2>2
<1> QED
  BY <1>2, <1>4, <1>5

\* Who is in a room, as its tabs show it (ConnectionHandler.ts, presence.ts): whatever order hellos,
\* closes, lookups that outlive their socket and expiries come in, a welcomed tab with nothing on its
\* way lists nobody who left, and everybody who is there unless two hellos ran together and the
\* roster was not sent since; and a tab's sweeper runs exactly while it shows a touch.
THEOREM PeersStayShown == ServerSpec => []PeersAreShown
<1> DEFINE inv == part = "presence" => PresenceInv
<1>1. ServerInit => inv
  BY PresenceInit DEF ServerInit
<1>2. inv /\ [ServerNext]_<<Outside, spare>> => inv'
  <2> SUFFICES ASSUME inv, [ServerNext]_<<Outside, spare>>, part' = "presence" PROVE PresenceInv'
    OBVIOUS
  <2>1. part = "presence"
    BY DEF ServerNext, Outside
  <2>2. CASE Roster!NextPresence
    <3>1. PresenceInv
      BY <2>1
    <3> QED
      BY <2>2, <3>1, HandshakeKeeps, IdentityKeeps, WelcomeKeeps, AnnounceKeeps, CloseKeeps, EditKeeps, DeliverKeeps,
            SweepsKeep, LeaveKeeps, ExpiryKeeps DEF Roster!NextPresence
  <2>3. CASE UNCHANGED <<Outside, spare>>
    <3>1. PresenceInv
      BY <2>1
    <3> QED
      BY <2>3, <3>1, TouchesKeep DEF PresenceInv, PresenceTypes, Roster!TouchesAreSwept, spare
  <2> QED
    BY <2>1, <2>2, <2>3 DEF ServerNext
<1>3. inv => PeersAreShown
  BY PeersAreShownNow DEF PeersAreShown
<1> QED
  BY <1>1, <1>2, <1>3, PTL DEF ServerSpec
=============================================================================
