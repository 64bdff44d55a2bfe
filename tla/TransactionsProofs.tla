-------------------------- MODULE TransactionsProofs --------------------------
(***************************************************************************)
(* Theorems about Transactions, for every set of packet types, every       *)
(* well-formed action line, every INT_MAX and any number of sends.         *)
(***************************************************************************)
EXTENDS Transactions, FiniteSetTheorems, SequenceTheorems, TLAPS

USE DEF Peer, Side

(* The other peer of a peer is a peer.                                     *)
LEMMA OtherPeer == \A p \in Peer : Other(p) \in Peer
BY DEF Other

(* A computed index is an int, whatever the size of iMap.                  *)
LEMMA NextIndexType ==
    ASSUME TypeOK, NEW p \in Peer
    PROVE  NextIndex(p) \in Index
<1>1. IntMax \in Nat \ {0}
  BY BoundAssumption
<1>2. /\ IsFiniteSet(Index)
      /\ Cardinality(Index) = 2 * IntMax + 2
  BY <1>1, FS_Interval DEF Index
<1>3. /\ DOMAIN iMap[p] \subseteq Index
      /\ DOMAIN iMap[p] \in SUBSET Index
  BY DEF TypeOK, HoldersOK
<1>4. /\ IsFiniteSet(DOMAIN iMap[p])
      /\ Cardinality(DOMAIN iMap[p]) <= 2 * IntMax + 2
  BY <1>2, <1>3, FS_Subset
<1>5. Cardinality(DOMAIN iMap[p]) \in Nat
  BY <1>4, FS_CardinalityType
<1>6. MinIndex(p) \in 1..IntMax \div 2 + 1 /\ IntMax \div 2 + 1 <= IntMax + 1
  BY <1>1, SMT DEF MinIndex
<1>7. QED
  BY <1>1, <1>4, <1>5, <1>6 DEF NextIndex, ToInt, Index

(* Storing a processor keeps the objects well typed and forgets none.      *)
LEMMA StoreType ==
    ASSUME ObjectsOK, NEW p \in Peer, NEW o \in 1..Len(obj[p]) + 1,
           NEW rec \in Processor, Standing(rec)
    PROVE  /\ Store(p, o, rec) \in [Peer -> Seq(Processor)]
           /\ \A q \in Peer : 1..Len(obj[q]) \subseteq 1..Len(Store(p, o, rec)[q])
           /\ o \in 1..Len(Store(p, o, rec)[p])
           /\ \A q \in Peer : \A i \in 1..Len(Store(p, o, rec)[q]) :
                  Standing(Store(p, o, rec)[q][i])
<1>1. obj \in [Peer -> Seq(Processor)] /\ obj[p] \in Seq(Processor)
  BY DEF ObjectsOK
<1>2. Len(obj[p]) \in Nat
  BY <1>1
<1>3. CASE o <= Len(obj[p])
  <2> DEFINE s == [obj[p] EXCEPT ![o] = rec]
  <2>1. o \in 1..Len(obj[p])
    BY <1>2, <1>3
  <2>2. s \in Seq(Processor) /\ Len(s) = Len(obj[p])
        /\ \A j \in 1..Len(obj[p]) : s[j] = IF j = o THEN rec ELSE obj[p][j]
    BY <1>1, <2>1, ExceptSeq
  <2>3. Store(p, o, rec) = [obj EXCEPT ![p] = s]
    BY <1>3 DEF Store
  <2> HIDE DEF s
  <2>4. \A q \in Peer : Store(p, o, rec)[q] = IF q = p THEN s ELSE obj[q]
    BY <1>1, <2>3
  <2>5. Store(p, o, rec) \in [Peer -> Seq(Processor)]
    BY <1>1, <2>2, <2>3
  <2>6. \A q \in Peer : Len(Store(p, o, rec)[q]) = Len(obj[q])
    BY <2>2, <2>4
  <2>7. ASSUME NEW q \in Peer, NEW i \in 1..Len(Store(p, o, rec)[q])
        PROVE  Standing(Store(p, o, rec)[q][i])
    <3>1. CASE q = p
      BY <2>2, <2>4, <2>6, <2>7, <3>1 DEF ObjectsOK, Ids
    <3>2. CASE q # p
      BY <2>4, <2>6, <2>7, <3>2 DEF ObjectsOK, Ids
    <3>3. QED
      BY <3>1, <3>2
  <2>8. QED
    BY <2>1, <2>5, <2>6, <2>7
<1>4. CASE ~(o <= Len(obj[p]))
  <2> DEFINE s == Append(obj[p], rec)
  <2>1. o = Len(obj[p]) + 1
    BY <1>2, <1>4
  <2>2. s \in Seq(Processor) /\ Len(s) = Len(obj[p]) + 1
        /\ \A j \in 1..Len(s) : s[j] = IF j = o THEN rec ELSE obj[p][j]
    BY <1>1, <2>1
  <2>3. Store(p, o, rec) = [obj EXCEPT ![p] = s]
    BY <1>4 DEF Store
  <2> HIDE DEF s
  <2>4. \A q \in Peer : Store(p, o, rec)[q] = IF q = p THEN s ELSE obj[q]
    BY <1>1, <2>3
  <2>5. Store(p, o, rec) \in [Peer -> Seq(Processor)]
    BY <1>1, <2>2, <2>3
  <2>6. /\ Len(Store(p, o, rec)[p]) = Len(obj[p]) + 1
        /\ \A q \in Peer \ {p} : Len(Store(p, o, rec)[q]) = Len(obj[q])
    BY <2>2, <2>4
  <2>7. ASSUME NEW q \in Peer, NEW i \in 1..Len(Store(p, o, rec)[q])
        PROVE  Standing(Store(p, o, rec)[q][i])
    <3>1. CASE q = p
      BY <1>2, <2>1, <2>2, <2>4, <2>7, <3>1 DEF ObjectsOK, Ids
    <3>2. CASE q # p
      BY <2>4, <2>7, <3>2 DEF ObjectsOK, Ids
    <3>3. QED
      BY <3>1, <3>2
  <2>8. \A q \in Peer : Len(obj[q]) \in Nat
    BY <1>1
  <2>9. \A q \in Peer : 1..Len(obj[q]) \subseteq 1..Len(Store(p, o, rec)[q])
    <3>1. 1..Len(obj[p]) \subseteq 1..Len(obj[p]) + 1
      BY <1>2
    <3>2. QED
      BY <2>6, <3>1
  <2>10. o \in 1..Len(Store(p, o, rec)[p])
    BY <1>2, <2>1, <2>6
  <2>11. QED
    BY <2>5, <2>7, <2>9, <2>10
<1>5. QED
  BY <1>3, <1>4

(* A function on 1..n is a sequence.                                       *)
LEMMA FunctionIsSeq ==
    ASSUME NEW S, NEW n \in Nat, NEW f \in [1..n -> S]
    PROVE  f \in Seq(S)
BY SMT

(* What go() leaves: a position on the line and calls of steps.            *)
LEMMA GoType ==
    ASSUME NEW line \in Seq(Side), NEW pos \in 1..Len(line) + 1, NEW side \in Side,
           NEW r \in GoOutcomes(line, pos, side)
    PROVE  /\ r.first \in 1..Len(line) + 1
           /\ r.next \in 1..Len(line) + 1
           /\ r.first <= r.next
           /\ r.ok \in BOOLEAN
           /\ Calls(side, r) \in Seq([side : Side, step : Nat])
           /\ GoFails(line, r) \in BOOLEAN
           /\ IsOver(line, r) \in BOOLEAN
<1>1. /\ r.first \in 1..Len(line) + 1
      /\ r.next \in 1..Len(line) + 1
      /\ r.first <= r.next
      /\ r.ok \in BOOLEAN
  BY DEF GoOutcomes
<1>2. r.next - r.first \in Nat
  BY <1>1
<1>3. \A i \in 1..r.next - r.first :
          [side |-> side, step |-> r.first + i - 1] \in [side : Side, step : Nat]
  BY <1>1
<1>4. Calls(side, r) \in Seq([side : Side, step : Nat])
  <2> DEFINE n == r.next - r.first
             Call == [side : Side, step : Nat]
  <2>1. n \in Nat
    BY <1>2
  <2>2. Calls(side, r) \in [1..n -> Call]
    BY <1>3, Zenon DEF Calls
  <2> HIDE DEF n, Call
  <2>3. QED
    BY <2>1, <2>2, FunctionIsSeq DEF n, Call
<1>5. QED
  BY <1>1, <1>4 DEF GoFails, IsOver

(* Recording a visit keeps the history well typed.                         *)
LEMMA LoggedType ==
    ASSUME LogOK, NEW k, NEW side \in Side, NEW r, NEW fault \in BOOLEAN,
           r.ok \in BOOLEAN, Calls(side, r) \in Seq([side : Side, step : Nat])
    PROVE  /\ DOMAIN Logged(k, side, r, fault) \subseteq Index
           /\ Logged(k, side, r, fault)
                \in [DOMAIN Logged(k, side, r, fault) -> History]
<1>1. CASE k \notin DOMAIN log
  <2>1. Logged(k, side, r, fault) = log
    BY <1>1 DEF Logged, LogOK
  <2>2. QED
    BY <2>1 DEF LogOK
<1>2. CASE k \in DOMAIN log
  <2> DEFINE new == [log[k] EXCEPT
                        !.calls  = @ \o Calls(side, r),
                        !.failed = @ \/ ~r.ok,
                        !.faults = @ \cup IF fault THEN {side} ELSE {}]
  <2>1. log[k] \in History
    BY <1>2 DEF LogOK
  <2>2. log[k].calls \o Calls(side, r) \in Seq([side : Side, step : Nat])
    BY <2>1, ConcatProperties DEF History
  <2>3. new \in History
    BY <2>1, <2>2 DEF History
  <2>4. Logged(k, side, r, fault) = [log EXCEPT ![k] = new]
    BY DEF Logged
  <2> HIDE DEF new
  <2>5. QED
    BY <1>2, <2>3, <2>4 DEF LogOK
<1>3. QED
  BY <1>1, <1>2

-----------------------------------------------------------------------------
(* Type correctness.  HoldersOK is split by variable.                      *)

MapOK == /\ Peer = DOMAIN iMap
         /\ \A p \in Peer : /\ DOMAIN iMap[p] \subseteq Index
                            /\ iMap[p] \in [DOMAIN iMap[p] -> Ids(p)]
BackOK == Peer = DOMAIN iBackQueue /\ \A p \in Peer : iBackQueue[p] \in Seq(Ids(p))
QueueOK == Peer = DOMAIN iQueue /\ \A p \in Peer : iQueue[p] \in Seq(Ids(p))
PoolOK == Peer = DOMAIN pool /\ \A p \in Peer : pool[p] \in [Types -> Seq(Ids(p))]
SendingOK ==
    /\ Peer = DOMAIN sending
    /\ \A p \in Peer : \/ sending[p] = NotSending
                       \/ sending[p] \in [proc : Ids(p), index : Index]

(* HoldersOK is the conjunction of what is said of each holder.            *)
LEMMA HoldersSplit == HoldersOK <=> MapOK /\ BackOK /\ QueueOK /\ PoolOK /\ SendingOK
BY DEF HoldersOK, MapOK, BackOK, QueueOK, PoolOK, SendingOK

(* A step that forgets no object keeps the holders it does not touch.      *)
LEMMA Kept ==
    ASSUME TypeOK, ObjectsOK', \A p \in Peer : Ids(p) \subseteq Ids(p)'
    PROVE  /\ UNCHANGED iMap => MapOK'
           /\ UNCHANGED iBackQueue => BackOK'
           /\ UNCHANGED iQueue => QueueOK'
           /\ UNCHANGED pool => PoolOK'
           /\ UNCHANGED sending => SendingOK'
           /\ \A p \in Peer : Seq(Ids(p)) \subseteq Seq(Ids(p)')
<1>1. \A p \in Peer : Seq(Ids(p)) \subseteq Seq(Ids(p)')
  <2>1. SUFFICES ASSUME NEW p \in Peer, NEW s \in Seq(Ids(p))
                 PROVE  s \in Seq(Ids(p)')
    OBVIOUS
  <2>2. QED
    BY <2>1, SeqMonotonic
<1>2. MapOK /\ BackOK /\ QueueOK /\ PoolOK /\ SendingOK
  BY HoldersSplit DEF TypeOK
<1>3. UNCHANGED iMap => MapOK'
  BY <1>2 DEF MapOK
<1>4. UNCHANGED iBackQueue => BackOK'
  BY <1>1, <1>2 DEF BackOK
<1>5. UNCHANGED iQueue => QueueOK'
  BY <1>1, <1>2 DEF QueueOK
<1>6. UNCHANGED pool => PoolOK'
  BY <1>1, <1>2 DEF PoolOK
<1>7. UNCHANGED sending => SendingOK'
  BY <1>2 DEF SendingOK
<1>8. QED
  BY <1>1, <1>3, <1>4, <1>5, <1>6, <1>7

(* Taking a processor of type t from the pool, or a new one.               *)
LEMMA PickType ==
    ASSUME TypeOK, NEW p \in Peer, NEW t \in Types
    PROVE  /\ Pick(p, t) \in 1..Len(obj[p]) + 1
           /\ Picked(p, t) \in Processor
           /\ Standing(Picked(p, t))
           /\ DOMAIN PoolLess(p, t) = Peer
           /\ \A q \in Peer : PoolLess(p, t)[q] \in [Types -> Seq(Ids(q))]
<1>1. PoolOK /\ pool[p][t] \in Seq(Ids(p))
  BY HoldersSplit DEF TypeOK, PoolOK
<1>2. obj[p] \in Seq(Processor) /\ Len(obj[p]) \in Nat
  BY DEF TypeOK, ObjectsOK
<1>3. CASE Pooled(p, t)
  <2>1. Head(pool[p][t]) \in Ids(p) /\ Tail(pool[p][t]) \in Seq(Ids(p))
    BY <1>1, <1>3, HeadTailProperties DEF Pooled
  <2>2. Pick(p, t) = Head(pool[p][t]) /\ Picked(p, t) = obj[p][Head(pool[p][t])]
    BY <1>3 DEF Pick, Picked
  <2>3. obj[p][Head(pool[p][t])] \in Processor
    BY <1>2, <2>1, ElementOfSeq DEF Ids
  <2>4. Standing(obj[p][Head(pool[p][t])])
    BY <2>1 DEF TypeOK, ObjectsOK
  <2>5. PoolLess(p, t) = [pool EXCEPT ![p][t] = Tail(pool[p][t])]
    BY <1>3 DEF PoolLess
  <2>6. Pick(p, t) \in 1..Len(obj[p]) + 1
    BY <1>2, <2>1, <2>2 DEF Ids
  <2>7. DOMAIN PoolLess(p, t) = Peer
        /\ \A q \in Peer : PoolLess(p, t)[q] \in [Types -> Seq(Ids(q))]
    BY <1>1, <2>1, <2>5 DEF PoolOK
  <2>8. QED
    BY <2>2, <2>3, <2>4, <2>6, <2>7
<1>4. CASE ~Pooled(p, t)
  <2>1. Pick(p, t) = Len(obj[p]) + 1 /\ Picked(p, t) = Fresh(t)
    BY <1>4 DEF Pick, Picked
  <2>2. Fresh(t) \in Processor
    BY BoundAssumption DEF Fresh, Processor, Index
  <2>3. Line[t] \in Seq(Side)
    BY LineAssumption
  <2>4. Standing(Fresh(t))
    BY <2>3 DEF Standing, Fresh
  <2>5. PoolLess(p, t) = pool
    BY <1>4 DEF PoolLess
  <2>6. QED
    BY <1>1, <1>2, <2>1, <2>2, <2>4, <2>5 DEF PoolOK
<1>5. QED
  BY <1>3, <1>4

(* The forward unit pops an existing processor.                            *)
LEMMA QueuedType ==
    ASSUME TypeOK, NEW p \in Peer, Queued(p) # <<>>
    PROVE  /\ Head(Queued(p)) \in Ids(p)
           /\ obj[p][Head(Queued(p))] \in Processor
           /\ Standing(obj[p][Head(Queued(p))])
           /\ Tail(Queued(p)) \in Seq(Ids(p))
<1>1. iQueue[p] \in Seq(Ids(p)) /\ iBackQueue[p] \in Seq(Ids(p))
  BY DEF TypeOK, HoldersOK
<1>2. Queued(p) \in Seq(Ids(p))
  BY <1>1, ConcatProperties DEF Queued
<1>3. Head(Queued(p)) \in Ids(p) /\ Tail(Queued(p)) \in Seq(Ids(p))
  BY <1>2, HeadTailProperties
<1>4. obj[p] \in Seq(Processor)
  BY DEF TypeOK, ObjectsOK
<1>5. obj[p][Head(Queued(p))] \in Processor
  BY <1>3, <1>4, ElementOfSeq DEF Ids
<1>6. QED
  BY <1>3, <1>5 DEF TypeOK, ObjectsOK

(* Popping the queues of the forward unit keeps both well typed.           *)
LEMMA PopType ==
    ASSUME TypeOK, NEW p \in Peer, Queued(p) # <<>>, PopActual(p),
           ObjectsOK', \A q \in Peer : Ids(q) \subseteq Ids(q)'
    PROVE  QueueOK' /\ BackOK'
<1>1. Tail(Queued(p)) \in Seq(Ids(p)')
  BY QueuedType, Kept
<1>2. <<>> \in Seq(Ids(p)')
  BY EmptySeq
<1>3. QueueOK /\ BackOK
  BY HoldersSplit DEF TypeOK
<1>4. \A q \in Peer : iQueue[q] \in Seq(Ids(q)') /\ iBackQueue[q] \in Seq(Ids(q)')
  BY <1>3, Kept DEF QueueOK, BackOK
<1>5. QueueOK'
  BY <1>1, <1>3, <1>4 DEF PopActual, QueueOK
<1>6. BackOK'
  BY <1>2, <1>3, <1>4 DEF PopActual, BackOK
<1>7. QED
  BY <1>5, <1>6

(* Writing a packet keeps the channel well typed.                          *)
LEMMA TransmitType ==
    ASSUME wire \in [Peer -> Seq(Packet)], NEW p \in Peer, NEW rec \in Processor,
           Transmit(p, rec)
    PROVE  wire' \in [Peer -> Seq(Packet)]
<1>1. PacketOf(rec) \in Packet
  BY DEF PacketOf, Packet, Processor
<1>2. Append(wire[p], PacketOf(rec)) \in Seq(Packet)
  BY <1>1
<1>3. QED
  BY <1>2 DEF Transmit

(* Recycling a processor.                                                  *)
LEMMA ReturnType ==
    ASSUME TypeOK, ObjectsOK', \A q \in Peer : Ids(q) \subseteq Ids(q)',
           NEW p \in Peer, NEW t \in Types, NEW o \in Ids(p)', NEW pl,
           DOMAIN pl = Peer, \A q \in Peer : pl[q] \in [Types -> Seq(Ids(q))],
           pool' = Return(p, o, pl, t)
    PROVE  PoolOK'
<1>1. \A q \in Peer : pl[q] \in [Types -> Seq(Ids(q)')]
  BY Kept
<1>2. Append(pl[p][t], o) \in Seq(Ids(p)')
  BY <1>1
<1>3. QED
  BY <1>1, <1>2 DEF Return, PoolOK

(* A well-typed pool stays so when objects are only added.                 *)
LEMMA PoolKept ==
    ASSUME TypeOK, ObjectsOK', \A q \in Peer : Ids(q) \subseteq Ids(q)',
           NEW pl, DOMAIN pl = Peer, \A q \in Peer : pl[q] \in [Types -> Seq(Ids(q))],
           pool' = pl
    PROVE  PoolOK'
<1>1. \A q \in Peer : pl[q] \in [Types -> Seq(Ids(q)')]
  BY Kept
<1>2. QED
  BY <1>1 DEF PoolOK

(* clear() leaves a processor whose line stands on its first step.         *)
LEMMA ClearedType ==
    ASSUME NEW rec \in Processor
    PROVE  Cleared(rec) \in Processor /\ Standing(Cleared(rec))
<1>1. Cleared(rec) \in Processor /\ Cleared(rec).type = rec.type /\ Cleared(rec).step = 1
  BY DEF Cleared, Processor
<1>2. Line[rec.type] \in Seq(Side)
  BY LineAssumption DEF Processor
<1>3. QED
  BY <1>1, <1>2 DEF Standing

(* Storing a processor, as a step.                                         *)
LEMMA Stored ==
    ASSUME TypeOK, NEW p \in Peer, NEW o \in 1..Len(obj[p]) + 1,
           NEW rec \in Processor, Standing(rec), obj' = Store(p, o, rec)
    PROVE  ObjectsOK' /\ o \in Ids(p)' /\ \A q \in Peer : Ids(q) \subseteq Ids(q)'
BY StoreType DEF TypeOK, ObjectsOK, Ids

(* A step that touches no object leaves the set of their ids alone.        *)
LEMMA IdsKept == UNCHANGED obj => /\ \A q \in Peer : Ids(q) \subseteq Ids(q)'
                                  /\ ObjectsOK => ObjectsOK'
BY DEF Ids, ObjectsOK
-----------------------------------------------------------------------------
(* The two processors start well typed.                                    *)
LEMMA InitType == Init => TypeOK
<1> SUFFICES ASSUME Init PROVE TypeOK
  OBVIOUS
<1>1. obj \in [Peer -> Seq(Processor)] /\ wire \in [Peer -> Seq(Packet)]
  BY DEF Init
<1>2. ObjectsOK
  BY <1>1 DEF Init, ObjectsOK, Ids
<1>3. HoldersOK
  BY DEF Init, HoldersOK
<1>4. LogOK
  BY DEF Init, LogOK
<1>5. QED
  BY <1>1, <1>2, <1>3, <1>4, BoundAssumption DEF Init, TypeOK

(* The first half of send(), up to the computed index.                     *)
LEMMA SendBeginType ==
    ASSUME TypeOK, NEW p \in Peer, NEW t \in Types, SendBegin(p, t)
    PROVE  TypeOK'
<1> DEFINE o == Pick(p, t)
           k == NextIndex(p)
           rec == [Picked(p, t) EXCEPT !.index = k]
<1>1. k \in Index
  BY NextIndexType
<1>2. o \in 1..Len(obj[p]) + 1 /\ Picked(p, t) \in Processor /\ Standing(Picked(p, t))
  BY PickType
<1>3. rec \in Processor /\ Standing(rec)
  BY <1>1, <1>2 DEF Processor, Standing
<1>4. obj' = Store(p, o, rec)
  BY DEF SendBegin
<1>5. ObjectsOK' /\ o \in Ids(p)' /\ \A q \in Peer : Ids(q) \subseteq Ids(q)'
  BY <1>2, <1>3, <1>4, Stored
<1>6. PoolOK'
  BY <1>5, PickType, PoolKept DEF SendBegin
<1>7. SendingOK'
  <2>1. sending' = [sending EXCEPT ![p] = [proc |-> o, index |-> k]]
    BY DEF SendBegin
  <2>2. \A q \in Peer : Ids(q) \subseteq Ids(q)'
    BY <1>5
  <2> HIDE DEF o, k
  <2>3. QED
    BY <1>1, <1>5, <2>1, <2>2 DEF TypeOK, HoldersOK, SendingOK
<1>8. MapOK' /\ BackOK' /\ QueueOK'
  BY <1>5, Kept DEF SendBegin
<1>9. HoldersOK'
  BY <1>6, <1>7, <1>8, HoldersSplit, PTL
<1>10. sends' \in 0..MaxSends
  BY BoundAssumption DEF TypeOK, SendBegin
<1>11. wire' \in [Peer -> Seq(Packet)] /\ LogOK'
  BY DEF TypeOK, SendBegin, LogOK
<1>12. QED
  BY <1>5, <1>9, <1>10, <1>11 DEF TypeOK

(* The second half of send(), the insertion and the queueing.              *)
LEMMA SendEndType ==
    ASSUME TypeOK, NEW p \in Peer, SendEnd(p)
    PROVE  TypeOK'
<1> DEFINE o == sending[p].proc
           k == sending[p].index
           h == [type |-> obj[p][o].type, calls |-> <<>>, failed |-> FALSE, faults |-> {}]
<1>1. o \in Ids(p) /\ k \in Index
  BY DEF SendEnd, TypeOK, HoldersOK
<1>2. ObjectsOK' /\ \A q \in Peer : Ids(q) \subseteq Ids(q)' /\ Ids(q)' = Ids(q)
  BY IdsKept DEF SendEnd, TypeOK, Ids
<1>3. obj[p][o] \in Processor
  BY <1>1, ElementOfSeq DEF TypeOK, ObjectsOK, Ids
<1>4. h \in History
  <2>1. obj[p][o].type \in Types
    BY <1>3 DEF Processor
  <2>2. <<>> \in Seq([side : Side, step : Nat])
    BY EmptySeq
  <2>3. QED
    BY <2>1, <2>2 DEF History
<1>5. iMap' = [iMap EXCEPT ![p] = Put(iMap[p], k, o)]
      /\ iBackQueue' = [iBackQueue EXCEPT ![p] = Append(iBackQueue[p], o)]
      /\ log' = Put(log, k, h)
      /\ sending' = [sending EXCEPT ![p] = NotSending]
  BY DEF SendEnd
<1> HIDE DEF o, k, h
<1>6. LogOK'
  BY <1>1, <1>4, <1>5 DEF Put, TypeOK, LogOK
<1>7. MapOK'
  BY <1>1, <1>2, <1>5, HoldersSplit DEF Put, TypeOK, MapOK
<1>8. BackOK'
  <2>1. BackOK
    BY HoldersSplit DEF TypeOK
  <2>2. Append(iBackQueue[p], o) \in Seq(Ids(p))
    BY <1>1, <2>1 DEF BackOK
  <2>3. QED
    BY <1>2, <1>5, <2>1, <2>2 DEF BackOK
<1>9. SendingOK'
  BY <1>2, <1>5, HoldersSplit DEF TypeOK, SendingOK
<1>10. PoolOK' /\ QueueOK'
  BY <1>2, Kept DEF SendEnd
<1>11. HoldersOK'
  BY <1>7, <1>8, <1>9, <1>10, HoldersSplit, PTL
<1>12. QED
  BY <1>2, <1>6, <1>11 DEF TypeOK, SendEnd

(* The forward unit writes the product of a step already run.              *)
LEMMA ResendType ==
    ASSUME TypeOK, NEW p \in Peer, Resend(p)
    PROVE  TypeOK'
<1>1. ObjectsOK' /\ \A q \in Peer : Ids(q) \subseteq Ids(q)'
  BY IdsKept DEF Resend, TypeOK
<1>2. QueueOK' /\ BackOK'
  BY <1>1, PopType DEF Resend
<1>3. MapOK' /\ PoolOK' /\ SendingOK'
  BY <1>1, Kept DEF Resend
<1>4. HoldersOK'
  BY <1>2, <1>3, HoldersSplit, PTL
<1>5. wire' \in [Peer -> Seq(Packet)]
  BY QueuedType, TransmitType DEF Resend, TypeOK
<1>6. sends' \in 0..MaxSends /\ LogOK'
  BY DEF TypeOK, Resend, LogOK
<1>7. QED
  BY <1>1, <1>4, <1>5, <1>6 DEF TypeOK

(* The forward unit drops a processor without an action line.              *)
LEMMA NoLineType ==
    ASSUME TypeOK, NEW p \in Peer, NoLine(p)
    PROVE  TypeOK'
<1> DEFINE o == Head(Queued(p))
           rec == obj[p][o]
<1>1. o \in Ids(p) /\ rec \in Processor
  BY QueuedType DEF NoLine
<1>2. obj' = Store(p, o, Cleared(rec)) /\ pool' = Return(p, o, pool, rec.type)
  BY DEF NoLine
<1>3. o \in 1..Len(obj[p]) + 1
  BY <1>1 DEF Ids, TypeOK, ObjectsOK
<1>4. ObjectsOK' /\ o \in Ids(p)' /\ \A q \in Peer : Ids(q) \subseteq Ids(q)'
  BY <1>1, <1>2, <1>3, ClearedType, Stored
<1>5. PoolOK'
  <2>1. rec.type \in Types
    BY <1>1 DEF Processor
  <2>2. DOMAIN pool = Peer /\ \A q \in Peer : pool[q] \in [Types -> Seq(Ids(q))]
    BY DEF TypeOK, HoldersOK
  <2>3. QED
    BY <1>2, <1>4, <2>1, <2>2, ReturnType
<1>6. QueueOK' /\ BackOK'
  BY <1>4, PopType DEF NoLine
<1>7. MapOK' /\ SendingOK'
  BY <1>4, Kept DEF NoLine
<1>8. HoldersOK'
  BY <1>5, <1>6, <1>7, HoldersSplit, PTL
<1>9. QED
  BY <1>4, <1>8 DEF NoLine, TypeOK, LogOK

(* A mark changes nothing that is read of a processor.                     *)
LEMMA MarkedType ==
    ASSUME NEW rec \in Processor, Standing(rec)
    PROVE  /\ Marked(rec) \in Processor /\ Standing(Marked(rec))
           /\ Marked(rec).type = rec.type /\ Marked(rec).index = rec.index
           /\ Marked(rec).resendable = rec.resendable
           /\ Marked(rec).failed = rec.failed
           /\ Cleared(Marked(rec)) \in Processor /\ Cleared(Marked(rec)).index = rec.index
<1>1. /\ Marked(rec) \in Processor /\ Standing(Marked(rec))
      /\ Marked(rec).type = rec.type /\ Marked(rec).index = rec.index
      /\ Marked(rec).resendable = rec.resendable
      /\ Marked(rec).failed = rec.failed
  BY DEF Marked, Processor, Standing
<1>2. PICK new : new = Marked(rec)
  OBVIOUS
<1>3. Cleared(new) \in Processor /\ Cleared(new).index = new.index
  BY <1>1, <1>2, ClearedType DEF Cleared, Processor
<1>4. QED
  BY <1>1, <1>2, <1>3

(* A processor after its line has moved; the backward unit also writes the *)
(* failure flags.                                                          *)
LEMMA ProcessorUpdate ==
    ASSUME NEW rec \in Processor, NEW n \in 1..Len(Line[rec.type]) + 1,
           NEW failed \in BOOLEAN, NEW again \in BOOLEAN
    PROVE  /\ [rec EXCEPT !.step = n, !.resendable = again] \in Processor
           /\ Standing([rec EXCEPT !.step = n, !.resendable = again])
           /\ [rec EXCEPT !.step = n, !.failed = failed, !.flagged = failed, !.resendable = again]
                \in Processor
           /\ Standing([rec EXCEPT !.step = n, !.failed = failed, !.flagged = failed,
                                   !.resendable = again])
<1>1. Line[rec.type] \in Seq(Side) /\ n \in Nat
  BY LineAssumption DEF Processor
<1>2. QED
  BY <1>1 DEF Processor, Standing

(* A processor stays well typed when its line is moved by go().            *)
LEMMA MovedType ==
    ASSUME NEW rec \in Processor, Standing(rec),
           NEW r \in GoOutcomes(Line[rec.type], rec.step, rec.position)
    PROVE  /\ r.next \in 1..Len(Line[rec.type]) + 1
           /\ (~IsOver(Line[rec.type], r)) \in BOOLEAN
           /\ GoFails(Line[rec.type], r) \in BOOLEAN
<1>1. Line[rec.type] \in Seq(Side)
  BY LineAssumption DEF Processor
<1>2. rec.step \in 1..Len(Line[rec.type]) + 1 /\ rec.position \in Side
  BY DEF Standing, Processor
<1>3. QED
  BY <1>1, <1>2, GoType

(* The visit itself, as both units make it: the log stays well typed.      *)
LEMMA VisitType ==
    ASSUME LogOK, NEW rec \in Processor, Standing(rec),
           NEW r \in GoOutcomes(Line[rec.type], rec.step, rec.position),
           log' = Logged(rec.index, rec.position, r, GoFails(Line[rec.type], r))
    PROVE  LogOK'
<1>1. Line[rec.type] \in Seq(Side)
  BY LineAssumption DEF Processor
<1>2. rec.step \in 1..Len(Line[rec.type]) + 1 /\ rec.position \in Side
  BY DEF Standing, Processor
<1>3. /\ r.ok \in BOOLEAN
      /\ Calls(rec.position, r) \in Seq([side : Side, step : Nat])
      /\ GoFails(Line[rec.type], r) \in BOOLEAN
  BY <1>1, <1>2, GoType
<1>4. QED
  BY <1>2, <1>3, LoggedType DEF LogOK

(* The forward unit runs the first host steps of a transaction.            *)
LEMMA FirstStepType ==
    ASSUME TypeOK, NEW p \in Peer, FirstStep(p)
    PROVE  TypeOK'
<1> DEFINE o == Head(Queued(p))
           rec == obj[p][o]
           line == Line[rec.type]
<1>1. /\ Queued(p) # <<>>
      /\ o \in Ids(p) /\ rec \in Processor /\ Standing(rec) /\ rec.type \in Types
  BY QueuedType DEF FirstStep, Processor
<1>2. o \in 1..Len(obj[p]) + 1
  BY <1>1 DEF Ids, TypeOK, ObjectsOK
<1>3. PICK r \in GoOutcomes(line, rec.step, rec.position) :
          LET moved == [rec EXCEPT !.step = r.next, !.resendable = ~IsOver(line, r)]
          IN  /\ log' = Logged(rec.index, rec.position, r, GoFails(line, r))
              /\ IF GoFails(line, r)
                 THEN /\ obj' = Store(p, o, Cleared(Marked(rec)))
                      /\ pool' = Return(p, o, pool, rec.type)
                      /\ UNCHANGED wire
                 ELSE /\ Transmit(p, moved)
                      /\ IF moved.resendable
                         THEN obj' = Store(p, o, moved) /\ UNCHANGED pool
                         ELSE /\ obj' = Store(p, o, Cleared(moved))
                              /\ pool' = Return(p, o, pool, rec.type)
  BY DEF FirstStep
<1> DEFINE moved == [rec EXCEPT !.step = r.next, !.resendable = ~IsOver(line, r)]
<1>4. moved \in Processor /\ Standing(moved)
  <2> DEFINE again == ~IsOver(line, r)
  <2>1. r.next \in 1..Len(line) + 1 /\ again \in BOOLEAN
    BY <1>1, <1>3, MovedType
  <2> HIDE DEF again
  <2>2. [rec EXCEPT !.step = r.next, !.resendable = again] \in Processor
        /\ Standing([rec EXCEPT !.step = r.next, !.resendable = again])
    BY <1>1, <2>1, ProcessorUpdate
  <2>3. QED
    BY <2>2 DEF again
<1>5. LogOK'
  BY <1>1, <1>3, VisitType DEF TypeOK
<1>6. \/ obj' = Store(p, o, Cleared(Marked(rec))) /\ pool' = Return(p, o, pool, rec.type)
      \/ obj' = Store(p, o, moved) /\ UNCHANGED pool
      \/ obj' = Store(p, o, Cleared(moved)) /\ pool' = Return(p, o, pool, rec.type)
  BY <1>3
<1>7. wire' \in [Peer -> Seq(Packet)]
  <2>1. UNCHANGED wire \/ Transmit(p, moved)
    BY <1>3
  <2>2. QED
    BY <1>4, <2>1, TransmitType DEF TypeOK
<1>8. PopActual(p) /\ UNCHANGED <<iMap, sending, sends>>
  BY DEF FirstStep
<1> HIDE DEF o, rec, line, moved
<1>9. ObjectsOK' /\ o \in Ids(p)' /\ \A q \in Peer : Ids(q) \subseteq Ids(q)'
  <2>1. CASE obj' = Store(p, o, Cleared(Marked(rec)))
    BY <1>1, <1>2, <2>1, MarkedType, ClearedType, Stored
  <2>2. CASE obj' = Store(p, o, moved)
    BY <1>2, <1>4, <2>2, Stored
  <2>3. CASE obj' = Store(p, o, Cleared(moved))
    BY <1>2, <1>4, <2>3, ClearedType, Stored
  <2>4. QED
    BY <1>6, <2>1, <2>2, <2>3
<1>10. PoolOK'
  <2>1. CASE UNCHANGED pool
    BY <1>9, <2>1, Kept
  <2>2. CASE pool' = Return(p, o, pool, rec.type)
    <3>1. DOMAIN pool = Peer /\ \A q \in Peer : pool[q] \in [Types -> Seq(Ids(q))]
      BY DEF TypeOK, HoldersOK
    <3>2. QED
      BY <1>1, <1>9, <2>2, <3>1, ReturnType
  <2>3. QED
    BY <1>6, <2>1, <2>2
<1>11. QueueOK' /\ BackOK'
  BY <1>1, <1>8, <1>9, PopType
<1>12. MapOK' /\ SendingOK'
  BY <1>8, <1>9, Kept
<1>13. HoldersOK'
  BY <1>10, <1>11, <1>12, HoldersSplit, PTL
<1>14. QED
  BY <1>5, <1>7, <1>8, <1>9, <1>13 DEF TypeOK

(* The processor a packet is handed to, registered for it if need be.      *)
LEMMA TargetType ==
    ASSUME TypeOK, NEW p \in Peer, NEW pkt \in Packet
    PROVE  /\ Target(p, pkt) \in 1..Len(obj[p]) + 1
           /\ Targeted(p, pkt) \in Processor
           /\ Standing(Targeted(p, pkt))
           /\ DOMAIN PoolAt(p, pkt) = Peer
           /\ \A q \in Peer : PoolAt(p, pkt)[q] \in [Types -> Seq(Ids(q))]
<1>1. pkt.type \in Types /\ pkt.transaction \in Index
  BY DEF Packet
<1>2. CASE Known(p, pkt)
  <2>1. Target(p, pkt) \in Ids(p)
    BY <1>2 DEF Known, Target, TypeOK, HoldersOK
  <2>2. obj[p] \in Seq(Processor) /\ Len(obj[p]) \in Nat
    BY DEF TypeOK, ObjectsOK
  <2>3. Targeted(p, pkt) = obj[p][Target(p, pkt)]
    BY <1>2 DEF Targeted
  <2>4. Targeted(p, pkt) \in Processor
    BY <2>1, <2>2, <2>3, ElementOfSeq DEF Ids
  <2>5. Standing(Targeted(p, pkt))
    BY <2>1, <2>3 DEF TypeOK, ObjectsOK
  <2>6. PoolAt(p, pkt) = pool
    BY <1>2 DEF PoolAt
  <2>7. QED
    BY <2>1, <2>2, <2>4, <2>5, <2>6 DEF Ids, TypeOK, HoldersOK
<1>3. CASE ~Known(p, pkt)
  <2>1. Target(p, pkt) = Pick(p, pkt.type) /\ Targeted(p, pkt) = ServerOf(p, pkt)
        /\ PoolAt(p, pkt) = PoolLess(p, pkt.type)
    BY <1>3 DEF Target, Targeted, PoolAt
  <2>2. Picked(p, pkt.type) \in Processor /\ Standing(Picked(p, pkt.type))
    BY <1>1, PickType
  <2>3. ServerOf(p, pkt) \in Processor /\ Standing(ServerOf(p, pkt))
    BY <1>1, <2>2 DEF ServerOf, Processor, Standing
  <2>4. QED
    BY <1>1, <2>1, <2>3, PickType
<1>4. QED
  BY <1>2, <1>3

(* Registering an index that is not known yet names an existing object.    *)
LEMMA LookupType ==
    ASSUME TypeOK, ObjectsOK', \A q \in Peer : Ids(q) \subseteq Ids(q)',
           NEW p \in Peer, NEW pkt \in Packet, Target(p, pkt) \in Ids(p)',
           Lookup(p, pkt)
    PROVE  MapOK'
<1>1. CASE Known(p, pkt)
  BY <1>1, Kept DEF Lookup
<1>2. CASE ~Known(p, pkt)
  <2>1. iMap' = [iMap EXCEPT ![p] = Put(iMap[p], pkt.transaction, Target(p, pkt))]
    BY <1>2 DEF Lookup
  <2>2. pkt.transaction \in Index
    BY DEF Packet
  <2>3. MapOK
    BY HoldersSplit DEF TypeOK
  <2>4. QED
    BY <2>1, <2>2, <2>3 DEF Put, MapOK
<1>3. QED
  BY <1>1, <1>2

(* The backward unit takes the packet at the head of the channel.          *)
LEMMA HeadPacket ==
    ASSUME TypeOK, NEW p \in Peer, wire[Other(p)] # <<>>
    PROVE  /\ Head(wire[Other(p)]) \in Packet
           /\ [wire EXCEPT ![Other(p)] = Tail(@)] \in [Peer -> Seq(Packet)]
<1>1. Other(p) \in Peer /\ wire \in [Peer -> Seq(Packet)]
  BY OtherPeer DEF TypeOK
<1>2. Head(wire[Other(p)]) \in Packet /\ Tail(wire[Other(p)]) \in Seq(Packet)
  BY <1>1, HeadTailProperties
<1>3. QED
  BY <1>1, <1>2

(* The backward unit handles a packet flagged as failed.                   *)
LEMMA ReceiveFailureType ==
    ASSUME TypeOK, NEW p \in Peer, ReceiveFailure(p)
    PROVE  TypeOK'
<1> DEFINE pkt == Head(wire[Other(p)])
           o == Target(p, pkt)
           rec == [Targeted(p, pkt) EXCEPT !.failed = TRUE, !.flagged = TRUE, !.resendable = FALSE]
<1>1. pkt \in Packet /\ wire' \in [Peer -> Seq(Packet)]
  BY HeadPacket DEF ReceiveFailure
<1>2. /\ Lookup(p, pkt)
      /\ pool' = PoolAt(p, pkt)
      /\ obj' = Store(p, o, rec)
      /\ log' = [log EXCEPT ![rec.index].faults = @ \cup {rec.position}]
      /\ UNCHANGED <<iBackQueue, iQueue, sending, sends>>
  BY DEF ReceiveFailure
<1> HIDE DEF pkt
<1>3. o \in 1..Len(obj[p]) + 1 /\ rec \in Processor /\ Standing(rec)
  <2>1. PICK old : old = Targeted(p, pkt)
    OBVIOUS
  <2>2. o \in 1..Len(obj[p]) + 1 /\ old \in Processor /\ Standing(old)
    BY <1>1, <2>1, TargetType
  <2>3. [old EXCEPT !.failed = TRUE, !.flagged = TRUE, !.resendable = FALSE] \in Processor
    BY <2>2 DEF Processor
  <2>4. Standing([old EXCEPT !.failed = TRUE, !.flagged = TRUE, !.resendable = FALSE])
    BY <2>2 DEF Processor, Standing
  <2>5. QED
    BY <2>1, <2>2, <2>3, <2>4
<1>4. ObjectsOK' /\ o \in Ids(p)' /\ \A q \in Peer : Ids(q) \subseteq Ids(q)'
  BY <1>2, <1>3, Stored
<1>5. MapOK'
  BY <1>1, <1>2, <1>4, LookupType
<1>6. PoolOK'
  BY <1>1, <1>2, <1>4, TargetType, PoolKept
<1>7. BackOK' /\ QueueOK' /\ SendingOK'
  BY <1>2, <1>4, Kept
<1>8. HoldersOK'
  BY <1>5, <1>6, <1>7, HoldersSplit, PTL
<1>9. LogOK'
  <2>1. LogOK /\ rec.position \in Side
    BY <1>3 DEF TypeOK, Processor
  <2> HIDE DEF rec
  <2>2. CASE rec.index \notin DOMAIN log
    BY <1>2, <2>1, <2>2 DEF LogOK
  <2>3. CASE rec.index \in DOMAIN log
    <3> DEFINE h == [log[rec.index] EXCEPT !.faults = @ \cup {rec.position}]
    <3>1. h \in History
      BY <2>1, <2>3 DEF LogOK, History
    <3>2. log' = [log EXCEPT ![rec.index] = h]
      BY <1>2
    <3> HIDE DEF h
    <3>3. QED
      BY <2>1, <2>3, <3>1, <3>2 DEF LogOK
  <2>4. QED
    BY <2>2, <2>3
<1>10. QED
  BY <1>1, <1>2, <1>4, <1>8, <1>9 DEF TypeOK

(* The backward unit runs the next steps of a line.                        *)
LEMMA ReceiveStepType ==
    ASSUME TypeOK, NEW p \in Peer, ReceiveStep(p)
    PROVE  TypeOK'
<1> DEFINE pkt == Head(wire[Other(p)])
           o == Target(p, pkt)
           rec == [Targeted(p, pkt) EXCEPT !.failed = FALSE, !.flagged = FALSE]
           line == Line[rec.type]
<1>1. pkt \in Packet /\ wire' \in [Peer -> Seq(Packet)]
  BY HeadPacket DEF ReceiveStep
<1>2. PICK r \in GoOutcomes(line, rec.step, rec.position) :
          LET moved == [rec EXCEPT !.step = r.next,
                                   !.failed = GoFails(line, r), !.flagged = GoFails(line, r),
                                   !.resendable = ~IsOver(line, r)]
          IN  /\ log' = Logged(rec.index, rec.position, r, GoFails(line, r))
              /\ IF moved.resendable
                 THEN /\ obj' = Store(p, o, moved)
                      /\ iBackQueue' = [iBackQueue EXCEPT ![p] = Append(@, o)]
                      /\ pool' = PoolAt(p, pkt)
                 ELSE /\ obj' = Store(p, o, Cleared(moved))
                      /\ pool' = Return(p, o, PoolAt(p, pkt), rec.type)
                      /\ UNCHANGED iBackQueue
  BY DEF ReceiveStep
<1>3. Lookup(p, pkt) /\ UNCHANGED <<iQueue, sending, sends>>
  BY DEF ReceiveStep
<1> DEFINE moved == [rec EXCEPT !.step = r.next,
                                !.failed = GoFails(line, r), !.flagged = GoFails(line, r),
                                !.resendable = ~IsOver(line, r)]
<1> HIDE DEF pkt
<1>4. o \in 1..Len(obj[p]) + 1 /\ rec \in Processor /\ Standing(rec) /\ rec.type \in Types
  <2>1. PICK old : old = Targeted(p, pkt)
    OBVIOUS
  <2>2. o \in 1..Len(obj[p]) + 1 /\ old \in Processor /\ Standing(old)
    BY <1>1, <2>1, TargetType
  <2>3. [old EXCEPT !.failed = FALSE, !.flagged = FALSE] \in Processor
    BY <2>2 DEF Processor
  <2>4. Standing([old EXCEPT !.failed = FALSE, !.flagged = FALSE])
    BY <2>2 DEF Processor, Standing
  <2>5. rec \in Processor /\ Standing(rec)
    BY <2>1, <2>3, <2>4
  <2>6. QED
    BY <2>2, <2>5 DEF Processor
<1>5. LogOK'
  BY <1>2, <1>4, VisitType DEF TypeOK
<1>6. moved \in Processor /\ Standing(moved)
  <2> DEFINE again == ~IsOver(line, r)
             bad == GoFails(line, r)
  <2>1. r.next \in 1..Len(line) + 1 /\ again \in BOOLEAN /\ bad \in BOOLEAN
    BY <1>2, <1>4, MovedType
  <2> HIDE DEF again, bad, rec
  <2>2. [rec EXCEPT !.step = r.next,
                    !.failed = bad, !.flagged = bad, !.resendable = again] \in Processor
        /\ Standing([rec EXCEPT !.step = r.next,
                                !.failed = bad, !.flagged = bad, !.resendable = again])
    BY <1>4, <2>1, ProcessorUpdate
  <2>3. QED
    BY <2>2 DEF again, bad
<1>7. \/ /\ obj' = Store(p, o, moved)
         /\ iBackQueue' = [iBackQueue EXCEPT ![p] = Append(@, o)]
         /\ pool' = PoolAt(p, pkt)
      \/ /\ obj' = Store(p, o, Cleared(moved))
         /\ pool' = Return(p, o, PoolAt(p, pkt), rec.type)
         /\ UNCHANGED iBackQueue
  BY <1>2
<1> HIDE DEF o, rec, line, moved
<1>8. ObjectsOK' /\ o \in Ids(p)' /\ \A q \in Peer : Ids(q) \subseteq Ids(q)'
  <2>1. CASE obj' = Store(p, o, moved)
    BY <1>4, <1>6, <2>1, Stored
  <2>2. CASE obj' = Store(p, o, Cleared(moved))
    BY <1>4, <1>6, <2>2, ClearedType, Stored
  <2>3. QED
    BY <1>7, <2>1, <2>2
<1>9. MapOK'
  BY <1>1, <1>3, <1>8, LookupType DEF o
<1>10. PoolOK'
  <2>1. DOMAIN PoolAt(p, pkt) = Peer
        /\ \A q \in Peer : PoolAt(p, pkt)[q] \in [Types -> Seq(Ids(q))]
    BY <1>1, TargetType
  <2>2. CASE pool' = PoolAt(p, pkt)
    BY <1>8, <2>1, <2>2, PoolKept
  <2>3. CASE pool' = Return(p, o, PoolAt(p, pkt), rec.type)
    BY <1>4, <1>8, <2>1, <2>3, ReturnType
  <2>4. QED
    BY <1>7, <2>2, <2>3
<1>11. BackOK'
  <2>1. CASE UNCHANGED iBackQueue
    BY <1>8, <2>1, Kept
  <2>2. CASE iBackQueue' = [iBackQueue EXCEPT ![p] = Append(@, o)]
    <3>1. BackOK
      BY HoldersSplit DEF TypeOK
    <3>2. \A q \in Peer : iBackQueue[q] \in Seq(Ids(q)')
      BY <1>8, <3>1, Kept DEF BackOK
    <3>3. Append(iBackQueue[p], o) \in Seq(Ids(p)')
      BY <1>8, <3>2
    <3>4. QED
      BY <2>2, <3>1, <3>2, <3>3 DEF BackOK
  <2>3. QED
    BY <1>7, <2>1, <2>2
<1>12. QueueOK' /\ SendingOK'
  BY <1>3, <1>8, Kept
<1>13. HoldersOK'
  BY <1>9, <1>10, <1>11, <1>12, HoldersSplit, PTL
<1>14. QED
  BY <1>1, <1>3, <1>5, <1>8, <1>13 DEF TypeOK
-----------------------------------------------------------------------------
(* Every behaviour is type correct: maps, queues and the pool only name    *)
(* processors that exist, indexes are ints, lines stand on a step.         *)
THEOREM TypeCorrect == Spec => []TypeOK
<1>1. Init => TypeOK
  BY InitType
<1>2. TypeOK /\ [Next]_vars => TypeOK'
  <2> SUFFICES ASSUME TypeOK, [Next]_vars PROVE TypeOK'
    OBVIOUS
  <2>1. ASSUME NEW p \in Peer, NEW t \in Types, SendBegin(p, t) PROVE TypeOK'
    BY <2>1, SendBeginType
  <2>2. ASSUME NEW p \in Peer, SendEnd(p) PROVE TypeOK'
    BY <2>2, SendEndType
  <2>3. ASSUME NEW p \in Peer, Resend(p) PROVE TypeOK'
    BY <2>3, ResendType
  <2>4. ASSUME NEW p \in Peer, FirstStep(p) PROVE TypeOK'
    BY <2>4, FirstStepType
  <2>5. ASSUME NEW p \in Peer, NoLine(p) PROVE TypeOK'
    BY <2>5, NoLineType
  <2>6. ASSUME NEW p \in Peer, ReceiveFailure(p) PROVE TypeOK'
    BY <2>6, ReceiveFailureType
  <2>7. ASSUME NEW p \in Peer, ReceiveStep(p) PROVE TypeOK'
    BY <2>7, ReceiveStepType
  <2>8. CASE UNCHANGED vars
    BY <2>8 DEF vars, TypeOK, ObjectsOK, HoldersOK, LogOK, Ids
  <2>9. QED
    BY <2>1, <2>2, <2>3, <2>4, <2>5, <2>6, <2>7, <2>8 DEF Next
<1>3. QED
  BY <1>1, <1>2, PTL DEF Spec
-----------------------------------------------------------------------------
(* One holder for every processor.  The proofs are about connections whose *)
(* peers started no more transactions than half the range of one of them,  *)
(* so that no index is used twice.                                         *)
Half == IntMax \div 2

Used == DOMAIN iMap["initiator"] \cup DOMAIN iMap["acceptor"]
Open(p) == IF sending[p] = NotSending THEN 0 ELSE 1
Budget ==
    /\ IsFiniteSet(Used)
    /\ Cardinality(Used) + Open("initiator") + Open("acceptor") <= sends

(* The host of a transaction knows it; its indexes grow with its map.      *)
Bounds(p) ==
    /\ \A k \in DOMAIN iMap[p] :
          /\ k \in DOMAIN iMap[Owner(k)]
          /\ Owner(k) = p => k < MinIndex(p) + Cardinality(DOMAIN iMap[p])
    /\ sending[p] # NotSending =>
          /\ Owner(sending[p].index) = p
          /\ sending[p].index <= MinIndex(p) + Cardinality(DOMAIN iMap[p])
          /\ \A j \in DOMAIN iMap[p] : Owner(j) = p => j < sending[p].index

Values(s) == {s[i] : i \in DOMAIN s}
Number == Nat \ {0}
Pools(S) == [Types -> Seq(S)]
OneLess(f, t, g) == g[t] = Tail(f[t]) /\ \A u \in Types : u # t => g[u] = f[u]
OneMore(f, t, o, g) == g[t] = Append(f[t], o) /\ \A u \in Types : u # t => g[u] = f[u]
NoTwice(s) == \A i, j \in DOMAIN s : s[i] = s[j] => i = j
Spread(f) ==
    \A t, u \in Types : \A i \in DOMAIN f[t], j \in DOMAIN f[u] :
        f[t][i] = f[u][j] => t = u /\ i = j
All(f) == UNION {Values(f[t]) : t \in Types}

(* A processor that nobody used for a transaction yet.                     *)
New(rec) == rec.step = 1 /\ rec.position = "HOST" /\ ~rec.resendable /\ ~rec.failed

(* A processor is in one place; what is idle or about to be sent is new.   *)
Place(p) ==
    /\ Idle(p) \cap Waiting(p) = {}
    /\ sending[p].proc \notin Idle(p) \cup Waiting(p)
    /\ NoTwice(Queued(p)) /\ Spread(pool[p])
    /\ sending[p] # NotSending =>
          /\ obj[p][sending[p].proc].index = sending[p].index
          /\ New(obj[p][sending[p].proc])
    /\ \A t \in Types : \A x \in Values(pool[p][t]) :
          New(obj[p][x]) /\ obj[p][x].type = t

(* The processor of transaction k waits for a packet, held by nobody.      *)
Resting(p, k) ==
    /\ k \in DOMAIN iMap[p]
    /\ obj[p][iMap[p][k]].index = k
    /\ iMap[p][k] \notin Idle(p) \cup Waiting(p) \cup {sending[p].proc}

(* A queued processor is bound to its transaction.  It is new to both      *)
(* peers, or the processor of the other peer rests.                        *)
WaitOK(p, o) ==
    /\ obj[p][o].index \in DOMAIN iMap[p] /\ iMap[p][obj[p][o].index] = o
    /\ obj[p][o].resendable => Resting(Other(p), obj[p][o].index)
    /\ ~obj[p][o].resendable =>
          /\ New(obj[p][o]) /\ Owner(obj[p][o].index) = p
          /\ obj[p][o].index \notin DOMAIN iMap[Other(p)]

(* A line on which the server has nothing to answer.                       *)
OneWay(line) == Len(line) = 1 \/ \A i \in 1..Len(line) : line[i] = "HOST"

(* The first packet of a transaction finds it unknown; at every other, both *)
(* processors rest.  A host that does not is through with its line.        *)
PacketOK(q, pkt) ==
    /\ pkt.transaction \in DOMAIN iMap[q]
    /\ pkt.transaction \in DOMAIN iMap[Other(q)] =>
          Resting(q, pkt.transaction) /\ Resting(Other(q), pkt.transaction)
    /\ pkt.transaction \notin DOMAIN iMap[Other(q)] =>
          /\ Owner(pkt.transaction) = q /\ ~pkt.failed
          /\ Resting(q, pkt.transaction) \/ OneWay(Line[pkt.type])

(* A transaction is under way once: in one packet or in one queue.         *)
OneToken ==
    /\ \A q \in Peer : \A i, j \in DOMAIN wire[q] :
          wire[q][i].transaction = wire[q][j].transaction => i = j
    /\ \A q \in Peer : \A i \in DOMAIN wire[q], j \in DOMAIN wire[Other(q)] :
          wire[q][i].transaction # wire[Other(q)][j].transaction
    /\ \A q, p \in Peer : \A i \in DOMAIN wire[q] : \A o \in Waiting(p) :
          obj[p][o].index # wire[q][i].transaction

Holding ==
    /\ Budget
    /\ \A p \in Peer : Bounds(p) /\ Place(p)
    /\ \A p \in Peer : \A o \in Waiting(p) : WaitOK(p, o)
    /\ \A q \in Peer : \A i \in DOMAIN wire[q] : PacketOK(q, wire[q][i])
    /\ OneToken

IInv == TypeOK /\ (sends <= Half => Holding)
-----------------------------------------------------------------------------
(* Sequences and pools whose elements are all different.                   *)
LEMMA TailPlaces ==
    ASSUME NEW S, NEW s \in Seq(S), s # <<>>
    PROVE  /\ Tail(s) \in Seq(S) /\ Head(s) \in S /\ Head(s) = s[1]
           /\ Len(s) \in Nat \ {0} /\ DOMAIN s = 1..Len(s)
           /\ DOMAIN Tail(s) = 1..Len(s) - 1
           /\ \A i \in 1..Len(s) - 1 : Tail(s)[i] = s[i + 1]
<1>1. /\ Tail(s) \in Seq(S) /\ Head(s) \in S
      /\ Len(s) \in Nat \ {0} /\ Len(Tail(s)) = Len(s) - 1
      /\ \A i \in 1..Len(s) - 1 : Tail(s)[i] = s[i + 1]
      /\ Head(s) = s[1]
  BY EmptySeq, LenProperties, HeadTailProperties
<1>2. DOMAIN s = 1..Len(s) /\ DOMAIN Tail(s) = 1..Len(s) - 1
  BY <1>1, LenProperties
<1>3. QED
  BY <1>1, <1>2

LEMMA TailOnce ==
    ASSUME NEW S, NEW s \in Seq(S), s # <<>>
    PROVE  /\ Tail(s) \in Seq(S) /\ Head(s) \in S /\ Head(s) \in Values(s)
           /\ Values(s) = Values(Tail(s)) \cup {Head(s)}
           /\ NoTwice(s) => NoTwice(Tail(s)) /\ Head(s) \notin Values(Tail(s))
<1>1. /\ Tail(s) \in Seq(S) /\ Head(s) \in S
      /\ Len(s) \in Nat \ {0} /\ Head(s) = s[1]
      /\ \A i \in 1..Len(s) - 1 : Tail(s)[i] = s[i + 1]
  BY TailPlaces
<1>2. DOMAIN s = 1..Len(s) /\ DOMAIN Tail(s) = 1..Len(s) - 1
  BY TailPlaces
<1>3. Head(s) \in Values(s)
  BY <1>1, <1>2 DEF Values
<1>4. Values(s) = Values(Tail(s)) \cup {Head(s)}
  <2>1. ASSUME NEW x \in Values(s) PROVE x \in Values(Tail(s)) \cup {Head(s)}
    <3>1. PICK i \in 1..Len(s) : x = s[i]
      BY <1>2, <2>1 DEF Values
    <3>2. CASE i = 1
      BY <3>1, <3>2, <1>1
    <3>3. CASE i # 1
      <4>1. i - 1 \in 1..Len(s) - 1 /\ Tail(s)[i - 1] = x
        BY <1>1, <3>1, <3>3
      <4>2. QED
        BY <4>1, <1>2 DEF Values
    <3>4. QED
      BY <3>2, <3>3
  <2>2. ASSUME NEW x \in Values(Tail(s)) PROVE x \in Values(s)
    <3>1. PICK i \in 1..Len(s) - 1 : x = Tail(s)[i]
      BY <1>2, <2>2 DEF Values
    <3>2. i + 1 \in 1..Len(s) /\ x = s[i + 1]
      BY <1>1, <3>1
    <3>3. QED
      BY <3>2, <1>2 DEF Values
  <2>3. QED
    BY <2>1, <2>2, <1>3
<1>5. ASSUME NoTwice(s) PROVE NoTwice(Tail(s)) /\ Head(s) \notin Values(Tail(s))
  <2>1. ASSUME NEW i \in 1..Len(s) - 1, NEW j \in 1..Len(s) - 1, Tail(s)[i] = Tail(s)[j]
        PROVE  i = j
    <3>1. i + 1 \in 1..Len(s) /\ j + 1 \in 1..Len(s) /\ s[i + 1] = s[j + 1]
      BY <1>1, <2>1
    <3>2. i + 1 = j + 1
      BY <3>1, <1>2, <1>5 DEF NoTwice
    <3>3. QED
      BY <3>2
  <2>2. ASSUME NEW i \in 1..Len(s) - 1, Tail(s)[i] = Head(s)
        PROVE  FALSE
    <3>1. i + 1 \in 1..Len(s) /\ 1 \in 1..Len(s) /\ s[i + 1] = s[1]
      BY <1>1, <2>2
    <3>2. i + 1 = 1
      BY <3>1, <1>2, <1>5 DEF NoTwice
    <3>3. QED
      BY <3>2
  <2>3. QED
    BY <2>1, <2>2, <1>2 DEF NoTwice, Values
<1>6. QED
  BY <1>1, <1>3, <1>4, <1>5

LEMMA AppendOnce ==
    ASSUME NEW S, NEW s \in Seq(S), NEW e \in S
    PROVE  /\ Append(s, e) \in Seq(S)
           /\ Values(Append(s, e)) = Values(s) \cup {e}
           /\ NoTwice(s) /\ e \notin Values(s) => NoTwice(Append(s, e))
<1>1. /\ Append(s, e) \in Seq(S) /\ Len(s) \in Nat
      /\ DOMAIN s = 1..Len(s) /\ DOMAIN Append(s, e) = 1..Len(s) + 1
      /\ \A i \in 1..Len(s) : Append(s, e)[i] = s[i]
      /\ Append(s, e)[Len(s) + 1] = e
  BY AppendProperties, LenProperties
<1>2. Values(Append(s, e)) = Values(s) \cup {e}
  BY <1>1 DEF Values
<1>3. NoTwice(s) /\ e \notin Values(s) => NoTwice(Append(s, e))
  BY <1>1 DEF Values, NoTwice
<1>4. QED
  BY <1>1, <1>2, <1>3

(* A sequence without duplicates has as many elements as places.           *)
LEMMA CountOnce ==
    ASSUME NEW S, NEW s \in Seq(S), NoTwice(s)
    PROVE  Cardinality(Values(s)) = Len(s)
<1>1. Len(s) \in Nat /\ DOMAIN s = 1..Len(s)
  BY LenProperties
<1> DEFINE f == [i \in 1..Len(s) |-> s[i]]
<1>2. f \in Bijection(1..Len(s), Values(s))
  BY <1>1 DEF NoTwice, Values, Bijection, Injection, Surjection, IsInjective
<1>3. IsFiniteSet(1..Len(s)) /\ Cardinality(1..Len(s)) = Len(s)
  BY <1>1, FS_Interval
<1>4. QED
  BY <1>2, <1>3, FS_Bijection DEF ExistsBijection

LEMMA TakeFirst ==
    ASSUME NEW S, NEW f \in Pools(S), NEW t \in Types, f[t] # <<>>,
           Spread(f), NEW g, OneLess(f, t, g)
    PROVE  /\ Spread(g) /\ All(g) \subseteq All(f)
           /\ \A u \in Types : Values(g[u]) \subseteq Values(f[u])
           /\ Head(f[t]) \notin All(g) /\ Head(f[t]) \in Values(f[t])
           /\ \A x \in All(f) : x \in All(g) \/ x = Head(f[t])
<1>1. f[t] \in Seq(S) /\ g[t] = Tail(f[t]) /\ \A u \in Types : u # t => g[u] = f[u]
  BY DEF Pools, OneLess
<1>2. NoTwice(f[t])
  BY DEF Spread, NoTwice
<1>3. /\ Values(f[t]) = Values(g[t]) \cup {Head(f[t])} /\ Head(f[t]) \in Values(f[t])
      /\ NoTwice(g[t]) /\ Head(f[t]) \notin Values(g[t])
  BY <1>1, <1>2, TailOnce
<1>4. \A u \in Types : Values(g[u]) \subseteq Values(f[u])
  BY <1>1, <1>3
<1>5. \A u, v \in Types : u # v => Values(f[u]) \cap Values(f[v]) = {}
  BY DEF Spread, Values
<1>6. Spread(g)
  <2> SUFFICES ASSUME NEW u \in Types, NEW v \in Types, NEW i \in DOMAIN g[u],
                      NEW j \in DOMAIN g[v], g[u][i] = g[v][j]
               PROVE  u = v /\ i = j
    BY DEF Spread
  <2>1. g[u][i] \in Values(f[u]) /\ g[v][j] \in Values(f[v])
    BY <1>4 DEF Values
  <2>2. u = v
    BY <2>1, <1>5
  <2>3. NoTwice(g[u])
    <3>1. u # t => g[u] = f[u]
      BY <1>1
    <3>2. NoTwice(f[u])
      BY DEF Spread, NoTwice
    <3>3. QED
      BY <1>3, <3>1, <3>2
  <2>4. QED
    BY <2>2, <2>3 DEF NoTwice
<1>7. Head(f[t]) \notin All(g)
  <2> SUFFICES ASSUME NEW u \in Types, Head(f[t]) \in Values(g[u]) PROVE FALSE
    BY DEF All
  <2>1. u # t
    BY <1>3
  <2>2. QED
    BY <2>1, <1>3, <1>4, <1>5
<1>8. \A x \in All(f) : x \in All(g) \/ x = Head(f[t])
  <2> SUFFICES ASSUME NEW u \in Types, NEW x \in Values(f[u])
               PROVE  x \in All(g) \/ x = Head(f[t])
    BY DEF All
  <2>1. x \in Values(g[u]) \/ x = Head(f[t])
    BY <1>1, <1>3
  <2>2. QED
    BY <2>1 DEF All
<1>9. All(g) \subseteq All(f)
  BY <1>4 DEF All
<1>10. QED
  BY <1>3, <1>4, <1>6, <1>7, <1>8, <1>9

LEMMA PutLast ==
    ASSUME NEW S, NEW f \in Pools(S), NEW t \in Types, NEW o \in S,
           Spread(f), o \notin All(f), NEW g, OneMore(f, t, o, g)
    PROVE  /\ Spread(g) /\ All(g) = All(f) \cup {o}
           /\ Values(g[t]) = Values(f[t]) \cup {o}
           /\ \A u \in Types : u # t => Values(g[u]) = Values(f[u])
<1>1. f[t] \in Seq(S) /\ g[t] = Append(f[t], o) /\ \A u \in Types : u # t => g[u] = f[u]
  BY DEF Pools, OneMore
<1>2. NoTwice(f[t]) /\ o \notin Values(f[t])
  BY DEF Spread, NoTwice, All
<1>3. Values(g[t]) = Values(f[t]) \cup {o} /\ NoTwice(g[t])
  BY <1>1, <1>2, AppendOnce
<1>4. \A u \in Types : u # t => Values(g[u]) = Values(f[u])
  BY <1>1
<1>5. \A u, v \in Types : u # v => Values(f[u]) \cap Values(f[v]) = {}
  BY DEF Spread, Values
<1>6. \A u, v \in Types : u # v => Values(g[u]) \cap Values(g[v]) = {}
  <2>1. \A u \in Types : o \notin Values(f[u])
    BY DEF All
  <2>2. QED
    BY <1>3, <1>4, <1>5, <2>1
<1>7. Spread(g)
  <2> SUFFICES ASSUME NEW u \in Types, NEW v \in Types, NEW i \in DOMAIN g[u],
                      NEW j \in DOMAIN g[v], g[u][i] = g[v][j]
               PROVE  u = v /\ i = j
    BY DEF Spread
  <2>1. g[u][i] \in Values(g[u]) /\ g[v][j] \in Values(g[v])
    BY DEF Values
  <2>2. u = v
    BY <2>1, <1>6
  <2>3. NoTwice(g[u])
    <3>1. u # t => g[u] = f[u]
      BY <1>1
    <3>2. NoTwice(f[u])
      BY DEF Spread, NoTwice
    <3>3. QED
      BY <1>3, <3>1, <3>2
  <2>4. QED
    BY <2>2, <2>3 DEF NoTwice
<1>8. All(g) = All(f) \cup {o}
  BY <1>3, <1>4 DEF All
<1>9. QED
  BY <1>3, <1>4, <1>7, <1>8
-----------------------------------------------------------------------------
(* What a step of peer p leaves alone: it handles processor o, which is    *)
(* free or serves transaction k0, the only one that may join its map.      *)
LEMMA Peers ==
    /\ \A p \in Peer : Other(p) \in Peer /\ Other(p) # p /\ Other(Other(p)) = p
    /\ \A p, q \in Peer : q # p => q = Other(p)
    /\ \A k : Owner(k) \in Peer
BY DEF Other, Owner

HIDE DEF Peer, Side

Elsewhere(p) ==
    \A q \in Peer : q # p =>
        /\ iMap'[q] = iMap[q] /\ obj'[q] = obj[q] /\ pool'[q] = pool[q]
        /\ iQueue'[q] = iQueue[q] /\ iBackQueue'[q] = iBackQueue[q]
        /\ sending'[q] = sending[q]

StepOf(p, o, k0) ==
    /\ Elsewhere(p)
    /\ \A x \in Ids(p) : x # o => obj'[p][x] = obj[p][x]
    /\ \A x \in Idle(p)' : x # o => x \in Idle(p)
    /\ \A x \in Waiting(p)' : x # o => x \in Waiting(p)
    /\ sending'[p].proc \in {sending[p].proc, o, 0}
    /\ \A k \in DOMAIN iMap[p] : iMap'[p][k] = iMap[p][k]
    /\ DOMAIN iMap[p] \subseteq DOMAIN iMap'[p]
    /\ DOMAIN iMap'[p] \subseteq DOMAIN iMap[p] \cup {k0}
    /\ \/ o \in Idle(p) \cup {sending[p].proc}
       \/ o \notin Ids(p)
       \/ obj[p][o].index = k0

(* The peer that makes no step keeps what it has.                          *)
LEMMA OtherKept ==
    ASSUME NEW p \in Peer, Elsewhere(p), NEW q \in Peer, q # p
    PROVE  /\ Idle(q)' = Idle(q) /\ Waiting(q)' = Waiting(q) /\ Ids(q)' = Ids(q)
           /\ obj'[q] = obj[q] /\ iMap'[q] = iMap[q] /\ sending'[q] = sending[q]
           /\ Place(q) => Place(q)'
<1>1. /\ obj'[q] = obj[q] /\ iMap'[q] = iMap[q] /\ sending'[q] = sending[q]
      /\ pool'[q] = pool[q] /\ iQueue'[q] = iQueue[q] /\ iBackQueue'[q] = iBackQueue[q]
  BY DEF Elsewhere
<1>2. Queued(q)' = Queued(q) /\ Ids(q)' = Ids(q)
  BY <1>1 DEF Queued, Ids
<1>3. Idle(q)' = Idle(q) /\ Waiting(q)' = Waiting(q)
  BY <1>1, <1>2 DEF Idle, Waiting
<1>4. Place(q) => Place(q)'
  BY <1>1, <1>2, <1>3 DEF Place
<1>5. QED
  BY <1>1, <1>2, <1>3, <1>4

(* What holders name are processors that exist.                            *)
LEMMA HeldExist ==
    ASSUME TypeOK, NEW p \in Peer
    PROVE  /\ Idle(p) \subseteq Ids(p) /\ Waiting(p) \subseteq Ids(p) /\ 0 \notin Ids(p)
           /\ \A k \in DOMAIN iMap[p] : iMap[p][k] \in Ids(p)
           /\ sending[p] # NotSending => sending[p].proc \in Ids(p)
           /\ sending[p] = NotSending => sending[p].proc = 0
           /\ Queued(p) \in Seq(Ids(p)) /\ Waiting(p) = Values(Queued(p))
           /\ pool[p] \in [Types -> Seq(Ids(p))] /\ Idle(p) = All(pool[p])
           /\ Len(obj[p]) + 1 \notin Ids(p)
<1>1. /\ iQueue[p] \in Seq(Ids(p)) /\ iBackQueue[p] \in Seq(Ids(p))
      /\ pool[p] \in [Types -> Seq(Ids(p))]
      /\ iMap[p] \in [DOMAIN iMap[p] -> Ids(p)]
      /\ sending[p] = NotSending \/ sending[p] \in [proc : Ids(p), index : Index]
  BY DEF TypeOK, HoldersOK
<1>2. Queued(p) \in Seq(Ids(p))
  BY <1>1, ConcatProperties DEF Queued
<1>3. Waiting(p) = Values(Queued(p)) /\ Idle(p) = All(pool[p])
  BY DEF Waiting, Values, Idle, All
<1>4. \A s \in Seq(Ids(p)) : Values(s) \subseteq Ids(p)
  <2> SUFFICES ASSUME NEW s \in Seq(Ids(p)), NEW i \in DOMAIN s PROVE s[i] \in Ids(p)
    BY DEF Values
  <2>1. DOMAIN s = 1..Len(s)
    BY LenProperties
  <2>2. QED
    BY <2>1, ElementOfSeq
<1>5. Waiting(p) \subseteq Ids(p)
  BY <1>2, <1>3, <1>4
<1>6. Idle(p) \subseteq Ids(p)
  <2> SUFFICES ASSUME NEW t \in Types, NEW x \in Values(pool[p][t]) PROVE x \in Ids(p)
    BY <1>3 DEF All
  <2>1. pool[p][t] \in Seq(Ids(p))
    BY <1>1
  <2>2. QED
    BY <2>1, <1>4
<1>7. sending[p] = NotSending => sending[p].proc = 0
  BY DEF NotSending
<1>8. 0 \notin Ids(p) /\ Len(obj[p]) + 1 \notin Ids(p)
  <2>1. Len(obj[p]) \in Nat
    BY DEF TypeOK, ObjectsOK
  <2>2. QED
    BY <2>1 DEF Ids
<1>9. /\ \A k \in DOMAIN iMap[p] : iMap[p][k] \in Ids(p)
      /\ sending[p] # NotSending => sending[p].proc \in Ids(p)
  BY <1>1
<1>10. QED
  BY <1>1, <1>2, <1>3, <1>5, <1>6, <1>7, <1>8, <1>9

(* Who rests goes on resting while another transaction moves.              *)
LEMMA StillResting ==
    ASSUME TypeOK, NEW p \in Peer, NEW o, NEW k0, StepOf(p, o, k0),
           NEW q \in Peer, NEW k, Resting(q, k), q = p => k # k0
    PROVE  Resting(q, k)'
<1>1. CASE q # p
  BY <1>1, OtherKept DEF StepOf, Resting
<1>2. CASE q = p
  <2>1. PICK x \in Ids(p) : x = iMap[p][k]
    BY <1>2, HeldExist DEF Resting
  <2>2. x # o /\ x # 0
    BY <1>2, <2>1, HeldExist DEF Resting, StepOf
  <2>3. k \in DOMAIN iMap'[p] /\ iMap'[p][k] = x /\ obj'[p][x].index = k
    BY <1>2, <2>1, <2>2 DEF StepOf, Resting
  <2>4. x \notin Idle(p)' \cup Waiting(p)' \cup {sending'[p].proc}
    BY <1>2, <2>1, <2>2 DEF StepOf, Resting
  <2>5. QED
    BY <1>2, <2>3, <2>4 DEF Resting
<1>3. QED
  BY <1>1, <1>2

(* Two queued processors never serve the same transaction.                 *)
LEMMA OneWait ==
    ASSUME Holding, NEW q \in Peer, NEW r \in Peer, NEW x \in Waiting(q),
           NEW y \in Waiting(r), obj[q][x].index = obj[r][y].index
    PROVE  q = r /\ x = y
<1>1. WaitOK(q, x) /\ WaitOK(r, y)
  BY DEF Holding
<1>2. CASE q = r
  BY <1>1, <1>2 DEF WaitOK
<1>3. CASE q # r
  <2>1. r = Other(q) /\ q = Other(r)
    BY <1>3, Peers
  <2>2. CASE obj[q][x].resendable
    BY <1>1, <2>1, <2>2 DEF WaitOK, Resting
  <2>3. CASE ~obj[q][x].resendable
    BY <1>1, <2>1, <2>3 DEF WaitOK
  <2>4. QED
    BY <2>2, <2>3
<1>4. QED
  BY <1>2, <1>3

(* A queued processor of another transaction keeps what is said of it.     *)
LEMMA StillWaits ==
    ASSUME TypeOK, Holding, NEW p \in Peer, NEW o, NEW k0, StepOf(p, o, k0),
           NEW q \in Peer, NEW x \in Waiting(q)', q = p => x # o, obj[q][x].index # k0
    PROVE  x \in Waiting(q) /\ obj'[q][x] = obj[q][x] /\ WaitOK(q, x)'
<1>1. x \in Waiting(q) /\ x \in Ids(q) /\ obj'[q][x] = obj[q][x]
  <2>1. CASE q # p
    BY <2>1, OtherKept, HeldExist DEF StepOf
  <2>2. CASE q = p
    BY <2>2, HeldExist DEF StepOf
  <2>3. QED
    BY <2>1, <2>2
<1>2. PICK k : k = obj[q][x].index
  OBVIOUS
<1>3. WaitOK(q, x)
  BY <1>1 DEF Holding
<1>4. \A r \in Peer : /\ k \in DOMAIN iMap[r] => k \in DOMAIN iMap'[r] /\ iMap'[r][k] = iMap[r][k]
                      /\ k \notin DOMAIN iMap[r] => k \notin DOMAIN iMap'[r]
  <2> SUFFICES ASSUME NEW r \in Peer
               PROVE  /\ k \in DOMAIN iMap[r] => k \in DOMAIN iMap'[r] /\ iMap'[r][k] = iMap[r][k]
                      /\ k \notin DOMAIN iMap[r] => k \notin DOMAIN iMap'[r]
    OBVIOUS
  <2>1. CASE r # p
    BY <2>1, OtherKept DEF StepOf
  <2>2. CASE r = p
    BY <2>2, <1>2 DEF StepOf
  <2>3. QED
    BY <2>1, <2>2
<1>5. Other(q) \in Peer
  BY Peers
<1>6. obj[q][x].resendable => Resting(Other(q), k)'
  <2>1. obj[q][x].resendable => Resting(Other(q), k)
    BY <1>2, <1>3 DEF WaitOK
  <2>2. QED
    BY <2>1, <1>2, <1>5, StillResting
<1>7. QED
  BY <1>1, <1>2, <1>3, <1>4, <1>5, <1>6 DEF WaitOK

(* So does a packet of another transaction.                                *)
LEMMA StillPacket ==
    ASSUME TypeOK, NEW p \in Peer, NEW o, NEW k0, StepOf(p, o, k0),
           NEW q \in Peer, NEW pkt, PacketOK(q, pkt), pkt.transaction # k0
    PROVE  PacketOK(q, pkt)'
<1>1. PICK k : k = pkt.transaction
  OBVIOUS
<1>2. Other(q) \in Peer
  BY Peers
<1>3. \A r \in Peer : /\ k \in DOMAIN iMap[r] => k \in DOMAIN iMap'[r]
                      /\ k \notin DOMAIN iMap[r] => k \notin DOMAIN iMap'[r]
  <2> SUFFICES ASSUME NEW r \in Peer
               PROVE  /\ k \in DOMAIN iMap[r] => k \in DOMAIN iMap'[r]
                      /\ k \notin DOMAIN iMap[r] => k \notin DOMAIN iMap'[r]
    OBVIOUS
  <2>1. CASE r # p
    BY <2>1, OtherKept DEF StepOf
  <2>2. CASE r = p
    BY <2>2, <1>1 DEF StepOf
  <2>3. QED
    BY <2>1, <2>2
<1>4. \A r \in Peer : Resting(r, k) => Resting(r, k)'
  BY <1>1, StillResting
<1>5. QED
  BY <1>1, <1>2, <1>3, <1>4 DEF PacketOK

(* What is left to show of a step: its own processor, transaction, packet. *)
Stepped(p, o, k0) ==
    /\ StepOf(p, o, k0)
    /\ Budget' /\ Place(p)' /\ OneToken'
    /\ \A q \in Peer : Bounds(q)'
    /\ \A q \in Peer : \A x \in Waiting(q)' : (q = p => x # o) => obj[q][x].index # k0
    /\ o \in Waiting(p)' => WaitOK(p, o)'
    /\ \A q \in Peer : \A i \in DOMAIN wire'[q] :
          \/ /\ \E j \in DOMAIN wire[q] : wire[q][j] = wire'[q][i]
             /\ wire'[q][i].transaction # k0
          \/ PacketOK(q, wire[q][i])'

LEMMA HoldingStep ==
    ASSUME TypeOK, Holding, NEW p \in Peer, NEW o, NEW k0, Stepped(p, o, k0)
    PROVE  Holding'
<1>1. \A q \in Peer : Place(q)'
  BY OtherKept DEF Holding, StepOf, Stepped
<1>2. \A q \in Peer : \A x \in Waiting(q)' : WaitOK(q, x)'
  <2> SUFFICES ASSUME NEW q \in Peer, NEW x \in Waiting(q)' PROVE WaitOK(q, x)'
    OBVIOUS
  <2>1. CASE q = p /\ x = o
    BY <2>1 DEF Stepped
  <2>2. CASE q = p => x # o
    <3>1. obj[q][x].index # k0 /\ StepOf(p, o, k0)
      BY <2>2 DEF Stepped
    <3>2. QED
      BY <2>2, <3>1, StillWaits
  <2>3. QED
    BY <2>1, <2>2
<1>3. \A q \in Peer : \A i \in DOMAIN wire'[q] : PacketOK(q, wire[q][i])'
  <2> SUFFICES ASSUME NEW q \in Peer, NEW i \in DOMAIN wire'[q],
                      NEW j \in DOMAIN wire[q], wire[q][j] = wire'[q][i],
                      wire'[q][i].transaction # k0
               PROVE  PacketOK(q, wire[q][i])'
    BY DEF Stepped
  <2>1. PICK pkt : pkt = wire[q][j]
    OBVIOUS
  <2>2. PacketOK(q, pkt)
    BY <2>1 DEF Holding
  <2>3. PacketOK(q, pkt)'
    BY <2>1, <2>2, StillPacket DEF Stepped
  <2>4. QED
    BY <2>1, <2>3 DEF PacketOK
<1>4. QED
  BY <1>1, <1>2, <1>3 DEF Holding, Stepped
-----------------------------------------------------------------------------
(* Where the tokens are: a packet is taken, a packet is sent, or none is.  *)
Takes(q, k0) ==
    /\ wire[q] # <<>> /\ k0 = Head(wire[q]).transaction
    /\ wire' = [wire EXCEPT ![q] = Tail(@)]

LEMMA TokenTaken ==
    ASSUME TypeOK, OneToken, NEW q \in Peer, NEW k0, Takes(q, k0),
           \A r \in Peer : \A x \in Waiting(r)' :
              \/ x \in Waiting(r) /\ obj'[r][x].index = obj[r][x].index
              \/ obj'[r][x].index = k0
    PROVE  /\ OneToken'
           /\ \A r \in Peer : \A i \in DOMAIN wire'[r] :
                 /\ \E j \in DOMAIN wire[r] : wire[r][j] = wire'[r][i]
                 /\ wire'[r][i].transaction # k0
<1>1. \A r \in Peer : wire[r] \in Seq(Packet)
  BY DEF TypeOK
<1>2. /\ DOMAIN wire[q] = 1..Len(wire[q]) /\ Len(wire[q]) \in Nat \ {0}
      /\ DOMAIN wire'[q] = 1..Len(wire[q]) - 1
      /\ \A i \in 1..Len(wire[q]) - 1 : wire'[q][i] = wire[q][i + 1]
      /\ k0 = wire[q][1].transaction
  <2>1. wire'[q] = Tail(wire[q]) /\ wire[q] # <<>> /\ k0 = Head(wire[q]).transaction
    BY DEF TypeOK, Takes
  <2>2. QED
    BY <1>1, <2>1, TailPlaces
<1>3. \A r \in Peer : r # q => wire'[r] = wire[r]
  BY DEF TypeOK, Takes
<1> DEFINE at(r, i) == IF r = q THEN i + 1 ELSE i
<1>4. ASSUME NEW r \in Peer, NEW i \in DOMAIN wire'[r]
      PROVE  /\ at(r, i) \in DOMAIN wire[r] /\ wire[r][at(r, i)] = wire'[r][i]
             /\ wire'[r][i].transaction # k0
  <2>1. CASE r = q
    <3>1. i + 1 \in DOMAIN wire[q] /\ i + 1 # 1 /\ 1 \in DOMAIN wire[q] /\ i \in 1..Len(wire[q]) - 1
      BY <1>2, <1>4, <2>1
    <3>2. wire[q][i + 1].transaction # wire[q][1].transaction
      BY <3>1 DEF OneToken
    <3>3. QED
      BY <1>2, <2>1, <3>1, <3>2
  <2>2. CASE r # q
    <3>1. r = Other(q) /\ 1 \in DOMAIN wire[q] /\ wire'[r] = wire[r]
      BY <1>2, <1>3, <2>2, Peers
    <3>2. wire[q][1].transaction # wire[r][i].transaction
      BY <1>4, <3>1 DEF OneToken
    <3>3. QED
      BY <1>2, <1>4, <2>2, <3>1, <3>2
  <2>3. QED
    BY <2>1, <2>2
<1>5. ASSUME NEW r \in Peer, NEW i \in DOMAIN wire'[r], NEW j \in DOMAIN wire'[r],
             wire'[r][i].transaction = wire'[r][j].transaction
      PROVE  i = j
  <2>1. at(r, i) = at(r, j)
    BY <1>4, <1>5 DEF OneToken
  <2>2. CASE r = q
    <3>1. i \in Nat /\ j \in Nat
      BY <1>2, <2>2
    <3>2. QED
      BY <2>1, <2>2, <3>1
  <2>3. QED
    BY <2>1, <2>2
<1>6. ASSUME NEW r \in Peer, NEW i \in DOMAIN wire'[r], NEW j \in DOMAIN wire'[Other(r)]
      PROVE  wire'[r][i].transaction # wire'[Other(r)][j].transaction
  <2>1. Other(r) \in Peer
    BY Peers
  <2>2. QED
    BY <1>4, <2>1 DEF OneToken
<1>7. ASSUME NEW r \in Peer, NEW p \in Peer, NEW i \in DOMAIN wire'[r], NEW x \in Waiting(p)'
      PROVE  obj'[p][x].index # wire'[r][i].transaction
  <2>1. CASE obj'[p][x].index = k0
    BY <1>4, <2>1
  <2>2. CASE x \in Waiting(p) /\ obj'[p][x].index = obj[p][x].index
    BY <1>4, <2>2 DEF OneToken
  <2>3. QED
    BY <2>1, <2>2
<1>8. QED
  BY <1>4, <1>5, <1>6, <1>7 DEF OneToken

LEMMA TokenSent ==
    ASSUME TypeOK, OneToken, NEW p \in Peer, NEW rec \in Processor, Transmit(p, rec),
           NEW k0, k0 = rec.index,
           \A q \in Peer : \A i \in DOMAIN wire[q] : wire[q][i].transaction # k0,
           \A r \in Peer : \A x \in Waiting(r)' :
              x \in Waiting(r) /\ obj'[r][x].index = obj[r][x].index /\ obj[r][x].index # k0
    PROVE  /\ OneToken'
           /\ \A r \in Peer : \A i \in DOMAIN wire'[r] :
                 \/ /\ \E j \in DOMAIN wire[r] : wire[r][j] = wire'[r][i]
                    /\ wire'[r][i].transaction # k0
                 \/ r = p /\ wire'[r][i] = PacketOf(rec)
<1>1. \A r \in Peer : wire[r] \in Seq(Packet)
  BY DEF TypeOK
<1>2. PacketOf(rec) \in Packet /\ PacketOf(rec).transaction = k0
  BY DEF PacketOf, Packet, Processor
<1>3. /\ DOMAIN wire[p] = 1..Len(wire[p]) /\ Len(wire[p]) \in Nat
      /\ DOMAIN wire'[p] = 1..Len(wire[p]) + 1
      /\ \A i \in 1..Len(wire[p]) : wire'[p][i] = wire[p][i]
      /\ wire'[p][Len(wire[p]) + 1] = PacketOf(rec)
  <2>1. wire'[p] = Append(wire[p], PacketOf(rec))
    BY DEF TypeOK, Transmit
  <2>2. QED
    BY <1>1, <1>2, <2>1, LenProperties, AppendProperties
<1>4. \A r \in Peer : r # p => wire'[r] = wire[r]
  BY DEF TypeOK, Transmit
<1>5. ASSUME NEW r \in Peer, NEW i \in DOMAIN wire'[r]
      PROVE  \/ i \in DOMAIN wire[r] /\ wire[r][i] = wire'[r][i] /\ wire'[r][i].transaction # k0
             \/ /\ r = p /\ i = Len(wire[p]) + 1
                /\ wire'[r][i] = PacketOf(rec) /\ wire'[r][i].transaction = k0
  <2>1. CASE r = p
    <3>1. i \in 1..Len(wire[p]) \/ i = Len(wire[p]) + 1
      BY <1>3, <1>5, <2>1
    <3>2. QED
      BY <1>2, <1>3, <2>1, <3>1
  <2>2. CASE r # p
    BY <1>4, <1>5, <2>2
  <2>3. QED
    BY <2>1, <2>2
<1>6. ASSUME NEW r \in Peer, NEW i \in DOMAIN wire'[r], NEW j \in DOMAIN wire'[r],
             wire'[r][i].transaction = wire'[r][j].transaction
      PROVE  i = j
  BY <1>5, <1>6 DEF OneToken
<1>7. ASSUME NEW r \in Peer, NEW i \in DOMAIN wire'[r], NEW j \in DOMAIN wire'[Other(r)]
      PROVE  wire'[r][i].transaction # wire'[Other(r)][j].transaction
  <2>1. Other(r) \in Peer /\ Other(r) # r
    BY Peers
  <2>2. QED
    BY <1>5, <2>1 DEF OneToken
<1>8. ASSUME NEW r \in Peer, NEW q \in Peer, NEW i \in DOMAIN wire'[r], NEW x \in Waiting(q)'
      PROVE  obj'[q][x].index # wire'[r][i].transaction
  BY <1>5 DEF OneToken
<1>9. QED
  BY <1>5, <1>6, <1>7, <1>8 DEF OneToken

LEMMA TokenKept ==
    ASSUME OneToken, UNCHANGED wire,
           \A r \in Peer : \A x \in Waiting(r)' :
              \/ x \in Waiting(r) /\ obj'[r][x].index = obj[r][x].index
              \/ \A q \in Peer : \A i \in DOMAIN wire[q] :
                    wire[q][i].transaction # obj'[r][x].index
    PROVE  OneToken'
<1>1. ASSUME NEW r \in Peer, NEW q \in Peer, NEW i \in DOMAIN wire[r], NEW x \in Waiting(q)'
      PROVE  obj'[q][x].index # wire[r][i].transaction
  BY DEF OneToken
<1>2. QED
  BY <1>1 DEF OneToken
-----------------------------------------------------------------------------
(* What the parts of a step do to the places of the processors of peer p.  *)

(* A stored processor is the only one that changes.                        *)
LEMMA StoreAt ==
    ASSUME TypeOK, NEW p \in Peer, NEW o \in 1..Len(obj[p]) + 1, NEW rec \in Processor,
           obj' = Store(p, o, rec)
    PROVE  /\ obj'[p][o] = rec
           /\ \A x \in Ids(p) : x # o => obj'[p][x] = obj[p][x]
           /\ \A q \in Peer : q # p => obj'[q] = obj[q]
<1>1. obj \in [Peer -> Seq(Processor)] /\ obj[p] \in Seq(Processor) /\ Len(obj[p]) \in Nat
  BY DEF TypeOK, ObjectsOK
<1>2. CASE o <= Len(obj[p])
  <2>1. obj' = [obj EXCEPT ![p][o] = rec] /\ DOMAIN obj[p] = 1..Len(obj[p])
    BY <1>1, <1>2, LenProperties DEF Store
  <2>2. QED
    BY <1>1, <1>2, <2>1 DEF Ids
<1>3. CASE ~(o <= Len(obj[p]))
  <2>1. obj' = [obj EXCEPT ![p] = Append(obj[p], rec)] /\ o = Len(obj[p]) + 1
    BY <1>1, <1>3 DEF Store
  <2>2. QED
    BY <1>1, <2>1, AppendProperties DEF Ids
<1>4. QED
  BY <1>2, <1>3

(* The forward unit takes the processor that waited longest.               *)
LEMMA Popped ==
    ASSUME TypeOK, NEW p \in Peer, Queued(p) # <<>>, PopActual(p)
    PROVE  /\ Head(Queued(p)) \in Waiting(p) /\ Queued(p)' = Tail(Queued(p))
           /\ Waiting(p) = Waiting(p)' \cup {Head(Queued(p))}
           /\ NoTwice(Queued(p)) => NoTwice(Queued(p))' /\ Head(Queued(p)) \notin Waiting(p)'
           /\ \A q \in Peer : q # p => iQueue'[q] = iQueue[q] /\ iBackQueue'[q] = iBackQueue[q]
<1>1. Queued(p) \in Seq(Ids(p)) /\ Waiting(p) = Values(Queued(p))
  BY HeldExist
<1>2. /\ iQueue'[p] = Tail(Queued(p)) /\ iBackQueue'[p] = <<>>
      /\ \A q \in Peer : q # p => iQueue'[q] = iQueue[q] /\ iBackQueue'[q] = iBackQueue[q]
  BY DEF PopActual, TypeOK, HoldersOK
<1>3. Queued(p)' = Tail(Queued(p))
  <2>1. Tail(Queued(p)) \in Seq(Ids(p))
    BY <1>1, TailOnce
  <2>2. QED
    BY <1>2, <2>1, ConcatEmptySeq DEF Queued
<1>4. Waiting(p)' = Values(Tail(Queued(p)))
  BY <1>3 DEF Waiting, Values
<1>5. NoTwice(Queued(p))' <=> NoTwice(Tail(Queued(p)))
  BY <1>3 DEF NoTwice
<1>6. QED
  BY <1>1, <1>2, <1>3, <1>4, <1>5, TailOnce

(* What is appended to the second queue is appended to both together.      *)
Joined(a, b, o) == a \o Append(b, o) = Append(a \o b, o)

LEMMA AppendConcat ==
    ASSUME NEW S, NEW a \in Seq(S), NEW b \in Seq(S), NEW o \in S
    PROVE  Joined(a, b, o)
<1>1. <<o>> \in Seq(S)
  OBVIOUS
<1>2. PICK c : c = <<o>>
  OBVIOUS
<1>3. a \o b \in Seq(S)
  BY ConcatProperties
<1>4. c \in Seq(S)
  BY <1>1, <1>2
<1>5. (a \o b) \o c = a \o (b \o c)
  BY <1>4, ConcatAssociative
<1>6. Append(b, o) = b \o c
  BY <1>2, AppendIsConcat
<1>7. Append(a \o b, o) = (a \o b) \o c
  BY <1>2, <1>3, AppendIsConcat
<1>8. QED
  BY <1>5, <1>6, <1>7 DEF Joined

(* The application or the backward unit queues a processor.                *)
Pushes(p, o) ==
    iBackQueue' = [iBackQueue EXCEPT ![p] = Append(@, o)] /\ UNCHANGED iQueue

LEMMA Pushed ==
    ASSUME TypeOK, NEW p \in Peer, NEW S, Ids(p) \subseteq S, NEW o \in S, Pushes(p, o)
    PROVE  /\ Waiting(p)' = Waiting(p) \cup {o} /\ Queued(p)' = Append(Queued(p), o)
           /\ NoTwice(Queued(p)) /\ o \notin Waiting(p) => NoTwice(Queued(p))'
           /\ \A q \in Peer : q # p => iQueue'[q] = iQueue[q] /\ iBackQueue'[q] = iBackQueue[q]
<1>1. /\ iQueue[p] \in Seq(Ids(p)) /\ iBackQueue[p] \in Seq(Ids(p))
      /\ DOMAIN iBackQueue = Peer
  BY DEF TypeOK, HoldersOK
<1>2. iQueue[p] \in Seq(S) /\ iBackQueue[p] \in Seq(S)
  BY <1>1, SeqMonotonic
<1>3. /\ iQueue'[p] = iQueue[p] /\ iBackQueue'[p] = Append(iBackQueue[p], o)
      /\ \A q \in Peer : q # p => iQueue'[q] = iQueue[q] /\ iBackQueue'[q] = iBackQueue[q]
  BY <1>1 DEF Pushes
<1>4. Queued(p) \in Seq(S) /\ Waiting(p) = Values(Queued(p))
  BY <1>2, ConcatProperties DEF Queued, Waiting, Values
<1>5. Queued(p)' = Append(Queued(p), o)
  <2>1. Joined(iQueue[p], iBackQueue[p], o)
    BY <1>2, AppendConcat
  <2>2. QED
    BY <1>3, <2>1 DEF Queued, Joined
<1>6. Waiting(p)' = Values(Append(Queued(p), o))
  BY <1>5 DEF Waiting, Values
<1>7. NoTwice(Queued(p))' <=> NoTwice(Append(Queued(p), o))
  BY <1>5 DEF NoTwice
<1>8. QED
  BY <1>3, <1>4, <1>5, <1>6, <1>7, AppendOnce

LEMMA QueuesKept ==
    ASSUME UNCHANGED <<iQueue, iBackQueue>>, NEW p \in Peer
    PROVE  /\ Waiting(p)' = Waiting(p) /\ Queued(p)' = Queued(p)
           /\ NoTwice(Queued(p)) => NoTwice(Queued(p))'
           /\ \A q \in Peer : iQueue'[q] = iQueue[q] /\ iBackQueue'[q] = iBackQueue[q]
<1>1. Queued(p)' = Queued(p)
  BY DEF Queued
<1>2. QED
  BY <1>1 DEF Waiting, NoTwice

(* The pools without processor o of p, wherever it was.                    *)
Spare(p, o, pl) ==
    /\ DOMAIN pl = Peer /\ pl[p] \in Pools(Number) /\ Spread(pl[p])
    /\ o \notin All(pl[p]) /\ All(pl[p]) \subseteq Idle(p)
    /\ \A u \in Types : Values(pl[p][u]) \subseteq Values(pool[p][u])
    /\ \A q \in Peer : q # p => pl[q] = pool[q]

(* The pools pl with processor o of p put back.                            *)
BackIn(p, o, t, pl) ==
    /\ Idle(p)' = All(pl[p]) \cup {o} /\ Spread(pool'[p])
    /\ Values(pool'[p][t]) = Values(pl[p][t]) \cup {o}
    /\ \A u \in Types : u # t => Values(pool'[p][u]) = Values(pl[p][u])
    /\ \A q \in Peer : q # p => pool'[q] = pl[q]

(* The pools name their processors by numbers.                             *)
LEMMA PoolNumbers ==
    ASSUME TypeOK, NEW p \in Peer, NEW f \in [Types -> Seq(Ids(p))]
    PROVE  f \in Pools(Number)
<1>1. Ids(p) \subseteq Number
  BY DEF Ids, Number
<1>2. \A s \in Seq(Ids(p)) : s \in Seq(Number)
  BY <1>1, SeqMonotonic
<1>3. QED
  BY <1>2 DEF Pools

(* A processor about to be used comes from the pool, or is made for it:    *)
(* nobody holds it, and it is new.                                         *)
LEMMA PickNew ==
    ASSUME TypeOK, NEW p \in Peer, Place(p), NEW t \in Types
    PROVE  /\ Pick(p, t) \in Idle(p) \/ Pick(p, t) \notin Ids(p)
           /\ Pick(p, t) \in Number /\ Pick(p, t) \notin Waiting(p)
           /\ Pick(p, t) # sending[p].proc
           /\ New(Picked(p, t)) /\ Picked(p, t).type = t
           /\ Spare(p, Pick(p, t), PoolLess(p, t))
<1>1. /\ pool[p] \in [Types -> Seq(Ids(p))] /\ Idle(p) = All(pool[p])
      /\ Idle(p) \subseteq Ids(p) /\ Waiting(p) \subseteq Ids(p) /\ 0 \notin Ids(p)
      /\ Len(obj[p]) + 1 \notin Ids(p) /\ Len(obj[p]) \in Nat
      /\ sending[p].proc \in Ids(p) \cup {0}
      /\ DOMAIN pool = Peer
  BY HeldExist DEF TypeOK, ObjectsOK, HoldersOK
<1>2. /\ Idle(p) \cap Waiting(p) = {} /\ sending[p].proc \notin Idle(p) /\ Spread(pool[p])
      /\ \A x \in Values(pool[p][t]) : New(obj[p][x]) /\ obj[p][x].type = t
  BY DEF Place
<1>3. PICK f : f = pool[p]
  OBVIOUS
<1>4. PICK pl : pl = PoolLess(p, t)
  OBVIOUS
<1>5. PICK o : o = Pick(p, t)
  OBVIOUS
<1>6. pl[p] \in Pools(Number) /\ DOMAIN pl = Peer
  BY <1>4, PickType, PoolNumbers
<1>7. CASE Pooled(p, t)
  <2>1. o = Head(f[t]) /\ Picked(p, t) = obj[p][o] /\ f[t] # <<>>
    BY <1>3, <1>5, <1>7 DEF Pick, Picked, Pooled
  <2>2. OneLess(f, t, pl[p]) /\ \A q \in Peer : q # p => pl[q] = pool[q]
    <3>1. pl = [pool EXCEPT ![p][t] = Tail(pool[p][t])]
      BY <1>4, <1>7 DEF PoolLess
    <3>2. QED
      BY <1>1, <1>3, <3>1 DEF OneLess
  <2>3. /\ Spread(pl[p]) /\ All(pl[p]) \subseteq All(f)
        /\ \A u \in Types : Values(pl[p][u]) \subseteq Values(f[u])
        /\ o \notin All(pl[p]) /\ o \in Values(f[t])
    <3>1. PICK S : f \in Pools(S)
      BY <1>1, <1>3 DEF Pools
    <3>2. PICK g : g = pl[p]
      OBVIOUS
    <3>3. Spread(f) /\ OneLess(f, t, g)
      BY <1>2, <1>3, <2>2, <3>2
    <3>4. QED
      BY <2>1, <3>1, <3>2, <3>3, TakeFirst
  <2>4. o \in Idle(p)
    BY <1>1, <1>3, <2>3 DEF All
  <2>5. o \in Number
    BY <1>1, <2>4 DEF Ids, Number
  <2>6. Spare(p, o, pl)
    BY <1>1, <1>3, <1>6, <2>2, <2>3 DEF Spare
  <2>7. o \notin Waiting(p) /\ o # sending[p].proc
    BY <1>2, <2>4
  <2>8. New(Picked(p, t)) /\ Picked(p, t).type = t
    BY <1>2, <1>3, <2>1, <2>3
  <2>9. QED
    BY <1>4, <1>5, <2>4, <2>5, <2>6, <2>7, <2>8
<1>8. CASE ~Pooled(p, t)
  <2>1. o = Len(obj[p]) + 1 /\ Picked(p, t) = Fresh(t) /\ pl = pool
    BY <1>4, <1>5, <1>8 DEF Pick, Picked, PoolLess
  <2>2. New(Picked(p, t)) /\ Picked(p, t).type = t
    BY <2>1 DEF New, Fresh
  <2>3. o \in Number /\ o \notin Ids(p) /\ o # 0
    BY <1>1, <2>1 DEF Number
  <2>4. o \notin Waiting(p) /\ o \notin Idle(p) /\ o # sending[p].proc
    BY <1>1, <2>3
  <2>5. Spare(p, o, pl)
    BY <1>1, <1>2, <1>6, <2>1, <2>4 DEF Spare
  <2>6. QED
    BY <1>4, <1>5, <2>2, <2>3, <2>4, <2>5
<1>9. QED
  BY <1>7, <1>8

(* A processor that nobody holds is given back.                            *)
LEMMA GivenBack ==
    ASSUME NEW p \in Peer, NEW t \in Types, NEW o \in Number, NEW pl,
           Spare(p, o, pl), pool' = Return(p, o, pl, t)
    PROVE  BackIn(p, o, t, pl)
<1>1. /\ OneMore(pl[p], t, o, pool'[p])
      /\ \A q \in Peer : q # p => pool'[q] = pl[q]
      /\ pl[p] \in Pools(Number) /\ Spread(pl[p]) /\ o \notin All(pl[p])
  BY DEF Return, Pools, OneMore, Spare
<1>2. Idle(p)' = All(pool'[p])
  BY DEF Idle, All, Values
<1>3. PICK f : f = pl[p]
  OBVIOUS
<1>4. PICK g : g = pool'[p]
  OBVIOUS
<1>5. /\ Spread(g) /\ All(g) = All(f) \cup {o}
      /\ Values(g[t]) = Values(f[t]) \cup {o}
      /\ \A u \in Types : u # t => Values(g[u]) = Values(f[u])
  <2>1. f \in Pools(Number) /\ Spread(f) /\ o \notin All(f) /\ OneMore(f, t, o, g)
    BY <1>1, <1>3, <1>4
  <2>2. QED
    BY <2>1, PutLast
<1>6. QED
  BY <1>1, <1>2, <1>3, <1>4, <1>5 DEF BackIn
-----------------------------------------------------------------------------
(* Maps, their sizes and the budget of indexes.                            *)
LEMMA MapFinite ==
    ASSUME TypeOK, NEW p \in Peer
    PROVE  IsFiniteSet(DOMAIN iMap[p]) /\ Cardinality(DOMAIN iMap[p]) \in Nat
<1>1. IsFiniteSet(Index)
  BY BoundAssumption, FS_Interval DEF Index
<1>2. DOMAIN iMap[p] \subseteq Index
  BY DEF TypeOK, HoldersOK
<1>3. QED
  BY <1>1, <1>2, FS_Subset, FS_CardinalityType

LEMMA MinIndexInt == \A p \in Peer : MinIndex(p) \in Nat
BY BoundAssumption DEF MinIndex

(* An entry joins the map of p, and nothing leaves it.                     *)
Registers(p, k0, o) == iMap' = [iMap EXCEPT ![p] = Put(@, k0, o)]

LEMMA Registered ==
    ASSUME TypeOK, NEW p \in Peer, NEW k0, NEW o,
           Registers(p, k0, o)
    PROVE  /\ DOMAIN iMap'[p] = DOMAIN iMap[p] \cup {k0} /\ iMap'[p][k0] = o
           /\ \A k \in DOMAIN iMap[p] : k # k0 => iMap'[p][k] = iMap[p][k]
           /\ \A q \in Peer : q # p => iMap'[q] = iMap[q]
           /\ IsFiniteSet(DOMAIN iMap'[p]) /\ Cardinality(DOMAIN iMap'[p]) \in Nat
           /\ k0 \in DOMAIN iMap[p] \/
                 Cardinality(DOMAIN iMap'[p]) = Cardinality(DOMAIN iMap[p]) + 1
<1>1. /\ iMap'[p] = Put(iMap[p], k0, o)
      /\ \A q \in Peer : q # p => iMap'[q] = iMap[q]
  BY DEF TypeOK, HoldersOK, Registers
<1>2. /\ DOMAIN iMap'[p] = DOMAIN iMap[p] \cup {k0} /\ iMap'[p][k0] = o
      /\ \A k \in DOMAIN iMap[p] : k # k0 => iMap'[p][k] = iMap[p][k]
  BY <1>1 DEF Put
<1>3. IsFiniteSet(DOMAIN iMap[p]) /\ IsFiniteSet(DOMAIN iMap[p] \cup {k0})
  BY MapFinite, FS_AddElement
<1>4. /\ Cardinality(DOMAIN iMap[p] \cup {k0}) \in Nat
      /\ k0 \in DOMAIN iMap[p] \/
            Cardinality(DOMAIN iMap[p] \cup {k0}) = Cardinality(DOMAIN iMap[p]) + 1
  BY <1>3, FS_AddElement, FS_CardinalityType
<1>5. QED
  BY <1>1, <1>2, <1>3, <1>4

(* The transactions a peer learns of are its neighbour's: no index is      *)
(* spent, and what bounds the indexes of each peer holds on.               *)
LEMMA LearntBounds ==
    ASSUME TypeOK, Budget, \A q \in Peer : Bounds(q), NEW p \in Peer, NEW k0, NEW o,
           iMap' = iMap \/ /\ Registers(p, k0, o)
                           /\ k0 \in DOMAIN iMap[Other(p)] /\ Owner(k0) = Other(p)
                           /\ k0 \notin DOMAIN iMap[p],
           UNCHANGED <<sending, sends>>
    PROVE  Budget' /\ \A q \in Peer : Bounds(q)'
<1>1. CASE iMap' = iMap
  BY <1>1 DEF Budget, Bounds, Used, Open
<1>2. CASE /\ Registers(p, k0, o)
           /\ k0 \in DOMAIN iMap[Other(p)] /\ Owner(k0) = Other(p)
           /\ k0 \notin DOMAIN iMap[p]
  <2>1. /\ DOMAIN iMap'[p] = DOMAIN iMap[p] \cup {k0}
        /\ \A q \in Peer : q # p => iMap'[q] = iMap[q]
        /\ Cardinality(DOMAIN iMap'[p]) = Cardinality(DOMAIN iMap[p]) + 1
    BY <1>2, Registered
  <2>2. Used' = Used
    BY <1>2, <2>1 DEF Used, Other, Peer
  <2>3. Budget'
    BY <2>2 DEF Budget, Open
  <2>4. Cardinality(DOMAIN iMap[p]) \in Nat /\ MinIndex(p) \in Nat /\ Other(p) # p
    BY MapFinite, MinIndexInt, Peers
  <2>5. \A q \in Peer : DOMAIN iMap[q] \subseteq DOMAIN iMap'[q]
    BY <2>1
  <2>6. Bounds(p)'
    <3>1. \A k \in DOMAIN iMap[p] : k \in Int
      BY DEF TypeOK, HoldersOK, Index
    <3>2. sending[p] # NotSending => sending[p].index \in Int
      BY DEF TypeOK, HoldersOK, Index
    <3>3. ASSUME NEW k \in DOMAIN iMap'[p]
          PROVE  /\ k \in DOMAIN iMap'[Owner(k)]
                 /\ Owner(k) = p => k < MinIndex(p) + Cardinality(DOMAIN iMap'[p])
      <4>1. CASE k = k0
        BY <1>2, <2>4, <2>5, <4>1, Peers
      <4>2. CASE k \in DOMAIN iMap[p]
        <5>1. /\ k \in DOMAIN iMap[Owner(k)]
              /\ Owner(k) = p => k < MinIndex(p) + Cardinality(DOMAIN iMap[p])
          BY <4>2 DEF Bounds
        <5>2. QED
          BY <2>1, <2>4, <2>5, <3>1, <4>2, <5>1, Peers
      <4>3. QED
        BY <2>1, <4>1, <4>2
    <3>4. ASSUME sending[p] # NotSending
          PROVE  /\ Owner(sending[p].index) = p
                 /\ sending[p].index <= MinIndex(p) + Cardinality(DOMAIN iMap'[p])
                 /\ \A j \in DOMAIN iMap'[p] : Owner(j) = p => j < sending[p].index
      BY <1>2, <2>1, <2>4, <3>2, <3>4 DEF Bounds
    <3>5. QED
      BY <3>3, <3>4 DEF Bounds
  <2>7. \A q \in Peer : q # p => Bounds(q)'
    BY <2>1, <2>5, Peers DEF Bounds
  <2>8. QED
    BY <2>3, <2>6, <2>7
<1>3. QED
  BY <1>1, <1>2
-----------------------------------------------------------------------------
(* A step leaves every processor of p in one place: processor o moves, the *)
(* pools become pl, or pl with o given back.                               *)
Arranged(p, o, t, pl) ==
    /\ \A x \in Ids(p) : x # o => obj'[p][x] = obj[p][x]
    /\ NoTwice(Queued(p))' /\ Waiting(p)' \subseteq Waiting(p) \cup {o}
    /\ \/ pool' = pl
       \/ /\ pool' = Return(p, o, pl, t) /\ o \notin Waiting(p)' /\ o # sending'[p].proc
          /\ New(obj'[p][o]) /\ obj'[p][o].type = t
    /\ \/ sending'[p] = NotSending
       \/ sending'[p] = sending[p] /\ o # sending[p].proc
       \/ /\ sending'[p].proc = o /\ o \notin Waiting(p)' /\ pool' = pl
          /\ obj'[p][o].index = sending'[p].index /\ New(obj'[p][o])

LEMMA PlaceStep ==
    ASSUME TypeOK, NEW p \in Peer, Place(p), NEW o \in Number, NEW t \in Types,
           NEW pl, Spare(p, o, pl), Arranged(p, o, t, pl)
    PROVE  /\ Place(p)'
           /\ Idle(p)' \subseteq Idle(p) \cup {o}
           /\ pool' = pl => o \notin Idle(p)'
           /\ \A q \in Peer : q # p => pool'[q] = pool[q]
<1>1. /\ Idle(p) \subseteq Ids(p) /\ Waiting(p) \subseteq Ids(p) /\ 0 \notin Ids(p)
      /\ sending[p] # NotSending => sending[p].proc \in Ids(p)
      /\ NotSending.proc = 0 /\ o # 0
  BY HeldExist DEF NotSending, Number
<1>2. /\ Idle(p) \cap Waiting(p) = {}
      /\ sending[p].proc \notin Idle(p) \cup Waiting(p)
      /\ sending[p] # NotSending =>
            /\ obj[p][sending[p].proc].index = sending[p].index
            /\ New(obj[p][sending[p].proc])
      /\ \A u \in Types : \A x \in Values(pool[p][u]) : New(obj[p][x]) /\ obj[p][x].type = u
  BY DEF Place
<1>3. /\ Spread(pool'[p])
      /\ Idle(p)' = All(pl[p]) \/ /\ Idle(p)' = All(pl[p]) \cup {o}
                                  /\ o \notin Waiting(p)' /\ o # sending'[p].proc
      /\ pool' = pl => o \notin Idle(p)'
      /\ \A q \in Peer : q # p => pool'[q] = pool[q]
      /\ \A u \in Types : \A x \in Values(pool'[p][u]) :
            x \in Values(pl[p][u]) \/ (x = o /\ New(obj'[p][o]) /\ obj'[p][o].type = u)
  <2>1. CASE pool' = pl
    <3>1. Idle(p)' = All(pl[p])
      BY <2>1 DEF Idle, All, Values
    <3>2. QED
      BY <2>1, <3>1 DEF Spare
  <2>2. CASE pool' # pl
    <3>1. /\ pool' = Return(p, o, pl, t) /\ o \notin Waiting(p)' /\ o # sending'[p].proc
          /\ New(obj'[p][o]) /\ obj'[p][o].type = t
      BY <2>2 DEF Arranged
    <3>2. BackIn(p, o, t, pl)
      BY <3>1, GivenBack
    <3>3. /\ Idle(p)' = All(pl[p]) \cup {o} /\ Spread(pool'[p])
          /\ \A q \in Peer : q # p => pool'[q] = pool[q]
      BY <3>2 DEF BackIn, Spare
    <3>4. \A u \in Types : \A x \in Values(pool'[p][u]) : x \in Values(pl[p][u]) \/ (x = o /\ u = t)
      BY <3>2 DEF BackIn
    <3>5. QED
      BY <2>2, <3>1, <3>3, <3>4
  <2>3. QED
    BY <2>1, <2>2
<1>4. Idle(p)' \cap Waiting(p)' = {}
  BY <1>2, <1>3 DEF Spare, Arranged
<1>5. sending'[p].proc \notin Idle(p)' \cup Waiting(p)'
  BY <1>1, <1>2, <1>3 DEF Spare, Arranged
<1>6. sending'[p] # NotSending =>
          /\ obj'[p][sending'[p].proc].index = sending'[p].index
          /\ New(obj'[p][sending'[p].proc])
  BY <1>1, <1>2 DEF Arranged
<1>7. \A u \in Types : \A x \in Values(pool'[p][u]) : New(obj'[p][x]) /\ obj'[p][x].type = u
  <2>1. \A u \in Types : Values(pl[p][u]) \subseteq Ids(p)
    BY <1>1 DEF All, Spare
  <2>2. \A u \in Types : o \notin Values(pl[p][u])
    BY DEF All, Spare
  <2>3. QED
    BY <1>2, <1>3, <2>1, <2>2 DEF Spare, Arranged
<1>8. Place(p)'
  <2>1. Spread(pool[p])' /\ \A u \in Types : Values(pool[p][u])' = Values(pool'[p][u])
    BY <1>3 DEF Spread, Values
  <2>2. NoTwice(Queued(p))'
    BY DEF Arranged
  <2>3. QED
    BY <1>4, <1>5, <1>6, <1>7, <2>1, <2>2 DEF Place
<1>9. QED
  BY <1>3, <1>8 DEF Spare

(* The pools as they are, for a processor that is not in them.             *)
LEMMA PoolSame ==
    ASSUME TypeOK, NEW p \in Peer, Place(p), NEW o, o \notin Idle(p)
    PROVE  Spare(p, o, pool)
<1>1. pool[p] \in [Types -> Seq(Ids(p))] /\ Idle(p) = All(pool[p])
  BY HeldExist
<1>2. DOMAIN pool = Peer /\ pool[p] \in Pools(Number) /\ Spread(pool[p])
  BY <1>1, PoolNumbers DEF Place, TypeOK, HoldersOK
<1>3. QED
  BY <1>1, <1>2 DEF Spare
-----------------------------------------------------------------------------
Arrives(p, pkt) == wire[Other(p)] # <<>> /\ pkt = Head(wire[Other(p)])

(* The processor a packet is handed to rests, or is new to the transaction *)
(* its host just started.                                                  *)
Free(p, pkt, o, rec) ==
    /\ pkt \in Packet /\ pkt.type \in Types
    /\ pkt.transaction \in DOMAIN iMap[Other(p)] /\ rec.index = pkt.transaction
    /\ o \in Number /\ o \notin Waiting(p) /\ o # sending[p].proc
    /\ o \in Idle(p) \/ o \notin Ids(p) \/ obj[p][o].index = pkt.transaction
    /\ Known(p, pkt) =>
          /\ Resting(p, pkt.transaction) /\ Resting(Other(p), pkt.transaction)
          /\ iMap[p][pkt.transaction] = o
    /\ ~Known(p, pkt) =>
          /\ rec.step = 1 /\ rec.position = "SERVER" /\ rec.type = pkt.type
          /\ Owner(pkt.transaction) = Other(p) /\ ~pkt.failed
          /\ pkt.transaction \notin DOMAIN iMap[p]
          /\ Resting(Other(p), pkt.transaction) \/ OneWay(Line[pkt.type])

LEMMA Handed ==
    ASSUME TypeOK, Holding, NEW p \in Peer, NEW pkt, Arrives(p, pkt)
    PROVE  /\ Free(p, pkt, Target(p, pkt), Targeted(p, pkt))
           /\ Spare(p, Target(p, pkt), PoolAt(p, pkt))
<1>1. Other(p) \in Peer /\ Other(p) # p /\ Other(Other(p)) = p
  BY Peers
<1>2. pkt \in Packet /\ PacketOK(Other(p), pkt)
  <2>1. wire[Other(p)] \in Seq(Packet)
    BY <1>1 DEF TypeOK
  <2>2. pkt \in Packet /\ pkt = wire[Other(p)][1] /\ 1 \in DOMAIN wire[Other(p)]
    BY <2>1, TailPlaces DEF Arrives
  <2>3. QED
    BY <1>1, <2>2 DEF Holding
<1>3. PICK k0 : k0 = pkt.transaction
  OBVIOUS
<1>4. PICK o : o = Target(p, pkt)
  OBVIOUS
<1>5. PICK rec : rec = Targeted(p, pkt)
  OBVIOUS
<1>6. PICK t \in Types : t = pkt.type
  BY <1>2 DEF Packet
<1>7. /\ k0 \in DOMAIN iMap[Other(p)]
      /\ Known(p, pkt) => Resting(p, k0) /\ Resting(Other(p), k0)
      /\ ~Known(p, pkt) =>
            /\ Owner(k0) = Other(p) /\ ~pkt.failed /\ k0 \notin DOMAIN iMap[p]
            /\ Resting(Other(p), k0) \/ OneWay(Line[pkt.type])
  BY <1>1, <1>2, <1>3 DEF PacketOK, Known
<1>8. Place(p)
  BY DEF Holding
<1>9. CASE Known(p, pkt)
  <2>1. o = iMap[p][k0] /\ rec = obj[p][o] /\ PoolAt(p, pkt) = pool
    BY <1>3, <1>4, <1>5, <1>9 DEF Target, Targeted, PoolAt
  <2>2. /\ k0 \in DOMAIN iMap[p] /\ obj[p][o].index = k0
        /\ o \notin Idle(p) \cup Waiting(p) \cup {sending[p].proc}
    BY <1>7, <1>9, <2>1 DEF Resting
  <2>3. o \in Number
    BY <2>1, <2>2, HeldExist DEF Ids, Number
  <2>4. Spare(p, o, PoolAt(p, pkt))
    BY <1>8, <2>1, <2>2, PoolSame
  <2>5. Free(p, pkt, o, rec)
    BY <1>2, <1>3, <1>6, <1>7, <1>9, <2>1, <2>2, <2>3 DEF Free
  <2>6. QED
    BY <1>4, <1>5, <2>4, <2>5
<1>10. CASE ~Known(p, pkt)
  <2>1. o = Pick(p, t) /\ rec = ServerOf(p, pkt) /\ PoolAt(p, pkt) = PoolLess(p, t)
    BY <1>4, <1>5, <1>6, <1>10 DEF Target, Targeted, PoolAt
  <2>2. /\ o \in Idle(p) \/ o \notin Ids(p)
        /\ o \in Number /\ o \notin Waiting(p) /\ o # sending[p].proc
        /\ New(Picked(p, t)) /\ Picked(p, t).type = t
        /\ Spare(p, o, PoolAt(p, pkt))
    BY <1>8, <2>1, PickNew
  <2>3. Picked(p, t) \in Processor
    BY PickType
  <2>4. /\ rec.index = k0 /\ rec.step = 1 /\ rec.position = "SERVER"
        /\ rec.type = pkt.type
    BY <1>3, <1>6, <2>1, <2>2, <2>3 DEF ServerOf, Processor, New
  <2>5. Free(p, pkt, o, rec)
    BY <1>2, <1>3, <1>6, <1>7, <1>10, <2>2, <2>4 DEF Free
  <2>6. QED
    BY <1>4, <1>5, <2>2, <2>5
<1>11. QED
  BY <1>9, <1>10

(* After it, the transaction is registered for that processor.             *)
Learnt(p, k0, o) ==
    /\ Budget' /\ \A q \in Peer : Bounds(q)'
    /\ k0 \in DOMAIN iMap'[p] /\ iMap'[p][k0] = o
    /\ \A k \in DOMAIN iMap[p] : iMap'[p][k] = iMap[p][k]
    /\ DOMAIN iMap[p] \subseteq DOMAIN iMap'[p]
    /\ DOMAIN iMap'[p] \subseteq DOMAIN iMap[p] \cup {k0}
    /\ \A q \in Peer : q # p => iMap'[q] = iMap[q]

LEMMA LookedUp ==
    ASSUME TypeOK, Holding, NEW p \in Peer, NEW pkt, Arrives(p, pkt),
           Lookup(p, pkt), UNCHANGED <<sending, sends>>
    PROVE  Learnt(p, pkt.transaction, Target(p, pkt))
<1>1. PICK k0 : k0 = pkt.transaction
  OBVIOUS
<1>2. PICK o : o = Target(p, pkt)
  OBVIOUS
<1>3. /\ k0 \in DOMAIN iMap[Other(p)]
      /\ Known(p, pkt) => iMap[p][k0] = o /\ k0 \in DOMAIN iMap[p]
      /\ ~Known(p, pkt) => Owner(k0) = Other(p) /\ k0 \notin DOMAIN iMap[p]
  BY <1>1, <1>2, Handed DEF Free, Known
<1>4. Budget /\ \A q \in Peer : Bounds(q)
  BY DEF Holding
<1>5. \/ Known(p, pkt) /\ iMap' = iMap
      \/ ~Known(p, pkt) /\ Registers(p, k0, o)
  BY <1>1, <1>2 DEF Lookup, Registers
<1>6. Budget' /\ \A q \in Peer : Bounds(q)'
  BY <1>3, <1>4, <1>5, LearntBounds
<1>7. CASE Known(p, pkt)
  BY <1>1, <1>2, <1>3, <1>5, <1>6, <1>7 DEF Learnt
<1>8. CASE ~Known(p, pkt)
  <2>1. Registers(p, k0, o)
    BY <1>5, <1>8
  <2>2. /\ DOMAIN iMap'[p] = DOMAIN iMap[p] \cup {k0} /\ iMap'[p][k0] = o
        /\ \A k \in DOMAIN iMap[p] : k # k0 => iMap'[p][k] = iMap[p][k]
        /\ \A q \in Peer : q # p => iMap'[q] = iMap[q]
    BY <2>1, Registered
  <2>3. QED
    BY <1>1, <1>2, <1>3, <1>6, <1>8, <2>2 DEF Learnt
<1>9. QED
  BY <1>7, <1>8

(* The backward unit, whatever it does with the processor: keeps it, has   *)
(* it answer, or gives it back.                                            *)
Outcome(p, o, k0, pl, t, new) ==
    \/ pool' = pl /\ UNCHANGED <<iQueue, iBackQueue>>
    \/ pool' = pl /\ Pushes(p, o) /\ new.resendable /\ Resting(Other(p), k0)
    \/ /\ pool' = Return(p, o, pl, t) /\ UNCHANGED <<iQueue, iBackQueue>>
       /\ New(new) /\ new.type = t

LEMMA Received ==
    ASSUME TypeOK, Holding, NEW p \in Peer, NEW pkt, Arrives(p, pkt),
           NEW o, o = Target(p, pkt), NEW pl, pl = PoolAt(p, pkt),
           NEW k0, k0 = pkt.transaction, Takes(Other(p), k0), Lookup(p, pkt),
           UNCHANGED <<sending, sends>>,
           NEW new \in Processor, Standing(new), obj' = Store(p, o, new), new.index = k0,
           NEW t \in Types, Outcome(p, o, k0, pl, t, new)
    PROVE  Holding'
<1>1. PICK rec : rec = Targeted(p, pkt)
  OBVIOUS
<1>2. Free(p, pkt, o, rec) /\ Spare(p, o, pl)
  BY <1>1, Handed
<1>3. Learnt(p, k0, o)
  BY LookedUp
<1>4. /\ obj'[p][o] = new /\ \A x \in Ids(p) : x # o => obj'[p][x] = obj[p][x]
      /\ \A q \in Peer : q # p => obj'[q] = obj[q]
  <2>1. o \in 1..Len(obj[p]) + 1
    BY <1>2, TargetType DEF Free
  <2>2. QED
    BY <2>1, StoreAt
<1>5. Place(p) /\ OneToken /\ Other(p) \in Peer /\ Other(p) # p
  BY Peers DEF Holding
<1>6. /\ Waiting(p)' \subseteq Waiting(p) \cup {o} /\ NoTwice(Queued(p))'
      /\ \A q \in Peer : q # p => iQueue'[q] = iQueue[q] /\ iBackQueue'[q] = iBackQueue[q]
      /\ o \in Waiting(p)' => new.resendable /\ Resting(Other(p), k0)
      /\ pool' = pl \/ o \notin Waiting(p)'
  <2>1. NoTwice(Queued(p)) /\ o \in Number /\ o \notin Waiting(p)
    BY <1>2, <1>5 DEF Place, Free
  <2>2. CASE UNCHANGED <<iQueue, iBackQueue>>
    <3>1. Waiting(p)' = Waiting(p) /\ NoTwice(Queued(p))'
      BY <2>1, <2>2, QueuesKept
    <3>2. QED
      BY <2>1, <2>2, <3>1
  <2>3. CASE ~UNCHANGED <<iQueue, iBackQueue>>
    <3>1. pool' = pl /\ Pushes(p, o) /\ new.resendable /\ Resting(Other(p), k0)
      BY <2>3 DEF Outcome
    <3>2. Ids(p) \subseteq Number
      BY DEF Ids, Number
    <3>3. /\ Waiting(p)' = Waiting(p) \cup {o} /\ NoTwice(Queued(p))'
          /\ \A q \in Peer : q # p => iQueue'[q] = iQueue[q] /\ iBackQueue'[q] = iBackQueue[q]
      BY <2>1, <3>1, <3>2, Pushed
    <3>4. QED
      BY <3>1, <3>3
  <2>4. QED
    BY <2>2, <2>3
<1>7. Arranged(p, o, t, pl)
  <2>1. /\ pool' = pl \/ /\ pool' = Return(p, o, pl, t)
                         /\ New(obj'[p][o]) /\ obj'[p][o].type = t
        /\ sending' = sending
    BY <1>4 DEF Outcome
  <2>2. o # sending[p].proc
    BY <1>2 DEF Free
  <2>3. QED
    BY <1>4, <1>6, <2>1, <2>2 DEF Arranged
<1>8. /\ Place(p)' /\ Idle(p)' \subseteq Idle(p) \cup {o}
      /\ \A q \in Peer : q # p => pool'[q] = pool[q]
  <2>1. o \in Number
    BY <1>2 DEF Free
  <2>2. QED
    BY <1>2, <1>5, <1>7, <2>1, PlaceStep
<1>9. StepOf(p, o, k0)
  <2>1. Elsewhere(p)
    BY <1>3, <1>4, <1>6, <1>8 DEF Elsewhere, Learnt
  <2>2. o \in Idle(p) \/ o \notin Ids(p) \/ obj[p][o].index = k0
    BY <1>2 DEF Free
  <2>3. QED
    BY <1>3, <1>4, <1>6, <1>8, <2>1, <2>2 DEF StepOf, Learnt
<1>10. /\ OneToken'
       /\ \A r \in Peer : \A i \in DOMAIN wire'[r] :
             /\ \E j \in DOMAIN wire[r] : wire[r][j] = wire'[r][i]
             /\ wire'[r][i].transaction # k0
  <2>1. ASSUME NEW r \in Peer, NEW x \in Waiting(r)'
        PROVE  \/ x \in Waiting(r) /\ obj'[r][x].index = obj[r][x].index
               \/ obj'[r][x].index = k0
    <3>1. CASE r # p
      BY <1>9, <3>1, OtherKept DEF StepOf
    <3>2. CASE r = p
      BY <1>4, <1>6, <3>2, HeldExist
    <3>3. QED
      BY <3>1, <3>2
  <2>2. QED
    BY <1>5, <2>1, TokenTaken
<1>11. ASSUME NEW q \in Peer, NEW x \in Waiting(q)', q = p => x # o
       PROVE  obj[q][x].index # k0
  <2>1. x \in Waiting(q)
    <3>1. CASE q # p
      BY <1>9, <3>1, OtherKept DEF StepOf
    <3>2. CASE q = p
      BY <1>6, <1>11, <3>2
    <3>3. QED
      BY <3>1, <3>2
  <2>2. \E i \in DOMAIN wire[Other(p)] : wire[Other(p)][i].transaction = k0
    <3>1. wire[Other(p)] \in Seq(Packet)
      BY <1>5 DEF TypeOK
    <3>2. QED
      BY <3>1, TailPlaces DEF Arrives
  <2>3. QED
    BY <1>5, <2>1, <2>2 DEF OneToken
<1>12. o \in Waiting(p)' => WaitOK(p, o)'
  <2>1. Resting(Other(p), k0) => Resting(Other(p), k0)'
    BY <1>5, <1>9, StillResting
  <2>2. QED
    BY <1>3, <1>4, <1>6, <2>1 DEF WaitOK, Learnt
<1>13. Stepped(p, o, k0)
  BY <1>3, <1>8, <1>9, <1>10, <1>11, <1>12 DEF Learnt, Stepped
<1>14. QED
  BY <1>13, HoldingStep

LEMMA ReceiveFailureHolds ==
    ASSUME TypeOK, Holding, NEW p \in Peer, ReceiveFailure(p)
    PROVE  Holding'
<1>1. PICK pkt : pkt = Head(wire[Other(p)])
  OBVIOUS
<1>2. PICK o : o = Target(p, pkt)
  OBVIOUS
<1>3. PICK rec : rec = Targeted(p, pkt)
  OBVIOUS
<1>4. PICK pl : pl = PoolAt(p, pkt)
  OBVIOUS
<1>5. PICK k0 : k0 = pkt.transaction
  OBVIOUS
<1>6. PICK new : new = [rec EXCEPT !.failed = TRUE, !.flagged = TRUE, !.resendable = FALSE]
  OBVIOUS
<1>7. /\ Arrives(p, pkt) /\ Lookup(p, pkt) /\ pool' = pl /\ obj' = Store(p, o, new)
      /\ UNCHANGED <<sending, sends, iQueue, iBackQueue>> /\ Takes(Other(p), k0)
  BY <1>1, <1>2, <1>3, <1>4, <1>5, <1>6 DEF ReceiveFailure, Arrives, Takes
<1>8. Free(p, pkt, o, rec)
  BY <1>2, <1>3, <1>7, Handed
<1>9. rec \in Processor /\ Standing(rec)
  BY <1>3, <1>8, TargetType DEF Free
<1>10. new \in Processor /\ Standing(new) /\ new.index = k0
  BY <1>5, <1>6, <1>8, <1>9 DEF Processor, Standing, Free
<1>11. PICK t \in Types : t = pkt.type
  BY <1>8 DEF Free
<1>12. Outcome(p, o, k0, pl, t, new)
  BY <1>7 DEF Outcome
<1>13. QED
  BY <1>2, <1>4, <1>5, <1>7, <1>10, <1>12, Received

(* The server of a one-way line has nothing left to ask of its host.       *)
LEMMA OneWayServer ==
    ASSUME NEW line \in Seq(Side), OneWay(line),
           NEW r, r \in GoOutcomes(line, 1, "SERVER")
    PROVE  IsOver(line, r)
<1>1. Len(line) \in Nat
  OBVIOUS
<1>2. /\ r.first \in 1..Len(line) + 1 /\ r.next \in 1..Len(line) + 1
      /\ \A i \in r.first..r.next - 1 : line[i] = "SERVER"
      /\ r.first > Len(line) => r.next = r.first
      /\ r.first <= Len(line) => r.first < r.next
  BY <1>1 DEF GoOutcomes
<1>3. CASE r.first > Len(line)
  BY <1>1, <1>2, <1>3 DEF IsOver
<1>4. CASE ~(r.first > Len(line))
  <2>1. r.first \in 1..Len(line) /\ r.first < r.next /\ line[r.first] = "SERVER"
    BY <1>1, <1>2, <1>4
  <2>2. Len(line) = 1
    BY <2>1 DEF OneWay
  <2>3. QED
    BY <1>2, <2>1, <2>2 DEF IsOver
<1>5. QED
  BY <1>3, <1>4

(* A host that goes through a whole line found no step for a server that   *)
(* has another after it.                                                   *)
LEMMA OneWayHost ==
    ASSUME NEW line \in Seq(Side), line # <<>>, WellFormed(line),
           NEW r, r \in GoOutcomes(line, 1, "HOST"), IsOver(line, r)
    PROVE  OneWay(line)
<1>1. Len(line) \in Nat \ {0} /\ \A i \in 1..Len(line) : line[i] \in Side
  BY EmptySeq, ElementOfSeq
<1>2. /\ r.first \in 1..Len(line) + 1 /\ r.next \in 1..Len(line) + 1
      /\ \A i \in 1..r.first - 1 : line[i] # "HOST"
      /\ \A i \in r.first..r.next - 1 : line[i] = "HOST"
  BY <1>1 DEF GoOutcomes
<1>3. r.next = Len(line) + 1
  BY <1>1, <1>2 DEF IsOver
<1>4. CASE line[1] = "SERVER"
  BY <1>4 DEF WellFormed, OneWay
<1>5. CASE line[1] = "HOST"
  <2>1. r.first = 1
    <3>1. 1 \in 1..r.first - 1 \/ r.first = 1
      BY <1>1, <1>2
    <3>2. QED
      BY <1>2, <1>5, <3>1
  <2>2. \A i \in 1..Len(line) : line[i] = "HOST"
    BY <1>1, <1>2, <1>3, <2>1
  <2>3. QED
    BY <2>2 DEF OneWay
<1>6. QED
  BY <1>1, <1>4, <1>5 DEF Side

LEMMA ReceiveStepHolds ==
    ASSUME TypeOK, Holding, NEW p \in Peer, ReceiveStep(p)
    PROVE  Holding'
<1>1. PICK pkt : pkt = Head(wire[Other(p)])
  OBVIOUS
<1>2. PICK o : o = Target(p, pkt)
  OBVIOUS
<1>3. PICK rec0 : rec0 = Targeted(p, pkt)
  OBVIOUS
<1>4. PICK pl : pl = PoolAt(p, pkt)
  OBVIOUS
<1>5. PICK k0 : k0 = pkt.transaction
  OBVIOUS
<1>6. PICK rec : rec = [rec0 EXCEPT !.failed = FALSE, !.flagged = FALSE]
  OBVIOUS
<1>7. PICK line : line = Line[rec.type]
  OBVIOUS
<1>8. PICK r \in GoOutcomes(line, rec.step, rec.position) :
          LET moved == [rec EXCEPT !.step = r.next,
                                   !.failed = GoFails(line, r), !.flagged = GoFails(line, r),
                                   !.resendable = ~IsOver(line, r)]
          IN  IF moved.resendable
              THEN /\ obj' = Store(p, o, moved)
                   /\ iBackQueue' = [iBackQueue EXCEPT ![p] = Append(@, o)]
                   /\ pool' = pl
              ELSE /\ obj' = Store(p, o, Cleared(moved))
                   /\ pool' = Return(p, o, pl, rec.type)
                   /\ UNCHANGED iBackQueue
  BY <1>1, <1>2, <1>3, <1>4, <1>6, <1>7 DEF ReceiveStep
<1>9. PICK over \in BOOLEAN : over <=> IsOver(line, r)
  OBVIOUS
<1>10. PICK failed \in BOOLEAN : failed <=> GoFails(line, r)
  OBVIOUS
<1>11. PICK moved : moved = [rec EXCEPT !.step = r.next,
                                        !.failed = failed, !.flagged = failed,
                                        !.resendable = ~over]
  OBVIOUS
<1>12. /\ Arrives(p, pkt) /\ Lookup(p, pkt) /\ Takes(Other(p), k0)
       /\ UNCHANGED <<sending, sends, iQueue>>
  BY <1>1, <1>5 DEF ReceiveStep, Arrives, Takes
<1>13. Free(p, pkt, o, rec0)
  BY <1>2, <1>3, <1>12, Handed
<1>14. rec0 \in Processor /\ Standing(rec0)
  BY <1>3, <1>13, TargetType DEF Free
<1>15. /\ rec \in Processor /\ Standing(rec) /\ rec.index = k0
       /\ rec.type \in Types /\ line \in Seq(Side)
  <2>1. rec \in Processor /\ Standing(rec) /\ rec.index = k0 /\ rec.type \in Types
    BY <1>5, <1>6, <1>13, <1>14 DEF Processor, Standing, Free
  <2>2. QED
    BY <2>1, <1>7, LineAssumption
<1>16. /\ moved \in Processor /\ Standing(moved) /\ moved.index = k0
       /\ moved.type = rec.type /\ (moved.resendable <=> ~over) /\ (moved.failed <=> failed)
  <2>1. r.next \in 1..Len(line) + 1
    BY <1>7, <1>8, <1>15, MovedType
  <2>2. moved \in Processor /\ Standing(moved)
    BY <1>7, <1>11, <1>15, <2>1, ProcessorUpdate
  <2>3. QED
    BY <2>2, <1>11, <1>15 DEF Processor
<1>17. \/ /\ ~over /\ obj' = Store(p, o, moved) /\ Pushes(p, o) /\ pool' = pl
       \/ /\ over /\ obj' = Store(p, o, Cleared(moved))
          /\ pool' = Return(p, o, pl, rec.type) /\ UNCHANGED <<iQueue, iBackQueue>>
  <2>1. over = IsOver(line, r) /\ failed = GoFails(line, r)
    BY <1>9, <1>10 DEF IsOver, GoFails
  <2>2. moved = [rec EXCEPT !.step = r.next,
                            !.failed = GoFails(line, r), !.flagged = GoFails(line, r),
                            !.resendable = ~IsOver(line, r)]
    BY <1>11, <2>1
  <2>3. QED
    BY <1>8, <1>9, <1>12, <1>16, <2>2 DEF Pushes
<1>18. CASE ~over
  <2>1. Resting(Other(p), k0)
    <3>1. CASE Known(p, pkt)
      BY <1>5, <1>13, <3>1 DEF Free
    <3>2. CASE ~Known(p, pkt)
      <4>1. /\ rec0.step = 1 /\ rec0.position = "SERVER" /\ rec0.type = pkt.type
            /\ Resting(Other(p), k0) \/ OneWay(Line[pkt.type])
        BY <1>5, <1>13, <3>2 DEF Free
      <4>2. rec.step = 1 /\ rec.position = "SERVER" /\ line = Line[pkt.type]
        BY <1>6, <1>7, <1>14, <4>1 DEF Processor
      <4>3. OneWay(line) => IsOver(line, r)
        BY <1>8, <1>15, <4>2, OneWayServer
      <4>4. QED
        BY <1>9, <1>18, <4>1, <4>2, <4>3
    <3>3. QED
      BY <3>1, <3>2
  <2>2. Outcome(p, o, k0, pl, rec.type, moved) /\ obj' = Store(p, o, moved)
    BY <1>16, <1>17, <1>18, <2>1 DEF Outcome
  <2>3. QED
    BY <1>2, <1>4, <1>5, <1>12, <1>15, <1>16, <2>2, Received
<1>19. CASE over
  <2>1. PICK new : new = Cleared(moved)
    OBVIOUS
  <2>2. new \in Processor /\ Standing(new)
    BY <1>16, <2>1, ClearedType
  <2>3. ~moved.failed /\ ~moved.resendable
    BY <1>9, <1>10, <1>16, <1>19 DEF GoFails
  <2>4. New(new) /\ new.type = rec.type /\ new.index = k0
    BY <1>16, <2>1, <2>3 DEF New, Cleared, Processor
  <2>5. Outcome(p, o, k0, pl, rec.type, new) /\ obj' = Store(p, o, new)
    BY <1>17, <1>19, <2>1, <2>4 DEF Outcome
  <2>6. QED
    BY <1>2, <1>4, <1>5, <1>12, <1>15, <2>2, <2>4, <2>5, Received
<1>20. QED
  BY <1>18, <1>19

(* The forward unit, whatever it does with the processor it takes: sends   *)
(* a packet for it or not, lets it rest or gives it back.                  *)
Sent(p, k0, sent) ==
    /\ Transmit(p, sent) /\ sent \in Processor /\ sent.index = k0
    /\ \/ pool' = pool /\ Resting(Other(p), k0)
       \/ /\ ~sent.failed /\ Owner(k0) = p /\ k0 \notin DOMAIN iMap[Other(p)]
          /\ pool' = pool \/ OneWay(Line[sent.type])

LEMMA Forwarded ==
    ASSUME TypeOK, Holding, NEW p \in Peer, Queued(p) # <<>>, PopActual(p),
           UNCHANGED <<iMap, sending, sends>>,
           NEW o, o = Head(Queued(p)), NEW k0, k0 = obj[p][o].index,
           NEW new, obj'[p][o] = new, new.index = k0,
           \A x \in Ids(p) : x # o => obj'[p][x] = obj[p][x],
           \A q \in Peer : q # p => obj'[q] = obj[q],
           NEW t \in Types,
           pool' = pool \/ (pool' = Return(p, o, pool, t) /\ New(new) /\ new.type = t),
           NEW sent, UNCHANGED wire \/ Sent(p, k0, sent)
    PROVE  Holding'
<1>1. Place(p) /\ Budget /\ (\A q \in Peer : Bounds(q)) /\ OneToken
  BY DEF Holding
<1>2. /\ o \in Waiting(p) /\ Waiting(p) = Waiting(p)' \cup {o}
      /\ NoTwice(Queued(p))' /\ o \notin Waiting(p)'
      /\ \A q \in Peer : q # p => iQueue'[q] = iQueue[q] /\ iBackQueue'[q] = iBackQueue[q]
  BY <1>1, Popped DEF Place
<1>3. o \in Number /\ o \notin Idle(p) /\ o # sending[p].proc
  <2>1. o \in Ids(p)
    BY <1>2, HeldExist
  <2>2. QED
    BY <1>1, <1>2, <2>1 DEF Ids, Number, Place
<1>4. WaitOK(p, o) /\ k0 \in DOMAIN iMap[p] /\ iMap[p][k0] = o
  BY <1>2 DEF Holding, WaitOK
<1>5. Spare(p, o, pool)
  BY <1>1, <1>3, PoolSame
<1>6. Arranged(p, o, t, pool)
  BY <1>2, <1>3 DEF Arranged
<1>7. /\ Place(p)' /\ Idle(p)' \subseteq Idle(p) \cup {o}
      /\ pool' = pool => o \notin Idle(p)'
      /\ \A q \in Peer : q # p => pool'[q] = pool[q]
  BY <1>1, <1>3, <1>5, <1>6, PlaceStep
<1>8. StepOf(p, o, k0)
  <2>1. Elsewhere(p)
    BY <1>2, <1>7 DEF Elsewhere
  <2>2. QED
    BY <1>2, <1>7, <2>1 DEF StepOf
<1>9. ASSUME NEW q \in Peer, NEW x \in Waiting(q)'
      PROVE  /\ x \in Waiting(q) /\ obj'[q][x].index = obj[q][x].index
             /\ obj[q][x].index # k0
  <2>1. CASE q # p
    <3>1. x \in Waiting(q) /\ obj'[q][x] = obj[q][x]
      BY <1>8, <1>9, <2>1, OtherKept DEF StepOf
    <3>2. obj[q][x].index # k0
      BY <1>2, <2>1, <3>1, OneWait
    <3>3. QED
      BY <3>1, <3>2
  <2>2. CASE q = p
    <3>1. x \in Waiting(p) /\ x # o /\ x \in Ids(p)
      BY <1>2, <1>9, <2>2, HeldExist
    <3>2. obj[p][x].index # k0
      BY <1>2, <3>1, OneWait
    <3>3. QED
      BY <2>2, <3>1, <3>2
  <2>3. QED
    BY <2>1, <2>2
<1>10. \A q \in Peer : \A i \in DOMAIN wire[q] : wire[q][i].transaction # k0
  BY <1>1, <1>2 DEF OneToken
<1>11. Budget' /\ \A q \in Peer : Bounds(q)'
  BY <1>1, LearntBounds
<1>12. pool' = pool => Resting(p, k0)'
  BY <1>2, <1>3, <1>4, <1>7 DEF Resting
<1>13. Resting(Other(p), k0) => Resting(Other(p), k0)'
  BY <1>8, Peers, StillResting
<1>14. /\ OneToken'
       /\ \A q \in Peer : \A i \in DOMAIN wire'[q] :
             \/ /\ \E j \in DOMAIN wire[q] : wire[q][j] = wire'[q][i]
                /\ wire'[q][i].transaction # k0
             \/ PacketOK(q, wire[q][i])'
  <2>1. CASE UNCHANGED wire
    <3>1. OneToken'
      BY <1>1, <1>9, <2>1, TokenKept
    <3>2. QED
      BY <1>10, <2>1, <3>1
  <2>2. CASE Sent(p, k0, sent)
    <3>1. sent \in Processor /\ Transmit(p, sent) /\ k0 = sent.index
      BY <2>2 DEF Sent
    <3>2. /\ OneToken'
          /\ \A r \in Peer : \A i \in DOMAIN wire'[r] :
                \/ /\ \E j \in DOMAIN wire[r] : wire[r][j] = wire'[r][i]
                   /\ wire'[r][i].transaction # k0
                \/ r = p /\ wire'[r][i] = PacketOf(sent)
      BY <1>1, <1>9, <1>10, <3>1, TokenSent
    <3>3. PICK pkt : pkt = PacketOf(sent)
      OBVIOUS
    <3>4. pkt.transaction = k0 /\ pkt.type = sent.type /\ (pkt.failed <=> sent.failed)
      BY <3>1, <3>3 DEF PacketOf
    <3>5. \A q \in Peer : q # p => iMap'[q] = iMap[q]
      OBVIOUS
    <3>6. PacketOK(p, pkt)'
      <4>1. k0 \in DOMAIN iMap'[p] /\ iMap'[Other(p)] = iMap[Other(p)]
        BY <1>4
      <4>2. CASE pool' = pool /\ Resting(Other(p), k0)
        <5>1. Resting(p, k0)' /\ Resting(Other(p), k0)'
          BY <1>12, <1>13, <4>2
        <5>2. k0 \in DOMAIN iMap'[Other(p)]
          BY <4>1, <4>2 DEF Resting
        <5>3. QED
          BY <3>4, <4>1, <5>1, <5>2 DEF PacketOK
      <4>3. CASE /\ ~sent.failed /\ Owner(k0) = p /\ k0 \notin DOMAIN iMap[Other(p)]
                 /\ pool' = pool \/ OneWay(Line[sent.type])
        BY <1>12, <3>4, <4>1, <4>3 DEF PacketOK
      <4>4. QED
        BY <2>2, <4>2, <4>3 DEF Sent
    <3>7. ASSUME NEW q \in Peer, NEW i \in DOMAIN wire'[q], q = p, wire'[q][i] = pkt
          PROVE  PacketOK(q, wire[q][i])'
      BY <3>6, <3>7 DEF PacketOK
    <3>8. QED
      BY <3>2, <3>3, <3>7
  <2>3. QED
    BY <2>1, <2>2
<1>15. o \in Waiting(p)' => WaitOK(p, o)'
  BY <1>2
<1>16. \A q \in Peer : \A x \in Waiting(q)' : (q = p => x # o) => obj[q][x].index # k0
  BY <1>9
<1>17. Stepped(p, o, k0)
  BY <1>7, <1>8, <1>11, <1>14, <1>15, <1>16 DEF Stepped
<1>18. QED
  BY <1>17, HoldingStep

LEMMA ResendHolds ==
    ASSUME TypeOK, Holding, NEW p \in Peer, Resend(p)
    PROVE  Holding'
<1>1. PICK o : o = Head(Queued(p))
  OBVIOUS
<1>2. PICK rec : rec = obj[p][o]
  OBVIOUS
<1>3. PICK k0 : k0 = rec.index
  OBVIOUS
<1>4. /\ Queued(p) # <<>> /\ PopActual(p) /\ rec.resendable /\ Transmit(p, rec)
      /\ UNCHANGED <<iMap, sending, sends>> /\ obj' = obj /\ pool' = pool
  BY <1>1, <1>2 DEF Resend
<1>5. rec \in Processor /\ rec.type \in Types
  BY <1>1, <1>2, <1>4, QueuedType DEF Processor
<1>6. Resting(Other(p), k0)
  <2>1. WaitOK(p, o)
    BY <1>1, <1>4, Popped DEF Holding
  <2>2. QED
    BY <1>2, <1>3, <1>4, <2>1 DEF WaitOK
<1>7. Sent(p, k0, rec)
  BY <1>3, <1>4, <1>5, <1>6 DEF Sent
<1>8. QED
  BY <1>1, <1>2, <1>3, <1>4, <1>5, <1>7, Forwarded

(* A processor that was not sent yet: new, and unknown to the server.      *)
LEMMA Unsent ==
    ASSUME TypeOK, Holding, NEW p \in Peer, Queued(p) # <<>>, PopActual(p),
           NEW o, o = Head(Queued(p)), NEW rec, rec = obj[p][o], ~rec.resendable
    PROVE  /\ o \in 1..Len(obj[p]) + 1 /\ rec \in Processor /\ Standing(rec)
           /\ rec.type \in Types /\ Line[rec.type] \in Seq(Side)
           /\ New(rec) /\ Owner(rec.index) = p
           /\ rec.index \notin DOMAIN iMap[Other(p)]
<1>1. o \in Ids(p) /\ rec \in Processor /\ Standing(rec)
  BY QueuedType
<1>2. rec.type \in Types /\ Line[rec.type] \in Seq(Side)
  BY <1>1, LineAssumption DEF Processor
<1>3. WaitOK(p, o)
  BY Popped DEF Holding
<1>4. o \in 1..Len(obj[p]) + 1
  BY <1>1 DEF Ids, TypeOK, ObjectsOK
<1>5. QED
  BY <1>1, <1>2, <1>3, <1>4 DEF WaitOK

LEMMA NoLineHolds ==
    ASSUME TypeOK, Holding, NEW p \in Peer, NoLine(p)
    PROVE  Holding'
<1>1. PICK o : o = Head(Queued(p))
  OBVIOUS
<1>2. PICK rec : rec = obj[p][o]
  OBVIOUS
<1>3. PICK new : new = Cleared(rec)
  OBVIOUS
<1>4. /\ Queued(p) # <<>> /\ PopActual(p) /\ ~rec.resendable
      /\ obj' = Store(p, o, new) /\ pool' = Return(p, o, pool, rec.type)
      /\ UNCHANGED <<iMap, sending, sends>> /\ UNCHANGED wire
  BY <1>1, <1>2, <1>3 DEF NoLine
<1>5. /\ o \in 1..Len(obj[p]) + 1 /\ rec \in Processor
      /\ rec.type \in Types /\ New(rec)
  BY <1>1, <1>2, <1>4, Unsent
<1>6. new \in Processor /\ New(new) /\ new.type = rec.type /\ new.index = rec.index
  BY <1>3, <1>5, ClearedType DEF New, Cleared, Processor
<1>7. /\ obj'[p][o] = new /\ \A x \in Ids(p) : x # o => obj'[p][x] = obj[p][x]
      /\ \A q \in Peer : q # p => obj'[q] = obj[q]
  BY <1>4, <1>5, <1>6, StoreAt
<1>8. QED
  BY <1>1, <1>2, <1>4, <1>5, <1>6, <1>7, Forwarded

LEMMA FirstStepHolds ==
    ASSUME TypeOK, Holding, NEW p \in Peer, FirstStep(p)
    PROVE  Holding'
<1>1. PICK o : o = Head(Queued(p))
  OBVIOUS
<1>2. PICK rec : rec = obj[p][o]
  OBVIOUS
<1>3. PICK line : line = Line[rec.type]
  OBVIOUS
<1>4. PICK k0 : k0 = rec.index
  OBVIOUS
<1>5. PICK r \in GoOutcomes(line, rec.step, rec.position) :
          LET moved == [rec EXCEPT !.step = r.next, !.resendable = ~IsOver(line, r)]
          IN  IF GoFails(line, r)
              THEN /\ obj' = Store(p, o, Cleared(Marked(rec)))
                   /\ pool' = Return(p, o, pool, rec.type)
                   /\ UNCHANGED wire
              ELSE /\ Transmit(p, moved)
                   /\ IF moved.resendable
                      THEN obj' = Store(p, o, moved) /\ UNCHANGED pool
                      ELSE /\ obj' = Store(p, o, Cleared(moved))
                           /\ pool' = Return(p, o, pool, rec.type)
  BY <1>1, <1>2, <1>3 DEF FirstStep
<1>6. PICK over \in BOOLEAN : over <=> IsOver(line, r)
  OBVIOUS
<1>7. PICK moved : moved = [rec EXCEPT !.step = r.next, !.resendable = ~over]
  OBVIOUS
<1>8. /\ Queued(p) # <<>> /\ PopActual(p) /\ ~rec.resendable /\ line # <<>>
      /\ UNCHANGED <<iMap, sending, sends>>
  BY <1>1, <1>2, <1>3 DEF FirstStep
<1>9. /\ o \in 1..Len(obj[p]) + 1 /\ rec \in Processor /\ Standing(rec)
      /\ rec.type \in Types /\ line \in Seq(Side)
      /\ New(rec) /\ Owner(k0) = p /\ k0 \notin DOMAIN iMap[Other(p)]
  BY <1>1, <1>2, <1>3, <1>4, <1>8, Unsent
<1>10. /\ moved \in Processor /\ Standing(moved) /\ moved.index = k0
       /\ moved.type = rec.type /\ (moved.resendable <=> ~over) /\ ~moved.failed
  <2>1. r.next \in 1..Len(line) + 1
    BY <1>3, <1>5, <1>9, MovedType
  <2>2. moved \in Processor /\ Standing(moved)
    BY <1>3, <1>7, <1>9, <2>1, ProcessorUpdate
  <2>3. QED
    BY <1>4, <1>7, <1>9, <2>2 DEF Processor, New
<1>11. \/ /\ obj' = Store(p, o, Cleared(Marked(rec))) /\ pool' = Return(p, o, pool, rec.type)
          /\ UNCHANGED wire
       \/ ~over /\ Transmit(p, moved) /\ obj' = Store(p, o, moved) /\ pool' = pool
       \/ /\ over /\ Transmit(p, moved) /\ obj' = Store(p, o, Cleared(moved))
          /\ pool' = Return(p, o, pool, rec.type)
  <2>1. over = IsOver(line, r)
    BY <1>6 DEF IsOver
  <2>2. moved = [rec EXCEPT !.step = r.next, !.resendable = ~IsOver(line, r)]
    BY <1>7, <2>1
  <2>3. QED
    BY <1>5, <1>10, <2>2
<1>12. ASSUME NEW new \in Processor, obj' = Store(p, o, new)
       PROVE  /\ obj'[p][o] = new /\ \A x \in Ids(p) : x # o => obj'[p][x] = obj[p][x]
              /\ \A q \in Peer : q # p => obj'[q] = obj[q]
  BY <1>9, <1>12, StoreAt
<1>13. CASE /\ obj' = Store(p, o, Cleared(Marked(rec))) /\ pool' = Return(p, o, pool, rec.type)
            /\ UNCHANGED wire
  <2>1. PICK marked : marked = Marked(rec)
    OBVIOUS
  <2>2. PICK new : new = Cleared(marked)
    OBVIOUS
  <2>3. /\ marked \in Processor /\ marked.type = rec.type /\ marked.index = k0
        /\ ~marked.failed /\ ~marked.resendable
    BY <1>4, <1>9, <2>1, MarkedType DEF New
  <2>4. new \in Processor /\ New(new) /\ new.index = k0 /\ new.type = rec.type
    BY <2>2, <2>3, ClearedType DEF New, Cleared, Processor
  <2>5. /\ obj'[p][o] = new /\ \A x \in Ids(p) : x # o => obj'[p][x] = obj[p][x]
        /\ \A q \in Peer : q # p => obj'[q] = obj[q]
    BY <1>12, <1>13, <2>1, <2>2, <2>4
  <2>6. pool' = Return(p, o, pool, rec.type) /\ UNCHANGED wire /\ rec.type \in Types
    BY <1>9, <1>13
  <2>7. k0 = obj[p][o].index
    BY <1>2, <1>4
  <2>8. QED
    BY <1>1, <1>8, <2>4, <2>5, <2>6, <2>7, Forwarded
<1>14. CASE ~over /\ Transmit(p, moved) /\ obj' = Store(p, o, moved) /\ pool' = pool
  <2>1. Sent(p, k0, moved)
    BY <1>9, <1>10, <1>14 DEF Sent
  <2>2. /\ obj'[p][o] = moved /\ \A x \in Ids(p) : x # o => obj'[p][x] = obj[p][x]
        /\ \A q \in Peer : q # p => obj'[q] = obj[q]
    BY <1>10, <1>12, <1>14
  <2>3. pool' = pool /\ moved.index = k0 /\ rec.type \in Types
    BY <1>9, <1>10, <1>14
  <2>4. k0 = obj[p][o].index
    BY <1>2, <1>4
  <2>5. QED
    BY <1>1, <1>8, <2>1, <2>2, <2>3, <2>4, Forwarded
<1>15. CASE /\ over /\ Transmit(p, moved) /\ obj' = Store(p, o, Cleared(moved))
            /\ pool' = Return(p, o, pool, rec.type)
  <2>1. OneWay(line)
    <3>1. rec.step = 1 /\ rec.position = "HOST"
      BY <1>9 DEF New
    <3>2. WellFormed(line)
      BY <1>3, <1>9, LineShapeAssumption
    <3>3. QED
      BY <1>5, <1>6, <1>8, <1>9, <1>15, <3>1, <3>2, OneWayHost
  <2>2. Sent(p, k0, moved)
    BY <1>3, <1>9, <1>10, <1>15, <2>1 DEF Sent
  <2>3. PICK new : new = Cleared(moved)
    OBVIOUS
  <2>4. new \in Processor /\ New(new) /\ new.index = k0 /\ new.type = rec.type
    BY <1>10, <1>15, <2>3, ClearedType DEF New, Cleared, Processor
  <2>5. /\ obj'[p][o] = new /\ \A x \in Ids(p) : x # o => obj'[p][x] = obj[p][x]
        /\ \A q \in Peer : q # p => obj'[q] = obj[q]
    BY <1>12, <1>15, <2>3, <2>4
  <2>6. QED
    BY <1>1, <1>2, <1>4, <1>8, <1>9, <1>15, <2>2, <2>3, <2>4, <2>5, Forwarded
<1>16. QED
  BY <1>11, <1>13, <1>14, <1>15

(* The application computes an index that is its own and was never used:   *)
(* the transactions of both peers together fill less than half the range.  *)
LEMMA NewIndex ==
    ASSUME TypeOK, Holding, NEW p \in Peer, sends < Half, NEW k0, k0 = NextIndex(p)
    PROVE  /\ Owner(k0) = p /\ k0 = MinIndex(p) + Cardinality(DOMAIN iMap[p])
           /\ \A q \in Peer : k0 \notin DOMAIN iMap[q]
           /\ \A j \in DOMAIN iMap[p] : Owner(j) = p => j < k0
<1>1. PICK n : n = Cardinality(DOMAIN iMap[p])
  OBVIOUS
<1>2. n \in Nat /\ n <= sends /\ sends \in Nat
  <2>1. sends \in Nat
    BY BoundAssumption DEF TypeOK
  <2>2. IsFiniteSet(Used) /\ DOMAIN iMap[p] \subseteq Used
    BY DEF Holding, Budget, Used, Peer
  <2>3. n <= Cardinality(Used) /\ n \in Nat /\ Cardinality(Used) \in Nat
    BY <1>1, <2>2, FS_Subset, FS_CardinalityType
  <2>4. Cardinality(Used) + Open("initiator") + Open("acceptor") <= sends
    BY DEF Holding, Budget
  <2>5. Open("initiator") \in Nat /\ Open("acceptor") \in Nat
    BY DEF Open
  <2>6. QED
    BY <2>1, <2>3, <2>4, <2>5
<1>3. PICK h \in Nat : h = Half /\ 2 * h <= IntMax /\ IntMax \in Nat
  BY BoundAssumption DEF Half
<1>4. MinIndex("initiator") = 1 /\ MinIndex("acceptor") = h + 1
  BY <1>3 DEF MinIndex, Half
<1>5. p = "initiator" \/ p = "acceptor"
  BY DEF Peer
<1>6. k0 = n + MinIndex(p) /\ Owner(k0) = p
  <2>1. n + MinIndex(p) <= IntMax /\ MinIndex(p) \in Nat
    BY <1>2, <1>3, <1>4, <1>5
  <2>2. k0 = n + MinIndex(p)
    <3>1. PICK m \in Nat : m = n + MinIndex(p)
      BY <1>2, <2>1
    <3>2. ToInt(m) = m
      BY <1>3, <2>1, <3>1 DEF ToInt
    <3>3. k0 = ToInt(n + MinIndex(p))
      BY <1>1 DEF NextIndex
    <3>4. QED
      BY <3>1, <3>2, <3>3
  <2>3. QED
    BY <1>2, <1>3, <1>4, <1>5, <2>2 DEF Owner
<1>7. \A j \in DOMAIN iMap[p] : Owner(j) = p => j < k0
  <2>1. \A j \in DOMAIN iMap[p] : Owner(j) = p => j < MinIndex(p) + n
    BY <1>1 DEF Holding, Bounds
  <2>2. MinIndex(p) + n = n + MinIndex(p)
    BY <1>2, MinIndexInt
  <2>3. QED
    BY <1>6, <2>1, <2>2
<1>8. k0 \in Int
  BY <1>2, <1>6, MinIndexInt
<1>9. k0 \notin DOMAIN iMap[p]
  BY <1>6, <1>7, <1>8
<1>10. \A q \in Peer : k0 \notin DOMAIN iMap[q]
  BY <1>6, <1>9 DEF Holding, Bounds
<1>11. QED
  BY <1>1, <1>2, <1>6, <1>7, <1>10, MinIndexInt

LEMMA SendBeginHolds ==
    ASSUME TypeOK, Holding, NEW p \in Peer, NEW t \in Types, SendBegin(p, t), sends < Half
    PROVE  Holding'
<1>1. PICK o : o = Pick(p, t)
  OBVIOUS
<1>2. PICK k0 : k0 = NextIndex(p)
  OBVIOUS
<1>3. PICK pl : pl = PoolLess(p, t)
  OBVIOUS
<1>4. PICK new : new = [Picked(p, t) EXCEPT !.index = k0]
  OBVIOUS
<1>5. /\ sending[p] = NotSending /\ sends' = sends + 1 /\ pool' = pl
      /\ sending' = [sending EXCEPT ![p] = [proc |-> o, index |-> k0]]
      /\ obj' = Store(p, o, new)
      /\ UNCHANGED <<iMap, wire>> /\ UNCHANGED <<iQueue, iBackQueue>>
  BY <1>1, <1>2, <1>3, <1>4 DEF SendBegin
<1>6. Place(p) /\ Budget /\ (\A q \in Peer : Bounds(q)) /\ OneToken
  BY DEF Holding
<1>7. /\ o \in Idle(p) \/ o \notin Ids(p)
      /\ o \in Number /\ o \notin Waiting(p)
      /\ New(Picked(p, t)) /\ Spare(p, o, pl)
  BY <1>1, <1>3, <1>6, PickNew
<1>8. k0 \in Index /\ Picked(p, t) \in Processor /\ Standing(Picked(p, t))
      /\ o \in 1..Len(obj[p]) + 1
  BY <1>1, <1>2, NextIndexType, PickType
<1>9. new \in Processor /\ New(new) /\ new.index = k0
  BY <1>4, <1>7, <1>8 DEF Processor, New
<1>10. /\ obj'[p][o] = new /\ \A x \in Ids(p) : x # o => obj'[p][x] = obj[p][x]
       /\ \A q \in Peer : q # p => obj'[q] = obj[q]
  BY <1>5, <1>8, <1>9, StoreAt
<1>11. /\ sending'[p].proc = o /\ sending'[p].index = k0 /\ sending'[p] # NotSending
       /\ \A q \in Peer : q # p => sending'[q] = sending[q]
  <2>1. o # 0
    BY <1>7 DEF Number
  <2>2. QED
    BY <1>5, <2>1 DEF TypeOK, HoldersOK, NotSending
<1>12. /\ Waiting(p)' = Waiting(p) /\ NoTwice(Queued(p))'
       /\ \A q \in Peer : iQueue'[q] = iQueue[q] /\ iBackQueue'[q] = iBackQueue[q]
  <2>1. NoTwice(Queued(p))
    BY <1>6 DEF Place
  <2>2. QED
    BY <1>5, <2>1, QueuesKept
<1>13. Arranged(p, o, t, pl)
  BY <1>5, <1>7, <1>9, <1>10, <1>11, <1>12 DEF Arranged
<1>14. /\ Place(p)' /\ Idle(p)' \subseteq Idle(p) \cup {o}
       /\ \A q \in Peer : q # p => pool'[q] = pool[q]
  BY <1>6, <1>7, <1>13, PlaceStep
<1>15. StepOf(p, o, k0)
  <2>1. Elsewhere(p)
    BY <1>5, <1>10, <1>11, <1>12, <1>14 DEF Elsewhere
  <2>2. QED
    BY <1>5, <1>7, <1>10, <1>11, <1>12, <1>14, <2>1 DEF StepOf
<1>16. /\ Owner(k0) = p /\ k0 = MinIndex(p) + Cardinality(DOMAIN iMap[p])
       /\ \A q \in Peer : k0 \notin DOMAIN iMap[q]
       /\ \A j \in DOMAIN iMap[p] : Owner(j) = p => j < k0
  BY <1>2, NewIndex
<1>17. Budget'
  <2>1. Used' = Used /\ IsFiniteSet(Used)
    BY <1>5, <1>6 DEF Used, Budget
  <2>2. /\ Open(p) = 0 /\ Open(p)' = 1 /\ Open(Other(p))' = Open(Other(p))
        /\ Open(Other(p)) \in Nat
    BY <1>5, <1>11, Peers DEF Open
  <2>3. Cardinality(Used) + Open(p) + Open(Other(p)) <= sends
        /\ Cardinality(Used) \in Nat /\ sends \in Nat
    <3>1. Cardinality(Used) \in Nat /\ sends \in Nat
      BY <2>1, FS_CardinalityType, BoundAssumption DEF TypeOK
    <3>2. Open("initiator") \in Nat /\ Open("acceptor") \in Nat
      BY DEF Open
    <3>3. Cardinality(Used) + Open("initiator") + Open("acceptor") <= sends
      BY <1>6 DEF Budget
    <3>4. QED
      BY <3>1, <3>2, <3>3 DEF Other, Peer
  <2>4. Cardinality(Used) + Open(p)' + Open(Other(p))' <= sends'
    BY <1>5, <2>2, <2>3
  <2>5. Cardinality(Used) + Open("initiator")' + Open("acceptor")' <= sends'
    BY <2>2, <2>3, <2>4 DEF Other, Peer
  <2>6. QED
    BY <2>1, <2>5 DEF Budget
<1>18. \A q \in Peer : Bounds(q)'
  <2>1. ASSUME NEW q \in Peer, q # p PROVE Bounds(q)'
    BY <1>5, <1>6, <1>11, <2>1 DEF Bounds
  <2>2. Bounds(p)'
    <3>1. k0 <= MinIndex(p) + Cardinality(DOMAIN iMap[p])
      BY <1>16, MapFinite, MinIndexInt
    <3>2. QED
      BY <1>5, <1>6, <1>11, <1>16, <3>1 DEF Bounds
  <2>3. QED
    BY <2>1, <2>2
<1>19. ASSUME NEW q \in Peer, NEW x \in Waiting(q)'
       PROVE  /\ x \in Waiting(q) /\ obj'[q][x] = obj[q][x]
              /\ obj[q][x].index # k0
  <2>1. x \in Waiting(q) /\ obj'[q][x] = obj[q][x]
    <3>1. CASE q # p
      BY <1>15, <1>19, <3>1, OtherKept DEF StepOf
    <3>2. CASE q = p
      BY <1>7, <1>10, <1>12, <1>19, <3>2, HeldExist
    <3>3. QED
      BY <3>1, <3>2
  <2>2. obj[q][x].index \in DOMAIN iMap[q]
    BY <2>1 DEF Holding, WaitOK
  <2>3. QED
    BY <1>16, <2>1, <2>2
<1>20. OneToken'
  BY <1>5, <1>6, <1>19, TokenKept
<1>21. \A q \in Peer : \A i \in DOMAIN wire[q] : wire[q][i].transaction # k0
  BY <1>16 DEF Holding, PacketOK
<1>22. Stepped(p, o, k0)
  BY <1>5, <1>7, <1>12, <1>14, <1>15, <1>17, <1>18, <1>19, <1>20, <1>21 DEF Stepped
<1>23. QED
  BY <1>22, HoldingStep

LEMMA SendEndHolds ==
    ASSUME TypeOK, Holding, NEW p \in Peer, SendEnd(p)
    PROVE  Holding'
<1>1. PICK o : o = sending[p].proc
  OBVIOUS
<1>2. PICK k0 : k0 = sending[p].index
  OBVIOUS
<1>3. /\ sending[p] # NotSending /\ Registers(p, k0, o) /\ Pushes(p, o)
      /\ sending' = [sending EXCEPT ![p] = NotSending]
      /\ obj' = obj /\ pool' = pool /\ sends' = sends /\ UNCHANGED wire
  BY <1>1, <1>2 DEF SendEnd, Registers, Pushes
<1>4. Place(p) /\ Budget /\ (\A q \in Peer : Bounds(q)) /\ OneToken
  BY DEF Holding
<1>5. /\ o \in Ids(p) /\ o \notin Idle(p) /\ o \notin Waiting(p)
      /\ obj[p][o].index = k0 /\ New(obj[p][o]) /\ NoTwice(Queued(p))
  BY <1>1, <1>2, <1>3, <1>4, HeldExist DEF Place
<1>6. o \in Number /\ Ids(p) \subseteq Number
  BY <1>5 DEF Ids, Number
<1>7. /\ Owner(k0) = p /\ k0 <= MinIndex(p) + Cardinality(DOMAIN iMap[p])
      /\ \A j \in DOMAIN iMap[p] : Owner(j) = p => j < k0
      /\ k0 \in Int
  BY <1>2, <1>3, <1>4 DEF Bounds, TypeOK, HoldersOK, Index
<1>8. \A q \in Peer : k0 \notin DOMAIN iMap[q]
  <2>1. k0 \notin DOMAIN iMap[p]
    BY <1>7
  <2>2. QED
    BY <1>4, <1>7, <2>1 DEF Bounds
<1>9. /\ sending'[p] = NotSending /\ sending'[p].proc = 0
      /\ \A q \in Peer : q # p => sending'[q] = sending[q]
  BY <1>3 DEF TypeOK, HoldersOK, NotSending
<1>10. /\ Waiting(p)' = Waiting(p) \cup {o} /\ NoTwice(Queued(p))'
       /\ \A q \in Peer : q # p => iQueue'[q] = iQueue[q] /\ iBackQueue'[q] = iBackQueue[q]
  BY <1>3, <1>5, <1>6, Pushed
<1>11. /\ DOMAIN iMap'[p] = DOMAIN iMap[p] \cup {k0} /\ iMap'[p][k0] = o
       /\ \A k \in DOMAIN iMap[p] : k # k0 => iMap'[p][k] = iMap[p][k]
       /\ \A q \in Peer : q # p => iMap'[q] = iMap[q]
       /\ Cardinality(DOMAIN iMap'[p]) = Cardinality(DOMAIN iMap[p]) + 1
  BY <1>3, <1>8, Registered
<1>12. PICK t \in Types : t = obj[p][o].type
  <2>1. obj[p][o] \in Processor
    <3>1. obj[p] \in Seq(Processor) /\ o \in 1..Len(obj[p])
      BY <1>5 DEF TypeOK, ObjectsOK, Ids
    <3>2. QED
      BY <3>1, ElementOfSeq
  <2>2. QED
    BY <2>1 DEF Processor
<1>13. Arranged(p, o, t, pool)
  BY <1>3, <1>9, <1>10 DEF Arranged
<1>14. /\ Place(p)' /\ Idle(p)' \subseteq Idle(p) \cup {o}
       /\ \A q \in Peer : q # p => pool'[q] = pool[q]
  <2>1. Spare(p, o, pool)
    BY <1>4, <1>5, PoolSame
  <2>2. QED
    BY <1>4, <1>6, <1>13, <2>1, PlaceStep
<1>15. StepOf(p, o, k0)
  <2>1. Elsewhere(p)
    BY <1>3, <1>9, <1>10, <1>11, <1>14 DEF Elsewhere
  <2>2. QED
    BY <1>1, <1>3, <1>8, <1>9, <1>10, <1>11, <1>14, <2>1 DEF StepOf
<1>16. Budget'
  <2>1. Used' = Used \cup {k0} /\ k0 \notin Used /\ IsFiniteSet(Used)
    BY <1>4, <1>8, <1>11 DEF Used, Budget, Peer
  <2>2. /\ IsFiniteSet(Used') /\ Cardinality(Used') = Cardinality(Used) + 1
        /\ Cardinality(Used) \in Nat
    BY <2>1, FS_AddElement, FS_CardinalityType
  <2>3. /\ Open(p) = 1 /\ Open(p)' = 0 /\ Open(Other(p))' = Open(Other(p))
        /\ Open("initiator") \in Nat /\ Open("acceptor") \in Nat
    BY <1>3, <1>9, Peers DEF Open
  <2>4. sends \in Nat
    BY BoundAssumption DEF TypeOK
  <2>5. Cardinality(Used) + Open("initiator") + Open("acceptor") <= sends
    BY <1>4 DEF Budget
  <2>6. CASE p = "initiator"
    <3>1. Open("initiator") = 1 /\ Open("initiator")' = 0 /\ Open("acceptor")' = Open("acceptor")
      BY <2>3, <2>6 DEF Other
    <3>2. Cardinality(Used') + Open("initiator")' + Open("acceptor")' <= sends'
      BY <1>3, <2>2, <2>3, <2>4, <2>5, <3>1
    <3>3. QED
      BY <2>2, <3>2 DEF Budget
  <2>7. CASE p = "acceptor"
    <3>1. Open("acceptor") = 1 /\ Open("acceptor")' = 0 /\ Open("initiator")' = Open("initiator")
      BY <2>3, <2>7 DEF Other
    <3>2. Cardinality(Used') + Open("initiator")' + Open("acceptor")' <= sends'
      BY <1>3, <2>2, <2>3, <2>4, <2>5, <3>1
    <3>3. QED
      BY <2>2, <3>2 DEF Budget
  <2>8. QED
    BY <2>6, <2>7 DEF Peer
<1>17. \A q \in Peer : Bounds(q)'
  <2>1. \A q \in Peer : DOMAIN iMap[q] \subseteq DOMAIN iMap'[q]
    BY <1>11
  <2>2. ASSUME NEW q \in Peer, q # p PROVE Bounds(q)'
    BY <1>4, <1>9, <1>11, <2>1, <2>2, Peers DEF Bounds
  <2>3. Cardinality(DOMAIN iMap[p]) \in Nat /\ MinIndex(p) \in Nat
    BY MapFinite, MinIndexInt
  <2>4. ASSUME NEW k \in DOMAIN iMap'[p]
        PROVE  /\ k \in DOMAIN iMap'[Owner(k)]
               /\ Owner(k) = p => k < MinIndex(p) + Cardinality(DOMAIN iMap'[p])
    <3>1. CASE k = k0
      BY <1>7, <1>11, <2>3, <3>1
    <3>2. CASE k \in DOMAIN iMap[p]
      <4>1. /\ k \in DOMAIN iMap[Owner(k)]
            /\ Owner(k) = p => k < MinIndex(p) + Cardinality(DOMAIN iMap[p])
        BY <1>4, <3>2 DEF Bounds
      <4>2. k \in Int
        BY <3>2 DEF TypeOK, HoldersOK, Index
      <4>3. QED
        BY <1>11, <2>1, <2>3, <4>1, <4>2, Peers
    <3>3. QED
      BY <1>11, <2>4, <3>1, <3>2
  <2>5. Bounds(p)'
    BY <1>9, <2>4 DEF Bounds
  <2>6. QED
    BY <2>2, <2>5
<1>18. ASSUME NEW q \in Peer, NEW x \in Waiting(q)', q = p => x # o
       PROVE  /\ x \in Waiting(q) /\ obj[q][x].index # k0
  <2>1. x \in Waiting(q)
    <3>1. CASE q # p
      BY <1>15, <1>18, <3>1, OtherKept DEF StepOf
    <3>2. CASE q = p
      BY <1>10, <1>18, <3>2
    <3>3. QED
      BY <3>1, <3>2
  <2>2. obj[q][x].index \in DOMAIN iMap[q]
    BY <2>1 DEF Holding, WaitOK
  <2>3. QED
    BY <1>8, <2>1, <2>2
<1>19. \A q \in Peer : \A i \in DOMAIN wire[q] : wire[q][i].transaction # k0
  BY <1>8 DEF Holding, PacketOK
<1>20. OneToken'
  <2>1. ASSUME NEW r \in Peer, NEW x \in Waiting(r)'
        PROVE  \/ x \in Waiting(r) /\ obj'[r][x].index = obj[r][x].index
               \/ \A q \in Peer : \A i \in DOMAIN wire[q] :
                     wire[q][i].transaction # obj'[r][x].index
    <3>1. CASE r = p /\ x = o
      BY <1>3, <1>5, <1>19, <3>1
    <3>2. CASE ~(r = p /\ x = o)
      BY <1>3, <1>18, <2>1, <3>2
    <3>3. QED
      BY <3>1, <3>2
  <2>2. QED
    BY <1>3, <1>4, <2>1, TokenKept
<1>21. WaitOK(p, o)'
  <2>1. k0 \notin DOMAIN iMap'[Other(p)]
    BY <1>8, <1>11, Peers
  <2>2. obj'[p][o].index = k0 /\ New(obj'[p][o]) /\ ~obj'[p][o].resendable
    BY <1>3, <1>5 DEF New
  <2>3. QED
    BY <1>7, <1>11, <2>1, <2>2 DEF WaitOK
<1>22. Stepped(p, o, k0)
  BY <1>3, <1>14, <1>15, <1>16, <1>17, <1>18, <1>19, <1>20, <1>21 DEF Stepped
<1>23. QED
  BY <1>22, HoldingStep
-----------------------------------------------------------------------------
LEMMA InitHolds == Init => Holding
<1> SUFFICES ASSUME Init PROVE Holding
  OBVIOUS
<1>1. ASSUME NEW p \in Peer
      PROVE  /\ iMap[p] = << >> /\ DOMAIN iMap[p] = {} /\ sending[p] = NotSending
             /\ Queued(p) = <<>> /\ wire[p] = <<>> /\ Idle(p) = {} /\ Waiting(p) = {}
             /\ \A t \in Types : pool[p][t] = <<>>
  <2>1. /\ iMap[p] = << >> /\ sending[p] = NotSending /\ wire[p] = <<>>
        /\ iQueue[p] = <<>> /\ iBackQueue[p] = <<>>
        /\ \A t \in Types : pool[p][t] = <<>>
    BY <1>1 DEF Init
  <2>2. Queued(p) = <<>>
    BY <2>1 DEF Queued
  <2>3. DOMAIN iMap[p] = {} /\ Waiting(p) = {} /\ Idle(p) = {}
    BY <2>1, <2>2 DEF Waiting, Idle
  <2>4. QED
    BY <2>1, <2>2, <2>3
<1>2. Budget
  <2>1. Used = {} /\ Open("initiator") = 0 /\ Open("acceptor") = 0 /\ sends = 0
    BY <1>1 DEF Used, Open, Init, Peer
  <2>2. QED
    BY <2>1, FS_EmptySet DEF Budget
<1>3. \A p \in Peer : Bounds(p)
  BY <1>1 DEF Bounds
<1>4. ASSUME NEW p \in Peer PROVE Place(p)
  BY <1>1 DEF Place, NotSending, NoTwice, Spread, Values
<1>5. \A q \in Peer : DOMAIN wire[q] = {}
  BY <1>1
<1>6. OneToken
  BY <1>5, Peers DEF OneToken
<1>7. QED
  BY <1>1, <1>2, <1>3, <1>4, <1>5, <1>6 DEF Holding

(* The sends still allowed after a step were allowed before it.            *)
LEMMA SendsGrow ==
    ASSUME TypeOK, [Next]_vars, sends' <= Half
    PROVE  sends <= Half
<1>1. sends \in Nat /\ Half \in Int
  BY BoundAssumption DEF TypeOK, Half
<1>2. sends' = sends \/ sends' = sends + 1
  BY DEF Next, vars, SendBegin, SendEnd, Resend, FirstStep, NoLine, ReceiveFailure, ReceiveStep
<1>3. QED
  BY <1>1, <1>2

LEMMA StutterHolds == Holding /\ UNCHANGED vars => Holding'
<1> SUFFICES ASSUME Holding, UNCHANGED vars PROVE Holding'
  OBVIOUS
<1>1. /\ iMap' = iMap /\ iQueue' = iQueue /\ iBackQueue' = iBackQueue /\ pool' = pool
      /\ obj' = obj /\ sending' = sending /\ wire' = wire /\ sends' = sends
  BY DEF vars
<1>2. Budget' <=> Budget
  BY <1>1 DEF Budget, Used, Open
<1>3. \A p \in Peer : Queued(p)' = Queued(p)
  BY <1>1 DEF Queued
<1>4. \A p \in Peer : Idle(p)' = Idle(p) /\ Waiting(p)' = Waiting(p)
  BY <1>1, <1>3 DEF Idle, Waiting
<1>5. \A p \in Peer : Bounds(p)' <=> Bounds(p)
  BY <1>1 DEF Bounds
<1>6. \A p \in Peer : Place(p)' <=> Place(p)
  BY <1>1, <1>3, <1>4 DEF Place
<1>7. \A p \in Peer : \A k : Resting(p, k)' <=> Resting(p, k)
  BY <1>1, <1>4 DEF Resting
<1>8. \A p \in Peer : \A o : WaitOK(p, o)' <=> WaitOK(p, o)
  BY <1>1, <1>7, Peers DEF WaitOK
<1>9. \A q \in Peer : \A pkt : PacketOK(q, pkt)' <=> PacketOK(q, pkt)
  BY <1>1, <1>7, Peers DEF PacketOK
<1>10. OneToken' <=> OneToken
  BY <1>1, <1>4 DEF OneToken
<1>11. \A q \in Peer : \A i \in DOMAIN wire'[q] : PacketOK(q, wire[q][i])'
  <2> SUFFICES ASSUME NEW q \in Peer, NEW i \in DOMAIN wire[q] PROVE PacketOK(q, wire[q][i])'
    BY <1>1
  <2>1. PICK pkt : pkt = wire[q][i]
    OBVIOUS
  <2>2. PacketOK(q, pkt)'
    BY <1>9, <2>1 DEF Holding
  <2>3. QED
    BY <1>1, <2>1, <2>2 DEF PacketOK
<1>12. QED
  BY <1>2, <1>4, <1>5, <1>6, <1>8, <1>10, <1>11 DEF Holding
-----------------------------------------------------------------------------
(* The inductive invariant, with the placement of processors as long as no *)
(* index is used twice.                                                    *)
LEMMA HoldingKept ==
    ASSUME TypeOK, Holding, [Next]_vars, sends' <= Half
    PROVE  Holding'
<1>1. ASSUME NEW p \in Peer, NEW t \in Types, SendBegin(p, t) PROVE Holding'
  <2>1. sends' = sends + 1 /\ sends \in Nat /\ Half \in Int
    BY <1>1, BoundAssumption DEF SendBegin, TypeOK, Half
  <2>2. sends < Half
    BY <2>1
  <2>3. QED
    BY <1>1, <2>2, SendBeginHolds
<1>2. ASSUME NEW p \in Peer, SendEnd(p) PROVE Holding'
  BY <1>2, SendEndHolds
<1>3. ASSUME NEW p \in Peer, Resend(p) PROVE Holding'
  BY <1>3, ResendHolds
<1>4. ASSUME NEW p \in Peer, FirstStep(p) PROVE Holding'
  BY <1>4, FirstStepHolds
<1>5. ASSUME NEW p \in Peer, NoLine(p) PROVE Holding'
  BY <1>5, NoLineHolds
<1>6. ASSUME NEW p \in Peer, ReceiveFailure(p) PROVE Holding'
  BY <1>6, ReceiveFailureHolds
<1>7. ASSUME NEW p \in Peer, ReceiveStep(p) PROVE Holding'
  BY <1>7, ReceiveStepHolds
<1>8. CASE UNCHANGED vars
  BY <1>8, StutterHolds
<1>9. QED
  BY <1>1, <1>2, <1>3, <1>4, <1>5, <1>6, <1>7, <1>8 DEF Next

(* Along every behaviour the peers' processors are well placed until the   *)
(* indexes of one of them may run out.                                     *)
THEOREM Invariant == Spec => []IInv
<1>1. Init => IInv
  BY InitType, InitHolds DEF IInv
<1>2. IInv /\ TypeOK' /\ [Next]_vars => IInv'
  <2> SUFFICES ASSUME IInv, TypeOK', [Next]_vars, (sends <= Half)' PROVE Holding'
    BY DEF IInv
  <2>1. TypeOK /\ sends' <= Half
    BY DEF IInv, Half
  <2>2. sends <= Half
    BY <2>1, SendsGrow
  <2>3. QED
    BY <2>1, <2>2, HoldingKept DEF IInv
<1>3. QED
  BY <1>1, <1>2, TypeCorrect, PTL DEF Spec

LEMMA HolderAlone ==
    ASSUME TypeOK, Holding
    PROVE  SoleHolder
<1> SUFFICES ASSUME NEW p \in Peer
             PROVE  /\ Idle(p) \cap Waiting(p) = {}
                    /\ sending[p].proc \notin Idle(p) \cup Waiting(p)
                    /\ Cardinality(Waiting(p)) = Len(Queued(p))
                    /\ \A t, u \in Types : \A i \in DOMAIN pool[p][t], j \in DOMAIN pool[p][u] :
                          pool[p][t][i] = pool[p][u][j] => t = u /\ i = j
                    /\ \A i \in DOMAIN wire[Other(p)] :
                          LET pkt == wire[Other(p)][i]
                          IN  Known(p, pkt) =>
                                /\ obj[p][iMap[p][pkt.transaction]].index = pkt.transaction
                                /\ iMap[p][pkt.transaction] \notin
                                       Idle(p) \cup Waiting(p) \cup {sending[p].proc}
  BY DEF SoleHolder
<1>1. Place(p)
  BY DEF Holding
<1>2. Idle(p) \cap Waiting(p) = {} /\ sending[p].proc \notin Idle(p) \cup Waiting(p)
  BY <1>1 DEF Place
<1>3. Cardinality(Waiting(p)) = Len(Queued(p))
  <2>1. Queued(p) \in Seq(Ids(p)) /\ Waiting(p) = Values(Queued(p)) /\ NoTwice(Queued(p))
    BY <1>1, HeldExist DEF Place
  <2>2. QED
    BY <2>1, CountOnce
<1>4. \A t, u \in Types : \A i \in DOMAIN pool[p][t], j \in DOMAIN pool[p][u] :
          pool[p][t][i] = pool[p][u][j] => t = u /\ i = j
  BY <1>1 DEF Place, Spread
<1>5. ASSUME NEW i \in DOMAIN wire[Other(p)], NEW pkt, pkt = wire[Other(p)][i],
             Known(p, pkt)
      PROVE  /\ obj[p][iMap[p][pkt.transaction]].index = pkt.transaction
             /\ iMap[p][pkt.transaction] \notin
                    Idle(p) \cup Waiting(p) \cup {sending[p].proc}
  <2>1. Other(p) \in Peer /\ Other(Other(p)) = p
    BY Peers
  <2>2. PacketOK(Other(p), pkt)
    BY <1>5, <2>1 DEF Holding
  <2>3. Resting(p, pkt.transaction)
    BY <1>5, <2>1, <2>2 DEF PacketOK, Known
  <2>4. QED
    BY <2>3 DEF Resting
<1>6. QED
  BY <1>2, <1>3, <1>4, <1>5

LEMMA PoolClean ==
    ASSUME TypeOK, Holding
    PROVE  CleanPool
<1> SUFFICES ASSUME NEW p \in Peer, NEW t \in Types, NEW i \in DOMAIN pool[p][t],
                    NEW rec, rec = obj[p][pool[p][t][i]]
             PROVE  AsNew(rec, t)
  BY DEF CleanPool
<1>1. pool[p][t][i] \in Values(pool[p][t])
  BY DEF Values
<1>2. New(rec) /\ rec.type = t
  BY <1>1 DEF Holding, Place
<1>3. pool[p][t][i] \in Ids(p)
  <2>1. pool[p][t] \in Seq(Ids(p))
    BY HeldExist
  <2>2. QED
    BY <2>1
<1>4. rec \in Processor
  BY <1>3 DEF TypeOK, ObjectsOK, Ids
<1>5. rec = [type |-> rec.type, index |-> rec.index, position |-> rec.position,
             step |-> rec.step, resendable |-> rec.resendable, failed |-> rec.failed,
             flagged |-> rec.flagged]
  BY <1>4 DEF Processor
<1>6. rec.resendable = FALSE /\ rec.failed = FALSE /\ rec.position = "HOST" /\ rec.step = 1
  BY <1>2, <1>4 DEF New, Processor
<1>7. rec = [type |-> t, index |-> rec.index, position |-> "HOST",
             step |-> 1, resendable |-> FALSE, failed |-> FALSE, flagged |-> rec.flagged]
  BY <1>2, <1>5, <1>6
<1>8. PICK k, f : k = rec.index /\ f = rec.flagged
  OBVIOUS
<1>9. [Fresh(t) EXCEPT !.index = k, !.flagged = f]
          = [type |-> t, index |-> k, position |-> "HOST",
             step |-> 1, resendable |-> FALSE, failed |-> FALSE, flagged |-> f]
  <2>1. PICK new : new = [Fresh(t) EXCEPT !.index = k, !.flagged = f]
    OBVIOUS
  <2>2. Fresh(t) \in Processor /\ k \in Index /\ f \in BOOLEAN
    BY <1>4, <1>8, BoundAssumption DEF Fresh, Processor, Index, Side
  <2>3. new \in Processor
    BY <2>1, <2>2 DEF Processor
  <2>4. /\ new.type = t /\ new.index = k /\ new.position = "HOST"
        /\ new.step = 1 /\ new.resendable = FALSE /\ new.failed = FALSE /\ new.flagged = f
    BY <2>1, <2>2 DEF Fresh, Processor
  <2>5. new = [type |-> new.type, index |-> new.index, position |-> new.position,
               step |-> new.step, resendable |-> new.resendable, failed |-> new.failed,
               flagged |-> new.flagged]
    BY <2>3 DEF Processor
  <2>6. QED
    BY <2>1, <2>4, <2>5
<1>10. QED
  BY <1>7, <1>8, <1>9 DEF AsNew

(* A processor object has one holder at a time (the pool, a queue, send())  *)
(* and the processor of a transaction under way is held by nobody, in every *)
(* connection whose peers started no more than half of INT_MAX transactions.*)
THEOREM Holders == Spec => [](sends <= Half => SoleHolder)
<1>1. IInv => (sends <= Half => SoleHolder)
  BY HolderAlone DEF IInv
<1>2. QED
  BY <1>1, Invariant, PTL

(* What the pool hands out acts as new: of the transaction that an idle     *)
(* processor served before, nothing is left but its index and possibly the  *)
(* mark of a first visit that failed, in iTransportFlags.                   *)
THEOREM CleanPools == Spec => [](sends <= Half => CleanPool)
<1>1. IInv => (sends <= Half => CleanPool)
  BY PoolClean DEF IInv
<1>2. QED
  BY <1>1, Invariant, PTL
-----------------------------------------------------------------------------
(* The indexes follow TransactionSpace.  What its maps are here:            *)
SpaceMap == [p \in Peer |-> [k \in DOMAIN iMap[p] |->
                                IF Owner(k) = p THEN "HOST" ELSE "SERVER"]]
SpacePending == [p \in Peer |-> IF sending[p] = NotSending THEN << >>
                                ELSE Put(<< >>, "application", sending[p].index)]
SpaceVars == <<SpaceMap, SpacePending, sends, FALSE>>

(* The two specifications compute the same index from the same map.         *)
LEMMA SameIndex ==
    ASSUME NEW p \in Peer
    PROVE  /\ Space!Known(p) = DOMAIN iMap[p]
           /\ Space!NextIndex(p) = NextIndex(p)
<1>1. Space!Known(p) = DOMAIN iMap[p]
  BY DEF Space!Known
<1>2. Space!MinIndex(p) = MinIndex(p)
  BY DEF Space!MinIndex, Space!Half, MinIndex
<1>3. \A n : Space!ToInt(n) = ToInt(n)
  BY DEF Space!ToInt, ToInt
<1>4. \A S : Space!Cardinality(S) = Cardinality(S)
  BY Zenon DEF Space!Cardinality, Cardinality
<1>5. Space!NextIndex(p) = Space!ToInt(Cardinality(DOMAIN iMap[p]) + MinIndex(p))
  BY <1>1, <1>2, <1>4, Zenon DEF Space!NextIndex
<1>6. Space!NextIndex(p) = ToInt(Cardinality(DOMAIN iMap[p]) + MinIndex(p))
  BY <1>3, <1>5, Zenon
<1>7. QED
  BY <1>1, <1>6 DEF NextIndex

(* Who is inside send(), and nothing left when he is out of it.             *)
LEMMA OneInside ==
    ASSUME NEW p \in Peer
    PROVE  /\ sending[p] = NotSending => SpacePending[p] = << >> /\ Space!Inside(p) = {}
           /\ sending[p] # NotSending =>
                 /\ SpacePending[p] = Put(<< >>, "application", sending[p].index)
                 /\ Space!Inside(p) = {"application"}
                 /\ SpacePending[p]["application"] = sending[p].index
                 /\ Space!Drop(SpacePending[p], "application") = << >>
<1>1. ASSUME NEW x
      PROVE  /\ DOMAIN Put(<< >>, "application", x) = {"application"}
             /\ Put(<< >>, "application", x)["application"] = x
             /\ Space!Drop(Put(<< >>, "application", x), "application") = << >>
  <2>1. /\ DOMAIN Put(<< >>, "application", x) = {"application"}
        /\ Put(<< >>, "application", x)["application"] = x
    BY DEF Put
  <2>2. DOMAIN Put(<< >>, "application", x) \ {"application"} = {}
    BY <2>1
  <2>3. Space!Drop(Put(<< >>, "application", x), "application") = << >>
    BY <2>2 DEF Space!Drop
  <2>4. QED
    BY <2>1, <2>3
<1>2. DOMAIN << >> = {}
  OBVIOUS
<1>3. QED
  BY <1>1, <1>2 DEF SpacePending, Space!Inside

(* send() reads the size of the map ...                                     *)
LEMMA SendBeginSpace ==
    ASSUME TypeOK, NEW p \in Peer, NEW t \in Types, SendBegin(p, t)
    PROVE  Space!IndexNext
<1>1. /\ sending[p] = NotSending /\ sends < MaxSends /\ sends' = sends + 1 /\ iMap' = iMap
      /\ sending' = [sending EXCEPT ![p] = [proc |-> Pick(p, t), index |-> NextIndex(p)]]
  BY DEF SendBegin
<1>2. Pick(p, t) # 0
  BY PickType DEF TypeOK, ObjectsOK
<1>3. /\ sending'[p] # NotSending /\ sending'[p].index = NextIndex(p)
      /\ \A q \in Peer : q # p => sending'[q] = sending[q]
  BY <1>1, <1>2 DEF TypeOK, HoldersOK, NotSending
<1>4. SpaceMap' = SpaceMap
  BY <1>1 DEF SpaceMap
<1>5. SpacePending' = [SpacePending EXCEPT ![p] = Put(<< >>, "application", NextIndex(p))]
  BY <1>3 DEF SpacePending
<1>6. SpacePending[p] = << >> /\ Space!Inside(p) = {}
  BY <1>1, OneInside
<1>7. SpacePending' = [SpacePending EXCEPT ![p] = Space!Put(@, "application", Space!NextIndex(p))]
  BY <1>5, <1>6, SameIndex DEF Put, Space!Put
<1>8. Space!Compute(p, "application")
  BY <1>1, <1>4, <1>6, <1>7 DEF Space!Compute, SpaceMap, SpacePending
<1>9. QED
  BY <1>8 DEF Space!IndexNext, Space!Party, Peer

(* ... and inserts under the index it has computed, in its own half.        *)
LEMMA SendEndSpace ==
    ASSUME TypeOK, Holding, NEW p \in Peer, SendEnd(p)
    PROVE  Space!IndexNext
<1>1. PICK k0 : k0 = sending[p].index
  OBVIOUS
<1>2. /\ sending[p] # NotSending /\ sends' = sends
      /\ sending' = [sending EXCEPT ![p] = NotSending]
      /\ Registers(p, k0, sending[p].proc)
  BY <1>1 DEF SendEnd, Registers
<1>3. Owner(k0) = p
  BY <1>1, <1>2 DEF Holding, Bounds
<1>4. /\ DOMAIN iMap'[p] = DOMAIN iMap[p] \cup {k0}
      /\ \A q \in Peer : q # p => iMap'[q] = iMap[q]
  BY <1>2, Registered
<1>5. SpaceMap' = [SpaceMap EXCEPT ![p] = Space!Put(@, k0, "HOST")]
  <2>1. SpaceMap'[p] = Space!Put(SpaceMap[p], k0, "HOST")
    BY <1>3, <1>4 DEF SpaceMap, Space!Put
  <2>2. \A q \in Peer : q # p => SpaceMap'[q] = SpaceMap[q]
    BY <1>4 DEF SpaceMap
  <2>3. QED
    BY <2>1, <2>2 DEF SpaceMap
<1>6. /\ sending'[p] = NotSending
      /\ \A q \in Peer : q # p => sending'[q] = sending[q]
  BY <1>2 DEF TypeOK, HoldersOK
<1>7. /\ Space!Inside(p) = {"application"} /\ SpacePending[p]["application"] = k0
      /\ Space!Drop(SpacePending[p], "application") = << >>
  BY <1>1, <1>2, OneInside
<1>8. SpacePending' = [SpacePending EXCEPT ![p] = Space!Drop(@, "application")]
  BY <1>6, <1>7 DEF SpacePending
<1>9. Space!Insert(p, "application")
  BY <1>2, <1>5, <1>7, <1>8 DEF Space!Insert, SpaceMap, SpacePending
<1>10. QED
  BY <1>9 DEF Space!IndexNext, Space!Party, Peer

(* A packet registers the transaction of the other peer it opens, or none.  *)
LEMMA ReceiveSpace ==
    ASSUME TypeOK, Holding, NEW p \in Peer, NEW pkt, Arrives(p, pkt),
           Lookup(p, pkt), UNCHANGED <<sending, sends>>
    PROVE  [Space!IndexNext]_SpaceVars
<1>1. PICK k0 : k0 = pkt.transaction
  OBVIOUS
<1>2. SpacePending' = SpacePending /\ sends' = sends
  BY DEF SpacePending
<1>3. CASE Known(p, pkt)
  <2>1. iMap' = iMap
    BY <1>3 DEF Lookup
  <2>2. SpaceMap' = SpaceMap
    BY <2>1 DEF SpaceMap
  <2>3. QED
    BY <1>2, <2>2 DEF SpaceVars
<1>4. CASE ~Known(p, pkt)
  <2>1. /\ k0 \in DOMAIN iMap[Other(p)] /\ k0 \notin DOMAIN iMap[p]
        /\ Owner(k0) = Other(p) /\ Other(p) # p
    BY <1>1, <1>4, Handed, Peers DEF Free
  <2>2. Registers(p, k0, Target(p, pkt))
    BY <1>1, <1>4 DEF Lookup, Registers
  <2>3. /\ DOMAIN iMap'[p] = DOMAIN iMap[p] \cup {k0}
        /\ \A q \in Peer : q # p => iMap'[q] = iMap[q]
    BY <2>2, Registered
  <2>4. SpaceMap' = [SpaceMap EXCEPT ![p] = Space!Put(@, k0, "SERVER")]
    <3>1. SpaceMap'[p] = Space!Put(SpaceMap[p], k0, "SERVER")
      BY <2>1, <2>3 DEF SpaceMap, Space!Put
    <3>2. \A q \in Peer : q # p => SpaceMap'[q] = SpaceMap[q]
      BY <2>3 DEF SpaceMap
    <3>3. QED
      BY <3>1, <3>2 DEF SpaceMap
  <2>5. Space!Other(p) = Other(p) /\ Other(p) \in Peer
    BY Peers DEF Space!Other, Other
  <2>6. k0 \in Space!Known(Space!Other(p)) \ Space!Known(p)
    BY <2>1, <2>5, SameIndex
  <2>7. Space!Register(p, k0)
    BY <1>2, <2>4, <2>6 DEF Space!Register, SpaceMap, SpacePending
  <2>8. Space!IndexNext
    BY <2>6, <2>7 DEF Space!IndexNext, Space!Party, Peer
  <2>9. QED
    BY <2>8
<1>5. QED
  BY <1>3, <1>4

(* Every step is a step of TransactionSpace, or changes nothing of it.      *)
LEMMA StepSpace ==
    ASSUME TypeOK, Holding, [Next]_vars
    PROVE  [Space!IndexNext]_SpaceVars
<1>1. ASSUME NEW p \in Peer, NEW t \in Types, SendBegin(p, t) PROVE Space!IndexNext
  BY <1>1, SendBeginSpace
<1>2. ASSUME NEW p \in Peer, SendEnd(p) PROVE Space!IndexNext
  BY <1>2, SendEndSpace
<1>3. ASSUME NEW p \in Peer, Resend(p) \/ FirstStep(p) \/ NoLine(p)
      PROVE  UNCHANGED <<iMap, sending, sends>>
  BY <1>3 DEF Resend, FirstStep, NoLine
<1>4. ASSUME NEW p \in Peer, ReceiveFailure(p) \/ ReceiveStep(p)
      PROVE  [Space!IndexNext]_SpaceVars
  <2>1. PICK pkt : pkt = Head(wire[Other(p)])
    OBVIOUS
  <2>2. Arrives(p, pkt) /\ Lookup(p, pkt) /\ UNCHANGED <<sending, sends>>
    BY <1>4, <2>1 DEF ReceiveFailure, ReceiveStep, Arrives
  <2>3. QED
    BY <2>2, ReceiveSpace
<1>5. ASSUME UNCHANGED <<iMap, sending, sends>> PROVE UNCHANGED SpaceVars
  BY <1>5 DEF SpaceVars, SpaceMap, SpacePending
<1>6. UNCHANGED vars => UNCHANGED <<iMap, sending, sends>>
  BY DEF vars
<1>7. QED
  BY <1>1, <1>2, <1>3, <1>4, <1>5, <1>6 DEF Next

(* Nobody knows an index at the start.                                      *)
LEMMA InitSpace == Init => Space!IndexInit
<1> SUFFICES ASSUME Init PROVE Space!IndexInit
  OBVIOUS
<1>1. \A p \in Peer : iMap[p] = << >> /\ sending[p] = NotSending
  BY DEF Init
<1>2. \A p \in Peer : [k \in DOMAIN iMap[p] |-> IF Owner(k) = p THEN "HOST" ELSE "SERVER"] = << >>
  <2>1. ASSUME NEW p \in Peer PROVE DOMAIN iMap[p] = {}
    BY <1>1
  <2>2. QED
    BY <2>1
<1>3. QED
  BY <1>1, <1>2 DEF Space!IndexInit, Space!Party, Peer, Init

(* The indexes of the transactions are used as TransactionSpace says, with  *)
(* one thread per peer that calls send(), in every connection whose peers   *)
(* started no more than half of INT_MAX transactions: what is proved of     *)
(* TransactionSpace is true of the transactions.                            *)
THEOREM FollowsSpace == Spec /\ [](sends <= Half) => SpaceSpec
<1>1. Init => Space!IndexInit
  BY InitSpace
<1>2. IInv /\ sends <= Half /\ [Next]_vars => [Space!IndexNext]_SpaceVars
  BY StepSpace DEF IInv
<1>3. QED
  BY <1>1, <1>2, Invariant, PTL DEF Spec, SpaceSpec, Space!IndexSpec, Space!indexVars, SpaceVars,
     SpaceMap, SpacePending
-----------------------------------------------------------------------------
(* Transactions arrive in the order they were sent.  The packets of a peer  *)
(* and the processors queued behind them are one line: x is ahead of y.     *)
Ahead(q, x, y) ==
    \/ \E i, j \in DOMAIN wire[q] :
          i < j /\ x = wire[q][i].transaction /\ y = wire[q][j].transaction
    \/ \E i \in DOMAIN wire[q], o \in Waiting(q) :
          x = wire[q][i].transaction /\ y = obj[q][o].index
    \/ \E i, j \in DOMAIN Queued(q) :
          i < j /\ x = obj[q][Queued(q)[i]].index /\ y = obj[q][Queued(q)[j]].index

Coming(q, x) ==
    \/ \E i \in DOMAIN wire[q] : x = wire[q][i].transaction
    \/ \E o \in Waiting(q) : x = obj[q][o].index

Heard(q, x) == x \in DOMAIN iMap[Other(q)]

(* Of what the other peer has not heard of, older goes ahead of newer; and  *)
(* what it has heard of is older.                                           *)
InOrder(q) ==
    /\ \A x, y : Ahead(q, x, y) /\ ~Heard(q, x) /\ ~Heard(q, y) => x < y
    /\ \A x, y : Heard(q, x) /\ Owner(x) = q /\ Coming(q, y) /\ ~Heard(q, y) => x < y

(* A step of the line: nothing overtakes, and only k0 may join, at its end. *)
Flows(q) ==
    /\ \A x, y : Ahead(q, x, y)' => Ahead(q, x, y)
    /\ \A y : Coming(q, y)' => Coming(q, y)
Joins(q, k0) ==
    /\ \A x, y : Ahead(q, x, y)' => Ahead(q, x, y) \/ (Coming(q, x) /\ y = k0)
    /\ \A y : Coming(q, y)' => Coming(q, y) \/ y = k0

(* The processors of a line go on serving the same transactions.            *)
Serving(q) == \A o \in Waiting(q) : obj'[q][o].index = obj[q][o].index

LEMMA LineKept ==
    ASSUME NEW q \in Peer, wire'[q] = wire[q], Queued(q)' = Queued(q), Serving(q)
    PROVE  Flows(q)
<1>1. Waiting(q)' = Waiting(q) /\ \A i \in DOMAIN Queued(q) : Queued(q)[i] \in Waiting(q)
  BY DEF Waiting
<1>2. QED
  BY <1>1 DEF Flows, Ahead, Coming, Serving

(* The first packet leaves the line.                                        *)
LEMMA LineTaken ==
    ASSUME TypeOK, NEW q \in Peer, wire[q] # <<>>, wire'[q] = Tail(wire[q]),
           Queued(q)' = Queued(q), Serving(q)
    PROVE  /\ Flows(q)
           /\ \A y : Coming(q, y)' => Ahead(q, Head(wire[q]).transaction, y)
<1>1. /\ Len(wire[q]) \in Nat \ {0} /\ Head(wire[q]) = wire[q][1]
      /\ DOMAIN wire[q] = 1..Len(wire[q])
      /\ DOMAIN wire'[q] = 1..Len(wire[q]) - 1
      /\ \A i \in 1..Len(wire[q]) - 1 : wire'[q][i] = wire[q][i + 1]
  <2>1. wire[q] \in Seq(Packet)
    BY DEF TypeOK
  <2>2. QED
    BY <2>1, TailPlaces
<1>2. Waiting(q)' = Waiting(q) /\ \A i \in DOMAIN Queued(q) : Queued(q)[i] \in Waiting(q)
  BY DEF Waiting
<1>3. \A i \in DOMAIN wire'[q] : /\ i + 1 \in DOMAIN wire[q] /\ 1 \in DOMAIN wire[q]
                                 /\ wire'[q][i] = wire[q][i + 1] /\ 1 < i + 1
  BY <1>1
<1>4. ASSUME NEW x, NEW y, Ahead(q, x, y)' PROVE Ahead(q, x, y)
  <2>1. CASE \E i, j \in DOMAIN wire'[q] :
                i < j /\ x = wire'[q][i].transaction /\ y = wire'[q][j].transaction
    <3>1. PICK i \in DOMAIN wire'[q], j \in DOMAIN wire'[q] :
              i < j /\ x = wire'[q][i].transaction /\ y = wire'[q][j].transaction
      BY <2>1
    <3>2. i + 1 < j + 1
      BY <1>1, <3>1
    <3>3. QED
      BY <1>3, <3>1, <3>2 DEF Ahead
  <2>2. CASE \E i \in DOMAIN wire'[q], o \in Waiting(q) :
                x = wire'[q][i].transaction /\ y = obj[q][o].index
    BY <1>3, <2>2 DEF Ahead
  <2>3. CASE \E i, j \in DOMAIN Queued(q) :
                i < j /\ x = obj[q][Queued(q)[i]].index /\ y = obj[q][Queued(q)[j]].index
    BY <2>3 DEF Ahead
  <2>4. QED
    BY <1>2, <1>4, <2>1, <2>2, <2>3 DEF Ahead, Serving
<1>5. ASSUME NEW y, Coming(q, y)'
      PROVE  Coming(q, y) /\ Ahead(q, Head(wire[q]).transaction, y)
  <2>1. CASE \E i \in DOMAIN wire'[q] : y = wire'[q][i].transaction
    BY <1>1, <1>3, <2>1 DEF Coming, Ahead
  <2>2. CASE \E o \in Waiting(q) : y = obj[q][o].index
    BY <1>1, <2>2 DEF Coming, Ahead
  <2>3. QED
    BY <1>2, <1>5, <2>1, <2>2 DEF Coming, Serving
<1>6. QED
  BY <1>4, <1>5 DEF Flows

(* The first queued processor is popped, and its packet sent or not.        *)
LEMMA LinePopped ==
    ASSUME TypeOK, NEW q \in Peer, Queued(q) # <<>>, Queued(q)' = Tail(Queued(q)),
           Serving(q),
           \/ wire'[q] = wire[q]
           \/ \E pkt \in Packet : /\ wire'[q] = Append(wire[q], pkt)
                                  /\ pkt.transaction = obj[q][Head(Queued(q))].index
    PROVE  Flows(q)
<1>1. PICK h : h = Head(Queued(q))
  OBVIOUS
<1>2. /\ Len(Queued(q)) \in Nat \ {0} /\ h = Queued(q)[1]
      /\ DOMAIN Queued(q) = 1..Len(Queued(q))
      /\ DOMAIN Queued(q)' = 1..Len(Queued(q)) - 1
      /\ \A i \in 1..Len(Queued(q)) - 1 : Queued(q)'[i] = Queued(q)[i + 1]
  <2>1. Queued(q) \in Seq(Ids(q))
    BY HeldExist
  <2>2. QED
    BY <1>1, <2>1, TailPlaces
<1>3. \A i \in DOMAIN Queued(q)' :
          /\ i + 1 \in DOMAIN Queued(q) /\ 1 \in DOMAIN Queued(q) /\ 1 < i + 1
          /\ Queued(q)'[i] = Queued(q)[i + 1]
  BY <1>2
<1>4. /\ \A i \in DOMAIN Queued(q) : Queued(q)[i] \in Waiting(q)
      /\ \A o \in Waiting(q) : \E i \in DOMAIN Queued(q) : o = Queued(q)[i]
      /\ \A o \in Waiting(q)' : \E i \in DOMAIN Queued(q)' : o = Queued(q)'[i]
  BY DEF Waiting
<1>5. h \in Waiting(q) /\ \A o \in Waiting(q)' : /\ o \in Waiting(q)
                                                /\ obj'[q][o].index = obj[q][o].index
                                                /\ Ahead(q, obj[q][h].index, obj[q][o].index)
  <2>1. h \in Waiting(q)
    BY <1>2, <1>4
  <2>2. ASSUME NEW o \in Waiting(q)'
        PROVE  o \in Waiting(q) /\ Ahead(q, obj[q][h].index, obj[q][o].index)
    <3>1. PICK i \in DOMAIN Queued(q)' : o = Queued(q)'[i]
      BY <1>4
    <3>2. i + 1 \in DOMAIN Queued(q) /\ 1 \in DOMAIN Queued(q) /\ 1 < i + 1 /\ o = Queued(q)[i + 1]
      BY <1>3, <3>1
    <3>3. QED
      BY <1>2, <1>4, <3>2 DEF Ahead
  <2>3. QED
    BY <2>1, <2>2 DEF Serving
<1>6. /\ Len(wire[q]) \in Nat /\ DOMAIN wire[q] = 1..Len(wire[q])
      /\ \A i \in DOMAIN wire[q] : i \in DOMAIN wire'[q] /\ wire'[q][i] = wire[q][i]
      /\ \A i \in DOMAIN wire'[q] : i \notin DOMAIN wire[q] =>
            i = Len(wire[q]) + 1 /\ wire'[q][i].transaction = obj[q][h].index
  <2>1. wire[q] \in Seq(Packet)
    BY DEF TypeOK
  <2>2. CASE wire'[q] = wire[q]
    BY <2>1, <2>2, LenProperties
  <2>3. CASE ~(wire'[q] = wire[q])
    <3>1. PICK pkt \in Packet : /\ wire'[q] = Append(wire[q], pkt)
                                /\ pkt.transaction = obj[q][h].index
      BY <1>1, <2>3
    <3>2. QED
      BY <2>1, <3>1, AppendProperties, LenProperties
  <2>4. QED
    BY <2>2, <2>3
<1>7. ASSUME NEW x, NEW y, Ahead(q, x, y)' PROVE Ahead(q, x, y)
  <2>1. ASSUME NEW i \in DOMAIN wire'[q], NEW j \in DOMAIN wire'[q], i < j,
               x = wire'[q][i].transaction, y = wire'[q][j].transaction
        PROVE  Ahead(q, x, y)
    <3>1. i \in DOMAIN wire[q] /\ wire'[q][i] = wire[q][i]
      BY <1>6, <2>1
    <3>2. CASE j \in DOMAIN wire[q]
      BY <1>6, <2>1, <3>1, <3>2 DEF Ahead
    <3>3. CASE j \notin DOMAIN wire[q]
      BY <1>5, <1>6, <2>1, <3>1, <3>3 DEF Ahead
    <3>4. QED
      BY <3>2, <3>3
  <2>2. ASSUME NEW i \in DOMAIN wire'[q], NEW o \in Waiting(q)',
               x = wire'[q][i].transaction, y = obj'[q][o].index
        PROVE  Ahead(q, x, y)
    <3>1. CASE i \in DOMAIN wire[q]
      BY <1>5, <1>6, <2>2, <3>1 DEF Ahead
    <3>2. CASE i \notin DOMAIN wire[q]
      BY <1>5, <1>6, <2>2, <3>2
    <3>3. QED
      BY <3>1, <3>2
  <2>3. ASSUME NEW i \in DOMAIN Queued(q)', NEW j \in DOMAIN Queued(q)', i < j,
               x = obj'[q][Queued(q)'[i]].index, y = obj'[q][Queued(q)'[j]].index
        PROVE  Ahead(q, x, y)
    <3>1. i + 1 < j + 1
      BY <1>2, <2>3
    <3>2. /\ i + 1 \in DOMAIN Queued(q) /\ j + 1 \in DOMAIN Queued(q)
          /\ Queued(q)'[i] = Queued(q)[i + 1] /\ Queued(q)'[j] = Queued(q)[j + 1]
      BY <1>3, <2>3
    <3>3. x = obj[q][Queued(q)[i + 1]].index /\ y = obj[q][Queued(q)[j + 1]].index
      BY <1>4, <2>3, <3>2 DEF Serving
    <3>4. QED
      BY <3>1, <3>2, <3>3 DEF Ahead
  <2>4. QED
    BY <1>7, <2>1, <2>2, <2>3 DEF Ahead
<1>8. ASSUME NEW y, Coming(q, y)' PROVE Coming(q, y)
  <2>1. ASSUME NEW i \in DOMAIN wire'[q], y = wire'[q][i].transaction PROVE Coming(q, y)
    BY <1>5, <1>6, <2>1 DEF Coming
  <2>2. ASSUME NEW o \in Waiting(q)', y = obj'[q][o].index PROVE Coming(q, y)
    BY <1>5, <2>2 DEF Coming
  <2>3. QED
    BY <1>8, <2>1, <2>2 DEF Coming
<1>9. QED
  BY <1>7, <1>8 DEF Flows

(* A processor joins the line at its end.                                   *)
LEMMA LinePushed ==
    ASSUME TypeOK, NEW q \in Peer, NEW o \in Number, Queued(q)' = Append(Queued(q), o),
           wire'[q] = wire[q], Serving(q), NEW k0, obj'[q][o].index = k0
    PROVE  Joins(q, k0)
<1>1. /\ Len(Queued(q)) \in Nat /\ DOMAIN Queued(q) = 1..Len(Queued(q))
      /\ DOMAIN Queued(q)' = 1..Len(Queued(q)) + 1
      /\ \A i \in 1..Len(Queued(q)) : Queued(q)'[i] = Queued(q)[i]
      /\ Queued(q)'[Len(Queued(q)) + 1] = o
  <2>1. Queued(q) \in Seq(Ids(q)) /\ Ids(q) \subseteq Number
    BY HeldExist DEF Ids, Number
  <2>2. Queued(q) \in Seq(Number)
    BY <2>1, SeqMonotonic
  <2>3. QED
    BY <2>2, AppendProperties, LenProperties
<1>2. /\ \A i \in DOMAIN Queued(q) : Queued(q)[i] \in Waiting(q)
      /\ \A x \in Waiting(q)' : \E i \in DOMAIN Queued(q)' : x = Queued(q)'[i]
  BY DEF Waiting
<1>3. \A x \in Waiting(q)' : \/ x \in Waiting(q) /\ obj'[q][x].index = obj[q][x].index
                             \/ x = o
  BY <1>1, <1>2 DEF Serving
<1>4. ASSUME NEW x, NEW y, Ahead(q, x, y)' PROVE Ahead(q, x, y) \/ (Coming(q, x) /\ y = k0)
  <2>1. ASSUME NEW i \in DOMAIN wire[q], NEW j \in DOMAIN wire[q], i < j,
               x = wire[q][i].transaction, y = wire[q][j].transaction
        PROVE  Ahead(q, x, y)
    BY <2>1 DEF Ahead
  <2>2. ASSUME NEW i \in DOMAIN wire[q], NEW z \in Waiting(q)',
               x = wire[q][i].transaction, y = obj'[q][z].index
        PROVE  Ahead(q, x, y) \/ (Coming(q, x) /\ y = k0)
    BY <1>3, <2>2 DEF Ahead, Coming
  <2>3. ASSUME NEW i \in DOMAIN Queued(q)', NEW j \in DOMAIN Queued(q)', i < j,
               x = obj'[q][Queued(q)'[i]].index, y = obj'[q][Queued(q)'[j]].index
        PROVE  Ahead(q, x, y) \/ (Coming(q, x) /\ y = k0)
    <3>1. i \in DOMAIN Queued(q) /\ Queued(q)'[i] = Queued(q)[i]
      BY <1>1, <2>3
    <3>2. x = obj[q][Queued(q)[i]].index /\ Queued(q)[i] \in Waiting(q)
      BY <1>2, <2>3, <3>1 DEF Serving
    <3>3. CASE j \in DOMAIN Queued(q)
      BY <1>1, <1>2, <2>3, <3>1, <3>2, <3>3 DEF Ahead, Serving
    <3>4. CASE j \notin DOMAIN Queued(q)
      BY <1>1, <2>3, <3>2, <3>4 DEF Coming
    <3>5. QED
      BY <3>3, <3>4
  <2>4. QED
    BY <1>4, <2>1, <2>2, <2>3 DEF Ahead
<1>5. ASSUME NEW y, Coming(q, y)' PROVE Coming(q, y) \/ y = k0
  BY <1>3, <1>5 DEF Coming
<1>6. QED
  BY <1>4, <1>5 DEF Joins

(* What a step may do to the order: who is heard of was first in the line,  *)
(* or is not of this line; who joins the line is heard of or newer than all.*)
LEMMA OrderKept ==
    ASSUME NEW q \in Peer, InOrder(q), Flows(q),
           \A x : Heard(q, x) => Heard(q, x)',
           \A x : Heard(q, x)' /\ ~Heard(q, x) =>
              Owner(x) # q \/ \A y : Coming(q, y)' => Ahead(q, x, y)
    PROVE  InOrder(q)'
<1>1. ASSUME NEW x, NEW y, Ahead(q, x, y)', ~Heard(q, x)', ~Heard(q, y)' PROVE x < y
  BY <1>1 DEF InOrder, Flows
<1>2. ASSUME NEW x, NEW y, Heard(q, x)', Owner(x) = q, Coming(q, y)', ~Heard(q, y)'
      PROVE  x < y
  <2>1. CASE Heard(q, x)
    BY <1>2, <2>1 DEF InOrder, Flows
  <2>2. CASE ~Heard(q, x)
    BY <1>2, <2>2 DEF InOrder
  <2>3. QED
    BY <2>1, <2>2
<1>3. QED
  BY <1>1, <1>2 DEF InOrder

LEMMA OrderJoined ==
    ASSUME NEW q \in Peer, InOrder(q), NEW k0, Joins(q, k0),
           \A x : Heard(q, x)' <=> Heard(q, x),
           \/ Heard(q, k0)
           \/ /\ \A x : Coming(q, x) /\ ~Heard(q, x) => x < k0
              /\ \A x : Heard(q, x) /\ Owner(x) = q => x < k0
    PROVE  InOrder(q)'
<1>1. ASSUME NEW x, NEW y, Ahead(q, x, y)', ~Heard(q, x)', ~Heard(q, y)' PROVE x < y
  BY <1>1 DEF InOrder, Joins
<1>2. ASSUME NEW x, NEW y, Heard(q, x)', Owner(x) = q, Coming(q, y)', ~Heard(q, y)'
      PROVE  x < y
  BY <1>2 DEF InOrder, Joins
<1>3. QED
  BY <1>1, <1>2 DEF InOrder

(* The transactions that a peer is about to tell the other of are its own.  *)
LEMMA OwnNews ==
    ASSUME Holding, NEW q \in Peer, NEW x, Coming(q, x), ~Heard(q, x)
    PROVE  Owner(x) = q /\ x \in DOMAIN iMap[q]
<1>1. CASE \E i \in DOMAIN wire[q] : x = wire[q][i].transaction
  BY <1>1 DEF Holding, PacketOK, Heard
<1>2. CASE \E o \in Waiting(q) : x = obj[q][o].index
  BY <1>2 DEF Holding, WaitOK, Resting, Heard
<1>3. QED
  BY <1>1, <1>2 DEF Coming

Ordered == \A q \in Peer : InOrder(q)

LEMMA SendBeginOrder ==
    ASSUME TypeOK, Holding, Ordered, NEW p \in Peer, NEW t \in Types, SendBegin(p, t)
    PROVE  Ordered' /\ UNCHANGED iMap
<1>1. PICK o : o = Pick(p, t)
  OBVIOUS
<1>2. PICK new : new = [Picked(p, t) EXCEPT !.index = NextIndex(p)]
  OBVIOUS
<1>3. /\ obj' = Store(p, o, new) /\ UNCHANGED <<iMap, wire>> /\ UNCHANGED <<iQueue, iBackQueue>>
  BY <1>1, <1>2 DEF SendBegin
<1>4. o \in 1..Len(obj[p]) + 1 /\ new \in Processor
  <2>1. NextIndex(p) \in Index /\ Picked(p, t) \in Processor /\ o \in 1..Len(obj[p]) + 1
    BY <1>1, NextIndexType, PickType
  <2>2. QED
    BY <1>2, <2>1 DEF Processor
<1>5. o \notin Waiting(p)
  BY <1>1, PickNew DEF Holding
<1>6. ASSUME NEW q \in Peer PROVE Serving(q)
  <2>1. CASE q = p
    <3>1. \A x \in Ids(p) : x # o => obj'[p][x] = obj[p][x]
      BY <1>3, <1>4, StoreAt
    <3>2. Waiting(p) \subseteq Ids(p)
      BY HeldExist
    <3>3. QED
      BY <1>5, <2>1, <3>1, <3>2 DEF Serving
  <2>2. CASE q # p
    BY <1>3, <1>4, <2>2, StoreAt DEF Serving
  <2>3. QED
    BY <2>1, <2>2
<1>7. ASSUME NEW q \in Peer PROVE InOrder(q)'
  <2>1. Queued(q)' = Queued(q) /\ wire'[q] = wire[q]
    BY <1>3, QueuesKept
  <2>2. Flows(q)
    BY <1>6, <2>1, LineKept
  <2>3. QED
    BY <1>3, <2>2, OrderKept DEF Heard, Ordered
<1>8. QED
  BY <1>3, <1>7 DEF Ordered

LEMMA SendEndOrder ==
    ASSUME TypeOK, Holding, Ordered, NEW p \in Peer, SendEnd(p)
    PROVE  /\ Ordered'
           /\ \A q \in Peer : \A k \in DOMAIN iMap'[q] \ DOMAIN iMap[q] : Owner(k) = q
<1>1. PICK o : o = sending[p].proc
  OBVIOUS
<1>2. PICK k0 : k0 = sending[p].index
  OBVIOUS
<1>3. /\ sending[p] # NotSending /\ Registers(p, k0, o) /\ Pushes(p, o) /\ UNCHANGED <<obj, wire>>
  BY <1>1, <1>2 DEF SendEnd, Registers, Pushes
<1>4. o \in Ids(p) /\ o \in Number /\ Ids(p) \subseteq Number /\ obj[p][o].index = k0
  <2>1. Ids(p) \subseteq Number
    BY DEF Ids, Number
  <2>2. o \in Ids(p)
    BY <1>1, <1>3, HeldExist
  <2>3. Place(p)
    BY DEF Holding
  <2>4. QED
    BY <1>1, <1>2, <1>3, <2>1, <2>2, <2>3 DEF Place
<1>5. /\ DOMAIN iMap'[p] = DOMAIN iMap[p] \cup {k0}
      /\ \A q \in Peer : q # p => iMap'[q] = iMap[q]
  BY <1>3, Registered
<1>6. Owner(k0) = p /\ \A j \in DOMAIN iMap[p] : Owner(j) = p => j < k0
  BY <1>2, <1>3 DEF Holding, Bounds
<1>7. \A q \in Peer : Serving(q) /\ wire'[q] = wire[q]
  BY <1>3 DEF Serving
<1>8. /\ Queued(p)' = Append(Queued(p), o)
      /\ \A q \in Peer : q # p => iQueue'[q] = iQueue[q] /\ iBackQueue'[q] = iBackQueue[q]
  BY <1>3, <1>4, Pushed
<1>9. InOrder(p)'
  <2>1. Joins(p, k0)
    BY <1>3, <1>4, <1>7, <1>8, LinePushed
  <2>2. \A x : Heard(p, x)' <=> Heard(p, x)
    BY <1>5, Peers DEF Heard
  <2>3. \A x : Coming(p, x) /\ ~Heard(p, x) => x < k0
    BY <1>6, OwnNews
  <2>4. \A x : Heard(p, x) /\ Owner(x) = p => x < k0
    BY <1>6, Peers DEF Heard, Holding, Bounds
  <2>5. QED
    BY <2>1, <2>2, <2>3, <2>4, OrderJoined DEF Ordered
<1>10. ASSUME NEW q \in Peer, q # p PROVE InOrder(q)'
  <2>1. Queued(q)' = Queued(q)
    BY <1>8, <1>10 DEF Queued
  <2>2. Flows(q)
    BY <1>7, <2>1, LineKept
  <2>3. Other(q) = p
    BY <1>10, Peers
  <2>4. \A x : Heard(q, x) => Heard(q, x)'
    BY <1>5, <2>3 DEF Heard
  <2>5. \A x : Heard(q, x)' /\ ~Heard(q, x) => Owner(x) # q
    BY <1>5, <1>6, <1>10, <2>3 DEF Heard
  <2>6. QED
    BY <2>2, <2>4, <2>5, OrderKept DEF Ordered
<1>11. QED
  BY <1>5, <1>6, <1>9, <1>10 DEF Ordered

LEMMA ForwardOrder ==
    ASSUME TypeOK, Holding, Ordered, NEW p \in Peer, Forward(p)
    PROVE  Ordered' /\ UNCHANGED iMap
<1>1. PICK o : o = Head(Queued(p))
  OBVIOUS
<1>2. PICK rec : rec = obj[p][o]
  OBVIOUS
<1>3. Queued(p) # <<>> /\ PopActual(p) /\ UNCHANGED iMap
  BY DEF Forward, Resend, FirstStep, NoLine
<1>4. o \in 1..Len(obj[p]) + 1 /\ rec \in Processor /\ Standing(rec) /\ rec.type \in Types
  <2>1. o \in Ids(p) /\ rec \in Processor /\ Standing(rec)
    BY <1>1, <1>2, <1>3, QueuedType
  <2>2. QED
    BY <2>1 DEF Ids, Processor, TypeOK, ObjectsOK
<1>5. PICK new \in Processor, sent \in Processor :
          /\ new.index = rec.index /\ sent.index = rec.index
          /\ obj' = obj \/ obj' = Store(p, o, new)
          /\ wire' = wire \/ Transmit(p, sent)
  <2>1. CASE Resend(p)
    BY <1>1, <1>2, <1>4, <2>1 DEF Resend
  <2>2. CASE NoLine(p)
    <3>1. Cleared(rec) \in Processor /\ Cleared(rec).index = rec.index
      BY <1>4, ClearedType DEF Cleared, Processor
    <3>2. QED
      BY <1>1, <1>2, <1>4, <2>2, <3>1 DEF NoLine
  <2>3. CASE FirstStep(p)
    <3>1. PICK line : line = Line[rec.type]
      OBVIOUS
    <3>2. PICK r \in GoOutcomes(line, rec.step, rec.position) :
              LET moved == [rec EXCEPT !.step = r.next, !.resendable = ~IsOver(line, r)]
              IN  \/ obj' = Store(p, o, Cleared(Marked(rec))) /\ wire' = wire
                  \/ Transmit(p, moved) /\ obj' \in {Store(p, o, moved), Store(p, o, Cleared(moved))}
      BY <1>1, <1>2, <2>3, <3>1 DEF FirstStep
    <3>3. PICK over \in BOOLEAN : over <=> IsOver(line, r)
      OBVIOUS
    <3>4. PICK moved : moved = [rec EXCEPT !.step = r.next, !.resendable = ~over]
      OBVIOUS
    <3>5. over = IsOver(line, r)
      BY <3>3 DEF IsOver
    <3>6. moved \in Processor /\ moved.index = rec.index
      <4>1. line \in Seq(Side)
        BY <1>4, <3>1, LineAssumption
      <4>2. r.next \in 1..Len(line) + 1
        BY <1>4, <3>1, <3>2, <4>1, MovedType
      <4>3. moved \in Processor
        BY <1>4, <3>1, <3>4, <4>1, <4>2, ProcessorUpdate
      <4>4. QED
        BY <1>4, <3>4, <4>3 DEF Processor
    <3>7. /\ Cleared(Marked(rec)) \in Processor /\ Cleared(Marked(rec)).index = rec.index
          /\ Cleared(moved) \in Processor /\ Cleared(moved).index = rec.index
      <4>1. Cleared(moved) \in Processor /\ Cleared(moved).index = rec.index
        BY <3>6, ClearedType DEF Cleared, Processor
      <4>2. QED
        BY <1>4, <4>1, MarkedType
    <3>8. \/ obj' = Store(p, o, Cleared(Marked(rec))) /\ wire' = wire
          \/ Transmit(p, moved) /\ obj' \in {Store(p, o, moved), Store(p, o, Cleared(moved))}
      BY <3>2, <3>4, <3>5
    <3>9. QED
      BY <1>4, <3>6, <3>7, <3>8
  <2>4. QED
    BY <2>1, <2>2, <2>3 DEF Forward
<1>6. ASSUME NEW q \in Peer PROVE Serving(q)
  <2>1. CASE obj' = obj
    BY <2>1 DEF Serving
  <2>2. CASE obj' = Store(p, o, new)
    <3>1. /\ obj'[p][o] = new /\ \A x \in Ids(p) : x # o => obj'[p][x] = obj[p][x]
          /\ \A s \in Peer : s # p => obj'[s] = obj[s]
      BY <1>4, <2>2, StoreAt
    <3>2. CASE q = p
      BY <1>2, <1>5, <3>1, <3>2, HeldExist DEF Serving
    <3>3. CASE q # p
      BY <3>1, <3>3 DEF Serving
    <3>4. QED
      BY <3>2, <3>3
  <2>3. QED
    BY <1>5, <2>1, <2>2
<1>7. /\ Queued(p)' = Tail(Queued(p))
      /\ \A q \in Peer : q # p => iQueue'[q] = iQueue[q] /\ iBackQueue'[q] = iBackQueue[q]
  BY <1>3, Popped
<1>8. /\ \/ wire'[p] = wire[p]
         \/ \E pkt \in Packet : /\ wire'[p] = Append(wire[p], pkt)
                                /\ pkt.transaction = obj[p][Head(Queued(p))].index
      /\ \A q \in Peer : q # p => wire'[q] = wire[q]
  <2>1. PacketOf(sent) \in Packet /\ PacketOf(sent).transaction = rec.index
    BY <1>5 DEF PacketOf, Packet, Processor
  <2>2. CASE wire' = wire
    BY <2>2
  <2>3. CASE Transmit(p, sent)
    BY <1>1, <1>2, <2>1, <2>3 DEF Transmit, TypeOK
  <2>4. QED
    BY <1>5, <2>2, <2>3
<1>9. ASSUME NEW q \in Peer PROVE Flows(q)
  <2>1. CASE q = p
    BY <1>3, <1>6, <1>7, <1>8, <2>1, LinePopped
  <2>2. CASE q # p
    <3>1. Queued(q)' = Queued(q)
      BY <1>7, <2>2 DEF Queued
    <3>2. QED
      BY <1>6, <1>8, <2>2, <3>1, LineKept
  <2>3. QED
    BY <2>1, <2>2
<1>10. ASSUME NEW q \in Peer PROVE InOrder(q)'
  BY <1>3, <1>9, OrderKept DEF Heard, Ordered
<1>11. QED
  BY <1>3, <1>10 DEF Ordered

(* A packet is taken from the line of the other peer; its transaction joins *)
(* the line of this one, or not.                                            *)
LEMMA ReceiveOrder ==
    ASSUME TypeOK, Holding, Ordered, NEW p \in Peer, NEW pkt, Arrives(p, pkt),
           Lookup(p, pkt), UNCHANGED <<sending, sends>>,
           wire' = [wire EXCEPT ![Other(p)] = Tail(@)],
           NEW o, o = Target(p, pkt),
           NEW new \in Processor, obj' = Store(p, o, new), new.index = pkt.transaction,
           Pushes(p, o) \/ UNCHANGED <<iQueue, iBackQueue>>
    PROVE  /\ Ordered'
           /\ \A q \in Peer : \A k \in DOMAIN iMap'[q] \ DOMAIN iMap[q] :
                 Owner(k) = Other(q) =>
                     \A j \in DOMAIN iMap[q] : Owner(j) = Other(q) => j < k
<1>1. PICK k0 : k0 = pkt.transaction
  OBVIOUS
<1>2. PICK r : r = Other(p)
  OBVIOUS
<1>3. r \in Peer /\ r # p /\ Other(r) = p
  BY <1>2, Peers
<1>4. /\ k0 \in DOMAIN iMap[r]
      /\ o \in Number /\ o \notin Waiting(p)
      /\ ~Known(p, pkt) => Owner(k0) = r /\ k0 \notin DOMAIN iMap[p]
  BY <1>1, <1>2, Handed DEF Free
<1>5. /\ DOMAIN iMap[p] \subseteq DOMAIN iMap'[p]
      /\ DOMAIN iMap'[p] \subseteq DOMAIN iMap[p] \cup {k0}
      /\ iMap'[r] = iMap[r]
  BY <1>1, <1>3, LookedUp DEF Learnt
<1>6. /\ obj'[p][o] = new /\ \A x \in Ids(p) : x # o => obj'[p][x] = obj[p][x]
      /\ obj'[r] = obj[r]
  <2>1. o \in 1..Len(obj[p]) + 1
    <3>1. pkt \in Packet
      BY Handed DEF Free
    <3>2. QED
      BY <3>1, TargetType
  <2>2. QED
    BY <1>3, <2>1, StoreAt
<1>7. Serving(p) /\ Serving(r)
  BY <1>4, <1>6, HeldExist DEF Serving
<1>8. wire'[r] = Tail(wire[r]) /\ wire[r] # <<>> /\ wire'[p] = wire[p] /\ pkt = Head(wire[r])
  BY <1>2, <1>3 DEF Arrives, TypeOK
<1>9. Queued(r)' = Queued(r)
  <2>1. CASE Pushes(p, o)
    BY <1>3, <2>1 DEF Pushes, Queued, TypeOK, HoldersOK
  <2>2. CASE UNCHANGED <<iQueue, iBackQueue>>
    BY <1>3, <2>2, QueuesKept
  <2>3. QED
    BY <2>1, <2>2
<1>10. Flows(r) /\ \A y : Coming(r, y)' => Ahead(r, k0, y)
  BY <1>1, <1>3, <1>7, <1>8, <1>9, LineTaken
<1>11. InOrder(r)'
  <2>1. \A x : Heard(r, x) => Heard(r, x)'
    BY <1>3, <1>5 DEF Heard
  <2>2. \A x : Heard(r, x)' /\ ~Heard(r, x) => \A y : Coming(r, y)' => Ahead(r, x, y)
    BY <1>3, <1>5, <1>10 DEF Heard
  <2>3. QED
    BY <1>3, <1>10, <2>1, <2>2, OrderKept DEF Ordered
<1>12. InOrder(p)'
  <2>1. \A x : Heard(p, x)' <=> Heard(p, x)
    BY <1>2, <1>5 DEF Heard
  <2>2. CASE UNCHANGED <<iQueue, iBackQueue>>
    <3>1. Flows(p)
      BY <1>7, <1>8, <2>2, QueuesKept, LineKept
    <3>2. QED
      BY <2>1, <3>1, OrderKept DEF Ordered
  <2>3. CASE Pushes(p, o)
    <3>1. Ids(p) \subseteq Number
      BY DEF Ids, Number
    <3>2. Queued(p)' = Append(Queued(p), o)
      BY <1>4, <2>3, <3>1, Pushed
    <3>3. Joins(p, k0)
      BY <1>1, <1>4, <1>6, <1>7, <1>8, <3>2, LinePushed
    <3>4. Heard(p, k0)
      BY <1>2, <1>4 DEF Heard
    <3>5. QED
      BY <2>1, <3>3, <3>4, OrderJoined DEF Ordered
  <2>4. QED
    BY <2>2, <2>3
<1>13. ASSUME NEW q \in Peer, NEW k \in DOMAIN iMap'[q] \ DOMAIN iMap[q], Owner(k) = Other(q),
              NEW j \in DOMAIN iMap[q], Owner(j) = Other(q)
       PROVE  j < k
  <2>1. q = p /\ k = k0 /\ ~Heard(r, k0) /\ Heard(r, j) /\ Owner(j) = r
    BY <1>2, <1>3, <1>5, <1>13, Peers DEF Heard
  <2>2. Coming(r, k0)
    <3>1. wire[r] \in Seq(Packet)
      BY <1>3 DEF TypeOK
    <3>2. 1 \in DOMAIN wire[r] /\ pkt = wire[r][1]
      BY <1>8, <3>1, TailPlaces
    <3>3. QED
      BY <1>1, <3>2 DEF Coming
  <2>3. QED
    BY <1>3, <2>1, <2>2 DEF Ordered, InOrder
<1>14. QED
  BY <1>3, <1>11, <1>12, <1>13, Peers DEF Ordered

LEMMA ReceivesOrder ==
    ASSUME TypeOK, Holding, Ordered, NEW p \in Peer, Backward(p)
    PROVE  /\ Ordered'
           /\ \A q \in Peer : \A k \in DOMAIN iMap'[q] \ DOMAIN iMap[q] :
                 Owner(k) = Other(q) =>
                     \A j \in DOMAIN iMap[q] : Owner(j) = Other(q) => j < k
<1>1. PICK pkt : pkt = Head(wire[Other(p)])
  OBVIOUS
<1>2. PICK o : o = Target(p, pkt)
  OBVIOUS
<1>3. PICK rec0 : rec0 = Targeted(p, pkt)
  OBVIOUS
<1>4. /\ Arrives(p, pkt) /\ Lookup(p, pkt) /\ UNCHANGED <<sending, sends, iQueue>>
      /\ wire' = [wire EXCEPT ![Other(p)] = Tail(@)]
  BY <1>1 DEF Backward, ReceiveFailure, ReceiveStep, Arrives
<1>5. rec0 \in Processor /\ Standing(rec0) /\ rec0.index = pkt.transaction
  BY <1>3, <1>4, Handed, TargetType DEF Free
<1>6. PICK new \in Processor :
          /\ new.index = pkt.transaction /\ obj' = Store(p, o, new)
          /\ Pushes(p, o) \/ UNCHANGED <<iQueue, iBackQueue>>
  <2>1. CASE ReceiveFailure(p)
    <3>1. PICK new : new = [rec0 EXCEPT !.failed = TRUE, !.flagged = TRUE, !.resendable = FALSE]
      OBVIOUS
    <3>2. obj' = Store(p, o, new) /\ UNCHANGED <<iQueue, iBackQueue>>
      BY <1>1, <1>2, <1>3, <2>1, <3>1 DEF ReceiveFailure
    <3>3. new \in Processor /\ new.index = pkt.transaction
      BY <1>5, <3>1 DEF Processor
    <3>4. QED
      BY <3>2, <3>3
  <2>2. CASE ReceiveStep(p)
    <3>1. PICK rec : rec = [rec0 EXCEPT !.failed = FALSE, !.flagged = FALSE]
      OBVIOUS
    <3>2. PICK line : line = Line[rec.type]
      OBVIOUS
    <3>3. PICK r \in GoOutcomes(line, rec.step, rec.position) :
              LET moved == [rec EXCEPT !.step = r.next,
                                       !.failed = GoFails(line, r), !.flagged = GoFails(line, r),
                                       !.resendable = ~IsOver(line, r)]
              IN  \/ obj' = Store(p, o, moved) /\ Pushes(p, o)
                  \/ obj' = Store(p, o, Cleared(moved)) /\ UNCHANGED <<iQueue, iBackQueue>>
      BY <1>1, <1>2, <1>3, <1>4, <2>2, <3>1, <3>2 DEF ReceiveStep, Pushes
    <3>4. PICK over \in BOOLEAN : over <=> IsOver(line, r)
      OBVIOUS
    <3>5. PICK failed \in BOOLEAN : failed <=> GoFails(line, r)
      OBVIOUS
    <3>6. PICK moved : moved = [rec EXCEPT !.step = r.next,
                                           !.failed = failed, !.flagged = failed,
                                           !.resendable = ~over]
      OBVIOUS
    <3>7. over = IsOver(line, r) /\ failed = GoFails(line, r)
      BY <3>4, <3>5 DEF IsOver, GoFails
    <3>8. /\ rec \in Processor /\ Standing(rec) /\ rec.index = pkt.transaction
          /\ line \in Seq(Side)
      <4>1. rec \in Processor /\ Standing(rec) /\ rec.index = pkt.transaction
        BY <1>5, <3>1 DEF Processor, Standing
      <4>2. QED
        BY <3>2, <4>1, LineAssumption DEF Processor
    <3>9. moved \in Processor /\ moved.index = pkt.transaction
      <4>1. r.next \in 1..Len(line) + 1
        BY <3>2, <3>3, <3>8, MovedType
      <4>2. moved \in Processor
        BY <3>2, <3>6, <3>8, <4>1, ProcessorUpdate
      <4>3. QED
        BY <3>6, <3>8, <4>2 DEF Processor
    <3>10. Cleared(moved) \in Processor /\ Cleared(moved).index = pkt.transaction
      BY <3>9, ClearedType DEF Cleared, Processor
    <3>11. \/ obj' = Store(p, o, moved) /\ Pushes(p, o)
           \/ obj' = Store(p, o, Cleared(moved)) /\ UNCHANGED <<iQueue, iBackQueue>>
      BY <3>3, <3>6, <3>7
    <3>12. QED
      BY <3>9, <3>10, <3>11
  <2>3. QED
    BY <2>1, <2>2 DEF Backward
<1>7. QED
  BY <1>2, <1>4, <1>6, ReceiveOrder

(* What a new entry of a map may be.                                        *)
Arrivals ==
    \A p \in Peer : \A k \in DOMAIN iMap'[p] \ DOMAIN iMap[p] :
        Owner(k) = Other(p) =>
            \A j \in DOMAIN iMap[p] : Owner(j) = Other(p) => j < k

LEMMA StepOrder ==
    ASSUME TypeOK, Holding, Ordered, [Next]_vars
    PROVE  Ordered' /\ Arrivals
<1>1. ASSUME NEW p \in Peer, NEW t \in Types, SendBegin(p, t) PROVE Ordered' /\ Arrivals
  BY <1>1, SendBeginOrder DEF Arrivals
<1>2. ASSUME NEW p \in Peer, SendEnd(p) PROVE Ordered' /\ Arrivals
  BY <1>2, SendEndOrder, Peers DEF Arrivals
<1>3. ASSUME NEW p \in Peer, Forward(p) PROVE Ordered' /\ Arrivals
  BY <1>3, ForwardOrder DEF Arrivals
<1>4. ASSUME NEW p \in Peer, Backward(p) PROVE Ordered' /\ Arrivals
  BY <1>4, ReceivesOrder DEF Arrivals
<1>5. CASE UNCHANGED vars
  <2>1. ASSUME NEW q \in Peer PROVE InOrder(q)'
    <3>1. Flows(q)
      BY <1>5, LineKept DEF vars, Queued, Serving
    <3>2. QED
      BY <1>5, <3>1, OrderKept DEF vars, Heard, Ordered
  <2>2. QED
    BY <1>5, <2>1 DEF vars, Ordered, Arrivals
<1>6. QED
  BY <1>1, <1>2, <1>3, <1>4, <1>5 DEF Next, Forward, Backward

LEMMA InitOrder == Init => Ordered
<1> SUFFICES ASSUME Init, NEW q \in Peer PROVE InOrder(q)
  BY DEF Ordered
<1>1. wire[q] = <<>> /\ iQueue[q] = <<>> /\ iBackQueue[q] = <<>>
  BY DEF Init
<1>2. Queued(q) = <<>>
  BY <1>1 DEF Queued
<1>3. DOMAIN wire[q] = {} /\ DOMAIN Queued(q) = {} /\ Waiting(q) = {}
  BY <1>1, <1>2 DEF Waiting
<1>4. QED
  BY <1>3 DEF InOrder, Ahead, Coming

(* Transactions reach the remote peer in the order send() was called, in    *)
(* every connection whose peers started no more than half of INT_MAX        *)
(* transactions: the two queues, the channel and the answers that cross     *)
(* them never let a newer transaction overtake an older one.                *)
THEOREM InOrderArrival == Spec /\ [](sends <= Half) => ArrivalOrder
<1>1. Init => Ordered
  BY InitOrder
<1>2. IInv /\ sends <= Half /\ Ordered /\ [Next]_vars => Ordered' /\ Arrivals
  BY StepOrder DEF IInv
<1>3. Arrivals => [\A p \in Peer : \A k \in DOMAIN iMap'[p] \ DOMAIN iMap[p] :
                     Owner(k) = Other(p) =>
                         \A j \in DOMAIN iMap[p] : Owner(j) = Other(p) => j < k]_vars
  BY DEF Arrivals
<1>4. QED
  BY <1>1, <1>2, <1>3, Invariant, PTL DEF Spec, ArrivalOrder
-----------------------------------------------------------------------------
(* What is called follows TransactionContract.  A peer is the host of the   *)
(* transactions it owns, the server of the others.                          *)
Role(q, k) == IF Owner(k) = q THEN "HOST" ELSE "SERVER"
At(q, k) == obj[q][iMap[q][k]]
LineOf(k) == Line[log[k].type]
Done(k) == Len(log[k].calls)

(* The processor of k stands on a step up to which no step of its side is   *)
(* left to be called.                                                       *)
Stands(rec, q, k) ==
    /\ rec.type = log[k].type /\ rec.position = Role(q, k)
    /\ rec.step <= Done(k) + 1
    /\ \A i \in rec.step..Done(k) : LineOf(k)[i] # Role(q, k)

(* Transaction k goes on from peer q to the other: in a packet, or in a     *)
(* processor that waits to be sent.                                         *)
Token(q, k, f, t) ==
    \/ \E i \in DOMAIN wire[q] : /\ k = wire[q][i].transaction
                                 /\ f = wire[q][i].failed /\ t = wire[q][i].type
    \/ \E o \in Waiting(q) : /\ obj[q][o].resendable /\ k = obj[q][o].index
                             /\ f = obj[q][o].failed /\ t = obj[q][o].type

(* It tells of a failure, or the next step of the line is the other's.      *)
Course(q, k, f) ==
    /\ f => log[k].failed
    /\ ~f => /\ Done(k) <= Len(LineOf(k))
             /\ log[k].failed => Done(k) = Len(LineOf(k))
             /\ Done(k) < Len(LineOf(k)) => LineOf(k)[Done(k) + 1] = Role(Other(q), k)
             /\ k \in DOMAIN iMap[Other(q)] => Stands(At(Other(q), k), Other(q), k)
             /\ k \notin DOMAIN iMap[Other(q)] =>
                   \A i \in 1..Done(k) : LineOf(k)[i] # Role(Other(q), k)
             /\ k \in DOMAIN iMap[Other(q)] \/ ~OneWay(LineOf(k)) =>
                   Stands(At(q, k), q, k) /\ At(q, k).step = Done(k) + 1

(* A transaction whose first packet waits to be made.                       *)
Unopened(q, o) ==
    LET k == obj[q][o].index
    IN  /\ log[k].type = obj[q][o].type
        /\ log[k].calls = <<>> /\ ~log[k].failed

Courses ==
    /\ DOMAIN log = Used
    /\ \A k \in DOMAIN log : ~log[k].failed => log[k].faults = {}
    /\ \A q \in Peer : \A k, f, t : Token(q, k, f, t) => t = log[k].type /\ Course(q, k, f)
    /\ \A q \in Peer : \A o \in Waiting(q) : ~obj[q][o].resendable => Unopened(q, o)

(* A step of p handles the processor o of transaction k0, and calls for it. *)
Touches(p, o, k0) ==
    /\ \A q \in Peer : q # p => obj'[q] = obj[q] /\ iMap'[q] = iMap[q]
    /\ \A x \in Ids(p) : x # o => obj'[p][x] = obj[p][x]
    /\ \A k \in DOMAIN iMap[p] : k # k0 => iMap'[p][k] = iMap[p][k]
    /\ DOMAIN iMap[p] \subseteq DOMAIN iMap'[p]
    /\ DOMAIN iMap'[p] \subseteq DOMAIN iMap[p] \cup {k0}
    /\ \/ o \in Idle(p) \cup {sending[p].proc}
       \/ o \notin Ids(p)
       \/ obj[p][o].index = k0
    /\ \A k \in DOMAIN log : k # k0 => k \in DOMAIN log' /\ log'[k] = log[k]

(* The processors of other transactions are not touched.                    *)
LEMMA Untouched ==
    ASSUME NEW p \in Peer, NEW o, NEW k0, Touches(p, o, k0), NEW q \in Peer,
           NEW x \in Ids(q), x \notin Idle(q) \cup {sending[q].proc}, obj[q][x].index # k0
    PROVE  obj'[q][x] = obj[q][x]
BY DEF Touches

LEMMA RestUntouched ==
    ASSUME TypeOK, NEW p \in Peer, NEW o, NEW k0, Touches(p, o, k0), NEW q \in Peer,
           NEW k, k # k0, Resting(q, k)
    PROVE  At(q, k)' = At(q, k)
<1>1. PICK x \in Ids(q) : x = iMap[q][k]
  BY HeldExist DEF Resting
<1>2. obj'[q][x] = obj[q][x]
  BY <1>1, Untouched DEF Resting
<1>3. iMap'[q][k] = x
  BY <1>1 DEF Resting, Touches
<1>4. QED
  BY <1>1, <1>2, <1>3 DEF At

LEMMA WaitUntouched ==
    ASSUME TypeOK, Holding, NEW p \in Peer, NEW o, NEW k0, Touches(p, o, k0),
           NEW q \in Peer, NEW x \in Waiting(q), obj[q][x].index # k0
    PROVE  /\ obj'[q][x] = obj[q][x]
           /\ At(q, obj[q][x].index)' = obj[q][x] /\ At(q, obj[q][x].index) = obj[q][x]
<1>1. x \in Ids(q) /\ x \notin Idle(q) \cup {sending[q].proc} /\ WaitOK(q, x)
  BY HeldExist DEF Holding, Place
<1>2. obj'[q][x] = obj[q][x]
  BY <1>1, Untouched
<1>3. iMap[q][obj[q][x].index] = x /\ iMap'[q][obj[q][x].index] = x
  BY <1>1 DEF WaitOK, Touches
<1>4. QED
  BY <1>2, <1>3 DEF At

(* Where the processors of a transaction under way are.                     *)
LEMMA TokenPlaces ==
    ASSUME TypeOK, Holding, Courses, NEW p \in Peer, NEW o, NEW k0, Touches(p, o, k0),
           NEW q \in Peer, NEW k, NEW f, NEW t, Token(q, k, f, t), k # k0
    PROVE  /\ k \in DOMAIN log /\ k \in DOMAIN iMap[q]
           /\ k \in DOMAIN iMap[Other(q)] => At(Other(q), k)' = At(Other(q), k)
           /\ k \in DOMAIN iMap[Other(q)] \/ ~OneWay(LineOf(k)) => At(q, k)' = At(q, k)
<1>1. Other(q) \in Peer
  BY Peers
<1>2. t = log[k].type
  BY DEF Courses
<1>3. CASE \E i \in DOMAIN wire[q] : /\ k = wire[q][i].transaction
                                    /\ f = wire[q][i].failed /\ t = wire[q][i].type
  <2>1. PICK pkt : PacketOK(q, pkt) /\ k = pkt.transaction /\ t = pkt.type
    BY <1>3 DEF Holding
  <2>2. /\ k \in DOMAIN iMap[q]
        /\ k \in DOMAIN iMap[Other(q)] => Resting(Other(q), k)
        /\ k \in DOMAIN iMap[Other(q)] \/ ~OneWay(LineOf(k)) => Resting(q, k)
    BY <1>2, <2>1 DEF PacketOK, LineOf
  <2>3. QED
    BY <1>1, <2>2, RestUntouched, Peers DEF Courses, Used, Peer
<1>4. CASE \E x \in Waiting(q) : /\ obj[q][x].resendable /\ k = obj[q][x].index
                                 /\ f = obj[q][x].failed /\ t = obj[q][x].type
  <2>1. PICK x \in Waiting(q) : obj[q][x].resendable /\ k = obj[q][x].index
    BY <1>4
  <2>2. k \in DOMAIN iMap[q] /\ Resting(Other(q), k)
    BY <2>1 DEF Holding, WaitOK
  <2>3. At(Other(q), k)' = At(Other(q), k)
    BY <1>1, <2>2, RestUntouched
  <2>4. At(q, k)' = At(q, k)
    BY <2>1, WaitUntouched
  <2>5. QED
    BY <2>2, <2>3, <2>4 DEF Courses, Used, Peer
<1>5. QED
  BY <1>3, <1>4 DEF Token

(* What is under way for other transactions stays on its course.            *)
LEMMA CourseKept ==
    ASSUME TypeOK, Holding, Courses, NEW p \in Peer, NEW o, NEW k0, Touches(p, o, k0),
           NEW q \in Peer, NEW k, NEW f, NEW t, Token(q, k, f, t), k # k0
    PROVE  t = log'[k].type /\ Course(q, k, f)'
<1>1. Other(q) \in Peer
  BY Peers
<1>2. /\ k \in DOMAIN iMap[Other(q)] => At(Other(q), k)' = At(Other(q), k)
      /\ k \in DOMAIN iMap[Other(q)] \/ ~OneWay(LineOf(k)) => At(q, k)' = At(q, k)
      /\ k \in DOMAIN log
  BY TokenPlaces
<1>3. log'[k] = log[k]
  BY <1>2 DEF Touches
<1>4. t = log[k].type /\ Course(q, k, f)
  BY DEF Courses
<1>5. LineOf(k)' = LineOf(k) /\ Done(k)' = Done(k)
  BY <1>3 DEF LineOf, Done
<1>6. k \in DOMAIN iMap'[Other(q)] <=> k \in DOMAIN iMap[Other(q)]
  BY <1>1 DEF Touches
<1>7. \A r \in Peer : At(r, k)' = At(r, k) /\ Stands(At(r, k), r, k) => Stands(At(r, k), r, k)'
  BY <1>3, <1>5 DEF Stands, Role
<1>8. f => log'[k].failed
  BY <1>3, <1>2, <1>4 DEF Course
<1>9. CASE f
  BY <1>3, <1>2, <1>4, <1>8, <1>9 DEF Course
<1>10. CASE ~f
  <2>1. /\ Done(k) <= Len(LineOf(k))
        /\ log[k].failed => Done(k) = Len(LineOf(k))
        /\ Done(k) < Len(LineOf(k)) => LineOf(k)[Done(k) + 1] = Role(Other(q), k)
        /\ k \in DOMAIN iMap[Other(q)] => Stands(At(Other(q), k), Other(q), k)
        /\ k \notin DOMAIN iMap[Other(q)] =>
              \A i \in 1..Done(k) : LineOf(k)[i] # Role(Other(q), k)
        /\ k \in DOMAIN iMap[Other(q)] \/ ~OneWay(LineOf(k)) =>
              Stands(At(q, k), q, k) /\ At(q, k).step = Done(k) + 1
    BY <1>4, <1>10 DEF Course
  <2>2. k \in DOMAIN iMap'[Other(q)] => Stands(At(Other(q), k), Other(q), k)'
    BY <1>1, <1>2, <1>6, <1>7, <2>1
  <2>3. k \in DOMAIN iMap'[Other(q)] \/ ~OneWay(LineOf(k)) =>
            Stands(At(q, k), q, k)' /\ (At(q, k).step)' = Done(k) + 1
    BY <1>2, <1>6, <1>7, <2>1
  <2>4. QED
    BY <1>3, <1>2, <1>4, <1>5, <1>6, <1>10, <2>1, <2>2, <2>3 DEF Course, Role
<1>11. QED
  BY <1>3, <1>2, <1>4, <1>9, <1>10

(* So a step is right when it is right for its own transaction.             *)
LEMMA CoursesStep ==
    ASSUME TypeOK, Holding, Courses, NEW p \in Peer, NEW o, NEW k0, Touches(p, o, k0),
           DOMAIN log' = Used',
           k0 \in DOMAIN log' /\ ~log'[k0].failed => log'[k0].faults = {},
           \A k \in DOMAIN log' : k # k0 => k \in DOMAIN log,
           \A q \in Peer : \A k, f, t : Token(q, k, f, t)' =>
              \/ Token(q, k, f, t) /\ k # k0
              \/ t = log'[k].type /\ Course(q, k, f)',
           \A q \in Peer : \A x \in Waiting(q)' :
              \/ x \in Waiting(q) /\ obj[q][x].index # k0
              \/ ~obj'[q][x].resendable => Unopened(q, x)'
    PROVE  Courses'
<1>1. \A k \in DOMAIN log' : ~log'[k].failed => log'[k].faults = {}
  BY DEF Courses, Touches
<1>2. \A q \in Peer : \A k, f, t : Token(q, k, f, t)' => t = log'[k].type /\ Course(q, k, f)'
  BY CourseKept
<1>3. ASSUME NEW q \in Peer, NEW x \in Waiting(q)', ~obj'[q][x].resendable
      PROVE  Unopened(q, x)'
  <2>1. CASE x \in Waiting(q) /\ obj[q][x].index # k0
    <3>1. obj'[q][x] = obj[q][x]
      BY <2>1, WaitUntouched
    <3>2. PICK k : k = obj[q][x].index
      OBVIOUS
    <3>3. k \in DOMAIN log
      <4>1. k \in DOMAIN iMap[q]
        BY <2>1, <3>2 DEF Holding, WaitOK
      <4>2. QED
        BY <4>1 DEF Courses, Used, Peer
    <3>4. Unopened(q, x) /\ log'[k] = log[k]
      BY <1>3, <2>1, <3>1, <3>2, <3>3 DEF Courses, Touches
    <3>5. QED
      BY <3>1, <3>2, <3>4 DEF Unopened
  <2>2. QED
    BY <1>3, <2>1
<1>4. QED
  BY <1>1, <1>2, <1>3 DEF Courses

(* go() on a line of which the first steps are done, the next being of this *)
(* side: it calls that one and what follows of this side; or nothing, when  *)
(* all is done.                                                             *)
LEMMA GoOn ==
    ASSUME NEW line \in Seq(Side), NEW side \in Side, NEW pos \in 1..Len(line) + 1,
           NEW r, r \in GoOutcomes(line, pos, side), NEW done \in 0..Len(line),
           pos <= done + 1, \A i \in pos..done : line[i] # side,
           done < Len(line) => line[done + 1] = side
    PROVE  /\ r.first = done + 1 /\ r.next \in done + 1..Len(line) + 1
           /\ r.ok \in BOOLEAN
           /\ \A i \in done + 1..r.next - 1 : line[i] = side
           /\ done = Len(line) => r.next = done + 1 /\ r.ok
           /\ done < Len(line) => r.next > done + 1
           /\ r.ok /\ r.next <= Len(line) => line[r.next] # side
<1>1. Len(line) \in Nat
  OBVIOUS
<1>2. /\ r.first \in pos..Len(line) + 1 /\ r.next \in pos..Len(line) + 1 /\ r.ok \in BOOLEAN
      /\ \A i \in pos..r.first - 1 : line[i] # side
      /\ \A i \in r.first..r.next - 1 : line[i] = side
      /\ r.first > Len(line) => r.next = r.first /\ r.ok
      /\ r.first <= Len(line) => /\ r.first < r.next
                                 /\ r.ok /\ r.next <= Len(line) => line[r.next] # side
  BY <1>1 DEF GoOutcomes
<1>3. ~(r.first < done + 1)
  <2> SUFFICES ASSUME r.first < done + 1 PROVE FALSE
    OBVIOUS
  <2>1. r.first \in pos..done /\ r.first <= Len(line) /\ r.first \in r.first..r.next - 1
    BY <1>1, <1>2
  <2>2. QED
    BY <1>2, <2>1
<1>4. ~(r.first > done + 1)
  <2> SUFFICES ASSUME r.first > done + 1 PROVE FALSE
    OBVIOUS
  <2>1. done + 1 \in pos..r.first - 1 /\ done < Len(line)
    BY <1>1, <1>2
  <2>2. QED
    BY <1>2, <2>1
<1>5. r.first = done + 1
  BY <1>1, <1>2, <1>3, <1>4
<1>6. QED
  BY <1>1, <1>2, <1>5

(* Such a visit is one the contract allows, or calls nothing.               *)
Visits(k, side, r, fault) ==
    /\ r.ok \in BOOLEAN /\ fault \in BOOLEAN
    /\ log' = Logged(k, side, r, fault)
    /\ r.first = Done(k) + 1 /\ r.next \in Done(k) + 1..Len(LineOf(k)) + 1
    /\ \A i \in Done(k) + 1..r.next - 1 : LineOf(k)[i] = side
    /\ Done(k) = Len(LineOf(k)) => r.next = Done(k) + 1 /\ r.ok
    /\ Done(k) < Len(LineOf(k)) => r.next > Done(k) + 1
    /\ r.ok /\ r.next <= Len(LineOf(k)) => LineOf(k)[r.next] # side
    /\ fault => ~r.ok

Visited(k, side, r, fault) ==
    /\ DOMAIN log' = DOMAIN log
    /\ \A x \in DOMAIN log : x # k => log'[x] = log[x]
    /\ log'[k].type = log[k].type /\ Len(log'[k].calls) = r.next - 1
    /\ log'[k].failed <=> log[k].failed \/ ~r.ok
    /\ log'[k].faults = log[k].faults \cup IF fault THEN {side} ELSE {}

LEMMA VisitLog ==
    ASSUME LogOK, NEW k \in DOMAIN log, NEW side \in Side, NEW r, NEW fault,
           Visits(k, side, r, fault)
    PROVE  Visited(k, side, r, fault)
<1>1. /\ log[k] \in History /\ log[k].calls \in Seq([side : Side, step : Nat])
      /\ log[k].type \in Types
  BY DEF LogOK, History
<1>2. LineOf(k) \in Seq(Side) /\ Len(LineOf(k)) \in Nat /\ Done(k) \in Nat
  BY <1>1, LineAssumption DEF LineOf, Done
<1>3. r.next - r.first \in Nat /\ r.first \in Nat /\ r.next \in Nat
  BY <1>2 DEF Visits
<1>4. Calls(side, r) \in Seq([side : Side, step : Nat]) /\ Len(Calls(side, r)) = r.next - r.first
  <2> DEFINE n == r.next - r.first
             Call == [side : Side, step : Nat]
  <2>1. n \in Nat
    BY <1>3
  <2>2. \A i \in 1..n : [side |-> side, step |-> r.first + i - 1] \in Call
    BY <1>3
  <2>3. Calls(side, r) \in [1..n -> Call]
    BY <2>2, Zenon DEF Calls
  <2> HIDE DEF n, Call
  <2>4. Calls(side, r) \in Seq(Call)
    BY <2>1, <2>3, FunctionIsSeq
  <2>5. Len(Calls(side, r)) = n
    BY <2>1, <2>3, <2>4, LenProperties
  <2>6. QED
    BY <2>4, <2>5 DEF n, Call
<1>5. Len(log[k].calls \o Calls(side, r)) = r.next - 1
  <2>1. Len(log[k].calls \o Calls(side, r)) = Len(log[k].calls) + Len(Calls(side, r))
    BY <1>1, <1>4, ConcatProperties
  <2>2. QED
    BY <1>2, <1>3, <1>4, <2>1 DEF Visits, Done
<1> DEFINE new == [log[k] EXCEPT !.calls  = @ \o Calls(side, r),
                                 !.failed = @ \/ ~r.ok,
                                 !.faults = @ \cup IF fault THEN {side} ELSE {}]
<1>6. log' = [log EXCEPT ![k] = new]
  BY DEF Visits, Logged
<1>7. /\ new.type = log[k].type /\ new.calls = log[k].calls \o Calls(side, r)
      /\ new.failed <=> log[k].failed \/ ~r.ok
      /\ new.faults = log[k].faults \cup IF fault THEN {side} ELSE {}
  BY <1>1 DEF History
<1> HIDE DEF new
<1>8. DOMAIN log' = DOMAIN log /\ log'[k] = new /\ \A x \in DOMAIN log : x # k => log'[x] = log[x]
  BY <1>6 DEF LogOK
<1>9. QED
  BY <1>5, <1>7, <1>8 DEF Visited

(* A visit that calls nothing leaves no trace.                              *)
LEMMA NothingCalled ==
    ASSUME LogOK, NEW k \in DOMAIN log, NEW side, NEW r, NEW fault,
           r.first = r.next, r.next \in Nat, r.ok, ~fault
    PROVE  Logged(k, side, r, fault) = log
<1>1. log[k] \in History /\ log[k].calls \in Seq([side : Side, step : Nat])
      /\ log[k].failed \in BOOLEAN
  BY DEF LogOK, History
<1>2. Calls(side, r) = <<>>
  <2>1. r.next - r.first = 0
    OBVIOUS
  <2>2. QED
    BY <2>1 DEF Calls
<1>3. log[k].calls \o Calls(side, r) = log[k].calls
  BY <1>1, <1>2, ConcatEmptySeq
<1>4. [log[k] EXCEPT !.calls  = @ \o Calls(side, r),
                     !.failed = @ \/ ~r.ok,
                     !.faults = @ \cup IF fault THEN {side} ELSE {}] = log[k]
  BY <1>1, <1>3 DEF History
<1>5. Logged(k, side, r, fault) = [log EXCEPT ![k] = log[k]]
  BY <1>4 DEF Logged
<1>6. QED
  BY <1>5 DEF LogOK

LEMMA VisitAllowed ==
    ASSUME LogOK, NEW k \in DOMAIN log, NEW side \in Side, NEW r, NEW fault,
           Visits(k, side, r, fault),
           log[k].failed => Done(k) = Len(LineOf(k)),
           ~log[k].failed => log[k].faults = {}
    PROVE  Contract!Next \/ log' = log
<1>1. /\ log[k] \in History /\ log[k].calls \in Seq([side : Side, step : Nat])
      /\ log[k].type \in Types /\ log[k].failed \in BOOLEAN
  BY DEF LogOK, History
<1>2. LineOf(k) \in Seq(Side) /\ Len(LineOf(k)) \in Nat /\ Done(k) \in Nat
  BY <1>1, LineAssumption DEF LineOf, Done
<1>3. CASE Done(k) = Len(LineOf(k))
  <2>1. r.first = r.next /\ r.next \in Nat /\ r.ok /\ ~fault
    BY <1>2, <1>3 DEF Visits
  <2>2. log' = log
    BY <2>1, NothingCalled DEF Visits
  <2>3. QED
    BY <2>2
<1>4. CASE ~(Done(k) = Len(LineOf(k)))
  <2>1. ~log[k].failed /\ log[k].faults = {}
    BY <1>4
  <2>2. PICK last : last = r.next - 1
    OBVIOUS
  <2>3. PICK bad \in BOOLEAN : bad <=> ~r.ok
    OBVIOUS
  <2>4. PICK told : told = IF fault THEN {side} ELSE {}
    OBVIOUS
  <2>5. /\ last \in Done(k) + 1..Len(LineOf(k)) /\ r.first = Done(k) + 1
        /\ \A i \in Done(k) + 1..last : LineOf(k)[i] = side
        /\ ~bad => last = Len(LineOf(k)) \/ LineOf(k)[last + 1] # side
        /\ told \in SUBSET {side}
        /\ told # {} => bad
        /\ r.next \in Nat
    <3>1. Done(k) < Len(LineOf(k))
      BY <1>2, <1>4 DEF Visits
    <3>2. QED
      BY <1>2, <2>2, <2>3, <2>4, <3>1 DEF Visits
  <2>6. Calls(side, r) = Contract!RunOf(side, Done(k), last)
    <3>1. r.next - r.first = last - Done(k)
      BY <1>2, <2>2, <2>5
    <3>2. \A i \in 1..last - Done(k) : r.first + i - 1 = Done(k) + i
      BY <1>2, <2>5
    <3>3. QED
      BY <3>1, <3>2 DEF Calls, Contract!RunOf
  <2>7. [log[k] EXCEPT !.calls  = @ \o Calls(side, r),
                       !.failed = @ \/ ~r.ok,
                       !.faults = @ \cup IF fault THEN {side} ELSE {}]
        = [log[k] EXCEPT !.calls  = @ \o Contract!RunOf(side, Done(k), last),
                         !.failed = bad, !.faults = told]
    BY <1>1, <2>1, <2>3, <2>4, <2>6 DEF History
  <2>8. log' = [log EXCEPT ![k].calls  = @ \o Contract!RunOf(side, Done(k), last),
                           ![k].failed = bad, ![k].faults = told]
    BY <2>7 DEF Visits, Logged
  <2>9. Contract!Visit(k, side)
    BY <2>1, <2>5, <2>8 DEF Contract!Visit, LineOf, Done
  <2>10. QED
    BY <2>9 DEF Contract!Next, Contract!Side, Side
<1>5. QED
  BY <1>3, <1>4

(* What is under way is known to its sender.                                *)
LEMMA UnderWayKnown ==
    ASSUME Holding, NEW q \in Peer
    PROVE  /\ \A k, f, t : Token(q, k, f, t) => k \in DOMAIN iMap[q]
           /\ \A x \in Waiting(q) : obj[q][x].index \in DOMAIN iMap[q]
BY DEF Holding, PacketOK, WaitOK, Token

(* send() computes an index and takes a processor: nothing is called.       *)
LEMMA SendBeginCourse ==
    ASSUME TypeOK, Holding, Courses, sends < Half, NEW p \in Peer, NEW t0 \in Types,
           SendBegin(p, t0)
    PROVE  Courses' /\ log' = log
<1>1. PICK o : o = Pick(p, t0)
  OBVIOUS
<1>2. PICK k0 : k0 = NextIndex(p)
  OBVIOUS
<1>3. PICK new : new = [Picked(p, t0) EXCEPT !.index = k0]
  OBVIOUS
<1>4. /\ obj' = Store(p, o, new) /\ UNCHANGED <<iMap, wire, log>>
      /\ UNCHANGED <<iQueue, iBackQueue>>
  BY <1>1, <1>2, <1>3 DEF SendBegin
<1>5. o \in 1..Len(obj[p]) + 1 /\ new \in Processor
  <2>1. k0 \in Index /\ Picked(p, t0) \in Processor /\ o \in 1..Len(obj[p]) + 1
    BY <1>1, <1>2, NextIndexType, PickType
  <2>2. QED
    BY <1>3, <2>1 DEF Processor
<1>6. o \notin Waiting(p) /\ (o \in Idle(p) \/ o \notin Ids(p))
  BY <1>1, PickNew DEF Holding
<1>7. \A q \in Peer : k0 \notin DOMAIN iMap[q]
  BY <1>2, NewIndex
<1>8. /\ \A x \in Ids(p) : x # o => obj'[p][x] = obj[p][x]
      /\ \A q \in Peer : q # p => obj'[q] = obj[q]
  BY <1>4, <1>5, StoreAt
<1>9. Touches(p, o, k0)
  BY <1>4, <1>6, <1>8 DEF Touches
<1>10. ASSUME NEW q \in Peer, NEW x \in Waiting(q)'
       PROVE  x \in Waiting(q) /\ obj[q][x].index # k0 /\ obj'[q][x] = obj[q][x]
  <2>1. x \in Waiting(q)
    BY <1>4, <1>10, QueuesKept
  <2>2. obj[q][x].index # k0
    BY <1>7, <2>1, UnderWayKnown
  <2>3. QED
    BY <1>9, <2>1, <2>2, WaitUntouched
<1>11. ASSUME NEW q \in Peer, NEW k, NEW f, NEW t, Token(q, k, f, t)'
       PROVE  Token(q, k, f, t) /\ k # k0
  <2>1. Token(q, k, f, t)
    BY <1>4, <1>10, <1>11 DEF Token
  <2>2. QED
    BY <1>7, <2>1, UnderWayKnown
<1>12. DOMAIN log' = Used' /\ \A k \in DOMAIN log' : ~log'[k].failed => log'[k].faults = {}
  BY <1>4 DEF Courses, Used
<1>13. Courses'
  BY <1>4, <1>9, <1>10, <1>11, <1>12, CoursesStep
<1>14. QED
  BY <1>4, <1>13

(* send() inserts and queues the processor: the transaction is opened.      *)
LEMMA SendEndCourse ==
    ASSUME TypeOK, Holding, Courses, NEW p \in Peer, SendEnd(p)
    PROVE  Courses' /\ Contract!Next
<1>1. PICK o : o = sending[p].proc
  OBVIOUS
<1>2. PICK k0 : k0 = sending[p].index
  OBVIOUS
<1>3. PICK t0 : t0 = obj[p][o].type
  OBVIOUS
<1>4. PICK h : h = Contract!Opened(t0)
  OBVIOUS
<1>5. /\ sending[p] # NotSending /\ Registers(p, k0, o) /\ Pushes(p, o) /\ UNCHANGED <<obj, wire>>
      /\ log' = Put(log, k0, h)
  BY <1>1, <1>2, <1>3, <1>4 DEF SendEnd, Registers, Pushes, Contract!Opened
<1>6. /\ o \in Ids(p) /\ o \in Number /\ Ids(p) \subseteq Number
      /\ obj[p][o].index = k0 /\ New(obj[p][o])
  <2>1. Ids(p) \subseteq Number
    BY DEF Ids, Number
  <2>2. o \in Ids(p)
    BY <1>1, <1>5, HeldExist
  <2>3. Place(p)
    BY DEF Holding
  <2>4. QED
    BY <1>1, <1>2, <1>5, <2>1, <2>2, <2>3 DEF Place
<1>7. k0 \in Index /\ t0 \in Types
  <2>1. k0 \in Index
    BY <1>2, <1>5 DEF TypeOK, HoldersOK
  <2>2. obj[p][o] \in Processor
    <3>1. obj[p] \in Seq(Processor) /\ o \in 1..Len(obj[p])
      BY <1>6 DEF TypeOK, ObjectsOK, Ids
    <3>2. QED
      BY <3>1, ElementOfSeq
  <2>3. QED
    BY <1>3, <2>1, <2>2 DEF Processor
<1>8. /\ DOMAIN iMap'[p] = DOMAIN iMap[p] \cup {k0}
      /\ \A k \in DOMAIN iMap[p] : k # k0 => iMap'[p][k] = iMap[p][k]
      /\ \A q \in Peer : q # p => iMap'[q] = iMap[q]
  BY <1>5, Registered
<1>9. \A q \in Peer : k0 \notin DOMAIN iMap[q]
  <2>1. Owner(k0) = p /\ \A j \in DOMAIN iMap[p] : Owner(j) = p => j < k0
    BY <1>2, <1>5 DEF Holding, Bounds
  <2>2. k0 \notin DOMAIN iMap[p]
    BY <1>7, <2>1 DEF Index
  <2>3. \A q \in Peer : k0 \in DOMAIN iMap[q] => k0 \in DOMAIN iMap[p]
    BY <2>1 DEF Holding, Bounds
  <2>4. QED
    BY <2>2, <2>3
<1>10. k0 \notin DOMAIN log
  BY <1>9 DEF Courses, Used, Peer
<1>11. /\ DOMAIN log' = DOMAIN log \cup {k0} /\ log'[k0] = h
       /\ \A k \in DOMAIN log : k # k0 => log'[k] = log[k]
       /\ h.type = t0 /\ h.calls = <<>> /\ h.failed = FALSE /\ h.faults = {}
  BY <1>4, <1>5 DEF Put, Contract!Opened
<1>12. Touches(p, o, k0)
  BY <1>5, <1>6, <1>8, <1>11 DEF Touches
<1>13. DOMAIN log' = Used'
  BY <1>8, <1>11 DEF Courses, Used, Peer
<1>14. /\ Waiting(p)' = Waiting(p) \cup {o}
       /\ \A q \in Peer : q # p => iQueue'[q] = iQueue[q] /\ iBackQueue'[q] = iBackQueue[q]
  BY <1>5, <1>6, Pushed
<1>15. ASSUME NEW q \in Peer, NEW x \in Waiting(q)'
       PROVE  (x \in Waiting(q) /\ obj[q][x].index # k0) \/ (q = p /\ x = o)
  <2>1. CASE x \in Waiting(q)
    BY <1>9, <2>1, UnderWayKnown
  <2>2. CASE x \notin Waiting(q)
    <3>1. q = p
      <4>1. ASSUME q # p PROVE Queued(q)' = Queued(q)
        BY <1>14, <4>1 DEF Queued
      <4>2. QED
        BY <1>15, <2>2, <4>1 DEF Waiting
    <3>2. QED
      BY <1>14, <1>15, <2>2, <3>1
  <2>3. QED
    BY <2>1, <2>2
<1>16. ASSUME NEW q \in Peer, NEW k, NEW f, NEW t, Token(q, k, f, t)'
       PROVE  Token(q, k, f, t) /\ k # k0
  <2>1. Token(q, k, f, t)
    BY <1>5, <1>6, <1>15, <1>16 DEF Token, New
  <2>2. QED
    BY <1>9, <2>1, UnderWayKnown
<1>17. Unopened(p, o)'
  BY <1>3, <1>5, <1>6, <1>11 DEF Unopened
<1>18. Courses'
  BY <1>11, <1>12, <1>13, <1>15, <1>16, <1>17, CoursesStep
<1>19. Contract!Open(k0, t0)
  BY <1>4, <1>5, <1>10 DEF Contract!Open, Put
<1>20. QED
  BY <1>7, <1>18, <1>19 DEF Contract!Next

(* The other processors that wait, when the first is popped.                *)
LEMMA PoppedTokens ==
    ASSUME TypeOK, Holding, NEW p \in Peer, Queued(p) # <<>>, PopActual(p),
           NEW o, o = Head(Queued(p)), NEW k0, k0 = obj[p][o].index, Touches(p, o, k0)
    PROVE  /\ o \in Waiting(p)
           /\ \A q \in Peer : \A x \in Waiting(q)' :
                 x \in Waiting(q) /\ obj[q][x].index # k0 /\ obj'[q][x] = obj[q][x]
           /\ \A q \in Peer : \A i \in DOMAIN wire[q] : wire[q][i].transaction # k0
<1>1. NoTwice(Queued(p))
  BY DEF Holding, Place
<1>2. /\ o \in Waiting(p) /\ Waiting(p) = Waiting(p)' \cup {o} /\ o \notin Waiting(p)'
      /\ \A q \in Peer : q # p => iQueue'[q] = iQueue[q] /\ iBackQueue'[q] = iBackQueue[q]
  BY <1>1, Popped
<1>3. ASSUME NEW q \in Peer, NEW x \in Waiting(q)'
      PROVE  x \in Waiting(q) /\ obj[q][x].index # k0 /\ obj'[q][x] = obj[q][x]
  <2>1. x \in Waiting(q)
    <3>1. ASSUME q # p PROVE Queued(q)' = Queued(q)
      BY <1>2, <3>1 DEF Queued
    <3>2. QED
      BY <1>2, <1>3, <3>1 DEF Waiting
  <2>2. obj[q][x].index # k0
    BY <1>2, <1>3, <2>1, OneWait
  <2>3. QED
    BY <2>1, <2>2, WaitUntouched
<1>4. \A q \in Peer : \A i \in DOMAIN wire[q] : wire[q][i].transaction # k0
  BY <1>2 DEF Holding, OneToken
<1>5. QED
  BY <1>2, <1>3, <1>4

(* An answer is sent: the transaction goes on as it waited.                 *)
LEMMA ResendCourse ==
    ASSUME TypeOK, Holding, Courses, NEW p \in Peer, Resend(p)
    PROVE  Courses' /\ log' = log
<1>1. PICK o : o = Head(Queued(p))
  OBVIOUS
<1>2. PICK rec : rec = obj[p][o]
  OBVIOUS
<1>3. /\ Queued(p) # <<>> /\ PopActual(p) /\ rec.resendable /\ Transmit(p, rec)
      /\ UNCHANGED <<iMap, obj, log>>
  BY <1>1, <1>2 DEF Resend
<1>4. o \in Waiting(p) /\ \A q \in Peer : Waiting(q)' \subseteq Waiting(q)
  <2>1. /\ o \in Waiting(p) /\ Waiting(p) = Waiting(p)' \cup {o}
        /\ \A q \in Peer : q # p => iQueue'[q] = iQueue[q] /\ iBackQueue'[q] = iBackQueue[q]
    BY <1>1, <1>3, Popped
  <2>2. \A q \in Peer : q # p => Queued(q)' = Queued(q)
    BY <2>1 DEF Queued
  <2>3. \A q \in Peer : q # p => Waiting(q)' = Waiting(q)
    BY <2>2 DEF Waiting
  <2>4. QED
    BY <2>1, <2>3
<1>5. ASSUME NEW q \in Peer, NEW i \in DOMAIN wire'[q]
      PROVE  \/ \E j \in DOMAIN wire[q] : wire[q][j] = wire'[q][i]
             \/ q = p /\ wire'[q][i] = PacketOf(rec)
  <2>1. wire \in [Peer -> Seq(Packet)]
    BY DEF TypeOK
  <2>2. CASE q # p
    BY <1>3, <1>5, <2>1, <2>2 DEF Transmit
  <2>3. CASE q = p
    <3>1. PacketOf(rec) \in Packet
      <4>1. rec \in Processor
        BY <1>1, <1>2, <1>3, QueuedType
      <4>2. QED
        BY <4>1 DEF PacketOf, Packet, Processor
    <3>2. wire'[p] = Append(wire[p], PacketOf(rec)) /\ wire[p] \in Seq(Packet)
      BY <1>3, <2>1 DEF Transmit
    <3>3. QED
      BY <1>5, <2>3, <3>1, <3>2, AppendProperties, LenProperties
  <2>4. QED
    BY <2>2, <2>3
<1>6. ASSUME NEW q \in Peer, NEW k, NEW f, NEW t, Token(q, k, f, t)'
      PROVE  Token(q, k, f, t)
  <2>1. CASE \E i \in DOMAIN wire'[q] : /\ k = wire'[q][i].transaction
                                       /\ f = wire'[q][i].failed /\ t = wire'[q][i].type
    <3>1. PICK i \in DOMAIN wire'[q] : /\ k = wire'[q][i].transaction
                                       /\ f = wire'[q][i].failed /\ t = wire'[q][i].type
      BY <2>1
    <3>2. CASE \E j \in DOMAIN wire[q] : wire[q][j] = wire'[q][i]
      BY <3>1, <3>2 DEF Token
    <3>3. CASE q = p /\ wire'[q][i] = PacketOf(rec)
      BY <1>2, <1>3, <1>4, <3>1, <3>3 DEF Token, PacketOf
    <3>4. QED
      BY <1>5, <3>2, <3>3
  <2>2. CASE \E x \in Waiting(q)' : /\ obj'[q][x].resendable /\ k = obj'[q][x].index
                                    /\ f = obj'[q][x].failed /\ t = obj'[q][x].type
    BY <1>3, <1>4, <2>2 DEF Token
  <2>3. QED
    BY <1>6, <2>1, <2>2 DEF Token
<1>7. ASSUME NEW q \in Peer, NEW k, NEW f, Course(q, k, f) PROVE Course(q, k, f)'
  BY <1>3, <1>7 DEF Course, Stands, At, LineOf, Done, Role
<1>8. ASSUME NEW q \in Peer, NEW x \in Waiting(q)', ~obj'[q][x].resendable PROVE Unopened(q, x)'
  BY <1>3, <1>4, <1>8 DEF Unopened, Courses
<1>9. DOMAIN log' = Used'
  BY <1>3 DEF Used, Courses
<1>10. Courses'
  BY <1>3, <1>6, <1>7, <1>8, <1>9 DEF Courses
<1>11. QED
  BY <1>3, <1>10

(* A processor without a line is given back: nothing is called.             *)
LEMMA NoLineCourse ==
    ASSUME TypeOK, Holding, Courses, NEW p \in Peer, NoLine(p)
    PROVE  Courses' /\ log' = log
<1>1. PICK o : o = Head(Queued(p))
  OBVIOUS
<1>2. PICK rec : rec = obj[p][o]
  OBVIOUS
<1>3. PICK k0 : k0 = rec.index
  OBVIOUS
<1>4. /\ Queued(p) # <<>> /\ PopActual(p) /\ ~rec.resendable
      /\ obj' = Store(p, o, Cleared(rec)) /\ UNCHANGED <<iMap, wire, log>>
  BY <1>1, <1>2 DEF NoLine
<1>5. o \in 1..Len(obj[p]) + 1 /\ rec \in Processor
  BY <1>1, <1>2, <1>4, Unsent
<1>6. /\ \A x \in Ids(p) : x # o => obj'[p][x] = obj[p][x]
      /\ \A q \in Peer : q # p => obj'[q] = obj[q]
  <2>1. Cleared(rec) \in Processor
    BY <1>5, ClearedType
  <2>2. QED
    BY <1>4, <1>5, <2>1, StoreAt
<1>7. Touches(p, o, k0)
  BY <1>2, <1>3, <1>4, <1>6 DEF Touches
<1>8. /\ \A q \in Peer : \A x \in Waiting(q)' :
            x \in Waiting(q) /\ obj[q][x].index # k0 /\ obj'[q][x] = obj[q][x]
      /\ \A q \in Peer : \A i \in DOMAIN wire[q] : wire[q][i].transaction # k0
  BY <1>1, <1>2, <1>3, <1>4, <1>7, PoppedTokens
<1>9. ASSUME NEW q \in Peer, NEW k, NEW f, NEW t, Token(q, k, f, t)'
      PROVE  Token(q, k, f, t) /\ k # k0
  BY <1>4, <1>8, <1>9 DEF Token
<1>10. DOMAIN log' = Used' /\ \A k \in DOMAIN log' : ~log'[k].failed => log'[k].faults = {}
  BY <1>4 DEF Courses, Used
<1>11. Courses'
  BY <1>4, <1>7, <1>8, <1>9, <1>10, CoursesStep
<1>12. QED
  BY <1>4, <1>11

(* A packet is written: its transaction goes on from this peer.             *)
LEMMA SentTokens ==
    ASSUME TypeOK, Holding, NEW p \in Peer, NEW k0, NEW sent \in Processor,
           sent.index = k0, Transmit(p, sent),
           \A q \in Peer : \A i \in DOMAIN wire[q] : wire[q][i].transaction # k0,
           \A q \in Peer : \A x \in Waiting(q)' :
              x \in Waiting(q) /\ obj[q][x].index # k0 /\ obj'[q][x] = obj[q][x],
           NEW q \in Peer, NEW k, NEW f, NEW t, Token(q, k, f, t)'
    PROVE  \/ Token(q, k, f, t) /\ k # k0
           \/ q = p /\ k = k0 /\ f = sent.failed /\ t = sent.type
<1>1. OneToken
  BY DEF Holding
<1>2. \A r \in Peer : \A i \in DOMAIN wire'[r] :
         \/ /\ \E j \in DOMAIN wire[r] : wire[r][j] = wire'[r][i]
            /\ wire'[r][i].transaction # k0
         \/ r = p /\ wire'[r][i] = PacketOf(sent)
  BY <1>1, TokenSent
<1>3. CASE \E i \in DOMAIN wire'[q] : /\ k = wire'[q][i].transaction
                                     /\ f = wire'[q][i].failed /\ t = wire'[q][i].type
  <2>1. PICK i \in DOMAIN wire'[q] : /\ k = wire'[q][i].transaction
                                     /\ f = wire'[q][i].failed /\ t = wire'[q][i].type
    BY <1>3
  <2>2. CASE q = p /\ wire'[q][i] = PacketOf(sent)
    BY <2>1, <2>2 DEF PacketOf
  <2>3. CASE /\ \E j \in DOMAIN wire[q] : wire[q][j] = wire'[q][i]
             /\ wire'[q][i].transaction # k0
    BY <2>1, <2>3 DEF Token
  <2>4. QED
    BY <1>2, <2>2, <2>3
<1>4. CASE \E x \in Waiting(q)' : /\ obj'[q][x].resendable /\ k = obj'[q][x].index
                                  /\ f = obj'[q][x].failed /\ t = obj'[q][x].type
  BY <1>4 DEF Token
<1>5. QED
  BY <1>3, <1>4 DEF Token

(* go() of a host on a line that nobody stepped on calls its first steps,   *)
(* or nothing when the line is one step of the server.                      *)
LEMMA HostBegins ==
    ASSUME NEW line \in Seq(Side), line # <<>>, WellFormed(line),
           NEW r, r \in GoOutcomes(line, 1, "HOST")
    PROVE  /\ r.ok \in BOOLEAN /\ r.next \in 1..Len(line) + 1
           /\ \/ /\ line[1] = "HOST" /\ r.first = 1 /\ r.next > 1
                 /\ \A i \in 1..r.next - 1 : line[i] = "HOST"
                 /\ r.ok /\ r.next <= Len(line) => line[r.next] # "HOST"
              \/ /\ line[1] = "SERVER" /\ Len(line) = 1
                 /\ r.first = 2 /\ r.next = 2 /\ r.ok
<1>1. Len(line) \in Nat \ {0} /\ \A i \in 1..Len(line) : line[i] \in Side
  BY EmptySeq, ElementOfSeq
<1>2. /\ r.first \in 1..Len(line) + 1 /\ r.next \in 1..Len(line) + 1 /\ r.ok \in BOOLEAN
      /\ \A i \in r.first..r.next - 1 : line[i] = "HOST"
      /\ r.first > Len(line) => r.next = r.first /\ r.ok
  BY <1>1 DEF GoOutcomes
<1>3. CASE line[1] = "HOST"
  <2>1. /\ r.first = 1 /\ r.next > 1
        /\ \A i \in 1..r.next - 1 : line[i] = "HOST"
        /\ r.ok /\ r.next <= Len(line) => line[r.next] # "HOST"
    <3>1. 1 \in 1..Len(line) + 1 /\ 0 \in 0..Len(line) /\ "HOST" \in Side
      BY <1>1 DEF Side
    <3>2. line[0 + 1] = "HOST" /\ \A i \in 1..0 : line[i] # "HOST"
      BY <1>3
    <3>3. PICK pos : pos = 1
      OBVIOUS
    <3>4. PICK done : done = 0
      OBVIOUS
    <3>5. /\ r.first = done + 1
          /\ \A i \in done + 1..r.next - 1 : line[i] = "HOST"
          /\ done < Len(line) => r.next > done + 1
          /\ r.ok /\ r.next <= Len(line) => line[r.next] # "HOST"
      BY <1>1, <3>1, <3>2, <3>3, <3>4, GoOn
    <3>6. QED
      BY <1>1, <3>4, <3>5
  <2>2. QED
    BY <1>2, <1>3, <2>1
<1>4. CASE line[1] = "SERVER"
  <2>1. Len(line) = 1
    BY <1>4 DEF WellFormed
  <2>2. r.first # 1
    <3>1. ASSUME r.first = 1 PROVE FALSE
      <4>1. 1 \in r.first..r.next - 1
        BY <1>1, <1>2, <3>1 DEF GoOutcomes
      <4>2. QED
        BY <1>2, <1>4, <4>1
    <3>2. QED
      BY <3>1
  <2>3. QED
    BY <1>2, <1>4, <2>1, <2>2
<1>5. QED
  BY <1>1, <1>3, <1>4 DEF Side

(* A transaction begins: its host calls its first steps, and the packet, if *)
(* none of them failed, finds the server's turn.                            *)
Begun(k, t) ==
    /\ t = log'[k].type
    /\ Done(k)' \in 0..Len(Line[t])
    /\ log'[k].failed => Done(k)' = Len(Line[t])
    /\ Done(k)' < Len(Line[t]) => Line[t][Done(k)' + 1] = "SERVER"
    /\ \A i \in 1..Done(k)' : Line[t][i] # "SERVER"

LEMMA FirstVisit ==
    ASSUME LogOK, NEW k0 \in DOMAIN log, NEW t \in Types, NEW r,
           Line[t] # <<>>, r \in GoOutcomes(Line[t], 1, "HOST"),
           log[k0].type = t, log[k0].calls = <<>>, ~log[k0].failed, log[k0].faults = {},
           log' = Logged(k0, "HOST", r, GoFails(Line[t], r))
    PROVE  /\ DOMAIN log' = DOMAIN log /\ \A k \in DOMAIN log : k # k0 => log'[k] = log[k]
           /\ Contract!Next \/ log' = log
           /\ ~log'[k0].failed => log'[k0].faults = {}
           /\ ~GoFails(Line[t], r) => Begun(k0, t)
           /\ ~IsOver(Line[t], r) => r.next = Done(k0)' + 1
<1>1. PICK line : line = Line[t]
  OBVIOUS
<1>2. PICK fault \in BOOLEAN : fault <=> GoFails(line, r)
  OBVIOUS
<1>3. fault = GoFails(line, r)
  BY <1>2 DEF GoFails
<1>4. line \in Seq(Side) /\ WellFormed(line) /\ Len(line) \in Nat
  BY <1>1, LineAssumption, LineShapeAssumption
<1>5. /\ r.ok \in BOOLEAN /\ r.next \in 1..Len(line) + 1
      /\ \/ /\ line[1] = "HOST" /\ r.first = 1 /\ r.next > 1
            /\ \A i \in 1..r.next - 1 : line[i] = "HOST"
            /\ r.ok /\ r.next <= Len(line) => line[r.next] # "HOST"
         \/ /\ line[1] = "SERVER" /\ Len(line) = 1
            /\ r.first = 2 /\ r.next = 2 /\ r.ok
  BY <1>1, <1>4, HostBegins
<1>6. Done(k0) = 0 /\ LineOf(k0) = line /\ log' = Logged(k0, "HOST", r, fault)
  BY <1>1, <1>3 DEF Done, LineOf
<1>7. \A i \in 1..Len(line) : line[i] # "HOST" => line[i] = "SERVER"
  BY <1>4, ElementOfSeq DEF Side
<1>8. /\ IsOver(line, r) <=> r.next = Len(line) + 1
      /\ fault <=> ~r.ok /\ r.next # Len(line) + 1
  BY <1>2, <1>4, <1>5 DEF IsOver, GoFails
<1>9. CASE line[1] = "HOST"
  <2>1. /\ r.first = 1 /\ r.next > 1
        /\ \A i \in 1..r.next - 1 : line[i] = "HOST"
        /\ r.ok /\ r.next <= Len(line) => line[r.next] # "HOST"
    BY <1>5, <1>9
  <2>2. Len(line) > 0
    BY <1>4, <1>5, <2>1
  <2>3. Visits(k0, "HOST", r, fault)
    BY <1>4, <1>5, <1>6, <1>8, <2>1, <2>2 DEF Visits
  <2>4. "HOST" \in Side
    BY DEF Side
  <2>5. /\ DOMAIN log' = DOMAIN log /\ \A x \in DOMAIN log : x # k0 => log'[x] = log[x]
        /\ log'[k0].type = t /\ Done(k0)' = r.next - 1
        /\ log'[k0].failed <=> ~r.ok
        /\ log'[k0].faults = IF fault THEN {"HOST"} ELSE {}
    <3>1. /\ DOMAIN log' = DOMAIN log /\ \A x \in DOMAIN log : x # k0 => log'[x] = log[x]
          /\ log'[k0].type = log[k0].type /\ Len(log'[k0].calls) = r.next - 1
          /\ log'[k0].failed <=> log[k0].failed \/ ~r.ok
          /\ log'[k0].faults = log[k0].faults \cup IF fault THEN {"HOST"} ELSE {}
      <4>1. Visited(k0, "HOST", r, fault)
        BY <2>3, <2>4, VisitLog
      <4>2. QED
        BY <4>1 DEF Visited
    <3>2. QED
      BY <3>1 DEF Done
  <2>6. Contract!Next \/ log' = log
    BY <2>3, <2>4, VisitAllowed
  <2>7. Done(k0)' \in 0..Len(line) /\ r.next = Done(k0)' + 1
    BY <1>4, <1>5, <2>5
  <2>8. ASSUME ~fault PROVE Begun(k0, t)
    <3>1. log'[k0].failed => Done(k0)' = Len(line)
      BY <1>4, <1>5, <1>8, <2>5, <2>8
    <3>2. Done(k0)' < Len(line) => line[Done(k0)' + 1] = "SERVER"
      <4>1. ASSUME Done(k0)' < Len(line) PROVE r.ok /\ r.next <= Len(line)
        BY <1>4, <1>5, <1>8, <2>7, <2>8, <4>1
      <4>2. QED
        BY <1>5, <1>7, <2>1, <2>7, <4>1
    <3>3. \A i \in 1..Done(k0)' : line[i] # "SERVER"
      BY <2>1, <2>5
    <3>4. QED
      BY <1>1, <2>5, <2>7, <3>1, <3>2, <3>3 DEF Begun
  <2>9. QED
    BY <1>1, <1>3, <2>5, <2>6, <2>7, <2>8, <1>2, <1>8 DEF Begun
<1>10. CASE line[1] # "HOST"
  <2>1. line[1] = "SERVER" /\ Len(line) = 1 /\ r.first = 2 /\ r.next = 2 /\ r.ok
    BY <1>5, <1>10
  <2>2. log' = log
    <3>1. ~fault
      BY <1>8, <2>1
    <3>2. QED
      BY <1>6, <2>1, <3>1, NothingCalled
  <2>3. Done(k0)' = 0 /\ IsOver(line, r)
    BY <1>6, <1>8, <2>1, <2>2 DEF Done
  <2>4. Begun(k0, t)
    BY <1>1, <2>1, <2>2, <2>3 DEF Begun
  <2>5. QED
    BY <1>1, <2>2, <2>3, <2>4 DEF Begun
<1>11. QED
  BY <1>9, <1>10

LEMMA FirstStepCourse ==
    ASSUME TypeOK, Holding, Courses, NEW p \in Peer, FirstStep(p)
    PROVE  Courses' /\ (Contract!Next \/ log' = log)
<1>1. PICK o : o = Head(Queued(p))
  OBVIOUS
<1>2. PICK rec : rec = obj[p][o]
  OBVIOUS
<1>3. PICK k0 : k0 = rec.index
  OBVIOUS
<1>4. PICK t0 : t0 = rec.type
  OBVIOUS
<1>5. /\ Queued(p) # <<>> /\ PopActual(p) /\ ~rec.resendable /\ Line[t0] # <<>>
      /\ UNCHANGED iMap
  BY <1>1, <1>2, <1>4 DEF FirstStep
<1>6. /\ o \in 1..Len(obj[p]) + 1 /\ rec \in Processor /\ Standing(rec)
      /\ t0 \in Types /\ Line[t0] \in Seq(Side)
      /\ New(rec) /\ Owner(k0) = p /\ k0 \notin DOMAIN iMap[Other(p)]
  BY <1>1, <1>2, <1>3, <1>4, <1>5, Unsent
<1>7. rec.step = 1 /\ rec.position = "HOST" /\ ~rec.failed
  BY <1>6 DEF New
<1>8. PICK r \in GoOutcomes(Line[t0], 1, "HOST") :
          LET moved == [rec EXCEPT !.step = r.next, !.resendable = ~IsOver(Line[t0], r)]
          IN  /\ log' = Logged(k0, "HOST", r, GoFails(Line[t0], r))
              /\ IF GoFails(Line[t0], r)
                 THEN obj' = Store(p, o, Cleared(Marked(rec))) /\ UNCHANGED wire
                 ELSE /\ Transmit(p, moved)
                      /\ IF moved.resendable THEN obj' = Store(p, o, moved)
                                             ELSE obj' = Store(p, o, Cleared(moved))
  BY <1>1, <1>2, <1>3, <1>4, <1>7 DEF FirstStep
<1>9. PICK over \in BOOLEAN : over <=> IsOver(Line[t0], r)
  OBVIOUS
<1>10. PICK moved : moved = [rec EXCEPT !.step = r.next, !.resendable = ~over]
  OBVIOUS
<1>11. /\ moved \in Processor /\ moved.index = k0 /\ moved.type = t0 /\ moved.step = r.next
       /\ moved.position = "HOST" /\ (moved.resendable <=> ~over) /\ ~moved.failed
  <2>1. r.next \in 1..Len(Line[t0]) + 1
    BY <1>4, <1>6, <1>7, <1>8, MovedType
  <2>2. moved \in Processor
    BY <1>4, <1>6, <1>10, <2>1, ProcessorUpdate
  <2>3. QED
    BY <1>3, <1>4, <1>6, <1>7, <1>10, <2>2 DEF Processor
<1>12. /\ log' = Logged(k0, "HOST", r, GoFails(Line[t0], r))
       /\ \/ GoFails(Line[t0], r) /\ obj' = Store(p, o, Cleared(Marked(rec))) /\ UNCHANGED wire
          \/ /\ ~GoFails(Line[t0], r) /\ ~over /\ Transmit(p, moved)
             /\ obj' = Store(p, o, moved)
          \/ /\ ~GoFails(Line[t0], r) /\ over /\ Transmit(p, moved)
             /\ obj' = Store(p, o, Cleared(moved))
  <2>1. over = IsOver(Line[t0], r)
    BY <1>9 DEF IsOver
  <2>2. moved = [rec EXCEPT !.step = r.next, !.resendable = ~IsOver(Line[t0], r)]
    BY <1>10, <2>1
  <2>3. QED
    BY <1>8, <1>11, <2>2
<1>13. /\ Cleared(Marked(rec)) \in Processor /\ Cleared(moved) \in Processor
  BY <1>6, <1>11, MarkedType, ClearedType
<1>14. PICK new \in Processor : /\ obj' = Store(p, o, new)
                                /\ ~GoFails(Line[t0], r) /\ ~over => new = moved
  BY <1>11, <1>12, <1>13
<1>15. /\ obj'[p][o] = new /\ \A x \in Ids(p) : x # o => obj'[p][x] = obj[p][x]
       /\ \A q \in Peer : q # p => obj'[q] = obj[q]
  BY <1>6, <1>14, StoreAt
<1>16. /\ o \in Waiting(p) /\ k0 \in DOMAIN iMap[p] /\ iMap[p][k0] = o
  <2>1. o \in Waiting(p)
    BY <1>1, <1>5, Popped
  <2>2. QED
    BY <1>2, <1>3, <2>1 DEF Holding, WaitOK
<1>17. /\ k0 \in DOMAIN log /\ log[k0].type = t0 /\ log[k0].calls = <<>>
       /\ ~log[k0].failed /\ log[k0].faults = {}
  <2>1. k0 \in DOMAIN log
    BY <1>16 DEF Courses, Used, Peer
  <2>2. Unopened(p, o)
    BY <1>2, <1>5, <1>16 DEF Courses
  <2>3. QED
    BY <1>2, <1>3, <1>4, <2>1, <2>2 DEF Unopened, Courses
<1>18. /\ DOMAIN log' = DOMAIN log /\ \A k \in DOMAIN log : k # k0 => log'[k] = log[k]
       /\ Contract!Next \/ log' = log
       /\ ~log'[k0].failed => log'[k0].faults = {}
       /\ ~GoFails(Line[t0], r) => Begun(k0, t0)
       /\ ~IsOver(Line[t0], r) => r.next = Done(k0)' + 1
  BY <1>5, <1>6, <1>8, <1>12, <1>17, FirstVisit DEF TypeOK
<1>19. Touches(p, o, k0)
  BY <1>2, <1>3, <1>5, <1>15, <1>18 DEF Touches
<1>20. /\ \A q \in Peer : \A x \in Waiting(q)' :
             x \in Waiting(q) /\ obj[q][x].index # k0 /\ obj'[q][x] = obj[q][x]
       /\ \A q \in Peer : \A i \in DOMAIN wire[q] : wire[q][i].transaction # k0
  BY <1>1, <1>2, <1>3, <1>5, <1>19, PoppedTokens
<1>21. ASSUME ~GoFails(Line[t0], r) PROVE t0 = log'[k0].type /\ Course(p, k0, FALSE)'
  <2>1. Begun(k0, t0)
    BY <1>18, <1>21
  <2>2. LineOf(k0)' = Line[t0] /\ t0 = log'[k0].type
    BY <2>1 DEF Begun, LineOf
  <2>3. Role(Other(p), k0) = "SERVER" /\ Role(p, k0) = "HOST" /\ Other(p) \in Peer
    BY <1>6, Peers DEF Role
  <2>4. k0 \notin DOMAIN iMap'[Other(p)]
    BY <1>5, <1>6
  <2>5. ASSUME ~OneWay(Line[t0])
        PROVE  Stands(At(p, k0), p, k0)' /\ (At(p, k0).step)' = Done(k0)' + 1
    <3>1. ~over
      BY <1>6, <1>5, <1>8, <1>9, <2>5, OneWayHost, LineShapeAssumption
    <3>2. At(p, k0)' = moved
      BY <1>5, <1>14, <1>15, <1>16, <1>21, <3>1 DEF At
    <3>3. r.next = Done(k0)' + 1
      BY <1>9, <1>18, <3>1
    <3>4. Done(k0)' \in Nat
      BY <2>1 DEF Begun
    <3>5. QED
      BY <1>11, <2>2, <2>3, <3>2, <3>3, <3>4 DEF Stands, Role
  <2>6. QED
    BY <2>1, <2>2, <2>3, <2>4, <2>5 DEF Begun, Course, Role
<1>22. ASSUME NEW q \in Peer, NEW k, NEW f, NEW t, Token(q, k, f, t)'
       PROVE  \/ Token(q, k, f, t) /\ k # k0
              \/ t = log'[k].type /\ Course(q, k, f)'
  <2>1. CASE GoFails(Line[t0], r)
    <3>1. wire' = wire
      BY <1>12, <2>1
    <3>2. CASE \E i \in DOMAIN wire'[q] : /\ k = wire'[q][i].transaction
                                          /\ f = wire'[q][i].failed /\ t = wire'[q][i].type
      <4>1. PICK i \in DOMAIN wire[q] : /\ k = wire[q][i].transaction
                                        /\ f = wire[q][i].failed /\ t = wire[q][i].type
        BY <3>1, <3>2
      <4>2. QED
        BY <1>20, <4>1, Zenon DEF Token
    <3>3. CASE \E x \in Waiting(q)' : /\ obj'[q][x].resendable /\ k = obj'[q][x].index
                                      /\ f = obj'[q][x].failed /\ t = obj'[q][x].type
      <4>1. PICK x \in Waiting(q)' : /\ obj'[q][x].resendable /\ k = obj'[q][x].index
                                     /\ f = obj'[q][x].failed /\ t = obj'[q][x].type
        BY <3>3, Zenon
      <4>2. x \in Waiting(q) /\ obj[q][x].index # k0 /\ obj'[q][x] = obj[q][x]
        BY <1>20, <4>1, Zenon
      <4>3. /\ obj[q][x].resendable /\ k = obj[q][x].index
            /\ f = obj[q][x].failed /\ t = obj[q][x].type
        BY <4>1, <4>2, Zenon
      <4>4. QED
        BY <4>2, <4>3, Zenon DEF Token
    <3>4. QED
      BY <1>22, <3>2, <3>3, Zenon DEF Token
  <2>2. CASE ~GoFails(Line[t0], r)
    <3>1. Transmit(p, moved)
      BY <1>12, <2>2
    <3>2. \/ Token(q, k, f, t) /\ k # k0
          \/ q = p /\ k = k0 /\ f = moved.failed /\ t = moved.type
      BY <1>11, <1>20, <1>22, <3>1, SentTokens
    <3>3. moved.failed = FALSE
      BY <1>11 DEF Processor
    <3>4. QED
      BY <1>11, <1>21, <2>2, <3>2, <3>3
  <2>3. QED
    BY <2>1, <2>2
<1>23. DOMAIN log' = Used'
  BY <1>5, <1>18 DEF Courses, Used
<1>24. Courses'
  BY <1>18, <1>19, <1>20, <1>22, <1>23, CoursesStep
<1>25. QED
  BY <1>18, <1>24

(* The processors that wait, and what is under way, when a packet is taken. *)
LEMMA TakenTokens ==
    ASSUME TypeOK, Holding, NEW p \in Peer, NEW o, NEW k0, Touches(p, o, k0),
           Takes(Other(p), k0), NEW S, Ids(p) \subseteq S, o \in S,
           Pushes(p, o) \/ UNCHANGED <<iQueue, iBackQueue>>
    PROVE  /\ \A q \in Peer : \A x \in Waiting(q)' :
                 \/ x \in Waiting(q) /\ obj[q][x].index # k0 /\ obj'[q][x] = obj[q][x]
                 \/ q = p /\ x = o /\ Pushes(p, o)
           /\ \A q \in Peer : \A k, f, t : Token(q, k, f, t)' =>
                 \/ Token(q, k, f, t) /\ k # k0
                 \/ /\ Pushes(p, o) /\ q = p
                    /\ obj'[p][o].resendable /\ k = obj'[p][o].index
                    /\ f = obj'[p][o].failed /\ t = obj'[p][o].type
<1>1. Other(p) \in Peer /\ OneToken
  BY Peers DEF Holding
<1>2. /\ wire[Other(p)] # <<>> /\ 1 \in DOMAIN wire[Other(p)]
      /\ wire[Other(p)][1].transaction = k0
  <2>1. wire[Other(p)] \in Seq(Packet)
    BY <1>1 DEF TypeOK
  <2>2. QED
    BY <2>1, TailPlaces DEF Takes
<1>3. \A q \in Peer : \A x \in Waiting(q) : obj[q][x].index # k0
  BY <1>1, <1>2 DEF OneToken
<1>4. ASSUME NEW q \in Peer, NEW x \in Waiting(q)'
      PROVE  \/ x \in Waiting(q) /\ obj[q][x].index # k0 /\ obj'[q][x] = obj[q][x]
             \/ q = p /\ x = o /\ Pushes(p, o)
  <2>1. x \in Waiting(q) \/ (q = p /\ x = o /\ Pushes(p, o))
    <3>1. CASE UNCHANGED <<iQueue, iBackQueue>>
      BY <1>4, <3>1, QueuesKept
    <3>2. CASE Pushes(p, o)
      <4>1. /\ Waiting(p)' = Waiting(p) \cup {o}
            /\ \A r \in Peer : r # p => iQueue'[r] = iQueue[r] /\ iBackQueue'[r] = iBackQueue[r]
        BY <3>2, Pushed
      <4>2. q # p => Queued(q)' = Queued(q)
        BY <4>1 DEF Queued
      <4>3. q # p => Waiting(q)' = Waiting(q)
        BY <4>2 DEF Waiting
      <4>4. QED
        BY <1>4, <3>2, <4>1, <4>3
    <3>3. QED
      BY <3>1, <3>2
  <2>2. x \in Waiting(q) => obj[q][x].index # k0 /\ obj'[q][x] = obj[q][x]
    BY <1>3, WaitUntouched
  <2>3. QED
    BY <2>1, <2>2
<1>5. ASSUME NEW q \in Peer, NEW i \in DOMAIN wire'[q]
      PROVE  /\ \E j \in DOMAIN wire[q] : wire[q][j] = wire'[q][i]
             /\ wire'[q][i].transaction # k0
  <2>1. PICK pkt : pkt = wire'[q][i]
    OBVIOUS
  <2>2. \A r \in Peer : r # Other(p) => wire'[r] = wire[r]
    BY DEF TypeOK, Takes
  <2>3. CASE q = Other(p)
    <3>1. wire[q] \in Seq(Packet) /\ wire'[q] = Tail(wire[q]) /\ wire[q] # <<>>
      BY <1>1, <2>3 DEF TypeOK, Takes
    <3>2. /\ DOMAIN wire[q] = 1..Len(wire[q]) /\ Len(wire[q]) \in Nat \ {0}
          /\ DOMAIN wire'[q] = 1..Len(wire[q]) - 1
          /\ \A j \in 1..Len(wire[q]) - 1 : wire'[q][j] = wire[q][j + 1]
      BY <3>1, TailPlaces
    <3>3. i + 1 \in DOMAIN wire[q] /\ i + 1 # 1 /\ wire'[q][i] = wire[q][i + 1]
      BY <1>5, <3>2
    <3>4. wire[q][i + 1].transaction # k0
      BY <1>1, <1>2, <2>3, <3>3 DEF OneToken
    <3>5. QED
      BY <3>3, <3>4
  <2>4. CASE q # Other(p)
    <3>1. q = Other(Other(p)) /\ wire'[q] = wire[q]
      BY <1>1, <2>2, <2>4, Peers
    <3>2. wire[Other(p)][1].transaction # wire[q][i].transaction
      BY <1>1, <1>2, <1>5, <3>1 DEF OneToken
    <3>3. QED
      BY <1>2, <1>5, <3>1, <3>2
  <2>5. QED
    BY <2>3, <2>4
<1>6. ASSUME NEW q \in Peer, NEW k, NEW f, NEW t, Token(q, k, f, t)'
      PROVE  \/ Token(q, k, f, t) /\ k # k0
             \/ /\ Pushes(p, o) /\ q = p
                /\ obj'[p][o].resendable /\ k = obj'[p][o].index
                /\ f = obj'[p][o].failed /\ t = obj'[p][o].type
  BY <1>4, <1>5, <1>6 DEF Token
<1>7. QED
  BY <1>4, <1>6

(* A packet carries on the transaction it names.                            *)
LEMMA PacketCourse ==
    ASSUME TypeOK, Courses, NEW p \in Peer, NEW pkt, Arrives(p, pkt)
    PROVE  /\ pkt.failed \in BOOLEAN /\ pkt.type = log[pkt.transaction].type
           /\ Course(Other(p), pkt.transaction, pkt.failed)
<1>1. Other(p) \in Peer /\ wire[Other(p)] \in Seq(Packet)
  BY Peers DEF TypeOK
<1>2. 1 \in DOMAIN wire[Other(p)] /\ pkt = wire[Other(p)][1] /\ pkt \in Packet
  BY <1>1, TailPlaces DEF Arrives
<1>3. Token(Other(p), pkt.transaction, pkt.failed, pkt.type)
  BY <1>2 DEF Token
<1>4. QED
  BY <1>1, <1>2, <1>3 DEF Courses, Packet

(* What a packet touches: its transaction and the processor it is handed to. *)
LEMMA PacketTouches ==
    ASSUME TypeOK, Holding, Courses, NEW p \in Peer, NEW pkt, Arrives(p, pkt),
           NEW o, o = Target(p, pkt), NEW k0, k0 = pkt.transaction, Lookup(p, pkt),
           UNCHANGED <<sending, sends>>, NEW new \in Processor, obj' = Store(p, o, new),
           \A k \in DOMAIN log : k # k0 => log'[k] = log[k], DOMAIN log' = DOMAIN log
    PROVE  /\ Touches(p, o, k0) /\ k0 \in DOMAIN log /\ DOMAIN log' = Used' /\ o \in Number
           /\ k0 \in DOMAIN iMap'[p] /\ iMap'[p][k0] = o /\ obj'[p][o] = new
<1>1. Free(p, pkt, o, Targeted(p, pkt))
  BY Handed
<1>2. Learnt(p, k0, o)
  BY LookedUp
<1>3. /\ obj'[p][o] = new /\ \A x \in Ids(p) : x # o => obj'[p][x] = obj[p][x]
      /\ \A q \in Peer : q # p => obj'[q] = obj[q]
  <2>1. o \in 1..Len(obj[p]) + 1
    BY <1>1, TargetType DEF Free
  <2>2. QED
    BY <2>1, StoreAt
<1>4. k0 \in DOMAIN iMap[Other(p)] /\ Other(p) \in Peer
  BY <1>1, Peers DEF Free
<1>5. k0 \in Used
  BY <1>4 DEF Used, Peer
<1>6. Used' = Used
  <2>1. \A q \in Peer : DOMAIN iMap'[q] \subseteq Used /\ DOMAIN iMap[q] \subseteq DOMAIN iMap'[q]
    BY <1>2, <1>5 DEF Learnt, Used, Peer
  <2>2. QED
    BY <2>1 DEF Used, Peer
<1>7. k0 \in DOMAIN log /\ DOMAIN log' = Used'
  BY <1>5, <1>6 DEF Courses
<1>8. Touches(p, o, k0)
  BY <1>1, <1>2, <1>3 DEF Touches, Learnt, Free
<1>9. QED
  BY <1>1, <1>2, <1>3, <1>7, <1>8 DEF Learnt, Free

(* A failure is answered by fault(), once per side.                         *)
LEMMA ReceiveFailureCourse ==
    ASSUME TypeOK, Holding, Courses, NEW p \in Peer, ReceiveFailure(p)
    PROVE  Courses' /\ (Contract!Next \/ log' = log)
<1>1. PICK pkt : pkt = Head(wire[Other(p)])
  OBVIOUS
<1>2. PICK o : o = Target(p, pkt)
  OBVIOUS
<1>3. PICK rec : rec = Targeted(p, pkt)
  OBVIOUS
<1>4. PICK k0 : k0 = pkt.transaction
  OBVIOUS
<1>5. PICK new : new = [rec EXCEPT !.failed = TRUE, !.flagged = TRUE, !.resendable = FALSE]
  OBVIOUS
<1>6. /\ Arrives(p, pkt) /\ Lookup(p, pkt) /\ obj' = Store(p, o, new) /\ pkt.failed
      /\ UNCHANGED <<sending, sends>> /\ Takes(Other(p), k0)
      /\ UNCHANGED <<iQueue, iBackQueue>>
      /\ log' = [log EXCEPT ![new.index].faults = @ \cup {new.position}]
  BY <1>1, <1>2, <1>3, <1>4, <1>5 DEF ReceiveFailure, Arrives, Takes
<1>7. rec \in Processor /\ rec.index = k0
  BY <1>2, <1>3, <1>4, <1>6, Handed, TargetType DEF Free
<1>8. /\ new \in Processor /\ new.index = k0 /\ new.position \in Side
  BY <1>5, <1>7 DEF Processor
<1>9. k0 \in DOMAIN log
  <2>1. Free(p, pkt, o, rec) /\ Other(p) \in Peer
    BY <1>2, <1>3, <1>6, Handed, Peers
  <2>2. QED
    BY <1>4, <2>1 DEF Free, Courses, Used, Peer
<1>10. log[k0] \in History
  BY <1>9 DEF TypeOK, LogOK
<1>11. log[k0].failed
  BY <1>4, <1>6, PacketCourse DEF Course
<1>12. PICK side \in Side : side = new.position
  BY <1>8
<1>13. log' = [log EXCEPT ![k0].faults = @ \cup {side}]
  BY <1>6, <1>8, <1>12
<1>14. /\ DOMAIN log' = DOMAIN log /\ \A k \in DOMAIN log : k # k0 => log'[k] = log[k]
       /\ log'[k0].failed
  BY <1>9, <1>10, <1>11, <1>13 DEF TypeOK, LogOK, History
<1>15. Touches(p, o, k0) /\ DOMAIN log' = Used' /\ o \in Number
  BY <1>2, <1>4, <1>6, <1>8, <1>14, PacketTouches
<1>16. Ids(p) \subseteq Number /\ ~Pushes(p, o)
  <2>1. iBackQueue[p] \in Seq(Ids(p)) /\ DOMAIN iBackQueue = Peer
    BY DEF TypeOK, HoldersOK
  <2>2. ASSUME Pushes(p, o) PROVE FALSE
    <3>1. Append(iBackQueue[p], o) = iBackQueue[p]
      BY <1>6, <2>1, <2>2 DEF Pushes
    <3>2. iBackQueue[p] \in Seq(Number) /\ o \in Number
      BY <1>15, <2>1, SeqMonotonic DEF Ids, Number
    <3>3. Len(Append(iBackQueue[p], o)) = Len(iBackQueue[p]) + 1 /\ Len(iBackQueue[p]) \in Nat
      BY <3>2, AppendProperties, LenProperties
    <3>4. QED
      BY <3>1, <3>3
  <2>3. QED
    BY <2>2 DEF Ids, Number
<1>17. /\ \A q \in Peer : \A x \in Waiting(q)' :
             \/ x \in Waiting(q) /\ obj[q][x].index # k0 /\ obj'[q][x] = obj[q][x]
             \/ q = p /\ x = o /\ Pushes(p, o)
       /\ \A q \in Peer : \A k, f, t : Token(q, k, f, t)' =>
             \/ Token(q, k, f, t) /\ k # k0
             \/ /\ Pushes(p, o) /\ q = p
                /\ obj'[p][o].resendable /\ k = obj'[p][o].index
                /\ f = obj'[p][o].failed /\ t = obj'[p][o].type
  BY <1>6, <1>15, <1>16, TakenTokens
<1>18. Courses'
  BY <1>14, <1>15, <1>16, <1>17, CoursesStep
<1>19. Contract!Next \/ log' = log
  <2>1. CASE side \in log[k0].faults
    <3>1. log[k0].faults \cup {side} = log[k0].faults
      BY <2>1
    <3>2. [log[k0] EXCEPT !.faults = @ \cup {side}] = log[k0]
      BY <1>10, <3>1 DEF History
    <3>3. log' = [log EXCEPT ![k0] = log[k0]]
      BY <1>13, <3>2
    <3>4. QED
      BY <3>3 DEF TypeOK, LogOK
  <2>2. CASE side \notin log[k0].faults
    <3>1. Contract!Notify(k0, side)
      BY <1>11, <1>13, <2>2 DEF Contract!Notify
    <3>2. QED
      BY <1>9, <3>1 DEF Contract!Next, Contract!Side, Side
  <2>3. QED
    BY <2>1, <2>2
<1>20. QED
  BY <1>18, <1>19

(* The processor a packet is handed to stands where its side goes on.       *)
LEMMA HandedStands ==
    ASSUME TypeOK, Holding, Courses, NEW p \in Peer, NEW pkt, Arrives(p, pkt), ~pkt.failed,
           NEW rec, rec = Targeted(p, pkt), NEW k0, k0 = pkt.transaction
    PROVE  Stands(rec, p, k0) /\ (~Known(p, pkt) => rec.step = 1 /\ rec.position = "SERVER")
<1>1. Free(p, pkt, Target(p, pkt), rec)
  BY Handed
<1>2. Course(Other(p), k0, pkt.failed) /\ pkt.type = log[k0].type
  BY PacketCourse
<1>3. Other(Other(p)) = p /\ Other(p) # p
  BY Peers
<1>4. CASE Known(p, pkt)
  <2>1. k0 \in DOMAIN iMap[p] /\ rec = At(p, k0)
    BY <1>4 DEF Known, Targeted, Target, At
  <2>2. QED
    BY <1>2, <1>3, <1>4, <2>1 DEF Course
<1>5. CASE ~Known(p, pkt)
  <2>1. /\ rec.step = 1 /\ rec.position = "SERVER" /\ rec.type = log[k0].type
        /\ Role(p, k0) = "SERVER" /\ k0 \notin DOMAIN iMap[p]
    BY <1>1, <1>2, <1>3, <1>5 DEF Free, Role
  <2>2. \A i \in 1..Done(k0) : LineOf(k0)[i] # Role(p, k0)
    BY <1>2, <1>3, <2>1 DEF Course
  <2>3. 1 <= Done(k0) + 1
    <3>1. k0 \in DOMAIN log
      BY <1>1, Peers DEF Free, Courses, Used, Peer
    <3>2. log[k0] \in History
      BY <3>1 DEF TypeOK, LogOK
    <3>3. log[k0].calls \in Seq([side : Side, step : Nat])
      BY <3>2 DEF History
    <3>4. QED
      BY <3>3 DEF Done
  <2>4. QED
    BY <1>5, <2>1, <2>2, <2>3 DEF Stands
<1>6. QED
  BY <1>4, <1>5

(* The steps of this side are called, and an answer goes back when the line *)
(* goes on.                                                                 *)
LEMMA ReceiveVisit ==
    ASSUME LogOK, NEW k0 \in DOMAIN log, NEW rec \in Processor, NEW p \in Peer,
           Standing(rec), Stands(rec, p, k0), Course(Other(p), k0, FALSE),
           ~log[k0].failed => log[k0].faults = {},
           NEW r, r \in GoOutcomes(LineOf(k0), rec.step, rec.position),
           NEW fault, fault = GoFails(LineOf(k0), r)
    PROVE  log' = Logged(k0, rec.position, r, fault) => Visits(k0, rec.position, r, fault)
<1> SUFFICES ASSUME log' = Logged(k0, rec.position, r, fault)
             PROVE  Visits(k0, rec.position, r, fault)
  OBVIOUS
<1>1. /\ log[k0] \in History /\ log[k0].calls \in Seq([side : Side, step : Nat])
      /\ log[k0].type \in Types
  BY DEF LogOK, History
<1>2. PICK line : line = LineOf(k0)
  OBVIOUS
<1>3. PICK done : done = Done(k0)
  OBVIOUS
<1>4. line \in Seq(Side) /\ Len(line) \in Nat /\ done \in Nat
  BY <1>1, <1>2, <1>3, LineAssumption DEF LineOf, Done
<1>5. PICK side \in Side : side = rec.position
  BY DEF Processor
<1>6. Other(Other(p)) = p
  BY Peers
<1>7. /\ rec.type = log[k0].type /\ side = Role(p, k0) /\ rec.step <= done + 1
      /\ \A i \in rec.step..done : line[i] # side
  BY <1>2, <1>3, <1>5 DEF Stands
<1>8. done <= Len(line) /\ (done < Len(line) => line[done + 1] = side)
  BY <1>2, <1>3, <1>6, <1>7 DEF Course
<1>9. rec.step \in 1..Len(line) + 1
  BY <1>2, <1>7 DEF Standing, LineOf
<1>10. PICK pos \in 1..Len(line) + 1 : pos = rec.step
  BY <1>9
<1>11. done \in 0..Len(line) /\ r \in GoOutcomes(line, pos, side)
  BY <1>2, <1>4, <1>5, <1>8, <1>10
<1>12. /\ r.first = done + 1 /\ r.next \in done + 1..Len(line) + 1
       /\ r.ok \in BOOLEAN
       /\ \A i \in done + 1..r.next - 1 : line[i] = side
       /\ done = Len(line) => r.next = done + 1 /\ r.ok
       /\ done < Len(line) => r.next > done + 1
       /\ r.ok /\ r.next <= Len(line) => line[r.next] # side
  <2>1. pos <= done + 1 /\ \A i \in pos..done : line[i] # side
    BY <1>7, <1>10
  <2>2. line \in Seq(Side) /\ done \in 0..Len(line)
    BY <1>4, <1>11
  <2>3. QED
    BY <1>8, <1>11, <2>1, <2>2, GoOn
<1>13. fault \in BOOLEAN /\ (fault => ~r.ok)
  BY DEF GoFails
<1>14. log' = Logged(k0, side, r, fault)
  BY <1>5
<1>15. Visits(k0, side, r, fault)
  BY <1>2, <1>3, <1>12, <1>13, <1>14 DEF Visits
<1>16. QED
  BY <1>5, <1>15

(* After the visit an answer finds the turn of the other side.              *)
LEMMA AnswerCourse ==
    ASSUME LogOK, NEW k0 \in DOMAIN log, NEW p \in Peer, NEW side, side = Role(p, k0),
           NEW r, NEW fault, fault = GoFails(LineOf(k0), r), Visits(k0, side, r, fault),
           Course(Other(p), k0, FALSE), ~IsOver(LineOf(k0), r),
           Stands(At(Other(p), k0), Other(p), k0), At(Other(p), k0).step = Done(k0) + 1,
           k0 \in DOMAIN iMap'[Other(p)], At(Other(p), k0)' = At(Other(p), k0),
           (At(p, k0).type)' = log[k0].type, (At(p, k0).position)' = side,
           (At(p, k0).step)' = r.next
    PROVE  log'[k0].type = log[k0].type /\ Course(p, k0, fault)'
<1>1. /\ log[k0] \in History /\ log[k0].calls \in Seq([side : Side, step : Nat])
      /\ log[k0].type \in Types
  BY DEF LogOK, History
<1>2. PICK line : line = LineOf(k0)
  OBVIOUS
<1>3. PICK done : done = Done(k0)
  OBVIOUS
<1>4. line \in Seq(Side) /\ Len(line) \in Nat /\ done \in Nat
  BY <1>1, <1>2, <1>3, LineAssumption DEF LineOf, Done
<1>5. side \in Side
  BY DEF Role, Side
<1>6. /\ log'[k0].type = log[k0].type /\ Len(log'[k0].calls) = r.next - 1
      /\ log'[k0].failed <=> log[k0].failed \/ ~r.ok
  <2>1. Visited(k0, side, r, fault)
    BY <1>5, VisitLog
  <2>2. QED
    BY <2>1 DEF Visited
<1>7. /\ r.next \in done + 1..Len(line) + 1 /\ r.ok \in BOOLEAN
      /\ \A i \in done + 1..r.next - 1 : line[i] = side
      /\ done = Len(line) => r.next = done + 1
      /\ r.ok /\ r.next <= Len(line) => line[r.next] # side
  BY <1>2, <1>3 DEF Visits
<1>8. r.next <= Len(line) /\ r.next \in Nat
  BY <1>2, <1>4, <1>7 DEF IsOver
<1>9. LineOf(k0)' = line /\ Done(k0)' = r.next - 1
  BY <1>2, <1>6 DEF LineOf, Done
<1>10. /\ \A i \in 1..Len(line) : line[i] # Role(p, k0) => line[i] = Role(Other(p), k0)
       /\ Role(Other(p), k0) # Role(p, k0)
  <2>1. Role(Other(p), k0) # Role(p, k0) /\ {Role(p, k0), Role(Other(p), k0)} = Side
    <3>1. Owner(k0) \in Peer /\ Other(p) \in Peer /\ Other(p) # p
      BY Peers
    <3>2. Owner(k0) = p \/ Owner(k0) = Other(p)
      BY <3>1, Peers
    <3>3. QED
      BY <3>1, <3>2 DEF Role, Side
  <2>2. QED
    BY <1>4, <2>1, ElementOfSeq
<1>11. ~log[k0].failed
  <2>1. log[k0].failed => done = Len(line)
    BY <1>2, <1>3 DEF Course
  <2>2. QED
    BY <1>4, <1>7, <1>8, <2>1
<1>12. fault <=> ~r.ok
  BY <1>7 DEF GoFails
<1>13. CASE fault
  BY <1>6, <1>12, <1>13 DEF Course
<1>14. CASE ~fault
  <2>1. ~log'[k0].failed /\ r.ok
    BY <1>6, <1>7, <1>11, <1>12, <1>14
  <2>2. line[r.next - 1 + 1] = Role(Other(p), k0)
    <3>1. line[r.next] # side /\ r.next \in 1..Len(line) /\ r.next - 1 + 1 = r.next
      BY <1>4, <1>7, <1>8, <2>1
    <3>2. QED
      BY <1>10, <3>1
  <2>3. Stands(At(Other(p), k0), Other(p), k0)'
    <3>1. PICK rec : rec = At(Other(p), k0)
      OBVIOUS
    <3>2. rec.type = log'[k0].type /\ rec.position = Role(Other(p), k0)
      BY <1>6, <3>1 DEF Stands
    <3>3. rec.step = done + 1 /\ rec.step <= r.next
      BY <1>3, <1>4, <1>7, <3>1
    <3>4. \A i \in rec.step..r.next - 1 : line[i] # Role(Other(p), k0)
      BY <1>7, <1>10, <3>3
    <3>5. QED
      BY <1>4, <1>8, <1>9, <3>1, <3>2, <3>3, <3>4 DEF Stands, Role
  <2>4. Stands(At(p, k0), p, k0)' /\ (At(p, k0).step)' = Done(k0)' + 1
    <3>1. (At(p, k0).step)' = r.next /\ r.next = r.next - 1 + 1
      BY <1>8
    <3>2. \A i \in r.next..r.next - 1 : FALSE
      BY <1>8
    <3>3. QED
      BY <1>6, <1>8, <1>9, <3>1, <3>2 DEF Stands, Role
  <2>5. Other(Other(p)) = p
    BY Peers
  <2>6. QED
    BY <1>4, <1>6, <1>8, <1>9, <1>14, <2>1, <2>2, <2>3, <2>4 DEF Course, Role
<1>15. QED
  BY <1>13, <1>14

LEMMA ReceiveStepCourse ==
    ASSUME TypeOK, Holding, Courses, NEW p \in Peer, ReceiveStep(p)
    PROVE  Courses' /\ (Contract!Next \/ log' = log)
<1>1. PICK pkt : pkt = Head(wire[Other(p)])
  OBVIOUS
<1>2. PICK o : o = Target(p, pkt)
  OBVIOUS
<1>3. PICK rec0 : rec0 = Targeted(p, pkt)
  OBVIOUS
<1>4. PICK k0 : k0 = pkt.transaction
  OBVIOUS
<1>5. PICK rec : rec = [rec0 EXCEPT !.failed = FALSE, !.flagged = FALSE]
  OBVIOUS
<1>6. PICK line : line = Line[rec.type]
  OBVIOUS
<1>7. PICK r \in GoOutcomes(line, rec.step, rec.position) :
          LET moved == [rec EXCEPT !.step = r.next,
                                   !.failed = GoFails(line, r), !.flagged = GoFails(line, r),
                                   !.resendable = ~IsOver(line, r)]
          IN  /\ log' = Logged(rec.index, rec.position, r, GoFails(line, r))
              /\ IF moved.resendable
                 THEN /\ obj' = Store(p, o, moved)
                      /\ iBackQueue' = [iBackQueue EXCEPT ![p] = Append(@, o)]
                 ELSE obj' = Store(p, o, Cleared(moved)) /\ UNCHANGED iBackQueue
  BY <1>1, <1>2, <1>3, <1>5, <1>6 DEF ReceiveStep
<1>8. PICK over \in BOOLEAN : over <=> IsOver(line, r)
  OBVIOUS
<1>9. PICK fault \in BOOLEAN : fault <=> GoFails(line, r)
  OBVIOUS
<1>10. PICK moved : moved = [rec EXCEPT !.step = r.next,
                                        !.failed = fault, !.flagged = fault,
                                        !.resendable = ~over]
  OBVIOUS
<1>11. /\ Arrives(p, pkt) /\ Lookup(p, pkt) /\ Takes(Other(p), k0) /\ ~pkt.failed
       /\ UNCHANGED <<sending, sends, iQueue>>
  BY <1>1, <1>4 DEF ReceiveStep, Arrives, Takes
<1>12. over = IsOver(line, r) /\ fault = GoFails(line, r)
  BY <1>8, <1>9 DEF IsOver, GoFails
<1>13. Free(p, pkt, o, rec0)
  BY <1>2, <1>3, <1>11, Handed
<1>14. rec0 \in Processor /\ Standing(rec0) /\ rec0.index = k0
  BY <1>3, <1>4, <1>13, TargetType DEF Free
<1>15. /\ rec \in Processor /\ Standing(rec) /\ rec.index = k0 /\ rec.type = rec0.type
       /\ rec.step = rec0.step /\ rec.position = rec0.position
  BY <1>5, <1>14 DEF Processor, Standing
<1>16. /\ moved \in Processor /\ moved.index = k0 /\ moved.type = rec.type
       /\ moved.step = r.next /\ moved.position = rec.position
       /\ (moved.resendable <=> ~over) /\ moved.failed = fault
  <2>1. r.next \in 1..Len(line) + 1
    BY <1>6, <1>7, <1>15, MovedType
  <2>2. moved \in Processor
    BY <1>6, <1>10, <1>15, <2>1, ProcessorUpdate
  <2>3. QED
    BY <2>2, <1>10, <1>15 DEF Processor
<1>17. /\ log' = Logged(k0, rec.position, r, fault)
       /\ \/ ~over /\ obj' = Store(p, o, moved) /\ Pushes(p, o)
          \/ over /\ obj' = Store(p, o, Cleared(moved)) /\ UNCHANGED <<iQueue, iBackQueue>>
  <2>1. moved = [rec EXCEPT !.step = r.next,
                            !.failed = GoFails(line, r), !.flagged = GoFails(line, r),
                            !.resendable = ~IsOver(line, r)]
    BY <1>10, <1>12
  <2>2. QED
    BY <1>7, <1>11, <1>12, <1>15, <1>16, <2>1 DEF Pushes
<1>18. PICK new \in Processor : obj' = Store(p, o, new) /\ (~over => new = moved)
  <2>1. Cleared(moved) \in Processor
    BY <1>16, ClearedType
  <2>2. QED
    BY <1>16, <1>17, <2>1
<1>19. k0 \in DOMAIN log
  BY <1>4, <1>13, Peers DEF Free, Courses, Used, Peer
<1>20. /\ Course(Other(p), k0, FALSE) /\ Stands(rec, p, k0)
       /\ ~Known(p, pkt) => rec.step = 1 /\ rec.position = "SERVER"
  <2>1. Stands(rec0, p, k0) /\ (~Known(p, pkt) => rec0.step = 1 /\ rec0.position = "SERVER")
    BY <1>3, <1>4, <1>11, HandedStands
  <2>2. pkt.failed = FALSE /\ Course(Other(p), k0, pkt.failed)
    BY <1>4, <1>11, PacketCourse
  <2>3. QED
    BY <1>15, <2>1, <2>2 DEF Stands
<1>21. /\ line = LineOf(k0) /\ rec.type = log[k0].type /\ rec.position = Role(p, k0)
       /\ rec.position \in Side
  BY <1>6, <1>15, <1>20 DEF Stands, LineOf, Processor
<1>22. /\ LogOK /\ (~log[k0].failed => log[k0].faults = {})
       /\ (log[k0].failed => Done(k0) = Len(LineOf(k0)))
  BY <1>19, <1>20 DEF TypeOK, Courses, Course
<1>23. Visits(k0, rec.position, r, fault)
  <2>1. r \in GoOutcomes(LineOf(k0), rec.step, rec.position) /\ fault = GoFails(LineOf(k0), r)
    BY <1>7, <1>12, <1>21
  <2>2. QED
    BY <1>15, <1>17, <1>19, <1>20, <1>22, <2>1, ReceiveVisit
<1>24. Contract!Next \/ log' = log
  BY <1>19, <1>21, <1>22, <1>23, VisitAllowed
<1>25. /\ DOMAIN log' = DOMAIN log /\ \A k \in DOMAIN log : k # k0 => log'[k] = log[k]
       /\ ~log'[k0].failed => log'[k0].faults = {}
  <2>1. Visited(k0, rec.position, r, fault)
    BY <1>19, <1>21, <1>22, <1>23, VisitLog
  <2>2. fault => ~r.ok
    BY <1>23 DEF Visits
  <2>3. QED
    BY <1>22, <2>1, <2>2 DEF Visited
<1>26. /\ Touches(p, o, k0) /\ DOMAIN log' = Used' /\ o \in Number
       /\ k0 \in DOMAIN iMap'[p] /\ iMap'[p][k0] = o /\ obj'[p][o] = new
  BY <1>2, <1>4, <1>11, <1>18, <1>25, PacketTouches
<1>27. /\ \A q \in Peer : \A x \in Waiting(q)' :
             \/ x \in Waiting(q) /\ obj[q][x].index # k0 /\ obj'[q][x] = obj[q][x]
             \/ q = p /\ x = o /\ Pushes(p, o)
       /\ \A q \in Peer : \A k, f, t : Token(q, k, f, t)' =>
             \/ Token(q, k, f, t) /\ k # k0
             \/ /\ Pushes(p, o) /\ q = p
                /\ obj'[p][o].resendable /\ k = obj'[p][o].index
                /\ f = obj'[p][o].failed /\ t = obj'[p][o].type
  <2>1. Ids(p) \subseteq Number
    BY DEF Ids, Number
  <2>2. QED
    BY <1>11, <1>17, <1>26, <2>1, TakenTokens
<1>28. Pushes(p, o) => ~over
  <2>1. ASSUME Pushes(p, o), UNCHANGED <<iQueue, iBackQueue>> PROVE FALSE
    <3>1. iBackQueue[p] \in Seq(Ids(p)) /\ DOMAIN iBackQueue = Peer
      BY DEF TypeOK, HoldersOK
    <3>2. Append(iBackQueue[p], o) = iBackQueue[p]
      BY <2>1, <3>1 DEF Pushes
    <3>3. iBackQueue[p] \in Seq(Number) /\ o \in Number
      BY <1>26, <3>1, SeqMonotonic DEF Ids, Number
    <3>4. Len(Append(iBackQueue[p], o)) = Len(iBackQueue[p]) + 1 /\ Len(iBackQueue[p]) \in Nat
      BY <3>3, AppendProperties, LenProperties
    <3>5. QED
      BY <3>2, <3>4
  <2>2. QED
    BY <1>17, <2>1
<1>29. ASSUME ~over PROVE log'[k0].type = log[k0].type /\ Course(p, k0, fault)'
  <2>1. At(p, k0)' = moved
    BY <1>18, <1>26, <1>29 DEF At
  <2>2. /\ k0 \in DOMAIN iMap'[Other(p)] /\ At(Other(p), k0)' = At(Other(p), k0)
        /\ Other(p) \in Peer /\ Other(Other(p)) = p /\ Other(p) # p
    <3>1. Other(p) \in Peer /\ Other(Other(p)) = p /\ Other(p) # p
      BY Peers
    <3>2. iMap'[Other(p)] = iMap[Other(p)] /\ obj'[Other(p)] = obj[Other(p)]
      BY <1>26, <3>1 DEF Touches
    <3>3. k0 \in DOMAIN iMap[Other(p)]
      BY <1>4, <1>13 DEF Free
    <3>4. QED
      BY <3>1, <3>2, <3>3 DEF At
  <2>3. k0 \in DOMAIN iMap[p] \/ ~OneWay(line)
    <3>1. CASE Known(p, pkt)
      BY <1>4, <3>1 DEF Known
    <3>2. CASE ~Known(p, pkt)
      <4>1. line \in Seq(Side) /\ r \in GoOutcomes(line, 1, "SERVER")
        BY <1>6, <1>7, <1>15, <1>20, <3>2, LineAssumption DEF Processor
      <4>2. QED
        BY <1>8, <1>29, <4>1, OneWayServer
    <3>3. QED
      BY <3>1, <3>2
  <2>4. /\ Stands(At(Other(p), k0), Other(p), k0)
        /\ At(Other(p), k0).step = Done(k0) + 1
    BY <1>20, <1>21, <2>2, <2>3 DEF Course
  <2>5. /\ (At(p, k0).type)' = log[k0].type /\ (At(p, k0).position)' = rec.position
        /\ (At(p, k0).step)' = r.next
    BY <1>16, <1>21, <2>1
  <2>6. ~IsOver(LineOf(k0), r) /\ fault = GoFails(LineOf(k0), r)
    BY <1>12, <1>21, <1>29
  <2>7. QED
    BY <1>19, <1>20, <1>21, <1>22, <1>23, <2>2, <2>4, <2>5, <2>6, AnswerCourse
<1>30. ASSUME NEW q \in Peer, NEW k, NEW f, NEW t, Token(q, k, f, t)'
       PROVE  \/ Token(q, k, f, t) /\ k # k0
              \/ t = log'[k].type /\ Course(q, k, f)'
  <2>1. CASE /\ Pushes(p, o) /\ q = p
             /\ obj'[p][o].resendable /\ k = obj'[p][o].index
             /\ f = obj'[p][o].failed /\ t = obj'[p][o].type
    <3>1. ~over /\ obj'[p][o] = moved
      BY <1>18, <1>26, <1>28, <2>1
    <3>2. k = k0 /\ f = fault /\ t = log[k0].type
      BY <1>16, <1>21, <2>1, <3>1
    <3>3. QED
      BY <1>29, <2>1, <3>1, <3>2
  <2>2. QED
    BY <1>27, <1>30, <2>1
<1>31. ASSUME NEW q \in Peer, NEW x \in Waiting(q)'
       PROVE  \/ x \in Waiting(q) /\ obj[q][x].index # k0
              \/ ~obj'[q][x].resendable => Unopened(q, x)'
  <2>1. CASE q = p /\ x = o /\ Pushes(p, o)
    BY <1>16, <1>18, <1>26, <1>28, <2>1
  <2>2. QED
    BY <1>27, <1>31, <2>1
<1>32. Courses'
  BY <1>25, <1>26, <1>30, <1>31, CoursesStep
<1>33. QED
  BY <1>24, <1>32

(* Every step calls what the contract allows, or nothing.                   *)
LEMMA StepCourse ==
    ASSUME TypeOK, Holding, Courses, sends <= Half, (sends <= Half)', [Next]_vars
    PROVE  Courses' /\ [Contract!Next]_log
<1>1. ASSUME NEW p \in Peer, NEW t \in Types, SendBegin(p, t)
      PROVE  Courses' /\ log' = log
  <2>1. sends < Half
    <3>1. sends' = sends + 1 /\ sends \in Nat /\ Half \in Nat
      BY <1>1, BoundAssumption DEF SendBegin, TypeOK, Half
    <3>2. QED
      BY <3>1 DEF Half
  <2>2. QED
    BY <1>1, <2>1, SendBeginCourse
<1>2. ASSUME NEW p \in Peer, SendEnd(p) PROVE Courses' /\ Contract!Next
  BY <1>2, SendEndCourse
<1>3. ASSUME NEW p \in Peer, Resend(p) PROVE Courses' /\ log' = log
  BY <1>3, ResendCourse
<1>4. ASSUME NEW p \in Peer, FirstStep(p) PROVE Courses' /\ (Contract!Next \/ log' = log)
  BY <1>4, FirstStepCourse
<1>5. ASSUME NEW p \in Peer, NoLine(p) PROVE Courses' /\ log' = log
  BY <1>5, NoLineCourse
<1>6. ASSUME NEW p \in Peer, ReceiveFailure(p)
      PROVE  Courses' /\ (Contract!Next \/ log' = log)
  BY <1>6, ReceiveFailureCourse
<1>7. ASSUME NEW p \in Peer, ReceiveStep(p) PROVE Courses' /\ (Contract!Next \/ log' = log)
  BY <1>7, ReceiveStepCourse
<1>8. CASE UNCHANGED vars
  <2>1. UNCHANGED <<iMap, obj, wire, iQueue, iBackQueue, log>>
    BY <1>8 DEF vars
  <2>2. \A q \in Peer : Waiting(q)' = Waiting(q)
    BY <2>1, QueuesKept
  <2>3. ASSUME NEW q \in Peer, NEW k, NEW f, NEW t, Token(q, k, f, t)'
        PROVE  t = log'[k].type /\ Course(q, k, f)'
    <3>1. Token(q, k, f, t)
      BY <2>1, <2>2, <2>3 DEF Token
    <3>2. t = log[k].type /\ Course(q, k, f)
      BY <3>1 DEF Courses
    <3>3. QED
      BY <2>1, <3>2 DEF Course, Stands, At, LineOf, Done, Role
  <2>4. ASSUME NEW q \in Peer, NEW x \in Waiting(q)', ~obj'[q][x].resendable
        PROVE  Unopened(q, x)'
    BY <2>1, <2>2, <2>4 DEF Courses, Unopened
  <2>5. DOMAIN log' = Used'
    BY <2>1 DEF Courses, Used
  <2>6. Courses'
    BY <2>1, <2>3, <2>4, <2>5 DEF Courses
  <2>7. QED
    BY <2>1, <2>6
<1>9. QED
  BY <1>1, <1>2, <1>3, <1>4, <1>5, <1>6, <1>7, <1>8 DEF Next

LEMMA InitCourse == Init => Courses /\ Contract!Init
<1> SUFFICES ASSUME Init PROVE Courses /\ Contract!Init
  OBVIOUS
<1>1. /\ log = << >> /\ \A q \in Peer : iMap[q] = << >> /\ wire[q] = <<>>
      /\ \A q \in Peer : iQueue[q] = <<>> /\ iBackQueue[q] = <<>>
  BY DEF Init
<1>2. DOMAIN log = {} /\ Used = {}
  BY <1>1 DEF Used, Peer
<1>3. \A q \in Peer : DOMAIN wire[q] = {} /\ Waiting(q) = {}
  <2>1. \A q \in Peer : Queued(q) = <<>>
    BY <1>1 DEF Queued
  <2>2. QED
    BY <1>1, <2>1 DEF Waiting
<1>4. QED
  BY <1>1, <1>2, <1>3 DEF Courses, Token, Contract!Init

(* The steps of a transaction are called as TransactionContract promises to *)
(* who writes a packet processor, in every connection whose peers started   *)
(* no more than half of INT_MAX transactions: in the order of the line,     *)
(* each once and on its own side, none after a failure, and fault() once    *)
(* per side and only then.                                                  *)
THEOREM ImplementsContract == Spec /\ [](sends <= Half) => ContractSpec
<1>1. Init => Courses /\ Contract!Init
  BY InitCourse
<1>2. IInv /\ sends <= Half /\ (sends <= Half)' /\ Courses /\ [Next]_vars
      => Courses' /\ [Contract!Next]_log
  BY StepCourse DEF IInv
<1>3. QED
  BY <1>1, <1>2, Invariant, PTL DEF Spec, ContractSpec, Contract!Spec
-----------------------------------------------------------------------------
(* What stays in the pools when the processor o is taken from them or not,  *)
(* and given back or not.                                                   *)
Stay(p, o, pl) == \A x \in Idle(p) : x \in All(pl[p]) \/ x = o

LEMMA PickStay ==
    ASSUME TypeOK, NEW p \in Peer, Place(p), NEW t \in Types
    PROVE  Stay(p, Pick(p, t), PoolLess(p, t))
<1>1. pool[p] \in [Types -> Seq(Ids(p))] /\ Idle(p) = All(pool[p]) /\ DOMAIN pool = Peer
  BY HeldExist DEF TypeOK, HoldersOK
<1>2. PICK f : f = pool[p]
  OBVIOUS
<1>3. PICK g : g = PoolLess(p, t)[p]
  OBVIOUS
<1>4. CASE Pooled(p, t)
  <2>1. Pick(p, t) = Head(f[t]) /\ f[t] # <<>>
    BY <1>2, <1>4 DEF Pick, Pooled
  <2>2. OneLess(f, t, g)
    <3>1. PoolLess(p, t) = [pool EXCEPT ![p][t] = Tail(pool[p][t])]
      BY <1>4 DEF PoolLess
    <3>2. QED
      BY <1>1, <1>2, <1>3, <3>1 DEF OneLess
  <2>3. Spread(f) /\ f \in Pools(Ids(p))
    BY <1>1, <1>2 DEF Place, Pools
  <2>4. \A x \in All(f) : x \in All(g) \/ x = Head(f[t])
    BY <2>1, <2>2, <2>3, TakeFirst
  <2>5. QED
    BY <1>1, <1>2, <1>3, <2>1, <2>4 DEF Stay
<1>5. CASE ~Pooled(p, t)
  BY <1>1, <1>5 DEF PoolLess, Stay
<1>6. QED
  BY <1>4, <1>5

LEMMA BackStay ==
    ASSUME TypeOK, NEW p \in Peer, NEW t \in Types, NEW o \in Number, NEW pl,
           Spare(p, o, pl), Stay(p, o, pl),
           pool' = pl \/ pool' = Return(p, o, pl, t)
    PROVE  /\ Idle(p) \subseteq Idle(p)' \cup {o}
           /\ pool' = Return(p, o, pl, t) => o \in Idle(p)'
           /\ \A q \in Peer : q # p => Idle(q)' = Idle(q)
<1>1. CASE pool' = Return(p, o, pl, t)
  <2>1. BackIn(p, o, t, pl)
    BY <1>1, GivenBack
  <2>2. Idle(p)' = All(pl[p]) \cup {o} /\ \A q \in Peer : q # p => pool'[q] = pool[q]
    BY <2>1 DEF BackIn, Spare
  <2>3. \A q \in Peer : q # p => Idle(q)' = Idle(q)
    BY <2>2 DEF Idle
  <2>4. QED
    BY <2>2, <2>3 DEF Stay
<1>2. CASE pool' # Return(p, o, pl, t)
  <2>1. Idle(p)' = All(pl[p]) /\ \A q \in Peer : q # p => pool'[q] = pool[q]
    BY <1>2 DEF Idle, All, Values, Spare
  <2>2. \A q \in Peer : q # p => Idle(q)' = Idle(q)
    BY <2>1 DEF Idle
  <2>3. QED
    BY <1>2, <2>1, <2>2 DEF Stay
<1>3. QED
  BY <1>1, <1>2

(* A step of p that handles o for k0 leaves what is under way, and what is  *)
(* idle, of the other transactions.                                         *)
Keeps(p, o, k0) ==
    /\ Touches(p, o, k0) /\ obj'[p][o].index = k0
    /\ Idle(p) \subseteq Idle(p)' \cup {o}
    /\ \A q \in Peer : q # p => Idle(q)' = Idle(q)
    /\ \A q \in Peer : \A i \in DOMAIN wire[q] :
          \/ wire[q][i].transaction = k0
          \/ \E j \in DOMAIN wire'[q] : wire'[q][j] = wire[q][i]
    /\ \A q \in Peer : \A x \in Waiting(q) : x \in Waiting(q)' \/ (q = p /\ x = o)

LEMMA StillGone ==
    ASSUME TypeOK, Holding, NEW p \in Peer, NEW o, NEW k0, Keeps(p, o, k0),
           NEW q \in Peer, NEW k, k # k0, Retains(q, k)'
    PROVE  Retains(q, k)
<1>1. k \in DOMAIN iMap[q] /\ iMap'[q][k] = iMap[q][k]
  BY DEF Retains, Keeps, Touches
<1>2. PICK x \in Ids(q) : x = iMap[q][k]
  BY <1>1, HeldExist
<1>3. obj'[q][x].index = k /\ x \notin Idle(q)'
  BY <1>1, <1>2 DEF Retains
<1>4. q = p => x # o
  BY <1>3 DEF Keeps
<1>5. obj'[q][x] = obj[q][x] /\ x \notin Idle(q)
  BY <1>2, <1>3, <1>4 DEF Keeps, Touches
<1>6. QED
  BY <1>1, <1>2, <1>3, <1>5 DEF Retains

LEMMA StillUnderWay ==
    ASSUME TypeOK, Holding, NEW p \in Peer, NEW o, NEW k0, Keeps(p, o, k0),
           NEW k, k # k0, UnderWay(k)
    PROVE  UnderWay(k)'
<1>1. PICK q \in Peer : \/ \E i \in DOMAIN wire[q] : wire[q][i].transaction = k
                        \/ \E x \in Waiting(q) : obj[q][x].index = k
  BY DEF UnderWay
<1>2. CASE \E i \in DOMAIN wire[q] : wire[q][i].transaction = k
  BY <1>2 DEF Keeps, UnderWay
<1>3. CASE \E x \in Waiting(q) : obj[q][x].index = k
  <2>1. PICK x \in Waiting(q) : obj[q][x].index = k
    BY <1>3
  <2>2. obj'[q][x] = obj[q][x]
    BY <2>1, WaitUntouched DEF Keeps
  <2>3. x \in Waiting(q)'
    BY <2>1, <2>2 DEF Keeps
  <2>4. QED
    BY <2>1, <2>2, <2>3 DEF UnderWay
<1>4. QED
  BY <1>1, <1>2, <1>3

(* So a step recycles when it does for its own transaction.                 *)
LEMMA RecycledStep ==
    ASSUME TypeOK, Holding, Recycled, NEW p \in Peer, NEW o, NEW k0, Keeps(p, o, k0),
           \A k \in DOMAIN log' : k # k0 => k \in DOMAIN log,
           k0 \in DOMAIN log' => \/ log'[k0].failed
                                 \/ UnderWay(k0)'
                                 \/ \E q \in Peer : ~Retains(q, k0)'
    PROVE  Recycled'
<1> SUFFICES ASSUME NEW k \in DOMAIN log', Finished(k)', ~log'[k].failed, ~UnderWay(k)'
             PROVE  \E q \in Peer : ~Retains(q, k)'
  BY DEF Recycled
<1>1. CASE k = k0
  BY <1>1
<1>2. CASE k # k0
  <2>1. k \in DOMAIN log /\ log'[k] = log[k]
    BY <1>2 DEF Keeps, Touches
  <2>2. Finished(k) /\ ~log[k].failed
    BY <2>1 DEF Finished
  <2>3. ~UnderWay(k)
    BY <1>2, StillUnderWay
  <2>4. PICK q \in Peer : ~Retains(q, k)
    BY <2>1, <2>2, <2>3 DEF Recycled
  <2>5. QED
    BY <1>2, <2>4, StillGone
<1>3. QED
  BY <1>1, <1>2

(* A visit is recorded for its transaction only.                            *)
LEMMA LoggedAt ==
    ASSUME LogOK, NEW k0, NEW side, NEW r, NEW fault, log' = Logged(k0, side, r, fault)
    PROVE  /\ DOMAIN log' = DOMAIN log /\ \A k \in DOMAIN log : k # k0 => log'[k] = log[k]
           /\ k0 \in DOMAIN log /\ ~r.ok => log'[k0].failed
<1> DEFINE new == [log[k0] EXCEPT !.calls  = @ \o Calls(side, r),
                                  !.failed = @ \/ ~r.ok,
                                  !.faults = @ \cup IF fault THEN {side} ELSE {}]
<1>1. log' = [log EXCEPT ![k0] = new]
  BY DEF Logged
<1>2. log[k0] \in History => (~r.ok => new.failed)
  BY DEF History
<1> HIDE DEF new
<1>3. QED
  BY <1>1, <1>2 DEF LogOK

(* The processors a step of p leaves in their queues.                       *)
LEMMA QueuesKeep ==
    ASSUME TypeOK, NEW p \in Peer, NEW o \in Number,
           \/ UNCHANGED <<iQueue, iBackQueue>>
           \/ Pushes(p, o)
           \/ Queued(p) # <<>> /\ PopActual(p) /\ o = Head(Queued(p))
    PROVE  /\ \A q \in Peer : \A x \in Waiting(q) : x \in Waiting(q)' \/ (q = p /\ x = o)
           /\ Pushes(p, o) => o \in Waiting(p)'
<1>1. CASE UNCHANGED <<iQueue, iBackQueue>> /\ ~Pushes(p, o)
  BY <1>1, QueuesKept
<1>2. CASE Pushes(p, o)
  <2>1. Ids(p) \subseteq Number
    BY DEF Ids, Number
  <2>2. /\ Waiting(p)' = Waiting(p) \cup {o}
        /\ \A q \in Peer : q # p => iQueue'[q] = iQueue[q] /\ iBackQueue'[q] = iBackQueue[q]
    BY <1>2, <2>1, Pushed
  <2>3. \A q \in Peer : q # p => Queued(q)' = Queued(q)
    BY <2>2 DEF Queued
  <2>4. \A q \in Peer : q # p => Waiting(q)' = Waiting(q)
    BY <2>3 DEF Waiting
  <2>5. QED
    BY <2>2, <2>4
<1>3. CASE Queued(p) # <<>> /\ PopActual(p) /\ o = Head(Queued(p)) /\ ~Pushes(p, o)
  <2>1. /\ Waiting(p) = Waiting(p)' \cup {o}
        /\ \A q \in Peer : q # p => iQueue'[q] = iQueue[q] /\ iBackQueue'[q] = iBackQueue[q]
    BY <1>3, Popped
  <2>2. \A q \in Peer : q # p => Queued(q)' = Queued(q)
    BY <2>1 DEF Queued
  <2>3. \A q \in Peer : q # p => Waiting(q)' = Waiting(q)
    BY <2>2 DEF Waiting
  <2>4. QED
    BY <1>3, <2>1, <2>3
<1>4. QED
  BY <1>1, <1>2, <1>3

(* A packet that is written is under way, with those written before it.     *)
LEMMA WrittenKeeps ==
    ASSUME TypeOK, NEW p \in Peer, NEW sent \in Processor, Transmit(p, sent)
    PROVE  /\ \A q \in Peer : \A i \in DOMAIN wire[q] :
                 \E j \in DOMAIN wire'[q] : wire'[q][j] = wire[q][i]
           /\ UnderWay(sent.index)'
<1>1. PICK pkt \in Packet : pkt = PacketOf(sent)
  BY DEF PacketOf, Packet, Processor
<1>2. /\ wire'[p] = Append(wire[p], pkt) /\ \A q \in Peer : q # p => wire'[q] = wire[q]
      /\ wire[p] \in Seq(Packet)
  BY <1>1 DEF Transmit, TypeOK
<1>3. /\ DOMAIN wire[p] = 1..Len(wire[p]) /\ Len(wire[p]) \in Nat
      /\ DOMAIN wire'[p] = 1..Len(wire[p]) + 1
      /\ \A i \in 1..Len(wire[p]) : wire'[p][i] = wire[p][i]
      /\ wire'[p][Len(wire[p]) + 1] = pkt
  BY <1>2, LenProperties, AppendProperties
<1>4. \A q \in Peer : \A i \in DOMAIN wire[q] :
          \E j \in DOMAIN wire'[q] : wire'[q][j] = wire[q][i]
  <2>1. ASSUME NEW i \in DOMAIN wire[p]
        PROVE  \E j \in DOMAIN wire'[p] : wire'[p][j] = wire[p][i]
    <3>1. i \in DOMAIN wire'[p] /\ wire'[p][i] = wire[p][i]
      BY <1>3, <2>1
    <3>2. QED
      BY <3>1
  <2>2. QED
    BY <1>2, <2>1
<1>5. Len(wire[p]) + 1 \in DOMAIN wire'[p] /\ pkt.transaction = sent.index
  BY <1>1, <1>3 DEF PacketOf
<1>6. QED
  BY <1>3, <1>4, <1>5 DEF UnderWay

(* The head of a channel is taken: the rest of its packets stay.            *)
LEMMA TakenKeeps ==
    ASSUME TypeOK, NEW q \in Peer, NEW k0, Takes(q, k0),
           NEW r \in Peer, NEW i \in DOMAIN wire[r]
    PROVE  \/ wire[r][i].transaction = k0
           \/ \E j \in DOMAIN wire'[r] : wire'[r][j] = wire[r][i]
<1>1. \A s \in Peer : s # q => wire'[s] = wire[s]
  BY DEF TypeOK, Takes
<1>2. /\ wire[q] # <<>> /\ k0 = Head(wire[q]).transaction /\ wire'[q] = Tail(wire[q])
      /\ wire[q] \in Seq(Packet)
  BY DEF TypeOK, Takes
<1>3. /\ DOMAIN wire[q] = 1..Len(wire[q]) /\ Len(wire[q]) \in Nat
      /\ DOMAIN wire'[q] = 1..Len(wire[q]) - 1
      /\ \A j \in 1..Len(wire[q]) - 1 : wire'[q][j] = wire[q][j + 1]
      /\ k0 = wire[q][1].transaction
  BY <1>2, TailPlaces
<1>4. CASE r = q /\ i # 1
  <2>1. i - 1 \in 1..Len(wire[q]) - 1 /\ i - 1 + 1 = i
    BY <1>3, <1>4
  <2>2. i - 1 \in DOMAIN wire'[r] /\ wire'[r][i - 1] = wire[r][i]
    BY <1>3, <1>4, <2>1
  <2>3. QED
    BY <2>2
<1>5. QED
  BY <1>1, <1>3, <1>4

(* The forward unit.                                                        *)
LEMMA ForwardKeeps ==
    ASSUME TypeOK, Holding, NEW p \in Peer, Queued(p) # <<>>, PopActual(p),
           UNCHANGED iMap, NEW o, o = Head(Queued(p)), NEW k0, k0 = obj[p][o].index,
           DOMAIN log' = DOMAIN log, \A k \in DOMAIN log : k # k0 => log'[k] = log[k],
           obj'[p][o].index = k0, \A x \in Ids(p) : x # o => obj'[p][x] = obj[p][x],
           \A q \in Peer : q # p => obj'[q] = obj[q],
           NEW t \in Types, pool' = pool \/ pool' = Return(p, o, pool, t),
           NEW sent \in Processor, UNCHANGED wire \/ Transmit(p, sent)
    PROVE  Keeps(p, o, k0) /\ (pool' = Return(p, o, pool, t) => ~Retains(p, k0)')
<1>1. o \in Waiting(p) /\ Place(p) /\ WaitOK(p, o)
  BY Popped DEF Holding
<1>2. o \in Number /\ o \notin Idle(p)
  BY <1>1, HeldExist DEF Place, Ids, Number
<1>3. Touches(p, o, k0)
  BY DEF Touches
<1>4. Spare(p, o, pool) /\ Stay(p, o, pool)
  <2>1. Idle(p) = All(pool[p])
    BY HeldExist
  <2>2. QED
    BY <1>1, <1>2, <2>1, PoolSame DEF Stay
<1>5. /\ Idle(p) \subseteq Idle(p)' \cup {o}
      /\ pool' = Return(p, o, pool, t) => o \in Idle(p)'
      /\ \A q \in Peer : q # p => Idle(q)' = Idle(q)
  BY <1>2, <1>4, BackStay
<1>6. \A q \in Peer : \A x \in Waiting(q) : x \in Waiting(q)' \/ (q = p /\ x = o)
  BY <1>2, QueuesKeep
<1>7. \A q \in Peer : \A i \in DOMAIN wire[q] :
          \E j \in DOMAIN wire'[q] : wire'[q][j] = wire[q][i]
  BY WrittenKeeps
<1>8. iMap'[p][k0] = o
  BY <1>1 DEF WaitOK
<1>9. QED
  BY <1>3, <1>5, <1>6, <1>7, <1>8 DEF Keeps, Retains

(* The backward unit.                                                       *)
LEMMA BackwardKeeps ==
    ASSUME TypeOK, Holding, Courses, NEW p \in Peer, NEW pkt, Arrives(p, pkt),
           NEW o, o = Target(p, pkt), NEW pl, pl = PoolAt(p, pkt),
           NEW k0, k0 = pkt.transaction, Takes(Other(p), k0), Lookup(p, pkt),
           UNCHANGED <<sending, sends>>,
           NEW new \in Processor, obj' = Store(p, o, new), new.index = k0,
           \A k \in DOMAIN log : k # k0 => log'[k] = log[k], DOMAIN log' = DOMAIN log,
           NEW t \in Types, pool' = pl \/ pool' = Return(p, o, pl, t),
           Pushes(p, o) \/ UNCHANGED <<iQueue, iBackQueue>>
    PROVE  /\ Keeps(p, o, k0)
           /\ pool' = Return(p, o, pl, t) => ~Retains(p, k0)'
           /\ Pushes(p, o) => UnderWay(k0)'
<1>1. /\ Touches(p, o, k0) /\ o \in Number /\ iMap'[p][k0] = o /\ obj'[p][o] = new
  BY PacketTouches
<1>2. Place(p)
  BY DEF Holding
<1>3. Spare(p, o, pl)
  BY Handed
<1>4. Stay(p, o, pl)
  <2>1. CASE Known(p, pkt)
    <3>1. Idle(p) = All(pool[p]) /\ pl = pool
      BY <2>1, HeldExist DEF PoolAt
    <3>2. QED
      BY <3>1 DEF Stay
  <2>2. CASE ~Known(p, pkt)
    <3>1. pl = PoolLess(p, pkt.type) /\ o = Pick(p, pkt.type)
      BY <2>2 DEF PoolAt, Target
    <3>2. pkt.type \in Types
      BY Handed DEF Free
    <3>3. QED
      BY <1>2, <3>1, <3>2, PickStay
  <2>3. QED
    BY <2>1, <2>2
<1>5. /\ Idle(p) \subseteq Idle(p)' \cup {o}
      /\ pool' = Return(p, o, pl, t) => o \in Idle(p)'
      /\ \A q \in Peer : q # p => Idle(q)' = Idle(q)
  BY <1>1, <1>3, <1>4, BackStay
<1>6. /\ \A q \in Peer : \A x \in Waiting(q) : x \in Waiting(q)' \/ (q = p /\ x = o)
      /\ Pushes(p, o) => o \in Waiting(p)'
  BY <1>1, QueuesKeep
<1>7. \A q \in Peer : \A i \in DOMAIN wire[q] :
         \/ wire[q][i].transaction = k0
         \/ \E j \in DOMAIN wire'[q] : wire'[q][j] = wire[q][i]
  <2>1. Other(p) \in Peer
    BY Peers
  <2>2. QED
    BY <2>1, TakenKeeps
<1>8. QED
  BY <1>1, <1>5, <1>6, <1>7 DEF Keeps, Retains, UnderWay

LEMMA ForwardRecycles ==
    ASSUME TypeOK, Holding, Recycled, NEW p \in Peer, Forward(p)
    PROVE  Recycled'
<1>1. PICK o : o = Head(Queued(p))
  OBVIOUS
<1>2. PICK rec : rec = obj[p][o]
  OBVIOUS
<1>3. PICK k0 : k0 = rec.index
  OBVIOUS
<1>4. Queued(p) # <<>> /\ PopActual(p) /\ UNCHANGED iMap
  BY DEF Forward, Resend, FirstStep, NoLine
<1>5. /\ o \in Ids(p) /\ rec \in Processor /\ Standing(rec)
      /\ rec.type \in Types /\ Line[rec.type] \in Seq(Side)
      /\ o \in 1..Len(obj[p]) + 1
  <2>1. o \in Ids(p) /\ rec \in Processor /\ Standing(rec)
    BY <1>1, <1>2, <1>4, QueuedType
  <2>2. Len(obj[p]) \in Nat
    BY DEF TypeOK, ObjectsOK
  <2>3. QED
    BY <2>1, <2>2, LineAssumption DEF Processor, Ids
<1>6. CASE Resend(p)
  <2>1. Transmit(p, rec) /\ UNCHANGED <<pool, obj, log>>
    BY <1>1, <1>2, <1>6 DEF Resend
  <2>2. Keeps(p, o, k0)
    BY <1>1, <1>2, <1>3, <1>4, <1>5, <2>1, ForwardKeeps
  <2>3. UnderWay(k0)'
    BY <1>3, <1>5, <2>1, WrittenKeeps
  <2>4. QED
    BY <2>1, <2>2, <2>3, RecycledStep
<1>7. CASE NoLine(p)
  <2>1. /\ obj' = Store(p, o, Cleared(rec)) /\ pool' = Return(p, o, pool, rec.type)
        /\ UNCHANGED <<wire, log>>
    BY <1>1, <1>2, <1>7 DEF NoLine
  <2>2. Cleared(rec) \in Processor /\ Cleared(rec).index = k0
    BY <1>3, <1>5, ClearedType DEF Cleared, Processor
  <2>3. /\ obj'[p][o].index = k0 /\ \A x \in Ids(p) : x # o => obj'[p][x] = obj[p][x]
        /\ \A q \in Peer : q # p => obj'[q] = obj[q]
    BY <1>5, <2>1, <2>2, StoreAt
  <2>4. Keeps(p, o, k0) /\ ~Retains(p, k0)'
    BY <1>1, <1>2, <1>3, <1>4, <1>5, <2>1, <2>3, ForwardKeeps
  <2>5. QED
    BY <2>1, <2>4, RecycledStep
<1>8. CASE FirstStep(p)
  <2>1. PICK line : line = Line[rec.type]
    OBVIOUS
  <2>2. PICK r \in GoOutcomes(line, rec.step, rec.position) :
            LET moved == [rec EXCEPT !.step = r.next, !.resendable = ~IsOver(line, r)]
            IN  /\ log' = Logged(rec.index, rec.position, r, GoFails(line, r))
                /\ IF GoFails(line, r)
                   THEN /\ obj' = Store(p, o, Cleared(Marked(rec)))
                        /\ pool' = Return(p, o, pool, rec.type)
                        /\ UNCHANGED wire
                   ELSE /\ Transmit(p, moved)
                        /\ IF moved.resendable
                           THEN obj' = Store(p, o, moved) /\ UNCHANGED pool
                           ELSE /\ obj' = Store(p, o, Cleared(moved))
                                /\ pool' = Return(p, o, pool, rec.type)
    BY <1>1, <1>2, <1>8, <2>1 DEF FirstStep
  <2>3. PICK over \in BOOLEAN : over <=> IsOver(line, r)
    OBVIOUS
  <2>4. PICK moved : moved = [rec EXCEPT !.step = r.next, !.resendable = ~over]
    OBVIOUS
  <2>5. moved \in Processor /\ moved.index = k0
    <3>1. r.next \in 1..Len(line) + 1
      BY <1>5, <2>1, <2>2, MovedType
    <3>2. moved \in Processor
      BY <1>5, <2>1, <2>4, <3>1, ProcessorUpdate
    <3>3. QED
      BY <1>3, <1>5, <2>4, <3>2 DEF Processor
  <2>6. /\ Cleared(Marked(rec)) \in Processor /\ Cleared(Marked(rec)).index = k0
        /\ Cleared(moved) \in Processor /\ Cleared(moved).index = k0
    <3>1. Cleared(moved) \in Processor /\ Cleared(moved).index = k0
      BY <2>5, ClearedType DEF Cleared, Processor
    <3>2. QED
      BY <1>3, <1>5, <3>1, MarkedType
  <2>7. /\ log' = Logged(k0, rec.position, r, GoFails(line, r))
        /\ pool' = pool \/ pool' = Return(p, o, pool, rec.type)
        /\ \/ GoFails(line, r) /\ UNCHANGED wire
           \/ Transmit(p, moved)
        /\ \E new \in Processor : obj' = Store(p, o, new) /\ new.index = k0
    <3>1. over = IsOver(line, r)
      BY <2>3 DEF IsOver
    <3>2. moved = [rec EXCEPT !.step = r.next, !.resendable = ~IsOver(line, r)]
      BY <2>4, <3>1
    <3>3. QED
      BY <1>3, <2>2, <2>5, <2>6, <3>2
  <2>8. /\ DOMAIN log' = DOMAIN log /\ \A k \in DOMAIN log : k # k0 => log'[k] = log[k]
        /\ k0 \in DOMAIN log /\ ~r.ok => log'[k0].failed
    BY <2>7, LoggedAt DEF TypeOK
  <2>9. /\ obj'[p][o].index = k0 /\ \A x \in Ids(p) : x # o => obj'[p][x] = obj[p][x]
        /\ \A q \in Peer : q # p => obj'[q] = obj[q]
    BY <1>5, <2>7, StoreAt
  <2>10. Keeps(p, o, k0)
    BY <1>1, <1>2, <1>3, <1>4, <1>5, <2>5, <2>7, <2>8, <2>9, ForwardKeeps
  <2>11. GoFails(line, r) \/ UnderWay(k0)'
    BY <2>5, <2>7, WrittenKeeps
  <2>12. QED
    BY <2>8, <2>10, <2>11, RecycledStep DEF GoFails
<1>9. QED
  BY <1>6, <1>7, <1>8 DEF Forward

LEMMA ReceiveFailureRecycles ==
    ASSUME TypeOK, Holding, Courses, Recycled, NEW p \in Peer, ReceiveFailure(p)
    PROVE  Recycled'
<1>1. PICK pkt : pkt = Head(wire[Other(p)])
  OBVIOUS
<1>2. PICK o : o = Target(p, pkt)
  OBVIOUS
<1>3. PICK rec : rec = Targeted(p, pkt)
  OBVIOUS
<1>4. PICK k0 : k0 = pkt.transaction
  OBVIOUS
<1>5. PICK new : new = [rec EXCEPT !.failed = TRUE, !.flagged = TRUE, !.resendable = FALSE]
  OBVIOUS
<1>6. PICK pl : pl = PoolAt(p, pkt)
  OBVIOUS
<1>7. /\ Arrives(p, pkt) /\ Lookup(p, pkt) /\ obj' = Store(p, o, new) /\ pkt.failed
      /\ UNCHANGED <<sending, sends>> /\ Takes(Other(p), k0)
      /\ UNCHANGED <<iQueue, iBackQueue>> /\ pool' = pl
      /\ log' = [log EXCEPT ![new.index].faults = @ \cup {new.position}]
  BY <1>1, <1>2, <1>3, <1>4, <1>5, <1>6 DEF ReceiveFailure, Arrives, Takes
<1>8. rec \in Processor /\ rec.index = k0
  BY <1>2, <1>3, <1>4, <1>7, Handed, TargetType DEF Free
<1>9. new \in Processor /\ new.index = k0
  BY <1>5, <1>8 DEF Processor
<1>10. log[k0].failed
  BY <1>4, <1>7, PacketCourse DEF Course
<1>11. PICK h : h = [log[k0] EXCEPT !.faults = @ \cup {new.position}]
  OBVIOUS
<1>12. log' = [log EXCEPT ![k0] = h] /\ (log[k0] \in History => h.failed)
  BY <1>7, <1>9, <1>10, <1>11 DEF History
<1>13. /\ DOMAIN log' = DOMAIN log /\ \A k \in DOMAIN log : k # k0 => log'[k] = log[k]
       /\ k0 \in DOMAIN log => log'[k0].failed
  BY <1>12 DEF TypeOK, LogOK
<1>14. PICK t \in Types : t = pkt.type
  BY <1>7, Handed DEF Free
<1>15. Keeps(p, o, k0)
  BY <1>2, <1>4, <1>6, <1>7, <1>9, <1>13, BackwardKeeps
<1>16. QED
  BY <1>13, <1>15, RecycledStep

LEMMA ReceiveStepRecycles ==
    ASSUME TypeOK, Holding, Courses, Recycled, NEW p \in Peer, ReceiveStep(p)
    PROVE  Recycled'
<1>1. PICK pkt : pkt = Head(wire[Other(p)])
  OBVIOUS
<1>2. PICK o : o = Target(p, pkt)
  OBVIOUS
<1>3. PICK rec0 : rec0 = Targeted(p, pkt)
  OBVIOUS
<1>4. PICK k0 : k0 = pkt.transaction
  OBVIOUS
<1>5. PICK rec : rec = [rec0 EXCEPT !.failed = FALSE, !.flagged = FALSE]
  OBVIOUS
<1>6. PICK line : line = Line[rec.type]
  OBVIOUS
<1>7. PICK pl : pl = PoolAt(p, pkt)
  OBVIOUS
<1>8. PICK r \in GoOutcomes(line, rec.step, rec.position) :
          LET moved == [rec EXCEPT !.step = r.next,
                                   !.failed = GoFails(line, r), !.flagged = GoFails(line, r),
                                   !.resendable = ~IsOver(line, r)]
          IN  /\ log' = Logged(rec.index, rec.position, r, GoFails(line, r))
              /\ IF moved.resendable
                 THEN /\ obj' = Store(p, o, moved)
                      /\ iBackQueue' = [iBackQueue EXCEPT ![p] = Append(@, o)]
                      /\ pool' = pl
                 ELSE /\ obj' = Store(p, o, Cleared(moved))
                      /\ pool' = Return(p, o, pl, rec.type)
                      /\ UNCHANGED iBackQueue
  BY <1>1, <1>2, <1>3, <1>5, <1>6, <1>7 DEF ReceiveStep
<1>9. PICK over \in BOOLEAN : over <=> IsOver(line, r)
  OBVIOUS
<1>10. PICK fault \in BOOLEAN : fault <=> GoFails(line, r)
  OBVIOUS
<1>11. PICK moved : moved = [rec EXCEPT !.step = r.next,
                                        !.failed = fault, !.flagged = fault,
                                        !.resendable = ~over]
  OBVIOUS
<1>12. /\ Arrives(p, pkt) /\ Lookup(p, pkt) /\ Takes(Other(p), k0)
       /\ UNCHANGED <<sending, sends, iQueue>>
  BY <1>1, <1>4 DEF ReceiveStep, Arrives, Takes
<1>13. rec0 \in Processor /\ Standing(rec0) /\ rec0.index = k0
  BY <1>2, <1>3, <1>4, <1>12, Handed, TargetType DEF Free
<1>14. rec \in Processor /\ Standing(rec) /\ rec.index = k0 /\ rec.type \in Types
  BY <1>5, <1>13 DEF Processor, Standing
<1>15. moved \in Processor /\ moved.index = k0
  <2>1. r.next \in 1..Len(line) + 1
    BY <1>6, <1>8, <1>14, MovedType
  <2>2. moved \in Processor
    BY <1>6, <1>11, <1>14, <2>1, ProcessorUpdate
  <2>3. QED
    BY <2>2, <1>11, <1>14 DEF Processor
<1>16. Cleared(moved) \in Processor /\ Cleared(moved).index = k0
  BY <1>15, ClearedType DEF Cleared, Processor
<1>17. /\ log' = Logged(k0, rec.position, r, fault)
       /\ \/ obj' = Store(p, o, moved) /\ Pushes(p, o) /\ pool' = pl
          \/ /\ obj' = Store(p, o, Cleared(moved)) /\ UNCHANGED <<iQueue, iBackQueue>>
             /\ pool' = Return(p, o, pl, rec.type)
  <2>1. over = IsOver(line, r) /\ fault = GoFails(line, r)
    BY <1>9, <1>10 DEF IsOver, GoFails
  <2>2. moved = [rec EXCEPT !.step = r.next,
                            !.failed = GoFails(line, r), !.flagged = GoFails(line, r),
                            !.resendable = ~IsOver(line, r)]
    BY <1>11, <2>1
  <2>3. QED
    BY <1>8, <1>12, <1>14, <2>1, <2>2 DEF Pushes
<1>18. DOMAIN log' = DOMAIN log /\ \A k \in DOMAIN log : k # k0 => log'[k] = log[k]
  BY <1>17, LoggedAt DEF TypeOK
<1>19. PICK new \in Processor : obj' = Store(p, o, new) /\ new.index = k0
  BY <1>15, <1>16, <1>17
<1>20. /\ Keeps(p, o, k0)
       /\ pool' = Return(p, o, pl, rec.type) => ~Retains(p, k0)'
       /\ Pushes(p, o) => UnderWay(k0)'
  <2>1. /\ pool' = pl \/ pool' = Return(p, o, pl, rec.type)
        /\ Pushes(p, o) \/ UNCHANGED <<iQueue, iBackQueue>>
    BY <1>17
  <2>2. QED
    BY <1>2, <1>4, <1>7, <1>12, <1>14, <1>18, <1>19, <2>1, BackwardKeeps
<1>21. QED
  BY <1>17, <1>18, <1>20, RecycledStep

LEMMA SendBeginRecycles ==
    ASSUME TypeOK, Holding, Courses, Recycled, sends < Half, NEW p \in Peer, NEW t \in Types,
           SendBegin(p, t)
    PROVE  Recycled'
<1>1. PICK o : o = Pick(p, t)
  OBVIOUS
<1>2. PICK k0 : k0 = NextIndex(p)
  OBVIOUS
<1>3. PICK new : new = [Picked(p, t) EXCEPT !.index = k0]
  OBVIOUS
<1>4. PICK pl : pl = PoolLess(p, t)
  OBVIOUS
<1>5. /\ obj' = Store(p, o, new) /\ pool' = pl /\ UNCHANGED <<iMap, wire, log>>
      /\ UNCHANGED <<iQueue, iBackQueue>>
  BY <1>1, <1>2, <1>3, <1>4 DEF SendBegin
<1>6. o \in 1..Len(obj[p]) + 1 /\ new \in Processor /\ new.index = k0
  <2>1. k0 \in Index /\ Picked(p, t) \in Processor /\ o \in 1..Len(obj[p]) + 1
    BY <1>1, <1>2, NextIndexType, PickType
  <2>2. QED
    BY <1>3, <2>1 DEF Processor
<1>7. Place(p)
  BY DEF Holding
<1>8. /\ o \in Idle(p) \/ o \notin Ids(p)
      /\ o \in Number /\ Spare(p, o, pl)
  BY <1>1, <1>4, <1>7, PickNew
<1>9. Stay(p, o, pl)
  BY <1>1, <1>4, <1>7, PickStay
<1>10. /\ Idle(p) \subseteq Idle(p)' \cup {o}
       /\ \A q \in Peer : q # p => Idle(q)' = Idle(q)
  BY <1>5, <1>8, <1>9, BackStay
<1>11. /\ obj'[p][o] = new /\ \A x \in Ids(p) : x # o => obj'[p][x] = obj[p][x]
       /\ \A q \in Peer : q # p => obj'[q] = obj[q]
  BY <1>5, <1>6, StoreAt
<1>12. Touches(p, o, k0)
  BY <1>5, <1>8, <1>11 DEF Touches
<1>13. \A q \in Peer : \A x \in Waiting(q) : x \in Waiting(q)' \/ (q = p /\ x = o)
  BY <1>5, <1>8, QueuesKeep
<1>14. Keeps(p, o, k0)
  BY <1>5, <1>6, <1>10, <1>11, <1>12, <1>13 DEF Keeps
<1>15. k0 \notin DOMAIN log
  <2>1. \A q \in Peer : k0 \notin DOMAIN iMap[q]
    BY <1>2, NewIndex
  <2>2. QED
    BY <2>1 DEF Courses, Used, Peer
<1>16. QED
  BY <1>5, <1>14, <1>15, RecycledStep

LEMMA SendEndRecycles ==
    ASSUME TypeOK, Holding, Courses, Recycled, NEW p \in Peer, SendEnd(p)
    PROVE  Recycled'
<1>1. PICK o : o = sending[p].proc
  OBVIOUS
<1>2. PICK k0 : k0 = sending[p].index
  OBVIOUS
<1>3. /\ sending[p] # NotSending /\ Registers(p, k0, o) /\ Pushes(p, o)
      /\ UNCHANGED <<obj, wire, pool>>
      /\ \E h : log' = Put(log, k0, h)
  BY <1>1, <1>2 DEF SendEnd, Registers, Pushes
<1>4. o \in Ids(p) /\ o \in Number /\ obj[p][o].index = k0
  <2>1. o \in Ids(p)
    BY <1>1, <1>3, HeldExist
  <2>2. Place(p)
    BY DEF Holding
  <2>3. QED
    BY <1>1, <1>2, <1>3, <2>1, <2>2 DEF Place, Ids, Number
<1>5. /\ DOMAIN iMap'[p] = DOMAIN iMap[p] \cup {k0}
      /\ \A k \in DOMAIN iMap[p] : k # k0 => iMap'[p][k] = iMap[p][k]
      /\ \A q \in Peer : q # p => iMap'[q] = iMap[q]
  BY <1>3, Registered
<1>6. /\ DOMAIN log' = DOMAIN log \cup {k0}
      /\ \A k \in DOMAIN log : k # k0 => log'[k] = log[k]
  BY <1>3 DEF Put
<1>7. Touches(p, o, k0)
  BY <1>3, <1>4, <1>5, <1>6 DEF Touches
<1>8. /\ \A q \in Peer : \A x \in Waiting(q) : x \in Waiting(q)' \/ (q = p /\ x = o)
      /\ o \in Waiting(p)'
  BY <1>3, <1>4, QueuesKeep
<1>9. \A q \in Peer : Idle(q)' = Idle(q)
  BY <1>3 DEF Idle
<1>10. Keeps(p, o, k0) /\ UnderWay(k0)'
  BY <1>3, <1>4, <1>7, <1>8, <1>9 DEF Keeps, UnderWay
<1>11. QED
  BY <1>6, <1>10, RecycledStep

LEMMA StepRecycles ==
    ASSUME TypeOK, Holding, Courses, Recycled, sends <= Half, (sends <= Half)', [Next]_vars
    PROVE  Recycled'
<1>1. ASSUME NEW p \in Peer, NEW t \in Types, SendBegin(p, t) PROVE Recycled'
  <2>1. sends < Half
    <3>1. sends' = sends + 1 /\ sends \in Nat /\ Half \in Nat
      BY <1>1, BoundAssumption DEF SendBegin, TypeOK, Half
    <3>2. QED
      BY <3>1 DEF Half
  <2>2. QED
    BY <1>1, <2>1, SendBeginRecycles
<1>2. ASSUME NEW p \in Peer, SendEnd(p) PROVE Recycled'
  BY <1>2, SendEndRecycles
<1>3. ASSUME NEW p \in Peer, Resend(p) \/ FirstStep(p) \/ NoLine(p) PROVE Recycled'
  BY <1>3, ForwardRecycles DEF Forward
<1>4. ASSUME NEW p \in Peer, ReceiveFailure(p) PROVE Recycled'
  BY <1>4, ReceiveFailureRecycles
<1>5. ASSUME NEW p \in Peer, ReceiveStep(p) PROVE Recycled'
  BY <1>5, ReceiveStepRecycles
<1>6. CASE UNCHANGED vars
  <2>1. UNCHANGED <<iMap, obj, wire, iQueue, iBackQueue, log, pool>>
    BY <1>6 DEF vars
  <2>2. \A q \in Peer : Waiting(q)' = Waiting(q) /\ Idle(q)' = Idle(q)
    BY <2>1, QueuesKept DEF Idle
  <2>3. \A k : (UnderWay(k)' <=> UnderWay(k)) /\ \A q \in Peer : Retains(q, k)' => Retains(q, k)
    BY <2>1, <2>2 DEF UnderWay, Retains
  <2>4. QED
    BY <2>1, <2>3 DEF Recycled, Finished
<1>7. QED
  BY <1>1, <1>2, <1>3, <1>4, <1>5, <1>6 DEF Next

(* A transaction that ran to its end keeps at most one of its processors    *)
(* out of the pools, in every connection whose peers started no more than   *)
(* half of INT_MAX transactions: the side that sees the end of the line     *)
(* gives its processor back, and nobody takes it out again for the same     *)
(* transaction.                                                             *)
THEOREM RecyclesOne == Spec /\ [](sends <= Half) => []Recycled
<1>1. Init => Courses /\ Recycled
  <2>1. Init => log = << >>
    BY DEF Init
  <2>2. Init => Recycled
    BY <2>1 DEF Recycled
  <2>3. QED
    BY <2>2, InitCourse
<1>2. /\ IInv /\ sends <= Half /\ (sends <= Half)' /\ Courses /\ Recycled /\ [Next]_vars
      => Courses' /\ Recycled'
  BY StepCourse, StepRecycles DEF IInv
<1>3. QED
  BY <1>1, <1>2, Invariant, PTL DEF Spec
=============================================================================
