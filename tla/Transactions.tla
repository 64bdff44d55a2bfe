---------------------------- MODULE Transactions ----------------------------
(***************************************************************************)
(* Packet transactions over one main channel (DPN_TransmitProcessor).      *)
(*                                                                         *)
(* Each of the two peers of a connection owns a PacketProcessor: a map     *)
(* from transaction indexes to processor objects (iMap), a queue filled by *)
(* other threads (iBackQueue) and a queue private to the sending thread    *)
(* (iQueue).  A processor object runs an action line, a list of steps that *)
(* belong to the HOST (who started the transaction) or to the SERVER (the  *)
(* remote peer); the line position travels with nothing but the order of   *)
(* the packets.  Objects come from a pool and go back to it.               *)
(*                                                                         *)
(* Three threads of a peer run here: the application (SendBegin, SendEnd), *)
(* the forward unit of the main channel (FirstStep, Resend) and the        *)
(* backward unit (Receive).  One application thread per peer is assumed,   *)
(* since the index is computed and inserted without a lock; and the calls  *)
(* of the pool and of iMap, std containers without a lock, are atomic.     *)
(***************************************************************************)
EXTENDS Integers, Sequences, FiniteSets

CONSTANTS Types,     \* packet types, one per processor class
          Line,      \* Line[t] : the sides of the steps of t's action line
          IntMax,    \* INT_MAX, the largest transaction index
          MaxSends   \* bound: calls of send(), both peers together

Side == {"HOST", "SERVER"}
Peer == {"initiator", "acceptor"}

(* The lines of the repository start with a HOST step, or are one SERVER    *)
(* step, or are empty.  A line that starts with a SERVER step and goes on   *)
(* would be run out of order: send() always plays the HOST first.           *)
WellFormed(line) == line # <<>> /\ line[1] = "SERVER" => Len(line) = 1

ASSUME LineAssumption == Line \in [Types -> Seq(Side)]
ASSUME LineShapeAssumption == \A t \in Types : WellFormed(Line[t])
ASSUME BoundAssumption == IntMax \in Nat \ {0} /\ MaxSends \in Nat

VARIABLES
    iMap,        \* peer -> transaction index -> processor object
    iBackQueue,  \* peer -> processors pushed by the application and the backward unit
    iQueue,      \* peer -> processors of the forward unit
    pool,        \* peer -> type -> the idle processors, oldest first
    obj,         \* peer -> the processor objects ever made, in order of creation
    sending,     \* peer -> what send() is about to insert, or NotSending
    wire,        \* peer -> the packets it wrote that the other has not read
    sends,       \* calls of send() so far
    log          \* index -> the calls of steps and of fault() (history)

vars == <<iMap, iBackQueue, iQueue, pool, obj, sending, wire, sends, log>>
-----------------------------------------------------------------------------
Other(p) == IF p = "initiator" THEN "acceptor" ELSE "initiator"
Opposite(side) == IF side = "HOST" THEN "SERVER" ELSE "HOST"

Index == (-(IntMax + 1))..IntMax

(* TF__FAILED is in two places: iTransportFlags (flagged) and UNIT_FLAGS,   *)
(* the unit of the content that goes with the packets (failed).             *)
Processor == [type : Types, index : Index, position : Side, step : Nat,
              resendable : BOOLEAN, failed : BOOLEAN, flagged : BOOLEAN]
Packet == [type : Types, transaction : Index, failed : BOOLEAN]
NotSending == [proc |-> 0, index |-> 0]
History == [type : Types, calls : Seq([side : Side, step : Nat]),
            failed : BOOLEAN, faults : SUBSET Side]

Put(f, k, v) == [x \in DOMAIN f \cup {k} |-> IF x = k THEN v ELSE f[x]]
-----------------------------------------------------------------------------
(* Transaction indexes.                                                    *)

MinIndex(p) == IF p = "initiator" THEN 1 ELSE IntMax \div 2 + 1

(* size_t assigned to int. *)
ToInt(n) == IF n > IntMax THEN n - 2 * (IntMax + 1) ELSE n

(* Mutant: the index counts the processor objects, not the transactions.   *)
NextIndexByObjects(p) == ToInt(Len(obj[p]) + MinIndex(p))

(* The test for an exhausted range compares an unsigned sum with zero: it  *)
(* never refuses.                                                          *)
NextIndex(p) == ToInt(Cardinality(DOMAIN iMap[p]) + MinIndex(p))
-----------------------------------------------------------------------------
(* Processor objects and their pool.                                       *)

Fresh(t) == [type |-> t, index |-> 0, position |-> "HOST", step |-> 1,
             resendable |-> FALSE, failed |-> FALSE, flagged |-> FALSE]

Pooled(p, t) == pool[p][t] # <<>>
Pick(p, t)   == IF Pooled(p, t) THEN Head(pool[p][t]) ELSE Len(obj[p]) + 1
Picked(p, t) == IF Pooled(p, t) THEN obj[p][Head(pool[p][t])] ELSE Fresh(t)
PoolLess(p, t) == IF Pooled(p, t) THEN [pool EXCEPT ![p][t] = Tail(@)] ELSE pool

Store(p, o, rec) ==
    IF o <= Len(obj[p]) THEN [obj EXCEPT ![p][o] = rec]
                        ELSE [obj EXCEPT ![p] = Append(@, rec)]

(* Mutant: returnProcessor() is forgotten.                                  *)
ReturnForgotten(p, o, pl, t) == pl

Return(p, o, pl, t) == [pl EXCEPT ![p][t] = Append(@, o)]

(* Mutant: clear() leaves the position.                                     *)
ClearedLineOnly(rec) == [rec EXCEPT !.step = 1]

(* action() marks a processor whose step failed; clear() leaves the mark.   *)
Marked(rec)  == [rec EXCEPT !.flagged = TRUE]
Cleared(rec) == [rec EXCEPT !.step = 1, !.position = "HOST"]
-----------------------------------------------------------------------------
(* Mutant of go: the steps of the other side do not stop the loop.          *)
GoOutcomesAnySide(line, pos, side) ==
    {r \in [first : pos..Len(line) + 1, next : pos..Len(line) + 1, ok : BOOLEAN] :
        /\ \A i \in pos..r.first - 1 : line[i] # side
        /\ r.first <= Len(line) => line[r.first] = side /\ r.first < r.next
        /\ r.first > Len(line) => r.next = r.first /\ r.ok
        /\ r.ok => r.next = Len(line) + 1}

(* One call of ActionLine::go(side) on a line standing at step pos: skip   *)
(* the steps of the other side, then call own steps until one fails or a   *)
(* step of the other side comes.  The line moves past a step that failed.  *)
GoOutcomes(line, pos, side) ==
    {r \in [first : pos..Len(line) + 1, next : pos..Len(line) + 1, ok : BOOLEAN] :
        /\ \A i \in pos..r.first - 1 : line[i] # side
        /\ \A i \in r.first..r.next - 1 : line[i] = side
        /\ IF r.first > Len(line)
           THEN r.next = r.first /\ r.ok
           ELSE /\ r.first < r.next
                /\ r.ok /\ r.next <= Len(line) => line[r.next] # side}

(* Mutant: a line standing on its last step counts as over.                 *)
IsOverEarly(line, r) == r.next >= Len(line)

IsOver(line, r) == r.next > Len(line)

(* A failure of the very last step is returned as DPN_SUCCESS. *)
GoFails(line, r) == ~r.ok /\ ~IsOver(line, r)

Calls(side, r) ==
    [i \in 1..r.next - r.first |-> [side |-> side, step |-> r.first + i - 1]]

Logged(k, side, r, fault) ==
    [log EXCEPT ![k].calls  = @ \o Calls(side, r),
                ![k].failed = @ \/ ~r.ok,
                ![k].faults = @ \cup IF fault THEN {side} ELSE {}]
-----------------------------------------------------------------------------
Init ==
    /\ iMap = [p \in Peer |-> << >>]
    /\ iBackQueue = [p \in Peer |-> <<>>]
    /\ iQueue = [p \in Peer |-> <<>>]
    /\ pool = [p \in Peer |-> [t \in Types |-> <<>>]]
    /\ obj = [p \in Peer |-> <<>>]
    /\ sending = [p \in Peer |-> NotSending]
    /\ wire = [p \in Peer |-> <<>>]
    /\ sends = 0
    /\ log = << >>

(* The application takes a processor of type t and calls send(): bind,     *)
(* inition, and the size of iMap is read to compute the index ...          *)
SendBegin(p, t) ==
    /\ sending[p] = NotSending
    /\ sends < MaxSends
    /\ LET o == Pick(p, t)
           k == NextIndex(p)
       IN  /\ sending' = [sending EXCEPT ![p] = [proc |-> o, index |-> k]]
           /\ obj' = Store(p, o, [Picked(p, t) EXCEPT !.index = k])
    /\ pool' = PoolLess(p, t)
    /\ sends' = sends + 1
    /\ UNCHANGED <<iMap, iBackQueue, iQueue, wire, log>>

(* ... then the processor is inserted and queued.                          *)
SendEnd(p) ==
    /\ sending[p] # NotSending
    /\ LET o == sending[p].proc
           k == sending[p].index
       IN  /\ iMap' = [iMap EXCEPT ![p] = Put(@, k, o)]
           /\ iBackQueue' = [iBackQueue EXCEPT ![p] = Append(@, o)]
           /\ log' = Put(log, k, [type |-> obj[p][o].type, calls |-> <<>>,
                                  failed |-> FALSE, faults |-> {}])
    /\ sending' = [sending EXCEPT ![p] = NotSending]
    /\ UNCHANGED <<iQueue, pool, obj, wire, sends>>

(* The forward unit: PacketProcessor::generate.                            *)

(* Mutant: the moved processors are put before those already waiting.       *)
QueuedInFront(p) == iBackQueue[p] \o iQueue[p]

Queued(p) == iQueue[p] \o iBackQueue[p]

(* Mutant: the moved processors stay in the shared list as well.            *)
PopActualKeeping(p) ==
    /\ iQueue' = [iQueue EXCEPT ![p] = Tail(Queued(p))]
    /\ UNCHANGED iBackQueue

PopActual(p) ==
    /\ iQueue' = [iQueue EXCEPT ![p] = Tail(Queued(p))]
    /\ iBackQueue' = [iBackQueue EXCEPT ![p] = <<>>]

(* Mutant: the flags are parsed before TF__FAILED is written to them.       *)
PacketOfUnflagged(rec) ==
    [type |-> rec.type, transaction |-> rec.index, failed |-> FALSE]

PacketOf(rec) ==
    [type |-> rec.type, transaction |-> rec.index, failed |-> rec.failed]

Transmit(p, rec) == wire' = [wire EXCEPT ![p] = Append(@, PacketOf(rec))]

(* A processor that already ran its step only has its product sent.        *)
Resend(p) ==
    /\ Queued(p) # <<>>
    /\ obj[p][Head(Queued(p))].resendable
    /\ Transmit(p, obj[p][Head(Queued(p))])
    /\ PopActual(p)
    /\ UNCHANGED <<iMap, pool, obj, sending, sends, log>>

(* A new transaction: its first host steps run now.  A failure is told to  *)
(* the host's fault() and to nobody else, and its flag goes to the pool    *)
(* with the processor.  A line that is over is sent and its processor      *)
(* recycled.                                                               *)
FirstStep(p) ==
    /\ Queued(p) # <<>>
    /\ LET o    == Head(Queued(p))
           rec  == obj[p][o]
           line == Line[rec.type]
       IN  /\ ~rec.resendable
           /\ line # <<>>
           /\ \E r \in GoOutcomes(line, rec.step, rec.position) :
                LET moved == [rec EXCEPT !.step = r.next,
                                         !.resendable = ~IsOver(line, r)]
                IN  /\ log' = Logged(rec.index, rec.position, r, GoFails(line, r))
                    /\ IF GoFails(line, r)
                       THEN /\ obj' = Store(p, o, Cleared(Marked(rec)))
                            /\ pool' = Return(p, o, pool, rec.type)
                            /\ UNCHANGED wire
                       ELSE /\ Transmit(p, moved)
                            /\ IF moved.resendable
                               THEN obj' = Store(p, o, moved) /\ UNCHANGED pool
                               ELSE /\ obj' = Store(p, o, Cleared(moved))
                                    /\ pool' = Return(p, o, pool, rec.type)
    /\ PopActual(p)
    /\ UNCHANGED <<iMap, sending, sends>>

(* A processor class that declares no step (SyncChannel) has no line:      *)
(* action() fails before anything is called.                               *)
NoLine(p) ==
    /\ Queued(p) # <<>>
    /\ LET o   == Head(Queued(p))
           rec == obj[p][o]
       IN  /\ ~rec.resendable
           /\ Line[rec.type] = <<>>
           /\ obj' = Store(p, o, Cleared(rec))
           /\ pool' = Return(p, o, pool, rec.type)
    /\ PopActual(p)
    /\ UNCHANGED <<iMap, sending, wire, sends, log>>

(* The backward unit: PacketProcessor::process on the packet at the head   *)
(* of the channel.  An index it does not know registers a SERVER.          *)

Known(p, pkt) == pkt.transaction \in DOMAIN iMap[p]

ServerOf(p, pkt) ==
    [Picked(p, pkt.type) EXCEPT !.index = pkt.transaction, !.position = "SERVER"]

Target(p, pkt)   == IF Known(p, pkt) THEN iMap[p][pkt.transaction]
                                     ELSE Pick(p, pkt.type)
Targeted(p, pkt) == IF Known(p, pkt) THEN obj[p][Target(p, pkt)]
                                     ELSE ServerOf(p, pkt)

Lookup(p, pkt) ==
    iMap' = IF Known(p, pkt) THEN iMap
            ELSE [iMap EXCEPT ![p] = Put(@, pkt.transaction, Target(p, pkt))]

PoolAt(p, pkt) == IF Known(p, pkt) THEN pool ELSE PoolLess(p, pkt.type)

(* The remote side failed: fault() on this side, and the processor is      *)
(* neither answered nor recycled.                                          *)
ReceiveFailure(p) ==
    /\ wire[Other(p)] # <<>>
    /\ LET pkt == Head(wire[Other(p)])
           rec == [Targeted(p, pkt) EXCEPT !.failed = TRUE, !.flagged = TRUE,
                                           !.resendable = FALSE]
       IN  /\ pkt.failed
           /\ Lookup(p, pkt)
           /\ pool' = PoolAt(p, pkt)
           /\ obj' = Store(p, Target(p, pkt), rec)
           /\ log' = [log EXCEPT ![rec.index].faults = @ \cup {rec.position}]
    /\ wire' = [wire EXCEPT ![Other(p)] = Tail(@)]
    /\ UNCHANGED <<iBackQueue, iQueue, sending, sends>>

(* The next steps of the line run on this side.  If the line goes on, the  *)
(* processor is queued for resending, flagged when a step failed;          *)
(* otherwise it is recycled.                                               *)
ReceiveStep(p) ==
    /\ wire[Other(p)] # <<>>
    /\ LET pkt  == Head(wire[Other(p)])
           o    == Target(p, pkt)
           rec  == [Targeted(p, pkt) EXCEPT !.failed = FALSE, !.flagged = FALSE]
           line == Line[rec.type]
       IN  /\ ~pkt.failed
           /\ Lookup(p, pkt)
           /\ \E r \in GoOutcomes(line, rec.step, rec.position) :
                LET moved == [rec EXCEPT !.step = r.next,
                                         !.failed = GoFails(line, r),
                                         !.flagged = GoFails(line, r),
                                         !.resendable = ~IsOver(line, r)]
                IN  /\ log' = Logged(rec.index, rec.position, r, GoFails(line, r))
                    /\ IF moved.resendable
                       THEN /\ obj' = Store(p, o, moved)
                            /\ iBackQueue' = [iBackQueue EXCEPT ![p] = Append(@, o)]
                            /\ pool' = PoolAt(p, pkt)
                       ELSE /\ obj' = Store(p, o, Cleared(moved))
                            /\ pool' = Return(p, o, PoolAt(p, pkt), rec.type)
                            /\ UNCHANGED iBackQueue
    /\ wire' = [wire EXCEPT ![Other(p)] = Tail(@)]
    /\ UNCHANGED <<iQueue, sending, sends>>

Next ==
    \E p \in Peer :
        \/ \E t \in Types : SendBegin(p, t)
        \/ SendEnd(p)
        \/ Resend(p)
        \/ FirstStep(p)
        \/ NoLine(p)
        \/ ReceiveFailure(p)
        \/ ReceiveStep(p)

(* The application finishes a call of send() it began, and the two units   *)
(* of the main channel are iterated for ever by their thread.              *)
Forward(p)  == Resend(p) \/ FirstStep(p) \/ NoLine(p)
Backward(p) == ReceiveFailure(p) \/ ReceiveStep(p)

Fairness ==
    \A p \in Peer :
        WF_vars(SendEnd(p)) /\ WF_vars(Forward(p)) /\ WF_vars(Backward(p))

Spec == Init /\ [][Next]_vars
FairSpec == Spec /\ Fairness
-----------------------------------------------------------------------------
(* Properties.                                                             *)

Idle(p) == UNION {{pool[p][t][i] : i \in DOMAIN pool[p][t]} : t \in Types}
Waiting(p) == {Queued(p)[i] : i \in DOMAIN Queued(p)}
Owner(k) == IF k >= MinIndex("acceptor") THEN "acceptor" ELSE "initiator"
Finished(k) == log[k].failed \/ Len(log[k].calls) = Len(Line[log[k].type])

(* Every variable keeps its type: maps and queues name processors that     *)
(* exist, a line stands on one of its steps or just past the last.         *)
Ids(p) == 1..Len(obj[p])
Standing(rec) == rec.step \in 1..Len(Line[rec.type]) + 1

ObjectsOK ==
    /\ obj \in [Peer -> Seq(Processor)]
    /\ \A p \in Peer : \A o \in Ids(p) : Standing(obj[p][o])

HoldersOK ==
    /\ Peer = DOMAIN iMap /\ Peer = DOMAIN iBackQueue /\ Peer = DOMAIN iQueue
    /\ Peer = DOMAIN pool /\ Peer = DOMAIN sending
    /\ \A p \in Peer :
          /\ DOMAIN iMap[p] \subseteq Index
          /\ iMap[p] \in [DOMAIN iMap[p] -> Ids(p)]
          /\ iBackQueue[p] \in Seq(Ids(p))
          /\ iQueue[p] \in Seq(Ids(p))
          /\ pool[p] \in [Types -> Seq(Ids(p))]
          /\ sending[p] = NotSending \/ sending[p] \in [proc : Ids(p), index : Index]

LogOK ==
    /\ DOMAIN log \subseteq Index
    /\ log \in [DOMAIN log -> History]

TypeOK ==
    /\ ObjectsOK
    /\ HoldersOK
    /\ wire \in [Peer -> Seq(Packet)]
    /\ sends \in 0..MaxSends
    /\ LogOK

(* A processor taken from the pool acts as a new one: nothing is left in    *)
(* its line, its position and in what its next packet says, whatever        *)
(* transactions it served before, host or server, completed or failed.      *)
(* Only iTransportFlags may keep TF__FAILED, of a host whose first visit    *)
(* failed; the next packet overwrites it before anything reads it.          *)
AsNew(rec, t) == rec = [Fresh(t) EXCEPT !.index = rec.index, !.flagged = rec.flagged]

CleanPool ==
    \A p \in Peer : \A t \in Types : \A i \in DOMAIN pool[p][t] :
        AsNew(obj[p][pool[p][t][i]], t)

(* A processor has one holder at a time: it is idle once, or queued once,  *)
(* or in the hands of send(); and a packet under way finds its transaction *)
(* unknown or its processor still bound to it and held by nobody, although *)
(* iMap keeps the indexes of processors that were recycled.                *)
SoleHolder ==
    \A p \in Peer :
        /\ Idle(p) \cap Waiting(p) = {}
        /\ sending[p].proc \notin Idle(p) \cup Waiting(p)
        /\ Cardinality(Waiting(p)) = Len(Queued(p))
        /\ \A t, u \in Types : \A i \in DOMAIN pool[p][t], j \in DOMAIN pool[p][u] :
              pool[p][t][i] = pool[p][u][j] => t = u /\ i = j
        /\ \A i \in DOMAIN wire[Other(p)] :
              LET pkt == wire[Other(p)][i]
              IN  Known(p, pkt) =>
                    /\ obj[p][iMap[p][pkt.transaction]].index = pkt.transaction
                    /\ iMap[p][pkt.transaction] \notin
                           Idle(p) \cup Waiting(p) \cup {sending[p].proc}

(* Transactions reach the remote peer in the order send() was called.      *)
ArrivalOrder ==
    [][\A p \in Peer : \A k \in DOMAIN iMap'[p] \ DOMAIN iMap[p] :
          Owner(k) = Other(p) =>
              \A j \in DOMAIN iMap[p] : Owner(j) = Other(p) => j < k]_vars

(* The calls of steps and faults are those TransactionContract allows.     *)
Contract == INSTANCE TransactionContract
ContractSpec == Contract!Spec

(* The indexes of the transactions are used as TransactionSpace says, with  *)
(* one thread per peer that calls send(): computed from the size of the map *)
(* before the insertion, registered by the first packet, and never taken    *)
(* out or given to another, whatever becomes of the processors.             *)
Space == INSTANCE TransactionSpace WITH
    Thread <- {"application"},
    iMap <- [p \in Peer |-> [k \in DOMAIN iMap[p] |->
                                IF Owner(k) = p THEN "HOST" ELSE "SERVER"]],
    pending <- [p \in Peer |-> IF sending[p] = NotSending THEN << >>
                                ELSE Put(<< >>, "application", sending[p].index)],
    overlapped <- FALSE
SpaceSpec == Space!IndexSpec

(* A transaction that ran to its end without a failure keeps at most one of *)
(* the two processors that served it out of the pools: that of the side     *)
(* which waits for an answer to its last packet and gets none.              *)
UnderWay(k) ==
    \E p \in Peer :
        \/ \E i \in DOMAIN wire[p] : wire[p][i].transaction = k
        \/ \E o \in Waiting(p) : obj[p][o].index = k
Retains(p, k) ==
    /\ k \in DOMAIN iMap[p]
    /\ obj[p][iMap[p][k]].index = k
    /\ iMap[p][k] \notin Idle(p)
Recycled ==
    \A k \in DOMAIN log :
        Finished(k) /\ ~log[k].failed /\ ~UnderWay(k) =>
            \E p \in Peer : ~Retains(p, k)

(* Transactions once queued run to the end of their lines or fail: sends   *)
(* being bounded, there comes a time after which all have.                 *)
Completes == <>[](\A k \in DOMAIN log : Finished(k))

(* When both sides took part, a fault on one side is followed by a fault   *)
(* on the other.                                                           *)
BothStarted(k) == \E i \in DOMAIN log[k].calls : log[k].calls[i].side = "SERVER"
FaultsShared ==
    <>[](\A k \in DOMAIN log :
            log[k].faults # {} /\ BothStarted(k) => log[k].faults = Side)
=============================================================================
