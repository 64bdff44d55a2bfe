--------------------------- MODULE TransactionSpace ---------------------------
(***************************************************************************)
(* The transaction indexes of one connection (DPN_TransactionSpace): each  *)
(* peer keeps a map from indexes to processors, chooses the indexes of the *)
(* transactions it starts from the size of that map and from the half of   *)
(* the ints it was given, and takes those of the other peer from packets.  *)
(*                                                                         *)
(* send() may be called from any thread and has no lock: it reads the size *)
(* and inserts later.  What a processor does is left to Transactions,      *)
(* which implements this specification with one application thread.        *)
(***************************************************************************)
EXTENDS Integers, FiniteSets

CONSTANTS Thread,    \* the threads of each peer that call send()
          IntMax,    \* INT_MAX
          MaxSends   \* bound: calls of send(), both peers together

Party == {"initiator", "acceptor"}
Other(p) == IF p = "initiator" THEN "acceptor" ELSE "initiator"

ASSUME BoundAssumption == IntMax \in Nat \ {0} /\ MaxSends \in Nat

VARIABLES
    iMap,        \* peer -> transaction index -> the side this peer plays in it
    pending,     \* peer -> thread inside send() -> the index it computed
    sends,       \* calls of send() so far
    overlapped   \* two threads of one peer were inside send() at once (history)

indexVars == <<iMap, pending, sends, overlapped>>
-----------------------------------------------------------------------------
Known(p) == DOMAIN iMap[p]
Inside(p) == DOMAIN pending[p]
Index == (-(IntMax + 1))..IntMax
Half == IntMax \div 2

Put(f, k, v) == [x \in DOMAIN f \cup {k} |-> IF x = k THEN v ELSE f[x]]
Drop(f, k)   == [x \in DOMAIN f \ {k} |-> f[x]]

(* Mutant: the acceptor's half begins where the initiator's ends.           *)
MinIndexShared(p) == IF p = "initiator" THEN 1 ELSE Half

MinIndex(p) == IF p = "initiator" THEN 1 ELSE Half + 1

(* size_t assigned to int. *)
ToInt(n) == IF n > IntMax THEN n - 2 * (IntMax + 1) ELSE n

(* The test for an exhausted range compares an unsigned sum with zero and   *)
(* refuses nothing.                                                         *)
NextIndex(p) == ToInt(Cardinality(Known(p)) + MinIndex(p))

IndexInit ==
    /\ iMap = [p \in Party |-> << >>]
    /\ pending = [p \in Party |-> << >>]
    /\ sends = 0
    /\ overlapped = FALSE

(* registerTransaction: the index is computed from the size of the map ...  *)
Compute(p, t) ==
    /\ t \notin Inside(p)
    /\ sends < MaxSends
    /\ pending' = [pending EXCEPT ![p] = Put(@, t, NextIndex(p))]
    /\ sends' = sends + 1
    /\ overlapped' = (overlapped \/ Inside(p) # {})
    /\ UNCHANGED iMap

(* ... and the processor is inserted under it, whatever is there by then.   *)
Insert(p, t) ==
    /\ t \in Inside(p)
    /\ iMap' = [iMap EXCEPT ![p] = Put(@, pending[p][t], "HOST")]
    /\ pending' = [pending EXCEPT ![p] = Drop(@, t)]
    /\ UNCHANGED <<sends, overlapped>>

(* The first packet of a transaction arrives: an index that is not in the   *)
(* map is registered for a server.  One that is in the map is taken for an  *)
(* answer to the transaction that has it.                                   *)
Register(p, k) ==
    /\ k \in Known(Other(p)) \ Known(p)
    /\ iMap' = [iMap EXCEPT ![p] = Put(@, k, "SERVER")]
    /\ UNCHANGED <<pending, sends, overlapped>>

IndexNext ==
    \E p \in Party :
        \/ \E t \in Thread : Compute(p, t) \/ Insert(p, t)
        \/ \E k \in Known(Other(p)) : Register(p, k)

IndexSpec == IndexInit /\ [][IndexNext]_indexVars
-----------------------------------------------------------------------------
(* Properties.                                                             *)

(* The variables keep their types.                                         *)
IndexTypeOK ==
    /\ DOMAIN iMap = Party /\ DOMAIN pending = Party
    /\ \A p \in Party :
          /\ Known(p) \subseteq Int /\ IsFiniteSet(Known(p))
          /\ iMap[p] \in [Known(p) -> {"HOST", "SERVER"}]
          /\ Inside(p) \subseteq Thread
          /\ pending[p] \in [Inside(p) -> Int]
    /\ sends \in Nat /\ overlapped \in BOOLEAN

(* Neither peer has come to the end of its half: the count is that of the   *)
(* transactions of both peers.                                              *)
Roomy == \A p \in Party : Cardinality(Known(p)) < Half

(* While the threads of a peer call send() in turn and the connection has   *)
(* seen fewer transactions, of both peers, than half the range of one: the  *)
(* index a peer is about to use is used by neither, although the other      *)
(* computes its own at the same time and the packets of its transactions    *)
(* arrive in between; and an index that both peers know is of one           *)
(* transaction, host here and server there: no packet that opens a          *)
(* transaction is taken for an answer to another.                           *)
Distinct ==
    Roomy /\ ~overlapped =>
        \A p \in Party :
            /\ \A t \in Inside(p) : pending[p][t] \notin Known(p) \cup Known(Other(p))
            /\ \A k \in Known(p) \cap Known(Other(p)) : iMap[p][k] # iMap[Other(p)][k]
=============================================================================
