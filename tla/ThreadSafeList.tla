--------------------------- MODULE ThreadSafeList ---------------------------
(***************************************************************************)
(* _ThreadSafeList of DPN_Util.h, a doubly linked list with a lock and a   *)
(* pool of nodes, in the three ways the program uses it:                   *)
(*   "pool"    UnitPool: threads push units and thread cores take the last *)
(*   "queue"   _ThreadSafeQueue: the client center moves the list to an    *)
(*             array (new connections, shared ports)                       *)
(*   "events"  _ThreadSafeQueue2: the client center moves the list to a    *)
(*             second list and takes its last element (client events)      *)
(* What is done under the lock is one step; the tests of pFirst and pHead  *)
(* that are made without it are steps of their own.                        *)
(***************************************************************************)
EXTENDS Naturals, Sequences, FiniteSets

CONSTANTS Usages,    \* the usages to consider
          Consumer,  \* the threads that take, when there may be several
          MaxPush    \* bound: calls of push_back; the values pushed are 1, 2, ...

ASSUME UsageAssumption == Usages \subseteq {"pool", "queue", "events"} /\ Usages # {}
ASSUME ConsumerAssumption == Consumer # {} /\ MaxPush \in Nat

VARIABLES
    usage,              \* chosen once
    prev, next, object, \* node -> its fields
    pFirst, pHead,      \* list -> node or Null
    iNodePool,          \* list -> the free nodes, last returned last
    pushed,             \* calls of push_back
    pc,                 \* consumer -> what it does next
    taken,              \* the values taken, in order
    nullHead            \* a null pHead was dereferenced

heap  == <<prev, next, object>>
lists == <<pFirst, pHead, iNodePool>>
vars  == <<usage, heap, lists, pushed, pc, taken, nullHead>>
-----------------------------------------------------------------------------
List == {"iInput", "iOutput"}
Node == 1..MaxPush
Null == 0

(* The client center is one thread; thread cores may be many. *)
Reader == CHOOSE c \in Consumer : TRUE
Consumers == IF usage = "pool" THEN Consumer ELSE {Reader}

(* getNode: a node of the pool, or a new one. *)
Used == {n \in Node : object[n] # 0}
NewNode(l) == IF iNodePool[l] = <<>> THEN Cardinality(Used) + 1
                                     ELSE iNodePool[l][Len(iNodePool[l])]
PoolLess(l) == IF iNodePool[l] = <<>> THEN iNodePool
               ELSE [iNodePool EXCEPT ![l] = SubSeq(@, 1, Len(@) - 1)]

Set(f, n, v) == IF n = Null THEN f ELSE [f EXCEPT ![n] = v]

(* Mutant: the node that is excluded keeps its links.                       *)
ExcludeLinked(n) ==
    /\ next' = Set(next, prev[n], next[n])
    /\ prev' = Set(prev, next[n], prev[n])

(* ListNode::exclude. *)
Exclude(n) ==
    /\ next' = [Set(next, prev[n], next[n]) EXCEPT ![n] = Null]
    /\ prev' = [Set(prev, next[n], prev[n]) EXCEPT ![n] = Null]

(* removeNode gives the node to the pool of its list. *)
Recycle(l, n) == iNodePool' = [iNodePool EXCEPT ![l] = Append(@, n)]

Init ==
    /\ usage \in Usages
    /\ prev = [n \in Node |-> Null]
    /\ next = [n \in Node |-> Null]
    /\ object = [n \in Node |-> 0]
    /\ pFirst = [l \in List |-> Null]
    /\ pHead = [l \in List |-> Null]
    /\ iNodePool = [l \in List |-> <<>>]
    /\ pushed = 0
    /\ pc = [c \in Consumer |-> "idle"]
    /\ taken = <<>>
    /\ nullHead = FALSE

Push ==
    /\ ~nullHead
    /\ pushed < MaxPush
    /\ pushed' = pushed + 1
    /\ LET n == NewNode("iInput")
           h == pHead["iInput"]
       IN  /\ object' = [object EXCEPT ![n] = pushed + 1]
           /\ next' = Set(next, h, n)
           /\ prev' = IF h = Null THEN prev ELSE [prev EXCEPT ![n] = h]
           /\ pHead' = [pHead EXCEPT !["iInput"] = n]
           /\ pFirst' = IF pFirst["iInput"] = Null
                        THEN [pFirst EXCEPT !["iInput"] = n] ELSE pFirst
    /\ iNodePool' = PoolLess("iInput")
    /\ UNCHANGED <<usage, pc, taken, nullHead>>

(* The test empty() of UnitPool::get and of both accept(). *)
Look(c) ==
    /\ ~nullHead
    /\ c \in Consumers
    /\ pc[c] = "idle"
    /\ \/ /\ pFirst["iInput"] # Null
          /\ pc' = [pc EXCEPT ![c] = IF usage = "pool" THEN "taking" ELSE "moving"]
       \/ /\ pFirst["iInput"] = Null
          /\ usage = "events"
          /\ pc' = [pc EXCEPT ![c] = "taking"]
    /\ UNCHANGED <<usage, heap, lists, pushed, taken, nullHead>>

(* moveTo(array).  The loop goes from pFirst to the node after pHead, but   *)
(* the node just appended was excluded, so its successor is null, which is  *)
(* what comes after pHead as well: the loop ends after one element.         *)
MoveToArray(c) ==
    /\ ~nullHead
    /\ pc[c] = "moving"
    /\ usage = "queue"
    /\ taken' = Append(taken, object[pFirst["iInput"]])
    /\ Exclude(pFirst["iInput"])
    /\ Recycle("iInput", pFirst["iInput"])
    /\ pFirst' = [pFirst EXCEPT !["iInput"] = Null]
    /\ pHead' = [pHead EXCEPT !["iInput"] = Null]
    /\ pc' = [pc EXCEPT ![c] = "idle"]
    /\ UNCHANGED <<usage, object, pushed, nullHead>>

(* Mutant: the second list is replaced whatever it holds.                   *)
MoveToListReplacing(c) ==
    /\ ~nullHead
    /\ pc[c] = "moving"
    /\ usage = "events"
    /\ pFirst' = [pFirst EXCEPT !["iOutput"] = pFirst["iInput"], !["iInput"] = Null]
    /\ pHead' = [pHead EXCEPT !["iOutput"] = pHead["iInput"], !["iInput"] = Null]
    /\ pc' = [pc EXCEPT ![c] = "taking"]
    /\ UNCHANGED <<usage, heap, iNodePool, pushed, taken, nullHead>>

(* moveTo(list).  Only pFirst is asked whether the second list is empty.    *)
MoveToList(c) ==
    /\ ~nullHead
    /\ pc[c] = "moving"
    /\ usage = "events"
    /\ LET f == pFirst["iInput"]
           h == pHead["iOutput"]
       IN  /\ nullHead' = (pFirst["iOutput"] # Null /\ h = Null)
           /\ IF pFirst["iOutput"] = Null
              THEN /\ pFirst' = [pFirst EXCEPT !["iOutput"] = f, !["iInput"] = Null]
                   /\ UNCHANGED <<prev, next>>
              ELSE /\ pFirst' = [pFirst EXCEPT !["iInput"] = Null]
                   /\ next' = Set(next, h, f)
                   /\ prev' = [prev EXCEPT ![f] = h]
    /\ pHead' = [pHead EXCEPT !["iOutput"] = pHead["iInput"], !["iInput"] = Null]
    /\ pc' = [pc EXCEPT ![c] = "taking"]
    /\ UNCHANGED <<usage, object, iNodePool, pushed, taken>>

(* takeLast: pHead is tested without the lock, ... *)
Source == IF usage = "pool" THEN "iInput" ELSE "iOutput"

TestHead(c) ==
    /\ ~nullHead
    /\ pc[c] = "taking"
    /\ pc' = [pc EXCEPT ![c] = IF pHead[Source] = Null THEN "idle" ELSE "locking"]
    /\ UNCHANGED <<usage, heap, lists, pushed, taken, nullHead>>

(* Mutant: the element is read but stays in the list, as last() does.       *)
TakeUnlinked(c) ==
    /\ ~nullHead
    /\ pc[c] = "locking"
    /\ LET h == pHead[Source]
       IN  /\ h # Null
           /\ taken' = Append(taken, object[h])
           /\ UNCHANGED <<prev, next, pHead, iNodePool>>
    /\ pc' = [pc EXCEPT ![c] = "idle"]
    /\ UNCHANGED <<usage, object, pFirst, pushed, nullHead>>

(* ... and used with it; pFirst is left alone. *)
Take(c) ==
    /\ ~nullHead
    /\ pc[c] = "locking"
    /\ LET h == pHead[Source]
       IN  IF h = Null
           THEN nullHead' = TRUE /\ UNCHANGED <<prev, next, pHead, iNodePool, taken>>
           ELSE /\ taken' = Append(taken, object[h])
                /\ pHead' = [pHead EXCEPT ![Source] = prev[h]]
                /\ Exclude(h)
                /\ Recycle(Source, h)
                /\ UNCHANGED nullHead
    /\ pc' = [pc EXCEPT ![c] = "idle"]
    /\ UNCHANGED <<usage, object, pFirst, pushed>>

Next == Push \/ \E c \in Consumer : \/ Look(c)
                                    \/ MoveToArray(c)
                                    \/ MoveToList(c)
                                    \/ TestHead(c)
                                    \/ Take(c)

Spec == Init /\ [][Next]_vars
-----------------------------------------------------------------------------
(* Properties.                                                             *)

TypeOK ==
    /\ usage \in Usages
    /\ prev \in [Node -> Node \cup {Null}] /\ next \in [Node -> Node \cup {Null}]
    /\ object \in [Node -> 0..MaxPush]
    /\ pFirst \in [List -> Node \cup {Null}] /\ pHead \in [List -> Node \cup {Null}]
    /\ iNodePool \in [List -> Seq(Node)]
    /\ pushed \in 0..MaxPush
    /\ pc \in [Consumer -> {"idle", "moving", "taking", "locking"}]
    /\ taken \in Seq(1..MaxPush)
    /\ nullHead \in BOOLEAN

Values(s) == {s[i] : i \in DOMAIN s}

(* The nodes met from h backwards: those of every set that has h and, with  *)
(* each of its nodes, the node before it.                                   *)
Closed(f, h, S) == ({h} \cup {f[n] : n \in S}) \ {Null} \subseteq S
Reach(f, h) == {n \in Node : \A S \in SUBSET Node : Closed(f, h, S) => n \in S}
Linked(l) == Reach(prev, pHead[l])

(* A value is taken once at most, however many threads take.                *)
TakenOnce == \A i, j \in DOMAIN taken : taken[i] = taken[j] => i = j

(* Free nodes are out of the lists and carry no link, so that the next      *)
(* push_back can link them; the two lists share no node.                    *)
FreeNodesUnlinked ==
    ~nullHead =>
        /\ \A l \in List : \A n \in Values(iNodePool[l]) :
              /\ prev[n] = Null /\ next[n] = Null
              /\ n \notin Linked("iInput") \cup Linked("iOutput")
        /\ Linked("iInput") \cap Linked("iOutput") = {}

(* Where elements are taken one by one, a value pushed is taken or can      *)
(* still be.                                                                *)
Held(l) == {object[n] : n \in Linked(l)}
NothingForgotten ==
    usage # "queue" /\ ~nullHead =>
        1..pushed = Values(taken) \cup Held("iInput") \cup Held("iOutput")

(* _ThreadSafeQueue: moveTo moves the objects to the array.                 *)
MovesAll ==
    usage = "queue" => 1..pushed = Values(taken) \cup Held("iInput")
=============================================================================
