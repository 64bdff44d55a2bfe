------------------------- MODULE TransactionContract -------------------------
(***************************************************************************)
(* What a transaction promises to the code that writes packet processors:  *)
(* the steps of its action line are called in the order of the line, each  *)
(* at most once and each on the side it was declared for; nothing is       *)
(* called after a step that failed; and fault() is called at most once per *)
(* side, only when a step did fail.                                        *)
(*                                                                         *)
(* The calls are what a user of DPN_TransmitProcessor observes, whatever   *)
(* objects, queues, indexes and packets carry the transaction between the  *)
(* two peers; module Transactions is shown to implement this one.          *)
(***************************************************************************)
EXTENDS Naturals, Sequences

CONSTANTS Types,  \* the packet types, one per processor class
          Line,   \* Line[t] : the sides of the steps of t's action line
          Index   \* the transaction indexes

Side == {"HOST", "SERVER"}

VARIABLE log    \* transaction index -> what has been called for it so far

Opened(t) == [type |-> t, calls |-> <<>>, failed |-> FALSE, faults |-> {}]

(* Steps done + 1 .. last of the line, all called on one side. *)
RunOf(side, done, last) ==
    [i \in 1..(last - done) |-> [side |-> side, step |-> done + i]]

Init == log = << >>

(* A processor is given to send() and registered under a new index. *)
Open(k, t) ==
    /\ k \notin DOMAIN log
    /\ log' = [x \in DOMAIN log \cup {k} |-> IF x = k THEN Opened(t) ELSE log[x]]

(* One visit to a side calls the next steps of the line, as many as that   *)
(* side owns in a row, or fewer when one of them fails; a failure may be   *)
(* answered by fault() on the same side.                                   *)
Visit(k, side) ==
    LET line == Line[log[k].type]
        done == Len(log[k].calls)
    IN  /\ ~log[k].failed
        /\ \E last \in done + 1..Len(line), bad \in BOOLEAN, told \in SUBSET {side} :
              /\ \A i \in done + 1..last : line[i] = side
              /\ ~bad => \/ last = Len(line)
                         \/ line[last + 1] # side
              /\ told # {} => bad
              /\ log' = [log EXCEPT ![k].calls  = @ \o RunOf(side, done, last),
                                    ![k].failed = bad,
                                    ![k].faults = told]

(* The other side learns of the failure. *)
Notify(k, side) ==
    /\ log[k].failed
    /\ side \notin log[k].faults
    /\ log' = [log EXCEPT ![k].faults = @ \cup {side}]

Next == \/ \E k \in Index, t \in Types : Open(k, t)
        \/ \E k \in DOMAIN log, side \in Side : Visit(k, side) \/ Notify(k, side)

Spec == Init /\ [][Next]_log
=============================================================================
