------------------------- MODULE HandshakeContract -------------------------
(***************************************************************************)
(* What the meeting of two peers promises, per connection: the incoming    *)
(* side decides once; only after it accepted do the three messages of the  *)
(* dialog follow, signal, content and answer, each after the one before;   *)
(* a side becomes a client only after the answer was sent; and the         *)
(* incoming side, once it has answered, does not withdraw.  A side that    *)
(* was closed stays closed.                                                *)
(*                                                                         *)
(* Comments of DPN_Network.h: "Host (outgoing) dialog: receive (signal) -> *)
(* send (main content) -> receive (answer)" and its mirror for the server. *)
(***************************************************************************)
EXTENDS Naturals

CONSTANT Conn   \* the connections

Side == {"out", "in"}

VARIABLES decision,  \* what the incoming side decided
          said,      \* how many messages of the dialog have been sent, 0..3
          result     \* how each side ended, "open" until it does

Init ==
    /\ decision = [c \in Conn |-> "WAIT"]
    /\ said = [c \in Conn |-> 0]
    /\ result = [c \in Conn |-> [s \in Side |-> "open"]]

Decide(c) ==
    /\ decision[c] = "WAIT"
    /\ decision' \in {[decision EXCEPT ![c] = d] : d \in {"ACCEPT", "REJECT"}}
    /\ UNCHANGED <<said, result>>

(* The signal and the answer come from the incoming side. *)
Say(c) ==
    /\ decision[c] = "ACCEPT"
    /\ said[c] < 3
    /\ result[c][IF said[c] = 1 THEN "out" ELSE "in"] = "open"
    /\ said' = [said EXCEPT ![c] = @ + 1]
    /\ UNCHANGED <<decision, result>>

Join(c, s) ==
    /\ said[c] = 3
    /\ result[c][s] = "open"
    /\ result' = [result EXCEPT ![c][s] = "client"]
    /\ UNCHANGED <<decision, said>>

Close(c, s) ==
    /\ result[c][s] = "open"
    /\ s = "in" => said[c] < 3
    /\ result' = [result EXCEPT ![c][s] = "closed"]
    /\ UNCHANGED <<decision, said>>

Next == \E c \in Conn : \/ Decide(c)
                        \/ Say(c)
                        \/ \E s \in Side : Join(c, s) \/ Close(c, s)

Spec == Init /\ [][Next]_<<decision, said, result>>
=============================================================================
