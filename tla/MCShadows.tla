----------------------------- MODULE MCShadows -----------------------------
(***************************************************************************)
(* Instances of Shadows for TLC.                                           *)
(***************************************************************************)
EXTENDS Shadows

(* The initiator's machine has one port left, the acceptor's has two. *)
MCPort == [p \in Peer |-> IF p = "initiator" THEN {1} ELSE {1, 2}]

(* Nobody, or a module for each direction. *)
MCUsers == {{}, Direction}
=============================================================================
