---------------------------- MODULE MCTransactions ----------------------------
(* Instances of Transactions for TLC: the action lines of four processors   *)
(* of DPN_Processors.cpp.                                                   *)
EXTENDS Transactions

MCTypes == {"TextMessage", "MakeShadow", "ReserveChannel", "SyncChannel"}

MCLine ==
    [t \in MCTypes |->
        CASE t = "TextMessage"    -> <<"SERVER">>
          [] t = "MakeShadow"     -> <<"HOST", "SERVER", "HOST", "SERVER", "HOST">>
          [] t = "ReserveChannel" -> <<"HOST", "SERVER">>
          [] t = "SyncChannel"    -> <<>>]
=============================================================================
