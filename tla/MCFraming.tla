----------------------------- MODULE MCFraming -----------------------------
(***************************************************************************)
(* An instance of Framing for TLC: integers of two digits of base 8, so    *)
(* from -32 to 31; three types, whose processors register flags, flags and *)
(* a text, flags and an array of addresses (as RequestLocalEnvironment).   *)
(* A unit holds nothing or a value.                                        *)
(***************************************************************************)
EXTENDS Framing

MCUnits ==
    [t \in {1, 2, 3} |->
        CASE t = 1 -> <<"byte">>
          [] t = 2 -> <<"byte", "string">>
          [] t = 3 -> <<"byte", "addresses">>]
MCTypeOf == [k \in {1, 4, 5} |-> CASE k = 1 -> 2 [] k = 4 -> 1 [] k = 5 -> 3]
MCValue ==
    [kind \in {"byte", "string", "addresses"} |->
        CASE kind = "byte" -> 3
          [] kind = "string" -> <<3>>
          [] kind = "addresses" -> <<[port |-> 5, address |-> <<3>>]>>]

(* Every value that can be assigned is read back as it was, up to the last *)
(* byte that was written: the mediators of a kind agree about its bytes.   *)
Texts == {<<>>, <<3>>, <<0, 7>>}
Addresses == [port : {-1, 0, 31}, address : Texts]
Valued(kind) ==
    CASE kind = "byte" -> Byte
      [] kind = "int" -> -(IntMax + 1)..IntMax
      [] kind = "string" -> Texts
      [] kind = "address" -> Addresses
      [] kind = "addresses" -> UNION {[1..n -> Addresses] : n \in 0..2}

ASSUME RoundTrip ==
    \A kind \in Kind : \A v \in Valued(kind) :
        LET bytes == Save(kind, <<v>>)
        IN  Get(kind, bytes) = Uploaded(v, Len(bytes))
=============================================================================
