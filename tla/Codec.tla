------------------------------- MODULE Codec -------------------------------
(***************************************************************************)
(* How the values of a processor's units become the bytes of a packet and  *)
(* values again: the mediators of DPN_TransmitTools.h and their content.   *)
(* A unit holds no value after clearBuffer() and before the first          *)
(* assignment: what it holds is a sequence of at most one value.           *)
(*                                                                         *)
(* Bytes and integers are those of a smaller machine: an integer is Width  *)
(* digits of base Base (4 of 256 in the program), the low digit first.     *)
(***************************************************************************)
EXTENDS Integers, SequencesExt

CONSTANTS Base, Width  \* of an integer on the wire

ASSUME WidthAssumption == Base \in Nat /\ Base > 1 /\ Width \in Nat /\ Width > 0

(* Base ^ n. *)
Power[n \in Nat] == IF n = 0 THEN 1 ELSE Base * Power[n - 1]

Bound == Power[Width]
IntMax == (Bound \div 2) - 1
Integer == -(IntMax + 1)..IntMax
Byte == 0..Base - 1
-----------------------------------------------------------------------------
(* Integers.                                                               *)

(* v without its n low digits. *)
Shifted(v, n) ==
    LET shift[i \in Nat] == IF i = 0 THEN v ELSE shift[i - 1] \div Base
    IN  shift[n]

Encode(v) == [i \in 1..Width |-> Shifted(v, i - 1) % Base]

(* The number that the last n digits of b make. *)
LastDigits(b, n) ==
    LET number[i \in 0..Len(b)] ==
            IF i = 0 THEN 0 ELSE b[Len(b) + 1 - i] + Base * number[i - 1]
    IN  number[n]

Unsigned(b) == LastDigits(b, Len(b))
Signed(b) == IF Unsigned(b) > IntMax THEN Unsigned(b) - Bound ELSE Unsigned(b)

First(b, n) == SubSeq(b, 1, n)
Rest(b, n) == SubSeq(b, n + 1, Len(b))
-----------------------------------------------------------------------------
(* Values: dpn_mediator<T>.                                                *)

(* Flags and answers are bytes; an environment is an array of addresses. *)
Kind == {"byte", "int", "string", "address", "addresses"}

(* What is assigned to the units of a kind. *)
Address == [port : Integer, address : Seq(Byte)]
Assigned(kind) ==
    CASE kind = "byte" -> Byte
      [] kind = "int" -> Integer
      [] kind = "string" -> Seq(Byte)
      [] kind = "address" -> Address
      [] kind = "addresses" -> Seq(Address)

(* T(): what a unit without a value is read as. *)
NoAddress == [port |-> -1, address |-> <<>>]
Default(kind) ==
    CASE kind \in {"byte", "int"} -> 0
      [] kind \in {"string", "addresses"} -> <<>>
      [] kind = "address" -> NoAddress

Meaning(kind, held) == IF held = <<>> THEN Default(kind) ELSE held[1]

SaveString(s) == Encode(Len(s)) \o s
SaveAddress(a) == Encode(a.port) \o SaveString(a.address)
SaveAddresses(as) ==
    Encode(Len(as)) \o FlattenSeq([i \in DOMAIN as |-> SaveAddress(as[i])])

(* Assignment to a unit: the buffer is cleared, then the value is saved. *)
Save(kind, held) ==
    IF held = <<>> THEN <<>>
    ELSE LET v == held[1]
         IN  CASE kind = "byte" -> <<v>>
               [] kind = "int" -> Encode(v)
               [] kind = "string" -> SaveString(v)
               [] kind = "address" -> SaveAddress(v)
               [] kind = "addresses" -> SaveAddresses(v)

(* upload() from position p: the value and the position behind it.  It has *)
(* no end to look at: what it reads behind the item is not known.          *)
Uploaded(value, p) == [known |-> TRUE, value |-> value, p |-> p]
Beyond(kind) == [known |-> FALSE, value |-> Default(kind), p |-> 0]

UploadInt(b, p) ==
    IF p + Width <= Len(b) THEN Uploaded(Signed(SubSeq(b, p + 1, p + Width)), p + Width)
    ELSE Beyond("int")

UploadString(b, p) ==
    LET size == UploadInt(b, p)
        end == size.p + size.value
    IN  IF size.known /\ size.value >= 0 /\ end <= Len(b)
        THEN Uploaded(SubSeq(b, size.p + 1, end), end)
        ELSE Beyond("string")

UploadAddress(b, p) ==
    LET port == UploadInt(b, p)
        address == UploadString(b, port.p)
    IN  IF port.known /\ address.known
        THEN Uploaded([port |-> port.value, address |-> address.value], address.p)
        ELSE Beyond("address")

UploadNext(b, read) ==
    LET next == UploadAddress(b, read.p)
    IN  IF read.known /\ next.known
        THEN Uploaded(Append(read.value, next.value), next.p)
        ELSE Beyond("addresses")

UploadAddresses(b, p) ==
    LET size == UploadInt(b, p)
        read[i \in Nat] ==
            IF i = 0 THEN Uploaded(<<>>, size.p) ELSE UploadNext(b, read[i - 1])
    IN  IF size.known
        THEN read[IF size.value < 0 THEN 0 ELSE size.value]
        ELSE Beyond("addresses")

(* get() of a unit whose buffer is b. *)
Get(kind, b) ==
    CASE b = <<>> -> Uploaded(Default(kind), 0)
      [] b # <<>> /\ kind = "byte" -> Uploaded(b[1], 1)
      [] b # <<>> /\ kind = "int" -> UploadInt(b, 0)
      [] b # <<>> /\ kind = "string" -> UploadString(b, 0)
      [] b # <<>> /\ kind = "address" -> UploadAddress(b, 0)
      [] b # <<>> /\ kind = "addresses" -> UploadAddresses(b, 0)

-----------------------------------------------------------------------------
(* A content: the items registered in it, __transmit_content.              *)

(* parseBuffers, of a content without total size and prefix. *)
ParseBuffers(items) ==
    FlattenSeq([i \in DOMAIN items |-> Encode(Len(items[i])) \o items[i]])

Loaded(items) == [end |-> "loaded", items |-> items]
Stop(why) == [end |-> why, items |-> <<>>]

(* The loop of deparseBuffer: what it has loaded and where it is.  When    *)
(* fewer bytes are left than a size has, it is read past the end and what   *)
(* comes of it is not known; when the sum overflows, the range check lets   *)
(* pass an item that is copied from far outside.                            *)
Loading == [end |-> "loaded", p |-> 0, items |-> <<>>]

LoadItem(b, l) ==
    LET size == Signed(SubSeq(b, l.p + 1, l.p + Width))
        next == l.p + Width + size
    IN  CASE l.end # "loaded" \/ l.p = Len(b) -> l
          [] l.end = "loaded" /\ l.p # Len(b) ->
              CASE Len(b) - l.p < Width -> [l EXCEPT !.end = "unknown"]
                [] Len(b) - l.p >= Width /\ next > IntMax -> [l EXCEPT !.end = "overrun"]
                [] Len(b) - l.p >= Width /\ next <= IntMax ->
                    IF size < 0 \/ next > Len(b) THEN [l EXCEPT !.end = "refused"]
                    ELSE [end |-> "loaded", p |-> next,
                          items |-> Append(l.items, SubSeq(b, l.p + Width + 1, next))]

LoadItems(b, n) ==
    LET loop[i \in Nat] == IF i = 0 THEN Loading ELSE LoadItem(b, loop[i - 1])
    IN  loop[n]

(* Mutant: what was read until the end of the buffer is enough.            *)
FinishLeniently(b, n, l) ==
    CASE l.end # "loaded" -> Stop(l.end)
      [] l.end = "loaded" /\ l.p = Len(b) -> Loaded(l.items)
      [] l.end = "loaded" /\ l.p # Len(b) -> Stop("refused")

(* Behind the loop all bytes must be read and all n items be loaded.       *)
Finish(b, n, l) ==
    CASE l.end # "loaded" -> Stop(l.end)
      [] l.end = "loaded" /\ l.p = Len(b) /\ Len(l.items) = n -> Loaded(l.items)
      [] l.end = "loaded" /\ ~(l.p = Len(b) /\ Len(l.items) = n) -> Stop("refused")

(* deparseBuffer: an empty buffer is accepted and leaves the items as they *)
(* are; one shorter than a size, or any for a content without items, is    *)
(* refused.                                                                *)
DeparseBuffer(b, n) ==
    CASE b = <<>> -> Stop("stale")
      [] b # <<>> /\ (Len(b) < Width \/ n = 0) -> Stop("refused")
      [] Len(b) >= Width /\ n > 0 -> Finish(b, n, LoadItems(b, n))
==============================================================================
