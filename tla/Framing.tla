------------------------------- MODULE Framing -------------------------------
(***************************************************************************)
(* One direction of the main channel: how packets become a stream of bytes *)
(* and packets again (the forward and backward units of DPN_MainChannel,   *)
(* IO__CHANNEL of DPN_Channel, DPN_NodeConnector, the header and the       *)
(* contents of packets in DPN_TransmitProcessor).  Codec has the bytes of  *)
(* a content.                                                              *)
(*                                                                         *)
(* The forward unit writes a packet with one send, of which the system may *)
(* take a part.  The backward unit reads the size, then the body, with a   *)
(* receive each, which may return less than was asked for.  The connector  *)
(* says DPN_REPEAT of both, the channel takes that for a success.          *)
(***************************************************************************)
EXTENDS Codec

CONSTANTS Units,        \* packet type -> the kinds of its processor's units
          TypeOf,       \* transaction -> the type of its processor
          PartialSends, \* whether the system may take a part of what is sent
          Value,        \* bound: kind -> the value a step may assign to a unit
          MaxSends      \* bound: the packets the forward unit makes

Transaction == DOMAIN TypeOf
Type == DOMAIN Units

ASSUME TypesAssumption ==
    /\ Type \subseteq 0..Bound - 1 /\ Transaction \subseteq 0..Bound - 1
    /\ \A t \in Transaction : TypeOf[t] \in Type
    /\ \A t \in Type : Units[t] \in Seq(DOMAIN Value)
ASSUME BoundsAssumption ==
    /\ DOMAIN Value \subseteq Kind
    /\ \A kind \in DOMAIN Value : Value[kind] \in Assigned(kind)
    /\ MaxSends \in Nat /\ PartialSends \in BOOLEAN

VARIABLES
    iReady,       \* unit -> its scheme was diagnosed
    sent,         \* the packets the forward unit made, in order (history)
    stream,       \* the bytes the system took from the sender and holds
    iPacketSize,  \* the connector's: the size of the packet it is in, or 0
    iMap,         \* the receiver's transactions -> the type they have there
    given,        \* what the processors of the receiver were given (history)
    up,           \* the backward unit is working
    short         \* a send or a receive moved less than it was asked (history)

vars == <<iReady, sent, stream, iPacketSize, iMap, given, up, short>>
-----------------------------------------------------------------------------
Unit == {"forward", "backward"}

(* The units of a processor of type t, of which some hold a value. *)
Holding(t) ==
    {[i \in DOMAIN Units[t] |-> IF i \in filled THEN <<Value[Units[t][i]]>> ELSE <<>>]
        : filled \in SUBSET DOMAIN Units[t]}
Packet(k) == [transaction : {k}, units : Holding(TypeOf[k])]

Init ==
    /\ iReady = [u \in Unit |-> FALSE]
    /\ sent = <<>>
    /\ stream = <<>>
    /\ iPacketSize = 0
    /\ iMap = <<>>
    /\ given = <<>>
    /\ up = TRUE
    /\ short = FALSE
-----------------------------------------------------------------------------
(* The sender's forward unit.                                              *)

(* The buffers of the units. *)
Items(m) ==
    [i \in DOMAIN m.units |-> Save(Units[TypeOf[m.transaction]][i], m.units[i])]

(* Mutant: the size counts the size.                                       *)
MakePacketWhole(m) ==
    LET product == ParseBuffers(Items(m))
    IN  Encode(Len(product) + 3 * Width) \o Encode(TypeOf[m.transaction])
            \o Encode(m.transaction) \o product

(* __makePacket: size, type, transaction, product; the size is that of     *)
(* what follows it.                                                        *)
MakePacket(m) ==
    LET product == ParseBuffers(Items(m))
    IN  Encode(Len(product) + 2 * Width) \o Encode(TypeOf[m.transaction])
            \o Encode(m.transaction) \o product

ASSUME SizesFit ==
    \A k \in Transaction : \A m \in Packet(k) : Len(MakePacket(m)) <= IntMax

(* The first iteration of LinearScheme::propagate finds it not ready. *)
Diagnose(u) ==
    /\ ~iReady[u]
    /\ iReady' = [iReady EXCEPT ![u] = TRUE]
    /\ UNCHANGED <<sent, stream, iPacketSize, iMap, given, up, short>>

(* generate() makes a packet, IO__CHANNEL::process sends it; the system    *)
(* takes n of its bytes, and the others are forgotten.  A send that fails  *)
(* ends the forward unit, which may stop at any time here.                 *)
Send(m, n) ==
    LET b == MakePacket(m)
    IN  /\ iReady["forward"]
        /\ Len(sent) < MaxSends
        /\ n \in 1..Len(b) /\ (PartialSends \/ n = Len(b))
        /\ sent' = Append(sent, m)
        /\ stream' = stream \o First(b, n)
        /\ short' = (short \/ n < Len(b))
        /\ UNCHANGED <<iReady, iPacketSize, iMap, given, up>>
-----------------------------------------------------------------------------
(* The receiver's backward unit.                                           *)

(* The unit failed or the program crashed: nobody reads any more. *)
Down == up' = FALSE /\ UNCHANGED <<iMap, given>>

Ignore == UNCHANGED <<up, iMap, given>>

(* A processor is given what its content was loaded with. *)
Give(transaction, product, end, items) ==
    /\ given' = Append(given, [transaction |-> transaction, product |-> product,
                               end |-> end, items |-> items])
    /\ UNCHANGED up

(* What the units of a processor of type t have when it gets them. *)
Values(t, items) == [i \in DOMAIN items |-> Get(Units[t][i], items[i])]

(* A unit is read behind its end, of which the program may crash. *)
ReadsBeyond(t, items) ==
    \E i \in DOMAIN items : ~Values(t, items)[i].known

(* AbstractPacketProcessor::action(packet): the answer to a packet that is *)
(* refused is DPN_FAIL, of which process() makes nothing.                  *)
Act(transaction, type, product) ==
    LET content == DeparseBuffer(product, Len(Units[type]))
    IN  /\ iMap' = [k \in DOMAIN iMap \cup {transaction} |->
                       IF k = transaction THEN type ELSE iMap[k]]
        /\ \/ /\ content.end \in {"loaded", "stale"}
              /\ Give(transaction, product, content.end, content.items)
           \/ /\ content.end \in {"refused", "unknown"}
              /\ UNCHANGED <<up, given>>
           \/ /\ \/ content.end \in {"overrun", "unknown"}
                 \/ content.end = "loaded" /\ ReadsBeyond(type, content.items)
              /\ up' = FALSE /\ UNCHANGED given

(* PacketProcessor::process: the type in the header counts for a           *)
(* transaction that is not known, and must have a processor.               *)
Process(b) ==
    IF Len(b) < 2 * Width THEN Down
    ELSE LET type == Unsigned(First(b, Width))
             transaction == Unsigned(SubSeq(b, Width + 1, 2 * Width))
             product == Rest(b, 2 * Width)
         IN  CASE transaction \in DOMAIN iMap ->
                      Act(transaction, iMap[transaction], product)
               [] transaction \notin DOMAIN iMap /\ type \in Type ->
                      Act(transaction, type, product)
               [] transaction \notin DOMAIN iMap /\ type \notin Type -> Down

(* A receive that asks for size bytes and gets n. *)
Receives(size, n) ==
    /\ up /\ iReady["backward"]
    /\ n \in 1..size /\ n <= Len(stream)
    /\ stream' = Rest(stream, n)
    /\ short' = (short \/ n < size)
    /\ UNCHANGED <<iReady, sent>>

(* x_receivePacket outside a packet: it reads the size.  Of a part of it,  *)
(* or a size of zero, IO__CHANNEL::generate makes a packet of no more than *)
(* Width old bytes, at which process() fails.                              *)
ReceiveSize(n) ==
    /\ iPacketSize = 0
    /\ Receives(Width, n)
    /\ IF n < Width
       THEN Down /\ UNCHANGED iPacketSize
       ELSE /\ iPacketSize' = Signed(First(stream, Width))
            /\ IF iPacketSize' > 0 THEN Ignore ELSE Down

(* Mutant: the connector stays inside the packet it has read.              *)
SizeKept(n) == iPacketSize

(* The connector's state after n bytes of the body: it only leaves the     *)
(* packet when all of it came at once.                                     *)
SizeAfter(n) == IF n = iPacketSize THEN 0 ELSE iPacketSize

(* x_receivePacket inside a packet: what came is processed as a packet.    *)
ReceiveBody(n) ==
    /\ iPacketSize > 0
    /\ Receives(iPacketSize, n)
    /\ iPacketSize' = SizeAfter(n)
    /\ Process(First(stream, n))

(* The connection broke: receive returns less than 1. *)
ReceiveFails ==
    /\ up /\ iReady["backward"]
    /\ Down
    /\ UNCHANGED <<iReady, sent, stream, iPacketSize, short>>
-----------------------------------------------------------------------------
Receive == \E n \in 1..Len(stream) : ReceiveSize(n) \/ ReceiveBody(n)

Next ==
    \/ \E u \in Unit : Diagnose(u)
    \/ \E k \in Transaction : \E m \in Packet(k) :
           \E n \in 1..Len(MakePacket(m)) : Send(m, n)
    \/ Receive
    \/ ReceiveFails

Spec == Init /\ [][Next]_vars

(* The units are iterated for ever by their thread core. *)
FairSpec == Spec /\ WF_vars(Diagnose("backward")) /\ WF_vars(Receive)
-----------------------------------------------------------------------------
(* Properties.                                                             *)

(* The values the units of the sender's packets had, and the values the    *)
(* processors of the receiver get.                                         *)
Sent ==
    [i \in DOMAIN sent |->
        LET kinds == Units[TypeOf[sent[i].transaction]]
        IN  [transaction |-> sent[i].transaction,
             values |-> [j \in DOMAIN kinds |-> Meaning(kinds[j], sent[i].units[j])]]]

Received ==
    [i \in DOMAIN given |->
        LET values == Values(iMap[given[i].transaction], given[i].items)
        IN  [transaction |-> given[i].transaction,
             values |-> [j \in DOMAIN values |-> values[j].value]]]

(* The processors of the receiver were given the packets the sender made,  *)
(* each once, complete, in order and with the values that were assigned.   *)
InOrder == IsPrefix(Received, Sent)

(* As long as no send and no receive came short, the processors of the     *)
(* receiver were given the packets in order, and the connector stands      *)
(* between two packets or behind a size: what is in the stream is the rest *)
(* of what was made.  Every unit is read as what was assigned to it, or as *)
(* the value of none if it was cleared.                                    *)
AlignedUnlessShort ==
    ~short =>
        /\ InOrder
        /\ LET ahead == Rest(sent, Len(given))
               rest == FlattenSeq([i \in DOMAIN ahead |-> MakePacket(ahead[i])])
           IN  stream = IF iPacketSize = 0 THEN rest ELSE Rest(rest, Width)

(* Whatever the network did to the stream, a processor that was given      *)
(* anything has all of its items, and they are all of the bytes they came  *)
(* from: a packet that was cut, or read from the wrong place, is never     *)
(* taken for one with fewer items or other sizes.                          *)
WholeOrRefused ==
    \A i \in DOMAIN given :
        given[i].end = "loaded" =>
            /\ Len(given[i].items) = Len(Units[iMap[given[i].transaction]])
            /\ ParseBuffers(given[i].items) = given[i].product

(* As long as the connection holds and nothing comes short, every packet   *)
(* that was made is given to a processor.                                  *)
Delivered ==
    \A k \in 1..MaxSends :
        Len(sent) >= k ~> (Len(given) >= k \/ ~up \/ short)
==============================================================================
