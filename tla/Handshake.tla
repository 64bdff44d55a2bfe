----------------------------- MODULE Handshake -----------------------------
(***************************************************************************)
(* How two peers meet (WaitingConnection and its two subclasses in         *)
(* DPN_Network).  The client center of the outgoing side and that of the   *)
(* incoming side each keep a connection object and call its process() for  *)
(* ever; process() runs an action line whose step is repeated until it     *)
(* succeeds, and a step that fails closes the connection.                  *)
(*                                                                         *)
(* A step that only prepares buffers runs with the step it prepares.  A    *)
(* packet arrives whole or not at all.  One application thread decides.    *)
(*                                                                         *)
(* An incoming connection reaches the center through a queue whose moveTo  *)
(* keeps only the first of those pushed in one round (SafeList, Moved of   *)
(* ClientCenter): when several shared ports have one, the others are lost. *)
(* Two connectTo() of one round lose an outgoing connection the same way,  *)
(* before it did anything: Conn are those the outgoing center has taken.   *)
(***************************************************************************)
EXTENDS Naturals, Sequences

CONSTANTS Conn,        \* the connections, outgoing at one peer, incoming at the other
          Translated,  \* those whose outgoing address the incoming side sees changed
          Port,        \* the ports the incoming peer shares
          AutoAccept   \* those it shares with autoaccept

ASSUME ConnAssumption == Translated \subseteq Conn /\ AutoAccept \subseteq Port

VARIABLES
    link,      \* connection -> "down", "up" or "cut"
    tries,     \* connection -> attempts to connect that failed
    at,        \* connection -> side -> position on its action line
    iState,    \* connection -> side -> "WAIT", "ACCEPT" or "REJECT"
    met,       \* connection -> side -> the name the other side gave, or NoName
    end,       \* connection -> side -> "absent", "lost", "open", "client", "closed" or "leaked"
    wire       \* connection -> side -> the packets on their way to it

vars == <<link, tries, at, iState, met, end, wire>>
-----------------------------------------------------------------------------
Side == {"out", "in"}
Peer(s) == IF s = "out" THEN "in" ELSE "out"

NoName == <<>>
Name(c, s) == IF s = "out" THEN <<"client", c>> ELSE <<"server">>

(* SHA256 is taken to be free of collisions: a hash is what was hashed.     *)
LocalName(c) == "inside"
PeerName(c)  == IF c \in Translated THEN "outside" ELSE "inside"
Hash(address, name) == <<address, name>>

OutLine == <<"connecting", "meetSend", "meetReceive", "waiting",
             "signal", "content", "answer">>
InLine  == <<"meetSend", "meetReceive", "waiting", "signal", "content", "answer">>
Line(s) == IF s = "out" THEN OutLine ELSE InLine

Standing(c, s, step) ==
    /\ end[c][s] = "open"
    /\ at[c][s] <= Len(Line(s))
    /\ Line(s)[at[c][s]] = step

Advance(c, s) == at' = [at EXCEPT ![c][s] = @ + 1]

(* FAIL: the client center closes the connection and deletes the object.    *)
Fault(c, s) == end' = [end EXCEPT ![c][s] = "closed"]

(* Mutant: a connection that failed is deleted without being closed.        *)
BrokenByCut(c, s) == link[c] = "cut"

(* The socket of side s is at the end of its stream or in error.            *)
Broken(c, s) == link[c] = "cut" \/ end[c][Peer(s)] = "closed"

(* x_send.  A packet written after the other side gave up is lost, whether  *)
(* or not the write reports it.                                             *)
Send(c, s, pkt) ==
    \/ /\ Advance(c, s)
       /\ wire' = IF Broken(c, s) THEN wire
                  ELSE [wire EXCEPT ![c][Peer(s)] = Append(@, pkt)]
       /\ UNCHANGED end
    \/ /\ Broken(c, s)
       /\ Fault(c, s)
       /\ UNCHANGED <<at, wire>>

(* readable() and x_receivePacket. *)
Arrived(c, s) == wire[c][s] # <<>>
Packet(c, s)  == Head(wire[c][s])
Receive(c, s) == wire' = [wire EXCEPT ![c][s] = Tail(@)]
-----------------------------------------------------------------------------
Init ==
    /\ link = [c \in Conn |-> "down"]
    /\ tries = [c \in Conn |-> 0]
    /\ at = [c \in Conn |-> [s \in Side |-> 1]]
    /\ iState = [c \in Conn |-> [s \in Side |-> "WAIT"]]
    /\ met = [c \in Conn |-> [s \in Side |-> NoName]]
    /\ end = [c \in Conn |-> [s \in Side |-> IF s = "out" THEN "open" ELSE "absent"]]
    /\ wire = [c \in Conn |-> [s \in Side |-> <<>>]]

(* The outgoing side connects; the second failed attempt is the last.       *)
Connect(c) ==
    /\ Standing(c, "out", "connecting")
    /\ link' = [link EXCEPT ![c] = "up"]
    /\ Advance(c, "out")
    /\ UNCHANGED <<tries, iState, met, end, wire>>

ConnectFails(c) ==
    /\ Standing(c, "out", "connecting")
    /\ tries' = [tries EXCEPT ![c] = @ + 1]
    /\ IF tries[c] # 1 THEN UNCHANGED end ELSE Fault(c, "out")
    /\ UNCHANGED <<link, at, iState, met, wire>>

(* A round of the incoming center: listenPorts() takes at most one new      *)
(* connection of each shared port, accepts it if the port does so by        *)
(* itself, and queues it; of those queued only the first is processed.  A   *)
(* connection may reach any port.                                           *)
Arriving == {c \in Conn : link[c] # "down" /\ end[c]["in"] = "absent"}

Listen(pushed, port, first) ==
    /\ \A c, d \in pushed : port[c] = port[d] => c = d
    /\ end' = [c \in Conn |-> [s \in Side |->
                  IF s = "out" \/ c \notin pushed THEN end[c][s]
                  ELSE IF c = first THEN "open" ELSE "lost"]]
    /\ iState' = [c \in Conn |-> [s \in Side |->
                     IF s = "in" /\ c \in pushed /\ port[c] \in AutoAccept
                     THEN "ACCEPT" ELSE iState[c][s]]]
    /\ UNCHANGED <<link, tries, at, met, wire>>

ListenPorts ==
    \E pushed \in SUBSET Arriving :
        \E port \in [pushed -> Port], first \in pushed : Listen(pushed, port, first)

(* The application's answer, given once and at any time.                    *)
Accept(c) ==
    /\ end[c]["in"] = "open"
    /\ iState[c]["in"] = "WAIT"
    /\ iState' = [iState EXCEPT ![c]["in"] = "ACCEPT"]
    /\ UNCHANGED <<link, tries, at, met, end, wire>>

Reject(c) ==
    /\ end[c]["in"] = "open"
    /\ iState[c]["in"] = "WAIT"
    /\ iState' = [iState EXCEPT ![c]["in"] = "REJECT"]
    /\ UNCHANGED <<link, tries, at, met, end, wire>>

(* Both sides tell their name and keep the name they are told. *)
MeetSend(c, s) ==
    /\ Standing(c, s, "meetSend")
    /\ Send(c, s, [kind |-> "meet", name |-> Name(c, s)])
    /\ UNCHANGED <<link, tries, iState, met>>

MeetReceive(c, s) ==
    /\ Standing(c, s, "meetReceive")
    /\ Arrived(c, s)
    /\ met' = [met EXCEPT ![c][s] = Packet(c, s).name]
    /\ Receive(c, s)
    /\ Advance(c, s)
    /\ UNCHANGED <<link, tries, iState, end>>

(* The outgoing side waits for the first byte of the dialog, ... *)
OutWaiting(c) ==
    /\ Standing(c, "out", "waiting")
    /\ Arrived(c, "out") \/ Broken(c, "out")
    /\ Advance(c, "out")
    /\ UNCHANGED <<link, tries, iState, met, end, wire>>

(* Mutant: any signal will do.                                              *)
OutSignalAny(c) ==
    /\ Standing(c, "out", "signal")
    /\ Arrived(c, "out")
    /\ Receive(c, "out")
    /\ iState' = [iState EXCEPT ![c]["out"] = "ACCEPT"]
    /\ Advance(c, "out")
    /\ UNCHANGED <<link, tries, met, end>>

(* ... compares the signal with the one it expects, ... *)
OutSignal(c) ==
    /\ Standing(c, "out", "signal")
    /\ Arrived(c, "out")
    /\ Receive(c, "out")
    /\ IF Packet(c, "out").hash = Hash(LocalName(c), Name(c, "out"))
       THEN /\ iState' = [iState EXCEPT ![c]["out"] = "ACCEPT"]
            /\ Advance(c, "out")
            /\ UNCHANGED end
       ELSE /\ iState' = [iState EXCEPT ![c]["out"] = "REJECT"]
            /\ Fault(c, "out")
            /\ UNCHANGED at
    /\ UNCHANGED <<link, tries, met>>

(* ... sends its keys and takes the answer. *)
OutContent(c) ==
    /\ Standing(c, "out", "content")
    /\ Send(c, "out", [kind |-> "content"])
    /\ UNCHANGED <<link, tries, iState, met>>

OutAnswer(c) ==
    /\ Standing(c, "out", "answer")
    /\ Arrived(c, "out")
    /\ Receive(c, "out")
    /\ Advance(c, "out")
    /\ UNCHANGED <<link, tries, iState, met, end>>

(* Mutant: the incoming side does not wait for the decision.                *)
InWaitingUnasked(c) ==
    /\ Standing(c, "in", "waiting")
    /\ Advance(c, "in")
    /\ UNCHANGED <<link, tries, iState, met, end, wire>>

(* The incoming side waits for the decision.  When it is REJECT the step    *)
(* succeeds, but without a dialog line the next one fails.                  *)
InWaiting(c) ==
    /\ Standing(c, "in", "waiting")
    /\ iState[c]["in"] # "WAIT"
    /\ IF iState[c]["in"] = "ACCEPT" THEN Advance(c, "in") /\ UNCHANGED end
                                     ELSE Fault(c, "in") /\ UNCHANGED at
    /\ UNCHANGED <<link, tries, iState, met, wire>>

(* Mutant: the signal is made of the name of the wrong side.                *)
InSignalOwnName(c) ==
    /\ Standing(c, "in", "signal")
    /\ Send(c, "in", [kind |-> "signal", hash |-> Hash(PeerName(c), Name(c, "in"))])
    /\ UNCHANGED <<link, tries, iState, met>>

InSignal(c) ==
    /\ Standing(c, "in", "signal")
    /\ Send(c, "in", [kind |-> "signal", hash |-> Hash(PeerName(c), met[c]["in"])])
    /\ UNCHANGED <<link, tries, iState, met>>

(* Mutant: the answer is made before the content arrived.                   *)
InContentUnread(c) ==
    /\ Standing(c, "in", "content")
    /\ Advance(c, "in")
    /\ UNCHANGED <<link, tries, iState, met, end, wire>>

InContent(c) ==
    /\ Standing(c, "in", "content")
    /\ Arrived(c, "in")
    /\ Receive(c, "in")
    /\ Advance(c, "in")
    /\ UNCHANGED <<link, tries, iState, met, end>>

InAnswer(c) ==
    /\ Standing(c, "in", "answer")
    /\ Send(c, "in", [kind |-> "answer"])
    /\ UNCHANGED <<link, tries, iState, met>>

(* A read at the end of the stream fails; what was on its way may be lost.  *)
Reads(s) == IF s = "out" THEN {"meetReceive", "signal", "answer"}
                         ELSE {"meetReceive", "content"}

ReadFails(c, s) ==
    /\ \E step \in Reads(s) : Standing(c, s, step)
    /\ Broken(c, s)
    /\ Fault(c, s)
    /\ UNCHANGED <<link, tries, at, iState, met, wire>>

(* The line is over: an accepted connection becomes a client; any other is  *)
(* deleted with its connector still open.                                   *)
Finish(c, s) ==
    /\ end[c][s] = "open"
    /\ at[c][s] = Len(Line(s)) + 1
    /\ end' = [end EXCEPT ![c][s] =
                   IF iState[c][s] = "ACCEPT" THEN "client" ELSE "leaked"]
    /\ UNCHANGED <<link, tries, at, iState, met, wire>>

(* The network: the connection is reset, with what it carries or without.   *)
Cut(c) ==
    /\ link[c] = "up"
    /\ link' = [link EXCEPT ![c] = "cut"]
    /\ UNCHANGED <<tries, at, iState, met, end, wire>>

Process(c, s) ==
    \/ MeetSend(c, s)
    \/ MeetReceive(c, s)
    \/ ReadFails(c, s)
    \/ Finish(c, s)

OutStep(c) ==
    \/ Connect(c)
    \/ ConnectFails(c)
    \/ OutWaiting(c)
    \/ OutSignal(c)
    \/ OutContent(c)
    \/ OutAnswer(c)
    \/ Process(c, "out")

InStep(c) ==
    \/ InWaiting(c)
    \/ InSignal(c)
    \/ InContent(c)
    \/ InAnswer(c)
    \/ Process(c, "in")

Next == \/ ListenPorts
        \/ \E c \in Conn : OutStep(c) \/ InStep(c) \/ Accept(c) \/ Reject(c) \/ Cut(c)

Spec == Init /\ [][Next]_vars

(* Both client centers are iterated for ever by a thread of their peer; the *)
(* application and the network owe nothing.                                 *)
FairSpec ==
    /\ Spec
    /\ WF_vars(ListenPorts)
    /\ \A c \in Conn : WF_vars(OutStep(c)) /\ WF_vars(InStep(c))
-----------------------------------------------------------------------------
(* Properties.                                                             *)

Packets == [kind : {"meet"}, name : {Name(c, s) : c \in Conn, s \in Side}]
           \cup [kind : {"signal"}, hash : {"inside", "outside"} \X {Name(c, "out") : c \in Conn}]
           \cup [kind : {"content", "answer"}]

(* Every variable keeps its type; in particular the incoming side signs     *)
(* with a name it was really given.                                         *)
TypeOK ==
    /\ link \in [Conn -> {"down", "up", "cut"}]
    /\ tries \in [Conn -> 0..2]
    /\ at \in [Conn -> [Side -> 1..8]]
    /\ \A c \in Conn, s \in Side : at[c][s] <= Len(Line(s)) + 1
    /\ iState \in [Conn -> [Side -> {"WAIT", "ACCEPT", "REJECT"}]]
    /\ met \in [Conn -> [Side -> {Name(c, s) : c \in Conn, s \in Side} \cup {NoName}]]
    /\ end \in [Conn -> [Side -> {"absent", "lost", "open", "client", "closed", "leaked"}]]
    /\ wire \in [Conn -> [Side -> Seq(Packets)]]

(* A connection object is never deleted with its connector neither closed   *)
(* nor handed to a client.  (One that the queue lost is never deleted.)     *)
NothingLeaked == \A c \in Conn, s \in Side : end[c][s] # "leaked"

(* An outgoing side that became a client met a peer that accepted it, knew  *)
(* its name, saw its address unchanged, and has not withdrawn.              *)
Mutual ==
    \A c \in Conn :
        end[c]["out"] = "client" =>
            /\ iState[c]["in"] = "ACCEPT"
            /\ met[c]["in"] = Name(c, "out") /\ met[c]["out"] = Name(c, "in")
            /\ c \notin Translated
            /\ end[c]["in"] \in {"open", "client"} /\ at[c]["in"] > Len(InLine)

(* The incoming side runs the connection, or will: its queue did not lose   *)
(* it.  A lost one may be accepted too, by its port, and stays as it is.    *)
Processed(c) == end[c]["in"] # "lost"

(* The dialog, its decision and its results follow HandshakeContract.       *)
Said(c) == IF at[c]["in"] > 6 THEN 3 ELSE
           IF at[c]["out"] > 6 THEN 2 ELSE
           IF at[c]["in"] > 4 THEN 1 ELSE 0
Decision(c) == IF Processed(c) THEN iState[c]["in"] ELSE "WAIT"
Result(c, s) == IF end[c][s] \in {"absent", "lost"} THEN "open" ELSE end[c][s]

Contract == INSTANCE HandshakeContract WITH
    decision <- [c \in Conn |-> Decision(c)],
    said     <- [c \in Conn |-> Said(c)],
    result   <- [c \in Conn |-> [s \in Side |-> Result(c, s)]]
ContractSpec == Contract!Spec

(* Once the incoming side has decided on a connection that it processes,    *)
(* both sides come to an end: nobody is left waiting for the other.         *)
Ended(c) == \A s \in Side : end[c][s] \notin {"absent", "open"}
Settles == \A c \in Conn : Decision(c) # "WAIT" ~> Ended(c)

(* An accepted connection that the incoming side processes and whose        *)
(* address is not translated makes a client at both peers, unless the       *)
(* network cuts it.                                                         *)
AcceptedJoins ==
    \A c \in Conn \ Translated :
        Decision(c) = "ACCEPT" ~> link[c] = "cut" \/ \A s \in Side : end[c][s] = "client"
=============================================================================
