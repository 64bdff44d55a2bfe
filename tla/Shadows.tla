------------------------------- MODULE Shadows -------------------------------
(***************************************************************************)
(* Shadow channels between the two ends of a client connection, and the    *)
(* modules they are reserved for (MakeShadow and ReserveChannel of         *)
(* DPN_Processors, the UDP ports of DPN_NodeConnector, the interfaces of   *)
(* DPN_Channel).                                                           *)
(*                                                                         *)
(* MakeShadow is a line of five steps, HOST and SERVER in turn: each side  *)
(* binds a UDP port of its pool, tells the other its number and connects.  *)
(* ReserveChannel is a HOST step and a SERVER step: each side lends a      *)
(* direction of a channel to a module.  The transaction that carries the   *)
(* steps is the one of Transactions, reduced to what these steps see of    *)
(* it: packets in order, a failure told to the other side by a packet      *)
(* marked as failed, the failure of the last step told to nobody.          *)
(*                                                                         *)
(* The forward unit runs the first step of a line, the backward unit every *)
(* other one and then queues the answer, which is a step of its own: what  *)
(* the step did is there for the application to see before the answer is   *)
(* on its way.  A step of ReserveChannel holds an interface that both      *)
(* units want, and is split where it takes it and gives it back.  The two  *)
(* peers run on machines of their own.                                     *)
(***************************************************************************)
EXTENDS Integers, Sequences, FiniteSetsExt

CONSTANTS Port,      \* Port[p] : the UDP ports of p's pool that p can bind
          Shadow,    \* bound: the MakeShadow transactions
          Reserve,   \* bound: the ReserveChannel transactions
          Users,     \* bound: the users a reservation may name
          Nothing    \* a model value

Peer == {"initiator", "acceptor"}
Direction == {"FORWARD", "BACKWARD"}

ASSUME PortAssumption ==
    \A p \in Peer : IsFiniteSet(Port[p]) /\ Port[p] \subseteq Nat \ {0}
ASSUME UsersAssumption == Users \subseteq SUBSET Direction

VARIABLES
    bound,       \* peer -> the ports its sockets are bound to
    channels,    \* peer -> aShadowChannels
    wire,        \* peer -> the packets it wrote that the other has not read
    reply,       \* peer -> the answer its backward unit is about to queue, or Nothing
    owner,       \* shadow -> the peer that hosts the transaction, or Nothing
    iType,       \* shadow -> the type asked for
    pPort,       \* shadow -> the port of the host's processor object, or 0
    at,          \* shadow -> side -> how far the line went there
    job,         \* peer -> unit -> the step of ReserveChannel it runs
    wChannel,    \* reserve -> the host and the shadow it reserves, or Nothing
    uses         \* what the modules of servers were given (history)

making == <<bound, channels, owner, iType, pPort, at>>
vars == <<making, wire, reply, job, wChannel, uses>>
-----------------------------------------------------------------------------
Side == {"HOST", "SERVER"}
Unit == {"forward", "backward"}
Type == {"UDP", "TCP"}

AnyPort == Port["initiator"] \cup Port["acceptor"]

Other(p) == IF p = "initiator" THEN "acceptor" ELSE "initiator"
Role(p, t) == IF owner[t] = p THEN "HOST" ELSE "SERVER"

(* A channel on the port of its socket, connected to the port peer.  Its   *)
(* key is the same string for every shadow and is left out.                *)
Channel == [of : Shadow, port : AnyPort, peer : AnyPort]

(* UNIT_PORT is 0 until the host sets it. *)
ShadowPacket == [shadow : Shadow, port : AnyPort \cup {0}, failed : BOOLEAN]
ReservePacket == [reserve : Reserve, users : Users]
IsShadow(pkt) == "shadow" \in DOMAIN pkt

Step == {"none", "asked", "agreed", "offered", "open", "closed", "fault"}

(* of: the channel the step works on; todo: the directions still to lend;  *)
(* lent: the direction whose interface is out, "bad" for an empty one.     *)
Job == [reserve : Reserve, of : Shadow \cup {Nothing}, users : SUBSET Direction,
        todo : SUBSET Direction, lent : Direction \cup {"no", "bad"}]
Use == [reserve : Reserve, of : Shadow \cup {Nothing}]

(* A channel that a host has picked.                                       *)
Picked == [host : Peer, of : Shadow]

ASSUME NothingAssumption ==
    /\ Nothing \notin Shadow \cup Reserve \cup Peer
    /\ Nothing \notin ShadowPacket \cup Job \cup Picked

Init ==
    /\ bound = [p \in Peer |-> {}]
    /\ channels = [p \in Peer |-> <<>>]
    /\ wire = [p \in Peer |-> <<>>]
    /\ reply = [p \in Peer |-> Nothing]
    /\ owner = [t \in Shadow |-> Nothing]
    /\ iType = [t \in Shadow |-> "TCP"]
    /\ pPort = [t \in Shadow |-> 0]
    /\ at = [t \in Shadow |-> [s \in Side |-> "none"]]
    /\ job = [p \in Peer |-> [u \in Unit |-> Nothing]]
    /\ wChannel = [r \in Reserve |-> Nothing]
    /\ uses = {}
-----------------------------------------------------------------------------
(* Packets.                                                                *)

Idle(p, u) == job[p][u] = Nothing

(* p's backward unit is about to read pkt, the next packet of the other.   *)
Reads(p, pkt) ==
    /\ Idle(p, "backward") /\ reply[p] = Nothing
    /\ wire[Other(p)] # <<>> /\ pkt = Head(wire[Other(p)])

ReadNext(p) == wire' = [wire EXCEPT ![Other(p)] = Tail(@)]
Answer(p, pkt) == ReadNext(p) /\ reply' = [reply EXCEPT ![p] = pkt]

(* __resend: the packets of the two units share a queue and the wire.      *)
Resend(p) ==
    /\ reply[p] # Nothing
    /\ wire' = [wire EXCEPT ![p] = Append(@, reply[p])]
    /\ reply' = [reply EXCEPT ![p] = Nothing]
    /\ UNCHANGED <<making, job, wChannel, uses>>

Reach(t, side, step) == at' = [at EXCEPT ![t][side] = step]

(* A step of MakeShadow other than the first, run by p for transaction t   *)
(* that had got to a given point on its side.                              *)
Reacts(p, pkt, t, side, step) ==
    /\ Reads(p, pkt)
    /\ IsShadow(pkt) /\ ~pkt.failed /\ pkt.shadow = t
    /\ Role(p, t) = side
    /\ at[t][side] = step
    /\ UNCHANGED <<owner, iType, job, wChannel, uses>>

(* Mutant: the failed step is not answered.                                *)
FailStepSilently(p, pkt, t, side) ==
    Reach(t, side, "fault") /\ ReadNext(p) /\ UNCHANGED reply

(* A step that fails before the last tells the other side. *)
FailStep(p, pkt, t, side) ==
    /\ Reach(t, side, "fault")
    /\ Answer(p, [pkt EXCEPT !.failed = TRUE])
-----------------------------------------------------------------------------
(* The pool of UDP ports.                                                  *)

FreePorts(p) == Port[p] \ bound[p]

(* The first port of the pool that can be bound. __bound is not looked at. *)
OpenPort(p) == Min(FreePorts(p))

(* Mutant: a failed connection leaves its port bound.                      *)
ClosePortLate(p, port) == UNCHANGED bound

ClosePort(p, port) == bound' = [bound EXCEPT ![p] = @ \ {port}]

(* Mutant: the socket is connected to the number of its own port.          *)
AddSelfConnected(p, t, port, peer) ==
    channels' = [channels EXCEPT ![p] =
                    Append(@, [of |-> t, port |-> port, peer |-> port])]

AddShadowConnection(p, t, port, peer) ==
    channels' = [channels EXCEPT ![p] =
                    Append(@, [of |-> t, port |-> port, peer |-> peer])]
-----------------------------------------------------------------------------
(* MakeShadow.                                                             *)

(* makeShadowConnection() and requestShadow(HOST). *)
RequestShadow(p, t, type) ==
    /\ Idle(p, "forward")
    /\ owner[t] = Nothing
    /\ owner' = [owner EXCEPT ![t] = p]
    /\ iType' = [iType EXCEPT ![t] = type]
    /\ Reach(t, "HOST", "asked")
    /\ wire' = [wire EXCEPT ![p] =
                   Append(@, [shadow |-> t, port |-> 0, failed |-> FALSE])]
    /\ UNCHANGED <<bound, channels, pPort, reply, job, wChannel, uses>>

(* processShadow(SERVER): isShadowAvailable() always answers true.         *)
ProcessShadow(p, pkt, t) ==
    /\ Reacts(p, pkt, t, "SERVER", "none")
    /\ Reach(t, "SERVER", "agreed")
    /\ Answer(p, pkt)
    /\ UNCHANGED <<bound, channels, pPort>>

(* makeShadow(HOST). *)
OfferPort(p, pkt, t) ==
    /\ Reacts(p, pkt, t, "HOST", "asked")
    /\ UNCHANGED channels
    /\ \/ /\ iType[t] = "TCP"
          /\ Reach(t, "HOST", "offered")
          /\ Answer(p, pkt)
          /\ UNCHANGED <<bound, pPort>>
       \/ /\ iType[t] = "UDP" /\ FreePorts(p) # {}
          /\ bound' = [bound EXCEPT ![p] = @ \cup {OpenPort(p)}]
          /\ pPort' = [pPort EXCEPT ![t] = OpenPort(p)]
          /\ Reach(t, "HOST", "offered")
          /\ Answer(p, [pkt EXCEPT !.port = OpenPort(p)])
       \/ /\ iType[t] = "UDP" /\ FreePorts(p) = {}
          /\ FailStep(p, pkt, t, "HOST")
          /\ UNCHANGED <<bound, pPort>>

(* Mutant: the server opens its port and forgets the channel.              *)
OpenShadowUnlisted(p, pkt, t) ==
    /\ Reacts(p, pkt, t, "SERVER", "agreed")
    /\ iType[t] = "UDP" /\ FreePorts(p) # {}
    /\ bound' = [bound EXCEPT ![p] = @ \cup {OpenPort(p)}]
    /\ Reach(t, "SERVER", "open")
    /\ Answer(p, [pkt EXCEPT !.port = OpenPort(p)])
    /\ UNCHANGED <<channels, pPort>>

(* makeShadow(SERVER). The socket connects or does not, which the address  *)
(* it is given and the system decide; registerShadow() does nothing.       *)
OpenShadow(p, pkt, t) ==
    /\ Reacts(p, pkt, t, "SERVER", "agreed")
    /\ UNCHANGED pPort
    /\ \/ /\ iType[t] = "TCP"
          /\ Reach(t, "SERVER", "open")
          /\ Answer(p, pkt)
          /\ UNCHANGED <<bound, channels>>
       \/ /\ iType[t] = "UDP" /\ FreePorts(p) # {}
          /\ bound' = [bound EXCEPT ![p] = @ \cup {OpenPort(p)}]
          /\ AddShadowConnection(p, t, OpenPort(p), pkt.port)
          /\ Reach(t, "SERVER", "open")
          /\ Answer(p, [pkt EXCEPT !.port = OpenPort(p)])
       \/ /\ iType[t] = "UDP"     \* no free port, or opened, not connected, closed
          /\ FailStep(p, pkt, t, "SERVER")
          /\ UNCHANGED <<bound, channels>>

(* connect(HOST), the last step: its failure is taken for a success.       *)
ConnectShadow(p, pkt, t) ==
    /\ Reacts(p, pkt, t, "HOST", "offered")
    /\ ReadNext(p)
    /\ UNCHANGED <<pPort, reply>>
    /\ \/ /\ iType[t] = "TCP"
          /\ Reach(t, "HOST", "open")
          /\ UNCHANGED <<bound, channels>>
       \/ /\ iType[t] = "UDP"
          /\ AddShadowConnection(p, t, pPort[t], pkt.port)
          /\ Reach(t, "HOST", "open")
          /\ UNCHANGED bound
       \/ /\ iType[t] = "UDP"
          /\ ClosePort(p, pPort[t])
          /\ Reach(t, "HOST", "closed")
          /\ UNCHANGED channels

(* fault(HOST) and fault(SERVER) of a step that failed on the other side:  *)
(* they log, and the port the host may have bound stays bound.             *)
FaultShadow(p, pkt, t) ==
    /\ Reads(p, pkt)
    /\ IsShadow(pkt) /\ pkt.failed /\ pkt.shadow = t
    /\ Reach(t, Role(p, t), "fault")
    /\ ReadNext(p)
    /\ UNCHANGED <<bound, channels, owner, iType, pPort, reply, job, wChannel, uses>>
-----------------------------------------------------------------------------
(* ReserveChannel.                                                         *)

Opposite(d) == IF d = "FORWARD" THEN "BACKWARD" ELSE "FORWARD"

(* The forward user comes first. *)
NextUser(todo) == IF "FORWARD" \in todo THEN "FORWARD" ELSE "BACKWARD"

(* channel(key): the first with the key, which all of them have; a new     *)
(* channel without a connection if there is none.                          *)
Lookup(p) == IF channels[p] = <<>> THEN Nothing ELSE channels[p][1].of

(* Mutant: an interface is lent whoever holds it.                          *)
AvailableAlways(p, t, d) == TRUE

(* takeMappedInterface: the interface that the channel keeps of direction  *)
(* d is unique, no other copy of it is out.                                *)
Available(p, t, d) ==
    \A u \in Unit : ~Idle(p, u) => ~(job[p][u].of = t /\ job[p][u].lent = d)

SetJob(p, u, j) == job' = [job EXCEPT ![p][u] = j]

(* hostRequest(HOST) begins: the application picked the i-th channel.      *)
HostRequest(p, r, i, users) ==
    /\ Idle(p, "forward")
    /\ wChannel[r] = Nothing
    /\ wChannel' = [wChannel EXCEPT ![r] = [host |-> p, of |-> channels[p][i].of]]
    /\ SetJob(p, "forward", [reserve |-> r, of |-> channels[p][i].of,
                             users |-> users, todo |-> users, lent |-> "no"])
    /\ UNCHANGED <<making, wire, reply, uses>>

(* serverProcess(SERVER) begins. Without users it fails at once; as the    *)
(* last step of the line, nobody is told.                                  *)
ServerProcess(p, pkt) ==
    /\ Reads(p, pkt)
    /\ ~IsShadow(pkt)
    /\ ReadNext(p)
    /\ IF pkt.users = {}
       THEN UNCHANGED job
       ELSE LET theirs == {Opposite(d) : d \in pkt.users}
            IN  SetJob(p, "backward", [reserve |-> pkt.reserve, of |-> Lookup(p),
                                       users |-> theirs, todo |-> theirs, lent |-> "no"])
    /\ UNCHANGED <<making, reply, wChannel, uses>>

(* getMonoIf, and useChannel is called with what it gave. *)
Lend(p, u) ==
    /\ ~Idle(p, u)
    /\ LET j == job[p][u]
           d == NextUser(j.todo)
           got == IF j.of = Nothing \/ Available(p, j.of, d) THEN d ELSE "bad"
       IN  /\ j.todo # {} /\ j.lent = "no"
           /\ SetJob(p, u, [j EXCEPT !.lent = got])
           /\ uses' = IF u = "forward" THEN uses
                      ELSE uses \cup {[reserve |-> j.reserve, of |-> j.of]}
    /\ UNCHANGED <<making, wire, reply, wChannel>>

(* useChannel returned and the interface is gone. None of the modules      *)
(* returns a value: any comes back.  The host ignores a refusal, the       *)
(* server stops at it.                                                     *)
GiveBack(p, u) ==
    /\ ~Idle(p, u)
    /\ LET j == job[p][u]
           rest == j.todo \ {NextUser(j.todo)}
       IN  /\ j.lent # "no"
           /\ \/ SetJob(p, u, [j EXCEPT !.lent = "no", !.todo = rest])
              \/ /\ u = "backward"
                 /\ SetJob(p, u, [j EXCEPT !.lent = "no", !.todo = {}])
    /\ UNCHANGED <<making, wire, reply, wChannel, uses>>

(* The server has no module with the name the host sent. *)
UnknownModule(p) ==
    /\ ~Idle(p, "backward")
    /\ job[p]["backward"].todo # {} /\ job[p]["backward"].lent = "no"
    /\ SetJob(p, "backward", [job[p]["backward"] EXCEPT !.todo = {}])
    /\ UNCHANGED <<making, wire, reply, wChannel, uses>>

(* The step is over: the host's packet leaves, the server has no answer.   *)
EndStep(p, u) ==
    /\ ~Idle(p, u)
    /\ job[p][u].todo = {}
    /\ SetJob(p, u, Nothing)
    /\ IF u = "forward"
       THEN wire' = [wire EXCEPT ![p] =
                Append(@, [reserve |-> job[p][u].reserve, users |-> job[p][u].users])]
       ELSE UNCHANGED wire
    /\ UNCHANGED <<making, reply, wChannel, uses>>
-----------------------------------------------------------------------------
Process(p) ==
    /\ wire[Other(p)] # <<>>
    /\ LET pkt == Head(wire[Other(p)])
       IN  \/ \E t \in Shadow : \/ ProcessShadow(p, pkt, t)
                                \/ OfferPort(p, pkt, t)
                                \/ OpenShadow(p, pkt, t)
                                \/ ConnectShadow(p, pkt, t)
                                \/ FaultShadow(p, pkt, t)
           \/ ServerProcess(p, pkt)

Continue(p, u) == Lend(p, u) \/ GiveBack(p, u) \/ EndStep(p, u)

Next ==
    \E p \in Peer :
        \/ \E t \in Shadow, type \in Type : RequestShadow(p, t, type)
        \/ \E r \in Reserve, users \in Users :
              \E i \in 1..Len(channels[p]) : HostRequest(p, r, i, users)
        \/ Process(p)
        \/ Resend(p)
        \/ \E u \in Unit : Continue(p, u)
        \/ UnknownModule(p)

(* The thread cores go round their units for ever: a unit that has         *)
(* something to do does it in the end.                                     *)
Fairness ==
    \A p \in Peer :
        /\ WF_vars(Process(p)) /\ WF_vars(Resend(p))
        /\ \A u \in Unit : WF_vars(Continue(p, u))

Spec == Init /\ [][Next]_vars
FairSpec == Spec /\ Fairness
-----------------------------------------------------------------------------
TypeOK ==
    /\ bound \in [Peer -> SUBSET AnyPort]
    /\ channels \in [Peer -> Seq(Channel)]
    /\ wire \in [Peer -> Seq(ShadowPacket \cup ReservePacket)]
    /\ reply \in [Peer -> ShadowPacket \cup {Nothing}]
    /\ owner \in [Shadow -> Peer \cup {Nothing}]
    /\ iType \in [Shadow -> Type]
    /\ pPort \in [Shadow -> AnyPort \cup {0}]
    /\ at \in [Shadow -> [Side -> Step]]
    /\ job \in [Peer -> [Unit -> Job \cup {Nothing}]]
    /\ wChannel \in [Reserve -> Picked \cup {Nothing}]
    /\ uses \in SUBSET Use

(* The ports that channels of p hold, and those that only the processor    *)
(* object of a transaction holds: one under way, or one the server failed. *)
ChannelPorts(p) == {channels[p][i].port : i \in DOMAIN channels[p]}
ObjectPorts(p) ==
    {pPort[t] : t \in {x \in Shadow : /\ owner[x] = p /\ pPort[x] # 0
                                      /\ at[x]["HOST"] \in {"offered", "fault"}}}

(* Every bound port has one holder: it is on the socket of one channel, or *)
(* of one MakeShadow that is under way or that the server failed.          *)
PortsAccounted ==
    \A p \in Peer :
        /\ bound[p] = ChannelPorts(p) \cup ObjectPorts(p)
        /\ ChannelPorts(p) \cap ObjectPorts(p) = {}
        /\ \A i, j \in DOMAIN channels[p] :
              channels[p][i].port = channels[p][j].port => i = j

(* A shadow channel on the host's side has its counterpart on the server's *)
(* side, and each is connected to the port of the other: whoever fails,    *)
(* and however the transactions of the two peers cross.                    *)
HostHasPeer ==
    \A p \in Peer : \A i \in DOMAIN channels[p] :
        LET c == channels[p][i]
        IN  owner[c.of] = p =>
                \E j \in DOMAIN channels[Other(p)] :
                    channels[Other(p)][j] =
                        [of |-> c.of, port |-> c.peer, peer |-> c.port]

(* The host of a shadow can reserve it as soon as it has it: the server's  *)
(* module is never given a channel without a socket, made for the lack of  *)
(* one.  (The server of a shadow has its channel before the host has, and  *)
(* when the host has not: a reservation of its own may come too early.)    *)
HostReserveLands ==
    \A use \in uses :
        use.of = Nothing =>
            LET c == wChannel[use.reserve] IN owner[c.of] # c.host

(* The two units of a client never hold an interface of the same direction *)
(* of the same channel.                                                    *)
OneHolder ==
    \A p \in Peer :
        (~Idle(p, "forward") /\ ~Idle(p, "backward")) =>
            LET f == job[p]["forward"]
                b == job[p]["backward"]
            IN  f.of = b.of /\ f.lent \in Direction => b.lent # f.lent

(* A request for a shadow ends on the host with a channel, or without one. *)
Settles ==
    \A t \in Shadow :
        owner[t] # Nothing ~> at[t]["HOST"] \in {"open", "closed", "fault"}
==============================================================================
