----------------------------- MODULE ClientCenter -----------------------------
(***************************************************************************)
(* The client center between the application and a thread core             *)
(* (__client_center__ in DPN_Network).  work() runs on a core, again and   *)
(* again: it opens the shared ports and takes one connection of each, then *)
(* processes the incoming and the outgoing connections that are not        *)
(* clients yet.  The application shares ports, connects and accepts all    *)
(* from a thread of its own, between any two steps of work().              *)
(*                                                                         *)
(* What comes in goes through a queue: a list that other threads push to   *)
(* and an array that work() moves the list to.  The arrays have no lock;   *)
(* one access to them is a step here.  How a connection is processed is    *)
(* left to Handshake, what becomes of a client to ClientLifecycle.  The     *)
(* loops (FOR_VALUE, a macro of an external library) compare their index   *)
(* with the size of the array anew each time, as removing in them needs.   *)
(***************************************************************************)
EXTENDS Naturals, Sequences, FiniteSets, SequencesExt

CONSTANTS Port,         \* the ports the application shares
          AutoAccept,   \* those it shares with autoaccept
          Incoming,     \* the connections of remote peers
          Outgoing,     \* the connections of connectTo
          MaxShares,    \* bound: calls of sharePort that push
          MaxFailures   \* bound: connections that are gone when they are accepted

ASSUME KindAssumption == Incoming \cap Outgoing = {} /\ AutoAccept \subseteq Port

VARIABLES
    pendingPorts, \* aSharedPorts.iInput: the ports pushed
    ports,        \* aSharedPorts.iOutput: the shared ports
    backlog,      \* port -> the connections the system has for it
    pending,      \* queue -> iInput
    output,       \* queue -> iOutput
    iState,       \* incoming connection -> "WAIT" or "ACCEPT"
    object,       \* connection -> "none", "live" or "deleted"
    pc, pos,      \* the step of work() and the index of its loop
    app,          \* what the application's thread does
    shares, failures,
    visits,       \* the connections processed in the loop that runs (history)
    before,       \* those in the array when it began (history)
    crashed

centers == <<ports, pc, pos, visits, before>>
queues  == <<pending, output, iState, object>>
vars    == <<pendingPorts, backlog, centers, queues, app, shares, failures, crashed>>
-----------------------------------------------------------------------------
Conn == Incoming \cup Outgoing
Queue == {"aIncs", "aOuts"}
Kind(q) == IF q = "aIncs" THEN Incoming ELSE Outgoing

(* The application's thread is outside; or in sharePort, having found that  *)
(* a port is not shared; or in acceptAll at an index, which it has tested   *)
(* or not, with the connection it read there, those it should find          *)
(* (history) and how many of them were deleted and not removed yet, or      *)
(* ended since (history).                                                   *)
Outside == [at |-> "outside"]
Sharing(p) == [at |-> "share", port |-> p]
NoConn == "none"
Accepting(i) ==
    [at |-> "acceptAll", i |-> i, tested |-> FALSE, read |-> NoConn,
     all |-> ToSet(output["aIncs"]),
     ended |-> IF pc = <<"aIncs", "remove">> THEN 1 ELSE 0]

Shared(p) == \E i \in DOMAIN ports : ports[i].port = p
Open(p)   == \E i \in DOMAIN ports : ports[i].port = p /\ ports[i].iOpened

(* _ThreadSafeQueue::accept: of the pending elements the first is moved to  *)
(* the array, the others are lost.                                          *)
Moved(in, out) == IF in = <<>> THEN out ELSE Append(out, in[1])

Goto(label, i) == pc' = label /\ pos' = i

Init ==
    /\ pendingPorts = <<>> /\ ports = <<>>
    /\ backlog = [p \in Port |-> <<>>]
    /\ pending = [q \in Queue |-> <<>>] /\ output = [q \in Queue |-> <<>>]
    /\ iState = [c \in Incoming |-> "WAIT"] /\ object = [c \in Conn |-> "none"]
    /\ pc = <<"ports", "accept">> /\ pos = 1
    /\ app = Outside
    /\ shares = 0 /\ failures = 0
    /\ visits = <<>> /\ before = {}
    /\ crashed = FALSE
-----------------------------------------------------------------------------
(* The application.                                                        *)

(* sharePort looks for the port in the array only ...                       *)
SharePort(p) ==
    /\ app = Outside
    /\ shares < MaxShares
    /\ ~Shared(p)
    /\ app' = Sharing(p)
    /\ shares' = shares + 1
    /\ UNCHANGED <<pendingPorts, backlog, centers, queues, failures, crashed>>

(* ... and pushes it, if need be for the second time.                       *)
PushPort ==
    /\ app.at = "share"
    /\ pendingPorts' = Append(pendingPorts, app.port)
    /\ app' = Outside
    /\ UNCHANGED <<backlog, centers, queues, shares, failures, crashed>>

ConnectTo(c) ==
    /\ app = Outside
    /\ object[c] = "none"
    /\ object' = [object EXCEPT ![c] = "live"]
    /\ pending' = [pending EXCEPT !["aOuts"] = Append(@, c)]
    /\ UNCHANGED <<pendingPorts, backlog, centers, output, iState, app, shares, failures, crashed>>

(* Mutant: acceptAll counts from one.                                       *)
AcceptAllFromSecond ==
    /\ app = Outside
    /\ output["aIncs"] # <<>>
    /\ app' = Accepting(2)
    /\ UNCHANGED <<pendingPorts, backlog, centers, queues, shares, failures, crashed>>

AcceptAll ==
    /\ app = Outside
    /\ output["aIncs"] # <<>>
    /\ app' = Accepting(1)
    /\ UNCHANGED <<pendingPorts, backlog, centers, queues, shares, failures, crashed>>

(* The index is found to be less than the size of the array, ...            *)
TestNext ==
    /\ app.at = "acceptAll" /\ app.read = NoConn /\ ~app.tested
    /\ app.i <= Len(output["aIncs"])
    /\ app' = [app EXCEPT !.tested = TRUE]
    /\ UNCHANGED <<pendingPorts, backlog, centers, queues, shares, failures, crashed>>

(* ... the pointer at the index is read, be there an element still or not,  *)
ReadNext ==
    /\ app.at = "acceptAll" /\ app.tested
    /\ IF app.i <= Len(output["aIncs"])
       THEN /\ app' = [app EXCEPT !.tested = FALSE, !.read = output["aIncs"][app.i]]
            /\ UNCHANGED crashed
       ELSE crashed' = TRUE /\ UNCHANGED app
    /\ UNCHANGED <<pendingPorts, backlog, centers, queues, shares, failures>>

(* ... and accept() called through it, on an object that may be deleted.    *)
CallAccept ==
    /\ app.at = "acceptAll" /\ app.read # NoConn
    /\ IF object[app.read] = "live"
       THEN iState' = [iState EXCEPT ![app.read] = "ACCEPT"] /\ UNCHANGED crashed
       ELSE crashed' = TRUE /\ UNCHANGED iState
    /\ app' = [app EXCEPT !.read = NoConn, !.i = @ + 1]
    /\ UNCHANGED <<pendingPorts, backlog, centers, pending, output, object, shares, failures>>

AcceptAllEnds ==
    /\ app.at = "acceptAll" /\ app.read = NoConn /\ ~app.tested
    /\ app.i > Len(output["aIncs"])
    /\ app' = Outside
    /\ UNCHANGED <<pendingPorts, backlog, centers, queues, shares, failures, crashed>>

(* A remote peer connects to an open port.                                  *)
Arrive(c, p) ==
    /\ Open(p)
    /\ object[c] = "none" /\ \A r \in Port : c \notin ToSet(backlog[r])
    /\ backlog' = [backlog EXCEPT ![p] = Append(@, c)]
    /\ UNCHANGED <<pendingPorts, centers, queues, app, shares, failures, crashed>>
-----------------------------------------------------------------------------
(* work(): listenPorts.                                                    *)

AcceptPorts ==
    /\ pc = <<"ports", "accept">>
    /\ ports' = Moved([i \in DOMAIN pendingPorts |->
                          [port |-> pendingPorts[i], iOpened |-> FALSE]], ports)
    /\ pendingPorts' = <<>>
    /\ Goto(<<"ports", "serve">>, 1)
    /\ UNCHANGED <<backlog, queues, visits, before, app, shares, failures, crashed>>

AtPort == pc = <<"ports", "serve">> /\ pos <= Len(ports)
Here   == ports[pos]

(* Mutant: the index is taken back before the removal.                      *)
OpenFailsEarly ==
    /\ AtPort /\ ~Here.iOpened
    /\ ports' = IF pos > 1 THEN RemoveAt(ports, pos - 1) ELSE ports
    /\ UNCHANGED <<pendingPorts, backlog, queues, pc, pos, visits, before,
                   app, shares, failures, crashed>>

(* A port that cannot be opened is not shared any more; one that is open,   *)
(* under another element or for another program, cannot.                    *)
OpenFails ==
    /\ AtPort /\ ~Here.iOpened
    /\ ports' = RemoveAt(ports, pos)
    /\ UNCHANGED <<pendingPorts, backlog, queues, pc, pos, visits, before,
                   app, shares, failures, crashed>>

OpenPort ==
    /\ AtPort /\ ~Here.iOpened /\ ~Open(Here.port)
    /\ ports' = [ports EXCEPT ![pos].iOpened = TRUE]
    /\ UNCHANGED <<pendingPorts, backlog, queues, pc, pos, visits, before,
                   app, shares, failures, crashed>>

(* Mutant: a port with no new connection ends the loop.                     *)
NoConnectionStops ==
    /\ AtPort /\ Here.iOpened /\ backlog[Here.port] = <<>>
    /\ Goto(<<"aIncs", "accept">>, 1)
    /\ UNCHANGED <<pendingPorts, ports, backlog, queues, visits, before,
                   app, shares, failures, crashed>>

NoConnection ==
    /\ AtPort /\ Here.iOpened /\ backlog[Here.port] = <<>>
    /\ Goto(<<"ports", "serve">>, pos + 1)
    /\ UNCHANGED <<pendingPorts, ports, backlog, queues, visits, before,
                   app, shares, failures, crashed>>

(* pushInc; check() refuses nothing, for no list and no maximum is ever set *)
(* and no connection ever counted.                                          *)
TakeConnection ==
    /\ AtPort /\ Here.iOpened /\ backlog[Here.port] # <<>>
    /\ LET c == Head(backlog[Here.port])
       IN  /\ object' = [object EXCEPT ![c] = "live"]
           /\ iState' = IF Here.port \in AutoAccept
                        THEN [iState EXCEPT ![c] = "ACCEPT"] ELSE iState
           /\ pending' = [pending EXCEPT !["aIncs"] = Append(@, c)]
    /\ backlog' = [backlog EXCEPT ![Here.port] = Tail(@)]
    /\ Goto(<<"ports", "serve">>, pos + 1)
    /\ UNCHANGED <<pendingPorts, ports, output, visits, before,
                   app, shares, failures, crashed>>

(* The connection is gone, or the system has no socket for it: the ports    *)
(* after this one have to wait for the next call of work().                 *)
AcceptFails ==
    /\ AtPort /\ Here.iOpened /\ backlog[Here.port] # <<>>
    /\ failures < MaxFailures
    /\ failures' = failures + 1
    /\ backlog' \in {backlog, [backlog EXCEPT ![Here.port] = Tail(@)]}
    /\ Goto(<<"aIncs", "accept">>, 1)
    /\ UNCHANGED <<pendingPorts, ports, queues, visits, before,
                   app, shares, crashed>>

PortsDone ==
    /\ pc = <<"ports", "serve">> /\ pos > Len(ports)
    /\ Goto(<<"aIncs", "accept">>, 1)
    /\ UNCHANGED <<pendingPorts, ports, backlog, queues, visits, before,
                   app, shares, failures, crashed>>
-----------------------------------------------------------------------------
(* work(): the loops over the connections.                                 *)

Accept(q) ==
    /\ pc = <<q, "accept">>
    /\ output' = [output EXCEPT ![q] = Moved(pending[q], @)]
    /\ pending' = [pending EXCEPT ![q] = <<>>]
    /\ Goto(<<q, "process">>, 1)
    /\ before' = ToSet(output'[q])
    /\ UNCHANGED <<pendingPorts, ports, backlog, iState, object, visits,
                   app, shares, failures, crashed>>

Visiting(q, c) == pc = <<q, "process">> /\ pos <= Len(output[q]) /\ output[q][pos] = c

(* process() of an object that is deleted may do anything.                  *)
Visit(c) ==
    /\ visits' = Append(visits, c)
    /\ crashed' = (object[c] # "live")

(* processConnection: the connection has not met its peer yet, or waits ... *)
Repeats(q, c) ==
    /\ Visiting(q, c)
    /\ Visit(c)
    /\ Goto(<<q, "process">>, pos + 1)
    /\ UNCHANGED <<pendingPorts, ports, backlog, queues, before, app, shares, failures>>

(* ... or it became a client (newClient is a step of ClientLifecycle), or   *)
(* failed and is closed.                                                    *)
Ends(q, c) ==
    /\ Visiting(q, c)
    /\ Visit(c)
    /\ Goto(<<q, "delete">>, pos)
    /\ UNCHANGED <<pendingPorts, ports, backlog, queues, before, app, shares, failures>>

(* The object is deleted while the array still has it.                      *)
Delete(q) ==
    /\ pc = <<q, "delete">>
    /\ object' = [object EXCEPT ![output[q][pos]] = "deleted"]
    /\ app' = IF q = "aIncs" /\ app.at = "acceptAll"
              THEN [app EXCEPT !.ended = @ + 1] ELSE app
    /\ Goto(<<q, "remove">>, pos)
    /\ UNCHANGED <<pendingPorts, ports, backlog, pending, output, iState,
                   visits, before, shares, failures, crashed>>

(* Mutants: the index is not taken back; it is taken back too early.        *)
RemoveSkipping(q) ==
    /\ pc = <<q, "remove">>
    /\ output' = [output EXCEPT ![q] = RemoveAt(@, pos)]
    /\ Goto(<<q, "process">>, pos + 1)
    /\ UNCHANGED <<pendingPorts, ports, backlog, pending, iState, object,
                   visits, before, app, shares, failures, crashed>>

RemoveEarly(q) ==
    /\ pc = <<q, "remove">>
    /\ output' = [output EXCEPT ![q] = IF pos > 1 THEN RemoveAt(@, pos - 1) ELSE @]
    /\ Goto(<<q, "process">>, pos)
    /\ UNCHANGED <<pendingPorts, ports, backlog, pending, iState, object,
                   visits, before, app, shares, failures, crashed>>

RemoveOne(q) ==
    /\ pc = <<q, "remove">>
    /\ output' = [output EXCEPT ![q] = RemoveAt(@, pos)]
    /\ Goto(<<q, "process">>, pos)
    /\ UNCHANGED <<pendingPorts, ports, backlog, pending, iState, object,
                   visits, before, app, shares, failures, crashed>>

(* After the outgoing connections come the events of the clients, which     *)
(* nothing here depends on, and the next call of work().                    *)
LoopEnds(q) ==
    /\ pc = <<q, "process">> /\ pos > Len(output[q])
    /\ Goto(IF q = "aIncs" THEN <<"aOuts", "accept">> ELSE <<"ports", "accept">>, 1)
    /\ visits' = <<>> /\ before' = {}
    /\ UNCHANGED <<pendingPorts, ports, backlog, queues,
                   app, shares, failures, crashed>>

Listen == AcceptPorts \/ OpenFails \/ OpenPort \/ NoConnection \/ TakeConnection
          \/ AcceptFails \/ PortsDone
Process(q) == Accept(q) \/ Delete(q) \/ RemoveOne(q) \/ LoopEnds(q)
              \/ \E c \in Kind(q) : Repeats(q, c) \/ Ends(q, c)
Work == ~crashed /\ (Listen \/ \E q \in Queue : Process(q))

Application ==
    /\ ~crashed
    /\ \/ \E p \in Port : SharePort(p)
       \/ \E c \in Outgoing : ConnectTo(c)
       \/ PushPort \/ AcceptAll \/ TestNext \/ ReadNext \/ CallAccept \/ AcceptAllEnds

Remote == ~crashed /\ \E c \in Incoming, p \in Port : Arrive(c, p)

Next == Work \/ Application \/ Remote

(* The client center is a unit that never fails: its core runs it for ever. *)
Spec == Init /\ [][Next]_vars /\ WF_vars(Work)
-----------------------------------------------------------------------------
(* Properties.                                                             *)

(* What the arrays hold is live, but for the one element that work() has    *)
(* deleted and is about to remove; so the application touches a deleted     *)
(* connection, or reads behind the array, only when one ended during its    *)
(* call of acceptAll, and work() never does.                                *)
NoDangling ==
    /\ \A q \in Queue : \A i \in DOMAIN output[q] :
          object[output[q][i]] = "live" \/ (pc = <<q, "remove">> /\ i = pos)
    /\ crashed => app.at = "acceptAll" /\ app.ended > 0

(* Whatever ends in it, a loop processes every connection that was in the   *)
(* array when it began, and none twice.                                     *)
EachOnce ==
    /\ IsInjective(visits)
    /\ \A q \in Queue :
          pc = <<q, "process">> /\ pos > Len(output[q]) => ToSet(visits) = before

(* A port that is open stays open and shared, although a second element for *)
(* it may have been pushed, or fail to open and be removed.                 *)
StaysOpen == [][\A p \in Port : Open(p) => Open(p)']_vars

(* Of the connections acceptAll found when it was called it passes over no  *)
(* more than ended meanwhile.                                               *)
PassedOver ==
    [][AcceptAllEnds =>
          Cardinality({c \in app.all : iState[c] = "WAIT" /\ object[c] = "live"})
              <= app.ended]_vars

(* A connection a remote peer made to an open port is taken from the system *)
(* in the end, though a port before it may be silent or fail to accept.     *)
Heard ==
    \A c \in Incoming, p \in Port :
        c \in ToSet(backlog[p]) ~> (c \notin ToSet(backlog[p]) \/ crashed)
=============================================================================
