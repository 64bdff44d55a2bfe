--------------------------- MODULE ClientLifecycle ---------------------------
(***************************************************************************)
(* The life of the clients of one peer: the client center makes a client   *)
(* of every connection and puts the two units of its main channel in the   *)
(* pool; thread cores take units from the pool and iterate them; a unit    *)
(* that fails disconnects its client, and the client center removes it.    *)
(*                                                                         *)
(* The client center is itself a unit of the pool.  Its newClient and the  *)
(* disconnect of the other units run at the same time on different cores:  *)
(* every access to what they share is a step.  The pool and the event list *)
(* are taken as atomic here; ThreadSafeList is about what is inside.       *)
(***************************************************************************)
EXTENDS Naturals, Sequences, SequencesExt

CONSTANTS Client,   \* the connections that become clients
          Core      \* the thread cores

Nowhere == "nowhere"  \* where a unit is before a core took it

ASSUME CoreAssumption == Core # {} /\ Nowhere \notin Core

VARIABLES
    pool,       \* the units nobody runs, last put last
    units,      \* core -> aUnits
    pos,        \* core -> the index of the unit it runs
    pc,         \* core -> what it does next
    home,       \* unit -> the core that took it, or Nowhere
    blocked,    \* the units and plugs that are blocked
    iState,     \* client -> ABSENT until its connection is accepted, then iState
    remotes,    \* the clients of aRemotes
    inEvents,   \* iEvents.iInput: the clients announced as disconnected
    outEvents,  \* iEvents.iOutput
    drained,    \* the output list was emptied: its pFirst is stale
    announced,  \* client -> disconnect events generated
    over,       \* client -> times the modules were told that it is over
    crashed

shared == <<iState, remotes, inEvents, outEvents, drained, announced, over>>
cores  == <<pool, units, pos, home>>
vars   == <<cores, pc, blocked, shared, crashed>>
-----------------------------------------------------------------------------
Direction == {"forward", "backward"}
Channel == Client \X Direction
Center == <<"center">>
Unit == Channel \cup {Center}
Plug(u) == <<"plug", u>>

(* setMirror is given a pointer to the other unit where it takes a          *)
(* ThreadUnit: the pointer is converted to the bool of the constructor that *)
(* makes a new AbstractPlug.                                                *)
Mirror(u) == Plug(u)

Running(k) == units[k][pos[k]]
Destroyed(c) == iState[c] # "ABSENT" /\ over[c] > 0 /\ c \notin remotes

Goto(k, label) == pc' = [pc EXCEPT ![k] = label]

(* The loop of threadcore_iterate goes on with the unit at index i of us.   *)
Continue(k, us, i) ==
    /\ units' = [units EXCEPT ![k] = us]
    /\ pos' = [pos EXCEPT ![k] = i]
    /\ Goto(k, IF i > Len(us) THEN "accept" ELSE "visit")

Visiting(k, u) == pc[k] = "visit" /\ Running(k) = u

Init ==
    /\ pool = <<Center>>
    /\ units = [k \in Core |-> <<>>]
    /\ pos = [k \in Core |-> 1]
    /\ pc = [k \in Core |-> "accept"]
    /\ home = [u \in Unit |-> Nowhere]
    /\ blocked = {}
    /\ iState = [c \in Client |-> "ABSENT"]
    /\ remotes = {}
    /\ inEvents = <<>>
    /\ outEvents = <<>>
    /\ drained = FALSE
    /\ announced = [c \in Client |-> 0]
    /\ over = [c \in Client |-> 0]
    /\ crashed = FALSE

(* Mutant: the unit that is taken stays in the pool.                        *)
AcceptKeeping(k) ==
    /\ pc[k] = "accept"
    /\ pool # <<>>
    /\ home' = [home EXCEPT ![Last(pool)] = k]
    /\ Continue(k, Append(units[k], Last(pool)), 1)
    /\ UNCHANGED <<pool, blocked, shared, crashed>>

(* accept: one unit of the pool, if there is one, joins those of the core.  *)
Accept(k) ==
    /\ pc[k] = "accept"
    /\ IF pool = <<>>
       THEN /\ Continue(k, units[k], 1)
            /\ UNCHANGED <<pool, home>>
       ELSE /\ pool' = Front(pool)
            /\ home' = [home EXCEPT ![Last(pool)] = k]
            /\ Continue(k, Append(units[k], Last(pool)), 1)
    /\ UNCHANGED <<blocked, shared, crashed>>

(* A unit of a main channel worked.  When the channel was destroyed with    *)
(* its client, working on it may also crash.                                *)
Works(k) ==
    /\ \E u \in Channel : /\ Visiting(k, u)
                          /\ u \notin blocked
                          /\ crashed' \in {FALSE, Destroyed(u[1])}
    /\ Continue(k, units[k], pos[k] + 1)
    /\ UNCHANGED <<pool, home, blocked, shared>>

(* A unit failed: its connection is lost or the packet is not understood.   *)
(* fail() blocks what it takes for its mirror ...                           *)
Fails(k) ==
    /\ \E u \in Channel : /\ Visiting(k, u)
                          /\ u \notin blocked
                          /\ blocked' = blocked \cup {Mirror(u)}
                          /\ crashed' \in {FALSE, Destroyed(u[1])}
    /\ Goto(k, "check")
    /\ UNCHANGED <<cores, shared>>

Subject(k) == Running(k)[1]

(* Mutant: disconnect does not ask whether the client is disconnected.      *)
CheckNothing(k) ==
    /\ pc[k] = "check"
    /\ Goto(k, "set")
    /\ UNCHANGED <<cores, blocked, shared, crashed>>

(* ... and disconnects the client, unless it is disconnected already: ...   *)
Check(k) ==
    /\ pc[k] = "check"
    /\ Goto(k, IF iState[Subject(k)] = "DISCONNECTED" THEN "kick" ELSE "set")
    /\ UNCHANGED <<cores, blocked, shared, crashed>>

(* ... the state is set, ... *)
SetState(k) ==
    /\ pc[k] = "set"
    /\ iState' = [iState EXCEPT ![Subject(k)] = "DISCONNECTED"]
    /\ Goto(k, "announce")
    /\ UNCHANGED <<cores, blocked, crashed, remotes, inEvents, outEvents, drained,
                   announced, over>>

(* Mutant: an event is generated for a client of aRemotes only.             *)
GenerateKnown(k) ==
    /\ pc[k] = "announce"
    /\ inEvents' = IF Subject(k) \in remotes THEN Append(inEvents, Subject(k))
                                            ELSE inEvents
    /\ announced' = [announced EXCEPT ![Subject(k)] = @ + 1]
    /\ Goto(k, "kick")
    /\ UNCHANGED <<cores, blocked, crashed, iState, remotes, outEvents, drained, over>>

(* ... and the event is generated. *)
GenerateEvent(k) ==
    /\ pc[k] = "announce"
    /\ inEvents' = Append(inEvents, Subject(k))
    /\ announced' = [announced EXCEPT ![Subject(k)] = @ + 1]
    /\ Goto(k, "kick")
    /\ UNCHANGED <<cores, blocked, crashed, iState, remotes, outEvents, drained, over>>

(* The unit leaves the core.  kick() is called through a reference to the   *)
(* array element just deleted: it reaches the unit, or nothing, or crashes. *)
Kick(k) ==
    /\ pc[k] \in {"kick", "visit"}
    /\ pc[k] = "visit" => Running(k) \in blocked
    /\ Continue(k, RemoveAt(units[k], pos[k]), pos[k])
    /\ blocked' \in {blocked, blocked \ {Running(k)}}
    /\ crashed' \in BOOLEAN
    /\ UNCHANGED <<pool, home, shared>>
-----------------------------------------------------------------------------
(* The client center.  An accepted connection becomes a client: the         *)
(* constructor puts both units in the pool, ...                             *)
PutForward(k, c) ==
    /\ Visiting(k, Center)
    /\ iState[c] = "ABSENT"
    /\ iState' = [iState EXCEPT ![c] = "RAW"]
    /\ pool' = Append(pool, <<c, "forward">>)
    /\ Goto(k, "put")
    /\ UNCHANGED <<units, pos, home, blocked, crashed, remotes, inEvents, outEvents,
                   drained, announced, over>>

(* The client that is being made.                                           *)
Raised(c) == iState[c] # "ABSENT"
Newest == CHOOSE c \in Client : Raised(c) /\ c \notin remotes /\ over[c] = 0

PutBackward(k) ==
    /\ pc[k] = "put"
    /\ pool' = Append(pool, <<Newest, "backward">>)
    /\ Goto(k, "append")
    /\ UNCHANGED <<units, pos, home, blocked, shared, crashed>>

(* ... and the client is appended to aRemotes. *)
AppendClient(k) ==
    /\ pc[k] = "append"
    /\ remotes' = remotes \cup {Newest}
    /\ Goto(k, "visit")
    /\ UNCHANGED <<cores, blocked, crashed, iState, inEvents, outEvents, drained,
                   announced, over>>

(* output() moves the events that came in, which reads the null head of a   *)
(* list that was emptied before; takeLast() gives the last one, if any.     *)
Moved == outEvents \o inEvents
MoveCrashes == inEvents # <<>> /\ drained /\ outEvents = <<>>

(* Mutant: the client removed is that of the first event.                   *)
RemoveHeadClient(c) == remotes \ {Head(Moved)}

(* removeClient. *)
RemoveClient(c) == remotes \ {c}

(* processEvents, the last thing the client center does: one event.         *)
ProcessEvents(k) ==
    /\ Visiting(k, Center)
    /\ inEvents' = <<>>
    /\ IF Moved = <<>>
       THEN UNCHANGED <<remotes, outEvents, drained, over, crashed>>
       ELSE /\ crashed' = MoveCrashes
            /\ outEvents' = Front(Moved)
            /\ drained' = (drained \/ Len(Moved) = 1)
            /\ remotes' = RemoveClient(Last(Moved))
            /\ over' = [over EXCEPT ![Last(Moved)] = @ + 1]
    /\ Continue(k, units[k], pos[k] + 1)
    /\ UNCHANGED <<pool, home, blocked, iState, announced>>

Iterate(k) ==
    /\ ~crashed
    /\ \/ Accept(k)
       \/ Works(k)
       \/ Fails(k)
       \/ Check(k)
       \/ SetState(k)
       \/ GenerateEvent(k)
       \/ Kick(k)
       \/ \E c \in Client : PutForward(k, c)
       \/ PutBackward(k)
       \/ AppendClient(k)
       \/ ProcessEvents(k)

Next == \E k \in Core : Iterate(k)

Spec == Init /\ [][Next]_vars

(* Every thread core is a thread of its own that loops for ever.            *)
FairSpec == Spec /\ \A k \in Core : WF_vars(Iterate(k))
-----------------------------------------------------------------------------
(* Properties.                                                             *)

TypeOK ==
    /\ pool \in Seq(Unit)
    /\ units \in [Core -> Seq(Unit)]
    /\ pos \in [Core -> Nat]
    /\ pc \in [Core -> {"accept", "visit", "check", "set", "announce", "kick", "put", "append"}]
    /\ \A k \in Core : pc[k] # "accept" => pos[k] \in 1..Len(units[k])
    /\ home \in [Unit -> Core \cup {Nowhere}]
    /\ blocked \subseteq Unit \cup {Plug(u) : u \in Unit}
    /\ iState \in [Client -> {"ABSENT", "RAW", "DISCONNECTED"}]
    /\ remotes \subseteq Client
    /\ inEvents \in Seq(Client) /\ outEvents \in Seq(Client)
    /\ drained \in BOOLEAN /\ crashed \in BOOLEAN
    /\ announced \in [Client -> 0..2] /\ over \in [Client -> Nat]

(* A unit is in one place: no two cores ever run the same unit.             *)
Everywhere == [k \in Core \cup {Nowhere} |-> IF k = Nowhere THEN pool ELSE units[k]]
SoleRunner ==
    \A u \in Unit :
        /\ \A k, l \in DOMAIN Everywhere :
              Contains(Everywhere[k], u) /\ Contains(Everywhere[l], u) => k = l
        /\ \A k \in DOMAIN Everywhere : Contains(Everywhere[k], u) => home[u] = k

(* A client whose end the modules were told of does not come back: although *)
(* its units run before it is in aRemotes, its removal never comes first.   *)
GoneIsGone == \A c \in Client : over[c] > 0 => c \notin remotes

(* Units of a client that share a core announce its end once; two cores may *)
(* do it twice, never more.                                                 *)
AnnouncedOnce ==
    \A c \in Client :
        home[<<c, "forward">>] = home[<<c, "backward">>] => announced[c] <= 1

(* A client that is disconnected is removed, and stays so, unless the       *)
(* program crashed first.                                                   *)
Removed == \A c \in Client :
    iState[c] = "DISCONNECTED" ~> [](c \notin remotes \/ crashed)

(* "mono channel failed. block mirror": once a unit has failed, the other   *)
(* unit of the main channel works no more.                                  *)
Other(u) == <<u[1], IF u[2] = "forward" THEN "backward" ELSE "forward">>
HasFailed(u) == home[u] # Nowhere /\ ~Contains(units[home[u]], u)
MirrorBlocked ==
    [][\A k \in Core : \A u \in Channel :
          Works(k) /\ Visiting(k, u) => ~HasFailed(Other(u))]_vars
=============================================================================
