----------------------------- MODULE Interfaces -----------------------------
(***************************************************************************)
(* The counted references behind channels and module data                  *)
(* (DPN_Interface.h).                                                      *)
(*                                                                         *)
(* A descriptor (DataReference) owns data together with the descriptors    *)
(* copied from it; an interface watches the data and does not own it.  The *)
(* data is deleted with the last descriptor, the counters (the base) with  *)
(* the last of both.  With its data a descriptor shares a center, which    *)
(* keeps a reference per key and lends it to one user at a time.           *)
(*                                                                         *)
(* Steps are those a thread can be interrupted between: the end of a       *)
(* descriptor is the end of its watcher and that of its share of the       *)
(* center, in this order when it is assigned and in the other when it is   *)
(* destroyed; a center that is over gives up its references one by one.    *)
(***************************************************************************)
EXTENDS Naturals, FiniteSets

CONSTANTS Slot,      \* places for a descriptor
          Holder,    \* places for an interface
          Key,       \* what a center has an interface for
          Mapped,    \* the keys of an InterfaceMapCenter
          MaxData,   \* bound: data made
          None

ASSUME SizesAssumption ==
    /\ IsFiniteSet(Slot) /\ IsFiniteSet(Key)
    /\ Mapped \subseteq Key /\ MaxData \in Nat
ASSUME NoneAssumption == None \notin Nat /\ None \notin Nat \X Key

VARIABLES
    made,        \* the number of data made
    watcher,     \* data -> its counters and what is left of it
    descriptor,  \* slot -> the data its InnerWatcher has, or None
    center,      \* slot -> the center it shares, named by its data, or None
    lendable,    \* data -> the keys its center keeps a reference for
    interface    \* holder -> the reference it shares, or None

interfacesVars == <<made, watcher, descriptor, center, lendable, interface>>
-----------------------------------------------------------------------------
Data == 1..made
Behaivor == {"DESCRIPTOR", "INTERFACE"}
BaseWatcher == [refs : Nat, totalRefs : Nat,
         data : {"alive", "deleted"}, base : {"made", "released"}]

NewBase == [refs |-> 1, totalRefs |-> 1, data |-> "alive", base |-> "made"]

InterfacesInit ==
    /\ made = 0
    /\ watcher = <<>>
    /\ descriptor = [s \in Slot |-> None]
    /\ center = [s \in Slot |-> None]
    /\ lendable = <<>>
    /\ interface = [h \in Holder |-> None]
-----------------------------------------------------------------------------
(* Counters.                                                               *)

(* Mutant: interfaces own the data. *)
SpecificAddOwning(x, b) ==
    [x EXCEPT !.totalRefs = @ + 1, !.refs = @ + 1]

SpecificAdd(x, b) ==
    [x EXCEPT !.totalRefs = @ + 1,
              !.refs = IF b = "DESCRIPTOR" THEN @ + 1 ELSE @]

SpecificLeave(x, b) ==
    [x EXCEPT !.totalRefs = IF @ > 0 THEN @ - 1 ELSE @,
              !.refs = IF b = "DESCRIPTOR" THEN @ - 1 ELSE @]

(* Mutant: the counters go with the data. *)
LeftOwning(x) ==
    [x EXCEPT !.data = IF x.refs = 0 THEN "deleted" ELSE @,
              !.base = IF x.refs = 0 THEN "released" ELSE @]

(* What is left after somebody has left. *)
Left(x) ==
    [x EXCEPT !.data = IF x.refs = 0 THEN "deleted" ELSE @,
              !.base = IF x.totalRefs = 0 THEN "released" ELSE @]

Kick(x, b) == Left(SpecificLeave(x, b))

(* The references (InnerWatchers) to data d: kept by the center or shared  *)
(* by a holder.                                                            *)
Users(d, k) == {h \in Holder : interface[h] = <<d, k>>}
References(d) == {k \in Key : k \in lendable[d] \/ Users(d, k) # {}}
-----------------------------------------------------------------------------
(* Descriptors.                                                            *)

Whole(s) == descriptor[s] # None /\ center[s] # None
Vacant(s) == descriptor[s] = None /\ center[s] = None

Create(s) ==
    /\ Vacant(s) /\ made < MaxData
    /\ made' = made + 1
    /\ watcher' = [d \in 1..made + 1 |-> IF d = made + 1 THEN NewBase ELSE watcher[d]]
    /\ lendable' = [d \in 1..made + 1 |-> IF d = made + 1 THEN {} ELSE lendable[d]]
    /\ descriptor' = [descriptor EXCEPT ![s] = made + 1]
    /\ center' = [center EXCEPT ![s] = made + 1]
    /\ UNCHANGED interface

Copy(s, t) ==
    /\ Vacant(s) /\ Whole(t)
    /\ descriptor' = [descriptor EXCEPT ![s] = descriptor[t]]
    /\ center' = [center EXCEPT ![s] = center[t]]
    /\ watcher' = [watcher EXCEPT ![descriptor[t]] = SpecificAdd(@, "DESCRIPTOR")]
    /\ UNCHANGED <<made, lendable, interface>>

EndWatch(s) ==
    /\ descriptor[s] # None
    /\ descriptor' = [descriptor EXCEPT ![s] = None]
    /\ watcher' = [watcher EXCEPT ![descriptor[s]] = Kick(@, "DESCRIPTOR")]
    /\ UNCHANGED <<made, center, lendable, interface>>

EndCenter(s) ==
    /\ center[s] # None
    /\ center' = [center EXCEPT ![s] = None]
    /\ UNCHANGED <<made, watcher, descriptor, lendable, interface>>

(* A center that is over destroys its references. *)
EndReference(d, k) ==
    /\ k \in lendable[d] /\ \A s \in Slot : center[s] # d
    /\ lendable' = [lendable EXCEPT ![d] = @ \ {k}]
    /\ watcher' = IF Users(d, k) = {}
                  THEN [watcher EXCEPT ![d] = Kick(@, "INTERFACE")] ELSE watcher
    /\ UNCHANGED <<made, descriptor, center, interface>>
-----------------------------------------------------------------------------
(* Interfaces.                                                             *)

(* takeInterface, takeMappedInterface: the first time the reference is     *)
(* made; later it is lent when nobody shares it, after it was set to the   *)
(* data again unless it comes from a map.                                  *)
Take(s, h, k) ==
    LET d == center[s]
    IN  /\ Whole(s) /\ interface[h] = None
        /\ \/ /\ k \notin lendable[d]
              /\ watcher' = [watcher EXCEPT ![descriptor[s]] = SpecificAdd(@, "INTERFACE")]
           \/ /\ k \in lendable[d] /\ Users(d, k) = {}
              /\ watcher' = IF k \in Mapped THEN watcher
                            ELSE [watcher EXCEPT ![d] =
                                     SpecificAdd(Kick(@, "INTERFACE"), "INTERFACE")]
        /\ lendable' = [lendable EXCEPT ![d] = @ \cup {k}]
        /\ interface' = [interface EXCEPT ![h] = <<d, k>>]
        /\ UNCHANGED <<made, descriptor, center>>

CopyInterface(h, g) ==
    /\ interface[h] = None /\ interface[g] # None
    /\ interface' = [interface EXCEPT ![h] = interface[g]]
    /\ UNCHANGED <<made, watcher, descriptor, center, lendable>>

(* The last to share a reference destroys it. *)
EndInterface(h) ==
    LET d == interface[h][1]
        k == interface[h][2]
    IN  /\ interface[h] # None
        /\ interface' = [interface EXCEPT ![h] = None]
        /\ watcher' = IF k \notin lendable[d] /\ Users(d, k) = {h}
                      THEN [watcher EXCEPT ![d] = Kick(@, "INTERFACE")] ELSE watcher
        /\ UNCHANGED <<made, descriptor, center, lendable>>
-----------------------------------------------------------------------------
InterfacesNext ==
    \/ \E s \in Slot : Create(s) \/ EndWatch(s) \/ EndCenter(s)
    \/ \E s, t \in Slot : Copy(s, t)
    \/ \E d \in Data, k \in Key : EndReference(d, k)
    \/ \E s \in Slot, h \in Holder, k \in Key : Take(s, h, k)
    \/ \E h, g \in Holder : CopyInterface(h, g)
    \/ \E h \in Holder : EndInterface(h)

InterfacesSpec == InterfacesInit /\ [][InterfacesNext]_interfacesVars
-----------------------------------------------------------------------------
(* Properties.                                                             *)

(* Types; a descriptor that is whole has the center of its data.           *)
TypeOK ==
    /\ made \in 0..MaxData
    /\ watcher \in [Data -> BaseWatcher]
    /\ descriptor \in [Slot -> Data \cup {None}]
    /\ center \in [Slot -> Data \cup {None}]
    /\ \A s \in Slot : Whole(s) => center[s] = descriptor[s]
    /\ lendable \in [Data -> SUBSET Key]
    /\ interface \in [Holder -> (Data \X Key) \cup {None}]

(* The counters count what is there, whichever of descriptors, centers and *)
(* holders went first.                                                     *)
Owners(d) == {s \in Slot : descriptor[s] = d}
Counted ==
    \A d \in Data :
        /\ watcher[d].refs = Cardinality(Owners(d))
        /\ watcher[d].totalRefs = Cardinality(Owners(d)) + Cardinality(References(d))

(* Data lives as long as it has descriptors, and no longer though there be *)
(* interfaces; nobody is left with counters that were released, and they   *)
(* are released when nobody is left.                                       *)
Lifetimes ==
    \A d \in Data :
        /\ watcher[d].data = "alive" <=> Owners(d) # {}
        /\ watcher[d].base = "made" <=> Owners(d) # {} \/ References(d) # {}
=============================================================================
