------------------------------ MODULE Catalogs ------------------------------
(***************************************************************************)
(* SyncCatalogs of the file system module: clients of a peer copy its      *)
(* catalog of shared files and ask it whether the copy is right            *)
(* (DPN_FileSystemProcessors, DPN_FileSystem, DPN_Catalog).                *)
(*                                                                         *)
(* The transaction is a line of five steps: the host requests, the server  *)
(* renews its catalog and tells its topology, the host copies it and sends *)
(* a hash of the copy, the server compares and answers, the host records   *)
(* the answer.  Every peer has both roles, with data of their own for      *)
(* each; here one peer is the server, its clients are the hosts.  The      *)
(* server's backward units, one per client, share the host catalog, and    *)
(* the application changes it too (without a lock: what they do to it at   *)
(* the same time is left out).                                             *)
(*                                                                         *)
(* Packets of a client arrive in order, and a failed step is answered by a *)
(* packet marked as failed (module Transactions).                          *)
(***************************************************************************)
EXTENDS Naturals, Sequences

CONSTANTS Client,
          MaxSyncs,    \* bound: the transactions
          Content,     \* what a directory may hold: topologies and their hashes
          Empty,       \* the content with an empty topology
          MaxChanges,  \* bound: changes of the server's directories
          Nothing      \* a model value

ASSUME ContentAssumption == Empty \in Content
ASSUME BoundsAssumption == MaxSyncs \in Nat /\ MaxChanges \in Nat
ASSUME NothingAssumption == Nothing \notin Nat

VARIABLES
    disk,       \* what the shared directories of the server hold
    catalog,    \* __global__host_catalog of the server
    changes,    \* bound
    status,     \* client -> where it stands in the server's client center
    known,      \* the keys of the server's iClientsData
    looking,    \* those for which the application found no data
    replaced,   \* those whose data it replaced (history)
    toRemote,   \* client -> iStateHost2Remote of its data at the server
    toHost,     \* client -> iStateRemote2Host of its data of the server
    copy,       \* client -> iRemoteCatalog of its data of the server
    asker,      \* sync -> the client that asked
    at,         \* sync -> how far it went at its host
    wire,       \* client -> role of the sender -> packets on their way
    renewing,   \* client -> the sync for which its unit renewed the catalog
    confirmed   \* client -> the content of its last answer (history)

peer == <<disk, catalog, changes>>
interfaces == <<known, looking, replaced>>
data == <<interfaces, toRemote, toHost, copy, confirmed>>
vars == <<peer, data, status, asker, at, wire, renewing>>
-----------------------------------------------------------------------------
Role == {"HOST", "SERVER"}
Sync == DOMAIN asker
Kind == {"request", "topology", "hash", "answer", "failed"}

(* The flags are not initialised, nor read by anybody: "unset" stands for  *)
(* what the memory holds.                                                  *)
Flag == {"unset", "no", "yes"}

(* content: UNIT_TOPOLOGY or UNIT_HASH, and in an answer what was compared *)
(* (history); answer: UNIT_ANSWER.                                         *)
Packet == [kind : Kind, sync : 1..MaxSyncs, content : Content, answer : Flag]

Init ==
    /\ disk \in Content /\ catalog = Empty /\ changes = 0
    /\ status = [c \in Client |-> "new"]
    /\ known = {} /\ looking = {} /\ replaced = {}
    /\ toRemote = [c \in Client |-> "unset"]
    /\ toHost = [c \in Client |-> "unset"]
    /\ copy = [c \in Client |-> Empty]
    /\ asker = <<>> /\ at = <<>>
    /\ wire = [c \in Client |-> [r \in Role |-> <<>>]]
    /\ renewing = [c \in Client |-> Nothing]
    /\ confirmed = [c \in Client |-> Empty]
-----------------------------------------------------------------------------
(* The server's directories and catalog.                                   *)

(* Somebody changes the files. *)
ChangeDisk(x) ==
    /\ changes < MaxChanges /\ changes' = changes + 1
    /\ x # disk /\ disk' = x
    /\ UNCHANGED <<catalog, status, data, asker, at, wire, renewing>>

(* addRegularDirectory() and the like, by the application. *)
Share(x) ==
    /\ changes < MaxChanges /\ changes' = changes + 1
    /\ disk' = x /\ catalog' = x
    /\ UNCHANGED <<status, data, asker, at, wire, renewing>>

RenewCatalog == catalog' = disk

(* Mutant: a renewed catalog needs no comparison. *)
CompareNothing(hash) == "yes"

(* compareCatalogHash; hashes do not collide. *)
CompareCatalogHash(hash) == IF hash = catalog THEN "yes" ELSE "no"
-----------------------------------------------------------------------------
(* Clients.  The main channel of a client works before the client center   *)
(* has it in its list.                                                     *)

AppendClient(c) ==
    /\ status[c] = "new"
    /\ status' = [status EXCEPT ![c] = "listed"]
    /\ UNCHANGED <<peer, data, asker, at, wire, renewing>>

(* The connection is over. clientOver() leaves the data of the client.     *)
ClientOver(c) ==
    /\ status[c] # "over"
    /\ status' = [status EXCEPT ![c] = "over"]
    /\ wire' = [wire EXCEPT ![c] = [r \in Role |-> <<>>]]
    /\ renewing' = [renewing EXCEPT ![c] = Nothing]
    /\ UNCHANGED <<peer, data, asker, at>>

(* Mutant: data is made for every client. *)
HasAlways(c) == TRUE

(* getPrivateIf finds data of the client, or makes it for a client of the  *)
(* list.                                                                   *)
HasInterface(c) == c \in known \/ status[c] = "listed"

(* getIf of the server's application does the same, on its own thread: it  *)
(* looks, and later stores what may be there by then.                      *)
Look(c) ==
    /\ status[c] = "listed" /\ c \notin known \cup looking
    /\ looking' = looking \cup {c}
    /\ UNCHANGED <<peer, known, replaced, toRemote, toHost, copy, confirmed, status, asker, at, wire, renewing>>

MakeData(c) ==
    /\ c \in looking
    /\ looking' = looking \ {c}
    /\ known' = known \cup {c}
    /\ replaced' = replaced \cup ({c} \cap known)
    /\ toRemote' = [toRemote EXCEPT ![c] = "unset"]
    /\ UNCHANGED <<peer, toHost, copy, confirmed, status, asker, at, wire, renewing>>
-----------------------------------------------------------------------------
(* Packets.                                                                *)

Message(kind, s, content) ==
    [kind |-> kind, sync |-> s, content |-> content, answer |-> "unset"]

Other(role) == IF role = "HOST" THEN "SERVER" ELSE "HOST"

(* The packet that the unit of the given role of c's connection can read,  *)
(* if there is one.                                                        *)
Incoming(c, role) ==
    IF wire[c][Other(role)] = <<>> \/ (role = "SERVER" /\ renewing[c] # Nothing)
    THEN {} ELSE {Head(wire[c][Other(role)])}

Taken(c, role) == [wire[c] EXCEPT ![Other(role)] = Tail(@)]
Consume(c, role) == wire' = [wire EXCEPT ![c] = Taken(c, role)]
Answer(c, role, p) ==
    wire' = [wire EXCEPT ![c] = [Taken(c, role) EXCEPT ![role] = Append(@, p)]]

Reach(s, step) == at' = [at EXCEPT ![s] = step]
-----------------------------------------------------------------------------
(* SyncCatalogs.                                                           *)

(* sync() of the interface and request(HOST). *)
Request(c) ==
    /\ status[c] # "over"
    /\ Len(asker) < MaxSyncs
    /\ asker' = Append(asker, c)
    /\ at' = Append(at, "asked")
    /\ wire' = [wire EXCEPT ![c]["HOST"] =
                   Append(@, Message("request", Len(asker'), Empty))]
    /\ UNCHANGED <<peer, data, status, renewing>>

(* processRequest(SERVER) until the catalog is renewed. The module exists  *)
(* as long as the program does.                                            *)
Renew(c, p) ==
    /\ p \in Incoming(c, "SERVER") /\ p.kind = "request"
    /\ RenewCatalog
    /\ renewing' = [renewing EXCEPT ![c] = p.sync]
    /\ Consume(c, "SERVER")
    /\ UNCHANGED <<disk, changes, data, status, asker, at>>

(* Mutant: the failed step is not answered.                                *)
SaySilently(c, p) == UNCHANGED wire

Say(c, p) == wire' = [wire EXCEPT ![c]["SERVER"] = Append(@, p)]

(* The rest of it: the topology is read, the host is unverified.           *)
TellTopology(c) ==
    LET s == renewing[c]
        tells == catalog # Empty /\ HasInterface(c)
    IN  /\ s # Nothing
        /\ renewing' = [renewing EXCEPT ![c] = Nothing]
        /\ \/ /\ tells
              /\ known' = known \cup {c}
              /\ toRemote' = [toRemote EXCEPT ![c] = "no"]
              /\ wire' = [wire EXCEPT ![c]["SERVER"] =
                             Append(@, Message("topology", s, catalog))]
           \/ /\ ~tells
              /\ Say(c, Message("failed", s, Empty))
              /\ UNCHANGED <<known, toRemote>>
        /\ UNCHANGED <<peer, looking, replaced, toHost, copy, confirmed, status, asker, at>>

(* prepare(HOST): the copy of the catalog is made anew from the topology.  *)
Prepare(c, p) ==
    /\ p \in Incoming(c, "HOST") /\ p.kind = "topology"
    /\ toHost' = [toHost EXCEPT ![c] = "no"]
    /\ copy' = [copy EXCEPT ![c] = p.content]
    /\ Reach(p.sync, "prepared")
    /\ Answer(c, "HOST", Message("hash", p.sync, p.content))
    /\ UNCHANGED <<peer, interfaces, toRemote, confirmed, status, asker, renewing>>

(* Mutant: only a copy that is right is recorded.                          *)
RecordedIfRight(c, v) == IF v = "yes" THEN v ELSE toRemote[c]

(* verifyHost2Remote. *)
Recorded(c, v) == v

(* sync(SERVER). The interface is there since the topology was told. *)
Compare(c, p) ==
    LET v == CompareCatalogHash(p.content)
    IN  /\ p \in Incoming(c, "SERVER") /\ p.kind = "hash"
        /\ HasInterface(c)
        /\ toRemote' = [toRemote EXCEPT ![c] = Recorded(c, v)]
        /\ Answer(c, "SERVER", [Message("answer", p.sync, catalog) EXCEPT !.answer = v])
        /\ UNCHANGED <<peer, interfaces, toHost, copy, confirmed, status, asker, at, renewing>>

(* sync(HOST). *)
Verify(c, p) ==
    /\ p \in Incoming(c, "HOST") /\ p.kind = "answer"
    /\ toHost' = [toHost EXCEPT ![c] = p.answer]
    /\ confirmed' = [confirmed EXCEPT ![c] = p.content]
    /\ Reach(p.sync, "over")
    /\ Consume(c, "HOST")
    /\ UNCHANGED <<peer, interfaces, toRemote, copy, status, asker, renewing>>

(* fault(HOST): it logs. *)
Fault(c, p) ==
    /\ p \in Incoming(c, "HOST") /\ p.kind = "failed"
    /\ Reach(p.sync, "fault")
    /\ Consume(c, "HOST")
    /\ UNCHANGED <<peer, data, status, asker, renewing>>
-----------------------------------------------------------------------------
ServerUnit(c) ==
    \/ TellTopology(c)
    \/ \E p \in Incoming(c, "SERVER") : Renew(c, p) \/ Compare(c, p)
HostUnit(c) ==
    \E p \in Incoming(c, "HOST") : Prepare(c, p) \/ Verify(c, p) \/ Fault(c, p)

Next ==
    \/ \E x \in Content : ChangeDisk(x) \/ Share(x)
    \/ \E c \in Client :
          \/ AppendClient(c) \/ ClientOver(c)
          \/ Look(c) \/ MakeData(c)
          \/ Request(c)
          \/ ServerUnit(c)
          \/ HostUnit(c)

Spec == Init /\ [][Next]_vars

(* The backward units of both ends of a connection are iterated for ever. *)
FairSpec == Spec /\ \A c \in Client : WF_vars(ServerUnit(c)) /\ WF_vars(HostUnit(c))
-----------------------------------------------------------------------------
(* Properties.                                                             *)

(* Types; data of a client that the server's module handed out before the  *)
(* client was in the list of the client center does not exist.             *)
TypeOK ==
    /\ disk \in Content /\ catalog \in Content /\ changes \in 0..MaxChanges
    /\ status \in [Client -> {"new", "listed", "over"}]
    /\ known \subseteq {c \in Client : status[c] # "new"}
    /\ toRemote \in [Client -> Flag] /\ toHost \in [Client -> Flag]
    /\ copy \in [Client -> Content] /\ confirmed \in [Client -> Content]
    /\ looking \subseteq Client /\ replaced \subseteq known
    /\ asker \in Seq(Client) /\ Len(asker) <= MaxSyncs
    /\ at \in Seq({"asked", "prepared", "over", "fault"}) /\ Len(at) = Len(asker)
    /\ wire \in [Client -> [Role -> Seq(Packet)]]
    /\ renewing \in [Client -> 1..MaxSyncs \cup {Nothing}]

Ended(s) == at[s] \in {"over", "fault"}

(* The client is connected, has synchronised, and has nothing under way.   *)
AtRest(c) ==
    /\ status[c] # "over"
    /\ \A s \in Sync : asker[s] = c => Ended(s)
    /\ \E s \in Sync : asker[s] = c /\ at[s] = "over"

(* When a client's synchronisations are over, however they overlapped and  *)
(* whatever other clients made of the catalog meanwhile, both sides have   *)
(* recorded the same of its copy; unless the server's application asked    *)
(* for the interface of the client for the first time meanwhile, and took  *)
(* the place of the data that had it.                                      *)
FlagsAgree ==
    \A c \in Client \ replaced : AtRest(c) => toRemote[c] = toHost[c]

(* And a copy that is recorded as right is what the server's catalog was   *)
(* when they were compared, not the copy of another synchronisation.       *)
VerifiedCopy ==
    \A c \in Client : AtRest(c) /\ toHost[c] = "yes" => copy[c] = confirmed[c]

(* A synchronisation ends, or the client does. *)
Ends ==
    \A s \in 1..MaxSyncs :
        s \in Sync ~> s \in Sync /\ (Ended(s) \/ status[asker[s]] = "over")
==============================================================================
