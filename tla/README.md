# DPeerNode in TLA+

DPeerNode is a C++ library for peer-to-peer programs: two peers meet over TCP, become *clients* of each
other, and run *transactions* (typed packet exchanges with a step on each side) over the main channel of the
connection; modules (file system, chat, network) are written as transactions. Units of work are run by a
few threads that share a pool. This directory models the parts of it that hold state shared by several
threads or by both peers, checks them with TLC on small instances, and proves part of it with TLAPS.

All line numbers are of the files next to `DPeerNode.pro`.

## 1. The system

| Component | State | Operations | Talks to |
|---|---|---|---|
| Thread system (`DPN_ThreadUnit`, `DPN_ThreadBridge`) | a pool of units; per core an array `aUnits`; per unit `blocked` | `putUnit`, `UnitPool::get`, `threadcore_iterate` (accept one unit, run each, kick those that fail), `block`, `kick` | runs everything below |
| Lists (`DPN_Util.h`) | doubly linked list with lock, `pFirst`, `pHead`, node pool; queue = list + array, queue2 = two lists | `push_back`, `takeLast`, `moveTo` (array, list) | unit pool, pending connections, shared ports, client events |
| Meeting (`DPN_Network`: `WaitingConnection`, `OutgoingConnection`, `IncomingConnection`) | an action line with a position, `iState`, names, the connector | `process` (steps), `accept`, `reject` | the same object of the other peer, over TCP; the client center |
| Client center (`__client_center__`) | shared ports, pending connections, `aRemotes`, events | `work` = `listenPorts`, process connections, `processEvents`; `newClient`, `removeClient`; `acceptAll`, `connectTo`, `sharePort` from the application | is a unit of the pool |
| Client (`DPN_Client*`, `DPN_MainChannel`) | `iState`, statistics, the main channel with a forward and a backward unit | `coreInit`, `send`, `disconnect` | its units run on any core |
| Propagation, I/O (`DPN_Propagation`, `DPN_IO`, `DPN_Channel`) | entry and line of I/O contexts | `propagate` = generate, then process each | forward: transactions to connector; backward: connector to transactions |
| Transactions (`DPN_TransmitProcessor`) | per peer `iMap` (index to processor), `iBackQueue`, `iQueue`, the pool of processors; per processor its action line, side, index, flags | `send` (application), `generate` (forward unit), `process` (backward unit) | the other peer's, by packets |
| Default processors (`DPN_Processors`) | ports and channels being opened | TextMessage, MakeShadow, SyncChannel, ReserveChannel | transactions, UDP ports, modules |
| Modules (file system, chat, network, media) | catalogs per client, verified flags, messages, environments | their processors | `Modules::clientDisconnected` |
| Node connector (`DPN_NodeConnector`), codec (`DPN_TransmitTools`, `DPN_Buffers`) | size of the packet being read, buffers, the 20 UDP ports | `x_send`, `x_receivePacket`, parse and deparse | sockets of an external library |
| Interfaces (`DPN_Interface.h`) | reference counts of data and of interfaces | `takeInterface` | channels, file system |
| Crypto, media devices, text commands, globals | none of their own | wrappers and parsing | |

### What is hard here, and what would make each part correct

* **Threads.** Units run on any core; the application calls from threads of its own; most containers have
  no lock. A unit must be run by one core at a time; what one takes from a list must be taken once; a client
  announced as disconnected must be removed whatever overtakes it.
* **Two peers.** Meeting and transactions are protocols in which each side runs steps of a list and waits for
  the other. Steps must run in order, once, on their own side; nobody may wait for somebody who has given up;
  a client on one side needs the agreement of the other.
* **Recycling.** Processors and list nodes are reused: what is taken from a pool must carry nothing of its
  former life, and one transaction must not reach the processor of another.
* **Partial failure.** A step of several fails: both sides must know, and what earlier steps opened must be
  given back.
* **Limits.** Transaction indexes are `int`s shared by both peers (one half of the range each).

`PROJECT.json` lists each such place ("hazards") with its line and the properties about it.

## 2. The modules

| Module | Models | Refines |
|---|---|---|
| `TransactionContract` | what a transaction promises to the author of a processor | |
| `TransactionSpace` | the indexes of the transactions of a connection, with any number of threads that call `send()` | |
| `Transactions` | `PacketProcessor` of both peers, their queues, pools and packets | `TransactionContract` (property `ContractSpec`), `TransactionSpace` (property `SpaceSpec`) |
| `MCTransactions` | instances: the action lines of four processors of `DPN_Processors.cpp` | |
| `TransactionsProofs` | proofs about `Transactions` | |
| `HandshakeContract` | what the meeting promises, per connection | |
| `Handshake` | both sides of the meeting and the wire between them | `HandshakeContract` (property `ContractSpec`) |
| `ConnectionProofs` | proofs about `Handshake`, and at its end about `TransactionSpace` | |
| `ThreadSafeList` | `_ThreadSafeList` under its three users | |
| `ThreadSafeListProofs` | proofs about `ThreadSafeList` | |
| `ClientCenter` | the shared ports, the queues of connections and the loops of `work()`, against the application's thread | |
| `ClientCenterProofs` | proofs about `ClientCenter` | |
| `ClientLifecycle` | pool, cores, the two units of each main channel, the client center's list of clients and events | |
| `ClientLifecycleProofs` | proofs about `ClientLifecycle` | |
| `Shadows` | `MakeShadow` and `ReserveChannel` of both peers, the UDP ports, the list of channels and their interfaces | |
| `MCShadows` | instances: ports per peer, users of a reservation | |
| `ShadowsProofs` | proofs about `Shadows` | |
| `Codec` | the values of a processor's units as bytes and back, the items of a packet | |
| `Framing` | one direction of the main channel: propagation, packet header, connector and a stream of bytes | |
| `MCFraming` | an instance: three packet types, integers of two digits; every value is read back as it was saved | |
| `Catalogs` | the synchronisation of file catalogs between one peer and its clients | |
| `CatalogsProofs` | proofs about `Catalogs` | |
| `Interfaces` | the counted references behind channels and module data, and the centers that lend them | |
| `ChannelProofs` | proofs about `Codec` and `Framing`, and at its end about `Interfaces` | |

Definitions whose comment begins with "Mutant" are deliberately wrong variants of the definition they precede;
no specification uses them. For each property one of them shows that a plausible bug would break it.

`TransactionSpace` and `Interfaces` name their `Init`, `Next` and `Spec` after themselves (`IndexSpec`, `InterfacesSpec`): a module of proofs extends each of
them together with another specification.

### Transactions

State: `iMap`, `iBackQueue`, `iQueue` and `pool` are the fields of `PacketProcessor`, `DPN_ProcessorList` and
`ProcessorPool`; `obj` is the heap of processor objects; `sending` is the local state of a `send()` between the
computation of the index (`DPN_TransmitProcessor.cpp:289`) and its insertion (292); `wire` is the channel in
each direction; `log` is a history of what user code was called.

Actions: `SendBegin`/`SendEnd` are `send()` up to and after the unlocked gap; `FirstStep`, `Resend`, `NoLine` are
the branches of `generate()`; `ReceiveStep`, `ReceiveFailure` those of `process()`. `GoOutcomes` is
`ActionLine::go(side)`: it skips steps of the other side, runs its own until one fails or the other side's turn
comes, moves past a failed step, and reports success at the end of the line even when the last step failed.

`TF__FAILED` is kept in two places: `failed` is the unit of the content that the next packet carries, `flagged` the member
`iTransportFlags`. `clear()` resets neither; a host whose first visit fails goes back to the pool with its mark (`Marked`), and the
next packet it receives overwrites the mark before anything reads it. `CleanPool` is stated accordingly.

Kept as the code has it: a failure of a host's *first* visit is told to nobody else; the failure of a last step
is masked; processors of a host whose line ends at the server, and of a side that received a failure, are
never returned to the pool; the test for an exhausted range never refuses.

Assumptions: one application thread per peer calls `send()` (more are in `TransactionSpace`); calls of the
pool and of `iMap` are atomic (they are std containers without a lock); a line is empty, or starts with the host,
or is one server step (`LineShapeAssumption`; all lines of the repository are of this kind). No step of the
repository returns `DPN_REPEAT`, so none does here. Payloads and parse failures are left out.

### TransactionSpace

What is left of `Transactions` when only indexes are looked at: `iMap` from an index to the side this peer plays, and the index a
thread inside `send()` computed and has not inserted yet. `Transactions` implements it with one thread (`SpaceSpec`). Here threads may
overlap, and indexes may leave the half of their peer and wrap: `Distinct` says what holds as long as neither happens. `Roomy`, its
condition, counts the transactions of *both* peers, because the size of the map does. So the half of an acceptor is exhausted not after
2^30 transactions of its own but after as many of both.

### Handshake

State, per connection and side: the position `at` on the flattened action line (`OutLine`, `InLine`), `iState`, the
name `met`, how the object ended, and the packets on their way. `link` is the TCP connection; the network may
cut it at any moment, with what it carries or without. A step that only prepares buffers is one with the step
it prepares.

`ListenPorts` is one round of the incoming client center: `listenPorts()` takes at most one connection of each shared port
(a connection may reach any of them), accepts it if the port does so by itself, and pushes it to `aIncs`; `aIncs.accept()` moves the first of those pushed to the array and loses the others
(finding 1). A lost connection has `end` `"lost"`: nobody runs or deletes it, its TCP connection stays open and the other side waits for ever,
and through an autoaccept port it is in state `ACCEPT` all the same. Two `connectTo` of one round lose an outgoing connection the same way, before it did
anything: `Conn` are those the outgoing center has taken.

`Settles` and `AcceptedJoins` are liveness properties of the connections that are processed (`Processed`), from the decision on: before it the incoming side
waits without limit, which is what `IncomingConnection::waiting` does. SHA256 is taken as free of collisions,
packets as whole. `reject()` has no caller in the repository but is public, so it is an action. The
"reject" signal (`DPN_Network.cpp:450`) and the log line "Connection rejected" (630) are unreachable: a rejected
side has no dialog line, so its next step fails (`InWaiting`). Shadow and virtual connections have no
implementation.

### ThreadSafeList

Steps under the lock are atomic; the tests of `pFirst` and `pHead` before the lock are separate steps. Nodes are
numbers, `prev`/`next`/`object` their fields. `usage` picks one of the users: the unit pool (several takers), the
queue that is moved to an array (pending connections, shared ports), the queue that is moved to a second list
(events). `clear()` and `last()` have no caller.

### ClientCenter

`work()` is a program counter: the round of the ports, then for each queue the move of what came in, and a loop in which a connection
is processed, deleted and removed from the array in separate steps, the index going back with the removal. The application's thread takes its steps in between:
`sharePort` looks for the port and pushes it later; `acceptAll` compares its index with the size of the array, reads the pointer there
(`TestNext`, `ReadNext`) and calls `accept()` through it, each later than the one before, when the array may have become shorter and the object may be deleted. What `process()` of a connection does is left to `Handshake`: here it repeats or ends. A port can be
opened once; `check()` refuses nothing in this repository, for nobody sets a list or counts connections. As everywhere a queue is moved to an array, of
several pending elements the first is kept (`Moved`).

The loops are written with `FOR_VALUE` of an external library; it is taken to compare the index with the size of the array anew each time, as the
removals in the loops of `work()` need. The text commands that should call this interface (`__dpn_core__::sharePort`, `connectTo`, `acceptAll`)
have their bodies commented out: the callers are programs that embed the library.

### ClientLifecycle

A core is a program counter over `threadcore_iterate`; `disconnect` is three steps (test, set, announce), `newClient`
three (forward unit in the pool, backward unit, append). `Works` is any iteration of `LinearScheme::propagate`
that succeeds, `Fails` one that fails followed by `MonoBase::fail`. `kick()` goes through a reference to the array
element that was just deleted: it may reach the unit, nothing, or crash. Working on a destroyed channel may crash.
Pool and event list are atomic here (their inside is `ThreadSafeList`); the crash of moving events to a
list that was emptied is kept (`MoveCrashes`). The client center is put in the pool by the embedding program.
`ABSENT` is a state of the model: before the connection is accepted.

### Shadows

A layer above `Transactions`, with of its rules what these steps see: packets of one peer arrive in order, a failed
step before the last is answered by a packet marked as failed (`FailStep`), the failure of the last is masked. The five steps
of `MakeShadow` are `RequestShadow` (host), `ProcessShadow` (server), `OfferPort` (host), `OpenShadow` (server), `ConnectShadow`
(host); `FaultShadow` is the arrival of a failure. `bound` is what the sockets of the pool of ports hold, `channels` is
`aShadowChannels`, `pPort` the host's member. A step by the backward unit and the queueing of its answer (`reply`, `Resend`) are two
steps, because the application may see the new channel in between. `HostRequest` and `ServerProcess` begin the two steps of
`ReserveChannel`; `job` is where they stand, `Lend` and `GiveBack` are the calls of a module's `useChannel` with
the interface of one direction, `EndStep` the end.

Every shadow has the same key ("generate shadow key here"), so a lookup finds the first of the list: the key is left
out. Whether a socket can be connected is any outcome. The peers run on machines of their own, with their own pools of ports. A
shadow of type TCP asks for nothing and opens nothing. No `useChannel` of a module returns a value: any comes back.
Left out: the end of a client (a port leaves the pool for good with a channel that is destroyed with its context), and
the data race between the backward unit and the application on the list of channels.

### Framing and Codec

`Send` is an iteration of the sender's forward unit (make a packet, send it; the system takes `n` of its bytes);
`ReceiveSize` and `ReceiveBody` are the two receives of `x_receivePacket`, each followed, as in the code, by
`IO__CHANNEL::generate` and `PacketProcessor::process` in the same iteration. `iPacketSize` is the connector's, `iMap` the types of
the receiver's transactions, `given` what processors had in their content when their step ran. Bytes are real: `Save` turns
what a unit holds (a byte, an integer, a text, an address, an array of addresses, or nothing after `clearBuffer`) into an item,
`MakePacket` makes a packet of the items, `Get` reads a unit as its `get()` does. Packets are encoded, the stream is cut anywhere, and what is read from a wrong place is decoded as whatever it says,
with signed sizes that may be negative or overflow. Only the machine is smaller: `Base` and `Width` are 8 and 2 instead of 256 and
4. A size read past the end of a packet may be refused or end the unit (`"unknown"`), an overflowing range check
ends it (`"overrun"`). `get()` has no end to look at: an item whose inner sizes lead behind it is read as anything or crashes the
program (`ReadsBeyond`); `deparseBuffer` compares the sizes of items only. `Diagnose` is the first iteration of a scheme.
`Codec` computes by recursive functions, one round of a loop of the code after the other: `LoadItem` is a round of the loop of
`deparseBuffer`, `LoadItems` so many of them (a round that has nothing left to read changes nothing), `Finish` what stands behind the loop;
`UploadNext` is a round of the loop that reads an array. `MCFraming` asserts for the small machine that `Get` returns what was saved, for all integers and bytes and for texts, addresses and
arrays of up to two of them (`RoundTrip`); `ChannelProofs` proves it for all of them, on every machine.

Left out: the mediators of times, of raw memory and of file descriptions, built like the others; the total size and prefix of a
content in the meeting; what a step does with its content
(`Transactions`); the packets of the other direction, which share `iMap` but use indexes of the other half.

### Catalogs

The five steps of `SyncCatalogs` are `Request` (host), `Renew` and `TellTopology` (the server's `processRequest`, cut in two where the
catalog of all clients has been renewed and can be changed by others before it is read), `Prepare` (host), `Compare` (server),
`Verify` (host). One peer is the server and has several clients; `catalog` is its `__global__host_catalog`, `disk` what the
shared directories hold, `toRemote` the server's flags, `toHost` and `copy` the clients'. A topology and its hash are one
value: hashes do not collide. A client may ask before the server has it in its list (`AppendClient`), and is refused.
`Look` and `MakeData` are the two halves of `getIf` on the application's thread.

Left out: data races on the catalog and on the map of clients; a client's second role, which has data and packets of its own;
`RequestFile` (its bodies are commented out) and channels.

### Interfaces

`watcher` is the base of each data: `refs` counts descriptors, `totalRefs` descriptors and references. A slot is a place
that may hold a descriptor; the descriptor's two parts, the watcher and its share of the center, end in separate steps
(`EndWatch`, `EndCenter`), first the one or the other, as when it is assigned or destroyed. `lendable` is what a center keeps
(`wReference`, `iReferenceMap`), `interface` what users hold. A reference is an `InnerWatcher` shared by the handles an external
library counts: it ends with the last of them (`EndReference`, `EndInterface`). The two centers of a descriptor are one, with a key for
each interface of either.

Left out: the counters of the external library, which are taken as right, and that the counters here are plain integers:
a step of two threads at once on one of them is a data race, and each change of them is atomic in the model. `Shadows` uses the
exclusive lending of `Take` in its `Available`.

## 3. The runs

| Run | Instance | Shows |
|---|---|---|
| `transactions` | 4 packet types, 3 sends over both peers, `IntMax` 7, fairness | `CleanPool` a pooled processor acts as a new one; `SoleHolder` a processor is in one place; `Recycled` of an unfailed transaction that is over at most one of the two processors is out of the pools; `SpaceSpec` indexes follow `TransactionSpace`; `ArrivalOrder`; `ContractSpec`; `Completes`, `FaultsShared` |
| `space` | 2 threads of each peer, 6 sends, `IntMax` 7 | `Distinct` no index is used twice, and an index both peers know is one transaction |
| `handshake` | 2 connections, one from a translated address, 2 ports, one with autoaccept, fairness | `NothingLeaked`; `Mutual` a client on the outgoing side means that both agree; `ContractSpec`; `Settles` after the decision both sides end; `AcceptedJoins` what is accepted becomes a client on both sides, unless it is cut: the last two for connections that are processed, while a round that pushes two loses one |
| `lists` | 3 users, 2 takers, 4 pushes | `TakenOnce`, `FreeNodesUnlinked`, `NothingForgotten` |
| `lists_move` | the array queue | finding: `MovesAll` is violated |
| `lifecycle` | 2 clients, 2 cores, fairness | `SoleRunner`, `GoneIsGone`, `AnnouncedOnce`, `Removed` |
| `lifecycle_mirror` | 1 client, 1 core | finding: `MirrorBlocked` is violated |
| `center` | 2 ports shared up to 3 times, 2 incoming connections and 1 outgoing, 1 that is gone when accepted, fairness | `NoDangling` arrays hold live connections, and only a removal during `acceptAll` lets the application touch a deleted one or read behind the array; `EachOnce` a loop processes every connection once, whatever is removed in it; `StaysOpen` sharing a port again does not close it; `PassedOver` `acceptAll` misses no more connections than ended during the call; `Heard` who connects to an open port is taken |
| `shadows` | 2 shadows, 2 reservations by either peer, 1 and 2 ports, users none or both directions, fairness | `PortsAccounted` a bound port belongs to a channel, to a transaction under way, or is the host's port of one that failed; `HostHasPeer`; `HostReserveLands` the host of a shadow may reserve it at once; `OneHolder`; `Settles` |
| `framing` | 2 packets of 3 types, units (flags, a text, an environment) with or without a value, sends and receives cut anywhere, fairness | `AlignedUnlessShort`; `WholeOrRefused` no processor is given a part of a packet; `Delivered` |
| `catalogs` | 2 clients, 2 synchronisations, 3 contents, 2 changes of files or catalog, fairness | `TypeOK`; `FlagsAgree` when a client's synchronisations are over both sides have recorded the same; `VerifiedCopy` a copy recorded as right is the catalog it was compared with; `Ends` |
| `interfaces` | 3 descriptors, 2 data, 2 holders, an interface of each kind of center | `Counted` the counters count who is there; `Lifetimes` data lives as long as it has descriptors, counters as long as anybody is left |

Bounds. Six sends of `space` use up both halves of the seven positive indexes and wrap to negative ones, with two threads of a peer
inside `send()` at once on the way. Three shares of two ports share one of them twice; three
connections let one end in a loop before and behind another. `MaxSends` 3 lets two transactions of one peer and one of the other overlap, which every race of
indexes, queues and pools needs; a recycled processor is used again with 2. `IntMax` 7 gives each peer 3 or
4 indexes, enough for every send. One connection of `Handshake` shows its whole protocol. Two of them meet in a round of the ports only, where
both may be pushed at once and either be lost, the one its port accepted or the other; or they come one after the other. Either reaches either
port, so that a translated connection and one that is not are each accepted by the port, by the application, or rejected. Four pushes give a list that was emptied, refilled
and recycled twice. Two clients and two cores give every meeting of the client center with both units of
one client, and of two clients. Two shadows cross on the wire, and the initiator, which can bind one port, runs out of them on the
second; two reservations meet on one peer, one of its forward unit and one of its backward unit. Two packets
give a receive that returns the end of one and the beginning of the next. Two synchronisations overlap at one client, or meet at the
server from two; changes of the catalog by the application stand for the renewals of more clients.
Three descriptors of two data let one data end while the other goes on and its last descriptor leave before its interfaces. `CHECK_DEADLOCK FALSE` is in every configuration because each system may
stop: the sends, pushes and connections are bounded, and a crash ends the program.

Fairness. Cores loop for ever (`while(iPlayable)`, never reset) and iterate every unit they hold, so the units of a
main channel and the client center are weakly fair; a `send()` that began goes on. In `ClientCenter` it is `work()` as a whole that goes on, in `Handshake` the round of
the ports and the step of each connection that is processed. In `Shadows` that is every step of the two units
once it is enabled, in `Framing` the receiver's unit, in `Catalogs` the backward units of both ends; nobody is obliged to ask, to
send or to reserve. `Completes` and `FaultsShared` are stated with `<>[]`: sends are bounded, so that everything that was sent ends is
the same as that a moment comes after which nothing is under way, and is cheaper to check. The application and the
network owe nothing: decisions, cuts, failures of steps and of attempts are never forced.

## 4. What does not hold

1. **A queue moved to an array keeps its first element only** (`DPN_Util.h:141`): the successor of a node is read
   after the node was excluded. Two connections, or two ports, pending at once: one is lost. `lists_move`; what it means for the meeting is in `Handshake` (`Listen`).
2. **A failed unit does not block its mirror** (`DPN_MainChannel.cpp:50`): the pointer given to `setMirror` is
   converted to `bool`. `lifecycle_mirror`. With `Mirror(u) == Other(u)` the property holds of the same model.
Seen in the code but not stated by a run:

* A packet that arrives in pieces is processed in pieces (`DPN_NodeConnector.cpp:161`): the connector asks to be
  called again, the channel takes what came for the packet, and from then on reads from wrong places.
  `AlignedUnlessShort` says that this is the only way to lose the order, `WholeOrRefused` that even then no processor
  is given a part of a packet for the whole. A packet cut just behind its header is the exception it allows: the processor
  then acts on what it held before.
* The two ends of a reservation may get different channels (`DPN_Processors.cpp:46`): all shadows have one key and the
  server takes the first of its list (`Lookup` in `Shadows`), which is in another order when each peer made a shadow at the same time.
* A port shared twice in a row is pushed twice (`DPN_Network.cpp:528`), and `acceptAll` may call `accept()` of a connection
  that was just deleted, or read behind the array (545): `CallAccept` and `ReadNext` in `ClientCenter`.
* A processor whose host's first visit failed is pooled with `TF__FAILED` in `iTransportFlags` (`DPN_TransmitProcessor.cpp:432`): it is overwritten before it is
  read. `Marked` in `Transactions`.
* A connection that a port accepted by itself and the queue then lost stays in state `ACCEPT` and open for ever; its peer waits. `end` `"lost"` in `Handshake`.
* Two threads of one peer inside `send()` take one index (`DPN_TransmitProcessor.cpp:289`): `overlapped` in `TransactionSpace`.
* `__server__::start` sends one processor object to every client (`DPN_Network2.cpp:51`): each main channel binds and runs it as its own. The type
  it asks for has no processor, so nothing comes of it yet.
* The second disconnected client crashes the client center (`DPN_Util.h:123`): `takeLast()` leaves `pFirst` stale, and moving the
  next event connects it to a null `pHead`. `nullHead` in `ThreadSafeList`, `MoveCrashes` in `ClientLifecycle`.
* `DPN_FileSystem::getIf` may replace the data of a client (`DPN_FileSystem.cpp:64`): `replaced` in `Catalogs`.
* The flags a synchronisation records are read by nobody, and the data of a client that is over is kept for ever
  (`DPN_FileSystem.cpp:28`, commented out).
* The test for an exhausted range of transaction indexes compares an unsigned sum with
  zero (`DPN_TransmitProcessor.cpp:284`), so it never refuses; it takes 2^30 transactions of the two peers to matter.

## 5. What is proved

TLAPS checks these for every value of the constants (any set of packet types with lines of the assumed shape, any
index range, any threads, connections, clients, ports, bytes).

* `TransactionsProofs!TypeCorrect`: `Spec => []TypeOK`. `TypeOK` says more than types: queues, pools and maps name
  objects that exist, and a line stands on a step or just past its end. It is inductive as
  it stands. The argument goes action by action; lemmas state what the
  helpers (`Store`, `Put`, `Return`, `PopActual`) return.
* `TransactionsProofs!Invariant`, `Holders`, `CleanPools`: `Spec => [](sends <= Half => SoleHolder)` and the same of `CleanPool`, where
  `Half` is half of `IntMax`. The hypothesis is the range of indexes again: when it is used up, indexes collide and the code has nothing
  against it; the whole of the run `transactions` is below it. The inductive invariant is
  `TypeOK /\ (sends <= Half => Holding)`. `Holding` counts the indexes in use against `sends` (`Budget`), keeps the indexes of a peer
  below the size of its map (`Bounds`), says where each processor is and what it carries there (`Place`, `WaitOK`), what a packet under
  way says of the processors of both ends (`PacketOK`), and that a transaction under way is in one packet or one queue
  (`OneToken`). `SoleHolder` alone is not inductive: that a packet finds its processor in nobody's hands depends on
  where the packet before it left that processor, on both sides.
* `ConnectionProofs!IndexTypes`, `IndexesDistinct`: `IndexSpec => []IndexTypeOK` and `IndexSpec => []Distinct` of `TransactionSpace`, for any set of
  threads. `Distinct` is not inductive: that an index is new depends on what was counted when
  earlier ones were computed. `IndexInv` adds, while the condition of `Distinct` holds, that the indexes a peer started lie in its half below the sum of its
  minimum and the size of its map (`StartedBelow`), that those it serves were started by the other (`ServedStarted`), and that the one a thread holds lies above all its
  peer started and below that sum (`PendingAbove`, `OneCaller`). Each step adds one entry to one map (`Grows`) or one index to one thread. It holds for any width of int.
* `TransactionsProofs!FollowsSpace`: `Spec /\ [](sends <= Half) => SpaceSpec`, step by step: `SendBegin` maps to `Compute`, `SendEnd` to
  `Insert`, the packet of an unknown transaction to `Register`, everything else to a stutter. It needs `Holding` for two things: that
  the index `send()` inserts is of its peer's half, and that an unknown index was registered by the sender of the packet.
* `TransactionsProofs!InOrderArrival`: `Spec /\ [](sends <= Half) => ArrivalOrder`. The packets of a peer and the processors it has queued form one
  line. Of what the other peer has not heard, older goes ahead of newer, and what it has heard is older than all of that
  (`InOrder`); a step lets nobody overtake (`Flows`), and who is new joins at the end (`Joins`).
* `TransactionsProofs!ImplementsContract`: `Spec /\ [](sends <= Half) => ContractSpec`. The invariant adds `Courses` to `Holding`: whatever is under way for a
  transaction (a packet or a waiting answer, its `Token`) tells of a failure that is logged already, or finds that the next step of the
  line is the receiver's and that both processors stand where no step of their own side is left before it (`Stands`). A
  step touches one transaction only (`Touches`), and `go()` from such a place is a visit the contract allows (`GoOn`, `VisitAllowed`).
* `TransactionsProofs!RecyclesOne`: `Spec /\ [](sends <= Half) => []Recycled`. The side that sees the end of the line returns its processor, and nobody takes it
  out again for the same transaction (`Keeps`); that a failure ends the transaction on a side that has a processor to return comes from `Courses`.
* `ConnectionProofs!TypeCorrect`, `NothingLeaks`, `MutualHolds`. The inductive invariant `IInv` says that what is on its way to a side
  is a segment of a fixed script (`Script`): it starts at the packets the side has taken (`TakenAt`) and ends at those the
  sender has given (`GivenAt`), or earlier only when the connection is broken for the sender. `Mutual` by itself is not
  inductive: that a signal matches says something of the incoming side only through where that packet comes from.
  `NothingLeaks` follows because whoever stands at or past `signal` was accepted. Steps touch one connection
  (`OneConnection`), so each action is treated at that connection: sends and receives move one end of the segment
  (`Sends`, `Receives`), everything else leaves it alone or gives up the side.
* `ConnectionProofs!KeepsContract`: `Spec => ContractSpec` of the meeting. A step of either side goes on along its line, gives up, ends the line,
  decides or changes nothing the contract sees (`Kinds`), and each kind maps to one action of the contract or to a stutter. `IInv` says nothing of a side
  whose connection is broken; the invariant adds `Paced`: no side, closed or not, stands past a packet the other has not given. A round
  of the ports decides about the connection it lets through at most (`ListenFollows`): one that is lost is never decided about, as the contract sees it.
* `ChannelProofs!TypeCorrect`, `CountersRight`, `LifetimesRight`. `Counted` and `Lifetimes` are taken together, as the record `Right(o, r)`
  that a data with `o` descriptors and `r` references should have; the counters' operators map such records to such records
  (`AddDescriptor`, `KickReference` ...), and each action adds to or takes from one of the two sets (`OneData`, `NoData`). The
  invariant `IInv` needs `Kept` besides: while a center is shared it keeps a reference for every interface held of its data,
  otherwise taking an interface could make a reference for a key that already has one. It assumes finitely many places and keys.

* `ThreadSafeListProofs!Invariant`, `TypeCorrect`, `TakenAtMostOnce`, `FreeNodes`, `NoneForgotten`, for any number of pushes and takers. What is linked is
  `Reach(prev, pHead[l])`: the nodes in every set that has the head and is closed under `prev`. A path would need
  recursion, closed sets do not, and lemmas say how `Reach` changes with a push, with the removal of an end and with a list
  moved as a whole. `IInv` is `TypeOK /\ TakenOnce /\ (~nullHead => Shape)`. `Shape` adds that links are those of doubly linked lists
  (`Doubly`), that lists and pools share no node (`Places`), that objects differ (`Objects`), and where `pFirst` may be stale (`First`) and
  what a thread between the test and the lock may assume (`Threads`). A null `pHead` that is dereferenced ends the program, so nothing is said of the lists
  after it; `TakenOnce` holds even then.
* `ClientLifecycleProofs!Invariant`, `TypeCorrect`, `OneRunner`, `NoReturn`, `OneEnd`, for any clients and cores. A unit is where its `home` says, once (`Homes`,
  `Once`); a client is born on one core, the one that runs the client center (`Births`, `Absences`), so that its removal cannot overtake its append, which
  `GoneIsGone` needs; whoever announced an end is about to leave its core or has left it (`Announcements`), so that two units on one core announce it once. It assumes
  that there is a core and that the pool is not one (`CoreAssumption`).
* `ClientCenterProofs!Invariant`, `NothingDangles`, `EachVisitedOnce`, `FewPassedOver`, `PortStaysOpen`, for any ports and connections. `IInv` says that a connection of
  the system is in one backlog and has no object yet (`Backlogs`), that one with an object is in a list or an array, once, and is live unless it is the one `work()`
  is about to remove (`Lists`), and that what a loop has visited and what is ahead of it are apart and make up what it began with (`Rounds`), whatever it removed: removal
  moves the elements behind the index. `Calls` counts the same shift for `acceptAll`, whose index knows nothing of it: those it passed over (`Missed`: found, waiting, neither ahead nor being accepted),
  and one more while a removal is under way, are at most `ended`; a removal moves one element at most behind the index. `StaysOpen` follows from the types.
  It uses that the two kinds of connections are apart (`KindAssumption`).
* `CatalogsProofs!Invariant`, `TypeCorrect`, `FlagsAgreed`, `CopyVerified`, for any clients, contents and number of synchronisations. `FlagsAgree` speaks of the end of
  synchronisations; what makes it so is `Exchange(c)` at every moment between: each synchronisation under way is in one packet or in the server's unit
  (`Sounds`, `Tokens`); what the server recorded is what the last packet that tells it says, or what the host recorded when none is on its way
  (`Flags`); the copy is that of the last hash sent, of the last answer, or the confirmed one (`Copies`). "The last that tells" is `Final`, and lemmas say
  how it changes when packets join or leave a queue.
* `ShadowsProofs!Invariant`, `TypeCorrect`, `PortsHeld`, `Counterparts`, `Lands`, `HeldOnce`, for any pools of ports and any number of shadows and reservations. `IInv` has a part for
  each transaction, `Under(t)`: it has one packet at most, and that packet tells where both sides are (`Fits`) and, when a channel is to be made of it,
  that its port is the one on the other side. `Ports(p)` is `PortsAccounted` with the objects of transactions apart; `Joined(p)` says of channels what `HostHasPeer` does, and that their
  transactions have a host; `Reserves(p)` and `Given` say that a reservation, in a step or on the wire, names a channel of its
  host. `HostReserveLands` follows from the last two together: a server without channels faces a host whose channel it hosts itself. Steps read what no step takes back (`Grows`), so that each of them disturbs one
  transaction. That the port that is opened is a free one needs the least of a set of numbers to exist (`Smallest`), by well-foundedness.

* `ChannelProofs!IntegersReadBack`, `ContentsReadBack`, `ContentsWhole`, `ValuesReadBack`, about `Codec`, for every base and width. The library's induction theorems
  take an operator, which the provers cannot instantiate; `Induct` is the same for a *set* of numbers, from the well-foundedness of `<`. With it a recursive
  function is shown to be the one that satisfies its equation (`Recursion`), which every recursive function of `Codec` is then known by
  (`ShiftedIs`, `LastDigitsIs`, `LoadItemsIs`, `UploadAddressesReads`), and so is `FlattenSeq` of the community modules (`FlattenIs`). The digits of a number are those that make it
  (`UnsignedOfEncode`, `EncodeOfUnsigned`), also after the sign. Elements written one behind the other (`Written`) are found again between what is before and behind
  (`Holds`, `Stepping`); so what the loop of `deparseBuffer` has loaded is what it has passed, whatever the bytes (`Loaders`, `ContentsWhole`), and all of it if `parseBuffers` wrote them
  (`ContentsReadBack`). `ValuesReadBack` is that of each kind of unit. The last two ask that the bytes are not more than an `int` can count.
* `ChannelProofs!WholePackets`, `AlignedPackets`: `Spec => []WholeOrRefused` and `Spec => []AlignedUnlessShort` of `Framing`, for all types, transactions and values and any number of packets. `WholeOrRefused`
  needs `Types` and `Unbroken`: what was given was loaded for the type the receiver *has* of the transaction, and that type stays; then `ContentsWhole`. `AlignedUnlessShort` is not inductive:
  it says nothing of what was given without being read, nor which packet the stream begins with. `Aligned` says, as long as nothing came short, that what was given
  are the items that were sent (`Given`), that the receiver's types are the sender's (`Known`), and that the receiver is `Between` two packets, or `Inside` the next, whose size it keeps. A send appends to what is ahead, a size moves in, a body
  moves out and gives what was sent, because the header is read as it was written and `ContentsReadBack`; and every unit of it is read by `ValuesReadBack` and never behind its end (`NothingBeyond`).
  It is assumed that a packet's length is an `int` (`SizesFit`: the code adds it up in one), and that types and transactions fit in the header and steps assign values
  of the unit's kind (`TypesAssumption`, `BoundsAssumption`); TLC evaluates the three on the run.

Model-checked only: liveness (fairness and ENABLED are out of the prover's reach): `Completes` and `FaultsShared` of `Transactions`, `Settles` and `AcceptedJoins` of `Handshake`, `Settles` of `Shadows`,
`Removed` of `ClientLifecycle`, `Heard` of `ClientCenter`, `Delivered` of `Framing`, `Ends` of `Catalogs`. Every other invariant and action property of a run that passes is a theorem.

## 6. Plan

In this order; each module with its run, then its proofs.

1. Done: `Transactions`, `TransactionSpace`, `Handshake`, `ThreadSafeList`, `ClientLifecycle`, `ClientCenter`, `Shadows`, `Codec`, `Framing`, `Catalogs`, `Interfaces`.
2. Done: theorems for every safety invariant and action property of the runs that pass, of every module above.
   Also done: that `Transactions` implements `TransactionSpace` and `TransactionContract`, and `Handshake` `HandshakeContract`; and that the codec reads back
   whatever it has written. The liveness properties stay with TLC.
3. Left: the total size and prefix that the contents of the meeting have in front of their items; the second role of a client in `Catalogs`.

Not modelled, and why:

* The chat and network modules: most of what keeps their state has no body in the repository.
  `ChatSystem::getClientInterface` and `useChannel` are empty and `getClientPrivateInterface` is only declared
  (`DPN_Chat.h:99`), `messageReceived` does nothing, no code assigns the text of a message to its unit
  (`DPN_ChatProcessors.h:34`), so that the server's step refuses every one; the `Base` of the network's processors and its interfaces are
  only declared (`DPN_NetworkProcessors.h:10`), and `makeProxy` calls them. Their lines, host, server, host, begin like the longer one of the
  instance of `Transactions`, and their units are kinds of `Codec`.
* The file transport: `generate` and `process` of `IO__FILE` are commented out; `RequestFile` too.
* Media (a device), crypto (a hash of an external library), text commands (parsing), globals and time.
