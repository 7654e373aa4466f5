# OperRedesPI in TLA+

Models, model-checking runs and proofs for the two programs of this repository:
the reliable file transfer over UDP of `Etapa1` and the software routers of
`Etapa2`. Every definition is read off the C sources; `PROJECT.json` gives, under
`map`, the lines each one stands for.

## 1. Inventory of the system

### Etapa1: a sensor's file, sent reliably over UDP

| component | state | operations |
|---|---|---|
| sensor (`sensor/*.py`) | the text file | append a line on motion; every *n* seconds run `server` to its end |
| `server` (`user/src/server*.c`) | `success`, position in the file | open, read a block, build DATA or END, call `sys_sendFrame`, report |
| kernel protocol (`kernel/src/stopAndWait.c`, `syscallModule.c`, `kernelSocket.c`) | `kSocket`, `currentSeq`; per call `attempt` | `sys_initProtocol` (bit 0, new socket), `sys_sendFrame` (send, wait 100 ms for the ACK, at most 15 times; release the socket on `-ETIMEDOUT`) |
| receiver (`user/src/clientUser.c`) | `expectedSequence`, the output file | for each datagram: END, expected DATA, other DATA; answer with an ACK |

The sender and the receiver share nothing but datagrams. The kernel's state
outlives the `server` process; the receiver outlives many `server` runs, and its
bit is never told that a new run begins. What is hard: datagrams lost, doubled,
late or reordered; an ACK racing the timer; ACKs of an earlier attempt or
session; a socket released under a frame still to be sent; processes killed and
restarted between any two steps. What makes it correct: the output is in order
and free of duplicates; no block is skipped; `Envio exitoso` means that the file
is there; every call ends.

### Etapa2: routers, a paged routing table, hosts

| component | state | operations |
|---|---|---|
| MMU and memory (`router/src/mmu.c`, `virtualMemory.c`) | page table, TLB, next victim, 256 bytes | translate (hit, miss and FIFO refill), read and write a byte |
| routing table (`routingTable.c`) | 32 routes, a page each | `saveRoute`, `findRoute`, `getRouteIp` |
| forwarding (`forwarding.c`, `configParser.c`) | `tableMutex`, local hosts, own address | handlers of ANNOUNCE, ADVERTISE and DATA; initial announcements |
| sockets and threads (`router.c`, `main.c`) | listening, main and periodic threads; `peers_fds`, `peer_ips`, `running` | start, select/accept/recv, ANNOUNCE every 25 s, stop |
| frame text (`protocol.c`) | none | `decodeFrame`, `encodeFrame` |
| hosts (`host/src/*.c`) | a connection | announce and listen; send a message or a file by lines |

Routers talk by ANNOUNCE datagrams (UDP) and by ADVERTISE and DATA messages,
each on a TCP connection of its own; hosts keep one connection open. Inside a
router the listening thread runs every handler, while the main thread is still
walking the table to advertise it. What is hard: two threads on an MMU that is
not reentrant; a table that grows under an index walk; a full table; messages
that arrive in any order, or never; routers that stop and come back with an empty
table; routing loops, with frames that carry no hop count; descriptors that are
closed and reused while a route still names them; lines cut by TCP. What makes it
correct: the table behaves as a list of routes, one whole call at a time; the TLB
agrees with the page table; every router ends up with a way to each destination;
a host's own route stays its own; no packet circulates for ever.

`Kernel-Image-*`, `red`, `assets`, `Trabajos en Clase`, `Etapa3` and `Etapa4` hold
built kernels, scripts, material and placeholders: nothing to model. The tests
of `Etapa2` are drivers; `router/src/main.c` and `test_main.c` are demonstrations.

## 2. Modules

| module | what it is |
|---|---|
| `FileTransfer` | abstract promise of Etapa1: sessions one after another, what each tells its user, and what the receiver's file holds |
| `StopAndWait` | Etapa1: sender, system calls, network, receiver |
| `StopAndWait_proofs`, `StopAndWait_refinement` | its theorems: types and order; the bits in phase, and that it implements `FileTransfer` |
| `RouteStore` | abstract promise of the routing table: a list of routes, whole calls |
| `Mmu` | page table and TLB; the statements of a refill are separate operators |
| `RouteTable` | Etapa2: the table on the paged memory, two threads, the mutex; extends `Mmu` |
| `RouteTable_proofs` | its theorems: MMU, table and walk; that it implements `RouteStore` |
| `RouterNetwork` | Etapa2: how a network of routers spreads the route to one destination, and a DATA packet follows it |
| `RouterNetwork_proofs` | its theorems |
| `FrameCodec` | Etapa2: the text of a frame, `decodeFrame` and `encodeFrame` |
| `FileRelay` | Etapa2: `--send`, one router or two, `--listen`, and the streams between them; extends `FrameCodec` |
| `FileRelay_proofs` | its theorems on types, on what arrives and on where, and the lemmas on texts, lines, chunks and frames they rest on |
| `FileRelay_delivery` | its theorem that nothing is lost, and the lemmas that count messages; extends `FileRelay_proofs` |
| `RouterSockets` | Etapa2: descriptors, threads, start and stop of one router, and its hosts |
| `RouterSockets_proofs` | its theorems |
| `MinTheorems` | least elements of sets of numbers, and induction by them, for the proofs of `RouteTable`, `RouterSockets` and `FileRelay` |
| `MC*` | values for TLC |

`RouteTable`, `RouterNetwork`, `FileRelay` and `RouterSockets` are four cuts through the
same router. What one shows the next takes for granted: calls of the table are atomic
(`RouteTable`), so a handler is one step in `RouterNetwork`; a DATA frame is written to
the descriptor of its host's own connection (`RouterSockets`), so `FileRelay` needs only to know
whether the host has announced itself.

Operators placed just before a definition and called its *mutant* are plausible
slips in the code it models. They take part in no specification; replacing the
definition by its mutant must break the property named under `mutants`.

### StopAndWait

A step is a system call's send, what its `recvfrom` returns, or the receiver's
handling of a datagram. Variables keep the names of the code (`currentSeq`,
`kSocket`, `attempt`, `expectedSequence`, `success`, `outputFile`). A run of
`server` is a *session*; a session's socket and its port are named by its number, so that an
ACK to a released socket is lost and a new socket starts with an empty queue, as
in `initProtocolState`. That leaves out one thing: the kernel chooses the port (`kernelSocket.c:23`) and might choose
the last one again, see section 6. A frame carries its bit and, for the properties only, the
session and block it stands for; the receiver looks at the bit and at whether it
is END, nothing else.

`StartTransfer` is `sys_initProtocol` and the first frame (a failure to create the
socket is ignored there too); `Transmit` one turn of the loop, with the simulated
loss part of the network's; `Timeout`, `ValidAck`, `InvalidAck` and `SocketError`
the ways out of `recvfrom`; `Retry` the next turn, or `-ETIMEDOUT` and the release of the
socket; `FrameFailed` the rest of `sendFileOverProtocol`, which sends END even
after a failed block. `Receive` takes one datagram through exactly one of
`ReceiveEnd`, `ReceiveNew`, `ReceiveDuplicate`, ACK included; `WriteBlock` may fail, which
the code reports and then ignores. `receiverFailed` remembers, for the properties, that
the receiver was restarted or could not write.

`KeepsPromise` says that all of this implements `FileTransfer`, over any number of sessions
and with every fault but reordering: it is the identity on the shared variables, and every
datagram, timer and bit is a stutter.

Faults are a parameter: an unreadable file, a missing socket, an error of the
socket, a killed process, a failed `fwrite`, a restarted receiver, a doubled or
reordered datagram. Loss is always possible.

### Mmu and RouteTable

A word of a route is read or written with one translation, since its four bytes
are in one page. The search of the TLB, the four statements of a refill and the
access are separate steps of the thread, so that only the mutex makes them
atomic. The main thread preloads the hosts of `config.txt` without the mutex
(the other thread does not exist yet) and then walks the table
(`sendInitialAdvertise`), releasing the mutex between two entries. The listening
thread makes, in any order, the calls of its handlers: `learnRoute` (search and save
in one section), the lookup of a DATA frame, and the entry-and-route pair of
`sendTableToSocket`. Addresses and next hops are positive numbers, 0 is "no route"
as in the code.

`ImplementsStore` maps the pages with a next hop, in their order, to the list of `RouteStore` (`Routes`). A new route
exists from the step that writes its next hop, the second of its two words; an
update from the step that writes the hop; a call's reply is decided while it holds
the mutex. Every other step is a stutter.

### RouterNetwork

One destination at a time: handlers treat destinations independently, and that
a walk of the table reaches all of them is what `RouteTable` checks. The
destination is a host of `Home`, or `Home`'s own address (`isHost`, chosen at the start), which differ:
a host is preloaded and advertised by `Home`, an address is learnt from `Home`'s
ANNOUNCE only. A route is a neighbor, `Local`, or none. A handler of
the listening thread is one step, with everything it saves and sends; the initial
walk of the main thread is a step of its own (`walk`), because it races with the
handlers. `Reply` is `sendTableToSocket`, `AnnounceToNeighbors` has the code's
`exceptNextHop`, `Stop` loses the table and what was on its way to the router.

### FrameCodec and FileRelay

A text is a sequence of characters, except that a type word is one, and an address one or
two: the code compares whole words and leaves addresses to `inet_pton`. What it does tell
apart is there: separators, CR, LF, NUL, an address that begins with another, one it refuses (0.0.0.0). `Decode`
follows `decodeFrame` (text up to NUL, line ends off both ends, a second separator in
DATA and only there); `Encode` the sizes of `encodeFrame`.

`At(s, D)` is what a loop keeps of a sequence, the elements at the places in D; `Ascending` counts those places. `FrameCodecAssumption` says
what `inet_pton` and `inet_ntop` provide: an address has no type word, separator, line end or NUL in it.

A stream keeps characters and their order. A `recv` takes any part of what has come, up to the
buffer (`Chunks`); one that ends within a line counts as a *cut*. `Dispatched` is the loop of
`listening` (all lines, less a CR each; the whole chunk when it holds no newline; nothing of
what follows the last one), `Messages` that of `keepListening`. `SendLine` is a turn of
`sendFile`, `fgets` and its buffer included; `EndOfFile` sends the one empty message
of an empty file. `DeliverToHost` and `DeliverToNeighbor` are DATA at either router, the second with
a connection per frame, which may fail; `PartsOf` chooses which frames survive. The route to a neighbor is present or not at any
moment: `RouterNetwork` says when.
`unread`, `sent`, `result`, `output` are variables of the code or what it has said and
written; `missed` remembers a dropped frame for the properties.

### RouterSockets

`open` says what each descriptor is; a new socket gets the lowest free one, as the kernel
promises. `main` is the main thread's place: the two sockets and the listening thread, each of which may fail;
the initial walk, with a socket per message (`temp`); the thread of announcements, which may not start;
the loop until Ctrl+C; `endRouterListen`, join by join. `announcer` sees `running`, then uses the UDP socket.
`listener` is at the head of its loop (`Select`), at the accept, or among the copied slots (`Read`): `ready` is
what select returned, `todo` the copy of `peers_fds`, both of which grow old while it runs. The code copies
only the slots in use; here an empty one is passed over, which is the same loop. The lock
around `peers_fds` guards single calls of this one thread, so those calls are parts of its steps.

A connection is one run of a host program: `--listen` announces its host, `--send` gives one DATA for some
host; either hangs up when it likes, and what it sent may still be read. `Announce` and `SendToHost` are what the table does
with them: the route of a local host is a number, which `config.txt` sets and an ANNOUNCE replaces,
and nothing checks what the number is by now. `wrote` and `owner` remember, for the properties, the last
DATA and who announced each host last.

## 3. Runs

| run | bounds | checks |
|---|---|---|
| `StopAndWait_sessions` | files of 2, 3, 1 blocks; 3 retries, 3 datagrams each way; every fault but reordering | `TypeOK`, `InOrder`, `Contiguous`, `OkMeansAllButFirst`, `AckMeansInPhase`; implements `FileTransfer`; `SessionEnds` |
| `StopAndWait_lostBlock` | files of 2 and 3 blocks; no fault but loss | *violation* of `OkMeansDelivered` |
| `StopAndWait_reordered` | one session of 3 blocks; reordering | *violation* of `NoDuplicate` |
| `RouteTable_full` | 3 pages, TLB of 2, two preloaded hosts, 4 destinations, 2 next hops | `TypeOK`, `MmuIntact`, `Compact`, `AdvertisesHosts`; implements `RouteStore`; `WalkEnds` |
| `RouterNetwork_converge` | line of 3, a host at one end or the router there, one stop | `TypeOK`, `Converges` |
| `RouterNetwork_packets` | line of 3, host at one end, DATA packets, no stop | `PacketEnds` |
| `RouterNetwork_ring` | ring of 3, one stop | `HostStaysHome`, `PromisedByOneThatKnows`, `HandlersSplitHorizon` |
| `RouterNetwork_splitHorizon` | line of 3 | *violation* of `SplitHorizon` |
| `RouterNetwork_fullTable` | line of 3, the middle one's table full | *violation* of `AdvertisesWhatItStored` |
| `FileRelay_lines` | 11 files and messages; buffers of 15, lines of 4; two addresses; 2 cuts; one router or two | `TypeOK`, `Faithful`, `Complete`, `ForThisHost` |
| `RouterSockets_threads` | 2 hosts, 3 connections, 2 slots, 7 descriptors, one socket of the walk | `TypeOK`, `PeersOpen`, `NeverBlocks`, `ClosedUnused`, `OwnMail`, `Heard`, `StopsClean` |
| `RouterSockets_misdelivered` | the same with 3 slots and no walk | *violation* of `MailForThisPC` |

The exact constants are in the `.cfg` files and the `MC*` modules.

**Why the bounds are enough to be of interest.** Three retries
have retransmissions and a time-out; three sessions reach a receiver that is out
of phase, then out of phase again, with frames and ACKs of the sessions before
still in flight; three datagrams in a queue hold an old, a doubled and a current
frame. Four destinations on three pages fill the table and go past it; a TLB
smaller than the table replaces entries. Three routers are the least with a
router in the middle, which is where two neighbors can point at each other; the
ring is the least with a cycle. `RouterNetwork` keeps a message between two
routers in flight at most once: a second copy of the same message is handled as
the first, and both are lost or delivered on their own in the code.
`FileRelay` keeps the proportions of the code's buffers: the longest line and its frame just fit, the longest
message does not; files are empty, end with and without a line end, have an empty line, CR LF, a NUL, a separator, a line that
`fgets` splits and one that just fills its buffer. Two cuts can cut one frame twice, or the ANNOUNCE and a frame.
In `RouterSockets` two slots for three connections fill the array; seven descriptors are
two standard ones, two sockets and three for three connections and the walk, so that one of them finds none; each host's
descriptor can be given to the other, to a sender or to the walk; the interface number of the second host, 5, is such a descriptor, that of the first is not.

**Deadlock** is checked in the runs of `RouteTable` and `RouterNetwork`. The others really stop: the
sessions of `StopAndWait` are a finite list, the programs of `FileRelay` end when all is read, and a
router of `RouterSockets` exits.

**Fairness.** `StopAndWait`: weak fairness of the sender's own steps only, because a
transmission returns and `recvfrom` has a timer; nothing is assumed of the network
or of the receiver. `RouteTable`: a thread that runs goes on (weak), and gets a mutex
that is free again and again (strong: a POSIX mutex does not promise the order of
its waiters, but the holders here release it between any two calls and sleep in
`select`). `RouterNetwork`: a router that is down is run again, threads go on
(weak), and a message that is sent again and again gets through (strong), which the
periodic ANNOUNCE and its reply provide; loss is never forced to stop otherwise.
The number of stops is bounded, so *convergence* is meant after the last one. `RouterSockets`: each
of the three threads runs (weak); nothing is assumed of hosts, and Ctrl+C need not come. The listening thread may
wait for ever at `select` only when nothing can be read and it is not told to stop, because of the timer of a second (`router.c:216-219`).
A write to a host is taken to return.

## 4. What the runs show

* The alternating bit does its work within its limits: whatever fails, as long as
  the network keeps the order of frames, the file is ordered, free of duplicates
  and of holes inside a session, and no stale ACK is ever taken for a new one, as long as no session gets the port of an earlier one.
* **A session may lose its first block and report success**
  (`StopAndWait_lostBlock`). The receiver keeps its bit over END
  (`clientUser.c:120-131`); the sender starts each session at 0. After a file with
  an even number of blocks the receiver is at bit 1, confirms the next session's first block
  as a duplicate and does not write it. `OkMeansAllButFirst` shows that this is all
  that can be lost: from the second block on, both sides are in phase.
* **On a network that reorders, a block can be stored twice**
  (`StopAndWait_reordered`), contrary to `stopAndWait.c:13-14`.
* The table is linearizable and the TLB coherent because of the mutex, and only
  because of it (mutant `LockAnyway`). On a full table `learnRoute` calls every
  unknown destination news for ever: the abstract `Learn` says so, too.
* **The initial walk breaks the split horizon** (`RouterNetwork_splitHorizon`):
  the listening thread starts first (`router.c:174`, then 185), so what is advertised is
  not only the preloaded hosts of `forwarding.h:16`. Two routers may then point at each
  other. On a line the periodic ANNOUNCE undoes such loops: routes converge and no packet
  circulates for ever. `HandlersSplitHorizon` shows that nothing else breaks it.
* **A router with a full table advertises what it could not store**
  (`RouterNetwork_fullTable`): `learnRoute` ignores what `saveRoute` returns
  (`forwarding.c:91`), so its neighbors route to one that drops their packets.
* `PromisedByOneThatKnows` says that a next hop knows the destination, not that the hops lead there: whether they do is
  the question of `Converges` and `PacketEnds`, on a line. It holds as long as no table is full and no
  router stops: after a stop a neighbor may send to a router that has forgotten the route. On a ring, convergence is not
  claimed: crossing messages may make loops again and again.

* **A host may receive another's DATA** (`RouterSockets_misdelivered`): a route outlives its
  descriptor, and a listener takes every DATA frame whatever its address
  (`listener.c:113`), in spite of `listener.h:7`. `OwnMail` shows how far this goes: a host that is connected and has announced
  itself gets all its DATA; only the DATA of one that left, or has not come yet, goes astray, to
  a connection that has its old number or the one in `config.txt`, even to a socket on which the main thread is sending its table.
  The run shows the first case. Of the second no property speaks: `configParser.h:9` says that the number in `config.txt` will be
  translated to a descriptor, and until the host's ANNOUNCE it is not (`forwarding.c:26`). The numbers 1 to 4 of the `config.txt` in the repository are descriptors that are open
  before any connection, so no host's; a fifth host's would be the first connection's.
* `peers_fds`, the kernel's descriptors and the answer of `select` agree although
  they are of different ages (`PeersOpen`, `NeverBlocks`), because the listening thread alone
  closes what it watches. A connection that finds no slot stays open, unread, until the
  process ends: `Heard` is about the others. (`router.h:44`, "Lee tramas entrantes desde los sockets", is too loose to say more of it.) Ctrl+C ends the threads before their sockets (`ClosedUnused`,
  `StopsClean`), unless the thread of announcements never started: `endRouterListen` joins it all the same,
  which is undefined.
* **TCP does not keep lines.** A line that one `recv` ends within is lost, cut short or
  delivered short, while the sender reports "enviado exitosamente"; `Faithful` shows the limit of the damage: no line is made up,
  none arrives twice, and none overtakes another within a router. Between two routers each frame has a connection
  of its own, and lines may change places.
* Without cuts and losses a file arrives as it is (`Complete`), with the exceptions the property spells out: a line of 899 characters or
  more is split by `fgets` (at exactly 899 an empty line follows), a NUL ends a line, an empty file arrives as one empty
  line, a message ends at its first line end. An empty file "sent" to an address that `buildFrame` refuses is reported as a success.
  Text that looks like a frame of its own is not among the inputs: where a cut sets its beginning free, or in a message where a
  line end does, it is taken for a frame, and TLC finds `Faithful`, or `ForThisHost` without any cut, violated at once. The theorems on these properties have it as a
  hypothesis that there is no such text (`PlainTexts`).
* A cut ANNOUNCE can register the host whose address is a beginning of the listener's own, as 10.0.0.1 of 10.0.0.10: `router.c:290` dispatches a
  chunk without a newline as if it were whole, and the listener is then given that host's DATA. It happens in `FileRelay_lines`, and `ForThisHost` says that
  nothing worse does: whatever is cut, no other address is ever registered or served.

## 5. Proofs

All theorems hold for every value of the constants that the module's assumption allows.
Each safety property is the consequence of an inductive invariant, which TLC checked on
instances like those of the runs before it was proved. Eight modules hold theorems.

### Etapa1

`StopAndWaitAssumption` allows any files, at least one retry, any queue bound, any set of faults.

* `TypeCorrect == Spec => []TypeOK`, by the inductive invariant
  `TypeInv == TypeOK /\ SenderInv`: the type of the frame in `Transmit` needs that a
  sender in a call is in a session that began (`SenderInv`).
* `StoredInOrder`: if `"reorder" \notin Faults`, `Spec => []InOrder`. `InOrder` speaks of
  the stored blocks alone and is not inductive; `OrderInv` adds that the frames in
  flight are ordered by what they carry, none newer than the frame being sent
  (`FramesInv`), that all transmissions of one block carry one bit, and that a block which is
  stored and may still arrive, from the queue or from the sender, has the bit the receiver
  refuses (`StoredInv`). Every action then either leaves the
  queue alone, adds the newest frame, or takes the oldest one. The case of a receiver
  that is out of phase, or restarted, is covered: order does not depend on it.
* `AcksArriveInPhase`, `NoHoles`, `DeliveredButFirst` (`AckMeansInPhase`, `Contiguous`,
  `OkMeansAllButFirst`), with the same hypothesis, from `FullInv`, which adds to `OrderInv`
  * `PhaseInv`, the argument of the alternating bit: of the running session's frames those with the former
    bit come first, then those with the sender's; the ACKs that its socket may still read first say that its bit is awaited,
    then that it has arrived, and once the receiver awaits that bit there are none of the second kind. As long as
    frames of former sessions are in front nothing of this session has arrived, and the sender is at
    its first block or, after failing with it, at END: this is what several sessions over one receiver add to the textbook argument;
  * `ControlInv`: what the sender knows of its sessions; END follows a failure or the last block;
  * `DeliveryInv`: a block has arrived when the receiver no longer awaits its bit; when a block is sent,
    those before it have arrived, from the first on in the first session and from
    the second on in the others (`First`), which is where the lost block of `StopAndWait_lostBlock` fits in.
* `PromiseKept == Spec => KeepsPromise`: the protocol implements `FileTransfer`. `Deliver` needs `FullInv`
  (nothing later is stored, nothing needed is missing), `Succeed` that all blocks have arrived when END is sent
  after success; every timer, retransmission, ACK and duplicate stutters.

The hypothesis on reordering is needed: `StopAndWait_reordered` is what happens without it.
After a receiver has failed (restart, `fwrite`) the last four promise order only, as the properties say.

Lemmas: `CarriedShape` and `RemoveAtProperties` state what the network and a
delivery do to a queue, `OldestLeaves`, `YoungestJoins`, `AckJoins` and `AcksLeave` the same of the model's two queues;
`Positions` and `BeforeIsOrder` the order of frames; `TransmitKeepsOrder`, `ReceiveKeepsOrder`, `SenderMovesOn` and the
lemmas named `...KeepsPhase` one kind of step each.

### The routing table

`MmuAssumption` and `RouteTableAssumption` allow any number of pages and of TLB slots (at least one each), any `config.txt`
and any routes met later. `RouteTable_proofs` proves `TypeCorrect`, `MmuStaysIntact`,
`TableStaysCompact` and `HostsAdvertised` (`AdvertisesHosts`) from one invariant, `Inv`, of named parts:

* `MutexInv`: one thread at a time is inside a call; the main thread works without the mutex only before the other exists. All else rests on it;
* `CallInv`: where a thread is belongs to the call it makes, and its indices are in range;
* `MmuInv`: at each of the four statements of a refill, what the victim slot holds, and that no other slot has the page.
  `MmuIntact` is this with no refill under way;
* `ScanInv`: what a search has seen so far: no page before the index has the destination, and the free page it noted is the
  first one. So a new route goes behind the last and is nowhere else, which is `Compact`;
* `TableInv`: only the page being written lacks a next hop;
* `BootInv`: the boot takes at most one page per line, so that a line of `config.txt` is in the table unless its number is above that of the pages;
* `WalkInv`: the walk has advertised exactly the pages below its cursor, whose destinations no call changes, so the walk ends only
  behind the last route, however much the table grew.

The module's second part proves `TableImplementsStore == Spec => ImplementsStore`. Each step is a stutter
but for those at which a call takes effect: `WriteHop` for a new route (`AppendSimulates`) and for an update
(`UpdateSimulates`); the reading of the word that decides an answer for `findRoute` (`FindIpSimulates`, `FindHopSimulates`) and for
`getRouteIp` (`EntrySimulates`); the last word read of a full table (`SaveScanSimulates`), where `Learn` stores nothing and answers "news".
`RouteStore` does not say which index a `getRouteIp` asked for; that the walk asks for the right ones is `AdvertisesHosts`.
`RoutesAreAList` and `RoutesOfPages` say what the mapping yields: because of `Compact` the pages with a route are a
sequence, and outside `newHop` they are those with a destination. `Routes` is a function on those pages and not a
`SelectSeq`, which takes an operator, so that the provers know nothing of it; on a compact table the two are equal.

### The network of routers

`RouterNetworkAssumption` allows any finite or infinite symmetric network and any set of full tables. `RouterNetwork_proofs`
proves `TypeCorrect`, `HostNeverLeaves` (`HostStaysHome`), `PromisesKept` (`PromisedByOneThatKnows`) and the
action property `HandlersKeepSplitHorizon`, from `Inv == TypeOK /\ RouteInv /\ PromiseInv`. `RouteInv`: only a router that runs has a route, only
`Home` has the host's, and always while it runs. `PromiseInv` follows a promise from the router that knows, through the messages on their way,
to the route it becomes; it holds until the first stop and with room in all tables, the conditions that the property itself states.
`AdvertisedIsStored`: if `FullTables = {}`, `Spec => AdvertisesWhatItStored`. This is the
property that `RouterNetwork_fullTable` finds violated, so a full table is the only way to violate it.

### Sockets and threads

`RouterSockets_proofs`, for all values of the constants allowed by `RouterSocketsAssumption` (any hosts and
interface numbers, any connections, at least one slot, at least five descriptors): `TypeCorrect`,
`PeersStayOpen`, `RecvNeverBlocks`, `SocketsOutliveThreads` and the action property `OwnMailDelivered`, all from one inductive invariant, `Inv`.
Besides `TypeOK` and `PeersOpen` it needs

* `PhaseInv`: at each place of the main thread, which sockets are open and which threads may run. So
  `select` never meets a closed socket, and `endRouterListen` closes only what nobody uses;
* `ConnectionsInv`: a connection has one descriptor, and none before it is accepted. So closing one
  never closes another;
* `TodoInv`: until its turn comes, what is in the copy is still in `peers_fds`, and what `select` called
  readable still is. The accept in between takes a free descriptor, which `select` cannot have named, and hosts
  only add to what can be read;
* `OwnerInv`: if the connection that announced a host last is open, the host's route is its descriptor.

`SocketOpened`, `SocketsClosed` and `SocketsStay` are the three ways in which a step of the main thread
can concern the connections; `TurnKeepsTodo` is what every turn of the loop has in common; `MinIsMember` (the
lowest free descriptor is a free descriptor) rests on the library's theorem that the naturals are well-founded.

### The relay of frames

`FileRelay_proofs`, for all addresses, tables of hosts, sizes of the buffers, files and messages, and any number of cuts that `FrameCodecAssumption` and
`FileRelayAssumption` allow. The latter asks of the sizes only that the text of a line, in a DATA frame, fits the buffers, as 900 and 1024 do.

* `TypeCorrect == Spec => []TypeOK`. That a frame passed on, or a line of the file, is shorter than a buffer depends on where lines end in
  streams that are cut anywhere, so `TypeInv` adds `Streams`: no connection ends within a frame (`Whole`), which is why no
  frame is empty when a connection's rest is read, and on the sender's connection a line is never longer than a buffer (`ShortLines`), which is
  why a chunk without a line end still leaves room for one when it is passed on.
* `FramesStayFaithful`: if `PlainTexts`, `Spec => []Faithful`. `Faithful` speaks of the file alone. `Origins` says of every
  place a frame can be in (the file, the listener's connection, each connection between the routers, the sender's) which
  of the frames sent are there, whole or in part: for each `"DATA"` in a stream, which frame begins there (`Carries`); for each line of the file, which text it is
  the beginning of (`Sourced`). No frame is in two places, and within one router a place nearer to the
  file has the older frames (`InOrder`). A recv divides what a stream carries (`CarriesSplit`); the lines of a chunk are beginnings of
  frames that begin in it, each of its own (`FramesOfChunk`), although the chunk may end within one; what is passed on carries them again
  (`CarriesForwarded`); and what `decodeFrame` finds in the beginning of a frame, if it finds anything, is the frame's address and the beginning of its data (`DecodedData`).
  What a cut leaves over of a frame has no type word in it, by `PlainTexts`, so it is never a frame: this is where the hypothesis is used.
* `FileIsForThisHost`: if `PlainTexts`, `Spec => []ForThisHost`, by `Origins` and `OneHost`. Only the first chunk of the listener's stream has the type word, and
  what a chunk of it announces is a beginning of its address (`AnnounceInChunk`, `BeginningAnnounced`), so the table has no others; until a recv ends within a line the ANNOUNCE
  is read whole and decoded as that address (`Announced`). What passes is for an address of the table (`DeliveredToHost`).

* `NothingIsLost`: if `PlainTexts`, `Arguments` (an argument of a program has no NUL) and `TidyTexts`, `Spec => []Complete`. `FileRelay_delivery` proves
  it from `TypeInv /\ Origins /\ OneLines /\ Accounts /\ Progress /\ Spelled`, along this argument:
  * `Accounts`: as long as no recv ended within a line and nothing was dropped, the lines of the file and the messages on the way to it are those of the
    frames that were sent (`Gots`): within one router as one sequence in the order of sending, between two routers each as often as it was sent. A chunk
    that ends with a line end divides the messages of its stream (`UncutMessages`); what is passed on of it carries all its messages (`UncutTaken`), because
    `decodeFrame` finds in a line, exactly, what it finds after the next `recv` (`DecodedExactly`, `DispatchedMessages`, `ForwardedMessages`); a frame that is sent is one message,
    even if its text has a line end in it, since what follows that is no frame by `PlainTexts` (`MessagesOfFrame`). `Arguments` is used here: a NUL would cut the frame itself.
  * `OneLines`: a connection between the routers carries one frame, so the recv that returns it whole takes it off the way.
  * `Progress`: for a file without a line that `fgets` splits, what was sent and what is still to be sent of `unread` are what an editor shows of the file
    (`LineTaken`: a turn of the loop takes a line).
  * `Spelled`: wherever `fgets` splits lines, the characters sent and those still to be read are those of the file, but for line ends (`PieceTaken`).
    `TidyTexts` asks that a file with such a line has no NUL, and no CR but before a line end: the others keep a CR within a line, and lose what follows a NUL,
    so that the property, which speaks of characters there, is not meant for them.

  When all streams are empty, `Accounts` says that the file has just what was sent (`AllArrived`), and the other two that this is what was wanted.

The operators of the codec are folds and searches, so the lemmas under "The operators on texts" say first where each cuts a text. `FlattenSeq` is recursive: `FlattenInduction`
proves what holds of it by `AllNumbers`, the induction of `MinTheorems`, which takes a set and not an operator.

### Only model-checked

* Liveness: `SessionEnds`, `WalkEnds`, `Converges`, `PacketEnds`, `Heard`, `StopsClean`. Fairness and ENABLED are out of the
  prover's reach.
* Of `FileRelay.Complete`, nothing but what its hypotheses leave out, of which the run has no instance either: texts with a frame in them, and files that have both a line to split and a NUL or a lone CR.
* The properties of the runs that expect a violation are false, so there is nothing to prove but the bound on the damage, as above.

## 6. Not modelled, and the plan

Still to do, in this order:

1. Two `server` processes at once on `kSocket` and `currentSeq`. The sensor scripts wait for one to
   end before the next, so the sessions modelled follow one another; a socket released under another
   process's `recvfrom` is undefined behaviour of the kernel, of which nothing could be claimed.
2. Which rows of the sensor a session sends. `Files[s]` is the number of blocks that session `s` reads before it
   sees the end of the file, so that rows appended meanwhile are covered as far as the protocol is concerned.
3. The byte order of words in the paged memory. `removeRouteBySocket` has no caller, so nothing says in which states it would run.
4. The limits of `config.txt` (8 neighbors, 16 hosts) and the text of its lines; what is modelled is
   what a well-formed file means.
5. Ports that are given again. An ACK names neither the session nor the block, and `recvfrom` on the kernel's socket looks at no sender, so when
   the kernel gives a session the port of an earlier one, an ACK that is late by a session may pass for a new one. `AckMeansInPhase` and
   `OkMeansAllButFirst` are about sessions with ports of their own.
6. Time and back-pressure: a neighbor that delays the listening thread by up to a second per message, a host that does not read its
   socket, a router that goes away under a host. Steps that may take long are steps here.

Left out for good: wording of logs, the kernel's own UDP and TCP, GPIO and timers of the sensor, built
images, the demonstration programs and tests of `Etapa2`, class exercises.

`tests/protocol_test.c` of `Etapa2` is of an earlier state of the code: it includes `frameRouting.h`, which does not exist, and expects
`decodeFrame` to refuse texts that `protocol.c` takes. No property is drawn from it.
