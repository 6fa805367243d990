# A TLA+ model of NetBoot-Daemon

NetBoot-Daemon is a network boot server: a DHCP proxy (port 67), a PXE boot
server (port 4011, "BOOTP" in the code) and the first message of a TFTP server
(port 69). This directory holds TLA+ modules that model it, TLC configurations
that check small instances, and TLAPS proofs of its safety properties for every
instance.
Paths are relative to `src/Netbootd-Network/Netbootd/` unless they say otherwise.

## 1. The system

### Components, their state and their operations

| component | code | state | operations |
|---|---|---|---|
| request handler | `Netbootd.cpp` `Handle_Request` | locals of a detached thread: `_client`, `c` | one call per datagram |
| client table | `Server::clients` | `std::map` from ident to `client`, no lock | `AddClient`, `HasClient`, `GetClient` (a reference), `RemoveClient` |
| listen loop | `Server::Listen` | `fd_read`, `fd_except`, and `fd_write`, which it shares with the senders | `select` for one endpoint at a time, start of a receiver thread, close |
| receivers | `__Listen` | a blocked `recvfrom` | calls `Handle_Request` with a fresh `client` object |
| senders | `Server::Send`, `__Send` | `fd_write` | `FD_ZERO`, `FD_SET`, `FD_ISSET`, a joined thread with `sendto`, `FD_CLR` |
| reply computation | `client::Init`, `Handle_DHCP_*`, `Select_Bootfile`, `DHCP_Packet`, `StripPacket` | the client object | parse, set options, order them in a packet |
| options and menu | `Include.h` `DHCP_Option`, `BS16`; `Generate*` | none | build options with lengths of one byte; swap bytes |
| TFTP | `Handle_TFTP_RRQ_Request` | `Protocol.tftp`, one `Filesystem` per request | one option acknowledgement |
| startup, shutdown | `NetBootd`, `Server::Init/Bind/Close`, `Endpoint::Init/Bind/Close` | `endpoints`, `listening`, `closeReq` | sequential calls from `main` |
| file access | `../../Netbootd-System/System/Filesystem.cpp` | `file`, `isOpen`, `filesize` | `Open`, `Read`, `Write`, `Close` |

### How they interact

`main` calls `Init`, `Listen` and `Close` in turn. `Listen` is the one loop over
all endpoints; when `select` reports a datagram it starts a detached thread and
goes on at once, so a datagram that is still unread when the loop comes round
again gets another thread. A thread that receives it builds a `client` object
and calls `Handle_Request`, which files the object under the hardware address,
copies what is filed there back, works on the copy, calls `Server::Send` and
erases the record (the TFTP branch does neither for its keys, IP addresses: it
files twice and erases in a state that is never reached). Threads meet in three
places: in `Server::clients` and in `Server::fd_write`, which have no lock, and in
the C runtime's supply of file streams.

### What is hard

* **Threads over one table.** `AddClient` keeps an existing record, `GetClient`
  throws when there is none, its reference is copied after any number of other
  steps, and every thread erases by key. Retransmissions, which PXE clients make
  by design, put two threads on one key.
* **Early returns.** Three `return`s of `Handle_Request` skip the erase.
* **A shared `fd_set`.** Each sender clears it, the loop passes an endpoint over
  while its bit is set, and `select` writes the set back when it returns.
* **Closing.** `closeReq` may be set between any two steps; a closed socket whose
  bit is in `fd_write` makes every `select` fail.
* **Retransmission and loss.** Replies are sent once and forgotten; all recovery is
  the client's. A client may hear a reply before the thread that sent it erases
  its record, and its next request meets that record.
* **A table that only grows, and streams that stay open.** The TFTP branch erases a
  record in a state no code sets, and nothing closes the stream of a read request;
  boot menus need a stream from the same supply.
* **Bytes.** Option lengths of one byte added up as signed characters, a reply cut
  at a byte value, numbers swapped several times, every byte of an architecture
  taken for an architecture, uninitialised `vendor`.

`PROJECT.json` lists these and others as hazards, at their lines, each with the
properties that watch it or the reason why none does.

### What makes each component correct

* Handler and table: a handled request leaves no record; a reply goes to the client
  that asked and is made from what it asked; the process survives; a request that
  deserves an answer gets one; none is answered twice.
* Listener: datagrams are read; receivers are not started on closed sockets and do
  not outlive them; no sender waits for ever.
* Reply: the type of the answer fits the request; it names the client's vendor; what
  it tells the client is the server's and not the client's own option sent back; the
  boot item comes back unchanged; file and
  server come together; what the client reads is not cut off.
* Options: the walk over a datagram finds what was sent and ends, and whoever reads
  the reply finds the options it was made from. (Over long options and padding the
  first does not hold, nor always the second, see `OptionField` below.)
* Handler and machines: a machine that keeps trying boots, and never hears the
  answers out of order.
* TFTP: each answer is made from a request of its host; a request that deserves an
  answer gets one unless its reply is lost, an earlier datagram of its host stands
  in its way, or no stream is left; what happens when streams run out. (That a
  request is answered from the file it names does not hold, see `Tftp` below.)
* Startup: the server listens only if every endpoint is bound; nothing stays open
  after `Close`.

## 2. Modules

| module | models | lines |
|---|---|---|
| `RequestReply` | the abstract promise: a request is accepted, then answered once or passed over; answers come from accepted requests, or from their own | 66 |
| `DhcpHandler` | the DHCP/BOOTP half of `Handle_Request` in many threads over the table | 391 |
| `DhcpHandlerProofs` | theorems about it | 888 |
| `Boot` | `DhcpHandler` composed with machines that repeat their requests and a network that loses and reorders | 217 |
| `BootProofs` | theorems about it | 239 |
| `Listener` | `Server::Listen`, `__Listen`, `Server::Send`, `RemoveEndpoint` over `fd_write` | 377 |
| `ListenerProofs` | theorems about it | 413 |
| `VendorOptions` | option lengths, boot menu, byte order (pure operators) | 92 |
| `DhcpReply` | how one reply is computed | 369 |
| `DhcpReplyProofs` | theorems about it | 1584 |
| `OptionField` | the bytes of options: the two loops of `client::Init`, `DHCP_Packet`, `StripPacket` | 345 |
| `OptionFieldProofs` | theorems about it | 2837 |
| `Tftp` | the TFTP half of `Handle_Request` in many threads, its table and the streams of the process | 419 |
| `TftpProofs` | theorems about it | 1391 |
| `Lifecycle` | `main`: opening, binding and closing of the endpoints, with failures | 261 |
| `LifecycleProofs` | theorems about it | 196 |
| `NaturalLemmas` | induction over numbers and loops of a fixed number of turns, for the proofs about options | 140 |
| `MC*` | instances for TLC | |

`DhcpHandler`, `Tftp` and `Listener` implement `RequestReply`, each for its part of
a request's life: the handlers have `Server::Send` as one step that may lose the
reply, the listener has what the handlers do before `Send` as one step. `Boot`
takes `DhcpHandler` as an instance, actions and all, and adds what is around it.

A definition whose name ends in `Bug` is a wrong variant of the definition after
it. No specification uses it; it stands for a mistake the code could contain, and
the property it is paired with in `PROJECT.json` is violated when it is put in
the place of the right one.

### DhcpHandler

`pc[t]` is where thread `t` is in `Handle_Request`: `recv` (blocked in
`recvfrom`), `add` and `lookup` (lines 260, 261), `copy` (the copy through the
reference that `GetClient` returned), `handle` (the switches, 263-331), `send`
(332), `remove` (333), `done`, and `dropped` for the early returns. `packet[t]`
is the `_client` object, `c[t]` the object it works on, `clients` the table.
`sent` and `freed` are history: whose reply left, who copied an erased record.
`fault` is what ended the process.

A record is known by the thread that parsed it, the address it is filed under,
whether a relay agent sent it, its vendor and its message type; that is
everything the handler's control flow reads. Undefined behaviour is a choice:
an uninitialised `vendor` is any vendor (`ParsedVendor`); a copy of an erased
record is the old contents, those of any record filed since, or the end of the
process (`CopyFreed`, `CopyFaults`); two threads in the map at once, one of them
changing it, may end the process (`MapRace`). Of the outcomes of that race the
model keeps the death of the process: a tree that is silently damaged and used
further is left out. `Handle` erases the record of a `RELEASE` and computes the
reply in one step: the rest works on the thread's own copy.

TFTP threads share the map, with IP addresses for keys, which never equal a
hardware address; their half of the map is in `Tftp`.

### Boot

`phase[i]` is what machine `i` waits for: an OFFER, an ACK, nothing. `Transmit` is
both the first transmission and the timer's, `net` and `answers` are sets from which
anything may arrive in any order or be lost, and `Deliver`, `Work`, `Reply` and
`ReplyFails` are steps of `DhcpHandler` with their effect on the network. `Kind` is
the message type the handlers set, from the record the thread copied: a REQUEST that
meets the record of the DISCOVER before it is answered with an OFFER. The machine
and the network are not in the repository and are marked external in the map.

Threads are slots: when a thread has ended (`EndThread`) its slot takes the next
datagram. A record's `src` then names a slot, not a datagram, so the properties
of `DhcpHandler` that compare `src` are not used here. A record erased and filed
anew by the same slot with the same contents counts as the same one; what a thread
copies through its reference is then the same, too. When the
process dies the model stops: nothing in the repository restarts it.

### Listener

The loop is `at` (which endpoint), `stage`, `snapshot` (`fd_write` as `select`
got it) and `ready` (the bit in `fd_read`); `SelectEnter` and `SelectReturn` are
two steps so that senders run between them. `phase[g]` follows datagram `g`:
away, queued in the socket, in its thread, at the check of `closeReq`, at
`FD_ZERO`, `FD_SET`, `FD_ISSET`, `sendto`, `FD_CLR`, and its end. The thread that
receives a datagram is named after it; threads that still block in `recvfrom`
are counted in `waiting`, as they cannot be told apart. `RemoveEndpoint` has no
caller in the repository; it is part of the server's interface and the only way
`closeReq` is set while the loop runs, so the model lets anybody call it.

`recvfrom` may fail at any time and end its thread (`ReceiveFails`): the socket is
closed, an error is reported in a datagram's place, or a datagram is too long and
thrown away (phase `discarded`). So may `sendto` (`SendTo`), whose failure is only
logged. On a closed socket `recvfrom` does fail, on an open one nothing makes it.

`SelectReturn` stores any subset of the snapshot: whether a socket is writable is
the network's business. The model shows that an endpoint can be starved for ever
(a sender clears its bit while `select` runs, `select` writes it back, and no
sender comes again to clear it, as the loop starts none), so no property says
that every datagram is read. `ServedUnlessObstructed` says that nothing else can
starve one, apart from a socket that reports errors for ever.

### VendorOptions and DhcpReply

`DhcpReply` has the record of one thread: which options it holds and whether client or
server set each, and of the values those that decide something or that the properties
tell apart: message type, the class in option 60 (`class`), boot item and layer as
bytes, architectures, vendor options, next server, file. `Relay`, `Discover`,
`Request`, `Release` and `Ignore` are the branches of `Handle_Request`; `NameVendor`
is the switch that sets option 60 before the handler is called; `SendReply` is
`DHCP_Packet` and `StripPacket`. A client whose class is none of those `client::Init`
compares leaves `vendor` uninitialised: if the memory holds one of PXE's vendors the
server answers and names that one. The reply keeps what the client sent and neither
removes by name (50, 55, 57, 61, 93, 94) nor replaces: 77, 97 and 175 always go back,
and 43 and 54 where the handler sets none. So `NoEchoForAnswer` is about the options
by which the server tells the client something. A reply is a set of options here;
their order and their bytes are `OptionField`'s subject. `BS16` swaps, as it does in
the build of the Visual Studio project: neither byte order macro of `Include.h` (lines
179-206) is defined there, and the last branch is taken.

### OptionField

`stage`, `i` and `options` are the thread's place, the position of its running
loop and the map of the client object, byte for byte. An option is a member of
`OptionSet`, `Encoded` its bytes, and `Encodings(list)[k]` those of the first `k`
options of a list, as a loop that writes them has them after `k` turns; `Listed` is
the map in the order of its codes, which is the order of a `std::map`. `ReadOption` and
`ReadNested` are one turn of each loop: the option at the position is read with the
length its byte says, and the position moves on by that byte as a signed
character (`Signed`). Bytes past the end are zero, as both buffers are cleared
(`At`). `EndOptions` includes the erasing of option 55 and the copy of option 43.
`Handle` puts the handlers' options, a parameter, into the map; `WritePacket` and
`Strip` are `DHCP_Packet` and `StripPacket`. The handlers set fixed codes, none of
them 0, and each sets END (`AnswersAssumption`). Positions count from 1. The first
loop's count from the magic cookie on (`Buffer`), which it may come back to; the fixed
fields before it are `HeaderLength`. `ReadFrom` is no code of the repository but a
client that reads the reply by the rules of the protocol.

A datagram is any options followed by any bytes. `Regular` ones keep to what the code
can read: no padding between options, no value of 128 bytes or more, and in option 43
options of the same kind. Over the others the code misreads what was sent: padding is
taken for an option, a length from 128 on moves the position back by up to 126 or,
when it is 254, not at all; 255 moves it on by one. `TurnsBack` is such a turn. The
first loop can go back into the boot file name, which is assumed empty there, and from
its zeroes it goes on again (`LoopsAdvance` proves that it never gets further back).
The second loop can leave its buffer, and what is there is unknown: it may end the
loop (`EndNested`) or else the thread is lost to the model (`LoseNested`, stage
`lost`). A turn of the second loop that stands still collects the same option again
until the memory is full, which is after `MaxNested` options here. `WalkEnds` says
that nothing but a turn over such a length keeps a reply from being made, and
`StuckForGood` proves that one over 254 bytes always does.

A datagram through a relay agent gets no END option, and `StripPacket` then finds some
other byte 0xff or none; those are left out here (`DhcpReply` has them).

### Tftp

`pc[t]` follows a TFTP thread: `add` and `lookup` (260, 261), `again` (336, 337,
which do the same once more), `serve` (`Handle_TFTP_RRQ_Request`), `send` (552),
`finish` (353). `packet[t]` is the client object parsed from its own datagram,
`c[t]` the copy of the filed record it works on, `octet[t]` whether its own
datagram holds the word that is looked for there and not in the record. `opened`
are the threads whose stream is open (for ever), `menu[m]` the threads of the DHCP
endpoints that read `serverlist.txt`; `StreamLeft` is the C runtime's limit, which
is the constant `MaxOpen` and external. A menu stays without its servers whenever
`fopen` returns null, for want of a stream or because the file is absent or cannot be
read (`OpenServerList`).

`FileAgain` is one step: the record is there by then and no step removes it, so
nothing can come between that matters. `Send` may fail, as its result is not used.
A block size is the first two characters of its decimal digits (`ParsedBlocksize`);
anything else would be a model of what the code ought to do.

What the model shows is that a host is served from its first datagram for ever: a
second read of another file is acknowledged with the first one's length and block
size, at the first one's port, and a host whose first datagram was no read of an
existing file never hears anything. `AnsweredFromFirst` and `UnansweredForCause` say
that this is all that goes wrong, apart from streams that run out. `Exhausted` counts
who has had one; `ExhaustionIsFinal` says that it stays so.

### Lifecycle

`stage` is the function `main` is in; the functions of `Server` loop over the
endpoints, and `todo` holds those a loop has not come to, `retval` the sum of the
results so far. `Visit` is one turn of such a loop; the actions that use it say
what becomes of the socket. `OpenSocket` may fail with the socket open (the
option set last) as well as succeed. `RemoveEndpoint` and `CloseRemoved` are what
may happen to sockets while the server listens; the loop itself is `Listener`'s.
`main` never returns from a server that listens, as nothing but `Server::Close`,
which `main` calls afterwards, resets `listening`.

## 3. Runs

| run | question | bounds |
|---|---|---|
| `dhcp_overlap` | safety and `RequestReply` under any overlap, retransmission and data race | 3 threads, 2 addresses, 5 kinds of datagram |
| `dhcp_stop_and_wait` | what holds when clients wait for their last datagram to be handled | 3 threads, 2 addresses, 4 kinds per address and one of an unknown vendor |
| `dhcp_ignored` | is a PXE request ever passed over (yes: violation) | 3 threads, 2 addresses, 4 kinds per address |
| `boot` | does a machine that keeps trying boot, and hear things in order | 1 machine, 2 threads at a time, any number of datagrams |
| `listener` | the loop against senders and closing, starvation, `RequestReply` | 2 endpoints, 2 datagrams, 2 blocked receivers each |
| `dhcp_reply` | contents of the reply | all classes, messages, 5 choices, 6 lists of architectures, two sets of other options |
| `option_field` | parsing and writing of options, and when the loops end | regular datagrams: up to two options of 6 values, 4 nested lists, 3 ends; others: 9 lengths around 128 and 254 in either loop, 1 to 3 bytes of padding; 3 sets of the handlers' options; room for 6 nested options |
| `tftp` | answers, lookups and streams | 3 threads, 2 hosts, 2 ports, 5 kinds of datagram, 1 menu, 2 streams |
| `lifecycle` | partial failures at startup, clean end | the three endpoints of the program |
| `reply_long_list` | one server more in the list (violation) | |
| `reply_this_server` | choice of item 1 (violation) | |
| `reply_relay` | discovery through a relay (violation) | |

**Why the bounds suffice.** A fault of the table takes one thread that looks up, one
that erases under it and one that files anew: three threads on one address; the second
address is there for a reply that goes astray. Each thread takes one datagram, as the
code's do; the behaviours in which a fourth changes something new, and other kinds of
datagram, are covered by the proofs, which have no bound. The listener needs two
senders that clear each other's bits, and two endpoints so that one's bit obstructs
the other; what a third datagram could add to its safety is proved. `MaxWaiting` cuts
off the growth the code leaves unbounded, and `StartNothing` is what the loop does
then (it starts no thread, so liveness is checked against fewer threads than the code
would have, never more). In `boot` two threads are enough for the request that
overlaps the thread of the request before it; that more machines and threads break no
order of the answers is proved. `tftp` has one stream less than it has threads, and
the menu wants one, too: requests exhaust them alone and together with the menu.
`option_field` has values that end in, consist of or imitate the bytes the loops stop
at, the longest value the position can step over (127 bytes), option codes that are
dropped (55, 61) and kept, an option twice, and a reply whose options end in 0xff and
hold 254 of them. Its other datagrams have lengths on both sides of 128 and of 254,
behind options that leave the position a little or a lot to go back, with values of
zeroes, of END and of neither. `MaxNested` is 6, where the program has room for
millions: no regular datagram there nests more than two options, and any walk cut off
at six has gone back before, as `WalkEnds` checks. The host name in `dhcp_reply` has
27 characters, the longest with which the menu for the shipped `serverlist.txt` fits
one byte (`WholeMenus` proves that it is the longest), and the lengths in
`MCServerLengths` are those of the names in that file.

**Fairness.** The operating system schedules every thread that can run, so thread
steps are weakly fair, each thread for itself; so are `main` in `Lifecycle` and the
one thread of `OptionField`. The loop is weakly fair: its only blocking call is
`select`, which has a timeout of two microseconds. Nothing makes a client send,
`RemoveEndpoint` be called, or a data race strike, so those are not fair. `Boot` adds
what the code relies on: a machine keeps its timer until it is acknowledged, and a
datagram under way is delivered or lost, either one. Loss is never forced or
forbidden: `BootsUnlessObstructed` excuses the runs in which what the machine waits
for is lost again and again, and no others.

**Stuttering ends.** `DhcpHandler` stops when its threads are used up or the
process is dead, and so does `Tftp`; `Boot` when the process is dead or
every machine has its ACK, `DhcpReply` and `OptionField` when the reply is sent (or, in
`OptionField`, the thread is lost), `Lifecycle` when `main` returns: explicit stuttering actions (`Stopped`, `Finished`, `Ended`) stand
for that, and deadlock is checked in all runs.

### What the violations show

* `dhcp_ignored`: `Handle_Request` returns at line 286 without erasing a record that
  is not a PXE client's; `AddClient` then keeps it (`Server.cpp:62`) in place of
  every later datagram of that machine. A machine whose operating system speaks DHCP
  once cannot boot from the daemon again.
* `reply_long_list`: the length of option 43 is summed in one byte
  (`Include.h:141`); the shipped list fills 228 bytes plus the host name.
* `reply_this_server`: line 186 swaps an item that is already swapped, and the item
  `GenerateBootMenue` gives this server is never recognised. (With a `BS16` that
  does nothing, as on a little-endian glibc, it is not recognised either.)
* `reply_relay`: datagrams from relay agents are sent back as they came.

## 4. Proofs

`DhcpHandlerProofs` proves, for any sets of threads, addresses and datagrams:

| theorem | statement |
|---|---|
| `TypeCorrect` | `Spec => []TypeOK` |
| `RecordsAreErased` | `Spec => []NoRecordOutlivesReply` |
| `RepliesStayWithClients` | `Spec => []ReplyStaysWithClient` |
| `NoLookupFaults`, `FreshReplies`, `IgnoredOnlyForCause` | the three invariants under stop and wait |
| `PromiseIsKept` | the safety half of the refinement of `RequestReply` |

They rest on the three assumptions of `DhcpHandler`: datagrams have the type
`Packet`, `NoRecord` is no record, `StopAndWait` is a Boolean.

None of the properties is inductive. `Inv` adds what relates table and threads:
a record was parsed by a thread that has got past `add` and is filed under its
own address (`Filed`, `Own`, `Parsed`), a thread's copy is of a record of its
own address unless it was freed (`Addressed`), and a thread that has looked up
holds a record (`Looked`, `Passed`, `Replied`). The crux of
`NoRecordOutlivesReply` is that a record can only be filed by the thread that
parsed it, before it looks it up, so once the erase is past the record is gone
for good, whoever erased it.

`SerialInv` is `Inv` with what stop and wait gives: at most one thread per
address is in flight (`Serial`), a thread past `add` finds a record under its
address (`Held`), which is the one it copied (`Copied`), and a thread that
answers works on its own record (`Answered`, `Kept`): were it another's, that
thread would have been passed over and its record would not deserve an answer.

Each step lemma takes the actions one by one and, under each, the conjuncts it
can disturb. `PromiseIsKept` maps every step of `Next` to a step of
`RequestReply` or to a stutter, from `Inv` and `SerialInv`. TLC checked both
invariants on the instances of `dhcp_overlap` and `dhcp_stop_and_wait`.

`LifecycleProofs` proves `TypeCorrect`, `ListensOnEverything` (`ListensOnAll`)
and `EverythingIsClosed` (`NothingLeftOpen`) for any set of endpoints, without
assumptions. The invariant adds that a sum of 0 means that no endpoint visited
so far has failed (`Summed`; it needs `retval <= 0`, so that no result makes up
for another), and that `Close` has closed what it has visited (`Closing`).

`ListenerProofs` proves, for any endpoints in any order, any datagrams and any bound
on blocked receivers, `TypeCorrect`, `SkipsOnlyAfterReplies`
(`SkippedOnlyAfterReply`), `NoLateReceivers` (`NoReceiverAfterClose`) and
`PromiseIsKept`, from the assumptions that every endpoint is in `Order` and
`MaxWaiting` is positive. `SkippedOnlyAfterReply` is inductive with the types: what
`select` writes back is part of what it was given, and a thread past `FD_SET` stays
past it. `NoReceiverAfterClose` needs `DispatchesOpen`, that the loop gets past
`select` only with an open endpoint: only the loop closes sockets, and never between
the two.

`TftpProofs` proves all safety properties of `Tftp`: `TypeCorrect`,
`OneAnswerPerHost` (`AnsweredFromFirst`), `SilentForCause` (`UnansweredForCause`),
`LookupsSucceed` (`NoLookupFault`), `ExhaustionStays` (`ExhaustionIsFinal`) and
`PromiseIsKept`, for any finite sets of threads and menus and any limit. They rest
on the assumptions of `Tftp`: threads and menus are finite sets, datagrams have the
type `Packet`, file sizes are numbers. Of the table the invariant says that what is
filed under a host is what a thread past `add` parsed (`FiledParsed`) and that it
stays there (`Held`); of a thread's copy, that it is that record but for the state
(`Alike`, `Copied`), and in no state in which it would be erased. That is why all
answers agree. Of the streams it says that there are never more than `MaxOpen`, so
that `~StreamLeft` means they are all in use, and that `opened` only grows; the
counting rests on the library's theorems about cardinalities.

`BootProofs` proves `TypeCorrect` and `NoEarlyAck` (`NoAckBeforeOffer`) for any
number of machines and threads. The invariant traces an ACK back: a REQUEST exists,
be it under way (`Requested`), parsed, filed or copied (`AllAsked`), only once its
machine has heard an OFFER, and a machine never goes back to waiting for one. Steps
of the handler are those of `DhcpHandler`, cited through the instance.

`DhcpReplyProofs` proves all safety properties of `DhcpReply` for any datagrams, any
host name and any list of servers: `TypeCorrect`, `RepliesAreInKind`
(`AnswersInKind`), `ServersOptionsPrevail` (`NoEchoForAnswer`),
`ChoiceIsConfirmed` (`ChoiceComesBack`), `LastArchitectureRules`
(`LastArchitectureDecides`), `FileIsReachable` (`FileComesWithServer`) and
`MenuIsWhole` (`VendorOptionsAreWhole`). `Inv` says which fields hold what
`client::Init` read (`Reads`) and that no handler has touched the object before its
turn (`Fresh`), which lists of vendor options, files and servers there can be
together (`Sound`), of which message a reply was made (`Answered`), which vendor it
names (`Named`) and which of its options the server must have set (`Owns`). Three of
them have an argument of their own: that three swaps of item and layer end where
they began, for any bytes; that of a list of architectures of any length, each taken
for two, the last one that has a file decides; and that the sum of lengths modulo
256 is the true length. For the last, `WholeMenus` gives the exact limit, entries
and servers of 193 bytes together, and shows that beyond it the menu is never whole;
`MenuIsWhole` has that limit as its assumption (`MenuFits`). The run `dhcp_reply`
meets it with equality, `reply_long_list` fails beyond it.

`OptionFieldProofs` proves all safety properties of `OptionField`: `TypeCorrect`,
`AllOptionsFound` (`OptionsAsSent`), `AllNestedFound` (`NestedAsSent`) and
`ReplyIsRead` (`ReplyReadsBack`), and with them `LoopsAdvance` and `StuckForGood`, for
any number of options with any codes and any bytes, any bytes after them, and any
options the handlers set. They rest on `DatagramsAssumption` (what is received is
bytes), `AnswersAssumption` and `MaxNestedAssumption` (a number); that a datagram is
regular is a premise of the properties that need it. The invariant
says of each loop that over a regular datagram, for some `k`, its position is behind
the first `k` options as they were written and what it has collected is made of these
(`Walking`, `Nesting`); of the first loop over any datagram that it stays in the buffer
(`InFront`); of the map, that its lengths fit one byte and END is in it
(`Mapped`); of the packet, which bytes it is (`Written`, `Sent`). `ReadBack` and
`Turn` are the heart: at the position where an option was written it is read again,
whatever its value looks like, and the position moves to the next. That the second
loop is bounded by the wrong length does no harm since option 43 has less than 128
bytes and the header alone, which the bound includes, has 240. `StripPacket` finds
END because END has the greatest code, so that it comes last in the map, and zeroes
follow it (`ListedEnd`, `StripKeeps`). `ReaderReads` follows the reader turn by
turn. TLC checked this invariant on the instance of `option_field`.

Both work over lists of any length, and the provers cannot be given induction over
data as a rule about predicates. `NaturalLemmas` states it about sets instead: a set
that holds 0, and `k` when it holds `k - 1`, holds every number up to `n`
(`InductionUpTo`, from the least counterexample). `IterationExists` adds that a loop
of `n` turns has its values, without which nothing is known of a recursive function.

All safety properties that the passing runs check are thereby proved, and the safety
halves of the refinements of `RequestReply`.

Only model-checked: liveness (`KeepsPromise` with fairness,
`CloseReleasesReceivers`, `ServedUnlessObstructed`, `BootsUnlessObstructed`, `WalkEnds`,
`ListensOrEnds`), which needs `ENABLED`. What stands in for `WalkEnds` among the
theorems is `LoopsAdvance`: every turn goes forward unless it is over a length from 128
to 254, which bounds the turns of both loops over a regular datagram.

## 5. Not modelled

* The TFTP transfer after the first acknowledgement: the repository has empty cases
  for data, acknowledgements and errors. The window size is parsed and never read.
* `Filesystem` beside its constructor, `Open`, `Exist` and `Length`: `Read`, `Write`,
  `Close` and the modes for writing have no caller. That `fseek` fails on an open file.
* A boot file name in a datagram whose first loop comes back to it, what the memory
  before the buffer of the nested options holds, and option fields longer than the
  reply's buffer: see `OptionField`.
* A restart of the process: nothing is stored, and nothing restarts it.
* The lines of `serverlist.txt` beside the lengths of the names.
* The multicast and broadcast options of a socket; the program leaves the first
  off and overwrites the result of the second.
* Failures of `gethostbyname` once the server listens.
* TCP endpoints: never created; `Handle_Request` has no case for them.
* `Server::Update`: never called.
* Log output and the rewriting of paths in `ResolvePath`.
* Header fields that the reply copies from the request.
* Memory other than the two cases of undefined behaviour named above.

## 6. Plan

Done: steps 1 to 9. Order: the most important behaviour first.

1. `RequestReply`, `DhcpHandler`: threads over the table.
2. `DhcpHandlerProofs`.
3. `Listener`: loop, receivers, senders.
4. `VendorOptions`, `DhcpReply`: contents of a reply.
5. `Lifecycle`, `LifecycleProofs`: startup and shutdown under partial failure.
6. `Tftp`, `TftpProofs`: read requests over the table by IP address, and streams.
7. `ListenerProofs`; `Boot`, `BootProofs`: the handler against machines and network.
8. `OptionField`: options as bytes.
9. `DhcpReplyProofs`, `NaturalLemmas`, `OptionFieldProofs`: what a reply holds and
   that it can be read.
10. Left: the composition of `Listener` and `DhcpHandler` with the handler's `Send` as
    the listener's five steps, which is too large for TLC with liveness and would
    have to be proved; replies to relay agents, which get no END, as a second instance
    of `OptionField`.
