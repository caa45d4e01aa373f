# Verification of the W5500 library for TI-RTOS

The repository is a C library that lets a CC1310 microcontroller use a W5500
Ethernet chip, with a small web server as its test program. The chip does TCP,
UDP, retransmission and timers for eight sockets. The library allocates the
sockets, runs DHCP, DNS and Bonjour clients, and offers the Arduino-like server,
client and UDP interfaces. One thread runs all of it and polls the chip's
registers; the chip and the peers go on in between. The hard part of this code is
this concurrency: every register is read at another moment, and what was read may
be old when it is used.

The TLA+ modules here model the code from its source, TLC checks them on small
instances, and TLAPS proves the safety results for all instances. `PROJECT.json`
maps each definition to the lines it models.

## Inventory

| Part (source) | State | Operations | What makes it correct |
|---|---|---|---|
| Chip driver (`w5500.*`) and socket API (`socket.*`) | in the chip: status, port, buffers, interrupt flags of each socket | socket, close, listen, connect, disconnect, send, recv, peek, bufferData, startUDP, sendUDP | bytes leave and arrive in order and whole; sizes read in two halves are sizes that were; waits end |
| Server (`EthernetServer.*`) | `_port`; shared: `Ethernet_server_port[]` | begin, accept, available, write | one listener per server, always registered; only the server's own connections handed out; only finished ones closed |
| Client (`EthernetClient.*`) | `_sock` | connect_ip, write, read, available, connected, stop, Stream functions | a handle never names somebody else's socket; calls come back |
| UDP (`EthernetUdp.*`) | `_sock`, `_offset`, `_remaining` | begin, beginMulticast, stop, beginPacket, write, endPacket, parsePacket, read, peek, flush | whole datagrams in order; packets are what was written |
| DHCP (`Dhcp.*`), configuration (`Ethernet.*`) | state, transaction ids, lease, timers; the chip's address | beginWithDHCP, checkLease, maintain | only granted addresses are used; renewals happen in time; no exchange hangs |
| DNS (`Dns.*`) | request id, server, its UDP object | getHostByName | the answer belongs to the question; the call ends |
| Bonjour (`EthernetBonjour.*`) | service records, two queries with deadlines, announcement time | begin, run, resolve, discover, add and remove records | a query ends once; its callback gets what was asked; peers know the services that are registered and no others |
| Test program (`UnitTest.*`, `mainThread.c`) | one server, one client handle | InitTests, LoopTests | the server always listens again; no connection is kept for ever |
| Stream functions, `Printfg.*`, `EthernetUtil.*`, `inet_aton`, ... | none | find, parseInt, printNumber, htons, ... | what is written is read back; searches find the first occurrence |
| SPI, serial line, board, start-up, JSON, REST stubs | drivers | | outside: pure input and output, generated or third-party code |

How they interact: `mainThread` calls `InitTests` and then `LoopTests` for ever.
Servers, clients and UDP objects call the socket API and meet in two places, the
chip's sockets and the table `Ethernet_server_port`; each allocates sockets by
looking through the status registers for one that is free, by rules that differ
(a server takes `CLOSED`; UDP takes `CLOSED` and `FIN_WAIT`; a client also
`CLOSE_WAIT`). DHCP, DNS and Bonjour each own a UDP object.
`Ethernet_maintain` runs the DHCP client and copies its result to the chip.
Callbacks exist in Bonjour only. Nothing is persistent; there is one thread and
no interrupt handler of the library's own.

The behaviours that are hard to test, each with its line, are the `hazards` of
`PROJECT.json`: status reads that are old when used, sockets that change owners
under a handle, late and duplicated DHCP replies, exchanges that end half way,
waits without a bound, two datagrams in one buffer, sizes that change between the
reading of their halves, names matched by guessing, clocks and pointers that wrap.

## Modules

| Module | Models | Composes |
|---|---|---|
| `W5500` | the sockets of the chip: operators for the functions of `socket.c`, actions for chip, network and peers | |
| `EthernetSockets` | `EthernetServer.c`, `EthernetClient.c`, allocation in `EthernetUdp.c`, `Ethernet_server_port` | extends `W5500` |
| `WebServerLoop` | `UnitTest.c` as built, `mainThread.c` | extends `EthernetSockets`, restricts its program |
| `..._proofs` | theorems about the module of that name; `WebServerLoop_proofs` has those about `EthernetSockets` too | extend it |
| `Parsing_proofs` | lemmas about the streams, numbers and addresses of `Algorithms` | extends `Algorithms`, extended by `Algorithms_proofs` |
| `DHCP` | `Dhcp.c`, `Ethernet_begin_mac`, `Ethernet_maintain`, with servers and network | |
| `DatagramService` | abstract: what a UDP object promises | |
| `EthernetUDP` | `EthernetUdp.c` and the datagram functions of `socket.c` and `w5500.c` | implements `DatagramService` |
| `DNSClient` | `Dns.c` without `inet_aton`, with name servers and network | uses `DatagramService` as its UDP object |
| `ByteStream` | abstract: what `socket.c` promises of a TCP socket | |
| `SocketStream` | the data path of a TCP socket: recv, peek and send of `socket.c`, sizes and pointers of `w5500.c` | implements `ByteStream` |
| `StreamParsing` | the Stream functions of `EthernetClient.c`, integers of `Printfg.c` | |
| `NamesAndAddresses` | `inet_aton`, `IPAddress.c`, `EthernetUtil.c`, names of `EthernetBonjour.c` | extends `StreamParsing` |
| `BonjourMessages` | the packets that `EthernetBonjour.c` writes and reads | extends `NamesAndAddresses` |
| `Algorithms` | one input after another for the three modules above, with reference definitions | extends `BonjourMessages` |
| `Bonjour` | queries, service records, announcements and `run` of `EthernetBonjour.c` over time | |
| `MC...` | constants and fairness for TLC, one for each module above that has a run | |

### The sockets

`sr`, `lport`, `rx` and `tx` are `Sn_SR`, `Sn_PORT`, `Sn_RX_RSR` and the progress of
the last SEND. `server_port` is `Ethernet_server_port`, `_sock` the field of every
client and UDP object. The thread's place in the running call is `pc`, its locals
are `self`, `port`, `i`, `listening` and `caller`; a call is a chain of actions, one
for each register access, and `Environment` may step between any two of them. A
loop over the sockets is one action per iteration and register.
`EthernetServer_accept` calls `EthernetClient_stop` on a temporary client and
`EthernetServer_begin` at its end, so these appear inside `available` and `write`
as in the code, with `self = None` for the temporary client. The end of stop is three
steps, the last status read, the close and the clearing of the table entry: a FIN or a
reset may come between any two of them.

A chip command is one step, since `W5500_execCmdSn` waits for the chip to take it.
`socket()` is one step, since nobody touches a closed socket but the code. A timed
wait (the second of `EthernetClient_stop`) may end at any moment.

`WebServerLoop` adds `loop`, the statement of `LoopTests`; whatever byte of a request
may be the one that completes it, and a reply is a number of writes.

### DHCP

The client's fields are variables of the same names. An exchange is an action per
branch of the loop in `DHCP_request_DHCP_lease`, with `parseDHCPResponse` in the
branch that handles its message. Servers are passive: what the client sent stays in
`discovered` and `requested`, and any server may answer any of it at any time,
twice or never. That makes loss, duplication, delay and reordering. `Stale` of these
messages outlive the exchange, so late replies meet new exchanges. This matters
because transaction ids nearly repeat: the product in Dhcp.c:48 overflows, and
exchanges begin with 1 or 2. Seconds between `checkLease` calls and response timeouts within an
exchange are separate clocks. `Word` is 2^32 scaled down; leases of more than half
of it are negative to the signed counters, as in the code.

The DHCP object is a local of `Ethernet_begin_mac` to which a global pointer stays
behind. Its use afterwards is undefined; the module gives the object the lifetime
that `Ethernet_maintain` needs.

### UDP

`rx` is the receive buffer in cells; a header is two of them, the sender (address and
port as one value) and the length. Nothing marks where a datagram begins except the
count in `remaining`; the sender goes to `remote`, `_remoteIP` and `_remotePort`. `mem`, `TX_RD`, `TX_WR` and
`written` are the transmit ring: reads of the write pointer see its value at the
last SEND (w5500.h:104-107), which is why the code adds `_offset`. `Service` is the
refinement: under the mapping `inbox` is `behind`, the datagrams that came and are not
parsed yet, `current` the unread bytes and `packet` the bytes since `beginPacket`, every
step is one of `DatagramService` or a stutter. `behind` is a history variable: it records
what the senders sent and no step reads it; what the object hands out comes from the cells.

The service states what the object does where its header says more. `bufferData` compares
each write with the free size and does not count what earlier writes have put into the ring, so
a packet may become longer than the ring (`Longest > TxSize`) and run over its own beginning.
The service promises the bytes of packets that fit, and of longer ones only that as many
leave. An empty read gives -1, where the header promises 0. Both are listed under the findings.

What the callers in the repository do is assumed: `beginPacket` before `write`, some
`write` before `endPacket`, and no call but `begin` after `stop`.

### DNS

`DNSClient` is checked over `DatagramService`, which `EthernetUDP` implements: each of
its steps is one call of the service and what the code does with the result. A
datagram is a sequence of cells, one for each read that moves the code on, so a
parser that skips too much or too little reads the wrong cell, as it would read the
wrong byte. `questions` and `answers` are the two counts of the header as its loops
count them down. Servers are passive, as in the DHCP model: what has been asked
stays in `asked`, and a server may answer it late, repeatedly or never; the answer
reaches the object when it has the same local port again (one of 16 in the code, one
of two here). `Stale` questions outlive their lookup. Answers are an address, an alias
followed by an address, an alias alone, an address of the wrong size, no record, and
an error; beside them a fragment and messages that are no responses arrive, from the
server and from a stranger. An answer may end early: `Lost` is how many of its cells may be
missing, anything behind the header. A read past the end then changes nothing and the code does
not look at its result. An answer that ends within the name of its question makes the loop
of Dns.c:331-341 run for ever (`Stuck`): `LookupEnds` promises the end of all other
lookups and that nothing else keeps one. An answer that ends before the address may give the
result 1 without one, which `AnswerBelongs` allows to such an answer only.

The model takes it that an answer is not late by 65 seconds, after which the clock's low
16 bits give the same identification again.

### The bytes of a TCP socket

`EthernetSockets` counts bytes; `SocketStream` looks at one open socket and at the
bytes themselves. A 16-bit register is two SPI frames, the high byte first
(w5500.h:235-238), and the chip works between them: the action `ReadHigh` keeps the high
byte, and `FirstRead` or `SecondRead` joins it with the low byte of a later moment.
`W5500_getRXReceivedSize` and `W5500_getTXFreeSize` are the same loop over another
register. Pointers are the program's own, so one step reads a pointer, copies, writes
the pointer back and gives the command. Under the refinement mapping the queues of
`ByteStream` are the cells behind the pointers; a byte's value is its number, so a byte
left out, repeated or out of order shows.

### Algorithms

Characters are their codes. A stream is the characters that come and, where none does
for `_timeout` milliseconds, the element `Timeout`; a function yields its value and the
rest of the stream. Loops over characters are folds. `Algorithms` picks one input
after the other, and each of its invariants compares what the functions make of it
with a definition that says what they are for. A `long` has `LongBits`, an `int` `IntBits`:
the digits that `inet_aton` adds up wrap. `ShortLabel` is a length of labels on which they do
not, whatever their letters. Longer names are taken for addresses, with 16 bits from four
letters on; the run has them, and no property asks for what they give.

`BonjourMessages` keeps the order of the records in a packet, the labels of names and
the compression pointers, which is what the code's matching depends on; a pointer is
the place it points to. Lifetimes and classes of records are left out, the class being
part of the type; a place fits into the byte the code has for it. `junk` is what
`ptrPorts` and `ptrIPs` hold where no SRV record was seen: nothing sets them. Each of the two
queries of a device has its own place of the first answer's name (`pos`); the one kept for the
second query lies behind an address that was taken for the first (`PastName`).
Questions may be spelled out, spelled out with a pointer behind all of the name, or end with
a pointer; answers are about any host, spelled out, with a pointer, or nothing but one.
`AnswersWhatIsAsked` and `AddressBelongs` say what the code does with all of these; where its
comments say otherwise, see the findings.

### Bonjour

The application calls the interface between two runs, or from a callback inside run.
`query` is `_resolveNames` with its deadline and last transmission, `owed` counts the
final callbacks that a caller may still expect. `run` is a chain of steps with the
`now` read at its start, and `Tick` may come between any two of them. What a callback
does is a set of results (`Calls`, `Asked`): nothing, a query asked for, or one
cancelled. `heard` is the age of what a peer last heard of each service, by
announcements or answers. A callback that has been unset since its query was made is not
called, and its program is owed nothing (`Waived`).

The model takes it that service callbacks leave their own discovery alone (the code
writes to freed memory otherwise), that a service is registered once, and that packets
between the device and the peer are not lost. Of the allocations only the first of a
record and that of a query's name may fail; the others write through NULL before they
test it. A query that a callback asks for of its own kind is freed when the callback
returns: nothing is owed for it.

## Runs

| Run | Shows | Instance |
|---|---|---|
| `sockets_server` | `AcceptReapsOnlyFinished`, `OwnConnectionsServed`, types: accept disconnects only connections that the peer has finished and the program has read; a server serves only its own | 2 servers, 1 handle, 3 sockets |
| `sockets_mixed` | `ListenerRegistered`, `AtMostOneListener`, `CallsReturn` (every call comes back unless it waits for a peer in `send` or `connect_ip`), with an outgoing client and a UDP object that take sockets by their own rules | 2 servers, 2 clients, 1 UDP object, 2 sockets |
| `webserver` | `HandleStaysOwn`, `ServerListensAgain`, `ConnectionLetGo` for the program as built | 1 server, 1 handle, 3 sockets, 2 bytes, 2 writes |
| `dhcp` | `ConfigWasGranted`, `LeasedIsConfigured`, `RequestsAreComplete`, `CallsComeBack` | 2 servers with an address each, 2 timeouts per exchange |
| `udp` | `Service`, `RemainingIsThere`, `DatagramCallsEnd` | buffers of 5 and 2 cells, 2 senders, datagrams to 3 bytes each way, longer than the transmit buffer |
| `dns` | `AnswerBelongs`, `LookupEnds` | 2 names, 2 identifications, 2 ports, 1 earlier question, answers that lack 1, 4, 5 or 10 cells |
| `stream` | `ImplementsByteStream`, `SizeIsGenuine`, `TransfersEnd`, types | registers of 3 bits with a low part of 1, buffers of 4, 6 bytes each way |
| `algorithms` | ten properties: `FindsFirst`, `NumbersReadBack`, `DecimalsReadBack`, `LinesReadBack`, `AddressesReadBack`, `NamesOnTheWire`, `QuestionsMatch`, `AnswersWhatIsAsked`, `AddressBelongs`, `FoundServicesAreWhole` | `long` of 8 bits and all its values, streams to 7 characters, labels around the buffer's 12 bytes, all orders of six records |
| `bonjour` | `QueriesAreAnswered`, `PeerKnowsServices`, `QueryEnds`, types | clock modulo 9, one application with queries, one with 3 services for 2 slots |
| `dhcp_retry`, `dhcp_t1`, `bonjour_peer` | findings, see below | one server; the instance of `algorithms` |

Why the bounds are enough. Two servers and two or three sockets make servers
compete for sockets and make accept pass over sockets that change behind it; with
fewer sockets than connections the "no socket free" branches are taken. One unread
byte tells "data" from "no data", which is all the code looks at (the web server
gets two, so that a connection can close with data unread). Two DHCP servers make offers
compete and replies of the wrong server pass the test; ids up to the bound cover
two attempts, and every counter that matters is compared with zero only. In the UDP
run the pointers wrap after two datagrams, a second datagram lies behind an unread
one in the receive buffer, a write may ask for more than fits, and writes that each fit may
together be longer than the ring. In the DNS run a
lookup processes at most one datagram, so one that waits is enough, and one earlier
question of the same or another name can be answered into the running lookup; answers
end within an address, before it, before its record and within the question. In the stream run sizes
carry into the high part at 2 and 4 while a size is being read, and the pointers wrap
while data lie in the buffer. The matching of names works on labels and buffers of 12
bytes, so labels of 12, 13 and 24 characters split in every way there is; streams of 7
characters over two letters contain every overlap of the targets. In the Bonjour run
the clock wraps within a query's timeout and within the life of an announcement. Bounds are
constants: `MaxIn`, `MaxOut`, `NumRecords`, `Word`, `Gap`, `RxCap`, `ReplyWrites`, `MaxXid`, `Stale`, `MaxFactor`, `Rounds`,
`MaxLen`, `RxSize`, `TxSize`, `Mod`, `Longest`, `Peers`, `Timeout`, `MaxInbox`,
`Lost`, `MaxLabels`, `MaxAsked`, `MaxQuestions`, and the widths `LongBits` and `IntBits`.

`sockets_mixed` turns the deadlock check off, because its program may really stop
for ever: `connect_ip` takes the socket of a server's connection that was closed by
the peer, its address is refused and the socket stays INIT; a write to the old handle
then waits for an acknowledgement that cannot come, and no peer can do anything.

### Fairness

- `sockets_mixed`: weak fairness of the running call only. The thread is the only
  one, nothing preempts it for ever, and every register access is an SPI transfer
  that ends. Chip and peers may stop for ever.
- `webserver`: weak fairness of the thread; the chip ends handshakes and closes
  (it has retransmission limits and timers), acknowledges a SEND or resets, and a
  peer with nothing more to say closes in the end. New connections, data and resets
  are not promised. Without the promise that peers close, a connection that sends
  nothing keeps the loop for ever: the code has no limit there.
- `dhcp`: weak fairness of the client with the replies that are there, and of the
  clock. No reply is promised. `dhcp_retry` adds that the program calls
  `Ethernet_maintain` again and again.
- `udp`: weak fairness of the running call, and the chip ends every SEND with
  SEND_OK or TIMEOUT.
- `dns`: weak fairness of the running lookup. No datagram is promised.
- `stream`: weak fairness of the running call, and of the chip's delivery: what a SEND
  has queued leaves, is acknowledged, or the retransmission limit closes the socket. No
  byte of the peer is promised.
- `bonjour`: the main loop calls run for ever, a run goes on to its end, and time
  passes. A run begins at least every `Gap` ticks: without it no announcement is in time.

## Findings

Runs that violate what the repository says of itself:

- `dhcp_retry`: `Ethernet_maintain` says of an error "it will retry though". After an
  exchange that timed out in DISCOVER, REQUEST or REREQUEST nothing is ever tried
  again: `checkLease` starts only from LEASED and START.
- `dhcp_t1`: T1 of a new lease is that of the old one when the server gives none,
  because the field is tested for 0 and never reset.
- `bonjour_peer`: a comment in `processMDNSQuery` (824-826) says that names are
  compared piece by piece so that devices running this code find each other's services.
  They do not: the writer puts SRV and TXT in the answer section, the reader looks for
  them in the additional section. The callback gets a port that nothing has set, and an
  instance name that is not ended behind its label.

Further disagreements, without a run of their own. The models do what the code does, and
the properties named say how far their promise goes because of it:

- `EthernetUDP_read_buf` returns -1 when nothing is available, where EthernetUdp.h:85 says 0.
  `DatagramService` states the -1.
- `bufferData` compares each write with the free size without the bytes of the same
  datagram already written; a long datagram overwrites its beginning, although every write was
  reported as buffered and the packet as sent (socket.h:34-42). The packets that the
  repository builds are a few hundred bytes, the buffer 2048. `Service` promises the bytes
  of packets that fit.
- An answer that ends within the name of its question makes `getHostByName` loop for ever:
  the result of the read is not looked at and the length keeps the 255 that `while(len--)`
  has left in it (Dns.c:331-341). `LookupEnds` excludes this state.
- An answer that ends before its address makes it return 1 without an address
  (Dns.c:416-417); Dns.h:36 says that 1 means an address. See `AnswerBelongs`.
- `inet_aton` takes names for addresses. Its test for digits lets every character pass
  (Dns.c:68), letters count as digits, and the sum of a long label may wrap to a negative
  number, which is not above 255: `localhost` sums to 6686563038, which is one of these.
  `AddressesReadBack` speaks of labels that are too short for it.
- A packet that asks for the IPv4 and then for the IPv6 address gets no answer to the second
  question, although EthernetBonjour.c:1079 says that the absence is told.
  `AnswersWhatIsAsked` asks for it in the other order only.
- The address of another host is taken when its name is compressed and its first piece
  begins the name asked for, or when it is nothing but a pointer to the first answer's
  name (EthernetBonjour.c:859-861). `AddressBelongs` says when.
- The comment of `connect()` says that it waits for the connection; it returns at once
  and the caller waits.
- T2 is computed as twice T1, the whole lease, and not 7/8 of it (Dhcp.c:109-111).
- A lookup is meant to be tried three times; `ProcessResponse` returns uint16_t, so its -1
  for a time-out never equals `TIMED_OUT` and the loop ends after one wait. Every error
  code of it comes back as a positive number.
- `EthernetClient_write` returns the size it was given, although `send` takes at most
  the 2048 bytes of the buffer.
- `recv` looks at the status after it has seen no data; when data and a FIN come in
  between, it reports the end with data unread.

## Proofs

Every invariant and action property of the runs is proved for all values of the
constants, except `FoundServicesAreWhole`. Each proof takes an invariant that is
inductive, shows it for `Init`, for each action in a lemma of its own and for a
stutter, and draws the properties from it; steps that leave alone what a property
looks at are covered by one lemma ("quiet" ones). The invariants, and what makes the
properties themselves not inductive:

**Sockets** (first part of `WebServerLoop_proofs`), for any number of sockets, any servers, clients
and UDP objects, and any program that makes the calls in any order.

- `TypeCorrect`. A register is accessed through `i` or `_sock[self]`, and both can have
  the value `MAX_SOCK_NUM`. `ControlOK` says at which statement they hold a socket
  number and who is the object of the call. The pair is `TInv`.
- `NeverTwoListeners` and `ListenersAreRegistered`. `LInv` adds what accept knows while
  it scans: when it has seen no listener, none of the sockets it has passed listens on its
  port (the chip makes no listener, it only ends them), so that begin, which runs when the
  scan is over, starts when there is none at all. It also says that the socket whose entry stop
  clears is CLOSED, whatever came between the last status read and the close.
- `OnlyFinishedReaped`. What accept has read stays true until it closes: a connection
  that the peer has finished gets no more bytes (`RInv`).
- `OnlyOwnConnections`, under `Outgoing = {}`: no client connects. With outgoing
  connections `OwnConnectionsServed` is false for the code, which is why `sockets_server`
  has none (a hazard of `EthernetClient.c`). `CInv` says that a socket which is connected or on its way
  there has in `Ethernet_server_port` the port it listened on.

**Test program** (second part of `WebServerLoop_proofs`). `LoopIsAProgram`: every behaviour of `LoopSpec`
is one of `Spec`, so the theorems above hold of it, and the type of its chip and thread
with them. `HandleIsOwn` needs that accept and begin touch no socket that is
connected and registered (`HInv`).

**Byte stream** (`SocketStream_proofs`, whose first lemmas are about `%`). The invariant `SInv` has four parts. `RxOK` and `TxOK`: the size
register and the pointers differ by what is queued, modulo `Register`, so that a cell
between them holds the byte of its number, and free and queued bytes fill the buffer.
`CallOK`: what a call has seen is still there. `SizeOK`: while a size is read, the
values of the register at its two halves and its readings are in order, held <= first <=
second <= now, and none of them exceeds the buffer, so that two equal readings are the
register's value at that time although each may be torn. From these follow
`TypeCorrect`, `SizesAreGenuine` and `StreamOfBytes`, the refinement of `ByteStream`:
`Init` maps to its `Init`, and each action to one of its actions or to a stutter.

**DHCP** (`DHCP_proofs`), for any servers, addresses, lease lengths, clock width and
at least one transaction id. `DInv` adds to the properties that all acknowledgements in
the network were granted, and by whom; which fields of the lease a state of the
exchange has filled (`LeaseOK`); and that the transaction id stays within its bound
(`XidOK`).

**UDP** (`EthernetUDP_proofs`), for any buffer sizes and datagrams. The receive buffer has no marks
between datagrams, so `RxOK` says that from the unread bytes on it can be cut into
whole ones, and that these are `behind` (`Holds`: an ascending list of the places where
headers stand). `TxOK` relates the ring's pointers and `_offset`; `CallOK` is about the locals of a call. They give `TypeCorrect`
and `CountedBytesAreThere`, and `DatagramsAreServed`: each action maps to one of
`DatagramService` or to a stutter. Packets may be of any length below the range of the
16-bit pointers; of those longer than the transmit buffer the service promises their
length only, and `PacketOK` says that the ring holds the packet while it fits.

**DNS** (`DNSClient_proofs`), for any names, identifications, ports and any number of late
answers. `AskedOK`: the question that waits is the only one that may be answered with
its identification. `ReaderOK`: the reader is at one of thirteen places of an answer to
its own name, with the counts that belong there, or at the end of a message that is cut off,
where its reads get nothing and no address is taken; the cells of every answer are computed
in `AnswersAre`. `OwnAnswers` follows when the reader is at an address or has none. It rests on the
model's assumption that an identification does not return while its answer is on the
way.

**Bonjour** (`Bonjour_proofs`), for any clock, lifetimes, services and slots. `OneCallback`
needs which queries the running step has in hand and has not freed yet (`Keeps`).
`PromptRunsKeepPeersInformed` assumes `Prompt`: `announceTimeOut + 2 * Gap <= TTL` and
`Settled <= announceTimeOut`. With the code's values, announcements after 90 of 120
seconds, run must come every 15 seconds. One gap may pass before the run that finds
the announcement due, one while it is at work. `AgeOK` bounds the age of the last announcement,
`HeardOK` what peers have heard by it; the clock may wrap any number of times.

**Algorithms** (`Parsing_proofs` for streams, numbers and addresses, `Algorithms_proofs` for names,
questions, answers and the theorems), for streams, words, numbers, texts, addresses and names
of any length and number, and a `long` of 8 to 32 bits. The inputs do not depend on each
other: the invariant `Picked` says where the parts of the current one come from, and each
property is a lemma about all of them. The model writes the loops over characters as
folds. `FoldExists` and `FoldRuns` take a fold apart into a run, the sequence of its
states between two characters, and `Positions` is the induction on which character is
next; what is known behind the k-th one plays the part of an inductive invariant:

- `FirstOccurrence`. Behind k characters, `index` of a word is the longest beginning of the
  word that the stream, up to k, ends with (`Longest`), and no whole word ended before
  (`SearchInv`). The fallback of `findMulti` keeps it: every beginning that fits after one more
  character is one more than a beginning that fitted before.
- `LinesRoundTrip`. The position of the first timeout or terminator (`Pause`, `Stop`).
- `AddressesRoundTrip`. What `fromString` has read are the fields between the dots so far:
  `GivenInv` relates its bytes and its accumulator to them, `Alike` those of `inet_aton` to
  those of `fromString`, and `Named` says that a last field which begins with two letters is
  more than a byte, whatever its letters count for, as long as it is no longer than
  `ShortLabel`, so that the int does not wrap.
- `NumbersRoundTrip` and `DecimalsRoundTrip`. The digits that `printNumber` puts in front of
  each other denote what the loop has not got left (`DigitsValue`); `Value` computes modulo
  the width of a long at every digit what the digits denote (`ValueIs`), so that the extreme
  number, whose negation is not a long, comes back too. Grouping changes no digit
  (`WithCommaIs`). What stands before and behind a number is not part of it
  (`ParseIntIs`, `DecimalTaken`).
- `NamesAreOnTheWire`. `NamesGrow` is the induction on the number of labels. What
  `writeDNSName` has written behind a label is the wire format of the labels so far, and what
  is open is less than a buffer; the lengths of the records are compared with it.
- `QuestionsAreMatched`. The pieces that `nameMatches` compares make up the label they come
  from. A name takes its own pieces one behind the other; what it takes of others leaves
  less of the name, dots aside (`Bare`), by exactly their characters.
- `AddressesBelong`. `Compared`, which takes the pieces of an answer's name, is run beside
  `nameMatches` (`SameMatch`), and a response without services is a fold over the states
  of `AnswerStates`: the second answer finds the callback either used or untouched by the
  first. The theorem says which answers pass: spelled out those about the host asked for and
  no others, with a pointer also wrongly guessed ones, each under the exact condition of the guess. The hosts are any
  that have an address and names which differ in more than dots (`HostsAssumption`): two
  that differ in dots alone would be taken for each other, as `QuestionsAreMatched` says.
- `QuestionsAreAnswered`, for any number of questions. `SpelledIs` says which question is
  taken for which of a host's own names (`OwnNamesAre`); `AskedAll` is the induction on the
  questions: a name is asked for when one of them asks for it, and the missing address when
  it was asked for before the address; behind it, it may be left out. A name
  spelled out is recognised with a pointer behind it and without. `RecordsSent` is the induction on the services: the
  records sent are those of the services wanted, each once. That needs services which
  differ in name, port or protocol (`ServicesAssumption`): `addServiceRecord` does not check
  it, and a service registered twice is answered twice. It also needs names that
  differ in more than dots, as above.

The assumptions on constants are the named ASSUMEs of the modules, which TLC evaluates
in every run: at least one socket, ports of different servers and objects apart, objects
of different kinds apart, times shorter than the clock's turn, and the like.

Only model-checked:

- liveness (`CallsReturn`, `TransfersEnd`, `DatagramCallsEnd`, `CallsComeBack`, `ServerListensAgain`, `ConnectionLetGo`,
  `LookupEnds`, `QueryEnds`): the prover has no rule for ENABLED and fairness;
- `FoundServicesAreWhole`: it speaks of 720 packets, which TLC enumerates.

## Not modelled

- SPI frames, serial line, board tables, start-up code: input and output without
  decisions. A register access is atomic because a single thread owns the bus.
- `json.c` (third party) and the REST stubs (called by nobody).
- `sendto`, `recvfrom`, `igmpsend`, `flush` of `socket.c`: called by nobody.
- Bonjour packets cut off, and malformed ones: `read_buf` then fails and its result is not
  looked at.
- Packet layouts of DHCP and the millisecond arithmetic of `checkLease`.
- `printFloat` and the multiplications of `parseFloat`: there are no floats in TLA+. What
  decides them, the digits and their count, is in `parseFloat`.
- The transaction ids and the addressee of Bonjour packets: the code ignores the first
  and always sends to the group.
- Reads through a handle without a socket: register block 8 wraps to that of
  socket 0. Callers in the repository test the handle first.

## Plan

What is left: Bonjour packets that are cut off, and a second handle in `WebServerLoop`.
