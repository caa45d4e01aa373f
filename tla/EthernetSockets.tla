-------------------------- MODULE EthernetSockets --------------------------
(***************************************************************************)
(* EthernetServer.c, EthernetClient.c, the socket allocation of            *)
(* EthernetUdp.c and Ethernet_server_port, over the W5500's eight sockets. *)
(*                                                                         *)
(* One thread runs this code, one call at a time; pc says where in the     *)
(* call it is. Every access to a chip register is a step of its own, so    *)
(* the chip and the peers (ChipStep) may change the status between two of  *)
(* them. Work on the program's own memory is done in the step that comes   *)
(* before or after it.                                                     *)
(***************************************************************************)
EXTENDS W5500

CONSTANTS ServerPorts,   \* one EthernetServer object per port
          Clients,       \* EthernetClient objects
          Outgoing,      \* those of them the program connects to remote hosts
          Udps,          \* EthernetUDP objects
          UdpPort,       \* the local port they open
          None           \* no object: the temporary clients of EthernetServer.c

ASSUME ObjectAssumption ==
  /\ ServerPorts \subseteq Ports
  /\ UdpPort \in Ports \ ServerPorts
  /\ Outgoing \subseteq Clients
  /\ Clients \cap Udps = {}
  /\ None \notin Clients \cup Udps \cup Ports

VARIABLES server_port,   \* Ethernet_server_port[]; None is its 0
          begun,         \* the ports of the EthernetServer objects that have been begun
          _sock,         \* the _sock field of each EthernetClient and EthernetUDP
          pc,            \* the statement the thread is about to execute
          self,          \* the object the running call was made on
          port,          \* _port of the EthernetServer the running call was made on
          i,             \* the loop index over the sockets
          listening,     \* the local of EthernetServer_accept
          caller         \* who called EthernetServer_accept or begin

threadVars == <<pc, self, port, i, listening, caller>>
vars == <<chipVars, server_port, begun, _sock, threadVars>>

Handles == Clients \cup Udps

Labels == {"idle", "accept", "accept_cw", "accept_rx", "stop", "stop_wait",
           "stop_close", "stop_clear", "begin", "begin_register", "available",
           "available_cw", "available_rx", "write", "send_room", "send_cmd",
           "send_wait", "connect", "connect_cmd", "connect_est",
           "connect_closed", "udp"}

TypeOK ==
  /\ ChipTypeOK
  /\ server_port \in [SOCKETS -> ServerPorts \cup {None}]
  /\ begun \subseteq ServerPorts
  /\ _sock \in [Handles -> 0 .. MAX_SOCK_NUM]
  /\ pc \in Labels
  /\ self \in Handles \cup {None}
  /\ port \in ServerPorts \cup {None}
  /\ i \in 0 .. MAX_SOCK_NUM
  /\ listening \in {0, 1}
  /\ caller \in {"none", "available", "write"}

Init ==
  /\ ChipInit
  /\ server_port = [s \in SOCKETS |-> None]
  /\ begun = {}
  /\ _sock = [h \in Handles |-> MAX_SOCK_NUM]
  /\ pc = "idle" /\ self = None /\ port = None
  /\ i = 0 /\ listening = 0 /\ caller = "none"

-----------------------------------------------------------------------------
(* Control: the beginning, the loops and the end of a call. *)

\* The program makes a call; from then on the thread is inside it.
Call(label, object, p, who) ==
  /\ pc = "idle"
  /\ pc' = label /\ self' = object /\ port' = p /\ caller' = who
  /\ i' = 0 /\ listening' = 0
  /\ UNCHANGED <<chipVars, server_port, _sock>>

\* The call returns. Its locals are dead and take their initial values again.
Return ==
  /\ pc' = "idle" /\ self' = None /\ port' = None
  /\ i' = 0 /\ listening' = 0 /\ caller' = "none"

Goto(label) == pc' = label /\ UNCHANGED <<self, port, i, listening, caller>>

\* The next iteration of a for loop over the sockets.
NextSock(label) ==
  pc' = label /\ i' = i + 1 /\ UNCHANGED <<self, port, listening, caller>>

\* A new loop over the sockets, or the statement after accept in the caller.
StartLoop(label) ==
  pc' = label /\ i' = 0 /\ listening' = 0 /\ UNCHANGED <<self, port, caller>>

InLoop(label) == pc = label /\ i < MAX_SOCK_NUM
LoopEnds(label) == pc = label /\ i = MAX_SOCK_NUM

\* The socket a stop or a send works on: that of the object, or, for the
\* temporary EthernetClient that EthernetServer.c makes, the loop's.
Target == IF self = None THEN i ELSE _sock[self]

ReadOnly == UNCHANGED <<chipVars, server_port, _sock>>

-----------------------------------------------------------------------------
(* EthernetServer_begin and EthernetServer_accept. *)

\* The end of EthernetServer_begin is the end of the call, or of accept in it.
BeginReturns == IF caller = "none" THEN Return ELSE StartLoop(caller)

BeginBusy ==
  /\ InLoop("begin") /\ sr[i] # "CLOSED"
  /\ NextSock("begin") /\ ReadOnly

BeginListen ==
  /\ InLoop("begin") /\ sr[i] = "CLOSED"
  /\ socketListen(i, port)
  /\ Goto("begin_register") /\ UNCHANGED <<server_port, _sock>>

BeginRegister ==
  /\ pc = "begin_register"
  /\ server_port' = [server_port EXCEPT ![i] = port]
  /\ BeginReturns /\ UNCHANGED <<chipVars, _sock>>

BeginNoSocket ==
  /\ LoopEnds("begin")
  /\ BeginReturns /\ ReadOnly

AcceptListening ==
  /\ InLoop("accept") /\ server_port[i] = port /\ sr[i] = "LISTEN"
  /\ pc' = "accept" /\ i' = i + 1 /\ listening' = 1
  /\ UNCHANGED <<self, port, caller>> /\ ReadOnly

AcceptOther ==
  /\ InLoop("accept") /\ server_port[i] # port
  /\ NextSock("accept") /\ ReadOnly

\* Mutant of AcceptNotListening: the flag says what the last socket was.
AcceptNotListeningResets ==
  /\ InLoop("accept") /\ server_port[i] = port /\ sr[i] # "LISTEN"
  /\ pc' = "accept_cw" /\ listening' = 0
  /\ UNCHANGED <<self, port, i, caller>> /\ ReadOnly

AcceptNotListening ==
  /\ InLoop("accept") /\ server_port[i] = port /\ sr[i] # "LISTEN"
  /\ Goto("accept_cw") /\ ReadOnly

\* Mutant of AcceptReadCloseWait: finished connections are left to the program.
AcceptReapsNothing ==
  pc = "accept_cw" /\ NextSock("accept") /\ ReadOnly

\* The status is read a second time.
AcceptReadCloseWait ==
  /\ pc = "accept_cw"
  /\ IF sr[i] = "CLOSE_WAIT" THEN Goto("accept_rx") ELSE NextSock("accept")
  /\ ReadOnly

\* Mutant of AcceptReadRX: unread data does not keep the connection.
AcceptIgnoresRX == pc = "accept_rx" /\ Goto("stop") /\ ReadOnly

AcceptReadRX ==
  /\ pc = "accept_rx"
  /\ IF rx[i] = 0 THEN Goto("stop") ELSE NextSock("accept")
  /\ ReadOnly

AcceptEnds ==
  /\ LoopEnds("accept")
  /\ StartLoop(IF listening = 1 THEN caller ELSE "begin") /\ ReadOnly

Accept == \/ AcceptListening \/ AcceptOther \/ AcceptNotListening
          \/ AcceptReadCloseWait \/ AcceptReadRX \/ AcceptEnds
Begin == BeginBusy \/ BeginListen \/ BeginRegister \/ BeginNoSocket

-----------------------------------------------------------------------------
(* EthernetServer_available, after its accept. *)

\* Mutant of AvailableReadEstablished: any server's socket will do.
AvailableAnyServer ==
  /\ InLoop("available")
  /\ IF server_port[i] = None THEN NextSock("available")
     ELSE Goto(IF sr[i] = "ESTABLISHED" THEN "available_rx" ELSE "available_cw")
  /\ ReadOnly

AvailableReadEstablished ==
  /\ InLoop("available")
  /\ IF server_port[i] # port THEN NextSock("available")
     ELSE Goto(IF sr[i] = "ESTABLISHED" THEN "available_rx" ELSE "available_cw")
  /\ ReadOnly

\* The right operand of || reads the status again.
AvailableReadCloseWait ==
  /\ pc = "available_cw"
  /\ IF sr[i] = "CLOSE_WAIT" THEN Goto("available_rx") ELSE NextSock("available")
  /\ ReadOnly

\* Data: the temporary client is returned, and assigned to an object of the
\* program that is not in use.
AvailableFound(c) ==
  /\ pc = "available_rx" /\ rx[i] > 0
  /\ _sock[c] = MAX_SOCK_NUM
  /\ _sock' = [_sock EXCEPT ![c] = i]
  /\ Return /\ UNCHANGED <<chipVars, server_port>>

AvailableNoData ==
  /\ pc = "available_rx" /\ rx[i] = 0
  /\ NextSock("available") /\ ReadOnly

AvailableNone ==
  /\ LoopEnds("available")
  /\ Return /\ ReadOnly

Available == \/ AvailableReadEstablished \/ AvailableReadCloseWait
             \/ (\E c \in Clients \ Outgoing : AvailableFound(c))
             \/ AvailableNoData \/ AvailableNone

-----------------------------------------------------------------------------
(* EthernetServer_write after its accept, EthernetClient_write and send(). *)

WriteSkip ==
  /\ InLoop("write")
  /\ server_port[i] # port \/ sr[i] # "ESTABLISHED"
  /\ NextSock("write") /\ ReadOnly

WriteTo ==
  /\ InLoop("write") /\ server_port[i] = port /\ sr[i] = "ESTABLISHED"
  /\ Goto("send_room") /\ ReadOnly

WriteEnds ==
  /\ LoopEnds("write")
  /\ Return /\ ReadOnly

\* send() waits while the connection stands and its transmit buffer lacks room.
\* It leaves the loop when there is room, or when the status says that the
\* connection is gone. Both ways lead to the SEND command.
SendGone ==
  /\ pc = "send_room" /\ sr[Target] \notin Connected
  /\ Goto("send_cmd") /\ ReadOnly

SendRoom ==
  /\ pc = "send_room" /\ sr[Target] \in Connected
  /\ Goto("send_cmd") /\ ReadOnly

SendCommand ==
  /\ pc = "send_cmd"
  /\ execSEND(Target)
  /\ Goto("send_wait") /\ UNCHANGED <<server_port, _sock>>

SendReturns == IF self = None THEN NextSock("write") ELSE Return

SendAcknowledged ==
  /\ pc = "send_wait" /\ tx[Target] = "sent"
  /\ clearSENDOK(Target)
  /\ SendReturns /\ UNCHANGED <<server_port, _sock>>

SendClosed ==
  /\ pc = "send_wait" /\ sr[Target] = "CLOSED"
  /\ close(Target)
  /\ SendReturns /\ UNCHANGED <<server_port, _sock>>

Send == SendGone \/ SendCommand \/ SendAcknowledged \/ SendClosed
Write == WriteSkip \/ WriteTo \/ WriteEnds

-----------------------------------------------------------------------------
(* EthernetClient_stop. *)

StopDisconnect ==
  /\ pc = "stop"
  /\ disconnect(Target)
  /\ Goto("stop_wait") /\ UNCHANGED <<server_port, _sock>>

\* Mutant of StopCheck: no time limit.
StopWaitsForever ==
  /\ pc = "stop_wait" /\ sr[Target] = "CLOSED"
  /\ Goto("stop_clear") /\ ReadOnly

\* The wait ends when the status reads CLOSED or after a second, whatever the
\* chip did meanwhile. Then the status is read once more.
StopCheck ==
  /\ pc = "stop_wait"
  /\ Goto(IF sr[Target] = "CLOSED" THEN "stop_clear" ELSE "stop_close")
  /\ ReadOnly

\* Mutant of StopClose: the socket is not closed when the time is up.
StopLeavesOpen ==
  /\ pc = "stop_close"
  /\ Goto("stop_clear") /\ ReadOnly

\* A socket that was not CLOSED at that read is closed, whatever it is by now.
StopClose ==
  /\ pc = "stop_close"
  /\ close(Target)
  /\ Goto("stop_clear") /\ UNCHANGED <<server_port, _sock>>

\* Mutant of StopClear: the handle is not freed.
StopKeepsHandle ==
  /\ pc = "stop_clear"
  /\ server_port' = [server_port EXCEPT ![Target] = None]
  /\ IF self = None THEN NextSock("accept") ELSE Return
  /\ UNCHANGED <<chipVars, _sock>>

\* In both cases the entry of the socket is cleared and the handle freed.
StopClear ==
  /\ pc = "stop_clear"
  /\ server_port' = [server_port EXCEPT ![Target] = None]
  /\ IF self = None
     THEN NextSock("accept") /\ UNCHANGED _sock
     ELSE Return /\ _sock' = [_sock EXCEPT ![self] = MAX_SOCK_NUM]
  /\ UNCHANGED chipVars

Stop == StopDisconnect \/ StopCheck \/ StopClose \/ StopClear

-----------------------------------------------------------------------------
(* EthernetClient_connect_ip. *)

ReusedByConnect == {"CLOSED", "FIN_WAIT", "CLOSE_WAIT"}

ConnectBusy ==
  /\ InLoop("connect") /\ sr[i] \notin ReusedByConnect
  /\ NextSock("connect") /\ ReadOnly

ConnectNoSocket ==
  /\ LoopEnds("connect")
  /\ Return /\ ReadOnly

ConnectOpen ==
  /\ InLoop("connect") /\ sr[i] \in ReusedByConnect
  /\ _sock' = [_sock EXCEPT ![self] = i]
  /\ socket(i, "INIT", Ephemeral)
  /\ Goto("connect_cmd") /\ UNCHANGED server_port

ConnectCommand ==
  /\ pc = "connect_cmd"
  /\ connect(_sock[self])
  /\ Goto("connect_est") /\ UNCHANGED <<server_port, _sock>>

\* connect() refuses 0.0.0.0, 255.255.255.255 and port 0. The socket stays open.
ConnectRefused ==
  /\ pc = "connect_cmd"
  /\ _sock' = [_sock EXCEPT ![self] = MAX_SOCK_NUM]
  /\ Return /\ UNCHANGED <<chipVars, server_port>>

\* The loop reads the status twice an iteration: for ESTABLISHED, for CLOSED.
ConnectEstablished ==
  /\ pc = "connect_est"
  /\ IF sr[_sock[self]] = "ESTABLISHED" THEN Return ELSE Goto("connect_closed")
  /\ ReadOnly

ConnectClosed ==
  /\ pc = "connect_closed"
  /\ IF sr[_sock[self]] = "CLOSED"
     THEN Return /\ _sock' = [_sock EXCEPT ![self] = MAX_SOCK_NUM]
     ELSE Goto("connect_est") /\ UNCHANGED _sock
  /\ UNCHANGED <<chipVars, server_port>>

Connect == \/ ConnectBusy \/ ConnectNoSocket \/ ConnectOpen \/ ConnectCommand
           \/ ConnectRefused \/ ConnectEstablished \/ ConnectClosed

-----------------------------------------------------------------------------
(* EthernetUDP_begin, EthernetUDP_beginMulticast and EthernetUDP_stop. *)

ReusedByUdp == {"CLOSED", "FIN_WAIT"}

UdpBusy ==
  /\ InLoop("udp") /\ sr[i] \notin ReusedByUdp
  /\ NextSock("udp") /\ ReadOnly

UdpOpen ==
  /\ InLoop("udp") /\ sr[i] \in ReusedByUdp
  /\ _sock' = [_sock EXCEPT ![self] = i]
  /\ socket(i, "UDP", UdpPort)
  /\ Return /\ UNCHANGED server_port

\* No free socket: EthernetUDP_begin, whose handle names none, gives up, and so
\* does beginMulticast; but beginMulticast does not look at the handle before
\* the loop, and goes on with the socket the handle may still name.
UdpNoSocket ==
  /\ LoopEnds("udp") /\ _sock[self] = MAX_SOCK_NUM
  /\ Return /\ ReadOnly

UdpReopen ==
  /\ LoopEnds("udp") /\ _sock[self] # MAX_SOCK_NUM
  /\ socket(_sock[self], "UDP", UdpPort)
  /\ Return /\ UNCHANGED <<server_port, _sock>>

Udp == UdpBusy \/ UdpOpen \/ UdpNoSocket \/ UdpReopen

-----------------------------------------------------------------------------
(* The calls of the program. *)

\* A program begins each of its servers once, before it uses it (InitTests).
EthernetServer_begin(p) ==
  /\ p \notin begun /\ begun' = begun \cup {p}
  /\ Call("begin", None, p, "none")

\* The result needs an object of the program to be assigned to.
EthernetServer_available(p) ==
  /\ p \in begun
  /\ \E c \in Clients \ Outgoing : _sock[c] = MAX_SOCK_NUM
  /\ Call("accept", None, p, "available") /\ UNCHANGED begun

EthernetServer_write(p) ==
  /\ p \in begun
  /\ Call("accept", None, p, "write") /\ UNCHANGED begun

EthernetClient_connect_ip(c) ==
  /\ _sock[c] = MAX_SOCK_NUM
  /\ Call("connect", c, None, "none") /\ UNCHANGED begun

EthernetClient_stop(c) ==
  /\ _sock[c] # MAX_SOCK_NUM
  /\ Call("stop", c, None, "none") /\ UNCHANGED begun

EthernetClient_write(c) ==
  /\ _sock[c] # MAX_SOCK_NUM
  /\ Call("send_room", c, None, "none") /\ UNCHANGED begun

EthernetClient_read(c) ==
  /\ pc = "idle" /\ _sock[c] # MAX_SOCK_NUM
  /\ recv(_sock[c])
  /\ UNCHANGED <<server_port, begun, _sock, threadVars>>

EthernetUDP_begin(u) ==
  /\ _sock[u] = MAX_SOCK_NUM
  /\ Call("udp", u, None, "none") /\ UNCHANGED begun

EthernetUDP_beginMulticast(u) == Call("udp", u, None, "none") /\ UNCHANGED begun

EthernetUDP_stop(u) ==
  /\ pc = "idle" /\ _sock[u] # MAX_SOCK_NUM
  /\ close(_sock[u])
  /\ server_port' = [server_port EXCEPT ![_sock[u]] = None]
  /\ _sock' = [_sock EXCEPT ![u] = MAX_SOCK_NUM]
  /\ UNCHANGED <<begun, threadVars>>

Program ==
  \/ \E p \in ServerPorts : \/ EthernetServer_begin(p)
                             \/ EthernetServer_available(p)
                             \/ EthernetServer_write(p)
  \/ \E c \in Outgoing : EthernetClient_connect_ip(c)
  \/ \E c \in Clients : \/ EthernetClient_stop(c)
                         \/ EthernetClient_write(c)
                         \/ EthernetClient_read(c)
  \/ \E u \in Udps : \/ EthernetUDP_begin(u)
                      \/ EthernetUDP_beginMulticast(u)
                      \/ EthernetUDP_stop(u)

\* The steps of the running call that wait for nothing but the thread's turn.
Thread ==
  /\ Accept \/ Begin \/ Available \/ Write \/ Send \/ Stop \/ Connect \/ Udp
  /\ UNCHANGED begun

WaitForRoom == SendRoom /\ UNCHANGED begun

Environment ==
  /\ \E s \in SOCKETS : ChipStep(s)
  /\ UNCHANGED <<server_port, begun, _sock, threadVars>>

Next == Program \/ Thread \/ WaitForRoom \/ Environment

Spec == Init /\ [][Next]_vars

-----------------------------------------------------------------------------
(* Properties. *)

\* A socket that listens is registered in Ethernet_server_port under the very
\* port it listens on, except between the LISTEN command and the assignment
\* that follows it in EthernetServer_begin. accept and available look only at
\* Ethernet_server_port: a listener they cannot see would take connections
\* that nobody serves.
ListenerRegistered ==
  \A s \in SOCKETS : sr[s] = "LISTEN" =>
    \/ server_port[s] = lport[s]
    \/ pc = "begin_register" /\ s = i /\ lport[s] = port

\* accept opens a listener only when no socket of the server listens, although
\* it looks at the sockets one after the other while peers connect, and stops
\* some of them (up to a second each) on the way: a server never occupies two
\* sockets with listening.
AtMostOneListener ==
  \A s, t \in SOCKETS :
    (sr[s] = "LISTEN" /\ sr[t] = "LISTEN" /\ lport[s] = lport[t]) => s = t

\* accept disconnects only connections that the peer has finished and whose
\* data the program has read, although it reads the two registers apart.
AcceptReapsOnlyFinished ==
  (pc = "stop" /\ self = None) => rx[i] = 0 /\ sr[i] \in {"CLOSE_WAIT", "CLOSED"}

\* A connection that available hands out or write sends to was accepted on the
\* port of the server, also when the entry of its socket is an old one. (Only
\* for programs without outgoing connections: EthernetClient_connect_ip reuses
\* sockets and leaves Ethernet_server_port alone.)
OwnConnectionsServed ==
  (pc = "available_rx" \/ (pc = "send_cmd" /\ self = None))
    => (sr[i] \in Connected => lport[i] = port)

\* Every call comes back, in spite of chip and peers that may do nothing at all,
\* unless it waits for a peer in send() or for the end of a connection attempt:
\* EthernetClient_stop waits for the other side, but not longer than a second.
BlocksOnPeer == pc \in {"send_room", "send_wait", "connect_est", "connect_closed"}
CallsReturn == []<>(pc = "idle" \/ BlocksOnPeer)
=============================================================================
