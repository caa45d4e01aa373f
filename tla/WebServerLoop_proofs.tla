------------------------ MODULE WebServerLoop_proofs ------------------------
(***************************************************************************)
(* Proofs about the sockets and the test program that uses them, for every *)
(* number of sockets, set of servers, clients and UDP objects. First, of   *)
(* EthernetSockets and every program: type correctness; that a server      *)
(* never has two listening sockets and never one that Ethernet_server_port *)
(* does not show; that accept ends finished connections only; and that a   *)
(* server serves none but its own. Then, of WebServerLoop: it uses the     *)
(* sockets as EthernetSockets lets any program use them, so that all this  *)
(* holds of it; and while it serves a connection, the socket in its handle *)
(* stays the server's own.                                                 *)
(***************************************************************************)
EXTENDS WebServerLoop, TLAPS

AcceptLabels == {"accept", "accept_cw", "accept_rx"}
AvailableLabels == {"available", "available_cw", "available_rx"}
StopLabels == {"stop", "stop_wait", "stop_close", "stop_clear"}
SendLabels == {"send_room", "send_cmd", "send_wait"}
PollLabels == {"connect_cmd", "connect_est", "connect_closed"}

\* What the control state says about the locals of the running call: which of
\* them hold a socket number, an object or a port at which statement.
ControlOK ==
  /\ pc \in PollLabels => self \in Clients /\ _sock[self] \in SOCKETS
  /\ pc = "connect" => self \in Clients
  /\ pc = "udp" => self \in Udps
  /\ pc \in StopLabels \cup SendLabels => Target \in SOCKETS
  /\ pc \in {"accept_cw", "accept_rx", "available_cw", "available_rx", "begin_register"}
       => i \in SOCKETS
  /\ pc \in AcceptLabels \cup AvailableLabels \cup {"begin", "begin_register", "write"}
       => port \in ServerPorts /\ port \in begun /\ self = None
  /\ pc \in StopLabels \cup SendLabels /\ self = None
       => port \in ServerPorts /\ port \in begun
  /\ pc \in AcceptLabels => caller # "none"
  /\ pc \in StopLabels /\ self = None => caller # "none"

TInv == TypeOK /\ ControlOK

\* The sockets that accept has passed: all before i, and i itself once its
\* status has been read.
Passed(s) == s < i \/ (s = i /\ pc # "accept")

InAccept == pc \in AcceptLabels \/ (pc \in StopLabels /\ self = None)

Listens(s, p) == sr[s] = "LISTEN" /\ lport[s] = p

\* The inductive strengthening of AtMostOneListener and ListenerRegistered:
\* a server that is not begun has no listener; accept that has seen none so far
\* knows that none is among the sockets it has passed; begin runs only when
\* there is none at all; and the socket whose entry stop is about to clear is
\* CLOSED, whether the chip or stop has closed it.
LInv ==
  /\ ListenerRegistered
  /\ AtMostOneListener
  /\ \A s \in SOCKETS : sr[s] = "LISTEN" => lport[s] \in begun
  /\ pc = "begin_register" => lport[i] = port
  /\ pc = "begin" => \A s \in SOCKETS : ~ Listens(s, port)
  /\ InAccept /\ listening = 0 => \A s \in SOCKETS : Passed(s) => ~ Listens(s, port)
  /\ pc = "stop_clear" => sr[Target] = "CLOSED"

-----------------------------------------------------------------------------
(* Type correctness. *)

LEMMA InitTInv == Init => TInv
<1> SUFFICES ASSUME Init PROVE TInv
  OBVIOUS
<1>1. MAX_SOCK_NUM \in 0 .. MAX_SOCK_NUM /\ 0 \in 0 .. MAX_SOCK_NUM /\ 0 \in 0 .. RxCap
  BY ChipAssumption
<1>2. ChipTypeOK
  BY <1>1 DEF Init, ChipInit, ChipTypeOK, SnSR
<1>3. TypeOK
  BY <1>1, <1>2 DEF Init, TypeOK, Labels
<1>4. ControlOK
  BY DEF Init, ControlOK, AcceptLabels, AvailableLabels, StopLabels, SendLabels, PollLabels
<1>5. QED BY <1>3, <1>4 DEF TInv

LEMMA CloseType ==
  ASSUME ChipTypeOK, NEW s \in SOCKETS, close(s)
  PROVE  ChipTypeOK' /\ sr'[s] = "CLOSED"
BY DEF ChipTypeOK, close, SnSR

LEMMA SocketType ==
  ASSUME ChipTypeOK, NEW s \in SOCKETS, NEW opened \in SnSR, NEW p \in Ports \cup {Ephemeral},
         socket(s, opened, p)
  PROVE  ChipTypeOK' /\ sr'[s] = opened /\ lport'[s] = p
<1>1. 0 \in 0 .. RxCap
  BY ChipAssumption
<1>2. QED BY <1>1 DEF ChipTypeOK, socket

\* A handle that is given a socket, or none, stays a handle.
LEMMA HandleType ==
  ASSUME _sock \in [Handles -> 0 .. MAX_SOCK_NUM], NEW h \in Handles,
         NEW n \in 0 .. MAX_SOCK_NUM, _sock' = [_sock EXCEPT ![h] = n]
  PROVE  _sock' \in [Handles -> 0 .. MAX_SOCK_NUM] /\ _sock'[h] = n
OBVIOUS

LEMMA AcceptTInv == TInv /\ Accept /\ UNCHANGED begun => TInv'
<1> USE ChipAssumption, ObjectAssumption
        DEF TInv, TypeOK, ControlOK, Labels, Target, SOCKETS, Handles, ChipTypeOK,
            AcceptLabels, AvailableLabels, StopLabels, SendLabels, PollLabels,
            InLoop, LoopEnds, NextSock, Goto, StartLoop, ReadOnly, chipVars
<1> SUFFICES ASSUME TInv, Accept, UNCHANGED begun PROVE TInv'
  OBVIOUS
<1>1. CASE AcceptListening BY <1>1 DEF AcceptListening
<1>2. CASE AcceptOther BY <1>2 DEF AcceptOther
<1>3. CASE AcceptNotListening BY <1>3 DEF AcceptNotListening
<1>4. CASE AcceptReadCloseWait BY <1>4, SMTT(60) DEF AcceptReadCloseWait
<1>5. CASE AcceptReadRX BY <1>5, SMTT(60) DEF AcceptReadRX
<1>6. CASE AcceptEnds BY <1>6 DEF AcceptEnds
<1>7. QED BY <1>1, <1>2, <1>3, <1>4, <1>5, <1>6 DEF Accept

LEMMA BeginTInv == TInv /\ Begin /\ UNCHANGED begun => TInv'
<1> USE ChipAssumption, ObjectAssumption
        DEF TInv, TypeOK, ControlOK, Labels, Target, SOCKETS, Handles, ChipTypeOK,
            AcceptLabels, AvailableLabels, StopLabels, SendLabels, PollLabels,
            InLoop, LoopEnds, NextSock, Goto, StartLoop, Return, BeginReturns, ReadOnly, chipVars
<1> SUFFICES ASSUME TInv, Begin, UNCHANGED begun PROVE TInv'
  OBVIOUS
<1>1. CASE BeginBusy BY <1>1 DEF BeginBusy
<1>2. CASE BeginListen BY <1>2 DEF BeginListen, socketListen, socket, SnSR
<1>3. CASE BeginRegister BY <1>3 DEF BeginRegister
<1>4. CASE BeginNoSocket BY <1>4 DEF BeginNoSocket
<1>5. QED BY <1>1, <1>2, <1>3, <1>4 DEF Begin

LEMMA AvailableTInv == TInv /\ Available /\ UNCHANGED begun => TInv'
<1> USE ChipAssumption, ObjectAssumption
        DEF TInv, TypeOK, ControlOK, Labels, Target, SOCKETS, Handles, ChipTypeOK,
            AcceptLabels, AvailableLabels, StopLabels, SendLabels, PollLabels,
            InLoop, LoopEnds, NextSock, Goto, Return, ReadOnly, chipVars
<1> SUFFICES ASSUME TInv, Available, UNCHANGED begun PROVE TInv'
  OBVIOUS
<1>1. CASE AvailableReadEstablished BY <1>1 DEF AvailableReadEstablished
<1>2. CASE AvailableReadCloseWait BY <1>2 DEF AvailableReadCloseWait
<1>3. CASE AvailableNoData BY <1>3 DEF AvailableNoData
<1>4. CASE AvailableNone BY <1>4 DEF AvailableNone
<1>5. CASE \E c \in Clients \ Outgoing : AvailableFound(c)
  BY <1>5 DEF AvailableFound
<1>6. QED BY <1>1, <1>2, <1>3, <1>4, <1>5 DEF Available

LEMMA WriteTInv == TInv /\ Write /\ UNCHANGED begun => TInv'
<1> USE ChipAssumption, ObjectAssumption
        DEF TInv, TypeOK, ControlOK, Labels, Target, SOCKETS, Handles, ChipTypeOK,
            AcceptLabels, AvailableLabels, StopLabels, SendLabels, PollLabels,
            InLoop, LoopEnds, NextSock, Goto, Return, ReadOnly, chipVars
<1> SUFFICES ASSUME TInv, Write, UNCHANGED begun PROVE TInv'
  OBVIOUS
<1>1. CASE WriteSkip BY <1>1 DEF WriteSkip
<1>2. CASE WriteTo BY <1>2 DEF WriteTo
<1>3. CASE WriteEnds BY <1>3 DEF WriteEnds
<1>4. QED BY <1>1, <1>2, <1>3 DEF Write

LEMMA SendTInv == TInv /\ Send /\ UNCHANGED begun => TInv'
<1> USE ChipAssumption, ObjectAssumption
        DEF TInv, TypeOK, ControlOK, Labels, Target, SOCKETS, Handles, ChipTypeOK,
            AcceptLabels, AvailableLabels, StopLabels, SendLabels, PollLabels,
            NextSock, Goto, Return, SendReturns, ReadOnly, chipVars
<1> SUFFICES ASSUME TInv, Send, UNCHANGED begun PROVE TInv'
  OBVIOUS
<1>1. CASE SendGone BY <1>1 DEF SendGone
<1>2. CASE SendCommand BY <1>2 DEF SendCommand, execSEND
<1>3. CASE SendAcknowledged BY <1>3, SMTT(60) DEF SendAcknowledged, clearSENDOK
<1>4. CASE SendClosed
  <2>1. Target \in SOCKETS /\ close(Target)
    BY <1>4 DEF SendClosed
  <2>2. ChipTypeOK'
    BY <2>1, CloseType DEF SOCKETS
  <2>3. CASE self = None BY <1>4, <2>2, <2>3 DEF SendClosed
  <2>4. CASE self # None BY <1>4, <2>2, <2>4 DEF SendClosed
  <2>5. QED BY <2>3, <2>4
<1>5. QED BY <1>1, <1>2, <1>3, <1>4 DEF Send

LEMMA StopTInv == TInv /\ Stop /\ UNCHANGED begun => TInv'
<1> USE ChipAssumption, ObjectAssumption
        DEF TInv, TypeOK, ControlOK, Labels, Target, SOCKETS, Handles, ChipTypeOK,
            AcceptLabels, AvailableLabels, StopLabels, SendLabels, PollLabels,
            NextSock, Goto, Return, ReadOnly, chipVars
<1> SUFFICES ASSUME TInv, Stop, UNCHANGED begun PROVE TInv'
  OBVIOUS
<1>1. CASE StopDisconnect BY <1>1 DEF StopDisconnect, disconnect, SnSR
<1>2. CASE StopCheck BY <1>2 DEF StopCheck
<1>3. CASE StopClose
  <2>1. ChipTypeOK'
    BY <1>3, CloseType DEF StopClose
  <2>2. QED BY <1>3, <2>1 DEF StopClose
<1>4. CASE StopClear
  <2>1. Target \in SOCKETS /\ ChipTypeOK'
    BY <1>4 DEF StopClear
  <2>2. server_port' \in [SOCKETS -> ServerPorts \cup {None}]
    BY <1>4, <2>1 DEF StopClear
  <2>3. CASE self = None BY <1>4, <2>1, <2>2, <2>3 DEF StopClear
  <2>4. CASE self # None
    <3>1. _sock' \in [Handles -> 0 .. MAX_SOCK_NUM]
      BY <1>4, <2>4, HandleType DEF StopClear
    <3>2. QED BY <1>4, <2>1, <2>2, <2>4, <3>1 DEF StopClear
  <2>5. QED BY <2>3, <2>4
<1>5. QED BY <1>1, <1>2, <1>3, <1>4 DEF Stop

LEMMA ConnectTInv == TInv /\ Connect /\ UNCHANGED begun => TInv'
<1> USE ChipAssumption, ObjectAssumption
        DEF TInv, TypeOK, ControlOK, Labels, Target, SOCKETS, Handles, ChipTypeOK,
            AcceptLabels, AvailableLabels, StopLabels, SendLabels, PollLabels,
            InLoop, LoopEnds, NextSock, Goto, Return, ReadOnly, chipVars
<1> SUFFICES ASSUME TInv, Connect, UNCHANGED begun PROVE TInv'
  OBVIOUS
<1>1. CASE ConnectBusy BY <1>1 DEF ConnectBusy
<1>2. CASE ConnectNoSocket BY <1>2 DEF ConnectNoSocket
<1>3. CASE ConnectOpen
  <2>1. i \in SOCKETS /\ self \in Clients
    BY <1>3 DEF ConnectOpen
  <2>2. ChipTypeOK'
    BY <1>3, <2>1, SocketType DEF ConnectOpen, SnSR
  <2>3. _sock' \in [Handles -> 0 .. MAX_SOCK_NUM] /\ _sock'[self] = i
    BY <1>3, <2>1, HandleType DEF ConnectOpen
  <2>4. QED BY <1>3, <2>1, <2>2, <2>3 DEF ConnectOpen
<1>4. CASE ConnectCommand BY <1>4 DEF ConnectCommand, connect, SnSR
<1>5. CASE ConnectRefused BY <1>5 DEF ConnectRefused
<1>6. CASE ConnectEstablished BY <1>6 DEF ConnectEstablished
<1>7. CASE ConnectClosed
  <2>1. CASE sr[_sock[self]] = "CLOSED"
    <3>1. _sock' = [_sock EXCEPT ![self] = MAX_SOCK_NUM]
      BY <1>7, <2>1 DEF ConnectClosed
    <3>2. self \in Handles /\ MAX_SOCK_NUM \in 0 .. MAX_SOCK_NUM
      BY <1>7 DEF ConnectClosed
    <3>3. _sock' \in [Handles -> 0 .. MAX_SOCK_NUM]
      BY <3>1, <3>2, HandleType
    <3>4. QED BY <1>7, <2>1, <3>3 DEF ConnectClosed
  <2>2. CASE sr[_sock[self]] # "CLOSED"
    BY <1>7, <2>2 DEF ConnectClosed
  <2>3. QED BY <2>1, <2>2
<1>8. QED BY <1>1, <1>2, <1>3, <1>4, <1>5, <1>6, <1>7 DEF Connect

LEMMA UdpTInv == TInv /\ Udp /\ UNCHANGED begun => TInv'
<1> USE ChipAssumption, ObjectAssumption
        DEF TInv, TypeOK, ControlOK, Labels, Target, SOCKETS, Handles, ChipTypeOK,
            AcceptLabels, AvailableLabels, StopLabels, SendLabels, PollLabels,
            InLoop, LoopEnds, NextSock, Return, ReadOnly, chipVars
<1> SUFFICES ASSUME TInv, Udp, UNCHANGED begun PROVE TInv'
  OBVIOUS
<1>1. CASE UdpBusy BY <1>1 DEF UdpBusy
<1>2. CASE UdpOpen BY <1>2 DEF UdpOpen, socket, SnSR
<1>3. CASE UdpNoSocket BY <1>3 DEF UdpNoSocket
<1>4. CASE UdpReopen BY <1>4 DEF UdpReopen, socket, SnSR
<1>5. QED BY <1>1, <1>2, <1>3, <1>4 DEF Udp

LEMMA ThreadTInv == TInv /\ Thread => TInv'
BY AcceptTInv, BeginTInv, AvailableTInv, WriteTInv, SendTInv, StopTInv, ConnectTInv, UdpTInv
   DEF Thread

LEMMA WaitTInv == TInv /\ WaitForRoom => TInv'
BY DEF WaitForRoom, SendRoom, Goto, ReadOnly, chipVars, TInv, TypeOK, ControlOK, Labels,
       Target, ChipTypeOK, AcceptLabels, AvailableLabels, StopLabels, SendLabels, PollLabels

LEMMA ProgramTInv == TInv /\ Program => TInv'
<1> USE ChipAssumption, ObjectAssumption
        DEF TInv, TypeOK, ControlOK, Labels, Target, SOCKETS, Handles, ChipTypeOK,
            AcceptLabels, AvailableLabels, StopLabels, SendLabels, PollLabels,
            Call, ReadOnly, chipVars, threadVars
<1> SUFFICES ASSUME TInv, Program PROVE TInv'
  OBVIOUS
<1>1. ASSUME NEW p \in ServerPorts, EthernetServer_begin(p) PROVE TInv'
  BY <1>1 DEF EthernetServer_begin
<1>2. ASSUME NEW p \in ServerPorts, EthernetServer_available(p) PROVE TInv'
  BY <1>2 DEF EthernetServer_available
<1>3. ASSUME NEW p \in ServerPorts, EthernetServer_write(p) PROVE TInv'
  BY <1>3 DEF EthernetServer_write
<1>4. ASSUME NEW c \in Outgoing, EthernetClient_connect_ip(c) PROVE TInv'
  BY <1>4 DEF EthernetClient_connect_ip
<1>5. ASSUME NEW c \in Clients, EthernetClient_stop(c) PROVE TInv'
  BY <1>5 DEF EthernetClient_stop
<1>6. ASSUME NEW c \in Clients, EthernetClient_write(c) PROVE TInv'
  BY <1>6 DEF EthernetClient_write
<1>7. ASSUME NEW c \in Clients, EthernetClient_read(c) PROVE TInv'
  BY <1>7 DEF EthernetClient_read, recv
<1>8. ASSUME NEW u \in Udps, EthernetUDP_begin(u) PROVE TInv'
  BY <1>8 DEF EthernetUDP_begin
<1>9. ASSUME NEW u \in Udps, EthernetUDP_beginMulticast(u) PROVE TInv'
  BY <1>9 DEF EthernetUDP_beginMulticast
<1>10. ASSUME NEW u \in Udps, EthernetUDP_stop(u) PROVE TInv'
  <2>1. _sock[u] \in SOCKETS /\ u \in Handles /\ MAX_SOCK_NUM \in 0 .. MAX_SOCK_NUM
    BY <1>10 DEF EthernetUDP_stop
  <2>2. ChipTypeOK'
    BY <1>10, <2>1, CloseType DEF EthernetUDP_stop
  <2>3. _sock' \in [Handles -> 0 .. MAX_SOCK_NUM]
    BY <1>10, <2>1, HandleType DEF EthernetUDP_stop
  <2>4. QED BY <1>10, <2>1, <2>2, <2>3 DEF EthernetUDP_stop
<1>11. QED
  BY <1>1, <1>2, <1>3, <1>4, <1>5, <1>6, <1>7, <1>8, <1>9, <1>10 DEF Program

\* What the chip and the peers may do to the registers the code looks at.
LEMMA ChipStepType ==
  ASSUME ChipTypeOK, NEW s \in SOCKETS, ChipStep(s)
  PROVE  /\ ChipTypeOK'
         /\ UNCHANGED lport
         /\ \A t \in SOCKETS : sr'[t] = "LISTEN" => sr[t] = "LISTEN"
<1> USE ChipAssumption DEF ChipTypeOK, SnSR, SOCKETS, Move
<1>1. CASE PeerSyn(s) BY <1>1 DEF PeerSyn
<1>2. CASE HandshakeDone(s) BY <1>2 DEF HandshakeDone
<1>3. CASE HandshakeFail(s) BY <1>3 DEF HandshakeFail
<1>4. CASE PeerFin(s) BY <1>4 DEF PeerFin
<1>5. CASE PeerFinLate(s) BY <1>5 DEF PeerFinLate
<1>6. CASE PeerReset(s) BY <1>6 DEF PeerReset
<1>7. CASE ShutdownDone(s) BY <1>7 DEF ShutdownDone
<1>8. CASE PeerData(s) BY <1>8 DEF PeerData
<1>9. CASE SendOk(s) BY <1>9 DEF SendOk
<1>10. QED
  BY <1>1, <1>2, <1>3, <1>4, <1>5, <1>6, <1>7, <1>8, <1>9 DEF ChipStep

LEMMA EnvironmentTInv == TInv /\ Environment => TInv'
<1> SUFFICES ASSUME TInv, Environment PROVE TInv'
  OBVIOUS
<1>1. ChipTypeOK'
  BY ChipStepType DEF Environment, TInv, TypeOK
<1>2. QED
  BY <1>1 DEF Environment, TInv, TypeOK, ControlOK, Target, threadVars

LEMMA StutterTInv == TInv /\ UNCHANGED vars => TInv'
BY DEF vars, chipVars, threadVars, TInv, TypeOK, ControlOK, Target, ChipTypeOK

LEMMA NextTInv == TInv /\ [Next]_vars => TInv'
BY ThreadTInv, WaitTInv, ProgramTInv, EnvironmentTInv, StutterTInv DEF Next

\* Every variable keeps its type. The proof goes through ControlOK: a statement
\* that accesses a register has a socket number for it, never the "no socket"
\* value of a handle nor the final value of a loop index.
THEOREM TypeCorrect == Spec => []TypeOK
<1>1. Spec => []TInv
  BY InitTInv, NextTInv, PTL DEF Spec
<1>2. QED BY <1>1, PTL DEF TInv

-----------------------------------------------------------------------------
(* Listeners. *)

\* Nothing starts to listen, and what listens keeps its port and its entry.
NoNewListener ==
  \A s \in SOCKETS : sr'[s] = "LISTEN" =>
    /\ sr[s] = "LISTEN"
    /\ lport'[s] = lport[s]
    /\ server_port'[s] = server_port[s]

\* What accept knows of the sockets it has passed, begin of all, and stop of the
\* one whose entry it clears.
ScanOK ==
  /\ pc = "begin" => \A s \in SOCKETS : ~ Listens(s, port)
  /\ InAccept /\ listening = 0 => \A s \in SOCKETS : Passed(s) => ~ Listens(s, port)
  /\ pc = "stop_clear" => sr[Target] = "CLOSED"

\* Steps that open no listener and are not the registration of one.
LEMMA QuietLInv ==
  ASSUME LInv, NoNewListener, ScanOK', begun \subseteq begun',
         pc # "begin_register", pc' # "begin_register"
  PROVE  LInv'
BY DEF LInv, NoNewListener, ScanOK, ListenerRegistered, AtMostOneListener

LEMMA CloseQuiet ==
  ASSUME ChipTypeOK, NEW s \in SOCKETS, close(s),
         \A t \in SOCKETS : t # s => server_port'[t] = server_port[t]
  PROVE  NoNewListener
BY DEF ChipTypeOK, close, NoNewListener

LEMMA SocketQuiet ==
  ASSUME ChipTypeOK, NEW s \in SOCKETS, NEW opened, opened # "LISTEN", NEW p,
         socket(s, opened, p), UNCHANGED server_port
  PROVE  NoNewListener
BY DEF ChipTypeOK, socket, NoNewListener

LEMMA UnchangedQuiet == ASSUME UNCHANGED <<chipVars, server_port>> PROVE NoNewListener
BY DEF chipVars, NoNewListener

\* An entry of a socket that does not listen may be cleared.
LEMMA ClearQuiet ==
  ASSUME server_port \in [SOCKETS -> ServerPorts \cup {None}], NEW s \in SOCKETS,
         sr[s] # "LISTEN", server_port' = [server_port EXCEPT ![s] = None], UNCHANGED chipVars
  PROVE  NoNewListener
BY DEF NoNewListener, chipVars

LEMMA InitLInv == Init => LInv
BY DEF Init, ChipInit, LInv, ListenerRegistered, AtMostOneListener, InAccept, AcceptLabels,
       StopLabels

LEMMA AcceptLInv == TInv /\ LInv /\ Accept /\ UNCHANGED begun => LInv'
<1> SUFFICES ASSUME TInv, LInv, Accept, UNCHANGED begun PROVE LInv'
  OBVIOUS
<1>1. NoNewListener /\ pc # "begin_register" /\ pc' # "begin_register"
  BY UnchangedQuiet DEF Accept, AcceptListening, AcceptOther, AcceptNotListening,
     AcceptReadCloseWait, AcceptReadRX, AcceptEnds, InLoop, LoopEnds, ReadOnly, NextSock,
     Goto, StartLoop, TInv, TypeOK, ControlOK, AcceptLabels
<1>2. ScanOK'
  <2> USE DEF ScanOK, InAccept, Passed, Listens, AcceptLabels, StopLabels, ReadOnly, chipVars,
              SOCKETS, TInv, TypeOK, ControlOK
  <2>1. CASE AcceptListening
    BY <2>1 DEF AcceptListening, InLoop
  <2>2. CASE AcceptOther
    <3>1. ~ Listens(i, port)
      BY <2>2, ChipAssumption DEF AcceptOther, InLoop, LInv, ListenerRegistered
    <3>2. QED BY <2>2, <3>1, ChipAssumption DEF AcceptOther, InLoop, NextSock, LInv
  <2>3. CASE AcceptNotListening
    BY <2>3 DEF AcceptNotListening, InLoop, Goto, LInv
  <2>4. CASE AcceptReadCloseWait
    BY <2>4, ChipAssumption DEF AcceptReadCloseWait, Goto, NextSock, LInv
  <2>5. CASE AcceptReadRX
    BY <2>5, ChipAssumption DEF AcceptReadRX, Goto, NextSock, LInv
  <2>6. CASE AcceptEnds
    BY <2>6, ChipAssumption DEF AcceptEnds, LoopEnds, StartLoop, LInv
  <2>7. QED BY <2>1, <2>2, <2>3, <2>4, <2>5, <2>6 DEF Accept
<1>3. QED BY <1>1, <1>2, QuietLInv

LEMMA BeginLInv == TInv /\ LInv /\ Begin /\ UNCHANGED begun => LInv'
<1> SUFFICES ASSUME TInv, LInv, Begin, UNCHANGED begun PROVE LInv'
  OBVIOUS
<1> USE DEF ReadOnly, chipVars, TInv, TypeOK, ControlOK
<1>1. CASE BeginBusy
  <2>1. ScanOK'
    BY <1>1 DEF BeginBusy, InLoop, NextSock, ScanOK, InAccept, AcceptLabels, StopLabels,
       Listens, LInv
  <2>2. QED
    BY <1>1, <2>1, UnchangedQuiet, QuietLInv DEF BeginBusy, InLoop, NextSock
<1>2. CASE BeginListen
  <2>1. i \in SOCKETS /\ port \in begun /\ pc' = "begin_register"
        /\ UNCHANGED <<server_port, port, i>>
    BY <1>2, ChipAssumption DEF BeginListen, InLoop, SOCKETS, Goto
  <2>2. /\ sr' = [sr EXCEPT ![i] = "LISTEN"]
        /\ lport' = [lport EXCEPT ![i] = port]
    BY <1>2 DEF BeginListen, socketListen, socket
  <2>3. \A s \in SOCKETS : ~ Listens(s, port)
    BY <1>2 DEF BeginListen, InLoop, LInv
  <2>4. lport'[i] = port /\ sr'[i] = "LISTEN"
        /\ \A s \in SOCKETS : s # i => sr'[s] = sr[s] /\ lport'[s] = lport[s]
    BY <2>1, <2>2 DEF ChipTypeOK
  <2>5. ListenerRegistered'
    BY <1>2, <2>1, <2>4 DEF ListenerRegistered, LInv, BeginListen, InLoop
  <2>6. AtMostOneListener'
    <3>1. \A s, t \in SOCKETS : sr[s] = "LISTEN" /\ sr[t] = "LISTEN" /\ lport[s] = lport[t] => s = t
      BY DEF AtMostOneListener, LInv
    <3>2. \A s \in SOCKETS : ~(sr[s] = "LISTEN" /\ lport[s] = port)
      BY <2>3 DEF Listens
    <3>3. SUFFICES ASSUME NEW s \in SOCKETS, NEW t \in SOCKETS,
                          sr'[s] = "LISTEN", sr'[t] = "LISTEN", lport'[s] = lport'[t]
                   PROVE  s = t
      BY DEF AtMostOneListener
    <3>4. QED BY ONLY <2>4, <3>1, <3>2, <3>3
  <2>7. QED
    BY <2>1, <2>4, <2>5, <2>6 DEF LInv, InAccept, AcceptLabels, StopLabels
<1>3. CASE BeginRegister
  <2>1. UNCHANGED <<sr, lport>> /\ i \in SOCKETS
        /\ server_port' = [server_port EXCEPT ![i] = port]
    BY <1>3 DEF BeginRegister
  <2>2. pc' \in {"idle", "available", "write"}
    BY <1>3 DEF BeginRegister, BeginReturns, Return, StartLoop
  <2>3. ListenerRegistered'
    BY <1>3, <2>1 DEF BeginRegister, ListenerRegistered, LInv
  <2>4. QED
    BY <2>1, <2>2, <2>3 DEF LInv, AtMostOneListener, InAccept, AcceptLabels, StopLabels
<1>4. CASE BeginNoSocket
  <2>1. pc' \in {"idle", "available", "write"} /\ pc = "begin"
    BY <1>4 DEF BeginNoSocket, LoopEnds, BeginReturns, Return, StartLoop
  <2>2. ScanOK'
    BY <2>1 DEF ScanOK, InAccept, AcceptLabels, StopLabels
  <2>3. QED
    BY <1>4, <2>1, <2>2, UnchangedQuiet, QuietLInv DEF BeginNoSocket
<1>5. QED BY <1>1, <1>2, <1>3, <1>4 DEF Begin

\* Steps of calls that neither accept nor begin.
ElsewhereLabels == {"idle", "available", "available_cw", "available_rx", "write", "connect",
                    "udp"} \cup SendLabels \cup PollLabels

LEMMA ElsewhereLInv ==
  ASSUME LInv, NoNewListener, begun \subseteq begun', pc # "begin_register",
         pc' \in ElsewhereLabels
  PROVE  LInv'
<1>1. pc' # "begin_register" /\ ScanOK'
  BY DEF ElsewhereLabels, ScanOK, InAccept, AcceptLabels, StopLabels, SendLabels, PollLabels
<1>2. QED BY <1>1, QuietLInv

LEMMA AvailableLInv == TInv /\ LInv /\ Available /\ UNCHANGED begun => LInv'
<1> SUFFICES ASSUME TInv, LInv, Available, UNCHANGED begun PROVE LInv'
  OBVIOUS
<1>1. NoNewListener /\ pc # "begin_register" /\ pc' \in ElsewhereLabels
  BY UnchangedQuiet DEF Available, AvailableReadEstablished, AvailableReadCloseWait,
     AvailableFound, AvailableNoData, AvailableNone, InLoop, LoopEnds, ReadOnly, NextSock,
     Goto, Return, ElsewhereLabels
<1>2. QED BY <1>1, ElsewhereLInv

LEMMA WriteLInv == TInv /\ LInv /\ Write /\ UNCHANGED begun => LInv'
<1> SUFFICES ASSUME TInv, LInv, Write, UNCHANGED begun PROVE LInv'
  OBVIOUS
<1>1. NoNewListener /\ pc # "begin_register" /\ pc' \in ElsewhereLabels
  BY UnchangedQuiet DEF Write, WriteSkip, WriteTo, WriteEnds, InLoop, LoopEnds, ReadOnly,
     NextSock, Goto, Return, ElsewhereLabels, SendLabels
<1>2. QED BY <1>1, ElsewhereLInv

LEMMA SendLInv == TInv /\ LInv /\ Send /\ UNCHANGED begun => LInv'
<1> SUFFICES ASSUME TInv, LInv, Send, UNCHANGED begun PROVE LInv'
  OBVIOUS
<1>1. pc # "begin_register" /\ pc' \in ElsewhereLabels
  BY DEF Send, SendGone, SendCommand, SendAcknowledged, SendClosed, SendReturns, NextSock,
     Goto, Return, ElsewhereLabels, SendLabels
<1>2. NoNewListener
  <2>1. CASE SendGone BY <2>1, UnchangedQuiet DEF SendGone, ReadOnly
  <2>2. CASE SendCommand BY <2>2 DEF SendCommand, execSEND, NoNewListener
  <2>3. CASE SendAcknowledged BY <2>3 DEF SendAcknowledged, clearSENDOK, NoNewListener
  <2>4. CASE SendClosed
    <3>1. Target \in SOCKETS /\ close(Target) /\ ChipTypeOK /\ UNCHANGED server_port
      BY <2>4 DEF SendClosed, TInv, TypeOK, ControlOK, SendLabels
    <3>2. QED BY <3>1, CloseQuiet
  <2>5. QED BY <2>1, <2>2, <2>3, <2>4 DEF Send
<1>3. QED BY <1>1, <1>2, ElsewhereLInv

LEMMA ConnectLInv == TInv /\ LInv /\ Connect /\ UNCHANGED begun => LInv'
<1> SUFFICES ASSUME TInv, LInv, Connect, UNCHANGED begun PROVE LInv'
  OBVIOUS
<1>1. pc # "begin_register" /\ pc' \in ElsewhereLabels
  BY DEF Connect, ConnectBusy, ConnectNoSocket, ConnectOpen, ConnectCommand, ConnectRefused,
     ConnectEstablished, ConnectClosed, InLoop, LoopEnds, NextSock, Goto, Return,
     ElsewhereLabels, PollLabels
<1>2. NoNewListener
  <2>1. CASE ConnectOpen
    <3>1. i \in SOCKETS /\ ChipTypeOK /\ socket(i, "INIT", Ephemeral) /\ UNCHANGED server_port
      BY <2>1, ChipAssumption DEF ConnectOpen, InLoop, SOCKETS, TInv, TypeOK
    <3>2. QED BY <3>1, SocketQuiet
  <2>2. CASE ConnectCommand
    BY <2>2 DEF ConnectCommand, connect, NoNewListener, TInv, TypeOK, ChipTypeOK
  <2>3. QED
    BY <2>1, <2>2, UnchangedQuiet DEF Connect, ConnectBusy, ConnectNoSocket, ConnectRefused,
       ConnectEstablished, ConnectClosed, ReadOnly
<1>3. QED BY <1>1, <1>2, ElsewhereLInv

LEMMA UdpLInv == TInv /\ LInv /\ Udp /\ UNCHANGED begun => LInv'
<1> SUFFICES ASSUME TInv, LInv, Udp, UNCHANGED begun PROVE LInv'
  OBVIOUS
<1>1. pc # "begin_register" /\ pc' \in ElsewhereLabels
  BY DEF Udp, UdpBusy, UdpOpen, UdpNoSocket, UdpReopen, InLoop, LoopEnds, NextSock, Return,
     ElsewhereLabels
<1>2. NoNewListener
  <2>1. CASE UdpOpen
    <3>1. i \in SOCKETS /\ ChipTypeOK /\ socket(i, "UDP", UdpPort) /\ UNCHANGED server_port
      BY <2>1, ChipAssumption DEF UdpOpen, InLoop, SOCKETS, TInv, TypeOK
    <3>2. QED BY <3>1, SocketQuiet
  <2>2. CASE UdpReopen
    <3>1. _sock[self] \in SOCKETS /\ ChipTypeOK /\ socket(_sock[self], "UDP", UdpPort)
          /\ UNCHANGED server_port
      BY <2>2, ChipAssumption
         DEF UdpReopen, LoopEnds, SOCKETS, Handles, TInv, TypeOK, ControlOK
    <3>2. QED BY <3>1, SocketQuiet
  <2>3. QED
    BY <2>1, <2>2, UnchangedQuiet DEF Udp, UdpBusy, UdpNoSocket, ReadOnly
<1>3. QED BY <1>1, <1>2, ElsewhereLInv

LEMMA StopLInv == TInv /\ LInv /\ Stop /\ UNCHANGED begun => LInv'
<1> SUFFICES ASSUME TInv, LInv, Stop, UNCHANGED begun PROVE LInv'
  OBVIOUS
<1>1. Target \in SOCKETS /\ ChipTypeOK /\ pc \in StopLabels /\ pc # "begin_register"
  BY DEF Stop, StopDisconnect, StopCheck, StopClose, StopClear, TInv, TypeOK, ControlOK,
     StopLabels
<1>2. NoNewListener
  <2>1. CASE StopDisconnect
    BY <1>1, <2>1 DEF StopDisconnect, disconnect, NoNewListener, ChipTypeOK
  <2>2. CASE StopCheck BY <2>2, UnchangedQuiet DEF StopCheck, ReadOnly
  <2>3. CASE StopClose BY <1>1, <2>3, CloseQuiet DEF StopClose
  <2>4. CASE StopClear
    BY <1>1, <2>4, ClearQuiet DEF StopClear, LInv, TInv, TypeOK
  <2>5. QED BY <2>1, <2>2, <2>3, <2>4 DEF Stop
<1>3. CASE ~ StopClear
  <2>1. pc' \in StopLabels /\ UNCHANGED <<self, port, i, listening>>
    BY <1>3 DEF Stop, StopDisconnect, StopCheck, StopClose, Goto, StopLabels
  <2>2. pc' = "stop_clear" => sr'[Target'] = "CLOSED"
    <3>1. CASE StopDisconnect BY <3>1 DEF StopDisconnect, Goto
    <3>2. CASE StopCheck
      BY <3>2 DEF StopCheck, Goto, ReadOnly, chipVars, Target
    <3>3. CASE StopClose
      BY <1>1, <3>3, CloseType DEF StopClose, Goto, Target
    <3>4. QED BY <1>3, <3>1, <3>2, <3>3 DEF Stop
  <2>3. ScanOK'
    BY <1>1, <1>2, <2>1, <2>2 DEF NoNewListener, ScanOK, InAccept, Passed, Listens,
       AcceptLabels, StopLabels, LInv
  <2>4. QED BY <1>1, <1>2, <2>1, <2>3, QuietLInv DEF StopLabels
<1>4. CASE StopClear /\ self # None
  <2>1. pc' = "idle"
    BY <1>4 DEF StopClear, Return
  <2>2. QED BY <1>1, <1>2, <2>1, ElsewhereLInv DEF ElsewhereLabels
<1>5. CASE StopClear /\ self = None
  <2>1. pc' = "accept" /\ i' = i + 1 /\ UNCHANGED <<self, port, listening>>
    BY <1>5 DEF StopClear, NextSock
  <2>2. ScanOK'
    BY <1>1, <1>2, <1>5, <2>1, ChipAssumption
       DEF ScanOK, NoNewListener, InAccept, Passed, Listens, AcceptLabels, StopLabels, LInv,
           SOCKETS, TInv, TypeOK
  <2>3. QED BY <1>1, <1>2, <2>1, <2>2, QuietLInv
<1>6. QED BY <1>3, <1>4, <1>5

LEMMA ProgramLInv == TInv /\ LInv /\ Program => LInv'
<1> SUFFICES ASSUME TInv, LInv, Program PROVE LInv'
  OBVIOUS
<1>1. ASSUME NEW label \in {"connect", "send_room", "udp"}, NEW object, NEW p, NEW who,
             Call(label, object, p, who), UNCHANGED begun
      PROVE  LInv'
  BY <1>1, UnchangedQuiet, ElsewhereLInv DEF Call, ElsewhereLabels, SendLabels
<1>2. ASSUME NEW p \in ServerPorts, EthernetServer_begin(p) PROVE LInv'
  <2>1. ScanOK'
    BY <1>2 DEF EthernetServer_begin, Call, ScanOK, InAccept, AcceptLabels, StopLabels,
       Listens, LInv, chipVars
  <2>2. QED
    BY <1>2, <2>1, UnchangedQuiet, QuietLInv DEF EthernetServer_begin, Call
<1>3. ASSUME NEW p \in ServerPorts, NEW who, Call("accept", None, p, who), UNCHANGED begun
      PROVE  LInv'
  <2>1. ScanOK'
    BY <1>3, ChipAssumption DEF Call, ScanOK, InAccept, Passed, AcceptLabels, StopLabels, SOCKETS
  <2>2. QED BY <1>3, <2>1, UnchangedQuiet, QuietLInv DEF Call
<1>4. ASSUME NEW c \in Clients, EthernetClient_stop(c) PROVE LInv'
  <2>1. ScanOK'
    BY <1>4, ObjectAssumption DEF EthernetClient_stop, Call, ScanOK, InAccept, AcceptLabels,
       StopLabels
  <2>2. QED BY <1>4, <2>1, UnchangedQuiet, QuietLInv DEF EthernetClient_stop, Call
<1>5. ASSUME NEW c \in Clients, EthernetClient_read(c) PROVE LInv'
  BY <1>5, ElsewhereLInv DEF EthernetClient_read, recv, threadVars, NoNewListener,
     ElsewhereLabels
<1>6. ASSUME NEW u \in Udps, EthernetUDP_stop(u) PROVE LInv'
  <2>1. _sock[u] \in SOCKETS /\ ChipTypeOK /\ pc = "idle" /\ pc' = "idle" /\ begun' = begun
    BY <1>6, ChipAssumption DEF EthernetUDP_stop, threadVars, TInv, TypeOK, Handles, SOCKETS
  <2>2. NoNewListener
    BY <1>6, <2>1, CloseQuiet DEF EthernetUDP_stop, TInv, TypeOK
  <2>3. QED BY <2>1, <2>2, ElsewhereLInv DEF ElsewhereLabels
<1>7. QED
  BY <1>1, <1>2, <1>3, <1>4, <1>5, <1>6
     DEF Program, EthernetServer_available, EthernetServer_write, EthernetClient_connect_ip,
         EthernetClient_write, EthernetUDP_begin, EthernetUDP_beginMulticast

LEMMA EnvironmentLInv == TInv /\ LInv /\ Environment => LInv'
<1> SUFFICES ASSUME TInv, LInv, Environment PROVE LInv'
  OBVIOUS
<1>1. UNCHANGED <<lport, server_port, begun, threadVars>>
      /\ \A s \in SOCKETS : sr'[s] = "LISTEN" => sr[s] = "LISTEN"
  BY ChipStepType DEF Environment, TInv, TypeOK
<1>2. pc' = "stop_clear" => sr'[Target'] = "CLOSED"
  <2>1. SUFFICES ASSUME pc = "stop_clear" PROVE sr'[Target] = "CLOSED" /\ Target' = Target
    BY <1>1 DEF threadVars
  <2>2. Target \in SOCKETS /\ sr[Target] = "CLOSED" /\ ChipTypeOK
    BY <2>1 DEF LInv, TInv, TypeOK, ControlOK, StopLabels
  <2>3. Target' = Target
    BY DEF Environment, threadVars, Target
  <2>4. PICK s \in SOCKETS : ChipStep(s)
    BY DEF Environment
  <2>5. QED
    BY <2>2, <2>3, <2>4 DEF ChipTypeOK, ChipStep, Move, PeerSyn, HandshakeDone, HandshakeFail,
       PeerFin, PeerFinLate, PeerReset, ShutdownDone, PeerData, SendOk
<1>3. QED
  BY <1>1, <1>2 DEF LInv, ListenerRegistered, AtMostOneListener, threadVars, InAccept, Passed,
     Listens

LEMMA NextLInv == TInv /\ LInv /\ [Next]_vars => LInv'
<1> SUFFICES ASSUME TInv, LInv, [Next]_vars PROVE LInv'
  OBVIOUS
<1>1. CASE Program BY <1>1, ProgramLInv
<1>2. CASE Thread
  BY <1>2, AcceptLInv, BeginLInv, AvailableLInv, WriteLInv, SendLInv, StopLInv, ConnectLInv,
     UdpLInv DEF Thread
<1>3. CASE WaitForRoom
  BY <1>3, UnchangedQuiet, ElsewhereLInv
     DEF WaitForRoom, SendRoom, Goto, ReadOnly, ElsewhereLabels, SendLabels
<1>4. CASE Environment BY <1>4, EnvironmentLInv
<1>5. CASE UNCHANGED vars
  BY <1>5 DEF vars, chipVars, threadVars, LInv, ListenerRegistered, AtMostOneListener,
     InAccept, Passed, Listens, Target
<1>6. QED BY <1>1, <1>2, <1>3, <1>4, <1>5 DEF Next

LEMMA Listeners == Spec => []LInv
<1>1. Init => TInv /\ LInv
  BY InitTInv, InitLInv
<1>2. TInv /\ LInv /\ [Next]_vars => (TInv /\ LInv)'
  BY NextTInv, NextLInv
<1>3. QED BY <1>1, <1>2, PTL DEF Spec

\* However the peers connect while accept walks over the sockets, and whatever
\* else the program does with clients and UDP objects, no server ever listens
\* on two sockets.
THEOREM NeverTwoListeners == Spec => []AtMostOneListener
BY Listeners, PTL DEF LInv

\* A socket that listens always has the entry of Ethernet_server_port that makes
\* accept see it; so no socket is lost to a listener nobody serves.
THEOREM ListenersAreRegistered == Spec => []ListenerRegistered
BY Listeners, PTL DEF LInv

-----------------------------------------------------------------------------
(* Finished connections. *)

\* The inductive strengthening of AcceptReapsOnlyFinished: a status that has once
\* read CLOSE_WAIT can only become CLOSED before accept acts on it, and no byte comes
\* in either state.
RInv ==
  /\ AcceptReapsOnlyFinished
  /\ pc = "accept_rx" => sr[i] \in {"CLOSE_WAIT", "CLOSED"}

\* Steps that end neither before the second look of accept nor before its stop.
LEMMA QuietRInv ==
  ASSUME pc' \notin {"accept_rx", "stop"}
  PROVE  RInv'

BY DEF RInv, AcceptReapsOnlyFinished

LEMMA AcceptRInv == TInv /\ RInv /\ Accept => RInv'
<1> SUFFICES ASSUME TInv, RInv, Accept PROVE RInv'
  OBVIOUS
<1>1. CASE AcceptReadCloseWait
  BY <1>1, QuietRInv DEF AcceptReadCloseWait, Goto, NextSock, ReadOnly, chipVars, RInv,
     AcceptReapsOnlyFinished
<1>2. CASE AcceptReadRX
  BY <1>2, QuietRInv DEF AcceptReadRX, Goto, NextSock, ReadOnly, chipVars, RInv,
     AcceptReapsOnlyFinished
<1>3. CASE pc' \notin {"accept_rx", "stop"}
  BY <1>3, QuietRInv
<1>4. QED
  BY <1>1, <1>2, <1>3 DEF Accept, AcceptListening, AcceptOther, AcceptNotListening,
     AcceptEnds, LoopEnds, NextSock, Goto, StartLoop, TInv, TypeOK, ControlOK, AcceptLabels

LEMMA ThreadRInv == TInv /\ RInv /\ Thread => RInv'
<1> SUFFICES ASSUME TInv, RInv, Thread PROVE RInv'
  OBVIOUS
<1>1. CASE Accept BY <1>1, AcceptRInv
<1>2. CASE Begin
  BY <1>2, QuietRInv DEF Begin, BeginBusy, BeginListen, BeginRegister, BeginNoSocket,
     BeginReturns, Return, StartLoop, NextSock, Goto, TInv, TypeOK
<1>3. CASE Available
  BY <1>3, QuietRInv DEF Available, AvailableReadEstablished, AvailableReadCloseWait,
     AvailableFound, AvailableNoData, AvailableNone, Return, NextSock, Goto
<1>4. CASE Write
  BY <1>4, QuietRInv DEF Write, WriteSkip, WriteTo, WriteEnds, Return, NextSock, Goto
<1>5. CASE Send
  BY <1>5, QuietRInv DEF Send, SendGone, SendCommand, SendAcknowledged, SendClosed,
     SendReturns, Return, NextSock, Goto
<1>6. CASE Stop
  BY <1>6, QuietRInv DEF Stop, StopDisconnect, StopCheck, StopClose, StopClear, Return,
     NextSock, Goto
<1>7. CASE Connect
  BY <1>7, QuietRInv DEF Connect, ConnectBusy, ConnectNoSocket, ConnectOpen, ConnectCommand,
     ConnectRefused, ConnectEstablished, ConnectClosed, Return, NextSock, Goto
<1>8. CASE Udp
  BY <1>8, QuietRInv DEF Udp, UdpBusy, UdpOpen, UdpNoSocket, UdpReopen, Return, NextSock
<1>9. QED BY <1>1, <1>2, <1>3, <1>4, <1>5, <1>6, <1>7, <1>8 DEF Thread

LEMMA ProgramRInv == TInv /\ RInv /\ Program => RInv'
<1> SUFFICES ASSUME TInv, RInv, Program PROVE RInv'
  OBVIOUS
<1>1. ASSUME NEW c \in Clients, EthernetClient_stop(c) PROVE RInv'
  BY <1>1, ObjectAssumption DEF EthernetClient_stop, Call, RInv, AcceptReapsOnlyFinished
<1>2. CASE pc' \notin {"accept_rx", "stop"}
  BY <1>2, QuietRInv
<1>3. QED
  BY <1>1, <1>2 DEF Program, Call, EthernetServer_begin, EthernetServer_available,
     EthernetServer_write, EthernetClient_connect_ip, EthernetClient_write,
     EthernetClient_read, EthernetUDP_begin, EthernetUDP_beginMulticast, EthernetUDP_stop,
     threadVars

\* A socket in one of the two states gets no bytes and leaves them to neither side.
LEMMA FinishedStays ==
  ASSUME ChipTypeOK, NEW s \in SOCKETS, ChipStep(s), NEW t \in SOCKETS,
         sr[t] \in {"CLOSE_WAIT", "CLOSED"}
  PROVE  sr'[t] \in {"CLOSE_WAIT", "CLOSED"} /\ rx'[t] = rx[t]
BY DEF ChipTypeOK, ChipStep, Move, PeerSyn, HandshakeDone, HandshakeFail, PeerFin,
   PeerFinLate, PeerReset, ShutdownDone, PeerData, SendOk

LEMMA NextRInv == TInv /\ RInv /\ [Next]_vars => RInv'
<1> SUFFICES ASSUME TInv, RInv, [Next]_vars PROVE RInv'
  OBVIOUS
<1>1. CASE Environment
  <2>1. PICK s \in SOCKETS : ChipStep(s)
    BY <1>1 DEF Environment
  <2>2. UNCHANGED <<pc, i, self>>
    BY <1>1 DEF Environment, threadVars
  <2>3. pc \in {"accept_rx", "stop"} /\ self = None => i \in SOCKETS
    BY DEF TInv, ControlOK, StopLabels, Target
  <2>4. QED
    BY <2>1, <2>2, <2>3, FinishedStays DEF RInv, AcceptReapsOnlyFinished, TInv, TypeOK, ControlOK, AcceptLabels
<1>2. CASE WaitForRoom
  BY <1>2, QuietRInv DEF WaitForRoom, SendRoom, Goto
<1>3. CASE UNCHANGED vars
  BY <1>3 DEF vars, chipVars, threadVars, RInv, AcceptReapsOnlyFinished
<1>4. QED BY <1>1, <1>2, <1>3, ThreadRInv, ProgramRInv DEF Next

\* accept ends only connections that the peer has finished and whose bytes have all
\* been read, although it reads status, size and status again one after the other.
THEOREM OnlyFinishedReaped == Spec => []AcceptReapsOnlyFinished
<1>1. Init => TInv /\ RInv
  BY InitTInv DEF Init, RInv, AcceptReapsOnlyFinished
<1>2. TInv /\ RInv /\ [Next]_vars => (TInv /\ RInv)'
  BY NextTInv, NextRInv
<1>3. QED BY <1>1, <1>2, PTL DEF Spec, RInv

-----------------------------------------------------------------------------
(* Connections of a server. *)

\* The inductive strengthening of OwnConnectionsServed. A socket with a connection, or
\* that waits for one, was opened for a server and has the server's entry in
\* Ethernet_server_port; available and write act on it only after they have seen that
\* entry, and nobody else changes it before they do.
Serving(s) == sr[s] \notin {"CLOSED", "UDP"}
Registering(s) == pc = "begin_register" /\ s = i

CInv ==
  /\ \A s \in SOCKETS : Serving(s) => server_port[s] = lport[s] \/ Registering(s)
  /\ pc \in {"available_cw", "available_rx"} => server_port[i] = port
  /\ pc \in SendLabels /\ self = None => server_port[i] = port

\* Nothing new is served, and what is keeps its port and its entry.
NoNewServing ==
  \A s \in SOCKETS : sr'[s] \notin {"CLOSED", "UDP"} =>
    Serving(s) /\ lport'[s] = lport[s] /\ server_port'[s] = server_port[s]

\* Steps that open no listener and reach no statement that relies on an entry.
LEMMA QuietCInv ==
  ASSUME CInv, NoNewServing, pc # "begin_register",
         pc' \in {"available_cw", "available_rx"} => server_port'[i'] = port',
         pc' \in SendLabels /\ self' = None => server_port'[i'] = port'
  PROVE  CInv'
BY DEF CInv, NoNewServing, Serving, Registering

LEMMA UnchangedServing == ASSUME UNCHANGED <<chipVars, server_port>> PROVE NoNewServing
BY DEF chipVars, NoNewServing, Serving

LEMMA ClosedServing ==
  ASSUME ChipTypeOK, NEW s \in SOCKETS, close(s),
         \A t \in SOCKETS : t # s => server_port'[t] = server_port[t]
  PROVE  NoNewServing
BY DEF ChipTypeOK, close, NoNewServing, Serving

LEMMA OpenedServing ==
  ASSUME ChipTypeOK, NEW s \in SOCKETS, NEW p, socket(s, "UDP", p), UNCHANGED server_port
  PROVE  NoNewServing
BY DEF ChipTypeOK, socket, NoNewServing, Serving

LEMMA AcceptCInv == TInv /\ CInv /\ Accept => CInv'
<1> SUFFICES ASSUME TInv, CInv, Accept PROVE CInv'
  OBVIOUS
<1>1. UNCHANGED <<chipVars, server_port>> /\ pc # "begin_register"
      /\ pc' \in {"accept", "accept_cw", "accept_rx", "stop", "begin", "available", "write"}
  BY DEF Accept, AcceptListening, AcceptOther, AcceptNotListening, AcceptReadCloseWait,
     AcceptReadRX, AcceptEnds, InLoop, LoopEnds, ReadOnly, NextSock, Goto, StartLoop, TInv,
     TypeOK, ControlOK, AcceptLabels
<1>2. QED BY <1>1, UnchangedServing, QuietCInv DEF SendLabels

LEMMA BeginCInv == TInv /\ LInv /\ CInv /\ Begin => CInv'
<1> SUFFICES ASSUME TInv, LInv, CInv, Begin PROVE CInv'
  OBVIOUS
<1> USE DEF SendLabels
<1>1. CASE BeginBusy
  BY <1>1, UnchangedServing, QuietCInv DEF BeginBusy, InLoop, NextSock, ReadOnly
<1>2. CASE BeginListen
  <2>1. i \in SOCKETS /\ pc = "begin" /\ pc' = "begin_register" /\ UNCHANGED <<server_port, i>>
    BY <1>2, ChipAssumption DEF BeginListen, InLoop, SOCKETS, Goto, TInv, TypeOK
  <2>2. \A s \in SOCKETS : s # i => sr'[s] = sr[s] /\ lport'[s] = lport[s]
    BY <1>2, <2>1 DEF BeginListen, socketListen, socket, TInv, TypeOK, ChipTypeOK
  <2>3. QED
    BY <2>1, <2>2 DEF CInv, Serving, Registering
<1>3. CASE BeginRegister
  <2>1. UNCHANGED <<sr, lport>> /\ i \in SOCKETS /\ pc = "begin_register"
        /\ server_port' = [server_port EXCEPT ![i] = port]
        /\ pc' \in {"idle", "available", "write"}
    BY <1>3 DEF BeginRegister, BeginReturns, Return, StartLoop, chipVars, TInv, TypeOK, ControlOK
  <2>2. lport[i] = port
    BY <2>1 DEF LInv
  <2>3. QED
    BY <2>1, <2>2 DEF CInv, Serving, Registering, TInv, TypeOK
<1>4. CASE BeginNoSocket
  <2>1. pc' \in {"idle", "available", "write"} /\ pc = "begin"
        /\ UNCHANGED <<chipVars, server_port>>
    BY <1>4 DEF BeginNoSocket, LoopEnds, BeginReturns, Return, StartLoop, ReadOnly, TInv, TypeOK
  <2>2. QED BY <2>1, UnchangedServing, QuietCInv
<1>5. QED BY <1>1, <1>2, <1>3, <1>4 DEF Begin

LEMMA AvailableCInv == TInv /\ CInv /\ Available => CInv'
<1> SUFFICES ASSUME TInv, CInv, Available PROVE CInv'
  OBVIOUS
<1>1. UNCHANGED <<sr, lport, server_port>> /\ pc # "begin_register"
  BY DEF Available, AvailableReadEstablished, AvailableReadCloseWait, AvailableFound,
     AvailableNoData, AvailableNone, InLoop, LoopEnds, ReadOnly, chipVars
<1>2. pc' \notin SendLabels
      /\ (pc' \in {"available_cw", "available_rx"} => server_port[i'] = port')
  BY DEF Available, AvailableReadEstablished, AvailableReadCloseWait, AvailableFound,
     AvailableNoData, AvailableNone, InLoop, NextSock, Goto, Return, CInv, SendLabels
<1>3. QED BY <1>1, <1>2, QuietCInv DEF NoNewServing, Serving

LEMMA WriteCInv == TInv /\ CInv /\ Write => CInv'
<1> SUFFICES ASSUME TInv, CInv, Write PROVE CInv'
  OBVIOUS
<1>1. UNCHANGED <<sr, lport, server_port>> /\ pc # "begin_register"
  BY DEF Write, WriteSkip, WriteTo, WriteEnds, InLoop, LoopEnds, ReadOnly, chipVars
<1>2. pc' \notin {"available_cw", "available_rx"}
      /\ (pc' \in SendLabels => server_port[i'] = port')
  BY DEF Write, WriteSkip, WriteTo, WriteEnds, InLoop, NextSock, Goto, Return, SendLabels
<1>3. QED BY <1>1, <1>2, QuietCInv DEF NoNewServing, Serving

LEMMA SendCInv == TInv /\ CInv /\ (Send \/ SendRoom) => CInv'
<1> SUFFICES ASSUME TInv, CInv, Send \/ SendRoom PROVE CInv'
  OBVIOUS
<1>1. NoNewServing
  <2>1. CASE SendClosed
    <3>1. Target \in SOCKETS /\ close(Target) /\ ChipTypeOK /\ UNCHANGED server_port
      BY <2>1 DEF SendClosed, TInv, TypeOK, ControlOK, SendLabels
    <3>2. QED BY <3>1, ClosedServing
  <2>2. QED
    BY <2>1 DEF Send, SendGone, SendRoom, SendCommand, execSEND, SendAcknowledged,
       clearSENDOK, ReadOnly, chipVars, NoNewServing, Serving
<1>2. pc \in SendLabels /\ UNCHANGED server_port
  BY DEF Send, SendGone, SendRoom, SendCommand, SendAcknowledged, SendClosed, ReadOnly,
     SendLabels
<1>3. pc' \in SendLabels \cup {"write", "idle"}
      /\ (pc' \in SendLabels => UNCHANGED <<i, port, self>>)
  BY DEF Send, SendGone, SendRoom, SendCommand, SendAcknowledged, SendClosed, SendReturns,
     NextSock, Goto, Return, SendLabels
<1>4. QED BY <1>1, <1>2, <1>3, QuietCInv DEF CInv, SendLabels

LEMMA StopCInv == TInv /\ LInv /\ CInv /\ Stop => CInv'
<1> SUFFICES ASSUME TInv, LInv, CInv, Stop PROVE CInv'
  OBVIOUS
<1>1. Target \in SOCKETS /\ ChipTypeOK /\ pc \in StopLabels
  BY DEF Stop, StopDisconnect, StopCheck, StopClose, StopClear, TInv, TypeOK, ControlOK,
     StopLabels
<1>2. pc' \in {"stop_wait", "stop_close", "stop_clear", "accept", "idle"}
  BY DEF Stop, StopDisconnect, StopCheck, StopClose, StopClear, NextSock, Goto, Return
<1>3. NoNewServing
  <2>1. CASE StopDisconnect
    BY <1>1, <2>1 DEF StopDisconnect, disconnect, NoNewServing, Serving, ChipTypeOK
  <2>2. CASE StopCheck
    BY <2>2 DEF StopCheck, ReadOnly, NoNewServing, Serving, chipVars
  <2>3. CASE StopClose
    <3>1. Target \in SOCKETS /\ close(Target) /\ ChipTypeOK /\ UNCHANGED server_port
      BY <1>1, <2>3 DEF StopClose
    <3>2. QED BY <3>1, ClosedServing
  <2>4. CASE StopClear
    BY <1>1, <2>4 DEF StopClear, NoNewServing, Serving, chipVars, LInv, TInv, TypeOK
  <2>5. QED BY <2>1, <2>2, <2>3, <2>4 DEF Stop
<1>4. QED BY <1>1, <1>2, <1>3, QuietCInv DEF SendLabels, StopLabels

LEMMA UdpCInv == TInv /\ CInv /\ Udp => CInv'
<1> SUFFICES ASSUME TInv, CInv, Udp PROVE CInv'
  OBVIOUS
<1>1. pc = "udp" /\ pc' \in {"udp", "idle"}
  BY DEF Udp, UdpBusy, UdpOpen, UdpNoSocket, UdpReopen, InLoop, LoopEnds, NextSock, Return
<1>2. NoNewServing
  <2>1. CASE UdpOpen
    <3>1. i \in SOCKETS /\ ChipTypeOK /\ socket(i, "UDP", UdpPort) /\ UNCHANGED server_port
      BY <2>1, ChipAssumption DEF UdpOpen, InLoop, SOCKETS, TInv, TypeOK
    <3>2. QED BY <3>1, OpenedServing
  <2>2. CASE UdpReopen
    <3>1. _sock[self] \in SOCKETS /\ ChipTypeOK /\ socket(_sock[self], "UDP", UdpPort)
          /\ UNCHANGED server_port
      BY <2>2, ChipAssumption
         DEF UdpReopen, LoopEnds, SOCKETS, Handles, TInv, TypeOK, ControlOK
    <3>2. QED BY <3>1, OpenedServing
  <2>3. QED
    BY <2>1, <2>2, UnchangedServing DEF Udp, UdpBusy, UdpNoSocket, ReadOnly
<1>3. QED BY <1>1, <1>2, QuietCInv DEF SendLabels

\* The program makes no outgoing connections: connect is never called.
NotConnecting == pc # "connect" /\ pc \notin PollLabels

LEMMA ProgramCInv == Outgoing = {} /\ TInv /\ CInv /\ Program => CInv' /\ NotConnecting'
<1> SUFFICES ASSUME Outgoing = {}, TInv, CInv, Program PROVE CInv' /\ NotConnecting'
  OBVIOUS
<1> USE DEF SendLabels, PollLabels, NotConnecting
<1>1. pc = "idle"
  BY DEF Program, Call, EthernetServer_begin, EthernetServer_available,
     EthernetServer_write, EthernetClient_stop, EthernetClient_write,
     EthernetClient_read, EthernetUDP_begin, EthernetUDP_beginMulticast, EthernetUDP_stop
<1>2. ASSUME NEW label \in {"accept", "begin", "stop", "send_room", "udp"}, NEW object,
             NEW p, NEW who, Call(label, object, p, who), label # "send_room" \/ object # None
      PROVE  CInv' /\ NotConnecting'
  BY <1>2, UnchangedServing, QuietCInv DEF Call
<1>3. ASSUME NEW c \in Clients, EthernetClient_read(c) PROVE CInv' /\ NotConnecting'
  BY <1>1, <1>3, QuietCInv DEF EthernetClient_read, recv, threadVars, NoNewServing, Serving
<1>4. ASSUME NEW u \in Udps, EthernetUDP_stop(u) PROVE CInv' /\ NotConnecting'
  <2>1. _sock[u] \in SOCKETS /\ ChipTypeOK /\ pc' = "idle"
    BY <1>4, ChipAssumption DEF EthernetUDP_stop, threadVars, TInv, TypeOK, Handles, SOCKETS
  <2>2. NoNewServing
    BY <1>4, <2>1, ClosedServing DEF EthernetUDP_stop, TInv, TypeOK
  <2>3. QED BY <1>1, <2>1, <2>2, QuietCInv
<1>5. QED
  BY <1>2, <1>3, <1>4, ObjectAssumption
     DEF Program, EthernetServer_begin, EthernetServer_available, EthernetServer_write,
         EthernetClient_stop, EthernetClient_write, EthernetUDP_begin,
         EthernetUDP_beginMulticast

\* The chip and the peers open nothing and close what they like.
LEMMA ChipServes ==
  ASSUME ChipTypeOK, NEW s \in SOCKETS, ChipStep(s), NEW t \in SOCKETS,
         sr'[t] \notin {"CLOSED", "UDP"}
  PROVE  Serving(t)
BY DEF ChipTypeOK, ChipStep, Move, PeerSyn, HandshakeDone, HandshakeFail, PeerFin,
   PeerFinLate, PeerReset, ShutdownDone, PeerData, SendOk, Serving

LEMMA EnvironmentCInv == TInv /\ CInv /\ Environment => CInv'
<1> SUFFICES ASSUME TInv, CInv, Environment PROVE CInv'
  OBVIOUS
<1>1. \A t \in SOCKETS : sr'[t] \notin {"CLOSED", "UDP"} => Serving(t)
  BY ChipServes DEF Environment, TInv, TypeOK
<1>2. UNCHANGED <<lport, server_port, pc, i, self, port>>
  BY ChipStepType DEF Environment, TInv, TypeOK, threadVars
<1>3. QED BY <1>1, <1>2 DEF CInv, Serving, Registering

LEMMA ThreadConnectsNot == TInv /\ NotConnecting /\ Thread => NotConnecting'
BY DEF NotConnecting, PollLabels, Thread, TInv, TypeOK, Goto, NextSock, Return, StartLoop,
   Accept, AcceptListening, AcceptOther, AcceptNotListening, AcceptReadCloseWait,
   AcceptReadRX, AcceptEnds, Begin, BeginBusy, BeginListen, BeginRegister, BeginNoSocket,
   BeginReturns, Available, AvailableReadEstablished, AvailableReadCloseWait, AvailableFound,
   AvailableNoData, AvailableNone, Write, WriteSkip, WriteTo, WriteEnds, Send, SendGone,
   SendCommand, SendAcknowledged, SendClosed, SendReturns, Stop, StopDisconnect, StopCheck,
   StopClose, StopClear, Udp, UdpBusy, UdpOpen, UdpNoSocket, UdpReopen, Connect, ConnectBusy, ConnectNoSocket,
   ConnectOpen, ConnectCommand, ConnectRefused, ConnectEstablished, ConnectClosed, InLoop,
   LoopEnds

SInv == TInv /\ LInv /\ CInv /\ NotConnecting

LEMMA InitSInv == Init => SInv
BY InitTInv, InitLInv DEF Init, ChipInit, SInv, CInv, Serving, NotConnecting, PollLabels,
   SendLabels

LEMMA NextSInv == Outgoing = {} /\ SInv /\ [Next]_vars => SInv'
<1> SUFFICES ASSUME Outgoing = {}, SInv, [Next]_vars PROVE CInv' /\ NotConnecting'
  BY NextTInv, NextLInv DEF SInv
<1> USE DEF SInv
<1>1. CASE Program BY <1>1, ProgramCInv
<1>2. CASE Thread
  <2>1. CASE Connect
    BY <2>1 DEF Connect, ConnectBusy, ConnectNoSocket, ConnectOpen, ConnectCommand,
       ConnectRefused, ConnectEstablished, ConnectClosed, InLoop, LoopEnds, NotConnecting,
       PollLabels
  <2>2. CInv'
    BY <1>2, <2>1, AcceptCInv, BeginCInv, AvailableCInv, WriteCInv, SendCInv, StopCInv, UdpCInv
       DEF Thread
  <2>3. QED BY <1>2, <2>2, ThreadConnectsNot
<1>3. CASE WaitForRoom
  BY <1>3, SendCInv DEF WaitForRoom, SendRoom, Goto, NotConnecting, PollLabels
<1>4. CASE Environment
  BY <1>4, EnvironmentCInv DEF Environment, threadVars, NotConnecting
<1>5. CASE UNCHANGED vars
  BY <1>5 DEF vars, chipVars, threadVars, CInv, Serving, Registering, NotConnecting
<1>6. QED BY <1>1, <1>2, <1>3, <1>4, <1>5 DEF Next

\* In a program that makes no outgoing connections, the connections that available
\* hands out and that write sends to were accepted on the server's own port, however
\* old the entry in Ethernet_server_port is by which they are found.
THEOREM OnlyOwnConnections ==
  ASSUME Outgoing = {} PROVE Spec => []OwnConnectionsServed
<1>1. SInv /\ [Next]_vars => SInv'
  BY NextSInv
<1>2. SInv => OwnConnectionsServed
  <2> SUFFICES ASSUME SInv, pc = "available_rx" \/ (pc = "send_cmd" /\ self = None),
                      sr[i] \in Connected
               PROVE  lport[i] = port
    BY DEF OwnConnectionsServed
  <2>1. i \in SOCKETS /\ server_port[i] = port
    BY DEF SInv, CInv, SendLabels, TInv, ControlOK, Target
  <2>2. Serving(i) /\ ~ Registering(i)
    BY DEF Serving, Registering, Connected
  <2>3. QED BY <2>1, <2>2 DEF SInv, CInv
<1>3. QED BY <1>1, <1>2, InitSInv, PTL DEF Spec

-----------------------------------------------------------------------------
(* The loop is one of the programs of EthernetSockets. *)

LEMMA LoopStep == [LoopNext]_loopVars => [Next]_vars
<1> SUFFICES ASSUME LoopNext PROVE Next \/ UNCHANGED vars
  BY DEF loopVars
<1>1. localServer \in ServerPorts /\ connectedClient \in Clients
  BY LoopAssumption
<1>2. CASE InitTests BY <1>1, <1>2 DEF InitTests, Next, Program
<1>3. CASE LoopTests
  BY <1>1, <1>3 DEF LoopTests, LoopAvailable, LoopCheck, LoopConnected, LoopConnectedRX,
     LoopNoData, LoopRead, LoopReply, LoopReplied, LoopStop, Branch, Next, Program
<1>4. QED BY <1>2, <1>3 DEF LoopNext, mainThread, Outside, Next

\* Seen without its own variables, the test program is a program that makes calls of
\* the server and the client objects one at a time and only when they are allowed.
THEOREM LoopIsAProgram == LoopSpec => Spec
BY LoopStep, PTL DEF LoopSpec, LoopInit, Spec

\* So it never sends or hands out a connection that is not the server's.
THEOREM LoopServesOwnConnections == LoopSpec => []OwnConnectionsServed
<1>1. Outgoing = {} BY LoopAssumption
<1>2. Spec => []OwnConnectionsServed BY <1>1, OnlyOwnConnections
<1>3. QED BY <1>2, LoopIsAProgram, PTL

-----------------------------------------------------------------------------
(* The control of the loop. *)

LEMMA NextLoopType == LoopTypeOK /\ [LoopNext]_loopVars => LoopTypeOK'
<1> SUFFICES ASSUME LoopTypeOK, [LoopNext]_loopVars PROVE LoopTypeOK'
  OBVIOUS
<1> USE LoopAssumption DEF LoopTypeOK
<1>1. CASE LoopReply
  BY <1>1 DEF LoopReply
<1>2. CASE LoopRead
  BY <1>2 DEF LoopRead
<1>3. QED
  BY <1>1, <1>2 DEF LoopNext, mainThread, Outside, InitTests, LoopTests, LoopAvailable,
     LoopCheck, LoopConnected, LoopConnectedRX, LoopNoData, LoopReplied, LoopStop, Then,
     Branch, loopVars

\* The statement of LoopTests and the writes left of a reply keep their types: a reply
\* never has more writes than were set out for it.
THEOREM LoopTypeCorrect == LoopSpec => []LoopTypeOK
<1>1. LoopInit => LoopTypeOK
  BY LoopAssumption DEF LoopInit, LoopTypeOK
<1>2. QED BY <1>1, NextLoopType, PTL DEF LoopSpec

-----------------------------------------------------------------------------
(* The handle of the connection. *)

\* Where the thread may be: LoopTests begins the server and calls available, write of
\* the client and stop of the client, nothing else.
ServerLabels == AcceptLabels \cup AvailableLabels \cup {"begin", "begin_register"}
InServer == pc \in ServerLabels \/ (pc \in StopLabels /\ self = None)
LoopLabels == ServerLabels \cup SendLabels \cup StopLabels \cup {"idle"}

\* States of a socket that has, or had, a connection and has not been opened since.
Taken == SnSR \ {"INIT", "LISTEN", "SYNRECV", "UDP"}

HInv ==
  /\ loop = "init" => pc = "idle" /\ sock = MAX_SOCK_NUM
  /\ pc \in LoopLabels /\ caller # "write"
  /\ pc \in SendLabels => self # None
  /\ InServer => sock = MAX_SOCK_NUM
  /\ \A s \in SOCKETS : server_port[s] # None => lport[s] = localServer
  /\ pc \in {"available_cw", "available_rx"} => server_port[i] = localServer
  /\ pc = "available_rx" => sr[i] \in Taken
  /\ sock # MAX_SOCK_NUM => server_port[sock] = localServer /\ sr[sock] \in Taken

\* What every call sees of the constants and of TInv.
LEMMA LoopFacts ==
  ASSUME TInv
  PROVE  /\ Clients = {connectedClient} /\ ServerPorts = {localServer}
         /\ Handles = {connectedClient} /\ Outgoing = {} /\ Udps = {}
         /\ connectedClient # None /\ localServer # None
         /\ self \in {connectedClient, None} /\ port \in {localServer, None}
         /\ sock \in SOCKETS \cup {MAX_SOCK_NUM} /\ MAX_SOCK_NUM \notin SOCKETS
BY LoopAssumption, ObjectAssumption, ChipAssumption DEF TInv, TypeOK, Handles, sock, SOCKETS

LEMMA HandleOwned == TInv /\ HInv => HandleStaysOwn
BY LoopFacts DEF HInv, HandleStaysOwn, Taken

LEMMA InitHInv == LoopInit => HInv
BY LoopAssumption, ObjectAssumption
   DEF LoopInit, Init, ChipInit, HInv, LoopLabels, ServerLabels, InServer, AcceptLabels,
       AvailableLabels, StopLabels, SendLabels, sock, Handles

\* A step of a server call that changes neither the chip nor the handle.
LEMMA ServerReads ==
  ASSUME TInv, HInv, ReadOnly, InServer, caller' # "write", loop' # "init",
         pc' \in ServerLabels \cup StopLabels \cup {"idle"},
         pc' \in {"available_cw", "available_rx"} => server_port[i'] = localServer,
         pc' = "available_rx" => sr[i'] \in Taken
  PROVE  HInv'
BY DEF HInv, InServer, LoopLabels, ServerLabels, AcceptLabels, AvailableLabels, StopLabels,
       SendLabels, ReadOnly, chipVars, sock

LEMMA AcceptHInv == TInv /\ HInv /\ Accept /\ UNCHANGED loop => HInv'
<1> SUFFICES ASSUME TInv, HInv, Accept, UNCHANGED loop PROVE HInv'
  OBVIOUS
<1>1. pc \in AcceptLabels /\ ReadOnly
  BY DEF Accept, AcceptListening, AcceptOther, AcceptNotListening, AcceptReadCloseWait,
     AcceptReadRX, AcceptEnds, InLoop, LoopEnds, AcceptLabels
<1>2. caller = "available"
  BY <1>1 DEF HInv, TInv, TypeOK, ControlOK
<1>3. UNCHANGED caller /\ pc' \in AcceptLabels \cup {"available", "begin", "stop"}
  BY <1>2 DEF Accept, AcceptListening, AcceptOther, AcceptNotListening, AcceptReadCloseWait,
     AcceptReadRX, AcceptEnds, NextSock, Goto, StartLoop, AcceptLabels
<1>4. loop' # "init"
  BY <1>1 DEF HInv, AcceptLabels
<1>5. QED
  BY <1>1, <1>2, <1>3, <1>4, ServerReads DEF InServer, ServerLabels, AcceptLabels,
     AvailableLabels, StopLabels

LEMMA BeginHInv == TInv /\ LInv /\ HInv /\ Begin /\ UNCHANGED loop => HInv'
<1> SUFFICES ASSUME TInv, LInv, HInv, Begin, UNCHANGED loop PROVE HInv'
  OBVIOUS
<1>1. pc \in {"begin", "begin_register"} /\ port = localServer
  BY LoopFacts DEF Begin, BeginBusy, BeginListen, BeginRegister, BeginNoSocket, InLoop,
     LoopEnds, TInv, TypeOK, ControlOK
<1>2. InServer /\ loop' # "init" /\ sock = MAX_SOCK_NUM
  BY <1>1 DEF HInv, InServer, ServerLabels
<1>3. pc' \in {"begin", "begin_register", "idle", "available"} /\ caller' # "write"
  BY DEF Begin, BeginBusy, BeginListen, BeginRegister, BeginNoSocket, BeginReturns, Return,
     StartLoop, NextSock, Goto, HInv, TInv, TypeOK
<1>4. CASE ReadOnly
  BY <1>2, <1>3, <1>4, ServerReads DEF ServerLabels, AvailableLabels
<1>5. CASE BeginListen
  <2>1. i \in SOCKETS /\ UNCHANGED <<server_port, sock>>
    BY <1>5, ChipAssumption DEF BeginListen, InLoop, SOCKETS, TInv, TypeOK, sock
  <2>2. \A s \in SOCKETS : lport'[s] = (IF s = i THEN localServer ELSE lport[s])
    BY <1>1, <1>5, <2>1 DEF BeginListen, socketListen, socket, TInv, TypeOK, ChipTypeOK
  <2>3. pc' = "begin_register"
    BY <1>5 DEF BeginListen, Goto
  <2>4. QED
    BY <1>2, <1>3, <2>1, <2>2, <2>3 DEF HInv, LoopLabels, ServerLabels, AcceptLabels,
       AvailableLabels, SendLabels
<1>6. CASE BeginRegister
  <2>1. i \in SOCKETS /\ lport[i] = localServer /\ UNCHANGED <<sr, lport, sock>>
    BY <1>1, <1>6 DEF BeginRegister, LInv, TInv, TypeOK, ControlOK, chipVars, sock
  <2>2. \A s \in SOCKETS : server_port'[s] = (IF s = i THEN localServer ELSE server_port[s])
    BY <1>1, <1>6, <2>1 DEF BeginRegister, TInv, TypeOK
  <2>3. pc' \in {"idle", "available"}
    BY <1>6 DEF BeginRegister, BeginReturns, Return, StartLoop, HInv, TInv, TypeOK
  <2>4. QED
    BY <1>2, <1>3, <2>1, <2>2, <2>3 DEF HInv, LoopLabels, ServerLabels, AcceptLabels,
       AvailableLabels, SendLabels
<1>7. QED
  BY <1>4, <1>5, <1>6 DEF Begin, BeginBusy, BeginNoSocket

LEMMA AvailableHInv == TInv /\ HInv /\ Available /\ UNCHANGED loop => HInv'
<1> SUFFICES ASSUME TInv, HInv, Available, UNCHANGED loop PROVE HInv'
  OBVIOUS
<1>1. pc \in AvailableLabels /\ port = localServer
  BY LoopFacts DEF Available, AvailableReadEstablished, AvailableReadCloseWait,
     AvailableFound, AvailableNoData, AvailableNone, InLoop, LoopEnds, TInv, ControlOK,
     AvailableLabels
<1>2. InServer /\ loop' # "init" /\ sock = MAX_SOCK_NUM
  BY <1>1 DEF HInv, InServer, ServerLabels, AvailableLabels
<1>3. CASE AvailableReadEstablished
  BY <1>1, <1>2, <1>3, ServerReads DEF AvailableReadEstablished, NextSock, Goto, Taken, SnSR,
     ServerLabels, AvailableLabels, HInv
<1>4. CASE AvailableReadCloseWait
  BY <1>1, <1>2, <1>4, ServerReads DEF AvailableReadCloseWait, NextSock, Goto, Taken, SnSR,
     ServerLabels, AvailableLabels, HInv
<1>5. CASE AvailableNoData
  BY <1>2, <1>5, ServerReads DEF AvailableNoData, NextSock, ServerLabels, AvailableLabels, HInv
<1>6. CASE AvailableNone
  BY <1>2, <1>6, ServerReads DEF AvailableNone, Return
<1>7. ASSUME NEW c \in Clients, AvailableFound(c) PROVE HInv'
  <2>1. _sock' = [_sock EXCEPT ![connectedClient] = i] /\ connectedClient \in Handles
    BY <1>7, LoopFacts DEF AvailableFound
  <2>2. sock' = i
    BY <2>1 DEF sock, TInv, TypeOK
  <2>3. server_port[i] = localServer /\ sr[i] \in Taken /\ UNCHANGED <<sr, lport, server_port>>
    BY <1>7 DEF AvailableFound, HInv, chipVars
  <2>4. pc' = "idle" /\ caller' = "none"
    BY <1>7 DEF AvailableFound, Return
  <2>5. QED
    BY <1>2, <2>2, <2>3, <2>4 DEF HInv, InServer, LoopLabels, ServerLabels, AcceptLabels,
       AvailableLabels, StopLabels, SendLabels
<1>8. QED BY <1>3, <1>4, <1>5, <1>6, <1>7 DEF Available
\* A step of a call on the handle, or one that ends it: nothing is opened.
LEMMA HandleUsed ==
  ASSUME TInv, HInv, UNCHANGED lport, loop' # "init", caller' # "write",
         pc' \in SendLabels \cup StopLabels \cup {"idle"},
         pc' \in SendLabels \cup StopLabels => self' # None,
         \A s \in SOCKETS : server_port'[s] \in {server_port[s], None},
         sock' # MAX_SOCK_NUM =>
           sock \in SOCKETS /\ sock' = sock /\ sr'[sock] \in Taken
           /\ server_port'[sock] = server_port[sock]
  PROVE  HInv'
BY DEF HInv, InServer, LoopLabels, ServerLabels, AcceptLabels, AvailableLabels, StopLabels,
       SendLabels

LEMMA SendHInv == TInv /\ HInv /\ (Send \/ SendRoom) /\ UNCHANGED loop => HInv'
<1> SUFFICES ASSUME TInv, HInv, Send \/ SendRoom, UNCHANGED loop PROVE HInv'
  OBVIOUS
<1>1. pc \in SendLabels /\ UNCHANGED <<server_port, _sock>>
  BY DEF Send, SendRoom, SendGone, SendCommand, SendAcknowledged, SendClosed, ReadOnly,
     SendLabels
<1>2. self = connectedClient /\ self # None /\ Target = sock /\ sock \in SOCKETS
      /\ loop' # "init"
  BY <1>1, LoopFacts DEF HInv, Target, sock, TInv, ControlOK, SendLabels
<1>3. UNCHANGED lport /\ sr'[sock] \in Taken
  <2>1. CASE SendClosed
    BY <1>1, <1>2, <2>1 DEF SendClosed, close, Taken, SnSR, TInv, TypeOK, ChipTypeOK
  <2>2. QED
    BY <1>2, <2>1, LoopFacts DEF Send, SendRoom, SendGone, SendCommand, execSEND,
       SendAcknowledged, clearSENDOK, ReadOnly, chipVars, HInv
<1>4. pc' \in SendLabels \cup {"idle"} /\ (pc' \in SendLabels => UNCHANGED self)
      /\ caller' # "write"
  BY <1>2 DEF Send, SendRoom, SendGone, SendCommand, SendAcknowledged, SendClosed,
     SendReturns, Goto, Return, SendLabels, HInv
<1>5. QED
  BY <1>1, <1>2, <1>3, <1>4, HandleUsed DEF sock, StopLabels, SendLabels

LEMMA StopHInv == TInv /\ HInv /\ Stop /\ UNCHANGED loop => HInv'
<1> SUFFICES ASSUME TInv, HInv, Stop, UNCHANGED loop PROVE HInv'
  OBVIOUS
<1>1. pc \in StopLabels /\ Target \in SOCKETS /\ loop' # "init"
  BY DEF Stop, StopDisconnect, StopCheck, StopClose, StopClear, TInv, ControlOK, StopLabels,
     HInv
<1>2. UNCHANGED lport
      /\ \A s \in SOCKETS : server_port'[s] = server_port[s] \/ server_port'[s] = None
  BY <1>1 DEF Stop, StopDisconnect, disconnect, StopCheck, ReadOnly, StopClose, close,
     StopClear, chipVars, TInv, TypeOK
<1>3. pc' \in StopLabels \cup {"idle", "accept"} /\ caller' # "write"
      /\ (pc' \in StopLabels => UNCHANGED self)
  BY DEF Stop, StopDisconnect, StopCheck, StopClose, StopClear, Goto, NextSock, Return, HInv,
     StopLabels
<1>4. CASE self = None
  <2>1. sock = MAX_SOCK_NUM /\ sock' = MAX_SOCK_NUM
    BY <1>1, <1>4 DEF HInv, InServer, Stop, StopDisconnect, StopCheck, ReadOnly, StopClose,
       StopClear, sock
  <2>2. pc' # "idle"
    BY <1>4 DEF Stop, StopDisconnect, StopCheck, StopClose, StopClear, Goto, NextSock
  <2>3. QED
    BY <1>1, <1>2, <1>3, <2>1, <2>2 DEF HInv, InServer, LoopLabels, ServerLabels,
       AcceptLabels, AvailableLabels, StopLabels, SendLabels
<1>5. CASE self # None
  <2>1. self = connectedClient /\ Target = sock /\ sock \in SOCKETS /\ pc' # "accept"
    BY <1>1, <1>5, LoopFacts
       DEF Target, sock, Stop, StopDisconnect, StopCheck, StopClose, StopClear, Goto, Return
  <2>2. CASE StopClear
    <3>1. sock' = MAX_SOCK_NUM
      BY <1>5, <2>1, <2>2, LoopFacts DEF StopClear, sock, TInv, TypeOK
    <3>2. QED
      BY <1>1, <1>2, <1>3, <1>5, <2>1, <3>1, HandleUsed DEF StopLabels, SendLabels
  <2>3. CASE ~ StopClear
    <3>1. sock' = sock /\ UNCHANGED server_port
      BY <2>3 DEF Stop, StopDisconnect, StopCheck, ReadOnly, StopClose, sock
    <3>2. sr'[sock] \in Taken
      <4>1. CASE StopDisconnect
        BY <2>1, <4>1, LoopFacts DEF StopDisconnect, disconnect, HInv, Taken, SnSR, TInv,
           TypeOK, ChipTypeOK
      <4>2. CASE StopCheck
        BY <2>1, <4>2, LoopFacts DEF StopCheck, ReadOnly, chipVars, HInv
      <4>3. CASE StopClose
        BY <2>1, <4>3 DEF StopClose, close, Taken, SnSR, TInv, TypeOK, ChipTypeOK
      <4>4. QED BY <2>3, <4>1, <4>2, <4>3 DEF Stop
    <3>3. QED
      BY <1>1, <1>2, <1>3, <1>5, <2>1, <3>1, <3>2, HandleUsed DEF StopLabels, SendLabels
  <2>4. QED BY <2>2, <2>3
<1>6. QED BY <1>4, <1>5

LEMMA ThreadHInv == TInv /\ LInv /\ HInv /\ Thread /\ UNCHANGED loop => HInv'
<1> SUFFICES ASSUME TInv, LInv, HInv, Thread, UNCHANGED loop PROVE HInv'
  OBVIOUS
<1>1. ~ Write /\ ~ Connect /\ ~ Udp
  BY DEF HInv, LoopLabels, ServerLabels, AcceptLabels, AvailableLabels, StopLabels,
     SendLabels, Write, WriteSkip, WriteTo, WriteEnds, Connect, ConnectBusy,
     ConnectNoSocket, ConnectOpen, ConnectCommand, ConnectRefused, ConnectEstablished,
     ConnectClosed, Udp, UdpBusy, UdpOpen, UdpNoSocket, UdpReopen, InLoop, LoopEnds
<1>2. QED
  BY <1>1, AcceptHInv, BeginHInv, AvailableHInv, SendHInv, StopHInv DEF Thread

\* LoopTests looks at the handle before it uses it.
LEMMA CallHInv == TInv /\ HInv /\ (InitTests \/ LoopTests) => HInv'
<1> SUFFICES ASSUME TInv, HInv, InitTests \/ LoopTests PROVE HInv'
  OBVIOUS
<1>1. CASE InitTests \/ LoopAvailable
  <2>1. sock = MAX_SOCK_NUM /\ loop' # "init"
    BY <1>1, LoopFacts DEF InitTests, LoopAvailable, EthernetServer_available, Then, HInv, sock
  <2>2. ReadOnly /\ pc' \in {"begin", "accept"} /\ caller' \in {"none", "available"}
    BY <1>1 DEF InitTests, LoopAvailable, EthernetServer_available, EthernetServer_begin,
       Call, ReadOnly
  <2>3. QED
    BY <2>1, <2>2 DEF HInv, InServer, LoopLabels, ServerLabels, AcceptLabels,
       AvailableLabels, StopLabels, SendLabels, ReadOnly, chipVars, sock
<1>2. CASE LoopReply \/ LoopStop
  <2>1. ReadOnly /\ pc' \in {"send_room", "stop"} /\ caller' = "none"
        /\ self' = connectedClient /\ loop' # "init"
    BY <1>2 DEF LoopReply, LoopStop, EthernetClient_write, EthernetClient_stop, Call,
       ReadOnly, Then
  <2>2. QED
    BY <2>1, LoopFacts, HandleUsed DEF HInv, ReadOnly, chipVars, sock, SendLabels, StopLabels
<1>3. CASE LoopRead
  BY <1>3 DEF LoopRead, EthernetClient_read, recv, threadVars, HInv, InServer, sock
<1>4. CASE UNCHANGED vars /\ loop' # "init"
  BY <1>4 DEF vars, chipVars, threadVars, HInv, InServer, sock
<1>5. QED
  BY <1>1, <1>2, <1>3, <1>4 DEF LoopTests, LoopCheck, LoopConnected, LoopConnectedRX,
     LoopNoData, LoopReplied, Branch

\* The chip and the peers open no socket that has a connection.
LEMMA TakenStays ==
  ASSUME ChipTypeOK, NEW s \in SOCKETS, ChipStep(s), NEW t \in SOCKETS, sr[t] \in Taken
  PROVE  sr'[t] \in Taken
BY DEF ChipTypeOK, ChipStep, Move, PeerSyn, HandshakeDone, HandshakeFail, PeerFin,
   PeerFinLate, PeerReset, ShutdownDone, PeerData, SendOk, Taken, SnSR

LEMMA EnvironmentHInv == TInv /\ HInv /\ Environment /\ UNCHANGED loop => HInv'
<1> SUFFICES ASSUME TInv, HInv, Environment, UNCHANGED loop PROVE HInv'
  OBVIOUS
<1>1. \A t \in SOCKETS : sr[t] \in Taken => sr'[t] \in Taken
  BY TakenStays DEF Environment, TInv, TypeOK
<1>2. UNCHANGED <<lport, server_port, sock, loop, threadVars>>
  BY ChipStepType DEF Environment, TInv, TypeOK, sock
<1>3. pc = "available_rx" => i \in SOCKETS
  BY DEF TInv, ControlOK
<1>4. QED BY <1>1, <1>2, <1>3, LoopFacts DEF HInv, InServer, threadVars

LEMMA NextHInv == TInv /\ LInv /\ HInv /\ [LoopNext]_loopVars => HInv'
<1> SUFFICES ASSUME TInv, LInv, HInv, [LoopNext]_loopVars PROVE HInv'
  OBVIOUS
<1>1. CASE mainThread BY <1>1, CallHInv, ThreadHInv DEF mainThread
<1>2. CASE Outside
  BY <1>2, SendHInv, EnvironmentHInv DEF Outside, WaitForRoom
<1>3. CASE UNCHANGED loopVars
  BY <1>3 DEF loopVars, vars, chipVars, threadVars, HInv, InServer, sock
<1>4. QED BY <1>1, <1>2, <1>3 DEF LoopNext

\* While LoopTests serves a connection its handle names a socket that is still the
\* server's: accept, begin and the peers may do what they like with the others and
\* leave this one alone.
THEOREM HandleIsOwn == LoopSpec => []HandleStaysOwn
<1>1. LoopInit => TInv /\ LInv /\ HInv
  BY InitTInv, InitLInv, InitHInv DEF LoopInit
<1>2. TInv /\ LInv /\ HInv /\ [LoopNext]_loopVars => (TInv /\ LInv /\ HInv)'
  BY LoopStep, NextTInv, NextLInv, NextHInv
<1>3. QED BY <1>1, <1>2, HandleOwned, PTL DEF LoopSpec
=============================================================================
