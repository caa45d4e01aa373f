------------------------------- MODULE W5500 -------------------------------
(***************************************************************************)
(* The socket side of the WIZnet W5500 chip, as w5500.h and socket.c see   *)
(* it: a status register Sn_SR, a local port Sn_PORT, the number of unread *)
(* bytes Sn_RX_RSR and the progress of the last SEND, per socket.          *)
(*                                                                         *)
(* The operators of the first part are the socket.c functions: a command   *)
(* is one step, because W5500_execCmdSn spins until the chip has taken it. *)
(* The actions of the second part are the chip, the network and the peers: *)
(* they are not in the repository and may happen between any two register  *)
(* accesses of the code.                                                   *)
(***************************************************************************)
EXTENDS Naturals

CONSTANTS MAX_SOCK_NUM,  \* number of hardware sockets; also the "no socket" value of a handle
          RxCap,         \* bound: unread bytes of one socket
          Ports,         \* local ports the program listens on or opens for UDP
          Ephemeral      \* stands for the source ports of outgoing connections

ASSUME ChipAssumption ==
  /\ MAX_SOCK_NUM \in Nat \ {0}
  /\ RxCap \in Nat \ {0}
  /\ Ephemeral \notin Ports

VARIABLES sr,      \* Sn_SR, the status of each socket
          lport,   \* Sn_PORT
          rx,      \* Sn_RX_RSR: bytes received and not yet read
          tx       \* the last SEND: "idle", "sending", or "sent" (SnIR_SEND_OK is set)

chipVars == <<sr, lport, rx, tx>>

SOCKETS == 0 .. MAX_SOCK_NUM - 1

SnSR == {"CLOSED", "INIT", "LISTEN", "SYNSENT", "SYNRECV", "ESTABLISHED",
         "FIN_WAIT", "TIME_WAIT", "CLOSE_WAIT", "LAST_ACK", "UDP"}

Connected == {"ESTABLISHED", "CLOSE_WAIT"}
CanSend == Connected \cup {"UDP"}

ChipInit ==
  /\ sr = [s \in SOCKETS |-> "CLOSED"]
  /\ lport = [s \in SOCKETS |-> Ephemeral]
  /\ rx = [s \in SOCKETS |-> 0]
  /\ tx = [s \in SOCKETS |-> "idle"]

ChipTypeOK ==
  /\ sr \in [SOCKETS -> SnSR]
  /\ lport \in [SOCKETS -> Ports \cup {Ephemeral}]
  /\ rx \in [SOCKETS -> 0 .. RxCap]
  /\ tx \in [SOCKETS -> {"idle", "sending", "sent"}]

-----------------------------------------------------------------------------
(* The functions of socket.c. *)

\* close(): the CLOSE command, then every interrupt flag is cleared.
close(s) ==
  /\ sr' = [sr EXCEPT ![s] = "CLOSED"]
  /\ tx' = [tx EXCEPT ![s] = "idle"]
  /\ UNCHANGED <<lport, rx>>

\* socket(): close(), then mode, port and OPEN. OPEN empties the receive buffer.
\* Nobody but the code touches a closed socket, so the sequence is one step.
socket(s, opened, port) ==
  /\ sr' = [sr EXCEPT ![s] = opened]
  /\ lport' = [lport EXCEPT ![s] = port]
  /\ rx' = [rx EXCEPT ![s] = 0]
  /\ tx' = [tx EXCEPT ![s] = "idle"]

\* socket() for SnMR_TCP directly followed by listen(), whose test for INIT
\* therefore succeeds.
socketListen(s, port) == socket(s, "LISTEN", port)

\* connect(), its arguments accepted: the CONNECT command, which the chip takes
\* on an INIT socket. It sends the SYN and does not wait for the answer.
connect(s) ==
  /\ sr' = [sr EXCEPT ![s] = IF @ = "INIT" THEN "SYNSENT" ELSE @]
  /\ UNCHANGED <<lport, rx, tx>>

\* disconnect(): the DISCON command. The chip sends a FIN on an open
\* connection and ignores the command in the other states.
disconnect(s) ==
  /\ sr' = [sr EXCEPT ![s] = CASE @ = "ESTABLISHED" -> "FIN_WAIT"
                               [] @ = "CLOSE_WAIT"  -> "LAST_ACK"
                               [] OTHER             -> @]
  /\ UNCHANGED <<lport, rx, tx>>

\* The SEND command of send(). The chip ignores it on a socket that can send
\* nothing, and SnIR_SEND_OK never comes.
execSEND(s) ==
  /\ tx' = [tx EXCEPT ![s] = IF sr[s] \in CanSend THEN "sending" ELSE @]
  /\ UNCHANGED <<sr, lport, rx>>

\* Clearing SnIR_SEND_OK at the end of send().
clearSENDOK(s) ==
  /\ tx' = [tx EXCEPT ![s] = "idle"]
  /\ UNCHANGED <<sr, lport, rx>>

\* Mutant of recv: it does not look at Sn_RX_RSR first.
recvBlind(s) ==
  /\ rx' = [rx EXCEPT ![s] = @ - 1]
  /\ UNCHANGED <<sr, lport, tx>>

\* recv() of one byte, when there is one: RX_RD advances and RECV is issued.
recv(s) ==
  /\ rx[s] > 0
  /\ rx' = [rx EXCEPT ![s] = @ - 1]
  /\ UNCHANGED <<sr, lport, tx>>

-----------------------------------------------------------------------------
(* The chip, the network and the peers. *)

Move(s, from, to) ==
  /\ sr[s] \in from
  /\ sr' = [sr EXCEPT ![s] = to]
  /\ UNCHANGED <<lport, rx, tx>>

PeerSyn(s)       == Move(s, {"LISTEN"}, "SYNRECV")
HandshakeDone(s) == Move(s, {"SYNRECV", "SYNSENT"}, "ESTABLISHED")
HandshakeFail(s) == Move(s, {"SYNRECV", "SYNSENT"}, "CLOSED")
PeerFin(s)       == Move(s, {"ESTABLISHED"}, "CLOSE_WAIT")
PeerFinLate(s)   == Move(s, {"FIN_WAIT"}, "TIME_WAIT")
\* An RST, or the chip giving up retransmitting.
PeerReset(s)     == Move(s, {"ESTABLISHED", "CLOSE_WAIT"}, "CLOSED")
\* The last ACK of a close arrives, or the chip's timer runs out.
ShutdownDone(s)  == Move(s, {"FIN_WAIT", "TIME_WAIT", "LAST_ACK"}, "CLOSED")

\* The peer may send until it closes its side, also after the code has closed.
PeerData(s) ==
  /\ sr[s] \in {"ESTABLISHED", "FIN_WAIT"}
  /\ rx[s] < RxCap
  /\ rx' = [rx EXCEPT ![s] = @ + 1]
  /\ UNCHANGED <<sr, lport, tx>>

SendOk(s) ==
  /\ tx[s] = "sending"
  /\ sr[s] \in CanSend
  /\ tx' = [tx EXCEPT ![s] = "sent"]
  /\ UNCHANGED <<sr, lport, rx>>

ChipStep(s) ==
  \/ PeerSyn(s) \/ HandshakeDone(s) \/ HandshakeFail(s) \/ PeerFin(s)
  \/ PeerFinLate(s) \/ PeerReset(s) \/ ShutdownDone(s) \/ PeerData(s) \/ SendOk(s)

=============================================================================
