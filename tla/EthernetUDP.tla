---------------------------- MODULE EthernetUDP ----------------------------
(***************************************************************************)
(* EthernetUdp.c and the datagram functions of socket.c and w5500.c: one   *)
(* EthernetUDP object over the receive and transmit buffers of its socket. *)
(*                                                                         *)
(* The receive buffer holds, one after the other, the datagrams that came, *)
(* each behind a header of eight bytes, which is two cells here: sender    *)
(* and length. The transmit buffer is a ring: the code writes through      *)
(* pointers modulo 2^16 and the chip reduces them to the buffer. Which     *)
(* socket begin finds is modelled in EthernetSockets.                      *)
(*                                                                         *)
(* Arrivals only add cells behind those that are there, so a recv takes    *)
(* the same bytes whenever they happen: it is one step.                    *)
(*                                                                         *)
(* behind and packet are history variables: no guard reads them. They keep *)
(* the datagrams as their senders know them, and the bytes that write has  *)
(* reported as taken, to compare with what the object makes of the cells.  *)
(***************************************************************************)
EXTENDS Integers, Sequences, SequencesExt

CONSTANTS Bytes,     \* values of a data byte
          Peers,     \* numbers that stand for an address and a port
          MaxLen,    \* bound: bytes of a datagram, and of one write
          RxSize,    \* W5500_RSIZE, in cells
          TxSize,    \* W5500_SSIZE
          Mod,       \* 2^16: the pointers' range
          Longest    \* bound: bytes of the longest datagram the program builds

Datagrams == BoundedSeq(Bytes, MaxLen)

ASSUME UdpAssumption ==
  /\ MaxLen \in Nat /\ RxSize \in Nat /\ TxSize \in Nat \ {0} /\ Longest \in Nat
  /\ Mod \in Nat /\ Mod % TxSize = 0 /\ Mod > Longest

VARIABLES open,        \* 1 when _sock names a socket
          remaining,   \* _remaining
          remote,      \* _remoteIP and _remotePort
          offset,      \* _offset
          building,    \* 1 from beginPacket to endPacket
          packet,      \* the bytes of write since beginPacket
          pc, result,  \* the running call, and what the last one returned
          rx,          \* the receive buffer from RX_RD on
          behind,      \* what came and is not parsed yet, as the senders know it
          mem,         \* the transmit buffer
          TX_RD, TX_WR,\* its pointers; TX_WR reads as it was at the last SEND
          written,     \* the value last written to TX_WR
          ir,          \* SnIR: the flag of the last SEND
          wire         \* the datagram that has left and endPacket does not know of

object == <<remaining, remote, offset>>
txBuffer == <<mem, TX_RD, TX_WR, written>>
rxBuffer == <<rx, behind>>
chip == <<rxBuffer, txBuffer, ir, wire>>
vars == <<open, object, building, packet, pc, result, chip>>

Init ==
  /\ open = 0 /\ remaining = 0 /\ remote \in Peers /\ offset = 0 /\ building = 0
  /\ packet = <<>>
  /\ pc = "idle" /\ result = [n |-> 0, data |-> <<>>]
  /\ rx = <<>> /\ behind = <<>> /\ mem \in [0 .. TxSize - 1 -> Bytes]
  /\ TX_RD = 0 /\ TX_WR = 0 /\ written = 0
  /\ ir = "none" /\ wire = <<>>

TypeOK ==
  /\ open \in {0, 1} /\ building \in {0, 1}
  /\ remaining \in 0 .. MaxLen /\ remote \in Peers /\ offset \in 0 .. Longest
  /\ pc \in {"idle", "flush", "parse_flush", "parse", "send_wait"}
  /\ result.n \in -1 .. MaxLen \cup {1}
  /\ result.data \in BoundedSeq(Bytes, Max({MaxLen, Longest}))
  /\ rx \in Seq(Bytes \cup Peers \cup 0 .. MaxLen) /\ Len(rx) <= RxSize
  /\ behind \in Seq([from : Peers, data : Datagrams])
  /\ mem \in [0 .. TxSize - 1 -> Bytes]
  /\ TX_RD \in 0 .. Mod - 1 /\ TX_WR \in 0 .. Mod - 1 /\ written \in 0 .. Mod - 1
  /\ ir \in {"none", "SEND_OK", "TIMEOUT"}
  /\ wire \in BoundedSeq(Bytes, Longest) /\ packet \in BoundedSeq(Bytes, Longest)

-----------------------------------------------------------------------------
(* The end of a call, and the helpers of socket.c and w5500.c. *)

Return(n, data) == pc' = "idle" /\ result' = [n |-> n, data |-> data]
Idle == pc = "idle" /\ open = 1

\* recv() of n cells, which are there.
recv(n) == rx' = SubSeq(rx, n + 1, Len(rx))
\* The number of bytes recv() moves, as it returns it.
Got(len) == IF rx = <<>> THEN -1 ELSE Min({len, Len(rx)})

\* W5500_getTXFreeSize. As w5500.h:104-107 says of TX_WR, the chip takes what was
\* written since the last SEND into account only when the next SEND comes.
TXFreeSize == TxSize - ((TX_WR - TX_RD) % Mod)

\* The cell of the transmit buffer that a pointer names.
Cell(ptr) == ptr % TxSize
Span(ptr, n) == [k \in 1 .. n |-> mem[Cell(ptr + k - 1)]]

\* Mutant of send_data_processing_offset: every write starts at TX_WR.
WriteAtStart(data) ==
  /\ mem' = [c \in DOMAIN mem |->
               IF \E k \in 1 .. Len(data) : Cell(TX_WR + k - 1) = c
               THEN data[Max({k \in 1 .. Len(data) : Cell(TX_WR + k - 1) = c})]
               ELSE mem[c]]
  /\ written' = (TX_WR + Len(data)) % Mod

\* W5500_send_data_processing_offset
send_data_processing_offset(data) ==
  LET ptr == TX_WR + offset
      Hits(c) == {k \in 1 .. Len(data) : Cell(ptr + k - 1) = c}
  IN  /\ mem' = [c \in DOMAIN mem |->
                   IF Hits(c) = {} THEN mem[c] ELSE data[Max(Hits(c))]]
      /\ written' = (ptr + Len(data)) % Mod

-----------------------------------------------------------------------------
(* begin, beginMulticast and stop. *)

\* Mutant of Opened: _remaining keeps the value it had on the old socket.
OpenedKeepsRemaining == UNCHANGED object

\* The fields of the object when its socket has been opened.
Opened == remaining' = 0 /\ UNCHANGED <<remote, offset>>

\* OPEN empties both buffers. beginMulticast does not care whether the object
\* has a socket already.
Open ==
  /\ pc = "idle" /\ open' = 1
  /\ Opened
  /\ rx' = <<>> /\ behind' = <<>> /\ TX_RD' = 0 /\ TX_WR' = 0 /\ written' = 0 /\ ir' = "none"
  /\ building' = 0 /\ packet' = <<>>
  /\ Return(1, <<>>)
  /\ UNCHANGED <<mem, wire>>

EthernetUDP_begin == open = 0 /\ Open
EthernetUDP_beginMulticast == Open

EthernetUDP_stop ==
  /\ Idle /\ open' = 0 /\ building' = 0 /\ ir' = "none"
  /\ behind' = <<>> /\ packet' = <<>>
  /\ Return(0, <<>>)
  /\ UNCHANGED <<object, rx, txBuffer, wire>>

-----------------------------------------------------------------------------
(* Receiving. *)

\* Mutant of ReadByte: _remaining is counted down even at the end.
ReadByteUnchecked ==
  IF rx # <<>>
  THEN recv(1) /\ remaining' = remaining - 1 /\ Return(1, <<rx[1]>>)
  ELSE Return(-1, <<>>) /\ UNCHANGED <<rx, remaining>>

\* EthernetUDP_read
ReadByte ==
  IF remaining > 0 /\ Got(1) > 0
  THEN recv(1) /\ remaining' = remaining - 1 /\ Return(1, <<rx[1]>>)
  ELSE Return(-1, <<>>) /\ UNCHANGED <<rx, remaining>>

\* EthernetUDP_read_buf
ReadBuf(len) ==
  LET got == Got(Min({remaining, len}))
  IN  IF remaining > 0 /\ got > 0
      THEN recv(got) /\ remaining' = remaining - got /\ Return(got, SubSeq(rx, 1, got))
      ELSE Return(-1, <<>>) /\ UNCHANGED <<rx, remaining>>

EthernetUDP_read ==
  /\ Idle /\ ReadByte
  /\ UNCHANGED <<open, remote, offset, building, packet, behind, txBuffer, ir, wire>>

EthernetUDP_read_buf ==
  /\ Idle /\ \E len \in 1 .. MaxLen : ReadBuf(len)
  /\ UNCHANGED <<open, remote, offset, building, packet, behind, txBuffer, ir, wire>>

\* peek() does not look whether there is a byte.
EthernetUDP_peek ==
  /\ Idle
  /\ IF remaining = 0 THEN Return(-1, <<>>) ELSE Return(1, <<rx[1]>>)
  /\ UNCHANGED <<open, object, building, packet, chip>>

EthernetUDP_available ==
  /\ Idle /\ Return(remaining, <<>>)
  /\ UNCHANGED <<open, object, building, packet, chip>>

\* flush alone, or as the beginning of parsePacket.
EthernetUDP_flush(label) ==
  /\ Idle /\ pc' = label /\ result' = [n |-> 0, data |-> <<>>]
  /\ UNCHANGED <<open, object, building, packet, chip>>

\* An iteration of the loop of flush. read() may have nothing to read.
FlushRead ==
  /\ pc \in {"flush", "parse_flush"} /\ remaining > 0
  /\ IF Got(1) > 0 THEN recv(1) /\ remaining' = remaining - 1
                   ELSE UNCHANGED <<rx, remaining>>
  /\ UNCHANGED <<open, remote, offset, building, packet, pc, result, behind, txBuffer, ir, wire>>

FlushDone ==
  /\ pc \in {"flush", "parse_flush"} /\ remaining = 0
  /\ IF pc = "flush" THEN Return(0, <<>>) ELSE pc' = "parse" /\ UNCHANGED result
  /\ UNCHANGED <<open, object, building, packet, chip>>

\* parsePacket takes the header and believes its length.
Parse ==
  /\ pc = "parse"
  /\ IF rx = <<>>
     THEN Return(0, <<>>) /\ UNCHANGED <<rxBuffer, remote, remaining>>
     ELSE /\ recv(2) /\ remote' = rx[1] /\ remaining' = rx[2] /\ Return(rx[2], <<>>)
          /\ behind' = Tail(behind)
  /\ UNCHANGED <<open, offset, building, packet, txBuffer, ir, wire>>

-----------------------------------------------------------------------------
(* Sending. *)

\* startUDP refuses the address 0.0.0.0 and the port 0.
EthernetUDP_beginPacket_ip ==
  /\ Idle /\ offset' = 0 /\ building' = 1 /\ packet' = <<>>
  /\ \E accepted \in {0, 1} : Return(accepted, <<>>)
  /\ UNCHANGED <<open, remaining, remote, chip>>

\* bufferData compares with the free size, which the bytes of earlier writes do not
\* count against, so a longer packet is written over its own beginning. It asks for the
\* free size once more than it needs to; nothing moves in the transmit buffer in between.
EthernetUDP_write(d) ==
  LET ret == Min({Len(d), TXFreeSize})
      taken == SubSeq(d, 1, ret)
  IN  /\ Idle /\ building = 1
      /\ send_data_processing_offset(taken)
      /\ offset' = offset + ret
      /\ packet' = packet \o taken
      /\ Return(ret, <<>>)
      /\ UNCHANGED <<open, remaining, remote, building, rxBuffer, TX_RD, TX_WR, ir, wire>>

\* sendUDP: the SEND command. The program has written something by now.
EthernetUDP_endPacket ==
  /\ Idle /\ building = 1 /\ offset > 0
  /\ TX_WR' = written
  /\ pc' = "send_wait" /\ result' = [n |-> 0, data |-> <<>>]
  /\ UNCHANGED <<open, object, building, packet, rxBuffer, mem, TX_RD, written, ir, wire>>

\* The wait sees SEND_OK.
EndPacketSent ==
  /\ pc = "send_wait" /\ ir = "SEND_OK"
  /\ ir' = "none" /\ building' = 0 /\ packet' = <<>>
  /\ Return(1, wire) /\ wire' = <<>>
  /\ UNCHANGED <<open, object, rxBuffer, txBuffer>>

\* Mutant of EndPacketTimeout: sendUDP waits for SEND_OK only.
EndPacketPatient == FALSE /\ UNCHANGED vars

\* Or it sees TIMEOUT: the chip has given up looking for the receiver.
EndPacketTimeout ==
  /\ pc = "send_wait" /\ ir = "TIMEOUT"
  /\ ir' = "none" /\ building' = 0 /\ packet' = <<>>
  /\ Return(0, <<>>)
  /\ UNCHANGED <<open, object, rxBuffer, txBuffer, wire>>

-----------------------------------------------------------------------------
(* The chip. *)

\* A datagram that does not fit is dropped.
Arrive ==
  /\ open = 1
  /\ \E d \in Datagrams, p \in Peers :
       /\ Len(rx) + 2 + Len(d) <= RxSize
       /\ rx' = rx \o <<p, Len(d)>> \o d
       /\ behind' = Append(behind, [from |-> p, data |-> d])
  /\ UNCHANGED <<open, object, building, packet, pc, result, txBuffer, ir, wire>>

\* SEND is over: the chip has sent what lies between the pointers, or nobody
\* has answered its ARP request.
SendOver ==
  /\ pc = "send_wait" /\ ir = "none"
  /\ \/ ir' = "SEND_OK" /\ wire' = Span(TX_RD, (TX_WR - TX_RD) % Mod)
     \/ ir' = "TIMEOUT" /\ UNCHANGED wire
  /\ TX_RD' = TX_WR
  /\ UNCHANGED <<open, object, building, packet, pc, result, rxBuffer, mem, TX_WR, written>>

\* The program builds no packet of more than Longest bytes, so that _offset, a word of 16
\* bits, does not wrap.
WriteSome == \E d \in Datagrams : offset + Len(d) <= Longest /\ EthernetUDP_write(d)

Call ==
  \/ EthernetUDP_begin \/ EthernetUDP_beginMulticast \/ EthernetUDP_stop
  \/ EthernetUDP_read_buf \/ EthernetUDP_read \/ EthernetUDP_peek
  \/ EthernetUDP_available
  \/ EthernetUDP_flush("flush") \/ EthernetUDP_flush("parse_flush")
  \/ EthernetUDP_beginPacket_ip \/ WriteSome \/ EthernetUDP_endPacket

Continue == FlushRead \/ FlushDone \/ Parse \/ EndPacketSent \/ EndPacketTimeout

Next == Call \/ Continue \/ Arrive \/ SendOver

Spec == Init /\ [][Next]_vars

\* The thread goes on with a call it has begun, and the chip ends every SEND.
FairSpec == Spec /\ WF_vars(Continue) /\ WF_vars(SendOver)

-----------------------------------------------------------------------------
(* Properties. *)

\* The bytes of the current datagram that are unread are in the receive buffer,
\* so that flush finds each of them: what EthernetUdp.c:204-206 hopes for.
RemainingIsThere == open = 1 => remaining <= Len(rx)

\* Every call returns: flush does not loop endlessly and endPacket does not wait
\* for an answer that never comes.
DatagramCallsEnd == pc # "idle" ~> pc = "idle"

\* A thread that has begun to flush will not hand out the bytes any more.
Unread == IF open = 1 /\ pc \in {"idle", "send_wait"} THEN SubSeq(rx, 1, remaining) ELSE <<>>

Promise == INSTANCE DatagramService WITH
  inbox   <- behind,
  current <- Unread,
  packet  <- packet,
  result  <- result

\* The object behaves as DatagramService says, which is what its header files say but for
\* two points: whole datagrams in order, no read beyond the current one, and packets that
\* are what was written if the transmit buffer holds them.
Service == Promise!Spec
=============================================================================
