-------------------------- MODULE DatagramService --------------------------
(***************************************************************************)
(* What a caller of an EthernetUDP object can rely on: it receives whole   *)
(* datagrams one after the other, in the order of their arrival; a read    *)
(* gets the next bytes of the current datagram and never goes beyond it;   *)
(* a packet of at most TxSize bytes is sent as it was written since        *)
(* beginPacket. It is what EthernetUdp.h and socket.h promise but for two  *)
(* points, in which the code does not keep their promises: a read that     *)
(* finds nothing returns -1, not 0, and nothing is said of the bytes of a  *)
(* longer packet. EthernetUDP implements it.                               *)
(***************************************************************************)
EXTENDS Integers, Sequences

CONSTANTS Datagrams,    \* what peers send, and what the program writes in one call
          Peers,        \* who sends it
          Bytes,        \* values of a byte
          TxSize        \* bytes of the longest packet that is promised to arrive as written

VARIABLES inbox,        \* datagrams that have arrived and are not parsed yet
          current,      \* the unread bytes of the current datagram
          remote,       \* who has sent it: remoteIP and remotePort
          packet,       \* the bytes written since beginPacket
          result        \* what the last call has returned and moved

receiver == <<remote, current, inbox>>
vars == <<result, packet, receiver>>

\* n is the value returned, data the bytes read or sent.
Returns(n, data) == result' = [n |-> n, data |-> data]
Pending == [n |-> 0, data |-> <<>>]

Init ==
  /\ inbox = <<>> /\ current = <<>> /\ remote \in Peers
  /\ packet = <<>> /\ result = Pending

Arrive ==
  /\ UNCHANGED <<result, packet, remote, current>>
  /\ \E d \in Datagrams, p \in Peers : inbox' = Append(inbox, [from |-> p, data |-> d])

\* begin, beginMulticast and stop: nothing is left of what came before.
Reset ==
  /\ inbox' = <<>> /\ current' = <<>> /\ packet' = <<>>
  /\ \E n \in {0, 1} : Returns(n, <<>>)
  /\ UNCHANGED remote

\* flush, and the beginning of parsePacket: the unread bytes are skipped.
Flush == current' = <<>> /\ result' = Pending /\ UNCHANGED <<inbox, remote, packet>>

ParsePacket ==
  /\ current = <<>>
  /\ \/ inbox = <<>> /\ Returns(0, <<>>) /\ UNCHANGED receiver
     \/ /\ inbox # <<>> /\ inbox' = Tail(inbox)
        /\ current' = Head(inbox).data /\ remote' = Head(inbox).from
        /\ Returns(Len(Head(inbox).data), <<>>)
  /\ UNCHANGED packet

\* At most len bytes are read, and all that are there if they are fewer.
Read ==
  /\ \/ current = <<>> /\ Returns(-1, <<>>) /\ UNCHANGED current
     \/ \E n \in 1 .. Len(current) :
          /\ Returns(n, SubSeq(current, 1, n))
          /\ current' = SubSeq(current, n + 1, Len(current))
  /\ UNCHANGED <<inbox, remote, packet>>

Peek ==
  /\ \/ current = <<>> /\ Returns(-1, <<>>)
     \/ current # <<>> /\ Returns(1, <<Head(current)>>)
  /\ UNCHANGED <<receiver, packet>>

Available == Returns(Len(current), <<>>) /\ UNCHANGED <<receiver, packet>>

BeginPacket ==
  /\ packet' = <<>>
  /\ \E n \in {0, 1} : Returns(n, <<>>)
  /\ UNCHANGED receiver

\* The number of bytes that were taken is returned.
Write ==
  /\ \E d \in Datagrams : Returns(Len(d), <<>>) /\ packet' = packet \o d
  /\ UNCHANGED receiver

\* endPacket begins to work on the packet, which stays until it returns.
Commit == result' = Pending /\ UNCHANGED <<receiver, packet>>

\* What leaves for a packet: itself, or as many bytes if it is too long.
Sent == IF Len(packet) <= TxSize THEN {packet} ELSE [1 .. Len(packet) -> Bytes]

\* The datagram has left, or endPacket reports that it has not.
EndPacket ==
  /\ Returns(0, <<>>) \/ \E data \in Sent : Returns(1, data)
  /\ packet' = <<>>
  /\ UNCHANGED receiver

Next == \/ Arrive \/ Reset \/ Flush \/ ParsePacket \/ Read \/ Peek \/ Available
        \/ BeginPacket \/ Write \/ Commit \/ EndPacket

Spec == Init /\ [][Next]_vars
=============================================================================
