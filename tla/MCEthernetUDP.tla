--------------------------- MODULE MCEthernetUDP ---------------------------
(* Small instances of EthernetUDP for TLC. *)
EXTENDS EthernetUDP

TwoBytes == {1, 2}
TwoPeers == {3, 4}
=============================================================================
