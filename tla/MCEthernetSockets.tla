------------------------- MODULE MCEthernetSockets -------------------------
(* Small instances of EthernetSockets for TLC. *)
EXTENDS EthernetSockets

\* WF on the running call only: nothing obliges the program to make calls, or
\* the peers to do anything.
FairThreadSpec == Spec /\ WF_vars(Thread)
=============================================================================
