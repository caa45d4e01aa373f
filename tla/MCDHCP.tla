------------------------------- MODULE MCDHCP -------------------------------
(* Small instances of DHCP for TLC. *)
EXTENDS DHCP, TLC

CONSTANTS A, B, a1, b1

\* One address each.
TwoPools == (A :> {a1}) @@ (B :> {b1})
OnePool == A :> {a1}

\* Every reply leaves the lease time and T2 out and gives T1.
OnlyT1 == {[lease |-> 0, t1 |-> 1, t2 |-> 0]}

LeaseOnly == {[lease |-> 4, t1 |-> 0, t2 |-> 0], [lease |-> 2, t1 |-> 0, t2 |-> 0]}
=============================================================================
