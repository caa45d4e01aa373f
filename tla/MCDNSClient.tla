---------------------------- MODULE MCDNSClient ----------------------------
(* Small instances of DNSClient for TLC. *)
EXTENDS DNSClient
=============================================================================
