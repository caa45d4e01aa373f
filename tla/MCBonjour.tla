------------------------------ MODULE MCBonjour ------------------------------
(* Bonjour with an application that asks for names and services, and one that
   registers services. *)
EXTENDS Bonjour

MCApplications == {{0, 1}, {2}}
=============================================================================
