-------------------------- MODULE MCWebServerLoop --------------------------
(* The instance of WebServerLoop for TLC: the program of UnitTest.c. *)
EXTENDS WebServerLoop
=============================================================================
