--------------------------- MODULE WebServerLoop ---------------------------
(***************************************************************************)
(* UnitTest.c as it is built (TEST_CLIENT and TEST_BONJOUR are commented   *)
(* out): InitTests begins the server, mainThread calls LoopTests for ever, *)
(* and LoopTests serves one connection at a time with the functions of     *)
(* EthernetSockets. The characters of a request are abstracted: any byte   *)
(* may be the one that completes the blank line.                           *)
(***************************************************************************)
EXTENDS EthernetSockets

CONSTANTS localServer,       \* the port of the server
          connectedClient,   \* the handle LoopTests keeps the connection in
          ReplyWrites        \* bound: writes in a reply (the print calls of LoopTests)

ASSUME LoopAssumption ==
  /\ ServerPorts = {localServer}
  /\ Clients = {connectedClient} /\ Outgoing = {} /\ Udps = {}
  /\ ReplyWrites \in Nat

VARIABLES loop,   \* the statement of LoopTests to execute when no call is running
          left    \* writes of the reply still to do

loopVars == <<vars, loop, left>>

LoopTypeOK ==
  /\ loop \in {"init", "available", "check", "connected", "connected_rx",
               "read", "reply", "stop"}
  /\ left \in 0 .. ReplyWrites

LoopInit == Init /\ loop = "init" /\ left = 0

sock == _sock[connectedClient]

\* The statement makes a call; the next statement runs when it has returned.
Then(next) == loop' = next /\ UNCHANGED left

\* The statement reads registers and goes on.
Branch(next) == pc = "idle" /\ loop' = next /\ UNCHANGED <<vars, left>>

InitTests == loop = "init" /\ EthernetServer_begin(localServer) /\ Then("available")

LoopAvailable ==
  loop = "available" /\ EthernetServer_available(localServer) /\ Then("check")

\* EthernetClient_OK
LoopCheck ==
  /\ loop = "check"
  /\ Branch(IF sock = MAX_SOCK_NUM THEN "available" ELSE "connected")

\* Mutant of LoopConnected: CLOSED counts as connected.
LoopConnectedWhenClosed ==
  /\ loop = "connected"
  /\ Branch(CASE sr[sock] \in {"LISTEN", "FIN_WAIT"} -> "stop"
              [] sr[sock] = "CLOSE_WAIT" -> "connected_rx"
              [] OTHER -> "read")

\* EthernetClient_connected: the status, then the RX size when it is CLOSE_WAIT.
LoopConnected ==
  /\ loop = "connected"
  /\ Branch(CASE sr[sock] \in {"LISTEN", "CLOSED", "FIN_WAIT"} -> "stop"
              [] sr[sock] = "CLOSE_WAIT" -> "connected_rx"
              [] OTHER -> "read")

LoopConnectedRX ==
  /\ loop = "connected_rx"
  /\ Branch(IF rx[sock] = 0 THEN "stop" ELSE "read")

LoopNoData ==
  /\ loop = "read" /\ rx[sock] = 0
  /\ Branch("connected")

LoopRead ==
  /\ loop = "read"
  /\ EthernetClient_read(connectedClient)
  /\ \/ loop' = "connected" /\ UNCHANGED left
     \/ loop' = "reply" /\ left' = ReplyWrites

\* Mutant of LoopReply: one write too many.
LoopReplyOnce ==
  /\ loop = "reply"
  /\ EthernetClient_write(connectedClient)
  /\ left' = left - 1 /\ UNCHANGED loop

LoopReply ==
  /\ loop = "reply" /\ left > 0
  /\ EthernetClient_write(connectedClient)
  /\ left' = left - 1 /\ UNCHANGED loop

LoopReplied ==
  /\ loop = "reply" /\ left = 0
  /\ Branch("stop")

LoopStop ==
  loop = "stop" /\ EthernetClient_stop(connectedClient) /\ Then("available")

LoopTests == \/ LoopAvailable \/ LoopCheck \/ LoopConnected \/ LoopConnectedRX
             \/ LoopNoData \/ LoopRead \/ LoopReply \/ LoopReplied \/ LoopStop

mainThread == InitTests \/ LoopTests \/ (Thread /\ UNCHANGED <<loop, left>>)

Outside == (Environment \/ WaitForRoom) /\ UNCHANGED <<loop, left>>

LoopNext == mainThread \/ Outside

LoopSpec == LoopInit /\ [][LoopNext]_loopVars

\* One step of one kind on one socket, as an action of the whole system.
External(step) == step /\ UNCHANGED <<server_port, begun, _sock, threadVars, loop, left>>

\* The only thread of the program is scheduled for ever. Outside it: handshakes
\* and closes end (the chip has timers for them), the data of a SEND is
\* acknowledged, the peer takes more, and a peer that has nothing more to say
\* closes in the end. New connections, data and resets are not promised.
LoopFairness ==
  /\ WF_loopVars(mainThread)
  /\ WF_loopVars(WaitForRoom /\ UNCHANGED <<loop, left>>)
  /\ \A s \in SOCKETS :
       /\ WF_loopVars(External(HandshakeDone(s) \/ HandshakeFail(s)))
       /\ WF_loopVars(External(ShutdownDone(s)))
       /\ WF_loopVars(External(PeerFin(s)))
       /\ WF_loopVars(External(SendOk(s)))

FairLoopSpec == LoopSpec /\ LoopFairness

-----------------------------------------------------------------------------
(* Properties. *)

\* While LoopTests serves a connection, the handle names a socket that is still
\* the server's and was accepted on its port: no listener is opened on it under
\* the handle, even when the peer resets it, and no one else clears its entry.
HandleStaysOwn ==
  sock # MAX_SOCK_NUM =>
    /\ server_port[sock] = localServer
    /\ lport[sock] = localServer
    /\ sr[sock] \notin {"INIT", "LISTEN", "SYNRECV", "UDP"}

\* The server always comes to listen again: connections that are reset, closed
\* by the peer before or during their request, or never send one do not use up
\* the sockets.
ServerListensAgain == []<>(\E s \in SOCKETS : sr[s] = "LISTEN")

\* LoopTests never stays with one connection for ever.
ConnectionLetGo == []<>(sock = MAX_SOCK_NUM)
=============================================================================
