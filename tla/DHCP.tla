-------------------------------- MODULE DHCP --------------------------------
(***************************************************************************)
(* Dhcp.c: the DHCP client, as Ethernet_begin_mac and Ethernet_maintain    *)
(* use it, with the servers and the network around it.                     *)
(*                                                                         *)
(* Ethernet_begin_mac keeps the DHCP object on its stack. The model gives  *)
(* the object the lifetime that Ethernet_maintain needs.                   *)
(*                                                                         *)
(* Messages may be lost, delayed beyond the end of an exchange, duplicated *)
(* and reordered: what the client sent stays in discovered and requested,  *)
(* and a server may answer any of it at any time, or never.                *)
(* Mask, gateway and name server travel with the address and are modelled  *)
(* by it. Time is counted in response timeouts within an exchange and in   *)
(* seconds between the calls of checkLease.                                *)
(***************************************************************************)
EXTENDS Integers, FiniteSets

CONSTANTS Servers,        \* DHCP servers
          Pool,           \* Pool[s]: the addresses of server s
          Options,        \* what a reply says of the lease; 0: the option is absent
          DefaultLease,   \* DEFAULT_LEASE
          Rounds,         \* _timeout, in units of _responseTimeout
          MaxXid,         \* bound: no NAK beyond this transaction id
          Stale,          \* bound: DISCOVERs, and REQUESTs, that outlive an exchange
          MaxFactor,      \* bound: seconds that checkLease may be late
          Word,           \* 2^32, scaled down with the times
          Garbage,        \* what uninitialised counters may hold
          NoAddress,      \* 0.0.0.0
          NoServer

Addresses == UNION {Pool[s] : s \in Servers}

ASSUME DhcpAssumption ==
  /\ \A s, t \in Servers : s # t => Pool[s] \cap Pool[t] = {}
  /\ NoAddress \notin Addresses /\ NoServer \notin Servers
  /\ Options \subseteq [lease : 0 .. Word - 1, t1 : 0 .. Word - 1, t2 : 0 .. Word - 1]
  /\ DefaultLease \in 1 .. Word - 1 /\ Rounds \in Nat \ {0}
  /\ MaxXid \in Nat \ {0} /\ Stale \in Nat /\ MaxFactor \in Nat
  /\ Word \in Nat \ {0} /\ Garbage \subseteq Int

VARIABLES
  state,        \* _dhcp_state
  xid,          \* _dhcpTransactionId
  initialXid,   \* _dhcpInitialTransactionId
  localIp,      \* _dhcpLocalIp
  serverIp,     \* _dhcpDhcpServerIp
  leaseTime, t1, t2,       \* _dhcpLeaseTime, _dhcpT1, _dhcpT2
  renewInSec, rebindInSec, \* _renewInSec, _rebindInSec: signed
  lastCheck,    \* _lastCheck; 1 stands for every other value than 0
  pc, caller, elapsed,     \* the running call; elapsed: millis() - startTime
  rc,           \* what the last call of checkLease returned
  chipIp,       \* the address in the W5500
  discovered, requested,   \* the messages that servers may answer
  granted                  \* the addresses that servers have acknowledged

lease == <<localIp, serverIp, leaseTime, t1, t2>>
counters == <<renewInSec, rebindInSec>>
network == <<discovered, requested, granted>>
vars == <<state, xid, initialXid, lease, counters, lastCheck, pc, caller, elapsed,
          rc, chipIp, network>>

States == {"START", "DISCOVER", "REQUEST", "LEASED", "REREQUEST"}

\* DHCP_CHECK_*
NONE == 0
RENEW_FAIL == 1
RENEW_OK == 2
REBIND_FAIL == 3
REBIND_OK == 4

\* 1 + random() * (2000 - 1) / 0x7FFFFFFF: the product of 31 and 11 bits wraps
\* to a signed 32-bit number before it is divided, so that the quotient is 0,
\* or 1 for the single value of random() whose product wraps to 0x7FFFFFFF.
InitialXids == {1, 2}

TypeOK ==
  /\ state \in States
  /\ xid \in 0 .. MaxXid + Rounds + 2 /\ initialXid \in {0} \cup InitialXids
  /\ localIp \in Addresses \cup {NoAddress} /\ chipIp \in Addresses \cup {NoAddress}
  /\ serverIp \in Servers \cup {NoServer}
  /\ leaseTime \in 0 .. Word - 1 /\ t1 \in 0 .. Word - 1 /\ t2 \in 0 .. Word - 1
  /\ renewInSec \in Int /\ rebindInSec \in Int
  /\ lastCheck \in {0, 1}
  /\ pc \in {"off", "idle", "open", "loop", "close", "return"}
  /\ caller \in {"begin", "renew", "rebind"}
  /\ elapsed \in 0 .. Rounds
  /\ rc \in {NONE, RENEW_FAIL, RENEW_OK, REBIND_FAIL, REBIND_OK}
  /\ discovered \subseteq Nat
  /\ requested \subseteq [xid : Nat, ip : Addresses \cup {NoAddress},
                          server : Servers \cup {NoServer}]
  /\ granted \subseteq Addresses

Init ==
  /\ state = "START" /\ xid = 0 /\ initialXid = 0
  /\ localIp = NoAddress /\ serverIp = NoServer
  /\ leaseTime = 0 /\ t1 = 0 /\ t2 = 0
  /\ renewInSec \in Garbage /\ rebindInSec \in Garbage
  /\ lastCheck = 0 /\ pc = "off" /\ caller = "begin" /\ elapsed = 0
  /\ rc = NONE /\ chipIp = NoAddress
  /\ discovered = {} /\ requested = {} /\ granted = {}

-----------------------------------------------------------------------------
(* The calls of the program, and how DHCP_request_DHCP_lease starts and ends. *)

\* Assigning an unsigned time to a signed counter.
Signed(time) == IF 2 * time >= Word THEN time - Word ELSE time

StartRequest(who, from) == pc' = "open" /\ caller' = who /\ state' = from

\* The test for rebinding in checkLease.
MustRebind(now, counter) == now \in {"LEASED", "START"} /\ counter <= 0

\* This should "restart completely": DHCP_reset_DHCP_lease forgets the server.
Rebind ==
  /\ StartRequest("rebind", "START")
  /\ localIp' = NoAddress /\ serverIp' = NoServer

\* Ethernet_begin_mac and DHCP_beginWithDHCP.
Begin ==
  /\ pc = "off" /\ StartRequest("begin", "START")
  /\ chipIp' = NoAddress
  /\ UNCHANGED <<xid, initialXid, lease, counters, lastCheck, elapsed, rc, network>>

Countdown(counter, factor) == IF counter < 2 * factor THEN 0 ELSE counter - factor

\* Ethernet_maintain and DHCP_checkLease, up to a request if there is one. The
\* factor is the number of seconds to count down, 0 before _secTimeout.
CheckLease(factor) ==
  /\ pc = "idle" /\ lastCheck' = 1
  /\ IF lastCheck = 0 \/ factor = 0
     THEN UNCHANGED counters
     ELSE /\ renewInSec' = Countdown(renewInSec, factor)
          /\ rebindInSec' = Countdown(rebindInSec, factor)
  /\ IF lastCheck = 1 /\ state = "LEASED" /\ renewInSec' <= 0
     THEN StartRequest("renew", "REREQUEST") /\ UNCHANGED <<localIp, serverIp, rc>>
     ELSE IF lastCheck = 1 /\ MustRebind(state, rebindInSec')
     THEN Rebind /\ UNCHANGED rc
     ELSE rc' = NONE /\ UNCHANGED <<pc, caller, state, localIp, serverIp>>
  /\ UNCHANGED <<xid, initialXid, leaseTime, t1, t2, elapsed, chipIp, network>>

\* DHCP_request_DHCP_lease returns 1 with a lease, else 0. After a renewal
\* checkLease goes on to the test for rebinding.
Result == IF state = "LEASED" THEN 1 ELSE 0

\* Mutant of Installed: Ethernet_maintain takes over the fields after errors, too.
InstalledAlways == localIp

\* Mutant of Installed: REBIND_OK is forgotten in the switch.
InstalledUnlessRebound ==
  IF Result = 1 /\ caller # "rebind" THEN localIp ELSE chipIp

\* A success reaches the chip.
Installed == IF Result = 1 THEN localIp ELSE chipIp

RequestReturns ==
  /\ IF caller = "renew" /\ MustRebind(state, rebindInSec)
     THEN Rebind /\ UNCHANGED <<rc, chipIp>>
     ELSE /\ pc' = "idle" /\ chipIp' = Installed
          /\ rc' = CASE caller = "begin" -> NONE
                     [] caller = "renew" -> 1 + Result
                     [] caller = "rebind" -> 3 + Result
          /\ UNCHANGED <<caller, state, localIp, serverIp>>
  /\ UNCHANGED <<initialXid, leaseTime, t1, t2, counters, lastCheck, elapsed, network>>

NoSocket ==
  /\ pc = "open"
  /\ xid' \in InitialXids /\ initialXid' = xid'
  /\ pc' = "return"
  /\ UNCHANGED <<state, lease, counters, lastCheck, caller, elapsed, rc, chipIp, network>>

\* Most of the messages of the last exchange are lost by now.
Delayed(messages) == {m \in SUBSET messages : Cardinality(m) <= Stale}

OpenSocket ==
  /\ pc = "open"
  /\ xid' \in InitialXids /\ initialXid' = xid'
  /\ pc' = "loop" /\ elapsed' = 0
  /\ discovered' \in Delayed(discovered) /\ requested' \in Delayed(requested)
  /\ UNCHANGED <<state, lease, counters, lastCheck, caller, rc, chipIp, granted>>

CloseSocket == pc = "close" /\ RequestReturns /\ xid' = xid + 1

Return == pc = "return" /\ RequestReturns /\ UNCHANGED xid

-----------------------------------------------------------------------------
(* The loop of DHCP_request_DHCP_lease. *)

\* Mutant of Iterate: no time limit.
IterateForever(next, time) ==
  /\ state' = next /\ elapsed' = time
  /\ pc' = IF next = "LEASED" THEN "close" ELSE "loop"
  /\ UNCHANGED <<initialXid, lastCheck, caller, rc, chipIp>>

\* The end of an iteration: the loop ends with a lease or when the time is up.
Iterate(next, time) ==
  /\ state' = next /\ elapsed' = time
  /\ pc' = IF next = "LEASED" \/ time = Rounds THEN "close" ELSE "loop"
  /\ UNCHANGED <<initialXid, lastCheck, caller, rc, chipIp>>

Request(id, ip, server) ==
  requested' = requested \cup {[xid |-> id, ip |-> ip, server |-> server]}

SendDiscover ==
  /\ pc = "loop" /\ state = "START"
  /\ xid' = xid + 1
  /\ discovered' = discovered \cup {xid + 1}
  /\ Iterate("DISCOVER", elapsed)
  /\ UNCHANGED <<lease, counters, requested, granted>>

SendRerequest ==
  /\ pc = "loop" /\ state = "REREQUEST"
  /\ xid' = xid + 1
  /\ Request(xid + 1, localIp, serverIp)
  /\ Iterate("REQUEST", elapsed)
  /\ UNCHANGED <<lease, counters, discovered, granted>>

\* DHCP_parseDHCPResponse waits for a packet in these states, and says 255 when
\* none has come for the response timeout.
Waiting == pc = "loop" /\ state \in {"DISCOVER", "REQUEST"}

\* Mutant of Later: the time limit is passed unseen.
LaterUnbounded == elapsed + 1

Later == IF elapsed = Rounds THEN elapsed ELSE elapsed + 1

ResponseTimeout ==
  /\ Waiting
  /\ Iterate("START", Later)
  /\ UNCHANGED <<xid, lease, counters, network>>

\* The transaction ids that parseDHCPResponse lets pass.
CurrentXid(id) == initialXid <= id /\ id <= xid

\* The identifier of the server is taken when none is known, or when the known
\* one is the sender's.
ParseSender(s, yiaddr) ==
  /\ localIp' = yiaddr
  /\ serverIp' = IF serverIp = NoServer THEN s ELSE serverIp

\* The options that are absent leave the fields as they were. Reading the lease
\* time also sets _renewInSec.
Given(option, old) == IF option = 0 THEN old ELSE option

ParseOptions(o) ==
  /\ leaseTime' = Given(o.lease, leaseTime)
  /\ t1' = Given(o.t1, t1) /\ t2' = Given(o.t2, t2)
  /\ renewInSec' = IF o.lease = 0 THEN renewInSec ELSE Signed(o.lease)
  /\ UNCHANGED rebindInSec

Offer(id, s, a, o) ==
  /\ Waiting /\ id \in discovered /\ CurrentXid(id) /\ a \in Pool[s]
  /\ ParseSender(s, a) /\ ParseOptions(o)
  /\ IF state = "DISCOVER"
     THEN /\ xid' = id
          /\ Request(id, a, serverIp')
          /\ Iterate("REQUEST", elapsed)
     ELSE /\ UNCHANGED <<xid, requested>>
          /\ Iterate(state, elapsed)
  /\ UNCHANGED <<discovered, granted>>

\* An ACK to the client's REQUEST: the defaults, T1 and T2 if they are not known.
Leased(o) ==
  /\ leaseTime' = Given(o.lease, Given(leaseTime, DefaultLease))
  /\ t1' = Given(Given(o.t1, t1), leaseTime' \div 2)
  /\ t2' = Given(Given(o.t2, t2), (2 * t1') % Word)
  /\ renewInSec' = Signed(t1') /\ rebindInSec' = Signed(t2')
  /\ Iterate("LEASED", elapsed)

\* A server acknowledges addresses of its own pool. An ACK that comes when the
\* client discovers again is parsed, and not used.
Ack(r, o) ==
  /\ Waiting /\ r \in requested /\ CurrentXid(r.xid)
  /\ r.server \in Servers /\ r.ip \in Pool[r.server]
  /\ ParseSender(r.server, r.ip)
  /\ granted' = granted \cup {r.ip}
  /\ IF state = "REQUEST" THEN Leased(o) ELSE ParseOptions(o) /\ Iterate(state, elapsed)
  /\ UNCHANGED <<xid, discovered, requested>>

\* Mutant of Nak: the client asks again for what was refused.
NakRerequests(r) ==
  /\ Waiting /\ r \in requested /\ CurrentXid(r.xid) /\ xid < MaxXid
  /\ r.server \in Servers
  /\ ParseSender(r.server, NoAddress)
  /\ Iterate(IF state = "REQUEST" THEN "REREQUEST" ELSE state, elapsed)
  /\ UNCHANGED <<xid, leaseTime, t1, t2, counters, network>>

\* A NAK carries no address and no options.
Nak(r) ==
  /\ Waiting /\ r \in requested /\ CurrentXid(r.xid) /\ xid < MaxXid
  /\ r.server \in Servers
  /\ ParseSender(r.server, NoAddress)
  /\ Iterate(IF state = "REQUEST" THEN "START" ELSE state, elapsed)
  /\ UNCHANGED <<xid, leaseTime, t1, t2, counters, network>>

\* Packets that parseDHCPResponse throws away: other clients', other ids.
Junk ==
  /\ Waiting
  /\ Iterate(state, elapsed)
  /\ UNCHANGED <<xid, lease, counters, network>>

\* Meanwhile the clock runs.
Tick ==
  /\ pc = "loop" /\ elapsed < Rounds
  /\ elapsed' = elapsed + 1
  /\ UNCHANGED <<state, xid, initialXid, lease, counters, lastCheck, pc, caller, rc, chipIp, network>>

-----------------------------------------------------------------------------
Maintain == \E factor \in 0 .. MaxFactor : CheckLease(factor)

Client == OpenSocket \/ NoSocket \/ SendDiscover \/ SendRerequest
          \/ ResponseTimeout \/ CloseSocket \/ Return

Replies ==
  \/ \E id \in discovered, s \in Servers, o \in Options :
       \E a \in Pool[s] : Offer(id, s, a, o)
  \/ \E r \in requested : (\E o \in Options : Ack(r, o)) \/ Nak(r)
  \/ Junk

Next == Begin \/ Maintain \/ Client \/ Replies \/ Tick

Spec == Init /\ [][Next]_vars

\* The thread runs, or waits for a packet until it comes or the time is up; the
\* clock does not stop. No packet is promised.
FairSpec == Spec /\ WF_vars(Client \/ Replies) /\ WF_vars(Tick)

\* And the program calls Ethernet_maintain again and again, late enough to count.
MaintainedSpec == FairSpec /\ WF_vars(\E factor \in 1 .. MaxFactor : CheckLease(factor))

-----------------------------------------------------------------------------
(* Properties. *)

\* The address in the chip is one that its server has acknowledged: neither the
\* address of an offer that came too late to be taken, nor what a refused or failed
\* exchange has left in _dhcpLocalIp, gets there.
ConfigWasGranted == chipIp \in granted \cup {NoAddress}

\* Between calls, a client that believes it has a lease uses its address, whatever
\* replies (stale, duplicated, of several servers) overwrote _dhcpLocalIp on the way.
LeasedIsConfigured ==
  pc = "idle" /\ state = "LEASED" => chipIp = localIp /\ localIp # NoAddress

\* Every REQUEST names an address and a server. Both fields are overwritten by any
\* reply that passes the test of the transaction id, a NAK's zeros included.
RequestsAreComplete ==
  \A r \in requested : r.ip # NoAddress /\ r.server # NoServer

\* DHCP_request_DHCP_lease ends, also when no server answers, when servers only
\* refuse, or when packets keep coming: it has a time limit.
CallsComeBack == []<>(pc \in {"off", "idle"})

\* Ethernet_maintain's comment on an error: "it will retry though".
RetriesAfterFailure ==
  (pc = "idle" /\ rc \in {RENEW_FAIL, REBIND_FAIL}) ~> (pc = "open")

NewLease == state # "LEASED" /\ state' = "LEASED"

\* The comment on T1, for servers that do not give it: "50% of _dhcpLeaseTime".
T1IsHalf == [][NewLease => t1' = leaseTime' \div 2]_vars
=============================================================================
