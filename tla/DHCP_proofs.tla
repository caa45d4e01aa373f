----------------------------- MODULE DHCP_proofs -----------------------------
(***************************************************************************)
(* Proofs about the DHCP client, for every set of servers, addresses and   *)
(* options, and however messages are lost, delayed, duplicated and         *)
(* reordered: type correctness; that requests are complete; and that the   *)
(* chip has the address of the lease, which a server has granted.          *)
(***************************************************************************)
EXTENDS DHCP, TLAPS

\* What the client knows when it has a lease or asks for it again: the fields hold an
\* address and a server, and the address has been granted.
LeaseOK ==
  /\ state \in {"LEASED", "REREQUEST"} => localIp \in Addresses /\ serverIp \in Servers
  /\ state = "LEASED" => localIp \in granted

\* Within an exchange the transaction id is at most a message ahead of what the time
\* that has passed and the bound on NAKs allow.
Budget == IF MaxXid < 3 THEN 3 ELSE MaxXid
Sending == IF state \in {"START", "REREQUEST"} THEN 1 ELSE 0
Spent == IF elapsed = Rounds THEN Rounds - 1 ELSE elapsed
XidOK ==
  /\ pc = "loop" => xid + Sending <= Budget + Spent
  /\ pc = "close" => xid <= Budget + Rounds - 1

DInv == TypeOK /\ XidOK /\ LeaseOK /\ ConfigWasGranted /\ LeasedIsConfigured /\ RequestsAreComplete

-----------------------------------------------------------------------------
(* The times of a lease and the messages. *)

LEMMA RemainderType == ASSUME NEW n \in Nat PROVE n % Word \in 0 .. Word - 1
BY DhcpAssumption

LEMMA HalfType == ASSUME NEW n \in 0 .. Word - 1 PROVE n \div 2 \in 0 .. Word - 1
<1>1. n \in Nat /\ n \div 2 \in Nat /\ n \div 2 <= n
  BY DhcpAssumption
<1>2. QED BY <1>1, DhcpAssumption

LEMMA GivenType ==
  ASSUME NEW option \in 0 .. Word - 1, NEW old \in 0 .. Word - 1
  PROVE  Given(option, old) \in 0 .. Word - 1
BY DEF Given

LEMMA SignedType == ASSUME NEW time \in 0 .. Word - 1 PROVE Signed(time) \in Int
BY DhcpAssumption DEF Signed

LEMMA OptionType ==
  ASSUME NEW o \in Options
  PROVE  o.lease \in 0 .. Word - 1 /\ o.t1 \in 0 .. Word - 1 /\ o.t2 \in 0 .. Word - 1
BY DhcpAssumption

LEMMA PoolType ==
  ASSUME NEW s \in Servers, NEW a \in Pool[s]
  PROVE  a \in Addresses /\ a # NoAddress /\ s # NoServer
BY DhcpAssumption DEF Addresses

\* A reply that is parsed, whether or not it is of use.
LEMMA ParseType ==
  ASSUME TypeOK, NEW s \in Servers, NEW a \in Addresses \cup {NoAddress}, ParseSender(s, a)
  PROVE  localIp' = a /\ serverIp' \in Servers
BY DEF TypeOK, ParseSender

LEMMA ParseOptionsType ==
  ASSUME TypeOK, NEW o \in Options, ParseOptions(o)
  PROVE  /\ leaseTime' \in 0 .. Word - 1 /\ t1' \in 0 .. Word - 1 /\ t2' \in 0 .. Word - 1
         /\ renewInSec' \in Int /\ rebindInSec' \in Int
BY OptionType, GivenType, SignedType DEF TypeOK, ParseOptions

LEMMA LeasedType ==
  ASSUME TypeOK, NEW o \in Options, Leased(o)
  PROVE  /\ leaseTime' \in 0 .. Word - 1 /\ t1' \in 0 .. Word - 1 /\ t2' \in 0 .. Word - 1
         /\ renewInSec' \in Int /\ rebindInSec' \in Int
<1>1. leaseTime' \in 0 .. Word - 1
  BY OptionType, GivenType, DhcpAssumption DEF TypeOK, Leased
<1>2. leaseTime' \div 2 \in 0 .. Word - 1
  BY <1>1, HalfType
<1>3. t1' \in 0 .. Word - 1
  BY <1>2, OptionType, GivenType DEF TypeOK, Leased
<1>4. (2 * t1') % Word \in 0 .. Word - 1
  BY <1>3, RemainderType
<1>5. t2' \in 0 .. Word - 1
  BY <1>4, OptionType, GivenType DEF TypeOK, Leased
<1>6. QED BY <1>1, <1>3, <1>5, SignedType DEF Leased

\* The end of an iteration keeps the times and the states in range.
LEMMA BudgetType == Budget \in Nat /\ MaxXid <= Budget /\ 3 <= Budget /\ Budget <= MaxXid + 2
BY DhcpAssumption DEF Budget

LEMMA SpentType ==
  TypeOK => Spent \in Nat /\ Spent <= Rounds - 1 /\ Sending \in {0, 1}
<1>1. Sending \in {0, 1}
  BY DEF Sending
<1>2. Rounds \in Nat \ {0}
  BY DhcpAssumption
<1>3. ASSUME elapsed \in 0 .. Rounds PROVE Spent \in Nat /\ Spent <= Rounds - 1
  BY <1>2, <1>3 DEF Spent
<1>4. QED BY <1>1, <1>3 DEF TypeOK

\* XidOK bounds the transaction id.
LEMMA Bounded ==
  ASSUME NEW x \in Nat, NEW ahead \in {0, 1}, NEW spent \in Nat, spent <= Rounds - 1,
         x + ahead <= Budget + spent
  PROVE  x <= Budget + Rounds - 1
<1>1. ASSUME NEW b \in Nat, NEW r \in Nat \ {0}, spent <= r - 1, x + ahead <= b + spent
      PROVE  x <= b + r - 1
  BY <1>1
<1>2. Budget \in Nat /\ Rounds \in Nat \ {0}
  BY BudgetType, DhcpAssumption
<1>3. QED BY <1>1, <1>2

LEMMA InRange ==
  ASSUME NEW x \in Nat, x <= Budget + Rounds - 1
  PROVE  x \in 0 .. MaxXid + Rounds + 2
<1>1. Budget \in Nat /\ Rounds \in Nat \ {0} /\ MaxXid \in Nat /\ Budget <= MaxXid + 2
  BY BudgetType, DhcpAssumption
<1>2. QED BY <1>1

\* The types of the fields of a lease, of its counters and of the messages.
LeaseTypeOK ==
  /\ localIp \in Addresses \cup {NoAddress} /\ serverIp \in Servers \cup {NoServer}
  /\ leaseTime \in 0 .. Word - 1 /\ t1 \in 0 .. Word - 1 /\ t2 \in 0 .. Word - 1
  /\ renewInSec \in Int /\ rebindInSec \in Int

Message == [xid : Nat, ip : Addresses \cup {NoAddress}, server : Servers \cup {NoServer}]
NetworkTypeOK ==
  discovered \subseteq Nat /\ requested \subseteq Message /\ granted \subseteq Addresses

LEMMA LoopInv ==
  ASSUME DInv, pc = "loop", NEW next \in States, NEW time \in 0 .. Rounds,
         Iterate(next, time), xid' \in Nat, XidOK', LeaseTypeOK', NetworkTypeOK',
         granted \subseteq granted', LeaseOK', RequestsAreComplete'
  PROVE  DInv'
<1>1. /\ UNCHANGED <<initialXid, lastCheck, caller, rc, chipIp>>
      /\ state' = next /\ elapsed' \in 0 .. Rounds /\ pc' \in {"loop", "close"}
  BY DEF Iterate
<1>2. xid' \in 0 .. MaxXid + Rounds + 2
  <2>1. CASE pc' = "close"
    BY <2>1, InRange DEF XidOK, Budget
  <2>2. CASE pc' = "loop"
    <3>1. Spent' \in Nat /\ Spent' <= Rounds - 1 /\ Sending' \in {0, 1}
      BY <1>1, DhcpAssumption DEF Spent, Sending
    <3>2. xid' + Sending' <= Budget + Spent'
      BY <2>2 DEF XidOK, Budget
    <3>3. QED BY <3>1, <3>2, Bounded, InRange
  <2>3. QED BY <1>1, <2>1, <2>2
<1>3. TypeOK'
  BY <1>1, <1>2 DEF DInv, TypeOK, LeaseTypeOK, NetworkTypeOK, Message
<1>4. ConfigWasGranted' /\ LeasedIsConfigured'
  BY <1>1 DEF DInv, ConfigWasGranted, LeasedIsConfigured
<1>5. QED BY <1>3, <1>4 DEF DInv

LEMMA TypeParts == DInv => LeaseTypeOK /\ NetworkTypeOK /\ xid \in Nat /\ elapsed \in 0 .. Rounds
BY DEF DInv, TypeOK, LeaseTypeOK, NetworkTypeOK, Message

\* The loop is at most where the time that has passed allows it to be.
LEMMA LoopXid ==
  ASSUME DInv, pc = "loop"
  PROVE  /\ Spent \in Nat /\ Budget \in Nat /\ xid \in Nat
         /\ xid <= Budget + Spent
         /\ state \in {"START", "REREQUEST"} => xid + 1 <= Budget + Spent
<1>1. Spent \in Nat /\ Budget \in Nat /\ xid \in Nat
  BY TypeParts, SpentType, BudgetType DEF DInv
<1>2. xid + Sending <= Budget + Spent
  BY DEF DInv, XidOK
<1>3. CASE state \in {"START", "REREQUEST"}
  BY <1>1, <1>2, <1>3 DEF Sending
<1>4. CASE state \notin {"START", "REREQUEST"}
  BY <1>1, <1>2, <1>4 DEF Sending
<1>5. QED BY <1>1, <1>3, <1>4

\* An iteration that takes no time and asks for nothing new keeps within them.
LEMMA SameTime ==
  ASSUME DInv, pc = "loop", NEW next \in States \ {"START", "REREQUEST"},
         Iterate(next, elapsed), xid' \in Nat,
         xid' <= xid \/ (xid' = xid + 1 /\ state \in {"START", "REREQUEST"})
  PROVE  XidOK'
<1>1. Sending' = 0 /\ Spent' = Spent /\ elapsed' = elapsed
  BY DEF Iterate, Sending, Spent
<1>2. xid' <= Budget + Spent
  BY LoopXid
<1>3. Spent <= Rounds - 1 /\ Rounds \in Nat
  BY SpentType, DhcpAssumption DEF DInv
<1>4. xid' <= Budget + Rounds - 1
  BY <1>2, <1>3, LoopXid
<1>5. xid' + 0 <= Budget + Spent
  BY <1>2
<1>6. QED BY <1>1, <1>4, <1>5 DEF XidOK, Budget

LEMMA SendDiscoverInv == DInv /\ SendDiscover => DInv'
<1> SUFFICES ASSUME DInv, SendDiscover PROVE DInv'
  OBVIOUS
<1>1. pc = "loop" /\ state = "START" /\ Iterate("DISCOVER", elapsed) /\ xid' = xid + 1
      /\ state' = "DISCOVER" /\ UNCHANGED <<lease, counters, requested, granted>>
      /\ discovered' = discovered \cup {xid + 1}
  BY DEF SendDiscover, Iterate
<1>2. xid' \in Nat /\ elapsed \in 0 .. Rounds /\ "DISCOVER" \in States \ {"START", "REREQUEST"}
  BY <1>1, TypeParts DEF States
<1>3. LeaseTypeOK' /\ NetworkTypeOK'
  BY <1>1, TypeParts DEF LeaseTypeOK, NetworkTypeOK, lease, counters
<1>4. LeaseOK' /\ RequestsAreComplete'
  BY <1>1 DEF DInv, LeaseOK, RequestsAreComplete
<1>5. QED BY <1>1, <1>2, <1>3, <1>4, SameTime, LoopInv

LEMMA SendRerequestInv == DInv /\ SendRerequest => DInv'
<1> SUFFICES ASSUME DInv, SendRerequest PROVE DInv'
  OBVIOUS
<1>1. pc = "loop" /\ state = "REREQUEST" /\ Iterate("REQUEST", elapsed) /\ xid' = xid + 1
      /\ state' = "REQUEST" /\ UNCHANGED <<lease, counters, discovered, granted>>
      /\ requested' = requested \cup {[xid |-> xid + 1, ip |-> localIp, server |-> serverIp]}
  BY DEF SendRerequest, Iterate, Request
<1>2. xid' \in Nat /\ elapsed \in 0 .. Rounds /\ "REQUEST" \in States \ {"START", "REREQUEST"}
  BY <1>1, TypeParts DEF States
<1>3. LeaseTypeOK' /\ NetworkTypeOK'
  BY <1>1, TypeParts DEF LeaseTypeOK, NetworkTypeOK, Message, lease, counters
<1>4. LeaseOK' /\ RequestsAreComplete'
  BY <1>1, DhcpAssumption DEF DInv, LeaseOK, RequestsAreComplete
<1>5. XidOK'
  BY <1>1, <1>2, SameTime
<1>6. QED BY <1>1, <1>2, <1>3, <1>4, <1>5, LoopInv

LEMMA ResponseTimeoutInv == DInv /\ ResponseTimeout => DInv'
<1> SUFFICES ASSUME DInv, ResponseTimeout PROVE DInv'
  OBVIOUS
<1>1. pc = "loop" /\ state \in {"DISCOVER", "REQUEST"} /\ Iterate("START", Later)
      /\ UNCHANGED <<xid, lease, counters, network>>
  BY DEF ResponseTimeout, Waiting
<1>2. state' = "START" /\ elapsed' = Later /\ Sending' = 1
      /\ pc' = IF Later = Rounds THEN "close" ELSE "loop"
  BY <1>1 DEF Iterate, Sending
<1>3. Later \in 0 .. Rounds /\ elapsed \in 0 .. Rounds /\ xid' \in Nat /\ "START" \in States
      /\ Rounds \in Nat \ {0}
  BY <1>1, TypeParts, DhcpAssumption DEF Later, States
<1>4. LeaseTypeOK' /\ NetworkTypeOK'
  BY <1>1, TypeParts DEF LeaseTypeOK, NetworkTypeOK, lease, counters, network
<1>5. LeaseOK' /\ RequestsAreComplete'
  BY <1>1, <1>2 DEF DInv, LeaseOK, RequestsAreComplete, network
<1>6. XidOK'
  <2>1. xid <= Budget + Rounds - 1 /\ UNCHANGED xid
    BY <1>1, LoopXid, SpentType, Bounded, DhcpAssumption DEF DInv
  <2>2. CASE Later = Rounds
    BY <1>2, <2>1, <2>2 DEF XidOK, Budget
  <2>3. CASE Later # Rounds
    <3>1. Later = elapsed + 1 /\ elapsed # Rounds
      BY <1>3, <2>3 DEF Later
    <3>2. Spent = elapsed /\ Spent' = elapsed + 1
      BY <1>2, <2>3, <3>1 DEF Spent
    <3>3. xid + 1 <= Budget + (elapsed + 1)
      BY <1>1, <1>3, <3>2, LoopXid
    <3>4. QED BY <1>2, <2>1, <2>3, <3>2, <3>3 DEF XidOK, Budget
  <2>4. QED BY <2>2, <2>3
<1>7. QED BY <1>1, <1>3, <1>4, <1>5, <1>6, LoopInv DEF network

-----------------------------------------------------------------------------
(* Replies. *)

\* Waiting, the client has no lease and is not about to ask for one again.
LEMMA WaitingFacts ==
  ASSUME DInv, Waiting
  PROVE  /\ pc = "loop" /\ state \in States \ {"START", "REREQUEST"} /\ state # "LEASED"
         /\ elapsed \in 0 .. Rounds /\ xid \in Nat
BY TypeParts DEF Waiting, States

LEMMA OfferInv ==
  ASSUME DInv, NEW s \in Servers, NEW a \in Pool[s], NEW o \in Options, NEW id \in discovered,
         Offer(id, s, a, o)
  PROVE  DInv'
<1>1. Waiting /\ ParseSender(s, a) /\ ParseOptions(o) /\ id <= xid
      /\ UNCHANGED <<discovered, granted>>
  BY DEF Offer, CurrentXid
<1>2. a \in Addresses /\ a # NoAddress /\ localIp' = a /\ serverIp' \in Servers /\ id \in Nat
  BY <1>1, PoolType, ParseType DEF DInv, TypeOK
<1>3. LeaseTypeOK'
  BY <1>1, <1>2, ParseOptionsType DEF DInv, LeaseTypeOK
<1>4. CASE state = "DISCOVER"
  <2>1. xid' = id /\ Iterate("REQUEST", elapsed) /\ state' = "REQUEST"
    BY <1>4 DEF Offer, Iterate
  <2>2. requested' = requested \cup {[xid |-> id, ip |-> a, server |-> serverIp']}
    BY <1>4 DEF Offer, Request
  <2>3. NetworkTypeOK'
    BY <1>1, <1>2, <2>2, TypeParts DEF NetworkTypeOK, Message
  <2>4. LeaseOK' /\ RequestsAreComplete'
    BY <1>2, <2>1, <2>2, DhcpAssumption DEF DInv, LeaseOK, RequestsAreComplete
  <2>5. "REQUEST" \in States \ {"START", "REREQUEST"} /\ xid' \in Nat
    BY <1>2, <2>1 DEF States
  <2>6. XidOK'
    BY <1>1, <2>1, <2>5, WaitingFacts, SameTime
  <2>7. QED BY <1>1, <1>3, <2>1, <2>3, <2>4, <2>5, <2>6, WaitingFacts, LoopInv
<1>5. CASE state # "DISCOVER"
  <2>1. UNCHANGED <<xid, requested>> /\ Iterate(state, elapsed) /\ state' = state
    BY <1>5 DEF Offer, Iterate
  <2>2. NetworkTypeOK'
    BY <1>1, <2>1, TypeParts DEF NetworkTypeOK
  <2>3. LeaseOK' /\ RequestsAreComplete'
    BY <1>1, <2>1, WaitingFacts DEF DInv, LeaseOK, RequestsAreComplete
  <2>4. XidOK' /\ xid' \in Nat
    BY <1>1, <2>1, WaitingFacts, SameTime
  <2>5. QED BY <1>1, <1>3, <2>1, <2>2, <2>3, <2>4, WaitingFacts, LoopInv
<1>6. QED BY <1>4, <1>5

LEMMA AckInv ==
  ASSUME DInv, NEW r \in requested, NEW o \in Options, Ack(r, o)
  PROVE  DInv'
<1>1. Waiting /\ r.server \in Servers /\ r.ip \in Pool[r.server]
      /\ ParseSender(r.server, r.ip) /\ granted' = granted \cup {r.ip}
      /\ UNCHANGED <<xid, discovered, requested>>
  BY DEF Ack
<1>2. r.ip \in Addresses /\ localIp' = r.ip /\ serverIp' \in Servers
  BY <1>1, PoolType, ParseType DEF DInv
<1>3. NetworkTypeOK'
  BY <1>1, <1>2, TypeParts DEF NetworkTypeOK
<1>4. RequestsAreComplete'
  BY <1>1 DEF DInv, RequestsAreComplete
<1>5. PICK next \in {state, "LEASED"} : Iterate(next, elapsed)
  BY DEF Ack, Leased
<1>6. next \in States \ {"START", "REREQUEST"} /\ state' = next
  BY <1>1, <1>5, WaitingFacts DEF States, Iterate
<1>7. LeaseTypeOK'
  BY <1>2, LeasedType, ParseOptionsType DEF Ack, DInv, LeaseTypeOK
<1>8. LeaseOK'
  BY <1>1, <1>2, <1>6 DEF LeaseOK
<1>9. XidOK' /\ xid' \in Nat
  BY <1>1, <1>5, <1>6, WaitingFacts, SameTime
<1>10. QED BY <1>1, <1>3, <1>4, <1>5, <1>6, <1>7, <1>8, <1>9, WaitingFacts, LoopInv

LEMMA NakInv ==
  ASSUME DInv, NEW r \in requested, Nak(r)
  PROVE  DInv'
<1>1. Waiting /\ r.server \in Servers /\ ParseSender(r.server, NoAddress) /\ xid < MaxXid
      /\ UNCHANGED <<xid, leaseTime, t1, t2, counters, network>>
  BY DEF Nak
<1>2. localIp' = NoAddress /\ serverIp' \in Servers
  BY <1>1, ParseType DEF DInv
<1>3. LeaseTypeOK' /\ NetworkTypeOK'
  BY <1>1, <1>2, TypeParts DEF LeaseTypeOK, NetworkTypeOK, counters, network
<1>4. PICK next \in {state, "START"} : Iterate(next, elapsed)
  BY DEF Nak
<1>5. next \in States \ {"REREQUEST", "LEASED"} /\ state' = next /\ elapsed' = elapsed
      /\ pc' = IF elapsed = Rounds THEN "close" ELSE "loop"
  BY <1>1, <1>4, WaitingFacts DEF States, Iterate
<1>6. LeaseOK' /\ RequestsAreComplete'
  BY <1>1, <1>5 DEF DInv, LeaseOK, RequestsAreComplete, network
<1>7. XidOK'
  <2>1. xid + 1 <= Budget /\ Budget \in Nat /\ xid' = xid /\ xid \in Nat
    BY <1>1, BudgetType, DhcpAssumption, WaitingFacts
  <2>2. Spent' \in Nat /\ Sending' \in {0, 1} /\ Rounds \in Nat \ {0}
    <3>1. Spent' = Spent
      BY <1>5 DEF Spent
    <3>2. QED BY <3>1, SpentType, DhcpAssumption DEF DInv, Sending
  <2>3. ASSUME NEW a \in {0, 1}, NEW t \in Nat
        PROVE  xid + a <= Budget + t /\ xid <= Budget + Rounds - 1
    BY <2>1, <2>2
  <2>4. QED BY <2>1, <2>2, <2>3 DEF XidOK, Budget
<1>8. QED BY <1>1, <1>3, <1>4, <1>5, <1>6, <1>7, WaitingFacts, LoopInv DEF network

LEMMA JunkInv == DInv /\ Junk => DInv'
<1> SUFFICES ASSUME DInv, Junk PROVE DInv'
  OBVIOUS
<1>1. Waiting /\ Iterate(state, elapsed) /\ state' = state
      /\ UNCHANGED <<xid, lease, counters, network>>
  BY DEF Junk, Iterate
<1>2. LeaseTypeOK' /\ NetworkTypeOK'
  BY <1>1, TypeParts DEF LeaseTypeOK, NetworkTypeOK, lease, counters, network
<1>3. LeaseOK' /\ RequestsAreComplete'
  BY <1>1 DEF DInv, LeaseOK, RequestsAreComplete, lease, network
<1>4. XidOK' /\ xid' \in Nat
  BY <1>1, WaitingFacts, SameTime
<1>5. QED BY <1>1, <1>2, <1>3, <1>4, WaitingFacts, LoopInv DEF network

LEMMA RepliesInv == DInv /\ Replies => DInv'
<1> SUFFICES ASSUME DInv, Replies PROVE DInv'
  OBVIOUS
<1>1. ASSUME NEW id \in discovered, NEW s \in Servers, NEW o \in Options, NEW a \in Pool[s],
             Offer(id, s, a, o)
      PROVE  DInv'
  BY <1>1, OfferInv
<1>2. ASSUME NEW r \in requested, \/ \E o \in Options : Ack(r, o)
                                  \/ Nak(r)
      PROVE  DInv'
  BY <1>2, AckInv, NakInv
<1>3. QED BY <1>1, <1>2, JunkInv DEF Replies

LEMMA TickInv == DInv /\ Tick => DInv'
<1> SUFFICES ASSUME DInv, Tick PROVE DInv'
  OBVIOUS
<1>1. /\ pc = "loop" /\ elapsed < Rounds /\ elapsed' = elapsed + 1
      /\ UNCHANGED <<state, xid, initialXid, lease, counters, lastCheck, pc, caller, rc,
                     chipIp, network>>
  BY DEF Tick
<1>2. elapsed \in 0 .. Rounds /\ Rounds \in Nat \ {0}
  BY TypeParts, DhcpAssumption
<1>3. elapsed' \in 0 .. Rounds
  BY <1>1, <1>2
<1>4. TypeOK'
  BY <1>1, <1>3 DEF DInv, TypeOK, lease, counters, network
<1>5. XidOK'
  <2>1. Spent \in Nat /\ Spent' \in Nat /\ Spent <= Spent'
    BY <1>1, <1>2 DEF Spent
  <2>2. Sending' = Sending /\ Sending \in {0, 1} /\ xid \in Nat /\ Budget \in Nat
    BY <1>1, BudgetType, TypeParts DEF Sending
  <2>3. xid + Sending <= Budget + Spent
    BY <1>1 DEF DInv, XidOK
  <2>4. ASSUME NEW x \in Nat, NEW b \in Nat, NEW t \in Nat, NEW u \in Nat, t <= u, x <= b + t
        PROVE  x <= b + u
    BY <2>4
  <2>5. xid + Sending <= Budget + Spent'
    <3>1. xid + Sending \in Nat
      BY <2>2
    <3>2. QED BY <2>1, <2>2, <2>3, <2>4, <3>1
  <2>6. QED BY <1>1, <2>2, <2>5 DEF XidOK, Budget
<1>6. LeaseOK' /\ ConfigWasGranted' /\ LeasedIsConfigured' /\ RequestsAreComplete'
  BY <1>1 DEF DInv, LeaseOK, ConfigWasGranted, LeasedIsConfigured, RequestsAreComplete,
              lease, network
<1>7. QED BY <1>4, <1>5, <1>6 DEF DInv

-----------------------------------------------------------------------------
(* The calls of the program, and how an exchange starts and ends. *)

LEMMA BeginInv == DInv /\ Begin => DInv'
<1> SUFFICES ASSUME DInv, Begin PROVE DInv'
  OBVIOUS
<1>1. /\ pc' = "open" /\ caller' = "begin" /\ state' = "START" /\ chipIp' = NoAddress
      /\ UNCHANGED <<xid, initialXid, lease, counters, lastCheck, elapsed, rc, network>>
  BY DEF Begin, StartRequest
<1>2. TypeOK'
  BY <1>1 DEF DInv, TypeOK, States, lease, counters, network
<1>3. XidOK' /\ LeaseOK' /\ ConfigWasGranted' /\ LeasedIsConfigured' /\ RequestsAreComplete'
  BY <1>1 DEF DInv, XidOK, LeaseOK, ConfigWasGranted, LeasedIsConfigured,
              RequestsAreComplete, network
<1>4. QED BY <1>2, <1>3 DEF DInv

LEMMA CountdownType ==
  ASSUME NEW counter \in Int, NEW factor \in Nat
  PROVE  Countdown(counter, factor) \in Int
BY DEF Countdown

LEMMA CheckLeaseInv ==
  ASSUME DInv, NEW factor \in 0 .. MaxFactor, CheckLease(factor)
  PROVE  DInv'
<1>1. /\ pc = "idle" /\ lastCheck' = 1
      /\ UNCHANGED <<xid, initialXid, leaseTime, t1, t2, elapsed, chipIp, network>>
  BY DEF CheckLease
<1>2. renewInSec' \in Int /\ rebindInSec' \in Int
  BY CountdownType, DhcpAssumption DEF CheckLease, DInv, TypeOK, counters
<1>3. /\ pc' \in {"idle", "open"} /\ caller' \in {caller, "renew", "rebind"}
      /\ rc' \in {rc, NONE}
      /\ \/ state' = state /\ UNCHANGED <<localIp, serverIp>>
         \/ state = "LEASED" /\ state' = "REREQUEST" /\ UNCHANGED <<localIp, serverIp>>
            /\ pc' = "open"
         \/ state' = "START" /\ localIp' = NoAddress /\ serverIp' = NoServer
            /\ pc' = "open"
  BY <1>1 DEF CheckLease, StartRequest, Rebind
<1>4. TypeOK'
  BY <1>1, <1>2, <1>3 DEF DInv, TypeOK, States, network
<1>5. XidOK' /\ LeaseOK' /\ ConfigWasGranted' /\ LeasedIsConfigured' /\ RequestsAreComplete'
  BY <1>1, <1>3 DEF DInv, XidOK, LeaseOK, ConfigWasGranted, LeasedIsConfigured,
                    RequestsAreComplete, network
<1>6. QED BY <1>4, <1>5 DEF DInv

\* The old messages that are still on their way.
LEMMA DelayedSubset == ASSUME NEW S, NEW m \in Delayed(S) PROVE m \subseteq S
BY DEF Delayed

LEMMA OpenSocketInv == DInv /\ OpenSocket => DInv'
<1> SUFFICES ASSUME DInv, OpenSocket PROVE DInv'
  OBVIOUS
<1>1. /\ xid' \in {1, 2} /\ initialXid' = xid' /\ pc' = "loop" /\ elapsed' = 0
      /\ discovered' \subseteq discovered /\ requested' \subseteq requested
      /\ UNCHANGED <<state, lease, counters, lastCheck, caller, rc, chipIp, granted>>
  BY DelayedSubset DEF OpenSocket, InitialXids
<1>2. Rounds \in Nat \ {0} /\ MaxXid \in Nat /\ Budget \in Nat /\ 3 <= Budget
  BY BudgetType, DhcpAssumption
<1>3. xid' \in 0 .. MaxXid + Rounds + 2 /\ elapsed' \in 0 .. Rounds
  BY <1>1, <1>2
<1>4. TypeOK'
  BY <1>1, <1>3 DEF DInv, TypeOK, InitialXids, lease, counters
<1>5. XidOK'
  <2>1. Spent' = 0 /\ Sending' \in {0, 1}
    BY <1>1, <1>2 DEF Spent, Sending
  <2>2. ASSUME NEW x \in {1, 2}, NEW a \in {0, 1} PROVE x + a <= Budget + 0
    BY <1>2
  <2>3. QED BY <1>1, <2>1, <2>2 DEF XidOK, Budget
<1>6. LeaseOK' /\ ConfigWasGranted' /\ LeasedIsConfigured' /\ RequestsAreComplete'
  BY <1>1 DEF DInv, LeaseOK, ConfigWasGranted, LeasedIsConfigured, RequestsAreComplete, lease
<1>7. QED BY <1>4, <1>5, <1>6 DEF DInv

LEMMA NoSocketInv == DInv /\ NoSocket => DInv'
<1> SUFFICES ASSUME DInv, NoSocket PROVE DInv'
  OBVIOUS
<1>1. /\ xid' \in {1, 2} /\ initialXid' = xid' /\ pc' = "return"
      /\ UNCHANGED <<state, lease, counters, lastCheck, caller, elapsed, rc, chipIp, network>>
  BY DEF NoSocket, InitialXids
<1>2. xid' \in 0 .. MaxXid + Rounds + 2
  BY <1>1, DhcpAssumption
<1>3. TypeOK'
  BY <1>1, <1>2 DEF DInv, TypeOK, InitialXids, lease, counters, network
<1>4. XidOK' /\ LeaseOK' /\ ConfigWasGranted' /\ LeasedIsConfigured' /\ RequestsAreComplete'
  BY <1>1 DEF DInv, XidOK, LeaseOK, ConfigWasGranted, LeasedIsConfigured,
              RequestsAreComplete, lease, network
<1>5. QED BY <1>3, <1>4 DEF DInv

\* Only the address of a lease is installed.
LEMMA ReturnsInv ==
  ASSUME DInv, RequestReturns, xid' \in 0 .. MaxXid + Rounds + 2
  PROVE  DInv'
<1>1. /\ pc' \in {"idle", "open"} /\ caller' \in {caller, "rebind"}
      /\ UNCHANGED <<initialXid, leaseTime, t1, t2, counters, lastCheck, elapsed, network>>
  BY DEF RequestReturns, Rebind, StartRequest
<1>2. CASE caller = "renew" /\ MustRebind(state, rebindInSec)
  <2>1. /\ state' = "START" /\ localIp' = NoAddress /\ serverIp' = NoServer /\ pc' = "open"
        /\ UNCHANGED <<rc, chipIp>>
    BY <1>2 DEF RequestReturns, Rebind, StartRequest
  <2>2. TypeOK'
    BY <1>1, <2>1 DEF DInv, TypeOK, States, counters, network
  <2>3. XidOK' /\ LeaseOK' /\ ConfigWasGranted' /\ LeasedIsConfigured' /\ RequestsAreComplete'
    BY <1>1, <2>1 DEF DInv, XidOK, LeaseOK, ConfigWasGranted, LeasedIsConfigured,
                      RequestsAreComplete, network
  <2>4. QED BY <2>2, <2>3 DEF DInv
<1>3. CASE ~(caller = "renew" /\ MustRebind(state, rebindInSec))
  <2>1. /\ pc' = "idle" /\ UNCHANGED <<caller, state, localIp, serverIp>>
        /\ chipIp' = IF state = "LEASED" THEN localIp ELSE chipIp
    BY <1>3 DEF RequestReturns, Installed, Result
  <2>2. rc' \in {NONE, RENEW_FAIL, RENEW_OK, REBIND_FAIL, REBIND_OK}
    BY <1>3 DEF RequestReturns, Result, DInv, TypeOK, NONE, RENEW_FAIL, RENEW_OK,
                REBIND_FAIL, REBIND_OK
  <2>3. TypeOK'
    BY <1>1, <2>1, <2>2 DEF DInv, TypeOK, counters, network
  <2>4. XidOK' /\ LeaseOK' /\ ConfigWasGranted' /\ LeasedIsConfigured' /\ RequestsAreComplete'
    BY <1>1, <2>1, DhcpAssumption
       DEF DInv, XidOK, LeaseOK, ConfigWasGranted, LeasedIsConfigured, RequestsAreComplete,
           network
  <2>5. QED BY <2>3, <2>4 DEF DInv
<1>4. QED BY <1>2, <1>3

LEMMA CloseSocketInv == DInv /\ CloseSocket => DInv'
<1> SUFFICES ASSUME DInv, CloseSocket PROVE DInv'
  OBVIOUS
<1>1. RequestReturns /\ xid' = xid + 1 /\ xid <= Budget + Rounds - 1 /\ xid \in Nat
  BY TypeParts DEF CloseSocket, DInv, XidOK
<1>2. xid + 1 \in 0 .. MaxXid + Rounds + 2
  <2>1. Budget \in Nat /\ Budget <= MaxXid + 2 /\ MaxXid \in Nat /\ Rounds \in Nat
    BY BudgetType, DhcpAssumption
  <2>2. QED BY <1>1, <2>1
<1>3. QED BY <1>1, <1>2, ReturnsInv

LEMMA ReturnInv == DInv /\ Return => DInv'
BY ReturnsInv DEF Return, DInv, TypeOK

-----------------------------------------------------------------------------
(* The invariant and its theorems. *)

LEMMA InitInv == Init => DInv
BY DhcpAssumption
   DEF Init, DInv, TypeOK, States, NONE, XidOK, LeaseOK, ConfigWasGranted,
       LeasedIsConfigured, RequestsAreComplete

LEMMA NextInv == DInv /\ [Next]_vars => DInv'
<1> SUFFICES ASSUME DInv, [Next]_vars PROVE DInv'
  OBVIOUS
<1>1. CASE Begin
  BY <1>1, BeginInv
<1>2. CASE Maintain
  BY <1>2, CheckLeaseInv DEF Maintain
<1>3. CASE Client
  BY <1>3, OpenSocketInv, NoSocketInv, SendDiscoverInv, SendRerequestInv,
     ResponseTimeoutInv, CloseSocketInv, ReturnInv DEF Client
<1>4. CASE Replies
  BY <1>4, RepliesInv
<1>5. CASE Tick
  BY <1>5, TickInv
<1>6. CASE UNCHANGED vars
  <2>1. UNCHANGED <<state, xid, initialXid, localIp, serverIp, leaseTime, t1, t2,
                    renewInSec, rebindInSec, lastCheck, pc, caller, elapsed, rc, chipIp,
                    discovered, requested, granted>>
    BY <1>6 DEF vars, lease, counters, network
  <2>2. TypeOK' /\ XidOK'
    BY <2>1 DEF DInv, TypeOK, XidOK, Budget, Sending, Spent
  <2>3. LeaseOK' /\ ConfigWasGranted' /\ LeasedIsConfigured' /\ RequestsAreComplete'
    BY <2>1 DEF DInv, LeaseOK, ConfigWasGranted, LeasedIsConfigured, RequestsAreComplete
  <2>4. QED BY <2>2, <2>3 DEF DInv
<1>7. QED BY <1>1, <1>2, <1>3, <1>4, <1>5, <1>6 DEF Next

LEMMA Invariant == Spec => []DInv
<1>1. QED BY InitInv, NextInv, PTL DEF Spec

\* The fields of the DHCP object, the lease and the timers keep their types, whichever
\* replies overwrite them (parseDHCPResponse, checkLease).
THEOREM TypeCorrect == Spec => []TypeOK
<1>1. DInv => TypeOK BY DEF DInv
<1>2. QED BY <1>1, Invariant, PTL

\* The chip never gets an address that no server has acknowledged.
THEOREM OnlyGrantedInstalled == Spec => []ConfigWasGranted
<1>1. DInv => ConfigWasGranted BY DEF DInv
<1>2. QED BY <1>1, Invariant, PTL

\* Between calls the address of the lease is the one in the chip.
THEOREM LeaseInUse == Spec => []LeasedIsConfigured
<1>1. DInv => LeasedIsConfigured BY DEF DInv
<1>2. QED BY <1>1, Invariant, PTL

\* No REQUEST is sent without an address and a server.
THEOREM CompleteRequests == Spec => []RequestsAreComplete
<1>1. DInv => RequestsAreComplete BY DEF DInv
<1>2. QED BY <1>1, Invariant, PTL
=============================================================================
