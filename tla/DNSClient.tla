----------------------------- MODULE DNSClient -----------------------------
(***************************************************************************)
(* Dns.c: DNSClient_getHostByName for names that are not numeric, as the   *)
(* callers use it (DNSClient_begin before each lookup), over a UDP object  *)
(* that behaves as DatagramService promises.                               *)
(*                                                                         *)
(* A datagram is a sequence of cells, one for each read of the code that   *)
(* moves on: the identification, the flags, the two counts; then names of  *)
(* labels (a length of 1, and the label), ended by 0 or by a pointer;      *)
(* type with class, time to live, length and data of a record.             *)
(* Servers may answer a question late, twice or never, and the message may *)
(* be cut off anywhere behind its header: the reads then get nothing, and  *)
(* the code, which does not look at their results, goes on with what its   *)
(* variables hold.                                                         *)
(***************************************************************************)
EXTENDS Integers, Sequences, FiniteSets

CONSTANTS Names,       \* host names, as numbers
          Ids,         \* identifications: the clock's low 16 bits
          Ports,       \* the local ports begin is called with: 1024 + (millis() & 0xF)
          iDNSServer, Stranger,
          Timeout,     \* bound: polls of one wait, aTimeout / 50
          MaxInbox,    \* bound: datagrams that wait
          Lost,        \* bound: how many cells may be missing at the end of an answer
          Stale        \* bound: questions that outlive their lookup

ASSUME DnsAssumption ==
  /\ Names \subseteq Nat \ {0} /\ Ids \subseteq Nat /\ Ports \subseteq Nat \ {0}
  /\ iDNSServer # Stranger
  /\ Timeout \in Nat /\ MaxInbox \in Nat /\ Stale \in Nat

VARIABLES inbox, current, remote, packet, result,   \* the UDP object iUdp
          port,         \* its local port; 0: stopped
          iRequestId,
          pc, aHostname, aAddress, ret,
          wait_retries, elapsed,   \* elapsed: polls since startTime
          questions, answers,      \* of the header, counted down
          asked,        \* the questions that servers may answer
          cut           \* 1: the message that was taken is cut off (history)

udp == <<inbox, current, remote, packet, result>>
counts == <<questions, answers>>
lookup == <<port, iRequestId, aHostname, asked>>
vars == <<udp, lookup, pc, aAddress, ret, wait_retries, elapsed, counts, cut>>

-----------------------------------------------------------------------------
(* Messages. *)

HEADER == 4
OK == 0                 \* RESPONSE_FLAG alone
ERROR == 1              \* a response with TRUNCATION_FLAG or a code
QUERY == 2              \* not a response
POINTER == 192          \* LABEL_COMPRESSION_MASK
ADDRESS == 1            \* TYPE_A of CLASS_IN
ALIAS == 5              \* any other record
Address(n) == 10 + n

Query(id, n) == <<id, n>>

Question(n) == <<1, n, 0, ADDRESS>>
Record(owner, type, data) == owner \o <<type, 0, Len(data)>> \o data
Pointer == <<POINTER, HEADER>>
Label(n) == <<1, n, 0>>

\* What servers answer to a question, well-formed.
Sections(n) ==
  { <<1>> \o Question(n) \o Record(Pointer, ADDRESS, <<Address(n)>>),
    <<2>> \o Question(n) \o Record(Pointer, ALIAS, <<1, 99>>)
                         \o Record(Label(99), ADDRESS, <<Address(n)>>),
    <<1>> \o Question(n) \o Record(Pointer, ALIAS, <<1, 99>>),
    <<1>> \o Question(n) \o Record(Pointer, ADDRESS, <<Address(n), 0>>),
    <<0>> \o Question(n) }

Answers(id, n) ==
  {<<id, OK, 1>> \o s : s \in Sections(n)} \cup {<<id, ERROR, 1, 0>> \o Question(n)}

\* The same, with cells missing at the end.
Cuts(id, n) ==
  UNION {{SubSeq(d, 1, k) : k \in {i \in HEADER .. Len(d) - 1 : Len(d) - i \in Lost}} :
         d \in Answers(id, n)}

CutOff == UNION {Cuts(id, n) : id \in Ids, n \in Names}

\* Something else that comes to the port: a fragment, or a message of another
\* protocol with the same layout.
Noise == {<<0>>} \cup {<<id, QUERY, 0, 0>> : id \in Ids}

Datagrams == {Query(id, n) : id \in Ids, n \in Names} \cup Noise \cup CutOff
             \cup UNION {Answers(id, n) : id \in Ids, n \in Names}

Peers == {iDNSServer, Stranger}

\* A query, which has two cells here, is far shorter than a socket's buffer.
UDP == INSTANCE DatagramService WITH Bytes <- Nat, TxSize <- 2

-----------------------------------------------------------------------------
(* Result codes. ProcessResponse returns them as uint16_t. *)

SUCCESS == 1
TIMED_OUT == -1
INVALID_SERVER == -2
TRUNCATED == -3
INVALID_RESPONSE == -4
uint16(code) == code % 65536

Codes == {0, SUCCESS, INVALID_SERVER, TIMED_OUT}
         \cup {uint16(c) : c \in {-1, -2, -3, -4, -5, -6, -9, -10}}

TypeOK ==
  /\ inbox \in Seq([from : Peers, data : Datagrams]) /\ Len(inbox) <= MaxInbox
  /\ remote \in Peers /\ packet \in {<<>>} \cup Datagrams
  /\ Len(current) <= 30
  /\ port \in Ports \cup {0} /\ iRequestId \in Ids \cup {0}
  /\ pc \in {"idle", "begin", "build", "commit", "end", "wait", "source", "header",
             "q_name", "q_label", "q_more", "q_type", "a_name", "a_label", "a_more",
             "a_pointer", "a_type", "a_data", "a_size", "none", "stop"}
  /\ aHostname \in Names /\ aAddress \in {0} \cup {Address(n) : n \in Names}
  /\ ret \in Codes
  /\ wait_retries \in 0 .. 3 /\ elapsed \in 0 .. Timeout + 1
  /\ questions \in 0 .. 1 /\ answers \in 0 .. 2 /\ cut \in {0, 1}
  /\ asked \subseteq [id : Ids, port : Ports, name : Names]

Init ==
  /\ UDP!Init
  /\ port = 0 /\ iRequestId = 0 /\ pc = "idle"
  /\ aHostname \in Names /\ aAddress = 0 /\ ret = 0
  /\ wait_retries = 0 /\ elapsed = 0 /\ questions = 0 /\ answers = 0
  /\ asked = {} /\ cut = 0

\* A read of n cells, of which there may be fewer or none.
ReadBuf(n) == /\ UDP!Read
              /\ result'.n = CASE current = <<>> -> -1
                             [] Len(current) \in 1 .. n - 1 -> Len(current)
                             [] OTHER -> n

\* What the variable holds that cell i is read into: the cell, or else what was in it.
Cell(i, before) == IF i <= Len(current) THEN {current[i]} ELSE before

Goto(label) == pc' = label

-----------------------------------------------------------------------------
(* DNSClient_begin and DNSClient_getHostByName, up to the wait. *)

\* Most of the earlier questions can no longer be answered.
Forget == asked' \in {q \in SUBSET asked : Cardinality(q) <= Stale}

Lookup ==
  /\ pc = "idle" /\ iRequestId' = 0 /\ aHostname' \in Names
  /\ wait_retries' = 0 /\ elapsed' = 0 /\ aAddress' = 0 /\ cut' = 0
  /\ Forget
  /\ \/ Goto("begin") /\ ret' = 0 /\ UDP!Reset /\ port' \in Ports
     \/ \* no name server, or no socket
        pc' = "idle" /\ ret' \in {INVALID_SERVER, 0} /\ UNCHANGED <<udp, port>>
  /\ UNCHANGED counts

BeginPacket ==
  /\ pc = "begin" /\ UDP!BeginPacket
  /\ Goto(IF result'.n = 0 THEN "stop" ELSE "build") /\ ret' = result'.n
  /\ UNCHANGED <<lookup, aAddress, wait_retries, elapsed, counts, cut>>

\* BuildRequest. The answers that are still on their way have other numbers: the
\* clock comes back to one after 65 seconds.
BuildRequest ==
  /\ pc = "build" /\ iRequestId' \in Ids \ {q.id : q \in asked}
  /\ UDP!Write /\ packet' = Query(iRequestId', aHostname)
  /\ Goto("commit") /\ ret' = 1
  /\ UNCHANGED <<port, aHostname, asked, aAddress, wait_retries, elapsed, counts, cut>>

Commit ==
  /\ pc = "commit" /\ UDP!Commit /\ Goto("end")
  /\ UNCHANGED <<lookup, aAddress, ret, wait_retries, elapsed, counts, cut>>

EndPacket ==
  /\ pc = "end" /\ UDP!EndPacket
  /\ IF result'.n = 0
     THEN Goto("stop") /\ ret' = 0 /\ UNCHANGED asked
     ELSE /\ Goto("wait") /\ ret' = TIMED_OUT
          /\ asked' = asked \cup {[id |-> iRequestId, port |-> port, name |-> aHostname]}
  /\ UNCHANGED <<port, iRequestId, aHostname, aAddress, wait_retries, elapsed, counts, cut>>

-----------------------------------------------------------------------------
(* DNSClient_ProcessResponse. *)

\* ProcessResponse returns; the loop around it goes on after a time-out only.
Processed(code) ==
  /\ ret' = uint16(code) /\ wait_retries' = wait_retries + 1 /\ elapsed' = 0
  /\ Goto(IF wait_retries' < 3 /\ ret' = TIMED_OUT THEN "wait" ELSE "stop")

Continue(label) == Goto(label) /\ UNCHANGED <<ret, wait_retries, elapsed>>

Taken == cut' = IF inbox # <<>> /\ Head(inbox).data \in CutOff THEN 1 ELSE 0

\* Mutant of Poll: time never runs out.
PollForever ==
  /\ pc = "wait" /\ UDP!ParsePacket /\ Taken
  /\ IF result'.n > 0 THEN Continue("source") ELSE Continue("wait")
  /\ UNCHANGED <<lookup, aAddress, counts>>

\* parsePacket has nothing to flush here: no byte has been read since begin.
Poll ==
  /\ pc = "wait" /\ UDP!ParsePacket /\ Taken
  /\ IF result'.n > 0 THEN Continue("source")
     ELSE IF elapsed > Timeout THEN Processed(TIMED_OUT)
     ELSE elapsed' = elapsed + 1 /\ UNCHANGED <<pc, ret, wait_retries>>
  /\ UNCHANGED <<lookup, aAddress, counts>>

\* The sender is checked, and that there is a header.
Source ==
  /\ pc = "source" /\ UDP!Available
  /\ IF remote # iDNSServer THEN Processed(INVALID_SERVER)
     ELSE IF result'.n < HEADER THEN Processed(TRUNCATED)
     ELSE Continue("header")
  /\ UNCHANGED <<lookup, aAddress, counts, cut>>

\* Mutant of Wrong: the identification is not compared.
WrongFlagsOnly(h) ==
  IF h[2] = QUERY THEN INVALID_RESPONSE
  ELSE IF h[2] = ERROR THEN -5 ELSE IF h[4] = 0 THEN -6 ELSE 0

\* What is wrong with a header, 0 if nothing is.
Wrong(h) ==
  IF h[1] # iRequestId \/ h[2] = QUERY THEN INVALID_RESPONSE
  ELSE IF h[2] = ERROR THEN -5 ELSE IF h[4] = 0 THEN -6 ELSE 0

\* Mutant of Counts: the two counts are taken the other way round.
CountsSwapped(h) == questions' = h[4] /\ answers' = h[3]

Counts(h) == questions' = h[3] /\ answers' = h[4]

\* The header is read; if it is not good the rest of the packet is flushed.
Header ==
  /\ pc = "header"
  /\ IF Wrong(current) # 0
     THEN UDP!Flush /\ Processed(Wrong(current)) /\ UNCHANGED counts
     ELSE /\ ReadBuf(HEADER) /\ Continue("q_name")
          /\ Counts(result'.data)
  /\ UNCHANGED <<lookup, aAddress, cut>>

\* Names of questions are not compressed. The length of the first label is read into a
\* new variable, the next ones into the 255 that while(len--) has left in it.
SkipQuestion ==
  /\ \/ /\ pc \in {"q_name", "q_more"} /\ questions > 0 /\ ReadBuf(1)
        /\ \E len \in Cell(1, IF pc = "q_name" THEN {0, 1} ELSE {255}) :
             Continue(IF len = 0 THEN "q_type" ELSE "q_label")
        /\ UNCHANGED counts
     \/ pc = "q_label" /\ ReadBuf(1) /\ Continue("q_more") /\ UNCHANGED counts
     \/ /\ pc = "q_type" /\ ReadBuf(1) /\ Continue("q_name")
        /\ questions' = questions - 1 /\ UNCHANGED answers
     \/ pc = "q_name" /\ questions = 0 /\ Continue("a_name") /\ UNCHANGED <<udp, counts>>
  /\ UNCHANGED <<lookup, aAddress, cut>>

\* Names of answers may end in a pointer, for which 255 is taken too.
SkipName ==
  /\ \/ /\ pc \in {"a_name", "a_more"} /\ answers > 0 /\ ReadBuf(1)
        /\ \E len \in Cell(1, IF pc = "a_name" THEN {0, 1, POINTER} ELSE {255}) :
             Continue(CASE len >= POINTER -> "a_pointer" [] len = 0 -> "a_type"
                        [] OTHER -> "a_label")
     \/ pc = "a_label" /\ ReadBuf(1) /\ Continue("a_more")
     \/ pc = "a_pointer" /\ ReadBuf(1) /\ Continue("a_type")
     \/ pc = "a_name" /\ answers = 0 /\ Continue("none") /\ UNCHANGED udp
  /\ UNCHANGED <<lookup, aAddress, counts, cut>>

\* Type and class, time to live and length; the data of other records is skipped.
\* An address has four bytes, one cell here. The type is read into a new variable,
\* the length into one that holds the flags.
ReadRecord ==
  /\ pc = "a_type"
  /\ \E type \in Cell(1, {ADDRESS, ALIAS}), length \in Cell(3, 0 .. 2) :
       /\ ReadBuf(IF type = ADDRESS THEN 3 ELSE 3 + length)
       /\ Continue(CASE type # ADDRESS -> "a_name" [] length = 1 -> "a_data"
                     [] OTHER -> "a_size")
  /\ answers' = answers - 1
  /\ UNCHANGED <<lookup, aAddress, questions, cut>>

\* An address is believed, and what there is of it is stored. 0 stands for what
\* the program had in aAddress, as long as an address is not there as a whole.
ReadAddress ==
  /\ pc = "a_data" /\ ReadBuf(1) /\ aAddress' \in Cell(1, {aAddress}) /\ Processed(SUCCESS)
  /\ UNCHANGED <<lookup, counts, cut>>

WrongSize ==
  /\ pc = "a_size" /\ UDP!Flush /\ Processed(-9)
  /\ UNCHANGED <<lookup, aAddress, counts, cut>>

NoAnswer ==
  /\ pc = "none" /\ UDP!Flush /\ Processed(-10)
  /\ UNCHANGED <<lookup, aAddress, counts, cut>>

\* The socket is given back, and getHostByName returns ret. Its variables are gone.
Stop ==
  /\ pc = "stop" /\ UDP!Reset /\ port' = 0 /\ Goto("idle")
  /\ questions' = 0 /\ answers' = 0 /\ wait_retries' = 0
  /\ UNCHANGED <<iRequestId, aHostname, asked, aAddress, ret, elapsed, cut>>

Thread == \/ BeginPacket \/ BuildRequest \/ Commit \/ EndPacket \/ Poll \/ Source
          \/ Header \/ SkipQuestion \/ SkipName \/ ReadRecord \/ ReadAddress
          \/ WrongSize \/ NoAnswer \/ Stop

\* Answers of the name server to what was asked from this port, now or earlier, whole
\* or cut off, and other datagrams.
Arriving ==
  {[from |-> iDNSServer, data |-> d] :
     d \in UNION {Answers(q.id, q.name) \cup Cuts(q.id, q.name) :
                  q \in {a \in asked : a.port = port}}}
  \cup {[from |-> p, data |-> d] : p \in Peers, d \in Noise}

Arrive ==
  /\ port # 0 /\ Len(inbox) < MaxInbox
  /\ UDP!Arrive /\ inbox'[Len(inbox')] \in Arriving
  /\ UNCHANGED <<lookup, pc, aAddress, ret, wait_retries, elapsed, counts, cut>>

Next == Lookup \/ Thread \/ Arrive

Spec == Init /\ [][Next]_vars

\* A lookup that has begun goes on. No datagram is promised.
FairSpec == Spec /\ WF_vars(Thread)

-----------------------------------------------------------------------------
(* Properties. *)

\* A lookup that succeeds has the address of the very name it was called with, and
\* not that of an earlier question whose answer comes late to the same port, nor
\* something out of an alias record. With a message that is cut off it may have
\* none, but never a wrong one.
AnswerBelongs ==
  pc = "idle" /\ ret = SUCCESS =>
    aAddress = Address(aHostname) \/ (cut = 1 /\ aAddress = 0)

\* The loop of Dns.c:329-341 with nothing left to read: len is 255 each time.
Stuck == pc \in {"q_label", "q_more"} /\ current = <<>>

\* getHostByName returns, whatever comes or does not come, unless the message ends
\* within the name of its question.
LookupEnds == pc # "idle" ~> (pc = "idle" \/ Stuck)
=============================================================================
