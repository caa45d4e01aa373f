--------------------------- MODULE BonjourMessages ---------------------------
(***************************************************************************)
(* The multicast DNS packets of EthernetBonjour.c: what sendMDNSMessage    *)
(* writes, and what processMDNSQuery makes of a query and of a response.   *)
(*                                                                         *)
(* A packet is its header counts and its records in their order. The name  *)
(* of a record is a sequence of labels, ended by the root (ptr = 0) or by  *)
(* a compression pointer. A pointer is the place it points to: NameAt(i)   *)
(* for the name of record i, DataAt(i) and TargetAt(i) for the names in    *)
(* the data of a PTR and an SRV record. Packets are short enough for the   *)
(* single byte that the code keeps of a place. PastName(i) is a place ten  *)
(* bytes behind NameAt(i), where no name begins. Names of the program are  *)
(* dotted strings of characters.                                           *)
(***************************************************************************)
EXTENDS NamesAndAddresses

None == <<>>          \* NULL: no name, no address, no text

NameAt(i) == i
DataAt(i) == 100 + i
TargetAt(i) == 200 + i
PastName(i) == 300 + i

HeaderSize == 12      \* sizeof(DNSHeader_t), the size of the buffer for names

Record(labels, ptr, type, data) ==
  [labels |-> labels, ptr |-> ptr, type |-> type, data |-> data]
Packet(response, q, a, aa, add, records) ==
  [response |-> response, q |-> q, a |-> a, aa |-> aa, add |-> add, records |-> records]

-----------------------------------------------------------------------------
(* sendMDNSMessage. A host is its name, its address and its service records. *)

DNS_SD_SERVICE ==
  <<95, 115, 101, 114, 118, 105, 99, 101, 115>>
    \o <<Dot, 95, 100, 110, 115, 45, 115, 100>> \o udp

InstanceLabels(r) == Labels(r.name) \o Labels(postfixForProtocol(r.proto))
ServiceLabels(r) == Labels(servNameOf(r.name, r.proto))

writeMyIPAnswerRecord(host) == Record(Labels(host.name), 0, "A", host.ip)
writeServiceRecordPTR(r) ==
  Record(ServiceLabels(r), 0, "PTR", [labels |-> InstanceLabels(r), ptr |-> 0])

MyIPAnswer(host) == Packet(1, 0, 1, 0, 0, <<writeMyIPAnswerRecord(host)>>)

ServiceRecord(host, r) ==
  Packet(1, 0, 4, 0, 1,
         << Record(InstanceLabels(r), 0, "SRV",
                   [port |-> r.port, labels |-> Labels(host.name), ptr |-> 0]),
            Record(InstanceLabels(r), 0, "TXT", r.text),
            Record(Labels(DNS_SD_SERVICE), 0, "PTR", [labels |-> ServiceLabels(r), ptr |-> 0]),
            writeServiceRecordPTR(r), writeMyIPAnswerRecord(host) >>)

ServiceRecordRelease(r) == Packet(1, 0, 1, 0, 0, <<writeServiceRecordPTR(r)>>)

\* Eight bytes of the last header follow the question, which no reader looks at.
Query(name, type) == Packet(0, 1, 0, 0, 0, <<Record(Labels(name), 0, type, None)>>)
NameQuery(name) == Query(name, "A")
ServiceQuery(name) == Query(name, "PTR")

NoIPv6AddrAvailable(host) ==
  Packet(1, 1, 0, 0, 1,
         <<Record(Labels(host.name), 0, "AAAA", None), writeMyIPAnswerRecord(host)>>)

-----------------------------------------------------------------------------
(* processMDNSQuery, the query half. Entry 1 is our own name, 2 the general
   DNS-SD service, the others the service records. *)

OwnNames(host) ==
  <<host.name, DNS_SD_SERVICE>>
    \o [k \in DOMAIN host.services |->
          IF host.services[k] = None THEN None
          ELSE servNameOf(host.services[k].name, host.services[k].proto)]

\* servNamePos is set to 0 for every question, so a pointer changes nothing: it
\* ends the name, which matches when all of ours was spelled out before it.
Spelled(name, question) ==
  name # None /\ nameMatches(name, question.labels, HeaderSize)

\* Mutant of Asks: SRV and TXT questions are not answered.
AsksPTR(j, type) == (j = 1 /\ type = "A") \/ (j > 1 /\ type = "PTR")

Asks(j, type) == (j = 1 /\ type = "A") \/ (j > 1 /\ type \in {"PTR", "TXT", "SRV"})

\* recordsAskedFor and wantsIPv6Addr after the questions. What has been asked for is
\* not looked at again, so AAAA counts only before A.
readQuestions(host, questions) ==
  LET names == OwnNames(host)
      Step(st, q) ==
        LET Hit == {j \in DOMAIN names : j \notin st.asked /\ Spelled(names[j], q)}
        IN  [asked |-> st.asked \cup {j \in Hit : Asks(j, q.type)},
             six |-> st.six \/ (1 \in Hit /\ q.type = "AAAA")]
  IN  FoldLeft(Step, [asked |-> {}, six |-> FALSE], questions)

\* The packets sent in return. The general service stands for every record.
answers(host, packet) ==
  LET r == readQuestions(host, SubSeq(packet.records, 1, packet.q))
      Wanted == {k \in DOMAIN host.services :
                   host.services[k] # None /\ (k + 2 \in r.asked \/ 2 \in r.asked)}
      Send(sent, k) == IF k \in Wanted THEN Append(sent, ServiceRecord(host, host.services[k]))
                       ELSE sent
  IN  (IF 1 \in r.asked THEN <<MyIPAnswer(host)>> ELSE <<>>)
        \o FoldLeft(Send, <<>>, [k \in DOMAIN host.services |-> k])
        \o (IF r.six THEN <<NoIPv6AddrAvailable(host)>> ELSE <<>>)

-----------------------------------------------------------------------------
(* processMDNSQuery, the response half. names are the two names of
   _resolveNames: of a host, and of a service. *)

MaxServices == 6      \* MDNS_MAX_SERVICES_PER_PACKET

\* What a name leaves of the comparison with name: whether it still matches, what
\* of name is left, and whether its first piece matched.
Compared(name, labels) ==
  LET Piece(st, piece) ==
        IF st.ok = 0 THEN st
        ELSE LET m == matchStringPart(st.rest, piece)
             IN  [ok |-> m.ok, rest |-> m.rest, part |-> IF m.ok = 1 THEN 1 ELSE st.part]
      Label(st, l) == FoldLeft(Piece, st, Pieces(l, HeaderSize))
  IN  FoldLeft(Label, [ok |-> 1, rest |-> name, part |-> 0], labels)

\* Mutant of Guess: a name whose beginning matches is enough.
GuessByPart(c, rec, pos) == c.part = 1

\* Whether the name of rec passes for the one compared with it: it was spelled out;
\* or it began right and goes on with a pointer; or it still matches and its pointer
\* goes to pos, the name of the first answer, when that is known.
Guess(c, rec, pos) ==
  LET pointsThere == rec.ptr # 0 /\ (pos = 0 \/ pos = rec.ptr)
      matches == c.ok = 1 /\ (rec.ptr = 0 \/ pointsThere)
  IN  \/ matches /\ c.rest = <<>>
      \/ c.part = 1 /\ rec.ptr # 0
      \/ matches /\ pointsThere

\* Whether rec passes for an answer to the query for name. After a find, names are not
\* compared any more: each begins right.
Hits(st, name, j, rec) ==
  /\ name # None
  /\ LET c == IF j \notin st.found THEN Compared(name, rec.labels)
              ELSE [ok |-> 1, rest |-> name, part |-> IF rec.labels = <<>> THEN 0 ELSE 1]
     IN  Guess(c, rec, st.pos[j])

\* Mutant of firstNamePtr: a pointer is not followed.
firstNamePtrOwn(i, rec) == NameAt(i)

\* The place the name of record i begins at, or the one it points to.
firstNamePtr(i, rec) == IF rec.labels = <<>> THEN rec.ptr ELSE NameAt(i)

\* The name kept of a PTR record is ended behind its first label only when nothing but a
\* pointer follows, and one character short when nothing but the root does; otherwise
\* what the string holds behind it is not the name.
Found(i, rec) ==
  LET label == Head(rec.data.labels)
  IN  [name |-> IF rec.data.labels = <<label>> /\ rec.data.ptr = 0 THEN Front(label) ELSE label,
       at |-> DataAt(i), ended |-> Len(rec.data.labels) = 1, srv |-> None, txt |-> None]

\* Whether record i describes the service of a slot.
Describes(i, rec, slot) ==
  LET Step(st, piece) == IF st.ok = 0 \/ Len(st.rest) < Len(piece) THEN st
                         ELSE matchStringPart(st.rest, piece)
      pieces == FlattenSeq([k \in DOMAIN rec.labels |-> Pieces(rec.labels[k], HeaderSize)])
      c == FoldLeft(Step, [ok |-> 1, rest |-> slot.name], pieces)
  IN  \/ firstNamePtr(i, rec) = slot.at
      \/ slot.ended /\ c.ok = 1 /\ c.rest = <<>>

\* An address taken for the first name moves the place that is then kept for the second.
Answer(st, names, i, rec) ==
  LET name == IF st.address # None THEN None ELSE names[1]
      byName == rec.type = "A" /\ Hits(st, name, 1, rec)
      byService == rec.type = "PTR" /\ Hits(st, names[2], 2, rec)
  IN  [st EXCEPT
        !.pos = [j \in 1 .. 2 |-> IF @[j] # 0 THEN @[j]
                                 ELSE IF j = 2 /\ byName THEN PastName(i) ELSE NameAt(i)],
        !.found = @ \cup (IF byName THEN {1} ELSE {}) \cup (IF byService THEN {2} ELSE {}),
        !.address = IF byName THEN rec.data ELSE @,
        !.slots = IF byService /\ Len(@) < MaxServices THEN Append(@, Found(i, rec)) ELSE @]

\* SRV and TXT go to the first slot they describe, A to the next place for addresses. The
\* place of a target is the one it points to only when it is nothing but a pointer.
Additional(st, i, rec) ==
  LET Mine == {k \in DOMAIN st.slots : Describes(i, rec, st.slots[k])}
      k == Min(Mine)
      target == IF rec.data.labels = <<>> THEN rec.data.ptr ELSE TargetAt(i)
  IN  CASE rec.type = "SRV" /\ Mine # {} ->
             [st EXCEPT !.slots[k].srv = [port |-> rec.data.port, ip |-> target]]
        [] rec.type = "TXT" /\ Mine # {} ->
             [st EXCEPT !.slots[k].txt = IF @ = None /\ Len(rec.data) > 1 THEN rec.data ELSE @]
        [] rec.type = "A" /\ Len(st.ips) < MaxServices ->
             [st EXCEPT !.ips = Append(@, [key |-> firstNamePtr(i, rec), ip |-> rec.data])]
        [] OTHER -> st

\* Behind the answers the loop ends unless a service was found. Records of the
\* authority section are skipped.
readRecord(st, names, packet, i) ==
  LET rec == packet.records[i]
      answersEnd == packet.q + packet.a
  IN  IF st.over \/ i <= packet.q THEN st
      ELSE IF i <= answersEnd THEN Answer(st, names, i, rec)
      ELSE IF st.slots = <<>> THEN [st EXCEPT !.over = TRUE]
      ELSE IF i > answersEnd + packet.aa THEN Additional(st, i, rec)
      ELSE st

readRecords(names, packet) ==
  FoldLeft(LAMBDA st, i : readRecord(st, names, packet, i),
           [found |-> {}, pos |-> <<0, 0>>, address |-> None, slots |-> <<>>, ips |-> <<>>,
            over |-> FALSE],
           [i \in DOMAIN packet.records |-> i])

\* The callbacks for services. Where no SRV record was seen, port and place are what the
\* memory held: junk. A place of 0 passes for an empty entry, whose address is zeros.
Zeros == <<0, 0, 0, 0>>
deliver(slots, ips, junk) ==
  LET Key(slot) == IF slot.srv = None THEN junk.ip ELSE slot.srv.ip
      Same(slot) == {k \in DOMAIN ips : ips[k].key = Key(slot)}
      Ip(slot) == IF Same(slot) # {} THEN ips[Min(Same(slot))].ip
                  ELSE IF Key(slot) = 0 /\ Len(ips) < MaxServices THEN Zeros
                  ELSE IF ips # <<>> THEN ips[1].ip ELSE None
      Call(slot) == [name |-> IF slot.ended THEN slot.name ELSE None, ip |-> Ip(slot),
                     port |-> IF slot.srv = None THEN junk.port ELSE slot.srv.port,
                     text |-> slot.txt]
      Reported(c) == c.ip # None
  IN  SelectSeq([k \in DOMAIN slots |-> Call(slots[k])], Reported)

\* All callbacks of one response.
processResponse(names, packet, junk) ==
  LET r == readRecords(names, packet)
  IN  [address |-> r.address, services |-> deliver(r.slots, r.ips, junk)]

=============================================================================
