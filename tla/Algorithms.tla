----------------------------- MODULE Algorithms -----------------------------
(***************************************************************************)
(* What the functions of StreamParsing, NamesAndAddresses and              *)
(* BonjourMessages are for, as properties against reference definitions. A *)
(* behaviour picks one input after the other; a property is about the      *)
(* current one.                                                            *)
(***************************************************************************)
EXTENDS BonjourMessages

CONSTANTS Streams,      \* streams to search in
          Words,        \* what is searched for
          Numbers,      \* numbers to print and read back
          Junk,         \* streams in front of a number, without digits and '-'
          Tails,        \* streams behind it, which begin with no digit
          Lines,        \* streams of lines
          Texts,        \* strings that may be addresses
          ShortLabel,   \* how long a label is that no int overflows on
          AddressBytes, \* bytes of addresses
          LabelSet,     \* labels of names
          MaxLabels,    \* how many a name has at most
          MaxAsked,     \* how many the name in a question has at most
          MaxQuestions, \* how many questions a packet has at most
          WordBytes,    \* bytes of words
          Hosts,        \* hosts with their service records, for Bonjour
          Junk8         \* what an uninitialised byte may hold

VARIABLE input

Nothing == [f |-> "nothing"]
NewLine == 10
Comma == 44
NO_IGNORE_CHAR == 1
BufSize == 12           \* sizeof(DNSHeader_t)

\* Streams of characters and timeouts. A number is neither begun by what stands before it
\* nor continued by what stands behind it. A label has no dot in it, and its length is a
\* byte that is no pointer.
ASSUME InputsAssumption ==
  /\ LongBits \in 8 .. 32
  /\ IntBits \in 10 .. 32
  /\ ShortLabel \in 2 .. 7 /\ 23 * 10^ShortLabel <= 2^(IntBits - 1)
  /\ Streams \cup Words \cup Lines \subseteq Seq(Int)
  /\ Texts \subseteq Seq(0 .. 255)
  /\ AddressBytes \subseteq 0 .. 255
  /\ Numbers \subseteq -(2^(LongBits - 1)) .. 2^(LongBits - 1) - 1
  /\ \A junk \in Junk :
       /\ junk \in Seq(Int)
       /\ \A i \in 1 .. Len(junk) : ~IsDigit(junk[i]) /\ junk[i] \notin {Minus, Timeout}
  /\ \A tail \in Tails :
       /\ tail \in Seq(Int)
       /\ tail # <<>> => ~IsDigit(Head(tail)) /\ Head(tail) # NO_IGNORE_CHAR
  /\ \A label \in LabelSet :
       /\ label \in Seq(Int) /\ Len(label) \in 1 .. 128
       /\ \A i \in 1 .. Len(label) : label[i] # Dot
  /\ MaxLabels \in Nat /\ MaxAsked \in Nat /\ MaxQuestions \in Nat
  /\ WordBytes \subseteq 0 .. 255

PickSearch == \E s \in Streams, target \in Words, terminator \in Words :
  input' = [f |-> "search", s |-> s, target |-> target, terminator |-> terminator]
PickNumber == \E n \in Numbers, junk \in Junk, tail \in Tails, comma \in 1 .. 3 :
  input' = [f |-> "number", n |-> n, junk |-> junk, tail |-> tail, comma |-> comma]
PickDecimal == \E n \in Numbers, d \in 0 .. 3, tail \in Tails, comma \in 1 .. 5 :
  input' = [f |-> "decimal", n |-> n, d |-> d, tail |-> tail, comma |-> comma]
PickLine == \E s \in Lines, length \in 1 .. 3 :
  input' = [f |-> "line", s |-> s, length |-> length]
PickText == \E s \in Texts : input' = [f |-> "text", s |-> s]
PickAddress == \E a, b, c, d \in AddressBytes :
  input' = [f |-> "address", ip |-> <<a, b, c, d>>]
PickName == \E labels \in UNION {[1 .. n -> LabelSet] : n \in 1 .. MaxLabels},
               asked \in UNION {[1 .. n -> LabelSet] : n \in 1 .. MaxAsked} :
  input' = [f |-> "name", labels |-> labels, asked |-> asked]
PickWord == \E a, b, c, d \in WordBytes : input' = [f |-> "word", bytes |-> <<a, b, c, d>>]

\* The names a host answers for. Questions for one of them or for another name, spelled
\* out, with a pointer behind all of it or in place of its last label.
AnsweredFor(h) ==
  {Labels(h.name), Labels(DNS_SD_SERVICE)}
    \cup {ServiceLabels(h.services[k]) : k \in {i \in DOMAIN h.services : h.services[i] # None}}
AskedFor(h) == AnsweredFor(h) \cup {SubSeq(Labels(h.name), 1, 1)}
Asked(h) ==
  LET Types == {"A", "AAAA", "PTR", "SRV"}
  IN  {Record(l, ptr, type, None) : l \in AskedFor(h), ptr \in {0, 1}, type \in Types}
        \cup {Record(Front(l), 1, type, None) : l \in AskedFor(h), type \in Types}
PickQuestions == \E h \in Hosts : \E qs \in BoundedSeq(Asked(h), MaxQuestions) :
  input' = [f |-> "questions", host |-> h,
            packet |-> Packet(0, Len(qs), 0, 0, 0, qs)]

\* What a host running this code says, and answers of other responders: of is the host
\* a record is about, whose name is spelled out or ends with a pointer.
Said(h) ==
  LET Services == {h.services[k] : k \in DOMAIN h.services} \ {None}
  IN  {MyIPAnswer(h), NoIPv6AddrAvailable(h)} \cup {ServiceRecord(h, r) : r \in Services}
        \cup {ServiceRecordRelease(r) : r \in Services}
PickSaid == \E asker \in Hosts, h \in Hosts : \E packet \in Said(h), junk \in Junk8 :
  input' = [f |-> "said", name |-> asker.name, by |-> h, packet |-> packet, junk |-> junk]

\* Two answers, the second with its name spelled out, ending with a pointer behind its first
\* label, or nothing but a pointer to the name of the first, whose host it is about.
AnswerPacket(first, second, types, form) ==
  LET One(h, type) == Record(Labels(h.name), 0, type, h.ip)
      Two == CASE form = "spelled" -> One(second, types[2])
               [] form = "label" -> Record(<<Labels(second.name)[1]>>, 150, types[2], second.ip)
               [] form = "pointer" -> Record(<<>>, NameAt(1), types[2], second.ip)
  IN  Packet(1, 0, 2, 0, 0, <<One(first, types[1]), Two>>)
PickAnswers == \E asker \in Hosts, first \in Hosts, second \in Hosts :
  \E types \in [1 .. 2 -> {"A", "TXT"}], form \in {"spelled", "label", "pointer"} :
    /\ form = "pointer" => second = first
    /\ input' = [f |-> "answers", name |-> asker.name, form |-> form,
                 of |-> <<first, second>>, types |-> types,
                 packet |-> AnswerPacket(first, second, types, form)]

\* A response of an ordinary responder: services, their instances by PTR answers, and
\* behind them SRV, TXT and address records in any order. Names are compressed: the
\* first place that holds a host's name is pointed to by the others; short is 1 when
\* the name is a label and a pointer there.
Parts == {<<"SRV", 1>>, <<"TXT", 1>>, <<"SRV", 2>>, <<"TXT", 2>>, <<"A", 1>>, <<"A", 2>>}
PickLayout == \E order \in SetToSeqs(Parts), sameHost \in {0, 1}, short \in {0, 1} :
  input' = [f |-> "layout", sameHost |-> sameHost, short |-> short,
            order |-> SelectSeq(order, LAMBDA x : x # <<"A", 2>> \/ sameHost = 0)]

Init == input = Nothing
Next ==
  \/ /\ input = Nothing
     /\ \/ PickSearch \/ PickNumber \/ PickDecimal \/ PickLine
        \/ PickText \/ PickAddress \/ PickName \/ PickWord
        \/ PickQuestions \/ PickSaid \/ PickAnswers \/ PickLayout
  \/ input # Nothing /\ input' = Nothing

Spec == Init /\ [][Next]_input

-----------------------------------------------------------------------------
(* References. *)

\* The characters before the first timeout.
Heard(s) == LET Gone(c) == c = Timeout IN SubSeq(s, 1, Before(s, Gone))

\* Where an occurrence of x in s ends.
EndsOf(x, s) == {n \in Len(x) .. Len(s) : SubSeq(s, n - Len(x) + 1, n) = x}

\* The number a string of digits denotes in a base.
DigitValue(c) == IF IsDigit(c) THEN c - Zero ELSE c - 65 + 10
Denotes(s, base) == FoldLeft(LAMBDA v, c : v * base + DigitValue(c), 0, s)

\* s with a comma behind its k-th character.
WithComma(s, k) == IF k >= Len(s) THEN s ELSE InsertAt(s, k + 1, Comma)

Fields(s) ==
  LET Step(fs, c) == IF c = Dot THEN Append(fs, <<>>)
                     ELSE [fs EXCEPT ![Len(fs)] = Append(@, c)]
  IN  FoldLeft(Step, << <<>> >>, s)
IsAddress(s) ==
  /\ Len(Fields(s)) = 4
  /\ \A k \in 1 .. 4 : /\ \A i \in DOMAIN Fields(s)[k] : IsDigit(Fields(s)[k][i])
                       /\ Denotes(Fields(s)[k], 10) < 256

IsLetter(c) == c \in 97 .. 122
Joined(labels) ==
  FoldLeft(LAMBDA s, l : IF s = <<>> THEN l ELSE s \o <<Dot>> \o l, <<>>, labels)
Wire(labels) == FlattenSeq([k \in DOMAIN labels |-> <<Len(labels[k])>> \o labels[k]])

\* Names with one dot between their labels.
IsDotted(name) ==
  /\ name \in Seq(Int) /\ name = Joined(Labels(name)) /\ Labels(name) # <<>>
  /\ \A k \in DOMAIN Labels(name) :
       /\ Labels(name)[k] \in Seq(Int) /\ Labels(name)[k] # <<>>
       /\ \A i \in DOMAIN Labels(name)[k] : Labels(name)[k][i] # Dot

\* Hosts have an address, and a name that differs from that of any other host in more
\* than its dots.
ASSUME HostsAssumption ==
  /\ \A h \in Hosts : h.ip # None /\ IsDotted(h.name)
  /\ \A g, h \in Hosts :
       FlattenSeq(Labels(g.name)) = FlattenSeq(Labels(h.name)) => g.name = h.name

\* A service has an instance and a type in its name, and is registered once. What a host
\* answers for differs in more than its dots from what else it is asked for, and from
\* all of it without the last label.
ASSUME ServicesAssumption ==
  \A h \in Hosts :
    LET Used == {k \in DOMAIN h.services : h.services[k] # None}
        Same(r, s) == r.name = s.name /\ r.port = s.port /\ r.proto = s.proto
    IN  /\ h.services \in Seq({h.services[k] : k \in DOMAIN h.services})
        /\ \A k \in Used : LET r == h.services[k] IN
             r.proto \in {"TCP", "UDP"} /\ IsDotted(r.name) /\ Len(Labels(r.name)) > 1
        /\ \A j, k \in Used : Same(h.services[j], h.services[k]) => j = k
        /\ \A l \in AskedFor(h), m \in AnsweredFor(h) :
             /\ FlattenSeq(l) = FlattenSeq(m) => l = m
             /\ FlattenSeq(Front(l)) # FlattenSeq(m)

-----------------------------------------------------------------------------
(* Properties. *)

(* findUntil and findMulti: the stream is read up to the end of the earliest
   occurrence of target or terminator, whichever ends first, also when an
   occurrence begins inside a failed match; without one, up to the timeout. find
   does the same where no terminator comes into it. *)
FindsFirst == input.f = "search" =>
  LET s == input.s
      heard == Heard(s)
      hits == EndsOf(input.target, heard)
      both == hits \cup EndsOf(input.terminator, heard)
      r == findUntil(s, input.target, input.terminator)
  IN  /\ input.terminator # <<>> /\ hits = both => find(s, input.target) = r
      /\ IF input.target = <<>> THEN r = [value |-> 1, rest |-> s]
         ELSE IF input.terminator = <<>> THEN r = [value |-> 0, rest |-> s]
         ELSE IF both = {} THEN r = [value |-> 0, rest |-> Drop(s, Len(heard) + 1)]
         ELSE r = [value |-> IF Min(both) \in hits THEN 1 ELSE 0,
                   rest |-> Drop(s, Min(both))]

(* What print_long writes denotes its argument and is read back by parseInt, whatever
   non-numeric characters stand before it, with digit grouping that is ignored,
   and the stream stands at what follows it; any other base denotes the same
   bits. The extreme number of a long is among them. *)
NumbersReadBack == input.f = "number" =>
  LET text == print_long(input.n, 10)
      after == timedPeek(input.tail).rest
      r == parseInt(input.junk \o text \o input.tail, "SKIP_ALL", NO_IGNORE_CHAR)
      g == parseInt(input.junk \o WithComma(text, input.comma) \o input.tail, "SKIP_ALL", Comma)
      w == parseInt(input.junk \o text \o input.tail, "SKIP_WHITESPACE", NO_IGNORE_CHAR)
  IN  /\ IF input.n < 0 THEN Head(text) = Minus /\ Denotes(Tail(text), 10) = -input.n
         ELSE Denotes(text, 10) = input.n
      /\ r = [value |-> input.n, rest |-> after]
      /\ (input.tail = <<>> \/ Head(input.tail) # Comma)
           => g = [value |-> input.n, rest |-> after]
      /\ IF \A k \in DOMAIN input.junk : IsSpace(input.junk[k]) THEN w = r
         ELSE w.value = 0 /\ IsSuffix(text \o input.tail, w.rest)
      /\ \A base \in {2, 8, 16} : LET s == print_long(input.n, base) IN
           Denotes(s, base) = Unsigned(input.n) /\ Len(s) <= LongBits

(* parseFloat reads sign, digits and the power of ten its fraction makes, with
   and without grouping, up to a second point. *)
DecimalsReadBack == input.f = "decimal" =>
  LET text == print_long(input.n, 10)
      frac == [k \in 1 .. input.d |-> Zero + 2 * k]
      number == text \o <<Dot>> \o frac
      r == parseFloat(number \o input.tail, "SKIP_NONE", NO_IGNORE_CHAR)
      g == parseFloat(WithComma(number, input.comma) \o input.tail, "SKIP_NONE", Comma)
  IN  /\ r.number = Wrap(input.n * 10^input.d + (IF input.n < 0 THEN -1 ELSE 1) * Denotes(frac, 10))
      /\ r.decimals = input.d
      /\ r.rest = timedPeek(input.tail).rest
      /\ (input.tail = <<>> \/ Head(input.tail) # Comma) => g = r

(* readBytes and readBytesUntil lose no character: what they return is what the
   stream brought, the rest begins right behind it or behind the terminator, and
   a full buffer leaves the terminator in the stream. *)
LinesReadBack == input.f = "line" =>
  LET s == input.s
      Exact(r, terminators) ==
        LET n == Len(r.value)
            taken == Len(s) - Len(r.rest)
        IN  /\ r.value = SubSeq(s, 1, n) /\ r.rest = Drop(s, taken)
            /\ \A k \in 1 .. n : s[k] \notin terminators
            /\ \/ taken = n /\ (n = input.length \/ n = Len(s))
               \/ taken = n + 1 /\ n < input.length /\ s[taken] \in terminators
  IN  /\ Exact(readBytes(s, input.length), {Timeout})
      /\ Exact(readBytesUntil(s, NewLine, input.length), {Timeout, NewLine})

(* An address that was printed is read back by both parsers. fromString takes
   exactly the dotted addresses, and inet_aton gives the same for them; although
   its digit test lets every character pass, it takes no name for an address whose
   last label begins with two letters and is too short to overflow an int. *)
AddressesReadBack ==
  /\ input.f = "address" =>
       /\ fromString(toString(input.ip)) = [ok |-> 1, bytes |-> input.ip]
       /\ inet_aton(toString(input.ip)) = [ok |-> 1, bytes |-> input.ip]
  /\ input.f = "text" =>
       LET s == input.s
           top == Last(Fields(s))
       IN  /\ fromString(s).ok = 1 <=> IsAddress(s)
           /\ IsAddress(s) => inet_aton(s) = fromString(s)
           /\ (Len(top) \in 2 .. ShortLabel /\ IsLetter(top[1]) /\ IsLetter(top[2]))
                => inet_aton(s).ok = 0

(* writeDNSName puts a dotted name on the wire as its labels, in writes of one
   buffer at most wherever a label crosses its end; the data lengths of the
   records, computed from string lengths, are those of the names that follow; and
   lengths and lifetimes lie in the packet with their most significant byte first. *)
NamesOnTheWire ==
  /\ input.f = "word" =>
       LET b == input.bytes IN
       /\ InMemory(swaps(b[1] * 256 + b[2]), 2) = <<b[1], b[2]>>
       /\ InMemory(swapl(((b[1] * 256 + b[2]) * 256 + b[3]) * 256 + b[4]), 4) = b
  /\ input.f = "name" =>
       LET name == Joined(input.labels)
           writes == writeDNSName(name, BufSize, TRUE)
           serv == servNameOf(name, "TCP")
           own == bonjourNameOf(name)
           Bytes(ws) == FlattenSeq(ws)
       IN  /\ Bytes(writes) = Wire(input.labels) \o <<0>>
           /\ \A k \in DOMAIN writes : Len(writes[k]) \in 1 .. BufSize
           /\ \A proto \in {"TCP", "UDP"} :
                Len(Bytes(writeInstance(name, proto, BufSize))) = PTRLength(name)
           /\ Len(input.labels) > 1 =>
                /\ Labels(serv) = <<Last(input.labels)>> \o Labels(tcp)
                /\ Len(Bytes(writeDNSName(serv, BufSize, TRUE))) = ServiceLength(serv)
           /\ Len(Bytes(writeDNSName(own, BufSize, TRUE))) + 6 = SRVLength(own)
           /\ resolvedName(own) = name

(* A question for a name is recognised however its labels fall into pieces, and a
   question that is taken for a name differs from it in dots at most. *)
QuestionsMatch == input.f = "name" =>
  LET name == Joined(input.labels) IN
  /\ nameMatches(name, input.labels, BufSize)
  /\ nameMatches(name, input.asked, BufSize)
       => FlattenSeq(input.asked) = FlattenSeq(input.labels)

(* A question spelled out for our name, or for a service we have, gets its answer,
   each once, and nothing else does; a question for the general service gets all
   services. A pointer counts for nothing: behind all of a name it does not keep the
   name from being recognised, in place of its last label it does. That there is no
   IPv6 address is said only if it is asked for, and whenever no question of the
   packet has asked for the other one before. The queries this code sends are among
   those it answers. *)
AnswersWhatIsAsked == input.f = "questions" =>
  LET h == input.host
      qs == input.packet.records
      For(i, labels, types) == qs[i].labels = labels /\ qs[i].type \in types
      Asks4 == {i \in DOMAIN qs : For(i, Labels(h.name), {"A"})}
      Asks6 == {i \in DOMAIN qs : For(i, Labels(h.name), {"AAAA"})}
      Wanted == {k \in DOMAIN h.services :
                   /\ h.services[k] # None
                   /\ \E i \in DOMAIN qs, l \in {Labels(DNS_SD_SERVICE),
                                                ServiceLabels(h.services[k])} :
                        For(i, l, {"PTR", "SRV"})}
      sent == answers(h, input.packet)
      none == NoIPv6AddrAvailable(h)
  IN  /\ answers(h, NameQuery(h.name)) = <<MyIPAnswer(h)>>
      /\ \A k \in DOMAIN h.services : h.services[k] # None =>
           LET r == h.services[k] IN
           Contains(answers(h, ServiceQuery(servNameOf(r.name, r.proto))), ServiceRecord(h, r))
      /\ IsInjective(sent)
      /\ Range(sent) \ {none} = (IF Asks4 = {} THEN {} ELSE {MyIPAnswer(h)})
           \cup {ServiceRecord(h, h.services[k]) : k \in Wanted}
      /\ none \in Range(sent) => Asks6 # {}
      /\ (\E i \in Asks6 : \A k \in Asks4 : i < k) => none \in Range(sent)

(* The callback for a name gets the address of the first answer that passes for one
   about the host: with its name spelled out, only one about that host; with a pointer,
   also one about another host, namely if its first piece begins the name asked for, or
   if it is nothing but a pointer to the name of the first answer. No other address is
   ever reported. A host running this code is found by its answer to the query, and
   only by that. *)
AddressBelongs ==
  /\ input.f = "said" =>
       LET r == processResponse(<<input.name, None>>, input.packet, input.junk) IN
       r.address = IF input.by.name = input.name /\ input.packet = MyIPAnswer(input.by)
                   THEN input.by.ip ELSE None
  /\ input.f = "answers" =>
       LET Begins(label) == IsPrefix(Pieces(label, BufSize)[1], input.name)
           Passes(k) == CASE k = 1 \/ input.form = "spelled" -> input.of[k].name = input.name
                          [] k = 2 /\ input.form = "label" -> Begins(Labels(input.of[2].name)[1])
                          [] k = 2 /\ input.form = "pointer" -> TRUE
           Passing == {k \in 1 .. 2 : input.types[k] = "A" /\ Passes(k)}
           r == processResponse(<<input.name, None>>, input.packet, [ip |-> 0, port |-> 0])
       IN  r.address = IF Passing = {} THEN None ELSE input.of[Min(Passing)].ip

(* The packet a layout stands for, and the callbacks it should lead to. *)
TwoServices ==
  << [label |-> <<97>>, port |-> 80, text |-> <<7, 8>>], [label |-> <<98>>, port |-> 81, text |-> <<9, 9>>] >>
Ips == << <<10, 0, 0, 1>>, <<10, 0, 0, 2>> >>
HostOf(k) == IF input.sameHost = 1 THEN 1 ELSE k
LayoutPacket ==
  LET service == Tail(tcp)
      Place(x) == CHOOSE i \in DOMAIN input.order : input.order[i] = x
      \* The record that spells out the name of host n.
      Speller(n) == Min({i \in DOMAIN input.order :
                           \/ input.order[i] = <<"A", n>>
                           \/ \E k \in 1 .. 2 : input.order[i] = <<"SRV", k>> /\ HostOf(k) = n})
      Spelled4(n) == IF input.order[Speller(n)][1] = "A" THEN NameAt(2 + Speller(n))
                     ELSE TargetAt(2 + Speller(n))
      Target(i, n) == IF Speller(n) # i THEN [labels |-> <<>>, ptr |-> Spelled4(n)]
                      ELSE IF input.short = 1 THEN [labels |-> <<<<104>>>>, ptr |-> 150]
                      ELSE [labels |-> <<<<104>>, <<108>>>>, ptr |-> 0]
      Part(i) ==
        LET k == input.order[i][2]
        IN  CASE input.order[i][1] = "SRV" ->
                   Record(<<>>, DataAt(k), "SRV",
                          [port |-> TwoServices[k].port, labels |-> Target(i, HostOf(k)).labels,
                           ptr |-> Target(i, HostOf(k)).ptr])
              [] input.order[i][1] = "TXT" -> Record(<<>>, DataAt(k), "TXT", TwoServices[k].text)
              [] input.order[i][1] = "A" ->
                   Record(Target(i, k).labels, Target(i, k).ptr, "A", Ips[k])
      PTR(k) == Record(IF k = 1 THEN Labels(service) ELSE <<>>, IF k = 1 THEN 0 ELSE NameAt(1),
                       "PTR", [labels |-> <<TwoServices[k].label>>, ptr |-> NameAt(1)])
  IN  Packet(1, 0, 2, 0, Len(input.order),
             <<PTR(1), PTR(2)>> \o [i \in DOMAIN input.order |-> Part(i)])

(* The service callback gets every instance that an ordinary responder describes
   with its own port, address and text, in whatever order the additional records
   come, on one host or on two. *)
FoundServicesAreWhole == input.f = "layout" =>
  processResponse(<<None, Tail(tcp)>>, LayoutPacket, [ip |-> 0, port |-> 0]).services =
    [k \in 1 .. 2 |-> [name |-> TwoServices[k].label, ip |-> Ips[HostOf(k)],
                      port |-> TwoServices[k].port, text |-> TwoServices[k].text]]

(* EthernetBonjour.c:822-826: several devices running this code should find each
   other's services. *)
ServicesFound ==
  (input.f = "said" /\ input.packet.a = 4) =>
    \A k \in DOMAIN input.by.services :
      LET r == input.by.services[k] IN
      (r # None /\ input.packet = ServiceRecord(input.by, r)) =>
        processResponse(<<None, servNameOf(r.name, r.proto)>>, input.packet, input.junk).services =
          << [name |-> Labels(r.name)[1], ip |-> input.by.ip, port |-> r.port, text |-> r.text] >>
=============================================================================
