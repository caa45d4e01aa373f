-------------------------- MODULE NamesAndAddresses --------------------------
(***************************************************************************)
(* The pure functions of Dns.c, IPAddress.c, EthernetBonjour.c and         *)
(* EthernetUtil.c that turn names, addresses and numbers into text, wire   *)
(* format and back. A character is its ASCII code, a string a sequence of  *)
(* them without the final zero, a dotted name such a string.               *)
(***************************************************************************)
EXTENDS StreamParsing

CONSTANT IntBits     \* width of int: 32 on the target

\* What an int of IntBits bits keeps of a sum: it wraps, as on the target.
ToInt(n) ==
  LET u == n % 2^IntBits IN IF u < 2^(IntBits - 1) THEN u ELSE u - 2^IntBits

-----------------------------------------------------------------------------
(* Dotted addresses. *)

\* Whether inet_aton goes on past c in its first loop: its three conditions are
\* joined by ||, and every character satisfies one of the last two.
Accepted(c) == c = Dot \/ c >= Zero \/ c <= Zero + 9

\* Mutant of FitsByte: the limit is one too high.
FitsByteAlmost(n) == n <= 256

FitsByte(n) == n <= 255

\* DNSClient_inet_aton. bytes are those of the result that are written; a fourth
\* dot ends the loop. segmentValue is an int that a long segment overflows.
inet_aton(s) ==
  LET Step(st, c) ==
        IF st.bad \/ Len(st.bytes) = 4 THEN st
        ELSE IF c # Dot THEN [st EXCEPT !.value = ToInt(@ * 10 + c - Zero)]
        ELSE IF ~FitsByte(st.value) THEN [st EXCEPT !.bad = TRUE]
        ELSE [st EXCEPT !.bytes = Append(@, st.value % 256), !.value = 0]
      end == FoldLeft(Step, [bytes |-> <<>>, value |-> 0, bad |-> FALSE], s)
  IN  IF \/ \E k \in DOMAIN s : ~Accepted(s[k])
         \/ end.bad \/ ~FitsByte(end.value) \/ Len(end.bytes) > 3
      THEN [ok |-> 0, bytes |-> end.bytes]
      ELSE [ok |-> 1, bytes |-> Append(end.bytes, end.value % 256)]

\* IPAddress_fromString: digits and three dots, nothing else.
fromString(s) ==
  LET Step(st, c) ==
        IF st.bad THEN st
        ELSE IF IsDigit(c) THEN LET acc == st.acc * 10 + c - Zero
                                IN  [st EXCEPT !.acc = acc, !.bad = ~FitsByte(acc)]
        ELSE IF c = Dot /\ Len(st.bytes) < 3
             THEN [st EXCEPT !.bytes = Append(@, st.acc), !.acc = 0]
        ELSE [st EXCEPT !.bad = TRUE]
      end == FoldLeft(Step, [bytes |-> <<>>, acc |-> 0, bad |-> FALSE], s)
  IN  IF end.bad \/ Len(end.bytes) # 3 THEN [ok |-> 0, bytes |-> end.bytes]
      ELSE [ok |-> 1, bytes |-> Append(end.bytes, end.acc)]

\* IPAddress_toString
toString(ip) ==
  printNumber(ip[1], 10) \o <<Dot>> \o printNumber(ip[2], 10) \o <<Dot>>
    \o printNumber(ip[3], 10) \o <<Dot>> \o printNumber(ip[4], 10)

-----------------------------------------------------------------------------
(* Byte order: a word is its bytes, the least significant first, as the
   little-endian processor keeps it in memory. *)

Byte(n, k) == (n \div 256^k) % 256

\* ethutil_swaps, which htons and ntohs of both headers are.
swaps(n) == Byte(n, 0) * 256 + Byte(n, 1)

\* ethutil_swapl
swapl(n) == Byte(n, 0) * 256^3 + Byte(n, 1) * 256^2 + Byte(n, 2) * 256 + Byte(n, 3)

InMemory(n, width) == [k \in 1 .. width |-> Byte(n, k - 1)]

-----------------------------------------------------------------------------
(* Names on the wire. *)

\* The labels of a dotted name, several dots in a row counting as one.
Labels(name) ==
  LET Ended(st) == IF st.label = <<>> THEN st.labels ELSE Append(st.labels, st.label)
      Step(st, c) == IF c = Dot THEN [labels |-> Ended(st), label |-> <<>>]
                     ELSE [st EXCEPT !.label = Append(@, c)]
  IN  Ended(FoldLeft(Step, [labels |-> <<>>, label |-> <<>>], name))

\* A character goes into the buffer, which is written out when it is full.
Put(st, c, bufSize) ==
  LET b == Append(st.buf, c)
  IN  IF Len(b) = bufSize THEN [buf |-> <<>>, sent |-> Append(st.sent, b)]
      ELSE [st EXCEPT !.buf = b]

\* EthernetBonjour_writeDNSName: the writes it makes, for a name that starts with no
\* dot. A label begins a new buffer with its length.
writeDNSName(name, bufSize, zeroTerminate) ==
  LET Label(sent, l) ==
        LET Char(st, c) == Put(st, c, bufSize)
            st == FoldLeft(Char, [buf |-> <<Len(l)>>, sent |-> sent], l)
        IN  IF st.buf = <<>> THEN st.sent ELSE Append(st.sent, st.buf)
      sent == FoldLeft(Label, <<>>, Labels(name))
  IN  IF zeroTerminate THEN Append(sent, <<0>>) ELSE sent

local == <<Dot, 108, 111, 99, 97, 108>>
tcp == <<Dot, 95, 116, 99, 112>> \o local
udp == <<Dot, 95, 117, 100, 112>> \o local

\* EthernetBonjour_postfixForProtocol
postfixForProtocol(proto) == IF proto = "TCP" THEN tcp ELSE udp

\* EthernetBonjour_findFirstDotFromRight: where the text behind the last dot begins.
\* The first character is never looked at, and without a dot behind it the result
\* is the third.
findFirstDotFromRight(s) ==
  LET Dots == {k \in 2 .. Len(s) : s[k] = Dot}
  IN  IF Dots = {} THEN 3 ELSE Max(Dots) + 1

\* The servName of a record, and the name a callback gets of a query.
servNameOf(name, proto) ==
  Drop(name, findFirstDotFromRight(name) - 1) \o postfixForProtocol(proto)
bonjourNameOf(name) == name \o local
resolvedName(name) == SubSeq(name, 1, findFirstDotFromRight(name) - 2)

\* Mutant of PTRLength: the length of the postfix without the label behind it.
PTRLengthShort(name) == Len(name) + 12

\* The data lengths written into records: PTR to an instance, PTR to a service, SRV.
PTRLength(name) == Len(name) + 13
ServiceLength(servName) == Len(servName) + 2
SRVLength(bonjourName) == 8 + Len(bonjourName)

\* writeServiceRecordName of an instance: its name, then the protocol's postfix.
writeInstance(name, proto, bufSize) ==
  writeDNSName(name, bufSize, FALSE)
    \o writeDNSName(Tail(postfixForProtocol(proto)), bufSize, TRUE)

-----------------------------------------------------------------------------
(* Comparing a label that came in pieces with the rest of a name. *)

\* Mutant of matchStringPart: a piece longer than the rest is compared as far as it goes.
matchStringPartShort(rest, piece) ==
  IF ~IsPrefix(piece, rest) /\ ~IsPrefix(rest, piece) THEN [ok |-> 0, rest |-> <<>>]
  ELSE LET r == Drop(rest, Len(piece))
       IN  [ok |-> 1, rest |-> IF r # <<>> /\ Head(r) = Dot THEN Tail(r) ELSE r]

\* EthernetBonjour_matchStringPart on the rest of a name and a piece: a dot behind
\* the piece is stepped over.
matchStringPart(rest, piece) ==
  IF ~IsPrefix(piece, rest) THEN [ok |-> 0, rest |-> <<>>]
  ELSE LET r == Drop(rest, Len(piece))
       IN  [ok |-> 1, rest |-> IF r # <<>> /\ Head(r) = Dot THEN Tail(r) ELSE r]

\* A label in pieces of at most size bytes.
Pieces(l, size) ==
  [k \in 1 .. (Len(l) + size - 1) \div size |->
     SubSeq(l, (k - 1) * size + 1, Min({k * size, Len(l)}))]

\* Whether a question for labels is taken for one for name.
nameMatches(name, labels, size) ==
  LET Piece(st, piece) == IF st.ok = 0 THEN st ELSE matchStringPart(st.rest, piece)
      Label(st, l) == FoldLeft(Piece, st, Pieces(l, size))
      end == FoldLeft(Label, [ok |-> 1, rest |-> name], labels)
  IN  end.ok = 1 /\ end.rest = <<>>

=============================================================================
