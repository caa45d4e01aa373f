---------------------------- MODULE StreamParsing ----------------------------
(***************************************************************************)
(* The reading functions of EthernetClient.c over one connection, and the  *)
(* printing of integers of Printfg.c, which they read back.                *)
(*                                                                         *)
(* A character is its ASCII code. A stream is what the connection still    *)
(* brings: characters, and Timeout where none comes for _timeout           *)
(* milliseconds; after its last element nothing comes any more. A function *)
(* of the code yields its value and the rest of the stream.                *)
(***************************************************************************)
EXTENDS Integers, Sequences, FiniteSets, SequencesExt

CONSTANT LongBits    \* width of long: 32 on the target

Timeout == -1

Space == 32
Minus == 45
Dot   == 46
Zero  == 48

IsDigit(c) == c \in Zero .. Zero + 9
IsSpace(c) == c \in {Space, 9, 13, 10}

Result(value, rest) == [value |-> value, rest |-> rest]
Drop(s, n) == SubSeq(s, n + 1, Len(s))

\* A long keeps LongBits bits.
Unsigned(n) == n % 2^LongBits
Wrap(n) == LET u == Unsigned(n) IN IF u < 2^(LongBits - 1) THEN u ELSE u - 2^LongBits

-----------------------------------------------------------------------------
(* Looking at a character, or a timeout. *)

\* Waiting for a character that does not come uses the timeout up.
timedPeek(s) ==
  IF s = <<>> THEN Result(Timeout, s)
  ELSE Result(Head(s), IF Head(s) = Timeout THEN Tail(s) ELSE s)

\* How many elements of s come before the first that satisfies Test.
Before(s, Test(_)) == LET k == SelectInSeq(s, Test) IN IF k = 0 THEN Len(s) ELSE k - 1

-----------------------------------------------------------------------------
(* Bytes. *)

readBytes(s, length) ==
  LET Gone(c) == c = Timeout
      n == Before(s, Gone)
  IN  IF length <= n THEN [value |-> SubSeq(s, 1, length), rest |-> Drop(s, length)]
      ELSE [value |-> SubSeq(s, 1, n), rest |-> Drop(s, n + 1)]

\* Mutant of readBytesUntil: a full buffer takes the next character with it.
readBytesUntilGreedy(s, terminator, length) ==
  LET Ends(c) == c \in {Timeout, terminator}
      n == Before(s, Ends)
      got == IF length <= n THEN length ELSE n
  IN  [value |-> SubSeq(s, 1, got), rest |-> Drop(s, got + 1)]

\* The terminator is taken off the stream and left out of the buffer.
readBytesUntil(s, terminator, length) ==
  LET Ends(c) == c \in {Timeout, terminator}
      n == Before(s, Ends)
  IN  IF length <= n THEN [value |-> SubSeq(s, 1, length), rest |-> Drop(s, length)]
      ELSE [value |-> SubSeq(s, 1, n), rest |-> Drop(s, n + 1)]

-----------------------------------------------------------------------------
(* Searching. *)

\* Mutant of Fallback: a mismatch starts again from nothing.
FallbackNone(str, index, c) == IF c = str[1] THEN 1 ELSE 0

\* After a mismatch: the longest shorter match that ends with c.
Fallback(str, index, c) ==
  LET Fits == {i \in 0 .. index - 1 :
                 /\ c = str[i + 1]
                 /\ \A k \in 1 .. i : str[k] = str[k + index - i]}
  IN  IF Fits = {} THEN 0 ELSE Max(Fits) + 1

Advance(str, index, c) == IF c = str[index + 1] THEN index + 1 ELSE Fallback(str, index, c)

\* The number of the target found first, or -1 after a timeout. An empty target
\* matches at once.
findMulti(s, targets) ==
  LET Empty == {t \in DOMAIN targets : targets[t] = <<>>}
      Matched(index) == {t \in DOMAIN targets : index[t] = Len(targets[t])}
      Step(st, c) ==
        IF st.over THEN st
        ELSE IF c = Timeout THEN [st EXCEPT !.over = TRUE, !.read = @ + 1]
        ELSE LET index == [t \in DOMAIN targets |-> Advance(targets[t], st.index[t], c)]
             IN  [index |-> index, read |-> st.read + 1, over |-> Matched(index) # {}]
      end == FoldLeft(Step, [index |-> [t \in DOMAIN targets |-> 0],
                             read |-> 0, over |-> FALSE], s)
  IN  IF Empty # {} THEN Result(Min(Empty) - 1, s)
      ELSE Result(IF Matched(end.index) = {} THEN -1 ELSE Min(Matched(end.index)) - 1,
                  Drop(s, end.read))

\* findUntil: 1 when the target comes before the terminator.
findUntil(s, target, terminator) ==
  LET r == findMulti(s, <<target, terminator>>)
  IN  Result(IF r.value = 0 THEN 1 ELSE 0, r.rest)

find(s, target) ==
  LET r == findMulti(s, <<target>>) IN Result(IF r.value = 0 THEN 1 ELSE 0, r.rest)

-----------------------------------------------------------------------------
(* Reading numbers. *)

\* Which characters peekNextDigit skips.
Skipped(c, lookahead) == CASE lookahead = "SKIP_ALL"        -> TRUE
                           [] lookahead = "SKIP_NONE"       -> FALSE
                           [] lookahead = "SKIP_WHITESPACE" -> IsSpace(c)

peekNextDigit(s, lookahead, detectDecimal) ==
  LET Numeric(c) == c = Minus \/ IsDigit(c) \/ (detectDecimal /\ c = Dot)
      Stops(c) == c = Timeout \/ Numeric(c) \/ ~Skipped(c, lookahead)
      p == timedPeek(Drop(s, Before(s, Stops)))
  IN  IF Numeric(p.value) THEN p ELSE Result(-1, p.rest)

\* The characters of a number: the first whatever it is, the others while More
\* holds of them and of those before.
Taken(s, More(_, _)) ==
  LET Fits == {n \in 1 .. Len(s) : \A k \in 2 .. n : More(SubSeq(s, 1, k - 1), s[k])}
  IN  SubSeq(s, 1, Max(Fits))

\* The digits' value, with the sign a '-' among them gives.
Value(taken, ignore) ==
  LET Add(v, c) == IF c # ignore /\ IsDigit(c) THEN Wrap(v * 10 + c - Zero) ELSE v
      v == FoldLeft(Add, 0, taken)
  IN  IF ignore # Minus /\ Contains(taken, Minus) THEN Wrap(-v) ELSE v

parseInt(s, lookahead, ignore) ==
  LET p == peekNextDigit(s, lookahead, FALSE)
      More(before, c) == IsDigit(c) \/ c = ignore
      taken == Taken(p.rest, More)
  IN  IF p.value < 0 THEN Result(0, p.rest)
      ELSE Result(Value(taken, ignore), timedPeek(Drop(p.rest, Len(taken))).rest)

\* Mutant of Decimals: ignored characters count as digits of the fraction.
DecimalsWithIgnored(taken, ignore) ==
  LET OfPoint(c) == c = Dot /\ c # ignore
      k == SelectInSeq(taken, OfPoint)
  IN  IF k = 0 THEN 0 ELSE Len(taken) - k

\* How often fraction is multiplied by 0.1: the digits behind the point.
Decimals(taken, ignore) ==
  LET OfPoint(c) == c = Dot /\ c # ignore
      k == SelectInSeq(taken, OfPoint)
  IN  IF k = 0 THEN 0
      ELSE Cardinality({i \in k + 1 .. Len(taken) : IsDigit(taken[i]) /\ taken[i] # ignore})

\* The value is number * 0.1^decimals.
parseFloat(s, lookahead, ignore) ==
  LET p == peekNextDigit(s, lookahead, TRUE)
      Fraction(before) == ignore # Dot /\ Contains(before, Dot)
      More(before, c) == IsDigit(c) \/ (c = Dot /\ ~Fraction(before)) \/ c = ignore
      taken == Taken(p.rest, More)
  IN  IF p.value < 0 THEN [number |-> 0, decimals |-> 0, rest |-> p.rest]
      ELSE [number |-> Value(taken, ignore), decimals |-> Decimals(taken, ignore),
            rest |-> timedPeek(Drop(p.rest, Len(taken))).rest]

-----------------------------------------------------------------------------
(* Printing integers. *)

DigitChar(d) == IF d < 10 THEN Zero + d ELSE d + 65 - 10

\* printNumber of an unsigned long; bases 0 and 1 print as 10. left is what the loop has
\* left of n after k passes, each of which puts a digit in front of the others.
printNumber(n, base) ==
  LET b == IF base < 2 THEN 10 ELSE base
      left[k \in 0 .. LongBits] == IF k = 0 THEN n ELSE left[k - 1] \div b
      len == Min({k \in 1 .. LongBits : left[k] = 0})
  IN  [k \in 1 .. len |-> DigitChar(left[len - k] % b)]

\* Mutant of print_long: the sign is lost.
print_longUnsigned(n, base) == printNumber(Unsigned(n), base)

\* Base 10 prints a sign, and base 0 the byte itself; the other bases print a
\* negative number as the unsigned long it is converted to.
print_long(n, base) ==
  IF base = 0 THEN <<n % 256>>
  ELSE IF base = 10 /\ n < 0 THEN <<Minus>> \o printNumber(Unsigned(-n), 10)
  ELSE printNumber(Unsigned(n), base)

=============================================================================
