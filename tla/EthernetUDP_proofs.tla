-------------------------- MODULE EthernetUDP_proofs --------------------------
(***************************************************************************)
(* Proofs about an EthernetUDP object, for every size of the buffers and   *)
(* length of the datagrams: type correctness, that the bytes counted in    *)
(* _remaining are in the receive buffer, and that the object implements    *)
(* the datagram service. What is needed for it is that the receive buffer  *)
(* holds the datagrams that came, the first of which may have been read in *)
(* part, and that a packet that fits the transmit buffer lies in it as it  *)
(* was written until it has left.                                          *)
(***************************************************************************)
EXTENDS EthernetUDP, WellFoundedInduction, SequenceTheorems, TLAPS

-----------------------------------------------------------------------------
(* Remainders, and the smallest and the largest of some numbers. *)

LEMMA DivMod ==
  ASSUME NEW m \in Nat \ {0}, NEW a \in Int
  PROVE  a \div m \in Int /\ a % m \in 0 .. m - 1 /\ a = m * (a \div m) + (a % m)
OBVIOUS

LEMMA NoMultipleBetween ==
  ASSUME NEW m \in Nat \ {0}, NEW q \in Int, m * q < m, -m < m * q
  PROVE  q = 0
<1>1. CASE q >= 1
  <2>1. m * q >= m BY <1>1
  <2>2. QED BY <2>1
<1>2. CASE q <= -1
  <2>1. m * q <= -m BY <1>2
  <2>2. QED BY <2>1
<1>3. QED BY <1>1, <1>2

\* The quotient and the remainder are unique.
LEMMA ModIs ==
  ASSUME NEW m \in Nat \ {0}, NEW a \in Int, NEW q \in Int, NEW r \in 0 .. m - 1,
         a = m * q + r
  PROVE  a % m = r
<1>1. /\ a \div m \in Int /\ a % m \in 0 .. m - 1 /\ a = m * (a \div m) + (a % m)
  BY DivMod
<1>2. m * (q - a \div m) = (a % m) - r
  BY <1>1
<1>3. q - a \div m = 0
  <2>1. q - a \div m \in Int
    BY <1>1
  <2>2. (a % m) - r < m /\ -m < (a % m) - r
    BY <1>1
  <2>3. QED BY <1>2, <2>1, <2>2, NoMultipleBetween
<1>4. QED BY <1>1, <1>2, <1>3

LEMMA ModAddMultiple ==
  ASSUME NEW m \in Nat \ {0}, NEW a \in Int, NEW k \in Int
  PROVE  (a + m * k) % m = a % m
<1>1. /\ a \div m \in Int /\ a % m \in 0 .. m - 1 /\ a = m * (a \div m) + (a % m)
  BY DivMod
<1>2. a + m * k = m * (a \div m + k) + (a % m)
  BY <1>1
<1>3. a + m * k \in Int /\ a \div m + k \in Int
  BY <1>1
<1>4. QED BY <1>1, <1>2, <1>3, ModIs

LEMMA ModSmall ==
  ASSUME NEW m \in Nat \ {0}, NEW a \in 0 .. m - 1
  PROVE  a % m = a
OBVIOUS

\* An offset may be added to the remainder instead.
LEMMA ModPlus ==
  ASSUME NEW m \in Nat \ {0}, NEW a \in Int, NEW b \in Int
  PROVE  ((a % m) + b) % m = (a + b) % m
<1>1. /\ a \div m \in Int /\ a % m \in 0 .. m - 1 /\ a = m * (a \div m) + (a % m)
  BY DivMod
<1>2. (a % m) + b \in Int
  BY <1>1
<1>3. a + b = ((a % m) + b) + m * (a \div m)
  BY <1>1
<1>4. QED BY <1>1, <1>2, <1>3, ModAddMultiple

\* The size of a ring is divided by the size of its buffer.
LEMMA ModMod ==
  ASSUME NEW m \in Nat \ {0}, NEW c \in Nat \ {0}, m % c = 0, NEW a \in Int
  PROVE  (a % m) % c = a % c
<1>1. /\ a \div m \in Int /\ a % m \in 0 .. m - 1 /\ a = m * (a \div m) + (a % m)
  BY DivMod
<1>2. m \div c \in Int /\ m = c * (m \div c)
  BY DivMod
<1>3. a = (a % m) + c * ((m \div c) * (a \div m))
  <2>1. ASSUME NEW k \in Int, NEW q \in Int PROVE (c * k) * q = c * (k * q)
    OBVIOUS
  <2>2. m * (a \div m) = c * ((m \div c) * (a \div m))
    BY <1>1, <1>2, <2>1
  <2>3. c * ((m \div c) * (a \div m)) \in Int
    BY <1>1, <1>2
  <2>4. QED BY <1>1, <2>2, <2>3
<1>4. (m \div c) * (a \div m) \in Int /\ a % m \in Int
  BY <1>1, <1>2
<1>5. QED BY <1>3, <1>4, ModAddMultiple, ZenonT(60)

\* How far a pointer is that was moved on by less than a turn.
LEMMA MovedOn ==
  ASSUME NEW m \in Nat \ {0}, NEW a \in 0 .. m - 1, NEW n \in 0 .. m - 1
  PROVE  (((a + n) % m) - a) % m = n
<1>1. a + n \in Int /\ -a \in Int /\ (a + n) + (-a) = n
  OBVIOUS
<1>2. (((a + n) % m) + (-a)) % m = n % m
  BY <1>1, ModPlus
<1>3. (a + n) % m \in Int
  BY <1>1, DivMod
<1>4. ((a + n) % m) + (-a) = ((a + n) % m) - a
  BY <1>3
<1>5. QED BY <1>2, <1>4, ModSmall

\* Pointers less than a buffer apart name different cells.
LEMMA DifferentCells ==
  ASSUME NEW c \in Nat \ {0}, NEW a \in Int, NEW b \in Int, a < b, b < a + c
  PROVE  a % c # b % c
<1>1. /\ a \div c \in Int /\ a % c \in 0 .. c - 1 /\ a = c * (a \div c) + (a % c)
      /\ b \div c \in Int /\ b % c \in 0 .. c - 1 /\ b = c * (b \div c) + (b % c)
  BY DivMod
<1>2. SUFFICES ASSUME a % c = b % c PROVE FALSE
  OBVIOUS
<1>3. b - a = c * (b \div c - a \div c) /\ b \div c - a \div c \in Int
  BY <1>1, <1>2
<1>4. b \div c - a \div c = 0
  <2>1. c * (b \div c - a \div c) < c /\ -c < c * (b \div c - a \div c)
    BY <1>3
  <2>2. QED BY <1>3, <2>1, NoMultipleBetween
<1>5. QED BY <1>3, <1>4

LEMMA MinIs ==
  ASSUME NEW a \in Int, NEW b \in Int
  PROVE  Min({a, b}) = IF a <= b THEN a ELSE b
<1>1. \E x \in {a, b} : \A y \in {a, b} : x <= y
  OBVIOUS
<1>2. Min({a, b}) \in {a, b} /\ \A y \in {a, b} : Min({a, b}) <= y
  BY <1>1 DEF Min
<1>3. QED BY <1>2

LEMMA LeastElement ==
  ASSUME NEW S \in SUBSET Nat, S # {}
  PROVE  \E x \in S : \A y \in S : x <= y
<1> DEFINE R == {p \in Nat \X Nat : p[1] < p[2]}
<1>1. IsWellFoundedOn(R, Nat)
  BY NatLessThanWellFounded DEF OpToRel
<1>2. ASSUME NEW Q, IsWellFoundedOn(Q, Nat)
      PROVE  \E x \in S : \A y \in S : ~ (<<y, x>> \in Q)
  BY <1>2, WFMin
<1>3. \E x \in S : \A y \in S : ~ (<<y, x>> \in R)
  <2> HIDE DEF R
  <2>1. QED BY <1>1, <1>2
<1>4. ASSUME NEW x \in S, NEW y \in S, <<y, x>> \notin R
      PROVE  x <= y
  <2>1. <<y, x>> \in Nat \X Nat /\ <<y, x>>[1] = y /\ <<y, x>>[2] = x
    OBVIOUS
  <2>2. ~(y < x)
    BY <1>4, <2>1
  <2>3. x \in Nat /\ y \in Nat
    OBVIOUS
  <2>4. QED BY <2>2, <2>3
<1> HIDE DEF R
<1>5. QED BY <1>3, <1>4

LEMMA GreatestElement ==
  ASSUME NEW n \in Nat, NEW S \in SUBSET (0 .. n), S # {}
  PROVE  Max(S) \in S /\ \A k \in S : k <= Max(S)
<1> DEFINE T == {n - k : k \in S}
<1>1. T \in SUBSET Nat /\ T # {}
  <2>1. \A k \in S : n - k \in Nat
    OBVIOUS
  <2>2. PICK k \in S : TRUE
    OBVIOUS
  <2>3. n - k \in T
    BY <2>2
  <2>4. QED BY <2>1, <2>3
<1>2. PICK t \in T : \A u \in T : t <= u
  <2> HIDE DEF T
  <2>1. QED BY <1>1, LeastElement
<1>3. PICK m \in S : t = n - m
  BY <1>2
<1>4. ASSUME NEW k \in S PROVE m >= k
  <2>1. n - k \in T
    OBVIOUS
  <2>2. n - m <= n - k
    BY <1>2, <1>3, <2>1
  <2>3. QED BY <2>2
<1>5. Max(S) \in S /\ \A k \in S : Max(S) >= k
  BY <1>4 DEF Max
<1>6. QED BY <1>5

LEMMA MaxIs ==
  ASSUME NEW n \in Nat, NEW S \in SUBSET (1 .. n), S # {}
  PROVE  Max(S) \in S /\ \A k \in S : k <= Max(S)
<1>1. S \in SUBSET (0 .. n)
  OBVIOUS
<1>2. QED BY <1>1, GreatestElement

LEMMA MaxOfOne == ASSUME NEW n \in Int PROVE Max({n}) = n
BY DEF Max

LEMMA MaxOfTwo ==
  ASSUME NEW a \in Int, NEW b \in Int
  PROVE  Max({a, b}) = IF a >= b THEN a ELSE b
<1>1. \E x \in {a, b} : \A y \in {a, b} : x >= y
  OBVIOUS
<1>2. Max({a, b}) \in {a, b} /\ \A y \in {a, b} : Max({a, b}) >= y
  BY <1>1 DEF Max
<1>3. QED BY <1>2

-----------------------------------------------------------------------------

Cells == Bytes \cup Peers \cup (0 .. MaxLen)

\* The cells begin with n bytes of a datagram; behind them the datagrams of b start at the
\* positions in at, and the next one will start behind the last cell.
Placed(cells, n, b, at) ==
  /\ at \in [1 .. Len(b) + 1 -> 1 .. Len(cells) + 1]
  /\ at[1] = n + 1 /\ at[Len(b) + 1] = Len(cells) + 1
  /\ \A i, j \in 1 .. Len(b) + 1 : i <= j => at[i] <= at[j]
  /\ \A q \in 1 .. n : cells[q] \in Bytes
  /\ \A i \in 1 .. Len(b) :
       /\ at[i + 1] = at[i] + 2 + Len(b[i].data)
       /\ cells[at[i]] = b[i].from /\ cells[at[i] + 1] = Len(b[i].data)
       /\ \A q \in 1 .. Len(b[i].data) : cells[at[i] + 1 + q] = b[i].data[q]

Frames == [from : Peers, data : Datagrams]

Holds(cells, n, b) ==
  /\ b \in Seq(Frames)
  /\ \E at \in [1 .. Len(b) + 1 -> 1 .. Len(cells) + 1] : Placed(cells, n, b, at)

RxOK ==
  /\ remaining \in 0 .. MaxLen /\ remote \in Peers
  /\ rx \in Seq(Cells) /\ Len(rx) <= RxSize
  /\ behind \in Seq(Frames)
  /\ open = 1 => Holds(rx, remaining, behind)

\* Between SENDs the transmit buffer is empty, and the packet that is being built lies
\* behind TX_WR; during a SEND it lies before it.
TxOK ==
  /\ building \in {0, 1} /\ offset \in 0 .. Longest
  /\ mem \in [0 .. TxSize - 1 -> Bytes]
  /\ TX_RD \in 0 .. Mod - 1 /\ TX_WR \in 0 .. Mod - 1 /\ written \in 0 .. Mod - 1
  /\ ir \in {"none", "SEND_OK", "TIMEOUT"}
  /\ wire \in BoundedSeq(Bytes, Longest)
  /\ pc # "send_wait" => ir = "none"
  /\ pc # "send_wait" \/ ir # "none" => TX_RD = TX_WR
  /\ pc # "send_wait" /\ building = 1 /\ offset > 0 => written = (TX_WR + offset) % Mod
  /\ pc = "send_wait" => building = 1
  /\ pc = "send_wait" /\ ir = "none" => (TX_WR - TX_RD) % Mod = offset
  /\ pc = "send_wait" /\ ir = "SEND_OK" => wire = Span(TX_WR - offset, offset)

\* The packet that is being built or sent, as the transmit buffer has it. During a SEND
\* TX_WR points behind it, before the SEND to its beginning.
Written == Span(IF pc = "send_wait" THEN TX_WR - offset ELSE TX_WR, offset)

\* As long as it fits, nothing of it has been written over.
PacketOK ==
  /\ packet \in Seq(Bytes) /\ Len(packet) <= Longest
  /\ building = 1 => Len(packet) = offset
  /\ building = 1 /\ offset <= TxSize => Written = packet

Ns == (-1 .. MaxLen) \cup {1}
Data == BoundedSeq(Bytes, Max({MaxLen, Longest}))

CallOK ==
  /\ open \in {0, 1}
  /\ pc \in {"idle", "flush", "parse_flush", "parse", "send_wait"}
  /\ pc # "idle" => open = 1
  /\ pc = "parse" => remaining = 0
  /\ result.n \in Ns /\ result.data \in Data

UInv == RxOK /\ TxOK /\ CallOK

-----------------------------------------------------------------------------
(* Sequences and constants. *)

LEMMA Constants ==
  /\ MaxLen \in Nat /\ RxSize \in Nat /\ TxSize \in Nat \ {0} /\ Longest \in Nat
  /\ Mod \in Nat \ {0} /\ Longest <= Mod - 1
BY UdpAssumption

LEMMA Bounded ==
  ASSUME NEW S, NEW n \in Nat, NEW s
  PROVE  s \in BoundedSeq(S, n) <=> s \in Seq(S) /\ Len(s) <= n
<1>1. ASSUME s \in BoundedSeq(S, n) PROVE s \in Seq(S) /\ Len(s) <= n
  <2>1. PICK m \in 0 .. n : s \in [1 .. m -> S]
    BY <1>1 DEF BoundedSeq, SeqOf
  <2>2. QED BY <2>1
<1>2. ASSUME s \in Seq(S), Len(s) <= n PROVE s \in BoundedSeq(S, n)
  <2>1. Len(s) \in 0 .. n /\ s \in [1 .. Len(s) -> S]
    BY <1>2, LenProperties
  <2>2. QED BY <2>1 DEF BoundedSeq, SeqOf
<1>3. QED BY <1>1, <1>2

LEMMA ShortData ==
  ASSUME NEW s \in Seq(Bytes), Len(s) <= MaxLen \/ Len(s) <= Longest
  PROVE  s \in Data
<1>1. Max({MaxLen, Longest}) \in Nat /\ Len(s) <= Max({MaxLen, Longest})
  BY MaxOfTwo, Constants
<1>2. QED BY <1>1, Bounded DEF Data

LEMMA NoData == <<>> \in Data
<1>1. <<>> \in Seq(Bytes) /\ Len(<<>>) <= MaxLen
  BY EmptySeq, Constants
<1>2. QED BY <1>1, ShortData

\* The first k.
LEMMA First_k ==
  ASSUME NEW S, NEW s, NEW k \in Nat, \A q \in 1 .. k : s[q] \in S
  PROVE  SubSeq(s, 1, k) \in Seq(S) /\ Len(SubSeq(s, 1, k)) = k
<1>1. /\ SubSeq(s, 1, k) \in Seq(S)
      /\ Len(SubSeq(s, 1, k)) = IF 1 <= k THEN k - 1 + 1 ELSE 0
  BY SubSeqProperties
<1>2. QED BY <1>1

\* The cells behind the first k.
LEMMA Behind_k ==
  ASSUME NEW S, NEW s \in Seq(S), NEW k \in 0 .. Len(s)
  PROVE  LET t == SubSeq(s, k + 1, Len(s))
         IN  /\ t \in Seq(S) /\ Len(t) = Len(s) - k
             /\ \A i \in 1 .. Len(s) - k : t[i] = s[k + i]
<1>1. \A i \in k + 1 .. Len(s) : s[i] \in S
  BY ElementOfSeq
<1>2. /\ SubSeq(s, k + 1, Len(s)) \in Seq(S)
      /\ Len(SubSeq(s, k + 1, Len(s)))
           = IF k + 1 <= Len(s) THEN Len(s) - (k + 1) + 1 ELSE 0
      /\ \A i \in 1 .. Len(s) - (k + 1) + 1 : SubSeq(s, k + 1, Len(s))[i] = s[k + 1 + i - 1]
  BY <1>1, SubSeqProperties
<1>3. QED BY <1>2

LEMMA FrameIs ==
  ASSUME NEW f \in Frames
  PROVE  /\ f.from \in Peers /\ f.data \in Seq(Bytes) /\ f.data \in Datagrams
         /\ Len(f.data) \in 0 .. MaxLen
<1>1. f.from \in Peers /\ f.data \in Datagrams
  BY DEF Frames
<1>2. f.data \in Seq(Bytes) /\ Len(f.data) <= MaxLen
  BY <1>1, Bounded, Constants DEF Datagrams
<1>3. QED BY <1>1, <1>2, LenProperties, Constants

\* What is left of a buffer when k cells and j datagrams have been taken: m bytes, if these
\* end where the next datagram starts.
LEMMA ShiftPlaced ==
  ASSUME NEW cells \in Seq(Cells), NEW n \in Nat, NEW b \in Seq(Frames), NEW at,
         Placed(cells, n, b, at),
         NEW k \in 0 .. Len(cells), NEW m \in Nat, NEW j \in 0 .. Len(b), at[j + 1] = k + m + 1,
         \A q \in k + 1 .. k + m : cells[q] \in Bytes,
         NEW c \in Seq(Frames), Len(c) = Len(b) - j, \A i \in 1 .. Len(c) : c[i] = b[j + i]
  PROVE  Holds(SubSeq(cells, k + 1, Len(cells)), m, c)
<1> DEFINE t == SubSeq(cells, k + 1, Len(cells))
           new == [i \in 1 .. Len(c) + 1 |-> at[j + i] - k]
<1>1. t \in Seq(Cells) /\ Len(t) = Len(cells) - k
      /\ \A i \in 1 .. Len(cells) - k : t[i] = cells[k + i]
  BY Behind_k
<1> HIDE DEF t
<1>2. Len(cells) \in Nat /\ Len(b) \in Nat /\ Len(c) \in Nat /\ MaxLen \in Nat
  BY LenProperties, Constants
<1>3. \A i \in 1 .. Len(c) + 1 : /\ j + i \in 1 .. Len(b) + 1
                                 /\ at[j + i] \in k + m + 1 .. Len(cells) + 1
  <2>1. SUFFICES ASSUME NEW i \in 1 .. Len(c) + 1
                 PROVE  j + i \in 1 .. Len(b) + 1 /\ at[j + i] \in k + m + 1 .. Len(cells) + 1
    OBVIOUS
  <2>2. j + i \in 1 .. Len(b) + 1 /\ j + 1 \in 1 .. Len(b) + 1 /\ j + 1 <= j + i
    BY <1>2
  <2>3. at[j + 1] <= at[j + i] /\ at[j + i] \in 1 .. Len(cells) + 1
    BY <2>2 DEF Placed
  <2>4. QED BY <1>2, <2>2, <2>3
<1>4. \A i \in 1 .. Len(c) + 1 : new[i] = at[j + i] - k
  OBVIOUS
<1>5. new \in [1 .. Len(c) + 1 -> 1 .. Len(t) + 1]
  <2>1. ASSUME NEW i \in 1 .. Len(c) + 1 PROVE at[j + i] - k \in 1 .. Len(t) + 1
    <3>1. at[j + i] \in k + m + 1 .. Len(cells) + 1
      BY <1>3
    <3>2. QED BY <1>1, <1>2, <3>1
  <2>2. QED BY <2>1
<1> HIDE DEF new
<1>6. new[1] = m + 1 /\ new[Len(c) + 1] = Len(t) + 1
  <2>1. 1 \in 1 .. Len(c) + 1 /\ Len(c) + 1 \in 1 .. Len(c) + 1 /\ j + (Len(c) + 1) = Len(b) + 1
    BY <1>2
  <2>2. at[Len(b) + 1] = Len(cells) + 1
    BY DEF Placed
  <2>3. new[1] = at[j + 1] - k /\ new[Len(c) + 1] = at[j + (Len(c) + 1)] - k
    BY <1>4, <2>1
  <2>4. new[1] = (k + m + 1) - k /\ new[Len(c) + 1] = (Len(cells) + 1) - k
    BY <2>1, <2>2, <2>3
  <2>5. QED BY <1>1, <1>2, <2>4
<1>7. ASSUME NEW i \in 1 .. Len(c) + 1, NEW l \in 1 .. Len(c) + 1, i <= l
      PROVE  new[i] <= new[l]
  <2>1. j + i \in 1 .. Len(b) + 1 /\ j + l \in 1 .. Len(b) + 1 /\ j + i <= j + l
        /\ at[j + i] \in k + m + 1 .. Len(cells) + 1 /\ at[j + l] \in k + m + 1 .. Len(cells) + 1
    <3>1. j + i \in 1 .. Len(b) + 1 /\ at[j + i] \in k + m + 1 .. Len(cells) + 1
      BY <1>3
    <3>2. j + l \in 1 .. Len(b) + 1 /\ at[j + l] \in k + m + 1 .. Len(cells) + 1
      BY <1>3
    <3>3. QED BY <1>2, <1>7, <3>1, <3>2
  <2>2. at[j + i] <= at[j + l]
    BY <2>1 DEF Placed
  <2>3. new[i] = at[j + i] - k /\ new[l] = at[j + l] - k
    BY <1>4
  <2>4. at[j + i] \in Int /\ at[j + l] \in Int /\ k \in Int
    <3>1. \A x, y : x \in Nat /\ y \in Nat => \A z \in x .. y : z \in Int
      OBVIOUS
    <3>2. k + m + 1 \in Nat /\ Len(cells) + 1 \in Nat /\ k \in Int
      BY <1>2
    <3>3. QED BY <2>1, <3>1, <3>2
  <2>5. \A x, y, z \in Int : x <= y => x - z <= y - z
    OBVIOUS
  <2>6. QED BY ONLY <2>2, <2>3, <2>4, <2>5
<1>8. \A q \in 1 .. m : t[q] \in Bytes
  <2>1. SUFFICES ASSUME NEW q \in 1 .. m PROVE t[q] \in Bytes
    OBVIOUS
  <2>2. k + m + 1 \in 1 .. Len(cells) + 1
    BY <1>2, <1>3, SMTT(60)
  <2>3. k + q \in k + 1 .. k + m /\ q \in 1 .. Len(cells) - k
    BY <1>2, <2>2
  <2>4. QED BY <1>1, <2>3
<1>9. ASSUME NEW i \in 1 .. Len(c)
      PROVE  /\ new[i + 1] = new[i] + 2 + Len(c[i].data)
             /\ t[new[i]] = c[i].from /\ t[new[i] + 1] = Len(c[i].data)
             /\ \A q \in 1 .. Len(c[i].data) : t[new[i] + 1 + q] = c[i].data[q]
  <2> DEFINE p == at[j + i]
             f == c[i]
             len == Len(f.data)
  <2>1. f \in Frames /\ j + i \in 1 .. Len(b) /\ i \in 1 .. Len(c) + 1 /\ i + 1 \in 1 .. Len(c) + 1
        /\ f = b[j + i]
    <3>1. c[i] \in Frames
      BY ElementOfSeq
    <3>2. QED BY <1>2, <3>1
  <2> HIDE DEF f
  <2>2. /\ at[j + i + 1] = p + 2 + len
        /\ cells[p] = f.from /\ cells[p + 1] = len
        /\ \A q \in 1 .. len : cells[p + 1 + q] = f.data[q]
    BY <2>1 DEF Placed
  <2>3. len \in Nat
    BY <2>1, FrameIs
  <2>4. p \in k + m + 1 .. Len(cells) + 1 /\ at[j + (i + 1)] \in k + m + 1 .. Len(cells) + 1
        /\ new[i] = p - k /\ new[i + 1] = at[j + (i + 1)] - k
    BY <1>3, <1>4, <2>1
  <2> HIDE DEF p, len
  <2>5. j + (i + 1) = j + i + 1
    BY <1>2
  <2>6. p + 2 + len \in k + m + 1 .. Len(cells) + 1 /\ new[i + 1] = (p + 2 + len) - k
    BY <2>2, <2>4, <2>5
  <2>7. new[i + 1] = new[i] + 2 + len
    <3>1. k \in Int /\ p \in Int /\ len \in Int
      BY <1>2, <2>3, <2>4
    <3>2. (p + 2 + len) - k = (p - k) + 2 + len
      BY ONLY <3>1
    <3>3. QED BY <2>4, <2>6, <3>2
  <2>8. ASSUME NEW q \in 0 .. 1 + len PROVE t[new[i] + q] = cells[p + q]
    <3>0. k \in Nat /\ m \in Nat /\ Len(cells) \in Nat /\ q \in 0 .. 1 + len /\ len \in Nat
          /\ p \in k + m + 1 .. Len(cells) + 1 /\ p + 2 + len \in k + m + 1 .. Len(cells) + 1
      BY <1>2, <2>3, <2>4, <2>6
    <3> DEFINE a == p - k
    <3>1. a + q \in 1 .. Len(cells) - k /\ k + (a + q) = p + q
      BY ONLY <3>0
    <3> HIDE DEF a
    <3>2. new[i] = a
      BY <2>4 DEF a
    <3>3. new[i] + q \in 1 .. Len(cells) - k /\ k + (new[i] + q) = p + q
      BY ONLY <3>1, <3>2
    <3>4. QED BY <1>1, <3>3
  <2>9. t[new[i]] = cells[p]
    <3>1. new[i] + 0 = new[i] /\ p + 0 = p /\ 0 \in 0 .. 1 + len
      BY <1>2, <2>3, <2>4
    <3>2. QED BY <2>8, <3>1
  <2>10. t[new[i] + 1] = cells[p + 1]
    BY <2>3, <2>8
  <2>11. ASSUME NEW q \in 1 .. len PROVE t[new[i] + 1 + q] = cells[p + 1 + q]
    <3>1. 1 + q \in 0 .. 1 + len /\ new[i] + (1 + q) = new[i] + 1 + q /\ p + (1 + q) = p + 1 + q
      BY <1>2, <2>3, <2>4
    <3>2. QED BY <2>8, <3>1
  <2>12. QED BY <2>2, <2>7, <2>9, <2>10, <2>11 DEF f, len
<1>10. Placed(t, m, c, new)
  BY <1>5, <1>6, <1>7, <1>8, <1>9 DEF Placed
<1>11. QED BY <1>5, <1>10 DEF Holds, t

\* What is unread of a datagram lies in the buffer.
LEMMA HoldsFits ==
  ASSUME NEW cells \in Seq(Cells), NEW n \in Nat, NEW b, Holds(cells, n, b)
  PROVE  n <= Len(cells) /\ \A q \in 1 .. n : cells[q] \in Bytes
<1>1. PICK at \in [1 .. Len(b) + 1 -> 1 .. Len(cells) + 1] : Placed(cells, n, b, at)
  BY DEF Holds
<1>2. at[1] = n + 1 /\ 1 \in 1 .. Len(b) + 1 /\ \A q \in 1 .. n : cells[q] \in Bytes
  BY <1>1, LenProperties DEF Placed, Holds
<1>3. QED BY <1>1, <1>2, LenProperties

\* Reading k bytes of the current datagram.
LEMMA ReadHolds ==
  ASSUME NEW cells \in Seq(Cells), NEW n \in Nat, NEW b, Holds(cells, n, b), NEW k \in 0 .. n
  PROVE  Holds(SubSeq(cells, k + 1, Len(cells)), n - k, b)
<1>1. PICK at \in [1 .. Len(b) + 1 -> 1 .. Len(cells) + 1] : Placed(cells, n, b, at)
  BY DEF Holds
<1>2. b \in Seq(Frames) /\ Len(b) \in Nat
  BY LenProperties DEF Holds
<1>3. n - k \in Nat /\ k \in 0 .. Len(cells) /\ 0 \in 0 .. Len(b) /\ Len(b) = Len(b) - 0
  BY <1>2, HoldsFits
<1>4. at[0 + 1] = k + (n - k) + 1
  BY <1>1 DEF Placed
<1>5. \A q \in k + 1 .. k + (n - k) : cells[q] \in Bytes
  BY HoldsFits
<1>6. \A i \in 1 .. Len(b) : b[i] = b[0 + i]
  BY <1>2
<1>7. QED BY ONLY <1>1, <1>2, <1>3, <1>4, <1>5, <1>6, n \in Nat, cells \in Seq(Cells), ShiftPlaced, SMTT(60)

\* Taking the header of the next datagram, which is the one that came first.
LEMMA HeaderHolds ==
  ASSUME NEW cells \in Seq(Cells), NEW b, Holds(cells, 0, b)
  PROVE  /\ cells = <<>> <=> b = <<>>
         /\ cells # <<>> =>
              /\ 2 <= Len(cells) /\ b \in Seq(Frames)
              /\ cells[1] = b[1].from /\ cells[2] = Len(b[1].data)
              /\ \A q \in 1 .. Len(b[1].data) : cells[2 + q] = b[1].data[q]
              /\ Holds(SubSeq(cells, 3, Len(cells)), cells[2], Tail(b))
<1>1. PICK at \in [1 .. Len(b) + 1 -> 1 .. Len(cells) + 1] : Placed(cells, 0, b, at)
  BY DEF Holds
<1>2. b \in Seq(Frames) /\ Len(b) \in Nat /\ Len(cells) \in Nat
  BY LenProperties DEF Holds
<1>3. at[1] = 1 /\ at[Len(b) + 1] = Len(cells) + 1
  BY <1>1 DEF Placed
<1>4. b = <<>> => cells = <<>>
  <2>1. SUFFICES ASSUME Len(b) = 0 PROVE Len(cells) = 0
    BY <1>2, EmptySeq
  <2>2. QED BY <1>2, <1>3, <2>1
<1>5. ASSUME b # <<>>
      PROVE  /\ 2 <= Len(cells)
             /\ cells[1] = b[1].from /\ cells[2] = Len(b[1].data)
             /\ \A q \in 1 .. Len(b[1].data) : cells[2 + q] = b[1].data[q]
             /\ Holds(SubSeq(cells, 3, Len(cells)), cells[2], Tail(b))
  <2>1. 1 \in 1 .. Len(b) /\ 2 \in 1 .. Len(b) + 1 /\ b[1] \in Frames
    BY <1>2, <1>5, EmptySeq, ElementOfSeq
  <2> DEFINE f == b[1]
  <2>2. /\ at[2] = 1 + 2 + Len(f.data)
        /\ cells[1] = f.from /\ cells[2] = Len(f.data)
        /\ \A q \in 1 .. Len(f.data) : cells[2 + q] = f.data[q]
    BY <1>1, <1>3, <2>1 DEF Placed
  <2>3. f.data \in Seq(Bytes) /\ Len(f.data) \in Nat
    BY <2>1, FrameIs
  <2>4. at[2] \in 1 .. Len(cells) + 1
    BY <1>1, <2>1
  <2>5. 2 <= Len(cells) /\ 2 \in 0 .. Len(cells) /\ 1 \in 0 .. Len(b) /\ 2 + 1 = 3
        /\ at[1 + 1] = 2 + Len(f.data) + 1
    BY <1>2, <2>1, <2>2, <2>3, <2>4
  <2>6. \A q \in 2 + 1 .. 2 + Len(f.data) : cells[q] \in Bytes
    <3>1. SUFFICES ASSUME NEW q \in 2 + 1 .. 2 + Len(f.data) PROVE cells[q] \in Bytes
      OBVIOUS
    <3>2. q - 2 \in 1 .. Len(f.data) /\ 2 + (q - 2) = q
      BY <2>3
    <3>3. cells[q] = f.data[q - 2]
      BY <2>2, <3>2
    <3>4. QED BY <2>3, <3>2, <3>3, ElementOfSeq
  <2>7. Tail(b) \in Seq(Frames) /\ Len(Tail(b)) = Len(b) - 1
        /\ \A i \in 1 .. Len(Tail(b)) : Tail(b)[i] = b[1 + i]
    <3>1. Tail(b) \in Seq(Frames) /\ Len(Tail(b)) = Len(b) - 1
          /\ \A i \in 1 .. Len(Tail(b)) : Tail(b)[i] = b[i + 1]
      BY <1>2, <1>5, HeadTailProperties
    <3>2. \A i \in 1 .. Len(Tail(b)) : i + 1 = 1 + i
      OBVIOUS
    <3>3. QED BY <3>1, <3>2
  <2>8. Holds(SubSeq(cells, 2 + 1, Len(cells)), Len(f.data), Tail(b))
    <3> DEFINE n == 0
               k == 2
               j == 1
               m == Len(f.data)
               c == Tail(b)
    <3>1. /\ n \in Nat /\ Placed(cells, n, b, at)
          /\ k \in 0 .. Len(cells) /\ j \in 0 .. Len(b) /\ m \in Nat /\ at[j + 1] = k + m + 1
          /\ c \in Seq(Frames) /\ Len(c) = Len(b) - j /\ \A i \in 1 .. Len(c) : c[i] = b[j + i]
          /\ \A q \in k + 1 .. k + m : cells[q] \in Bytes
      BY <1>1, <2>3, <2>5, <2>6, <2>7
    <3> HIDE DEF n, k, j, m, c
    <3>2. Holds(SubSeq(cells, k + 1, Len(cells)), m, c)
      BY ONLY <1>2, <3>1, cells \in Seq(Cells), ShiftPlaced, ZenonT(60)
    <3>3. QED BY <3>2 DEF k, m, c
  <2> HIDE DEF f
  <2>9. QED BY <2>2, <2>5, <2>8 DEF f
<1>6. cells = <<>> => b = <<>>
  BY <1>5, EmptySeq
<1>7. QED BY <1>2, <1>4, <1>5, <1>6

\* A datagram that arrives.
LEMMA ArriveHolds ==
  ASSUME NEW cells \in Seq(Cells), NEW n \in Nat, NEW b, Holds(cells, n, b),
         NEW p \in Peers, NEW d \in Datagrams
  PROVE  LET t == cells \o <<p, Len(d)>> \o d
         IN  /\ t \in Seq(Cells) /\ Len(t) = Len(cells) + 2 + Len(d)
             /\ \A i \in 1 .. Len(cells) : t[i] = cells[i]
             /\ Holds(t, n, Append(b, [from |-> p, data |-> d]))
<1>0. d \in Seq(Bytes) /\ Len(d) <= MaxLen
  BY Bounded, Constants DEF Datagrams
<1> DEFINE h == <<p, Len(d)>>
           t == cells \o h \o d
<1>1. Len(d) \in 0 .. MaxLen /\ d \in Seq(Cells) /\ h \in Seq(Cells) /\ Len(h) = 2
      /\ h[1] = p /\ h[2] = Len(d)
  BY <1>0, Constants, SeqMonotonic DEF Cells
<1> DEFINE u == cells \o h
<1>2. /\ u \in Seq(Cells) /\ Len(u) = Len(cells) + 2
      /\ \A i \in 1 .. Len(cells) + 2 : u[i] = IF i <= Len(cells) THEN cells[i]
                                                                ELSE h[i - Len(cells)]
  BY <1>1, ConcatProperties
<1> HIDE DEF u, h
<1>3. /\ u \o d \in Seq(Cells) /\ Len(u \o d) = Len(cells) + 2 + Len(d)
      /\ \A i \in 1 .. Len(cells) + 2 + Len(d) :
           (u \o d)[i] = IF i <= Len(cells) + 2 THEN u[i] ELSE d[i - (Len(cells) + 2)]
  <2>1. /\ u \o d \in Seq(Cells) /\ Len(u \o d) = Len(u) + Len(d)
        /\ \A i \in 1 .. Len(u) + Len(d) :
             (u \o d)[i] = IF i <= Len(u) THEN u[i] ELSE d[i - Len(u)]
    <3>1. u \in Seq(Cells) /\ d \in Seq(Cells)
      BY <1>1, <1>2
    <3>2. QED BY ONLY <3>1, ConcatProperties
  <2>2. QED BY <1>2, <2>1
<1>4. t = u \o d
  BY DEF u
<1> HIDE DEF t
<1> DEFINE l == Len(cells)
<1>5. l \in Nat /\ Len(d) \in Nat /\ Len(t) = l + 2 + Len(d)
  BY <1>1, <1>3, <1>4
<1>6. /\ \A i \in 1 .. l : t[i] = cells[i]
      /\ t[l + 1] = p /\ t[l + 2] = Len(d)
      /\ \A q \in 1 .. Len(d) : t[l + 2 + q] = d[q]
  <2>1. ASSUME NEW i \in 1 .. l PROVE t[i] = cells[i]
    BY <1>2, <1>3, <1>4, <1>5
  <2>2. t[l + 1] = p
    BY <1>1, <1>2, <1>3, <1>4, <1>5
  <2>3. t[l + 2] = Len(d)
    BY <1>1, <1>2, <1>3, <1>4, <1>5
  <2>4. ASSUME NEW q \in 1 .. Len(d) PROVE t[l + 2 + q] = d[q]
    <3>1. l + 2 + q \in 1 .. l + 2 + Len(d) /\ ~(l + 2 + q <= l + 2) /\ (l + 2 + q) - (l + 2) = q
      BY <1>5
    <3>2. QED BY <1>3, <1>4, <3>1
  <2>5. QED BY <2>1, <2>2, <2>3, <2>4
<1> DEFINE f == [from |-> p, data |-> d]
           c == Append(b, f)
<1>7. b \in Seq(Frames) /\ f \in Frames /\ Len(b) \in Nat
  BY LenProperties DEF Holds, Frames
<1>8. c \in Seq(Frames) /\ Len(c) = Len(b) + 1 /\ c[Len(b) + 1] = f
      /\ \A i \in 1 .. Len(b) : c[i] = b[i]
  <2>1. /\ c \in Seq(Frames) /\ Len(c) = Len(b) + 1
        /\ \A i \in 1 .. Len(b) : c[i] = b[i]
        /\ c[Len(b) + 1] = f
    <3> HIDE DEF f
    <3>1. QED BY <1>7, AppendProperties
  <2>2. QED BY <2>1
<1>9. f.from = p /\ f.data = d
  OBVIOUS
<1> HIDE DEF c, f
<1>10. PICK at \in [1 .. Len(b) + 1 -> 1 .. l + 1] : Placed(cells, n, b, at)
  BY DEF Holds
<1> DEFINE new == [i \in 1 .. Len(c) + 1 |-> IF i <= Len(b) + 1 THEN at[i] ELSE Len(t) + 1]
<1>11. new[Len(c) + 1] = Len(t) + 1 /\ new[Len(b) + 1] = l + 1
       /\ \A i \in 1 .. Len(b) + 1 : new[i] = at[i]
  <2>1. Len(c) + 1 \in 1 .. Len(c) + 1 /\ ~(Len(c) + 1 <= Len(b) + 1)
    BY <1>7, <1>8
  <2>2. ASSUME NEW i \in 1 .. Len(b) + 1 PROVE new[i] = at[i]
    BY <1>7, <1>8
  <2>3. Len(b) + 1 \in 1 .. Len(b) + 1 /\ at[Len(b) + 1] = l + 1
    BY <1>7, <1>10 DEF Placed
  <2>4. new[Len(b) + 1] = l + 1
    BY <2>2, <2>3
  <2>5. new[Len(c) + 1] = Len(t) + 1
    BY <2>1
  <2>6. QED BY <2>2, <2>4, <2>5
<1>12. new \in [1 .. Len(c) + 1 -> 1 .. Len(t) + 1]
  <2>1. ASSUME NEW i \in 1 .. Len(c) + 1
        PROVE  (IF i <= Len(b) + 1 THEN at[i] ELSE Len(t) + 1) \in 1 .. Len(t) + 1
    <3>1. CASE i <= Len(b) + 1
      <4>1. at[i] \in 1 .. l + 1
        BY <1>7, <1>10, <3>1
      <4>2. QED BY <1>5, <3>1, <4>1
    <3>2. CASE ~(i <= Len(b) + 1)
      BY <1>5, <3>2
    <3>3. QED BY <3>1, <3>2
  <2>2. QED BY <2>1
<1> HIDE DEF new
<1>13. ASSUME NEW i \in 1 .. Len(c) + 1, NEW j \in 1 .. Len(c) + 1, i <= j
       PROVE  new[i] <= new[j]
  <2>1. new[i] \in 1 .. Len(t) + 1 /\ new[j] \in 1 .. Len(t) + 1
    BY <1>12
  <2>2. CASE j = Len(c) + 1
    BY <1>5, <1>11, <2>1, <2>2
  <2>3. CASE j # Len(c) + 1
    <3>0. Len(c) + 1 = Len(b) + 2
      BY <1>7, <1>8
    <3>1. i \in 1 .. Len(b) + 1 /\ j \in 1 .. Len(b) + 1
      BY <1>7, <1>13, <2>3, <3>0
    <3>2. at[i] <= at[j] /\ new[i] = at[i] /\ new[j] = at[j]
      BY <1>10, <1>11, <1>13, <3>1 DEF Placed
    <3>3. QED BY <3>2
  <2>4. QED BY <2>2, <2>3
<1>14. ASSUME NEW i \in 1 .. Len(c)
       PROVE  /\ new[i + 1] = new[i] + 2 + Len(c[i].data)
              /\ t[new[i]] = c[i].from /\ t[new[i] + 1] = Len(c[i].data)
              /\ \A q \in 1 .. Len(c[i].data) : t[new[i] + 1 + q] = c[i].data[q]
  <2>1. CASE i = Len(b) + 1
    <3>1. c[i].from = p /\ c[i].data = d /\ new[i] = l + 1 /\ new[i + 1] = Len(t) + 1
      BY <1>7, <1>8, <1>9, <1>11, <2>1
    <3>2. Len(t) + 1 = l + 1 + 2 + Len(d) /\ l + 1 + 1 = l + 2
          /\ \A q \in 1 .. Len(d) : l + 1 + 1 + q = l + 2 + q
      BY <1>5
    <3>3. QED BY <1>6, <3>1, <3>2
  <2>2. CASE i # Len(b) + 1
    <3>1. i \in 1 .. Len(b) /\ i \in 1 .. Len(b) + 1 /\ i + 1 \in 1 .. Len(b) + 1
      BY <1>7, <1>8, <2>2
    <3>2. c[i] = b[i] /\ new[i] = at[i] /\ new[i + 1] = at[i + 1]
      BY <1>8, <1>11, <3>1
    <3> DEFINE len == Len(b[i].data)
    <3>3. /\ at[i + 1] = at[i] + 2 + len
          /\ cells[at[i]] = b[i].from /\ cells[at[i] + 1] = len
          /\ \A q \in 1 .. len : cells[at[i] + 1 + q] = b[i].data[q]
      BY <1>10, <3>1 DEF Placed
    <3>4. len \in Nat
      BY <1>7, <3>1, ElementOfSeq, FrameIs
    <3>5. at[i] \in 1 .. l + 1 /\ at[i + 1] \in 1 .. l + 1
      BY <1>10, <3>1
    <3> HIDE DEF len
    <3>6. at[i] \in 1 .. l /\ at[i] + 1 \in 1 .. l /\ at[i] + 1 + len <= l
      <4> DEFINE here == at[i]
                 next == at[i + 1]
      <4>1. next = here + 2 + len
        BY <3>3
      <4>2. here \in 1 .. l + 1 /\ next \in 1 .. l + 1 /\ l \in Nat
        BY <1>5, <3>5
      <4> HIDE DEF here, next, l
      <4>3. here \in 1 .. l /\ here + 1 \in 1 .. l /\ here + 1 + len <= l
        BY ONLY <3>4, <4>1, <4>2
      <4>4. QED BY <4>3 DEF here
    <3>7. t[at[i]] = cells[at[i]] /\ t[at[i] + 1] = cells[at[i] + 1]
      BY <1>6, <3>6
    <3>8. ASSUME NEW q \in 1 .. len PROVE t[at[i] + 1 + q] = cells[at[i] + 1 + q]
      <4>1. at[i] + 1 + q \in 1 .. l
        BY <1>5, <3>4, <3>6, SMTT(60)
      <4>2. QED BY <1>6, <4>1
    <3>9. QED BY <3>2, <3>3, <3>7, <3>8 DEF len
  <2>3. QED BY <2>1, <2>2
<1>15. \A q \in 1 .. n : t[q] \in Bytes
  BY <1>6, HoldsFits
<1>16. new[1] = n + 1
  BY <1>7, <1>10, <1>11 DEF Placed
<1>17. Placed(t, n, c, new)
  BY <1>11, <1>12, <1>13, <1>14, <1>15, <1>16 DEF Placed
<1>18. Holds(t, n, c)
  BY <1>8, <1>12, <1>17 DEF Holds
<1>19. QED BY <1>3, <1>4, <1>6, <1>18 DEF t, h, c, f

-----------------------------------------------------------------------------
(* The parts of the invariant that a step leaves alone. *)

LEMMA Meaning == UInv => RemainingIsThere
<1> SUFFICES ASSUME UInv PROVE RemainingIsThere
  OBVIOUS
<1>1. QED BY HoldsFits, Constants DEF UInv, RxOK, RemainingIsThere

LEMMA TypeMeaning == UInv /\ PacketOK => TypeOK
<1> SUFFICES ASSUME UInv, PacketOK PROVE TypeOK
  OBVIOUS
<1>1. packet \in BoundedSeq(Bytes, Longest)
  BY Bounded, Constants DEF PacketOK
<1>2. QED BY <1>1 DEF UInv, RxOK, TxOK, CallOK, Cells, Frames, Ns, Data, TypeOK

LEMMA QuietRx == RxOK /\ UNCHANGED <<open, remaining, remote, rx, behind>> => RxOK'
BY DEF RxOK, Holds

LEMMA QuietTx ==
  ASSUME TxOK, pc # "send_wait", pc' # "send_wait",
         UNCHANGED <<building, offset, mem, TX_RD, TX_WR, written, ir, wire>>
  PROVE  TxOK'
BY DEF TxOK

LEMMA ReturnOK ==
  ASSUME open' \in {0, 1}, NEW n \in Ns, NEW data \in Data, Return(n, data)
  PROVE  CallOK' /\ pc' = "idle"
BY DEF CallOK, Return

LEMMA SmallNs == -1 \in Ns /\ 0 \in Ns /\ 1 \in Ns /\ (0 .. MaxLen) \subseteq Ns
BY Constants DEF Ns

-----------------------------------------------------------------------------
(* begin, beginMulticast and stop. *)

LEMMA NothingHeld ==
  /\ <<>> \in Seq(Cells) /\ Len(<<>>) <= RxSize
  /\ <<>> \in Seq(Frames) /\ Holds(<<>>, 0, <<>>)
<1>1. <<>> \in Seq(Cells) /\ Len(<<>>) = 0 /\ <<>> \in Seq(Frames)
  BY EmptySeq
<1> DEFINE at == [i \in {1} |-> 1]
<1>2. at \in [1 .. Len(<<>>) + 1 -> 1 .. Len(<<>>) + 1]
  BY <1>1
<1>3. at[1] = 1 /\ 1 .. Len(<<>>) + 1 = {1}
  BY <1>1
<1> HIDE DEF at
<1>4. Placed(<<>>, 0, <<>>, at)
  BY <1>1, <1>2, <1>3 DEF Placed
<1>5. QED BY <1>1, <1>2, <1>4, Constants DEF Holds

LEMMA OpenInv == UInv /\ Open => UInv'
<1> SUFFICES ASSUME UInv, Open PROVE UInv'
  OBVIOUS
<1>1. RxOK'
  BY NothingHeld, Constants DEF UInv, RxOK, Open, Opened
<1>2. CallOK' /\ pc' = "idle"
  BY ReturnOK, SmallNs, NoData DEF Open
<1>3. TxOK'
  BY <1>2, Constants DEF UInv, TxOK, Open, Opened
<1>4. QED BY <1>1, <1>2, <1>3 DEF UInv

LEMMA StopInv == UInv /\ EthernetUDP_stop => UInv'
<1> SUFFICES ASSUME UInv, EthernetUDP_stop PROVE UInv'
  OBVIOUS
<1>1. pc = "idle" /\ open' = 0 /\ building' = 0 /\ ir' = "none" /\ Return(0, <<>>)
      /\ behind' = <<>> /\ UNCHANGED <<object, rx, txBuffer, wire>>
  BY DEF EthernetUDP_stop, Idle
<1>2. RxOK'
  BY <1>1, NothingHeld DEF UInv, RxOK, object
<1>3. CallOK' /\ pc' = "idle"
  BY <1>1, ReturnOK, SmallNs, NoData
<1>4. TxOK'
  BY <1>1, <1>3 DEF UInv, TxOK, object, txBuffer
<1>5. QED BY <1>2, <1>3, <1>4 DEF UInv

-----------------------------------------------------------------------------
(* Receiving. *)

\* A read of k bytes of the current datagram.
LEMMA ReadRx ==
  ASSUME UInv, open = 1, NEW k \in 0 .. remaining, recv(k), remaining' = remaining - k,
         UNCHANGED <<open, remote, behind>>
  PROVE  /\ RxOK' /\ k <= Len(rx)
         /\ SubSeq(rx, 1, k) \in Data
         /\ k = 1 => <<rx[1]>> \in Data
<1>1. /\ rx \in Seq(Cells) /\ Len(rx) \in Nat /\ remaining \in Nat /\ k \in Nat
      /\ remaining <= MaxLen /\ Holds(rx, remaining, behind) /\ Len(rx) <= RxSize
  BY LenProperties, Constants DEF UInv, RxOK
<1>2. k \in 0 .. Len(rx) /\ \A q \in 1 .. k : rx[q] \in Bytes
  BY <1>1, HoldsFits
<1>3. rx' \in Seq(Cells) /\ Len(rx') = Len(rx) - k
  BY <1>1, <1>2, Behind_k DEF recv
<1>4. Holds(rx', remaining - k, behind)
  BY <1>1, ReadHolds DEF recv
<1>5. RxOK'
  BY <1>1, <1>2, <1>3, <1>4, Constants DEF UInv, RxOK
<1>6. SubSeq(rx, 1, k) \in Seq(Bytes) /\ Len(SubSeq(rx, 1, k)) = k /\ k <= MaxLen
  BY <1>1, <1>2, First_k, Constants
<1>7. SubSeq(rx, 1, k) \in Data
  BY <1>6, ShortData
<1>8. ASSUME k = 1 PROVE <<rx[1]>> \in Data
  <2>1. <<rx[1]>> \in Seq(Bytes) /\ Len(<<rx[1]>>) = 1 /\ 1 <= MaxLen
    BY <1>1, <1>2, <1>8, Constants
  <2>2. QED BY <2>1, ShortData
<1>9. QED BY <1>2, <1>5, <1>7, <1>8

\* What recv() finds: the bytes that are counted are there.
LEMMA GotIs ==
  ASSUME UInv, open = 1, NEW len \in Nat, len <= remaining, 0 < len
  PROVE  Got(len) = len
<1>1. rx \in Seq(Cells) /\ Len(rx) \in Nat /\ remaining \in Nat /\ Holds(rx, remaining, behind)
  BY LenProperties, Constants DEF UInv, RxOK
<1>2. remaining <= Len(rx)
  BY <1>1, HoldsFits
<1>3. rx # <<>> /\ len <= Len(rx)
  BY <1>1, <1>2
<1>4. QED BY <1>1, <1>3, MinIs DEF Got

LEMMA ReadByteInv == UInv /\ EthernetUDP_read => UInv'
<1> SUFFICES ASSUME UInv, EthernetUDP_read PROVE UInv'
  OBVIOUS
<1>1. pc = "idle" /\ open = 1 /\ ReadByte /\ UNCHANGED <<open, remote, behind>>
      /\ UNCHANGED <<offset, building, txBuffer, ir, wire>>
  BY DEF EthernetUDP_read, Idle
<1>2. CASE remaining > 0 /\ Got(1) > 0
  <2>1. recv(1) /\ remaining' = remaining - 1 /\ Return(1, <<rx[1]>>)
    BY <1>1, <1>2 DEF ReadByte
  <2>2. 1 \in 0 .. remaining
    BY <1>2 DEF UInv, RxOK
  <2>3. RxOK' /\ <<rx[1]>> \in Data
    BY <1>1, <2>1, <2>2, ReadRx
  <2>4. CallOK' /\ pc' = "idle"
    BY <1>1, <2>1, <2>3, ReturnOK, SmallNs
  <2>5. QED BY <1>1, <2>3, <2>4, QuietTx DEF UInv, txBuffer
<1>3. CASE ~(remaining > 0 /\ Got(1) > 0)
  <2>1. Return(-1, <<>>) /\ UNCHANGED <<rx, remaining>>
    BY <1>1, <1>3 DEF ReadByte
  <2>2. CallOK' /\ pc' = "idle"
    BY <1>1, <2>1, ReturnOK, SmallNs, NoData
  <2>3. QED BY <1>1, <2>1, <2>2, QuietRx, QuietTx DEF UInv, txBuffer
<1>4. QED BY <1>2, <1>3

LEMMA ReadBufInv == UInv /\ EthernetUDP_read_buf => UInv'
<1> SUFFICES ASSUME UInv, EthernetUDP_read_buf PROVE UInv'
  OBVIOUS
<1>1. pc = "idle" /\ open = 1 /\ UNCHANGED <<open, remote, behind>>
      /\ UNCHANGED <<offset, building, txBuffer, ir, wire>>
  BY DEF EthernetUDP_read_buf, Idle
<1>2. PICK len \in 1 .. MaxLen : ReadBuf(len)
  BY DEF EthernetUDP_read_buf
<1> DEFINE k == Min({remaining, len})
<1>3. k = (IF remaining <= len THEN remaining ELSE len) /\ remaining \in 0 .. MaxLen
  BY MinIs, Constants DEF UInv, RxOK
<1>4. CASE remaining > 0 /\ Got(k) > 0
  <2>1. k \in 0 .. remaining /\ k \in Nat /\ 0 < k /\ k \in 0 .. MaxLen
    BY <1>3, <1>4, Constants
  <2>2. Got(k) = k
    BY <1>1, <2>1, GotIs
  <2>3. recv(k) /\ remaining' = remaining - k /\ Return(k, SubSeq(rx, 1, k))
    BY <1>2, <1>4, <2>2 DEF ReadBuf
  <2> HIDE DEF k
  <2>4. RxOK' /\ SubSeq(rx, 1, k) \in Data
    BY <1>1, <2>1, <2>3, ReadRx
  <2>5. CallOK' /\ pc' = "idle"
    BY <1>1, <2>1, <2>3, <2>4, ReturnOK, SmallNs
  <2>6. QED BY <1>1, <2>4, <2>5, QuietTx DEF UInv, txBuffer
<1>5. CASE ~(remaining > 0 /\ Got(k) > 0)
  <2>1. Return(-1, <<>>) /\ UNCHANGED <<rx, remaining>>
    BY <1>2, <1>5 DEF ReadBuf
  <2>2. CallOK' /\ pc' = "idle"
    BY <1>1, <2>1, ReturnOK, SmallNs, NoData
  <2>3. QED BY <1>1, <2>1, <2>2, QuietRx, QuietTx DEF UInv, txBuffer
<1>6. QED BY <1>4, <1>5

LEMMA PeekInv == UInv /\ (EthernetUDP_peek \/ EthernetUDP_available) => UInv'
<1> SUFFICES ASSUME UInv, EthernetUDP_peek \/ EthernetUDP_available PROVE UInv'
  OBVIOUS
<1>1. pc = "idle" /\ open = 1 /\ UNCHANGED <<open, object, building, chip>>
  BY DEF EthernetUDP_peek, EthernetUDP_available, Idle
<1>2. RxOK'
  BY <1>1, QuietRx DEF UInv, object, chip, rxBuffer
<1>3. PICK n \in Ns : \E data \in Data : Return(n, data)
  <2>1. CASE EthernetUDP_available
    BY <2>1, NoData, SmallNs DEF EthernetUDP_available, UInv, RxOK
  <2>2. CASE EthernetUDP_peek /\ remaining = 0
    BY <2>2, NoData, SmallNs DEF EthernetUDP_peek
  <2>3. CASE EthernetUDP_peek /\ remaining # 0
    <3>1. remaining \in 1 .. MaxLen /\ Holds(rx, remaining, behind) /\ rx \in Seq(Cells)
      BY <1>1, <2>3, Constants DEF UInv, RxOK
    <3>2. rx[1] \in Bytes
      BY <3>1, HoldsFits, Constants
    <3>3. <<rx[1]>> \in Seq(Bytes) /\ Len(<<rx[1]>>) <= MaxLen
      BY <3>1, <3>2, Constants
    <3>4. Return(1, <<rx[1]>>)
      BY <2>3 DEF EthernetUDP_peek
    <3>5. QED BY <3>3, <3>4, ShortData, SmallNs
  <2>4. QED BY <2>1, <2>2, <2>3
<1>4. CallOK' /\ pc' = "idle"
  BY <1>1, <1>3, ReturnOK
<1>5. QED BY <1>1, <1>2, <1>4, QuietTx DEF UInv, object, chip, txBuffer, rxBuffer

LEMMA FlushInv ==
  ASSUME UInv, NEW label \in {"flush", "parse_flush"}, EthernetUDP_flush(label)
  PROVE  UInv'
<1>1. pc = "idle" /\ open = 1 /\ pc' = label /\ result' = [n |-> 0, data |-> <<>>]
      /\ UNCHANGED <<open, object, building, chip>>
  BY DEF EthernetUDP_flush, Idle
<1>2. CallOK'
  BY <1>1, NoData, SmallNs DEF CallOK
<1>3. QED BY <1>1, <1>2, QuietRx, QuietTx DEF UInv, object, chip, txBuffer, rxBuffer

LEMMA FlushReadInv == UInv /\ FlushRead => UInv'
<1> SUFFICES ASSUME UInv, FlushRead PROVE UInv'
  OBVIOUS
<1>1. pc \in {"flush", "parse_flush"} /\ remaining > 0 /\ UNCHANGED <<open, remote, behind>>
      /\ UNCHANGED <<offset, building, pc, result, txBuffer, ir, wire>>
  BY DEF FlushRead
<1>2. open = 1 /\ 1 \in 0 .. remaining /\ 1 <= remaining
  BY <1>1 DEF UInv, CallOK, RxOK
<1>3. Got(1) = 1
  BY <1>2, GotIs
<1>4. RxOK'
  BY <1>1, <1>2, <1>3, ReadRx DEF FlushRead
<1>5. CallOK'
  BY <1>1 DEF UInv, CallOK
<1>6. QED BY <1>1, <1>4, <1>5, QuietTx DEF UInv, txBuffer

LEMMA FlushDoneInv == UInv /\ FlushDone => UInv'
<1> SUFFICES ASSUME UInv, FlushDone PROVE UInv'
  OBVIOUS
<1>1. pc \in {"flush", "parse_flush"} /\ remaining = 0 /\ UNCHANGED <<open, object, building, chip>>
      /\ (Return(0, <<>>) \/ (pc' = "parse" /\ UNCHANGED result))
  BY DEF FlushDone
<1>2. CallOK' /\ pc' # "send_wait"
  <2>1. CASE Return(0, <<>>)
    BY <1>1, <2>1, ReturnOK, SmallNs, NoData DEF UInv, CallOK
  <2>2. CASE pc' = "parse" /\ UNCHANGED result
    BY <1>1, <2>2 DEF UInv, CallOK, object
  <2>3. QED BY <1>1, <2>1, <2>2
<1>3. QED BY <1>1, <1>2, QuietRx, QuietTx DEF UInv, object, chip, txBuffer, rxBuffer

LEMMA ParseInv == UInv /\ Parse => UInv'
<1> SUFFICES ASSUME UInv, Parse PROVE UInv'
  OBVIOUS
<1>1. pc = "parse" /\ open = 1 /\ remaining = 0 /\ UNCHANGED open
      /\ UNCHANGED <<offset, building, txBuffer, ir, wire>>
  BY DEF Parse, UInv, CallOK
<1>2. CASE rx = <<>>
  <2>1. Return(0, <<>>) /\ UNCHANGED <<rx, behind, remote, remaining>>
    BY <1>2 DEF Parse, rxBuffer
  <2>2. CallOK' /\ pc' = "idle"
    BY <1>1, <2>1, ReturnOK, SmallNs, NoData
  <2>3. QED BY <1>1, <2>1, <2>2, QuietRx, QuietTx DEF UInv, txBuffer
<1>3. CASE rx # <<>>
  <2>1. recv(2) /\ remote' = rx[1] /\ remaining' = rx[2] /\ Return(rx[2], <<>>)
        /\ behind' = Tail(behind)
    BY <1>3 DEF Parse
  <2>2. rx \in Seq(Cells) /\ Holds(rx, 0, behind) /\ Len(rx) <= RxSize /\ Len(rx) \in Nat
    BY <1>1, LenProperties DEF UInv, RxOK
  <2>3. /\ 2 <= Len(rx) /\ behind \in Seq(Frames) /\ behind # <<>>
        /\ rx[1] = behind[1].from /\ rx[2] = Len(behind[1].data)
        /\ Holds(SubSeq(rx, 3, Len(rx)), rx[2], Tail(behind))
    BY <1>3, <2>2, HeaderHolds
  <2>4. rx[1] \in Peers /\ rx[2] \in 0 .. MaxLen
    <3>1. behind[1] \in Frames
      BY <2>3, EmptySeq, ElementOfSeq
    <3>2. QED BY <2>3, <3>1, FrameIs
  <2>5. 2 \in 0 .. Len(rx) /\ rx' = SubSeq(rx, 2 + 1, Len(rx)) /\ 2 + 1 = 3
    BY <2>1, <2>2, <2>3 DEF recv
  <2>6. rx' \in Seq(Cells) /\ Len(rx') = Len(rx) - 2
    BY <2>2, <2>5, Behind_k
  <2>7. RxOK'
    <3>1. Tail(behind) \in Seq(Frames)
      BY <2>3, HeadTailProperties
    <3>2. Len(rx') <= RxSize
      BY <2>2, <2>6, Constants
    <3>3. Holds(rx', remaining', behind')
      BY <2>1, <2>3, <2>5
    <3>4. QED BY <2>1, <2>4, <2>6, <3>1, <3>2, <3>3 DEF RxOK
  <2>8. CallOK' /\ pc' = "idle"
    BY <1>1, <2>1, <2>4, ReturnOK, SmallNs, NoData
  <2>9. QED BY <1>1, <2>7, <2>8, QuietTx DEF UInv, txBuffer
<1>4. QED BY <1>2, <1>3

LEMMA ArriveInv == UInv /\ Arrive => UInv'
<1> SUFFICES ASSUME UInv, Arrive PROVE UInv'
  OBVIOUS
<1>1. PICK d \in Datagrams, p \in Peers :
        /\ Len(rx) + 2 + Len(d) <= RxSize /\ rx' = rx \o <<p, Len(d)>> \o d
        /\ behind' = Append(behind, [from |-> p, data |-> d])
  BY DEF Arrive
<1>2. open = 1 /\ UNCHANGED <<open, object, building, pc, result, txBuffer, ir, wire>>
  BY DEF Arrive
<1>3. rx \in Seq(Cells) /\ remaining \in Nat /\ Holds(rx, remaining, behind)
  BY <1>2, Constants DEF UInv, RxOK
<1>4. rx' \in Seq(Cells) /\ Len(rx') = Len(rx) + 2 + Len(d) /\ Holds(rx', remaining, behind')
  BY <1>1, <1>3, ArriveHolds
<1>5. RxOK'
  BY <1>1, <1>2, <1>4 DEF UInv, RxOK, object, Holds
<1>6. TxOK' /\ CallOK'
  BY <1>2 DEF UInv, TxOK, CallOK, Span, object, txBuffer
<1>7. QED BY <1>5, <1>6 DEF UInv

-----------------------------------------------------------------------------
(* Sending. *)

LEMMA BeginPacketInv == UInv /\ EthernetUDP_beginPacket_ip => UInv'
<1> SUFFICES ASSUME UInv, EthernetUDP_beginPacket_ip PROVE UInv'
  OBVIOUS
<1>1. pc = "idle" /\ offset' = 0 /\ building' = 1 /\ UNCHANGED <<open, remaining, remote, chip>>
  BY DEF EthernetUDP_beginPacket_ip, Idle
<1>2. PICK accepted \in {0, 1} : Return(accepted, <<>>)
  BY DEF EthernetUDP_beginPacket_ip
<1>3. CallOK' /\ pc' = "idle"
  BY <1>1, <1>2, ReturnOK, SmallNs, NoData DEF UInv, CallOK
<1>4. TxOK'
  BY <1>1, <1>3, Constants DEF UInv, TxOK, chip, txBuffer, rxBuffer
<1>5. QED BY <1>1, <1>3, <1>4, QuietRx DEF UInv, chip, rxBuffer

\* The cell a pointer names may be found before or after the pointer is reduced.
LEMMA CellOfMod ==
  ASSUME NEW a \in Int, NEW b \in Int
  PROVE  Cell((a % Mod) + b) = Cell(a + b)
<1>1. /\ Mod \in Nat \ {0} /\ TxSize \in Nat \ {0} /\ Mod % TxSize = 0
  BY UdpAssumption
<1>2. a % Mod \in Int /\ ((a % Mod) % TxSize) = a % TxSize
  <2>1. a % Mod \in Int
    BY <1>1, DivMod
  <2>2. (a % Mod) % TxSize = a % TxSize
    BY <1>1, ModMod
  <2>3. QED BY <2>1, <2>2
<1>3. (((a % Mod) % TxSize) + b) % TxSize = ((a % Mod) + b) % TxSize
  BY ONLY <1>1, <1>2, b \in Int, ModPlus
<1>4. ((a % TxSize) + b) % TxSize = (a + b) % TxSize
  BY <1>1, ModPlus
<1>5. QED BY <1>2, <1>3, <1>4 DEF Cell

\* Pointers that name the same cells stand before the same bytes.
LEMMA SameSpan ==
  ASSUME NEW a, NEW b, NEW n, \A k \in 1 .. n : Cell(a + k - 1) = Cell(b + k - 1)
  PROVE  Span(a, n) = Span(b, n)
BY DEF Span

\* Copying into the transmit buffer, wherever the data wraps around.
LEMMA CopyOK ==
  ASSUME TxOK, NEW data \in Seq(Bytes), send_data_processing_offset(data)
  PROVE  /\ mem' \in [0 .. TxSize - 1 -> Bytes]
         /\ written' = (TX_WR + offset + Len(data)) % Mod
<1> DEFINE ptr == TX_WR + offset
           Hits(c) == {k \in 1 .. Len(data) : Cell(ptr + k - 1) = c}
<1>1. /\ mem' = [c \in DOMAIN mem |-> IF Hits(c) = {} THEN mem[c] ELSE data[Max(Hits(c))]]
      /\ written' = (ptr + Len(data)) % Mod
  BY DEF send_data_processing_offset
<1>2. \A c : Hits(c) \in SUBSET (1 .. Len(data))
  OBVIOUS
<1>3. Len(data) \in Nat /\ DOMAIN mem = 0 .. TxSize - 1
  BY LenProperties DEF TxOK
<1> HIDE DEF Hits
<1>4. ASSUME NEW c, Hits(c) # {} PROVE data[Max(Hits(c))] \in Bytes
  <2>1. Max(Hits(c)) \in 1 .. Len(data)
    BY <1>2, <1>3, <1>4, MaxIs
  <2>2. QED BY <2>1, ElementOfSeq
<1>5. QED BY <1>1, <1>3, <1>4 DEF TxOK

LEMMA WriteInv == UInv /\ WriteSome => UInv'
<1> SUFFICES ASSUME UInv, WriteSome PROVE UInv'
  OBVIOUS
<1>1. PICK d \in Datagrams : offset + Len(d) <= Longest /\ EthernetUDP_write(d)
  BY DEF WriteSome
<1>2. pc = "idle" /\ open = 1 /\ building = 1
      /\ UNCHANGED <<open, remaining, remote, building, rxBuffer, TX_RD, TX_WR, ir, wire>>
  BY <1>1 DEF EthernetUDP_write, Idle
<1> DEFINE ret == Min({Len(d), TXFreeSize})
<1>3. /\ offset + Len(d) <= Longest /\ send_data_processing_offset(SubSeq(d, 1, ret))
      /\ offset' = offset + ret /\ Return(ret, <<>>)
  BY <1>1 DEF EthernetUDP_write
<1>4. d \in Seq(Bytes) /\ Len(d) <= MaxLen /\ Len(d) \in Nat
  BY Bounded, Constants, LenProperties DEF Datagrams
<1>5. TXFreeSize = TxSize
  <2>1. TX_WR = TX_RD /\ TX_WR \in Nat
    BY <1>2, Constants DEF UInv, TxOK
  <2>2. (TX_WR - TX_RD) % Mod = 0
    BY <2>1, Constants
  <2>3. QED BY <2>2, Constants DEF TXFreeSize
<1>6. ret \in 0 .. Len(d) /\ ret \in 0 .. MaxLen
  BY <1>4, <1>5, MinIs, Constants
<1>7. SubSeq(d, 1, ret) \in Seq(Bytes) /\ Len(SubSeq(d, 1, ret)) = ret
  <2>1. \A q \in 1 .. ret : d[q] \in Bytes
    BY <1>4, <1>6, ElementOfSeq
  <2>2. ret \in Nat
    BY <1>6
  <2> HIDE DEF ret
  <2>3. QED BY <2>1, <2>2, First_k
<1>8. mem' \in [0 .. TxSize - 1 -> Bytes] /\ written' = (TX_WR + offset + ret) % Mod
  BY <1>3, <1>7, CopyOK DEF UInv
<1>9. CallOK' /\ pc' = "idle"
  BY <1>2, <1>3, <1>6, ReturnOK, SmallNs, NoData
<1>10. TX_WR \in Nat /\ offset \in Nat /\ ret \in Nat /\ offset' \in 0 .. Longest
  BY <1>3, <1>4, <1>6, Constants DEF UInv, TxOK
<1>11. written' \in 0 .. Mod - 1 /\ written' = (TX_WR' + offset') % Mod
  <2>1. TX_WR + offset + ret = TX_WR' + offset' /\ TX_WR + offset + ret \in Int
    BY <1>2, <1>3, <1>10
  <2>2. QED BY <1>8, <2>1, DivMod, Constants
<1>12. TxOK'
  BY <1>2, <1>8, <1>9, <1>10, <1>11 DEF UInv, TxOK
<1>13. QED BY <1>2, <1>9, <1>12, QuietRx DEF UInv, rxBuffer

LEMMA EndPacketInv == UInv /\ EthernetUDP_endPacket => UInv'
<1> SUFFICES ASSUME UInv, EthernetUDP_endPacket PROVE UInv'
  OBVIOUS
<1>1. /\ pc = "idle" /\ open = 1 /\ building = 1 /\ offset > 0 /\ TX_WR' = written
      /\ pc' = "send_wait" /\ result' = [n |-> 0, data |-> <<>>]
      /\ UNCHANGED <<open, object, building, rxBuffer, mem, TX_RD, written, ir, wire>>
  BY DEF EthernetUDP_endPacket, Idle
<1>2. /\ written = (TX_WR + offset) % Mod /\ TX_RD = TX_WR /\ ir = "none"
      /\ TX_WR \in 0 .. Mod - 1 /\ offset \in 0 .. Mod - 1
  BY <1>1, Constants DEF UInv, TxOK
<1>3. (TX_WR' - TX_RD') % Mod = offset
  BY <1>1, <1>2, MovedOn, Constants
<1>4. TxOK'
  BY <1>1, <1>2, <1>3 DEF UInv, TxOK, object
<1>5. CallOK'
  BY <1>1, NoData, SmallNs DEF CallOK
<1>6. QED BY <1>1, <1>4, <1>5, QuietRx DEF UInv, rxBuffer, object

LEMMA SendOverInv == UInv /\ SendOver => UInv'
<1> SUFFICES ASSUME UInv, SendOver PROVE UInv'
  OBVIOUS
<1>1. /\ pc = "send_wait" /\ ir = "none" /\ TX_RD' = TX_WR
      /\ UNCHANGED <<open, object, building, pc, result, rxBuffer, mem, TX_WR, written>>
  BY DEF SendOver
<1>2. ir' \in {"SEND_OK", "TIMEOUT"} /\ wire' \in {wire, Span(TX_RD, offset)}
  BY <1>1 DEF SendOver, UInv, TxOK
<1>3. Span(TX_RD, offset) \in BoundedSeq(Bytes, Longest)
  <2>1. \A k \in 1 .. offset : Cell(TX_RD + k - 1) \in 0 .. TxSize - 1
    <3>1. ASSUME NEW k \in 1 .. offset PROVE TX_RD + k - 1 \in Int
      BY Constants DEF UInv, TxOK
    <3>2. QED BY <3>1, DivMod, Constants DEF Cell
  <2>2. Span(TX_RD, offset) \in [1 .. offset -> Bytes] /\ offset \in 0 .. Longest
    BY <2>1 DEF Span, UInv, TxOK
  <2>3. QED BY <2>2 DEF BoundedSeq, SeqOf
<1>4. ir' = "SEND_OK" => wire' = Span(TX_WR - offset, offset)
  <2>1. SUFFICES ASSUME ir' = "SEND_OK" PROVE wire' = Span(TX_WR - offset, offset)
    OBVIOUS
  <2>2. /\ wire' = Span(TX_RD, offset) /\ (TX_WR - TX_RD) % Mod = offset
        /\ TX_WR \in Int /\ TX_RD \in Int /\ offset \in Nat
    BY <1>1, <2>1, Constants DEF SendOver, UInv, TxOK
  <2>3. ASSUME NEW k \in 1 .. offset
        PROVE  Cell(TX_RD + k - 1) = Cell((TX_WR - offset) + k - 1)
    <3>1. TX_WR - TX_RD \in Int /\ TX_RD - offset + k - 1 \in Int
      BY <2>2
    <3>2. Cell(((TX_WR - TX_RD) % Mod) + (TX_RD - offset + k - 1))
            = Cell((TX_WR - TX_RD) + (TX_RD - offset + k - 1))
      BY ONLY <3>1, CellOfMod
    <3>3. /\ offset + (TX_RD - offset + k - 1) = TX_RD + k - 1
          /\ (TX_WR - TX_RD) + (TX_RD - offset + k - 1) = (TX_WR - offset) + k - 1
      BY <2>2
    <3>4. QED BY <2>2, <3>2, <3>3
  <2>4. QED BY <2>2, <2>3, SameSpan
<1>5. (ir = "SEND_OK" => wire = Span(TX_WR - offset, offset))'
  BY <1>1, <1>4 DEF Span, object
<1>6. TxOK'
  BY <1>1, <1>2, <1>3, <1>5 DEF UInv, TxOK, object
<1>7. QED BY <1>1, <1>6, QuietRx DEF UInv, CallOK, rxBuffer, object

LEMMA SentInv == UInv /\ (EndPacketSent \/ EndPacketTimeout) => UInv'
<1> SUFFICES ASSUME UInv, EndPacketSent \/ EndPacketTimeout PROVE UInv'
  OBVIOUS
<1>1. pc = "send_wait" /\ ir # "none" /\ ir' = "none" /\ building' = 0
      /\ UNCHANGED <<open, object, rxBuffer, txBuffer>>
  BY DEF EndPacketSent, EndPacketTimeout
<1>2. wire \in Data /\ <<>> \in BoundedSeq(Bytes, Longest)
  BY Bounded, ShortData, EmptySeq, Constants DEF UInv, TxOK
<1>3. wire' \in BoundedSeq(Bytes, Longest)
  BY <1>2 DEF EndPacketSent, EndPacketTimeout, UInv, TxOK
<1>4. CallOK' /\ pc' = "idle"
  <2>1. open' \in {0, 1}
    BY <1>1 DEF UInv, CallOK
  <2>2. QED BY <1>2, <2>1, ReturnOK, SmallNs, NoData DEF EndPacketSent, EndPacketTimeout
<1>5. TxOK'
  BY <1>1, <1>3, <1>4 DEF UInv, TxOK, object, txBuffer
<1>6. QED BY <1>1, <1>4, <1>5, QuietRx DEF UInv, rxBuffer, object

-----------------------------------------------------------------------------
(* The invariant and its theorems. *)

LEMMA InitInv == Init => UInv
<1> SUFFICES ASSUME Init PROVE UInv
  OBVIOUS
<1>1. RxOK
  BY NothingHeld, Constants DEF Init, RxOK
<1>2. <<>> \in BoundedSeq(Bytes, Longest)
  <2>1. <<>> \in Seq(Bytes) /\ Len(<<>>) <= Longest
    BY EmptySeq, Constants
  <2>2. QED BY <2>1, Bounded, Constants
<1>3. TxOK
  BY <1>2, Constants DEF Init, TxOK
<1>4. CallOK
  BY NoData, SmallNs DEF Init, CallOK
<1>5. QED BY <1>1, <1>3, <1>4 DEF UInv

LEMMA NextInv == UInv /\ [Next]_vars => UInv'
<1> SUFFICES ASSUME UInv, [Next]_vars PROVE UInv'
  OBVIOUS
<1>1. CASE Call
  BY <1>1, OpenInv, StopInv, ReadByteInv, ReadBufInv, PeekInv, FlushInv, BeginPacketInv,
     WriteInv, EndPacketInv DEF Call, EthernetUDP_begin, EthernetUDP_beginMulticast
<1>2. CASE Continue
  BY <1>2, FlushReadInv, FlushDoneInv, ParseInv, SentInv DEF Continue
<1>3. CASE UNCHANGED vars
  BY <1>3 DEF UInv, RxOK, TxOK, CallOK, Span, vars, object, chip, txBuffer, rxBuffer
<1>4. QED BY <1>1, <1>2, <1>3, ArriveInv, SendOverInv DEF Next

LEMMA Invariant == Spec => []UInv
<1>1. QED BY InitInv, NextInv, PTL DEF Spec

\* The unread bytes of the current datagram are in the receive buffer, so that flush and
\* parsePacket, which count on them, come to an end (EthernetUdp.c:204-206).
THEOREM CountedBytesAreThere == Spec => []RemainingIsThere
<1>1. QED BY Invariant, Meaning, PTL

-----------------------------------------------------------------------------
(* The object implements the datagram service. What of the mapping a step leaves alone. *)

LEMMA QuietUnread ==
  ASSUME pc \in {"idle", "send_wait"}, pc' \in {"idle", "send_wait"},
         UNCHANGED <<open, remaining, rx>>
  PROVE  Unread' = Unread
BY DEF Unread

\* The first n cells of a buffer, from which k are taken.
LEMMA TakeFirst ==
  ASSUME NEW S, NEW s \in Seq(S), NEW n \in 0 .. Len(s), NEW k \in 0 .. n
  PROVE  /\ SubSeq(s, 1, n) \in Seq(S) /\ Len(SubSeq(s, 1, n)) = n
         /\ \A i \in 1 .. n : SubSeq(s, 1, n)[i] = s[i]
         /\ SubSeq(SubSeq(s, 1, n), 1, k) = SubSeq(s, 1, k)
         /\ SubSeq(SubSeq(s, k + 1, Len(s)), 1, n - k) = SubSeq(SubSeq(s, 1, n), k + 1, n)
<1>0. Len(s) \in Nat
  BY LenProperties
<1>1. ASSUME NEW m \in 0 .. Len(s)
      PROVE  /\ SubSeq(s, 1, m) \in Seq(S) /\ Len(SubSeq(s, 1, m)) = m
             /\ \A i \in 1 .. m : SubSeq(s, 1, m)[i] = s[i]
  <2>1. \A i \in 1 .. m : s[i] \in S
    BY <1>0, ElementOfSeq
  <2>2. /\ SubSeq(s, 1, m) \in Seq(S)
        /\ Len(SubSeq(s, 1, m)) = IF 1 <= m THEN m - 1 + 1 ELSE 0
        /\ \A i \in 1 .. m - 1 + 1 : SubSeq(s, 1, m)[i] = s[1 + i - 1]
    BY <2>1, SubSeqProperties
  <2>3. QED BY <2>2
<1> DEFINE u == SubSeq(s, 1, n)
           t == SubSeq(s, k + 1, Len(s))
<1>2. /\ u \in Seq(S) /\ Len(u) = n /\ \A i \in 1 .. n : u[i] = s[i]
  BY <1>1
<1>3. /\ SubSeq(s, 1, k) \in Seq(S) /\ Len(SubSeq(s, 1, k)) = k
      /\ \A i \in 1 .. k : SubSeq(s, 1, k)[i] = s[i]
  BY <1>0, <1>1
<1>4. t \in Seq(S) /\ Len(t) = Len(s) - k /\ \A i \in 1 .. Len(s) - k : t[i] = s[k + i]
  BY <1>0, Behind_k
<1> HIDE DEF u, t
<1>5. SubSeq(u, 1, k) = SubSeq(s, 1, k)
  <2>1. \A i \in 1 .. k : u[i] \in S
    BY <1>2, ElementOfSeq
  <2>2. /\ SubSeq(u, 1, k) \in Seq(S)
        /\ Len(SubSeq(u, 1, k)) = IF 1 <= k THEN k - 1 + 1 ELSE 0
        /\ \A i \in 1 .. k - 1 + 1 : SubSeq(u, 1, k)[i] = u[1 + i - 1]
    BY <2>1, SubSeqProperties
  <2>3. Len(SubSeq(u, 1, k)) = k /\ \A i \in 1 .. k : SubSeq(u, 1, k)[i] = SubSeq(s, 1, k)[i]
    BY <1>2, <1>3, <2>2
  <2>4. QED BY <1>3, <2>2, <2>3, SeqEqual
<1>6. SubSeq(t, 1, n - k) = SubSeq(u, k + 1, n)
  <2>1. n - k \in Nat /\ \A i \in 1 .. n - k : t[i] \in S
    BY <1>0, <1>4, ElementOfSeq
  <2>2. /\ SubSeq(t, 1, n - k) \in Seq(S) /\ Len(SubSeq(t, 1, n - k)) = n - k
    BY <2>1, First_k
  <2>3. \A i \in 1 .. (n - k) - 1 + 1 : SubSeq(t, 1, n - k)[i] = t[1 + i - 1]
    BY <2>1, SubSeqProperties
  <2>4. SubSeq(u, k + 1, n) \in Seq(S) /\ Len(SubSeq(u, k + 1, n)) = n - k
        /\ \A i \in 1 .. n - k : SubSeq(u, k + 1, n)[i] = u[k + i]
    BY <1>2, Behind_k
  <2>5. ASSUME NEW i \in 1 .. n - k
        PROVE  SubSeq(t, 1, n - k)[i] = SubSeq(u, k + 1, n)[i]
    <3>1. i \in 1 .. (n - k) - 1 + 1 /\ 1 + i - 1 = i /\ i \in 1 .. Len(s) - k /\ k + i \in 1 .. n
      BY <1>0
    <3>2. SubSeq(t, 1, n - k)[i] = t[i] /\ t[i] = s[k + i] /\ u[k + i] = s[k + i]
      BY <1>2, <1>4, <2>3, <3>1
    <3>3. QED BY <2>4, <3>2
  <2>6. QED BY <2>2, <2>4, <2>5, SeqEqual
<1>7. QED BY <1>2, <1>5, <1>6 DEF u, t

\* The unread bytes in a state in which the thread is not about to skip them.
LEMMA UnreadIs ==
  ASSUME UInv, open = 1, pc \in {"idle", "send_wait"}
  PROVE  /\ Unread = SubSeq(rx, 1, remaining)
         /\ rx \in Seq(Cells) /\ remaining \in 0 .. Len(rx)
         /\ Unread \in Seq(Cells) /\ Len(Unread) = remaining
         /\ \A i \in 1 .. remaining : Unread[i] = rx[i]
<1>1. rx \in Seq(Cells) /\ remaining \in Nat /\ Holds(rx, remaining, behind) /\ Len(rx) \in Nat
  BY LenProperties, Constants DEF UInv, RxOK
<1>2. remaining \in 0 .. Len(rx) /\ 0 \in 0 .. remaining
  BY <1>1, HoldsFits
<1>3. Unread = SubSeq(rx, 1, remaining)
  BY DEF Unread
<1>4. QED BY <1>1, <1>2, <1>3, TakeFirst

-----------------------------------------------------------------------------
(* The packet. *)

LEMMA PacketQuiet ==
  ASSUME PacketOK, UNCHANGED <<building, packet, offset, mem, TX_WR>>,
         pc' = pc \/ (pc # "send_wait" /\ pc' # "send_wait")
  PROVE  PacketOK'
BY DEF PacketOK, Written, Span

LEMMA PacketGone ==
  ASSUME packet' = <<>>, building' = 0 \/ offset' = 0
  PROVE  PacketOK'
<1>1. packet' \in Seq(Bytes) /\ Len(packet') = 0
  BY EmptySeq
<1>2. ASSUME offset' = 0 PROVE Written' = <<>>
  <2>1. (\A ptr \in {TX_WR - offset, TX_WR} : Span(ptr, 0) = <<>>)'
    BY DEF Span
  <2>2. QED BY <1>2, <2>1 DEF Written
<1>3. ASSUME building' = 1 PROVE offset' = 0
  BY <1>3
<1>4. QED BY <1>1, <1>2, <1>3, Constants DEF PacketOK

\* What write takes of the data it is given.
LEMMA WrittenData ==
  ASSUME UInv, pc = "idle", NEW d \in Datagrams
  PROVE  LET ret == Min({Len(d), TXFreeSize})
         IN  /\ ret \in 0 .. Len(d) /\ Len(d) \in Nat
             /\ SubSeq(d, 1, ret) \in Datagrams
             /\ SubSeq(d, 1, ret) \in Seq(Bytes) /\ Len(SubSeq(d, 1, ret)) = ret
<1> DEFINE ret == Min({Len(d), TXFreeSize})
           data == SubSeq(d, 1, ret)
<1>1. d \in Seq(Bytes) /\ Len(d) <= MaxLen /\ Len(d) \in Nat
  BY Bounded, Constants, LenProperties DEF Datagrams
<1>2. TXFreeSize = TxSize
  <2>1. TX_WR = TX_RD /\ TX_WR \in Nat
    BY Constants DEF UInv, TxOK
  <2>2. (TX_WR - TX_RD) % Mod = 0
    BY <2>1, Constants
  <2>3. QED BY <2>2, Constants DEF TXFreeSize
<1>3. ret \in 0 .. Len(d) /\ ret \in 0 .. MaxLen /\ 0 \in 0 .. ret
  BY <1>1, <1>2, MinIs, Constants
<1> HIDE DEF ret
<1>4. data \in Seq(Bytes) /\ Len(data) = ret
  BY <1>1, <1>3, TakeFirst
<1> HIDE DEF data
<1>5. data \in Datagrams
  <2>1. Len(data) <= MaxLen /\ MaxLen \in Nat
    BY <1>3, <1>4, Constants
  <2>2. QED BY <1>4, <2>1, Bounded DEF Datagrams
<1>6. QED BY <1>1, <1>3, <1>4, <1>5 DEF ret, data

\* A copy behind the first bytes of a packet that fits the transmit buffer leaves them alone,
\* and puts every byte where it belongs, wherever the cells wrap around.
LEMMA CopyIs ==
  ASSUME TxOK, NEW data \in Seq(Bytes), send_data_processing_offset(data),
         offset + Len(data) <= TxSize
  PROVE  /\ \A k \in 1 .. offset : mem'[Cell(TX_WR + k - 1)] = mem[Cell(TX_WR + k - 1)]
         /\ \A k \in 1 .. Len(data) : mem'[Cell(TX_WR + offset + k - 1)] = data[k]
<1> DEFINE ptr == TX_WR + offset
           Hits(c) == {k \in 1 .. Len(data) : Cell(ptr + k - 1) = c}
           len == Len(data)
<1>1. mem' = [c \in DOMAIN mem |-> IF Hits(c) = {} THEN mem[c] ELSE data[Max(Hits(c))]]
  BY DEF send_data_processing_offset
<1>2. /\ len \in Nat /\ DOMAIN mem = 0 .. TxSize - 1 /\ TX_WR \in Nat /\ offset \in Nat
      /\ TxSize \in Nat \ {0} /\ offset + len <= TxSize
  BY LenProperties, Constants DEF TxOK
<1>3. \A a \in Int : Cell(a) \in DOMAIN mem
  BY <1>2, DivMod DEF Cell
<1>4. ASSUME NEW a \in Int, NEW b \in Int, a < b, b < a + TxSize PROVE Cell(a) # Cell(b)
  BY ONLY <1>2, <1>4, DifferentCells DEF Cell
<1> HIDE DEF len
<1>5. ASSUME NEW k \in 1 .. offset
      PROVE  mem'[Cell(TX_WR + k - 1)] = mem[Cell(TX_WR + k - 1)]
  <2> DEFINE c == Cell(TX_WR + k - 1)
  <2>1. ASSUME NEW i \in 1 .. len PROVE Cell(ptr + i - 1) # c
    <3>1. /\ TX_WR + k - 1 \in Int /\ ptr + i - 1 \in Int
          /\ TX_WR + k - 1 < ptr + i - 1 /\ ptr + i - 1 < (TX_WR + k - 1) + TxSize
      BY <1>2
    <3>2. QED BY <1>4, <3>1
  <2>2. Hits(c) = {}
    BY <2>1 DEF len
  <2>3. c \in DOMAIN mem
    <3>1. TX_WR + k - 1 \in Int
      BY <1>2
    <3>2. QED BY <1>3, <3>1
  <2> HIDE DEF c, Hits
  <2>4. mem'[c] = mem[c]
    BY <1>1, <2>2, <2>3
  <2>5. QED BY <2>4 DEF c
<1>6. ASSUME NEW k \in 1 .. len PROVE mem'[Cell(ptr + k - 1)] = data[k]
  <2> DEFINE c == Cell(ptr + k - 1)
  <2>1. ASSUME NEW i \in 1 .. len, i # k PROVE Cell(ptr + i - 1) # c
    <3>1. ptr + k - 1 \in Int /\ ptr + i - 1 \in Int
      BY <1>2
    <3>2. CASE i < k
      <4>1. ptr + i - 1 < ptr + k - 1 /\ ptr + k - 1 < (ptr + i - 1) + TxSize
        BY <1>2, <3>2
      <4>2. QED BY <1>4, <3>1, <4>1
    <3>3. CASE k < i
      <4>1. ptr + k - 1 < ptr + i - 1 /\ ptr + i - 1 < (ptr + k - 1) + TxSize
        BY <1>2, <3>3
      <4>2. QED BY <1>4, <3>1, <4>1
    <3>4. QED BY <2>1, <3>2, <3>3
  <2>2. Hits(c) = {k}
    BY <2>1 DEF len
  <2>3. c \in DOMAIN mem
    <3>1. ptr + k - 1 \in Int
      BY <1>2
    <3>2. QED BY <1>3, <3>1
  <2>4. Max({k}) = k
    BY MaxOfOne
  <2> HIDE DEF c, Hits
  <2>5. mem'[c] = data[k]
    BY <1>1, <2>2, <2>3, <2>4
  <2>6. QED BY <2>5 DEF c
<1>7. QED BY <1>5, <1>6 DEF len

\* Bytes written to a packet that still fits go behind those that are there.
LEMMA CopyAppends ==
  ASSUME UInv, pc = "idle", pc' = "idle", NEW data \in Seq(Bytes),
         send_data_processing_offset(data), UNCHANGED TX_WR,
         offset' = offset + Len(data), offset' <= TxSize
  PROVE  Written' = Written \o data
<1> DEFINE ret == Len(data)
<1>1. ret \in Nat
  BY LenProperties
<1> HIDE DEF ret
<1>2. offset \in Nat /\ offset' \in Nat /\ offset + Len(data) <= TxSize /\ TX_WR \in Nat
      /\ Len(data) = ret
  BY <1>1, Constants DEF UInv, TxOK, ret
<1>3. /\ \A k \in 1 .. offset : mem'[Cell(TX_WR + k - 1)] = mem[Cell(TX_WR + k - 1)]
      /\ \A k \in 1 .. ret : mem'[Cell(TX_WR + offset + k - 1)] = data[k]
  BY <1>2, CopyIs DEF UInv
<1> DEFINE new == [k \in 1 .. offset + ret |-> mem'[Cell(TX_WR + k - 1)]]
<1>4. Written = [k \in 1 .. offset |-> mem[Cell(TX_WR + k - 1)]] /\ Written' = new
  BY <1>2 DEF Written, Span, Cell
<1>5. Written \in Seq(Bytes) /\ Len(Written) = offset
      /\ \A k \in 1 .. offset : Written[k] = mem[Cell(TX_WR + k - 1)]
  <2>1. ASSUME NEW k \in 1 .. offset PROVE mem[Cell(TX_WR + k - 1)] \in Bytes
    <3>1. TX_WR + k - 1 \in Int
      BY <1>2
    <3>2. Cell(TX_WR + k - 1) \in 0 .. TxSize - 1
      BY <3>1, DivMod, Constants DEF Cell
    <3>3. QED BY <3>2 DEF UInv, TxOK
  <2>2. QED BY <1>2, <1>4, <2>1
<1>6. Written \o data \in Seq(Bytes) /\ Len(Written \o data) = offset + ret
      /\ \A k \in 1 .. offset + ret :
           (Written \o data)[k] = IF k <= offset THEN Written[k] ELSE data[k - offset]
  <2>1. /\ Written \o data \in Seq(Bytes) /\ Len(Written \o data) = Len(Written) + Len(data)
        /\ \A k \in 1 .. Len(Written) + Len(data) :
             (Written \o data)[k] = IF k <= Len(Written) THEN Written[k]
                                                         ELSE data[k - Len(Written)]
    BY ONLY data \in Seq(Bytes), <1>5, ConcatProperties
  <2>2. QED BY <1>2, <1>5, <2>1
<1>7. ASSUME NEW k \in 1 .. offset + ret PROVE new[k] = (Written \o data)[k]
  <2>1. new[k] = mem'[Cell(TX_WR + k - 1)]
    OBVIOUS
  <2>2. CASE k <= offset
    <3>1. k \in 1 .. offset
      BY <1>2, <2>2
    <3>2. (Written \o data)[k] = Written[k]
      BY <1>6, <2>2
    <3>3. QED BY <1>3, <1>5, <2>1, <3>1, <3>2
  <2>3. CASE ~(k <= offset)
    <3>1. k - offset \in 1 .. ret /\ TX_WR + offset + (k - offset) - 1 = TX_WR + k - 1
      BY <1>1, <1>2, <2>3
    <3>2. mem'[Cell(TX_WR + k - 1)] = data[k - offset]
      BY <1>3, <3>1
    <3>3. QED BY <1>6, <2>1, <2>3, <3>2
  <2>4. QED BY <2>2, <2>3
<1>8. new \in Seq(Bytes) /\ Len(new) = offset + ret
  <2>1. ASSUME NEW k \in 1 .. offset + ret PROVE mem'[Cell(TX_WR + k - 1)] \in Bytes
    <3>1. /\ offset + ret \in Nat /\ Len(Written \o data) = offset + ret
          /\ Written \o data \in Seq(Bytes)
      BY <1>1, <1>2, <1>6
    <3>2. (Written \o data)[k] \in Bytes
      BY <3>1, ElementOfSeq
    <3>3. QED BY <1>7, <3>2
  <2>2. offset + ret \in Nat
    BY <1>1, <1>2
  <2>3. QED BY <2>1, <2>2
<1> HIDE DEF new
<1>9. QED BY <1>4, <1>6, <1>7, <1>8, SeqEqual

LEMMA PacketWrite == UInv /\ PacketOK /\ WriteSome => PacketOK'
<1> SUFFICES ASSUME UInv, PacketOK, WriteSome PROVE PacketOK'
  OBVIOUS
<1>1. PICK d \in Datagrams : offset + Len(d) <= Longest /\ EthernetUDP_write(d)
  BY DEF WriteSome
<1> DEFINE ret == Min({Len(d), TXFreeSize})
           data == SubSeq(d, 1, ret)
<1>2. /\ pc = "idle" /\ building = 1 /\ pc' = "idle" /\ building' = 1
      /\ UNCHANGED TX_WR /\ send_data_processing_offset(data)
      /\ offset' = offset + ret /\ packet' = packet \o data
  BY <1>1 DEF EthernetUDP_write, Idle, Return
<1>3. data \in Seq(Bytes) /\ Len(data) = ret /\ ret \in 0 .. Len(d) /\ Len(d) \in Nat
  BY <1>2, WrittenData
<1> HIDE DEF data, ret
<1>4. packet \in Seq(Bytes) /\ Len(packet) = offset /\ offset \in Nat
  BY <1>2, Constants DEF UInv, TxOK, PacketOK
<1>5. packet' \in Seq(Bytes) /\ Len(packet') = offset'
  <2>1. packet \o data \in Seq(Bytes) /\ Len(packet \o data) = Len(packet) + Len(data)
    BY <1>3, <1>4, ConcatProperties
  <2>2. QED BY <1>2, <1>3, <1>4, <2>1
<1>6. offset' <= Longest
  BY <1>1, <1>2, <1>3, <1>4, Constants
<1>7. ASSUME offset' <= TxSize PROVE Written' = packet'
  <2>1. offset <= TxSize
    BY <1>2, <1>3, <1>4, <1>7, Constants
  <2>2. Written = packet
    BY <1>2, <2>1 DEF PacketOK
  <2>3. Written' = Written \o data
    BY <1>2, <1>3, <1>7, CopyAppends
  <2>4. QED BY <1>2, <2>2, <2>3
<1>8. QED BY <1>5, <1>6, <1>7 DEF PacketOK

\* SEND moves the pointer behind the packet; the packet is the same.
LEMMA PacketCommit == UInv /\ PacketOK /\ EthernetUDP_endPacket => PacketOK'
<1> SUFFICES ASSUME UInv, PacketOK, EthernetUDP_endPacket PROVE PacketOK'
  OBVIOUS
<1>1. /\ pc = "idle" /\ building = 1 /\ offset > 0 /\ TX_WR' = written
      /\ pc' = "send_wait"
      /\ UNCHANGED <<open, object, building, packet, rxBuffer, mem>>
  BY DEF EthernetUDP_endPacket, Idle
<1>2. written = (TX_WR + offset) % Mod /\ TX_WR \in Int /\ offset \in Nat /\ written \in Int
  BY <1>1, Constants DEF UInv, TxOK
<1>3. ASSUME NEW k \in 1 .. offset
      PROVE  Cell((written - offset) + k - 1) = Cell(TX_WR + k - 1)
  <2>1. TX_WR + offset \in Int /\ k - 1 - offset \in Int
    BY <1>2
  <2>2. Cell(((TX_WR + offset) % Mod) + (k - 1 - offset))
          = Cell((TX_WR + offset) + (k - 1 - offset))
    BY ONLY <2>1, CellOfMod
  <2>3. /\ written + (k - 1 - offset) = (written - offset) + k - 1
        /\ (TX_WR + offset) + (k - 1 - offset) = TX_WR + k - 1
    BY <1>2
  <2>4. QED BY <1>2, <2>2, <2>3
<1>4. Span(written - offset, offset) = Span(TX_WR, offset)
  BY <1>3, SameSpan
<1>5. Written' = Span(written - offset, offset) /\ Written = Span(TX_WR, offset)
  BY <1>1 DEF Written, Span, object
<1>6. QED BY <1>1, <1>4, <1>5 DEF PacketOK, object

LEMMA PacketNext == UInv /\ PacketOK /\ [Next]_vars => PacketOK'
<1> SUFFICES ASSUME UInv, PacketOK, [Next]_vars PROVE PacketOK'
  OBVIOUS
<1>1. CASE Call
  <2>1. CASE EthernetUDP_begin \/ EthernetUDP_beginMulticast \/ EthernetUDP_stop
    BY <2>1, PacketGone DEF EthernetUDP_begin, EthernetUDP_beginMulticast, Open, EthernetUDP_stop
  <2>2. CASE EthernetUDP_read \/ EthernetUDP_read_buf \/ EthernetUDP_peek \/ EthernetUDP_available
    BY <2>2, PacketQuiet DEF EthernetUDP_read, EthernetUDP_read_buf, ReadByte, ReadBuf,
       EthernetUDP_peek, EthernetUDP_available, Return, Idle, object, chip, txBuffer
  <2>3. CASE EthernetUDP_flush("flush") \/ EthernetUDP_flush("parse_flush")
    BY <2>3, PacketQuiet DEF EthernetUDP_flush, Idle, object, chip, txBuffer
  <2>4. CASE EthernetUDP_beginPacket_ip
    BY <2>4, PacketGone DEF EthernetUDP_beginPacket_ip
  <2>5. QED BY <1>1, <2>1, <2>2, <2>3, <2>4, PacketWrite, PacketCommit DEF Call
<1>2. CASE FlushRead
  BY <1>2, PacketQuiet DEF FlushRead, txBuffer
<1>3. CASE FlushDone
  BY <1>3, PacketQuiet DEF FlushDone, Return, object, chip, txBuffer
<1>4. CASE Parse
  BY <1>4, PacketQuiet DEF Parse, Return, txBuffer
<1>5. CASE EndPacketSent \/ EndPacketTimeout
  BY <1>5, PacketGone DEF EndPacketSent, EndPacketTimeout
<1>6. CASE Arrive
  BY <1>6, PacketQuiet DEF Arrive, object, txBuffer
<1>7. CASE SendOver
  BY <1>7, PacketQuiet DEF SendOver, object
<1>8. CASE UNCHANGED vars
  BY <1>8, PacketQuiet DEF vars, object, chip, txBuffer
<1>9. QED BY <1>1, <1>2, <1>3, <1>4, <1>5, <1>6, <1>7, <1>8 DEF Next, Continue

\* A packet is in the transmit buffer as it was written, if the buffer holds it.
LEMMA PacketInvariant == Spec => [](UInv /\ PacketOK)
<1>1. Init => PacketOK
  BY EmptySeq, Constants DEF Init, PacketOK
<1>2. QED BY <1>1, Invariant, PacketNext, PTL DEF Spec

\* The types of the object, the buffers and their pointers, for every size of them; what
\* a read, a peek and endPacket move are bytes of data, never a header.
THEOREM TypeCorrect == Spec => []TypeOK
<1>1. QED BY PacketInvariant, TypeMeaning, PTL

-----------------------------------------------------------------------------
(* The steps of the object are steps of the service, or none. *)

LEMMA ResetStep ==
  ASSUME UInv, Open \/ EthernetUDP_stop
  PROVE  Promise!Reset
<1>1. behind' = <<>> /\ UNCHANGED remote
  BY DEF Open, Opened, EthernetUDP_stop, object
<1>2. \E n \in {0, 1} : result' = [n |-> n, data |-> <<>>]
  BY DEF Open, EthernetUDP_stop, Return
<1>3. Unread' = <<>>
  <2>1. CASE Open
    <3>1. rx' = <<>> /\ remaining' = 0
      BY <2>1 DEF Open, Opened
    <3>2. SubSeq(<<>>, 1, 0) = <<>>
      BY SubSeqEmpty
    <3>3. QED BY <3>1, <3>2 DEF Unread
  <2>2. CASE EthernetUDP_stop
    BY <2>2 DEF EthernetUDP_stop, Unread
  <2>3. QED BY <2>1, <2>2
<1>4. packet' = <<>>
  BY DEF Open, EthernetUDP_stop
<1>5. QED BY <1>1, <1>2, <1>3, <1>4 DEF Promise!Reset, Promise!Returns

\* A read of k bytes.
LEMMA ReadStep ==
  ASSUME UInv, pc = "idle", open = 1, pc' = "idle", NEW k \in 1 .. remaining,
         recv(k), remaining' = remaining - k,
         result' = [n |-> k, data |-> SubSeq(rx, 1, k)],
         UNCHANGED <<open, remote, behind, packet>>
  PROVE  Promise!Read
<1>1. /\ Unread = SubSeq(rx, 1, remaining) /\ rx \in Seq(Cells)
      /\ remaining \in 0 .. Len(rx) /\ Len(Unread) = remaining
  BY UnreadIs
<1>2. k \in 0 .. remaining
  BY <1>1
<1>3. /\ SubSeq(Unread, 1, k) = SubSeq(rx, 1, k)
      /\ SubSeq(SubSeq(rx, k + 1, Len(rx)), 1, remaining - k) = SubSeq(Unread, k + 1, remaining)
  BY <1>1, <1>2, TakeFirst
<1>4. Unread' = SubSeq(SubSeq(rx, k + 1, Len(rx)), 1, remaining - k)
  BY DEF Unread, recv
<1>5. /\ k \in 1 .. Len(Unread)
      /\ result' = [n |-> k, data |-> SubSeq(Unread, 1, k)]
      /\ Unread' = SubSeq(Unread, k + 1, Len(Unread))
  BY <1>1, <1>3, <1>4
<1>6. QED BY <1>5 DEF Promise!Read, Promise!Returns

\* A read that finds nothing.
LEMMA ReadNothing ==
  ASSUME UInv, pc = "idle", open = 1, remaining = 0, Return(-1, <<>>),
         UNCHANGED <<open, remaining, rx, remote, behind, packet>>
  PROVE  Promise!Read
<1>1. Unread = <<>>
  BY UnreadIs, EmptySeq
<1>2. Unread' = Unread
  BY QuietUnread DEF Return
<1>3. QED BY <1>1, <1>2 DEF Promise!Read, Promise!Returns, Return

LEMMA ReadByteStep ==
  ASSUME UInv, EthernetUDP_read
  PROVE  Promise!Read
<1>1. pc = "idle" /\ open = 1 /\ ReadByte
      /\ UNCHANGED <<open, remote, behind, packet>>
  BY DEF EthernetUDP_read, Idle
<1>2. remaining \in Nat
  BY Constants DEF UInv, RxOK
<1>3. CASE remaining > 0
  <2>1. Got(1) = 1 /\ 1 \in 1 .. remaining
    BY <1>1, <1>2, <1>3, GotIs
  <2>2. recv(1) /\ remaining' = remaining - 1 /\ Return(1, <<rx[1]>>)
    BY <1>1, <1>3, <2>1 DEF ReadByte
  <2>3. <<rx[1]>> = SubSeq(rx, 1, 1)
    <3>1. rx \in Seq(Cells) /\ 1 \in 0 .. Len(rx) /\ 1 \in 0 .. 1 /\ 1 \in 1 .. Len(rx)
      BY <1>1, <1>2, <1>3, UnreadIs, LenProperties
    <3>2. SubSeq(rx, 1, 1) \in Seq(Cells) /\ Len(SubSeq(rx, 1, 1)) = 1
          /\ \A i \in 1 .. 1 : SubSeq(rx, 1, 1)[i] = rx[i]
      BY <3>1, TakeFirst
    <3>3. <<rx[1]>> \in Seq(Cells) /\ Len(<<rx[1]>>) = 1 /\ <<rx[1]>>[1] = rx[1]
      BY <3>1, ElementOfSeq
    <3>4. \A i \in 1 .. 1 : <<rx[1]>>[i] = SubSeq(rx, 1, 1)[i]
      BY <3>2, <3>3
    <3>5. QED BY <3>2, <3>3, <3>4, SeqEqual
  <2>4. QED BY <1>1, <2>1, <2>2, <2>3, ReadStep DEF Return
<1>4. CASE ~(remaining > 0)
  <2>1. Return(-1, <<>>) /\ UNCHANGED <<rx, remaining>> /\ remaining = 0
    BY <1>1, <1>2, <1>4 DEF ReadByte
  <2>2. QED BY <1>1, <2>1, ReadNothing
<1>5. QED BY <1>3, <1>4

LEMMA ReadBufStep ==
  ASSUME UInv, EthernetUDP_read_buf
  PROVE  Promise!Read
<1>1. pc = "idle" /\ open = 1
      /\ UNCHANGED <<open, remote, behind, packet>>
  BY DEF EthernetUDP_read_buf, Idle
<1>2. PICK len \in 1 .. MaxLen : ReadBuf(len)
  BY DEF EthernetUDP_read_buf
<1>3. remaining \in Nat /\ len \in Nat /\ 0 < len
  BY Constants DEF UInv, RxOK
<1> DEFINE k == Min({remaining, len})
<1>4. k = IF remaining <= len THEN remaining ELSE len
  BY <1>3, MinIs
<1>5. CASE remaining > 0
  <2>1. k \in 1 .. remaining /\ k \in Nat /\ k <= remaining /\ 0 < k
    BY <1>3, <1>4, <1>5
  <2>2. Got(k) = k
    <3> HIDE DEF k
    <3>1. QED BY <1>1, <2>1, GotIs
  <2>3. recv(k) /\ remaining' = remaining - k /\ Return(k, SubSeq(rx, 1, k))
    BY <1>2, <1>5, <2>1, <2>2 DEF ReadBuf
  <2> HIDE DEF k
  <2>4. QED BY <1>1, <2>1, <2>3, ReadStep DEF Return
<1>6. CASE ~(remaining > 0)
  <2>1. Return(-1, <<>>) /\ UNCHANGED <<rx, remaining>> /\ remaining = 0
    BY <1>2, <1>3, <1>6 DEF ReadBuf
  <2>2. QED BY <1>1, <2>1, ReadNothing
<1>7. QED BY <1>5, <1>6

LEMMA PeekStep ==
  ASSUME UInv, EthernetUDP_peek
  PROVE  Promise!Peek
<1>1. pc = "idle" /\ open = 1 /\ pc' = "idle" /\ UNCHANGED <<open, object, packet, chip>>
  BY DEF EthernetUDP_peek, Idle, Return
<1>2. UNCHANGED <<remote, behind, Unread, packet>>
  BY <1>1, QuietUnread DEF object, chip, rxBuffer
<1>3. /\ Len(Unread) = remaining /\ Unread \in Seq(Cells) /\ remaining \in Nat
      /\ \A i \in 1 .. remaining : Unread[i] = rx[i]
  BY <1>1, UnreadIs
<1>4. CASE remaining = 0
  <2>1. Unread = <<>> /\ result' = [n |-> -1, data |-> <<>>]
    BY <1>3, <1>4, EmptySeq DEF EthernetUDP_peek, Return
  <2>2. QED BY <1>2, <2>1 DEF Promise!Peek, Promise!Returns, Promise!receiver
<1>5. CASE remaining # 0
  <2>1. Unread # <<>> /\ Head(Unread) = rx[1]
    BY <1>3, <1>5
  <2>2. result' = [n |-> 1, data |-> <<rx[1]>>]
    BY <1>5 DEF EthernetUDP_peek, Return
  <2>3. QED BY <1>2, <2>1, <2>2 DEF Promise!Peek, Promise!Returns, Promise!receiver
<1>6. QED BY <1>4, <1>5

LEMMA AvailableStep ==
  ASSUME UInv, EthernetUDP_available
  PROVE  Promise!Available
<1>1. pc = "idle" /\ open = 1 /\ pc' = "idle" /\ UNCHANGED <<open, object, packet, chip>>
      /\ result' = [n |-> remaining, data |-> <<>>]
  BY DEF EthernetUDP_available, Idle, Return
<1>2. UNCHANGED <<remote, behind, Unread, packet>>
  BY <1>1, QuietUnread DEF object, chip, rxBuffer
<1>3. Len(Unread) = remaining
  BY <1>1, UnreadIs
<1>4. QED BY <1>1, <1>2, <1>3 DEF Promise!Available, Promise!Returns, Promise!receiver

\* The bytes are gone for the program as soon as flush has begun.
LEMMA FlushStep ==
  ASSUME UInv, NEW label \in {"flush", "parse_flush"}, EthernetUDP_flush(label)
  PROVE  Promise!Flush
<1>1. pc = "idle" /\ pc' = label /\ result' = [n |-> 0, data |-> <<>>]
      /\ UNCHANGED <<open, object, packet, chip>>
  BY DEF EthernetUDP_flush, Idle
<1>2. Unread' = <<>>
  BY <1>1 DEF Unread
<1>3. UNCHANGED <<remote, behind, packet>>
  BY <1>1 DEF object, chip, rxBuffer
<1>4. QED BY <1>1, <1>2, <1>3 DEF Promise!Flush, Promise!Pending

LEMMA FlushReadStep ==
  ASSUME UInv, FlushRead
  PROVE  UNCHANGED Promise!vars
<1>1. pc \in {"flush", "parse_flush"} /\ UNCHANGED <<open, remote, pc, result, behind>>
      /\ UNCHANGED packet
  BY DEF FlushRead
<1>2. Unread = <<>> /\ Unread' = <<>>
  BY <1>1 DEF Unread
<1>3. QED BY <1>1, <1>2 DEF Promise!vars, Promise!receiver

LEMMA FlushDoneStep ==
  ASSUME UInv, FlushDone
  PROVE  Promise!Flush \/ UNCHANGED Promise!vars
<1>1. pc \in {"flush", "parse_flush"} /\ remaining = 0 /\ UNCHANGED <<open, object, packet, chip>>
      /\ (Return(0, <<>>) \/ (pc' = "parse" /\ UNCHANGED result))
  BY DEF FlushDone
<1>2. Unread = <<>> /\ Unread' = <<>>
  <2>1. SubSeq(rx, 1, 0) = <<>>
    BY SubSeqEmpty
  <2>2. remaining' = 0 /\ rx' = rx
    BY <1>1 DEF object, chip, rxBuffer
  <2>3. QED BY <1>1, <2>1, <2>2 DEF Unread
<1>3. UNCHANGED <<remote, behind, packet>>
  BY <1>1 DEF object, chip, rxBuffer, Return
<1>4. QED BY <1>1, <1>2, <1>3
          DEF Return, Promise!Flush, Promise!Pending, Promise!vars, Promise!receiver

\* The datagram parsePacket takes is the one that came first, with its sender and all its bytes.
LEMMA ParseStep ==
  ASSUME UInv, Parse
  PROVE  Promise!ParsePacket
<1>1. pc = "parse" /\ open = 1 /\ remaining = 0 /\ pc' = "idle"
      /\ UNCHANGED <<open, packet>>
  BY DEF Parse, Return, UInv, CallOK
<1>2. Unread = <<>> /\ packet' = packet
  BY <1>1 DEF Unread
<1>3. /\ rx \in Seq(Cells) /\ Len(rx) \in Nat /\ Holds(rx, 0, behind)
      /\ rx = <<>> <=> behind = <<>>
  BY <1>1, LenProperties, HeaderHolds DEF UInv, RxOK
<1>4. CASE rx = <<>>
  <2>1. behind = <<>> /\ result' = [n |-> 0, data |-> <<>>]
        /\ UNCHANGED <<rx, behind, remote, remaining>>
    BY <1>3, <1>4 DEF Parse, rxBuffer, Return
  <2>2. Unread' = <<>>
    <3>1. SubSeq(rx, 1, 0) = <<>>
      BY SubSeqEmpty
    <3>2. QED BY <1>1, <2>1, <3>1 DEF Unread
  <2>3. QED BY <1>2, <2>1, <2>2 DEF Promise!ParsePacket, Promise!Returns, Promise!receiver
<1>5. CASE rx # <<>>
  <2>1. /\ rx' = SubSeq(rx, 2 + 1, Len(rx)) /\ remote' = rx[1] /\ remaining' = rx[2]
        /\ result' = [n |-> rx[2], data |-> <<>>] /\ behind' = Tail(behind)
    BY <1>5 DEF Parse, recv, Return
  <2> DEFINE f == behind[1]
  <2>2. /\ 2 <= Len(rx) /\ behind \in Seq(Frames) /\ behind # <<>>
        /\ rx[1] = f.from /\ rx[2] = Len(f.data)
        /\ \A q \in 1 .. Len(f.data) : rx[2 + q] = f.data[q]
        /\ Holds(SubSeq(rx, 3, Len(rx)), rx[2], Tail(behind))
    BY <1>3, <1>5, HeaderHolds
  <2>3. f \in Frames /\ Head(behind) = f
    BY <2>2, EmptySeq, ElementOfSeq
  <2>4. f.data \in Seq(Bytes) /\ Len(f.data) \in Nat
    BY <2>3, FrameIs
  <2> HIDE DEF f
  <2>5. Unread' = SubSeq(rx', 1, Len(f.data))
    BY <1>1, <2>1, <2>2 DEF Unread
  <2>6. rx' \in Seq(Cells) /\ Len(rx') = Len(rx) - 2
        /\ \A i \in 1 .. Len(rx) - 2 : rx'[i] = rx[2 + i]
    <3>1. 2 \in 0 .. Len(rx)
      BY <1>3, <2>2
    <3>2. QED BY <1>3, <2>1, <3>1, Behind_k
  <2>7. Len(f.data) \in 0 .. Len(rx')
    <3>1. Holds(rx', Len(f.data), Tail(behind))
      BY <2>1, <2>2
    <3>2. QED BY <2>4, <2>6, <3>1, HoldsFits
  <2>8. SubSeq(rx', 1, Len(f.data)) = f.data
    <3> DEFINE t == rx'
               len == Len(f.data)
    <3>1. t \in Seq(Cells) /\ len \in 0 .. Len(t) /\ 0 \in 0 .. len
      BY <2>4, <2>6, <2>7
    <3> HIDE DEF t, len
    <3>2. SubSeq(t, 1, len) \in Seq(Cells) /\ Len(SubSeq(t, 1, len)) = len
          /\ \A i \in 1 .. len : SubSeq(t, 1, len)[i] = t[i]
      BY <3>1, TakeFirst
    <3>3. f.data \in Seq(Cells)
      BY <2>4, SeqMonotonic DEF Cells
    <3>4. ASSUME NEW i \in 1 .. len PROVE SubSeq(t, 1, len)[i] = f.data[i]
      <4>1. t[i] = rx[2 + i] /\ rx[2 + i] = f.data[i]
        BY <1>3, <2>2, <2>6, <3>1 DEF t, len
      <4>2. QED BY <3>2, <4>1
    <3>5. SubSeq(t, 1, len) = f.data
      BY <3>2, <3>3, <3>4, SeqEqual DEF len
    <3>6. QED BY <3>5 DEF t, len
  <2>9. /\ behind # <<>> /\ behind' = Tail(behind)
        /\ Unread' = Head(behind).data /\ remote' = Head(behind).from
        /\ result' = [n |-> Len(Head(behind).data), data |-> <<>>]
    BY <2>1, <2>2, <2>3, <2>5, <2>8
  <2>10. QED BY <1>2, <2>9 DEF Promise!ParsePacket, Promise!Returns
<1>6. QED BY <1>4, <1>5

LEMMA ArriveStep ==
  ASSUME UInv, Arrive
  PROVE  Promise!Arrive
<1>1. PICK d \in Datagrams, p \in Peers :
        /\ Len(rx) + 2 + Len(d) <= RxSize /\ rx' = rx \o <<p, Len(d)>> \o d
        /\ behind' = Append(behind, [from |-> p, data |-> d])
  BY DEF Arrive
<1>2. open = 1 /\ UNCHANGED <<open, object, building, pc, result, txBuffer>>
  BY DEF Arrive
<1>3. rx \in Seq(Cells) /\ remaining \in Nat /\ Holds(rx, remaining, behind) /\ Len(rx) \in Nat
  BY <1>2, Constants, LenProperties DEF UInv, RxOK
<1>4. /\ rx' \in Seq(Cells) /\ Len(rx') = Len(rx) + 2 + Len(d)
      /\ \A i \in 1 .. Len(rx) : rx'[i] = rx[i]
  BY <1>1, <1>3, ArriveHolds
<1>5. Unread' = Unread
  <2>1. CASE pc \in {"idle", "send_wait"}
    <3>1. Len(d) \in Nat
      BY Bounded, Constants, LenProperties DEF Datagrams
    <3>2. remaining \in 0 .. Len(rx) /\ remaining \in 0 .. Len(rx') /\ 0 \in 0 .. remaining
      BY <1>3, <1>4, <3>1, HoldsFits
    <3> DEFINE t == rx'
               u == SubSeq(rx, 1, remaining)
               v == SubSeq(t, 1, remaining)
    <3>3. u \in Seq(Cells) /\ Len(u) = remaining /\ \A i \in 1 .. remaining : u[i] = rx[i]
      BY <1>3, <3>2, TakeFirst
    <3>4. v \in Seq(Cells) /\ Len(v) = remaining /\ \A i \in 1 .. remaining : v[i] = t[i]
      <4>1. t \in Seq(Cells) /\ remaining \in 0 .. Len(t)
        BY <1>4, <3>2
      <4> HIDE DEF t
      <4>2. QED BY <3>2, <4>1, TakeFirst
    <3>5. \A i \in 1 .. remaining : t[i] = rx[i]
      BY <1>3, <1>4, <3>2
    <3> HIDE DEF t, u, v
    <3>6. v = u
      BY <3>3, <3>4, <3>5, SeqEqual
    <3>7. Unread = u /\ Unread' = v
      BY <1>2, <2>1 DEF Unread, object, t, u, v
    <3>8. QED BY <3>6, <3>7
  <2>2. CASE pc \notin {"idle", "send_wait"}
    BY <1>2, <2>2 DEF Unread
  <2>3. QED BY <2>1, <2>2
<1>6. packet' = packet
  BY DEF Arrive
<1>7. QED BY <1>1, <1>2, <1>5, <1>6 DEF Promise!Arrive, object

-----------------------------------------------------------------------------
(* The steps of a packet. *)

LEMMA BeginPacketStep ==
  ASSUME UInv, EthernetUDP_beginPacket_ip
  PROVE  Promise!BeginPacket
<1>1. pc = "idle" /\ pc' = "idle" /\ offset' = 0 /\ UNCHANGED <<open, remaining, remote, chip>>
      /\ \E n \in {0, 1} : result' = [n |-> n, data |-> <<>>]
  BY DEF EthernetUDP_beginPacket_ip, Idle, Return
<1>2. UNCHANGED <<remote, behind, Unread>>
  BY <1>1, QuietUnread DEF chip, rxBuffer
<1>3. packet' = <<>>
  BY DEF EthernetUDP_beginPacket_ip
<1>4. QED BY <1>1, <1>2, <1>3 DEF Promise!BeginPacket, Promise!Returns, Promise!receiver

LEMMA WriteStep ==
  ASSUME UInv, WriteSome
  PROVE  Promise!Write
<1>1. PICK d \in Datagrams : offset + Len(d) <= Longest /\ EthernetUDP_write(d)
  BY DEF WriteSome
<1> DEFINE ret == Min({Len(d), TXFreeSize})
           data == SubSeq(d, 1, ret)
<1>2. data \in Datagrams /\ Len(data) = ret
  BY <1>1, WrittenData DEF EthernetUDP_write, Idle
<1>3. packet' = packet \o data /\ result' = [n |-> ret, data |-> <<>>]
      /\ pc = "idle" /\ pc' = "idle" /\ UNCHANGED <<open, remaining, remote, rxBuffer>>
  BY <1>1 DEF EthernetUDP_write, Idle, Return
<1>4. UNCHANGED <<remote, behind, Unread>>
  BY <1>3, QuietUnread DEF rxBuffer
<1> HIDE DEF data, ret
<1>5. QED BY <1>2, <1>3, <1>4 DEF Promise!Write, Promise!Returns, Promise!receiver

LEMMA CommitStep ==
  ASSUME UInv, EthernetUDP_endPacket
  PROVE  Promise!Commit
<1>1. /\ pc = "idle" /\ pc' = "send_wait" /\ result' = [n |-> 0, data |-> <<>>]
      /\ UNCHANGED <<open, object, building, packet, rxBuffer>>
  BY DEF EthernetUDP_endPacket, Idle
<1>2. UNCHANGED <<remote, behind, Unread>>
  BY <1>1, QuietUnread DEF object, rxBuffer
<1>3. QED BY <1>1, <1>2 DEF Promise!Commit, Promise!Pending, Promise!receiver

LEMMA SendOverStep ==
  ASSUME UInv, SendOver
  PROVE  UNCHANGED Promise!vars
<1>1. pc = "send_wait"
      /\ UNCHANGED <<open, object, packet, pc, result, rxBuffer>>
  BY DEF SendOver
<1>2. Unread' = Unread
  BY <1>1, QuietUnread DEF object, rxBuffer
<1>3. QED BY <1>1, <1>2 DEF Promise!vars, Promise!receiver, object, rxBuffer

\* What endPacket reports as sent is the packet, unchanged if the buffer holds it.
LEMMA EndPacketStep ==
  ASSUME UInv, PacketOK, EndPacketSent \/ EndPacketTimeout
  PROVE  Promise!EndPacket
<1>1. pc = "send_wait" /\ packet' = <<>> /\ pc' = "idle"
      /\ UNCHANGED <<open, object, rxBuffer>>
  BY DEF EndPacketSent, EndPacketTimeout, Return
<1>2. UNCHANGED <<remote, behind, Unread>>
  BY <1>1, QuietUnread DEF object, rxBuffer
<1>3. CASE EndPacketSent
  <2>1. wire = Span(TX_WR - offset, offset) /\ building = 1 /\ offset \in Nat
    BY <1>1, <1>3, Constants DEF EndPacketSent, UInv, TxOK
  <2>2. wire = Written /\ Len(packet) = offset
    BY <1>1, <2>1 DEF Written, PacketOK
  <2>3. wire \in Promise!Sent
    <3>1. CASE offset <= TxSize
      BY <2>1, <2>2, <3>1 DEF PacketOK, Promise!Sent
    <3>2. CASE ~(offset <= TxSize)
      <4>1. wire \in Seq(Bytes)
        BY Bounded, Constants DEF UInv, TxOK
      <4>2. DOMAIN wire = 1 .. offset
        BY <2>1 DEF Span
      <4>3. wire \in [1 .. offset -> Bytes]
        BY <2>1, <4>1, <4>2
      <4>4. QED BY <2>2, <3>2, <4>3 DEF Promise!Sent
    <3>3. QED BY <3>1, <3>2
  <2>4. result' = [n |-> 1, data |-> wire]
    BY <1>3 DEF EndPacketSent, Return
  <2>5. QED BY <1>1, <1>2, <2>3, <2>4 DEF Promise!EndPacket, Promise!Returns, Promise!receiver
<1>4. CASE EndPacketTimeout
  <2>1. result' = [n |-> 0, data |-> <<>>]
    BY <1>4 DEF EndPacketTimeout, Return
  <2>2. QED BY <1>1, <1>2, <2>1 DEF Promise!EndPacket, Promise!Returns, Promise!receiver
<1>5. QED BY <1>3, <1>4

LEMMA ServiceInit == Init => Promise!Init
<1> SUFFICES ASSUME Init PROVE Promise!Init
  OBVIOUS
<1>1. Unread = <<>>
  BY DEF Init, Unread
<1>2. QED BY <1>1 DEF Init, Promise!Init, Promise!Pending

LEMMA ServiceNext ==
  ASSUME UInv, PacketOK, [Next]_vars
  PROVE  [Promise!Next]_(Promise!vars)
<1>1. CASE Call
  <2>1. CASE EthernetUDP_begin \/ EthernetUDP_beginMulticast \/ EthernetUDP_stop
    BY <2>1, ResetStep DEF EthernetUDP_begin, EthernetUDP_beginMulticast, Promise!Next
  <2>2. CASE EthernetUDP_read \/ EthernetUDP_read_buf
    BY <2>2, ReadByteStep, ReadBufStep DEF Promise!Next
  <2>3. CASE EthernetUDP_peek \/ EthernetUDP_available
    BY <2>3, PeekStep, AvailableStep DEF Promise!Next
  <2>4. CASE EthernetUDP_flush("flush") \/ EthernetUDP_flush("parse_flush")
    BY <2>4, FlushStep DEF Promise!Next
  <2>5. CASE EthernetUDP_beginPacket_ip \/ WriteSome \/ EthernetUDP_endPacket
    BY <2>5, BeginPacketStep, WriteStep, CommitStep DEF Promise!Next
  <2>6. QED BY <1>1, <2>1, <2>2, <2>3, <2>4, <2>5 DEF Call
<1>2. CASE Continue
  <2>1. CASE FlushRead
    BY <2>1, FlushReadStep
  <2>2. CASE FlushDone
    BY <2>2, FlushDoneStep DEF Promise!Next
  <2>3. CASE Parse
    BY <2>3, ParseStep DEF Promise!Next
  <2>4. CASE EndPacketSent \/ EndPacketTimeout
    BY <2>4, EndPacketStep DEF Promise!Next
  <2>5. QED BY <1>2, <2>1, <2>2, <2>3, <2>4 DEF Continue
<1>3. CASE Arrive
  BY <1>3, ArriveStep DEF Promise!Next
<1>4. CASE SendOver
  BY <1>4, SendOverStep
<1>5. CASE UNCHANGED vars
  <2>1. UNCHANGED <<open, remaining, remote, packet, pc, result, rx, behind>>
    BY <1>5 DEF vars, object, chip, rxBuffer
  <2>2. Unread' = Unread
    BY <2>1 DEF Unread
  <2>3. QED BY <2>1, <2>2 DEF Promise!vars, Promise!receiver
<1>6. QED BY <1>1, <1>2, <1>3, <1>4, <1>5 DEF Next

\* parsePacket hands out whole datagrams in the order of their arrival, with their senders;
\* reads and peeks stay within the current one; and what endPacket sends is exactly what was
\* written since beginPacket, if that is not more than the transmit buffer holds.
THEOREM DatagramsAreServed == Spec => Service
<1>1. UInv /\ PacketOK /\ [Next]_vars => [Promise!Next]_(Promise!vars)
  BY ServiceNext
<1>2. Spec => Promise!Init /\ [][Promise!Next]_(Promise!vars)
  BY <1>1, PacketInvariant, ServiceInit, PTL DEF Spec
<1>3. QED BY <1>2 DEF Service, Promise!Spec
=============================================================================
