-------------------------- MODULE SocketStream_proofs --------------------------
(***************************************************************************)
(* Proofs about the data path of a socket, for every width of a register,  *)
(* every size of the buffers and every place where the pointers start: the *)
(* sizes that are read in two frames are genuine, and the bytes of both    *)
(* directions are those of ByteStream.                                     *)
(***************************************************************************)
EXTENDS SocketStream, WellFoundedInduction, SequenceTheorems, TLAPS

-----------------------------------------------------------------------------
(* Remainders, and the smallest and the largest of some numbers. *)

LEMMA DivMod ==
  ASSUME NEW m \in Nat \ {0}, NEW a \in Int
  PROVE  a \div m \in Int /\ a % m \in 0 .. m - 1 /\ a = m * (a \div m) + (a % m)
OBVIOUS

LEMMA NoMultipleBetween ==
  ASSUME NEW m \in Nat \ {0}, NEW q \in Int, m * q < m, -m < m * q
  PROVE  q = 0
<1>1. CASE q >= 1
  <2>1. m * q >= m BY <1>1
  <2>2. QED BY <2>1
<1>2. CASE q <= -1
  <2>1. m * q <= -m BY <1>2
  <2>2. QED BY <2>1
<1>3. QED BY <1>1, <1>2

\* The quotient and the remainder are unique.
LEMMA ModIs ==
  ASSUME NEW m \in Nat \ {0}, NEW a \in Int, NEW q \in Int, NEW r \in 0 .. m - 1,
         a = m * q + r
  PROVE  a % m = r
<1>1. /\ a \div m \in Int /\ a % m \in 0 .. m - 1 /\ a = m * (a \div m) + (a % m)
  BY DivMod
<1>2. m * (q - a \div m) = (a % m) - r
  BY <1>1
<1>3. q - a \div m = 0
  <2>1. q - a \div m \in Int
    BY <1>1
  <2>2. (a % m) - r < m /\ -m < (a % m) - r
    BY <1>1
  <2>3. QED BY <1>2, <2>1, <2>2, NoMultipleBetween
<1>4. QED BY <1>1, <1>2, <1>3

LEMMA ModAddMultiple ==
  ASSUME NEW m \in Nat \ {0}, NEW a \in Int, NEW k \in Int
  PROVE  (a + m * k) % m = a % m
<1>1. /\ a \div m \in Int /\ a % m \in 0 .. m - 1 /\ a = m * (a \div m) + (a % m)
  BY DivMod
<1>2. a + m * k = m * (a \div m + k) + (a % m)
  BY <1>1
<1>3. a + m * k \in Int /\ a \div m + k \in Int
  BY <1>1
<1>4. QED BY <1>1, <1>2, <1>3, ModIs

LEMMA ModSmall ==
  ASSUME NEW m \in Nat \ {0}, NEW a \in 0 .. m - 1
  PROVE  a % m = a
OBVIOUS

\* An offset may be added to the remainder instead.
LEMMA ModPlus ==
  ASSUME NEW m \in Nat \ {0}, NEW a \in Int, NEW b \in Int
  PROVE  ((a % m) + b) % m = (a + b) % m
<1>1. /\ a \div m \in Int /\ a % m \in 0 .. m - 1 /\ a = m * (a \div m) + (a % m)
  BY DivMod
<1>2. (a % m) + b \in Int
  BY <1>1
<1>3. a + b = ((a % m) + b) + m * (a \div m)
  BY <1>1
<1>4. QED BY <1>1, <1>2, <1>3, ModAddMultiple

\* The size of a ring is divided by the size of its buffer.
LEMMA ModMod ==
  ASSUME NEW m \in Nat \ {0}, NEW c \in Nat \ {0}, m % c = 0, NEW a \in Int
  PROVE  (a % m) % c = a % c
<1>1. /\ a \div m \in Int /\ a % m \in 0 .. m - 1 /\ a = m * (a \div m) + (a % m)
  BY DivMod
<1>2. m \div c \in Int /\ m = c * (m \div c)
  BY DivMod
<1>3. a = (a % m) + c * ((m \div c) * (a \div m))
  <2>1. ASSUME NEW k \in Int, NEW q \in Int PROVE (c * k) * q = c * (k * q)
    OBVIOUS
  <2>2. m * (a \div m) = c * ((m \div c) * (a \div m))
    BY <1>1, <1>2, <2>1
  <2>3. c * ((m \div c) * (a \div m)) \in Int
    BY <1>1, <1>2
  <2>4. QED BY <1>1, <2>2, <2>3
<1>4. (m \div c) * (a \div m) \in Int /\ a % m \in Int
  BY <1>1, <1>2
<1>5. QED BY <1>3, <1>4, ModAddMultiple, ZenonT(60)

\* How far one pointer is behind another, when either has been moved on.
LEMMA AheadMore ==
  ASSUME NEW m \in Nat \ {0}, NEW a \in Int, NEW b \in Int, NEW n \in Nat,
         ((b - a) % m) + n < m
  PROVE  (((b + n) % m) - a) % m = ((b - a) % m) + n
<1>0. b + n \in Int /\ -a \in Int /\ b - a \in Int /\ n \in Int
  OBVIOUS
<1>1. (((b + n) % m) + (-a)) % m = ((b + n) + (-a)) % m
  BY ONLY <1>0, ModPlus
<1>2. (((b - a) % m) + n) % m = ((b - a) + n) % m
  BY ONLY <1>0, ModPlus
<1>3. (b - a) % m \in 0 .. m - 1
  BY DivMod
<1>4. ((b - a) % m) + n \in 0 .. m - 1
  BY <1>3
<1>5. (((b - a) % m) + n) % m = ((b - a) % m) + n
  BY <1>4, ModSmall
<1>6. (b + n) % m \in Int
  BY DivMod
<1>7. ((b + n) % m) - a = ((b + n) % m) + (-a) /\ (b + n) + (-a) = (b - a) + n
  BY <1>6
<1>8. QED BY <1>1, <1>2, <1>5, <1>7

LEMMA AheadLess ==
  ASSUME NEW m \in Nat \ {0}, NEW a \in Int, NEW b \in Int, NEW n \in Nat,
         n <= (b - a) % m
  PROVE  (b - ((a + n) % m)) % m = ((b - a) % m) - n
<1> DEFINE k == (a + n) \div m
           c == (a + n) % m
           q == (b - a) % m
<1>1. k \in Int /\ c \in 0 .. m - 1 /\ a + n = m * k + c /\ q \in 0 .. m - 1
  BY DivMod
<1>2. (q + (-n)) % m = ((b - a) + (-n)) % m
  <2>1. b - a \in Int /\ -n \in Int
    OBVIOUS
  <2>2. QED BY ONLY <2>1, ModPlus
<1> HIDE DEF k, c
<1>3. q - n \in 0 .. m - 1
  BY <1>1
<1>4. (q - n) % m = q - n
  BY <1>3, ModSmall
<1> HIDE DEF q
<1>5. b - c = ((b - a) + (-n)) + m * k
  BY <1>1
<1>6. (((b - a) + (-n)) + m * k) % m = ((b - a) + (-n)) % m
  <2>1. (b - a) + (-n) \in Int
    OBVIOUS
  <2>2. QED BY ONLY <1>1, <2>1, ModAddMultiple
<1>7. q + (-n) = q - n
  BY <1>1
<1>8. (b - c) % m = q - n
  BY <1>2, <1>4, <1>5, <1>6, <1>7
<1>9. QED BY <1>8 DEF c, q

\* Pointers less than a buffer apart name different cells.
LEMMA DifferentCells ==
  ASSUME NEW c \in Nat \ {0}, NEW a \in Int, NEW b \in Int, a < b, b < a + c
  PROVE  a % c # b % c
<1>1. /\ a \div c \in Int /\ a % c \in 0 .. c - 1 /\ a = c * (a \div c) + (a % c)
      /\ b \div c \in Int /\ b % c \in 0 .. c - 1 /\ b = c * (b \div c) + (b % c)
  BY DivMod
<1>2. SUFFICES ASSUME a % c = b % c PROVE FALSE
  OBVIOUS
<1>3. b - a = c * (b \div c - a \div c) /\ b \div c - a \div c \in Int
  BY <1>1, <1>2
<1>4. b \div c - a \div c = 0
  <2>1. c * (b \div c - a \div c) < c /\ -c < c * (b \div c - a \div c)
    BY <1>3
  <2>2. QED BY <1>3, <2>1, NoMultipleBetween
<1>5. QED BY <1>3, <1>4

LEMMA MinIs ==
  ASSUME NEW a \in Int, NEW b \in Int
  PROVE  Min({a, b}) = IF a <= b THEN a ELSE b
<1>1. \E x \in {a, b} : \A y \in {a, b} : x <= y
  OBVIOUS
<1>2. Min({a, b}) \in {a, b} /\ \A y \in {a, b} : Min({a, b}) <= y
  BY <1>1 DEF Min
<1>3. QED BY <1>2

LEMMA LeastElement ==
  ASSUME NEW S \in SUBSET Nat, S # {}
  PROVE  \E x \in S : \A y \in S : x <= y
<1> DEFINE R == {p \in Nat \X Nat : p[1] < p[2]}
<1>1. IsWellFoundedOn(R, Nat)
  BY NatLessThanWellFounded DEF OpToRel
<1>2. ASSUME NEW Q, IsWellFoundedOn(Q, Nat)
      PROVE  \E x \in S : \A y \in S : ~ (<<y, x>> \in Q)
  BY <1>2, WFMin
<1>3. \E x \in S : \A y \in S : ~ (<<y, x>> \in R)
  <2> HIDE DEF R
  <2>1. QED BY <1>1, <1>2
<1>4. ASSUME NEW x \in S, NEW y \in S, <<y, x>> \notin R
      PROVE  x <= y
  <2>1. <<y, x>> \in Nat \X Nat /\ <<y, x>>[1] = y /\ <<y, x>>[2] = x
    OBVIOUS
  <2>2. ~(y < x)
    BY <1>4, <2>1
  <2>3. x \in Nat /\ y \in Nat
    OBVIOUS
  <2>4. QED BY <2>2, <2>3
<1> HIDE DEF R
<1>5. QED BY <1>3, <1>4

LEMMA GreatestElement ==
  ASSUME NEW n \in Nat, NEW S \in SUBSET (0 .. n), S # {}
  PROVE  Max(S) \in S /\ \A k \in S : k <= Max(S)
<1> DEFINE T == {n - k : k \in S}
<1>1. T \in SUBSET Nat /\ T # {}
  <2>1. \A k \in S : n - k \in Nat
    OBVIOUS
  <2>2. PICK k \in S : TRUE
    OBVIOUS
  <2>3. n - k \in T
    BY <2>2
  <2>4. QED BY <2>1, <2>3
<1>2. PICK t \in T : \A u \in T : t <= u
  <2> HIDE DEF T
  <2>1. QED BY <1>1, LeastElement
<1>3. PICK m \in S : t = n - m
  BY <1>2
<1>4. ASSUME NEW k \in S PROVE m >= k
  <2>1. n - k \in T
    OBVIOUS
  <2>2. n - m <= n - k
    BY <1>2, <1>3, <2>1
  <2>3. QED BY <2>2
<1>5. Max(S) \in S /\ \A k \in S : Max(S) >= k
  BY <1>4 DEF Max
<1>6. QED BY <1>5

LEMMA MaxIs ==
  ASSUME NEW n \in Nat, NEW S \in SUBSET (1 .. n), S # {}
  PROVE  Max(S) \in S /\ \A k \in S : k <= Max(S)
<1>1. S \in SUBSET (0 .. n)
  OBVIOUS
<1>2. QED BY <1>1, GreatestElement

LEMMA MaxOfOne == ASSUME NEW n \in Int PROVE Max({n}) = n
BY DEF Max

-----------------------------------------------------------------------------

\* What two frames read, when the first finds r in the register and the second s.
Frames(r, s) == (r \div Digit) * Digit + (s % Digit)

\* The n cells of a buffer from a pointer on.
Window(cells, ptr, n) == [k \in 1 .. n |-> cells[Cell(ptr + k - 1)]]

Buffers == [0 .. BufSize - 1 -> 0 .. Mod - 1]
Short == {s \in Seq(0 .. Mod - 1) : Len(s) <= BufSize}

RxOK ==
  /\ RX_RSR \in 0 .. BufSize /\ RX_RD \in 0 .. Mod - 1 /\ rxMem \in Buffers
  /\ came \in 0 .. MaxIn

\* What is counted as free is neither on its way nor unanswered.
TxOK ==
  /\ TX_FSR \in 0 .. BufSize /\ TX_RD \in 0 .. Mod - 1 /\ TX_WR \in 0 .. Mod - 1
  /\ txMem \in Buffers /\ ir \in {0, 1} /\ given \in 0 .. MaxOut
  /\ wire \in Seq(0 .. Mod - 1) /\ Len(wire) <= 1
  /\ sr # "CLOSED" => TX_FSR + Queued <= BufSize

CallOK ==
  /\ sr \in {"ESTABLISHED", "CLOSE_WAIT", "CLOSED"}
  /\ call \in {"none", "available", "recv", "peek", "send"}
  /\ pc \in {"idle", "first", "first_low", "second", "second_low", "sized",
             "status", "wait", "wait_status"}
  /\ len \in Lengths \cup {0}
  /\ call \in {"recv", "send"} => len \in Lengths
  /\ call = "send" /\ pc \notin {"wait", "wait_status"} => given + ret <= MaxOut
  /\ got \in Short /\ result \in -1 .. BufSize

\* Every frame of the running reading has found a size that the register had since the
\* call began, a later frame a larger one; and what is left of an earlier reading is a
\* zero, if the register has not changed.
SizeOK ==
  /\ val \in 0 .. Mod - 1 /\ val1 \in 0 .. Mod - 1
  /\ high \in 0 .. Mod \div Digit /\ held \in 0 .. BufSize
  /\ pc \in {"first", "first_low", "second", "second_low"} => held <= Register
  /\ pc \in {"first", "first_low"} /\ Register = held => val = 0
  /\ pc = "first_low" => \E r \in held .. Register : high = r \div Digit
  /\ pc = "second" => \E r, s \in held .. Register : r <= s /\ val1 = Frames(r, s)
  /\ pc = "second_low" => \E r, s, t \in held .. Register :
       r <= s /\ s <= t /\ val1 = Frames(r, s) /\ high = t \div Digit
  /\ SizeIsGenuine
  /\ pc = "sized" => held <= Register
  /\ pc = "status" /\ call = "send" => ret <= val /\ val <= TX_FSR

SInv == RxOK /\ TxOK /\ CallOK /\ SizeOK

-----------------------------------------------------------------------------
(* Constants and readings. *)

LEMMA Constants ==
  /\ Digit \in Nat \ {0} /\ Mod \in Nat \ {0} /\ Mod % Digit = 0
  /\ BufSize \in Nat \ {0} /\ BufSize <= Mod - 1 /\ Mod % BufSize = 0
  /\ Lengths \subseteq Nat \ {0}
  /\ Start \in 0 .. Mod - 1 /\ MaxIn \in Nat /\ MaxOut \in Nat
BY StreamAssumption

\* Both frames together are a size that a register can have.
LEMMA FramesInRange ==
  ASSUME NEW r \in 0 .. Mod - 1, NEW s \in 0 .. Mod - 1
  PROVE  /\ Frames(r, s) \in 0 .. Mod - 1 /\ Frames(r, r) = r
         /\ r \div Digit \in 0 .. Mod \div Digit
<1> USE Constants
<1>1. /\ r \div Digit \in Int /\ r % Digit \in 0 .. Digit - 1 /\ s % Digit \in 0 .. Digit - 1
      /\ r = Digit * (r \div Digit) + (r % Digit)
  BY DivMod
<1>2. Mod \div Digit \in Int /\ Mod = Digit * (Mod \div Digit)
  BY DivMod
<1> DEFINE q == r \div Digit
           m == Mod \div Digit
<1>3. q \in Int /\ m \in Int /\ r = Digit * q + (r % Digit) /\ Mod = Digit * m
  BY <1>1, <1>2
<1> HIDE DEF q, m
<1>4. q >= 0
  <2>1. ASSUME q <= -1 PROVE FALSE
    <3>1. Digit * q <= -Digit
      BY <1>3, <2>1
    <3>2. QED BY <1>1, <1>3, <3>1
  <2>2. QED BY <1>3, <2>1
<1>5. q <= m - 1
  <2>1. ASSUME q >= m PROVE FALSE
    <3>1. Digit * q >= Digit * m
      BY <1>3, <2>1
    <3>2. QED BY <1>1, <1>3, <3>1
  <2>2. QED BY <1>3, <2>1
<1>6. 0 <= Digit * q /\ Digit * q <= Digit * m - Digit
  <2>1. Digit * q <= Digit * (m - 1) /\ Digit * (m - 1) = Digit * m - Digit
    BY <1>3, <1>5
  <2>2. 0 <= Digit * q
    BY <1>3, <1>4
  <2>3. QED BY <2>1, <2>2
<1>7. Digit * q + (s % Digit) \in 0 .. Mod - 1
  BY <1>1, <1>3, <1>6
<1>8. q * Digit = Digit * q
  BY <1>3
<1>9. q * Digit + (s % Digit) \in 0 .. Mod - 1 /\ q * Digit + (r % Digit) = r
  BY <1>1, <1>3, <1>7, <1>8
<1>10. q \in 0 .. m
  BY <1>3, <1>4, <1>5
<1>11. QED BY <1>9, <1>10 DEF q, m, Frames

LEMMA DivMonotone ==
  ASSUME NEW r \in Nat, NEW s \in Nat, r <= s
  PROVE  r \div Digit <= s \div Digit
<1> DEFINE p == r \div Digit
           q == s \div Digit
<1>1. /\ p \in Int /\ q \in Int /\ r % Digit \in 0 .. Digit - 1 /\ s % Digit \in 0 .. Digit - 1
      /\ r = Digit * p + (r % Digit) /\ s = Digit * q + (s % Digit)
  BY DivMod, Constants
<1> HIDE DEF p, q
<1>2. ASSUME p >= q + 1 PROVE FALSE
  <2>1. Digit * p >= Digit * q + Digit
    <3>1. Digit * p >= Digit * (q + 1) /\ Digit * (q + 1) = Digit * q + Digit
      BY <1>1, <1>2, Constants
    <3>2. QED BY <3>1
  <2>2. QED BY <1>1, <2>1, Constants
<1>3. p <= q
  BY <1>1, <1>2
<1>4. QED BY <1>3 DEF p, q

\* Two readings of a size that only grows agree when they are the second value.
LEMMA FramesAgree ==
  ASSUME NEW r \in 0 .. Mod - 1, NEW s \in 0 .. Mod - 1,
         NEW t \in 0 .. Mod - 1, NEW u \in 0 .. Mod - 1,
         r <= s, s <= t, t <= u, Frames(r, s) = Frames(t, u)
  PROVE  Frames(t, u) = s
<1>0. Mod \in Nat \ {0} /\ r \in Nat /\ s \in Nat /\ t \in Nat /\ u \in Nat
  BY Constants
<1> DEFINE a == r \div Digit
           b == s \div Digit
           c == t \div Digit
           x == s % Digit
           y == u % Digit
<1>1. /\ a \in Int /\ b \in Int /\ c \in Int
      /\ x \in 0 .. Digit - 1 /\ y \in 0 .. Digit - 1
      /\ Digit \in Nat \ {0} /\ s = Digit * b + x
  BY <1>0, DivMod, Constants
<1>2. a <= b /\ b <= c
  BY <1>0, DivMonotone
<1>3. a * Digit + x = c * Digit + y
  BY DEF Frames
<1> HIDE DEF a, b, c, x, y
<1>4. Digit * (c - a) = x - y
  BY <1>1, <1>3
<1>5. Digit * (c - a) < Digit /\ -Digit < Digit * (c - a)
  BY <1>1, <1>4
<1>6. c - a = 0
  BY <1>1, <1>5, NoMultipleBetween
<1>7. b = a /\ c = a
  BY <1>1, <1>2, <1>6
<1>8. x = y
  BY <1>1, <1>3, <1>7
<1>9. c * Digit + y = s
  <2>1. c * Digit = Digit * b
    BY <1>1, <1>7
  <2>2. QED BY <1>1, <1>8, <2>1
<1>10. QED BY <1>9 DEF Frames, c, y

-----------------------------------------------------------------------------
(* The parts of the invariant that a step leaves alone. *)

LEMMA QuietRx == RxOK /\ UNCHANGED rxVars => RxOK'
BY DEF RxOK, rxVars

LEMMA QuietTx == TxOK /\ UNCHANGED <<sr, txVars>> => TxOK'
BY DEF TxOK, txVars, Queued

LEMMA QuietCall ==
  ASSUME CallOK, UNCHANGED <<sr, call, pc, len, got, result, given>>
  PROVE  CallOK'
BY DEF CallOK, ret

\* A step of the chip may let a register grow.
LEMMA QuietSize ==
  ASSUME SizeOK, RxOK, TxOK, UNCHANGED <<call, pc, len, sizeVars>>,
         RX_RSR' \in Nat, TX_FSR' \in Nat, RX_RSR' >= RX_RSR, TX_FSR' >= TX_FSR
  PROVE  SizeOK'
<1> DEFINE now == Register
           next == Register'
<1>1. /\ now \in Nat /\ next \in Nat /\ now <= next
      /\ TX_FSR \in Nat
  BY Constants DEF Register, RxOK, TxOK
<1>2. Register = now /\ Register' = next
  OBVIOUS
<1>3. UNCHANGED <<call, pc, len, val, val1, high, held>> /\ ret' = ret
  BY DEF sizeVars, ret
<1> HIDE DEF now, next
<1>4. held \in Nat /\ val \in Nat
  BY Constants DEF SizeOK
<1>5. held .. now \subseteq held .. next
  BY <1>1, <1>4
<1>6. pc \in {"first", "first_low", "second", "second_low", "sized"} =>
        held <= next /\ (next = held => now = held)
  BY <1>1, <1>2, <1>4 DEF SizeOK
<1>7. pc \in {"first", "first_low"} /\ next = held => val = 0
  BY <1>2, <1>6 DEF SizeOK
<1>8. /\ pc = "first_low" => \E r \in held .. next : high = r \div Digit
      /\ pc = "second" => \E r, s \in held .. next : r <= s /\ val1 = Frames(r, s)
      /\ pc = "second_low" => \E r, s, t \in held .. next :
           r <= s /\ s <= t /\ val1 = Frames(r, s) /\ high = t \div Digit
  BY <1>2, <1>5 DEF SizeOK
<1>9. pc = "sized" => (val = 0 \/ (held <= val /\ val <= next)) /\ (next = held => val = held)
  BY <1>1, <1>2, <1>4, <1>6 DEF SizeOK, SizeIsGenuine
<1>10. pc = "status" /\ call = "send" => ret <= val /\ val <= TX_FSR'
  BY <1>1, <1>4 DEF SizeOK, ret
<1> HIDE DEF Frames
<1>11. QED BY <1>2, <1>3, <1>6, <1>7, <1>8, <1>9, <1>10 DEF SizeOK, SizeIsGenuine

\* A call that is over.
LEMMA ReturnOK ==
  ASSUME CallOK, sr' = sr, NEW n \in -1 .. BufSize, NEW bytes \in Short, Return(n, bytes)
  PROVE  CallOK' /\ SizeOK'
<1>1. CallOK'
  BY DEF CallOK, Return
<1>2. 0 \in 0 .. Mod - 1 /\ 0 \in 0 .. Mod \div Digit /\ 0 \in 0 .. BufSize
  BY FramesInRange, Constants
<1>3. SizeOK'
  BY <1>2 DEF SizeOK, SizeIsGenuine, Return
<1>4. QED BY <1>1, <1>3

LEMMA NothingGot == <<>> \in Short
BY EmptySeq, Constants DEF Short

LEMMA BeginInv ==
  ASSUME SInv, NEW c \in {"available", "recv", "peek", "send"}, NEW n \in Lengths \cup {0},
         Begin(c, n), c \in {"recv", "send"} => n \in Lengths,
         c = "send" => given + Min({n, BufSize}) <= MaxOut
  PROVE  SInv'
<1>1. /\ pc = "idle" /\ call' = c /\ len' = n /\ got' = <<>> /\ result' = 0
      /\ held' = (IF c = "send" THEN TX_FSR ELSE RX_RSR)
      /\ pc' = "first" /\ val' = 0 /\ val1' = 0 /\ high' = 0
      /\ UNCHANGED <<sr, rxVars, txVars>>
  BY DEF Begin, SizeLoop
<1>2. RxOK' /\ TxOK'
  BY <1>1, QuietRx, QuietTx DEF SInv
<1>3. given' = given /\ ret' = Min({n, BufSize})
  BY <1>1 DEF ret, txVars
<1>4. CallOK'
  <2>1. 0 \in -1 .. BufSize
    BY Constants
  <2> HIDE DEF ret
  <2>2. QED BY <1>1, <1>3, <2>1, NothingGot DEF SInv, CallOK
<1>5. Register' = held'
  BY <1>1 DEF Register, rxVars, txVars
<1>6. SizeOK'
  <2>1. 0 \in 0 .. Mod - 1 /\ 0 \in 0 .. Mod \div Digit /\ held' \in 0 .. BufSize
    BY <1>1, FramesInRange, Constants DEF SInv, RxOK, TxOK
  <2>2. held' <= held'
    BY <2>1, Constants
  <2>3. QED BY <1>1, <1>5, <2>1, <2>2 DEF SizeOK, SizeIsGenuine
<1>7. QED BY <1>2, <1>4, <1>6 DEF SInv

LEMMA CallInv == SInv /\ Call => SInv'
<1> SUFFICES ASSUME SInv, Call PROVE SInv'
  OBVIOUS
<1>1. CASE EthernetClient_available
  BY <1>1, BeginInv DEF EthernetClient_available
<1>2. CASE EthernetClient_peek
  BY <1>2, BeginInv DEF EthernetClient_peek
<1>3. CASE EthernetClient_read_buf
  <2>1. PICK n \in Lengths : Begin("recv", n)
    BY <1>3 DEF EthernetClient_read_buf
  <2>2. QED BY <2>1, BeginInv
<1>4. CASE EthernetClient_write
  <2>1. PICK n \in Lengths : given + Min({n, BufSize}) <= MaxOut /\ Begin("send", n)
    BY <1>4 DEF EthernetClient_write
  <2>2. QED BY <2>1, BeginInv
<1>5. QED BY <1>1, <1>2, <1>3, <1>4 DEF Call

-----------------------------------------------------------------------------
(* The loop that reads a size. *)

LEMMA Sizes ==
  ASSUME SInv
  PROVE  /\ Register \in 0 .. BufSize /\ held \in 0 .. BufSize
         /\ \A r \in held .. Register : r \in 0 .. Mod - 1
         /\ Mod \in Nat
BY Constants DEF SInv, SizeOK, RxOK, TxOK, Register

LEMMA ReadHighInv ==
  ASSUME SInv, NEW from, NEW to,
         (from = "first" /\ to = "first_low") \/ (from = "second" /\ to = "second_low"),
         ReadHigh(from, to)
  PROVE  SInv'
<1>1. /\ pc = from /\ pc' = to /\ high' = Register \div Digit
      /\ UNCHANGED <<sr, rxVars, txVars, call, len, val, val1, held, got, result>>
  BY DEF ReadHigh
<1>2. RxOK' /\ TxOK'
  BY <1>1, QuietRx, QuietTx DEF SInv
<1>3. CallOK'
  BY <1>1 DEF SInv, CallOK, ret, txVars
<1>4. Register' = Register
  BY <1>1 DEF Register, rxVars, txVars
<1>5. high' \in 0 .. Mod \div Digit
  BY <1>1, Sizes, FramesInRange, Constants
<1>6. held <= Register /\ Register \in held .. Register
  BY <1>1, Sizes, Constants DEF SInv, SizeOK
<1> DEFINE R == Register
<1>7. R = Register /\ R = Register' /\ R \in held .. R /\ high' = R \div Digit
      /\ UNCHANGED <<val, val1, held, call, len>>
  BY <1>1, <1>4, <1>6
<1> HIDE DEF R
<1>8. SizeOK'
  <2>1. CASE from = "first"
    <3>1. pc' = "first_low" /\ (R = held => val = 0)
      BY <1>1, <1>7, <2>1 DEF SInv, SizeOK
    <3>2. \E r \in held' .. R : high' = r \div Digit
      BY <1>7
    <3>3. held <= R
      BY <1>6, <1>7
    <3>4. QED BY <1>5, <1>7, <3>1, <3>2, <3>3 DEF SInv, SizeOK, SizeIsGenuine
  <2>2. CASE from = "second"
    <3>1. pc' = "second_low" /\ \E r, s \in held .. R : r <= s /\ val1 = Frames(r, s)
      BY <1>1, <1>7, <2>2 DEF SInv, SizeOK
    <3>2. \A s \in held .. R : s <= R
      BY Sizes, <1>7
    <3>3. \E r, s, t \in held' .. R :
            r <= s /\ s <= t /\ val1' = Frames(r, s) /\ high' = t \div Digit
      BY <1>7, <3>1, <3>2
    <3>4. held <= R
      BY <1>6, <1>7
    <3>5. QED BY <1>5, <1>7, <3>1, <3>3, <3>4 DEF SInv, SizeOK, SizeIsGenuine
  <2>3. QED BY <2>1, <2>2
<1>9. QED BY <1>2, <1>3, <1>8 DEF SInv

LEMMA FirstReadInv ==
  SInv /\ FirstRead /\ UNCHANGED <<sr, rxVars, txVars, call, len, held, got, result>> => SInv'
<1> SUFFICES ASSUME SInv, FirstRead,
                    UNCHANGED <<sr, rxVars, txVars, call, len, held, got, result>>
             PROVE  SInv'
  OBVIOUS
<1>1. /\ pc = "first_low" /\ val1' = Word /\ high' = 0 /\ UNCHANGED val
      /\ pc' = IF Word # 0 THEN "second" ELSE IF val = 0 THEN "sized" ELSE "first"
  BY DEF FirstRead
<1>2. RxOK' /\ TxOK'
  BY QuietRx, QuietTx DEF SInv
<1>3. CallOK'
  BY <1>1 DEF SInv, CallOK, ret, txVars
<1> DEFINE R == Register
<1>4. PICK r \in held .. R : high = r \div Digit
  BY <1>1 DEF SInv, SizeOK
<1>5. Word = Frames(r, R)
  BY <1>4 DEF Word, Frames
<1>6. R = Register /\ R = Register' /\ R \in 0 .. Mod - 1 /\ r \in 0 .. Mod - 1
      /\ R \in held .. R /\ r <= R /\ held \in 0 .. BufSize
  BY <1>1, <1>4, Sizes, Constants DEF Register, rxVars, txVars, SInv, SizeOK
<1> HIDE DEF R
<1>7. Word \in 0 .. Mod - 1 /\ 0 \in 0 .. Mod \div Digit /\ Frames(R, R) = R
  BY <1>5, <1>6, FramesInRange, Constants
<1>8. R = held => Word = held /\ val = 0
  <2>1. ASSUME R = held PROVE r = R
    BY <1>6, <2>1, Constants
  <2>2. R = held => val = 0
    BY <1>1, <1>6 DEF SInv, SizeOK
  <2>3. QED BY <1>5, <1>7, <2>1, <2>2
<1>9. \E x, y \in held' .. R : x <= y /\ val1' = Frames(x, y)
  BY <1>1, <1>5, <1>6
<1>10. val \in 0 .. Mod - 1 /\ held <= R
  BY <1>6, Constants DEF SInv, SizeOK
<1> HIDE DEF Frames
<1>11. SizeOK'
  <2>1. CASE Word # 0
    BY <1>1, <1>6, <1>7, <1>9, <1>10, <2>1 DEF SizeOK, SizeIsGenuine
  <2>2. CASE Word = 0 /\ val = 0
    BY <1>1, <1>6, <1>7, <1>8, <1>10, <2>2 DEF SizeOK, SizeIsGenuine
  <2>3. CASE Word = 0 /\ val # 0
    BY <1>1, <1>6, <1>7, <1>8, <1>10, <2>3 DEF SizeOK, SizeIsGenuine
  <2>4. QED BY <2>1, <2>2, <2>3
<1>12. QED BY <1>2, <1>3, <1>11 DEF SInv

LEMMA SecondReadInv ==
  SInv /\ SecondRead /\ UNCHANGED <<sr, rxVars, txVars, call, len, held, got, result>> => SInv'
<1> SUFFICES ASSUME SInv, SecondRead,
                    UNCHANGED <<sr, rxVars, txVars, call, len, held, got, result>>
             PROVE  SInv'
  OBVIOUS
<1>1. /\ pc = "second_low" /\ val' = Word /\ high' = 0 /\ UNCHANGED val1
      /\ pc' = IF Word = val1 THEN "sized" ELSE "first"
  BY DEF SecondRead
<1>2. RxOK' /\ TxOK'
  BY QuietRx, QuietTx DEF SInv
<1>3. CallOK'
  BY <1>1 DEF SInv, CallOK, ret, txVars
<1> DEFINE R == Register
<1>4. PICK r \in held .. R, s \in held .. R, t \in held .. R :
        r <= s /\ s <= t /\ val1 = Frames(r, s) /\ high = t \div Digit
  BY <1>1 DEF SInv, SizeOK
<1>5. Word = Frames(t, R)
  BY <1>4 DEF Word, Frames
<1>6. /\ R = Register /\ R = Register' /\ R \in 0 .. Mod - 1 /\ t \in 0 .. Mod - 1
      /\ r \in 0 .. Mod - 1 /\ s \in 0 .. Mod - 1 /\ t <= R /\ held <= s /\ s <= R
      /\ held \in 0 .. BufSize /\ held <= R
  BY <1>1, <1>4, Sizes, Constants DEF Register, rxVars, txVars, SInv, SizeOK
<1> HIDE DEF R
<1>7. Word \in 0 .. Mod - 1 /\ 0 \in 0 .. Mod \div Digit /\ Frames(R, R) = R
  BY <1>5, <1>6, FramesInRange, Constants
<1>8. ASSUME Word = val1 PROVE Word = s
  <2>1. Frames(r, s) = Frames(t, R)
    BY <1>4, <1>5, <1>8
  <2>2. Frames(t, R) = s
    BY ONLY <1>4, <1>6, <2>1, FramesAgree
  <2>3. QED BY <1>5, <2>2
<1>9. R = held => Word = val1 /\ Word = held
  <2>1. ASSUME R = held PROVE r = R /\ s = R /\ t = R
    BY <1>4, <1>6, <2>1, Constants
  <2>2. QED BY <1>4, <1>5, <1>7, <2>1
<1>10. val1 \in 0 .. Mod - 1
  BY DEF SInv, SizeOK
<1> HIDE DEF Frames
<1>11. SizeOK'
  <2>1. CASE Word = val1
    BY <1>1, <1>6, <1>7, <1>8, <1>9, <1>10, <2>1 DEF SizeOK, SizeIsGenuine
  <2>2. CASE Word # val1
    BY <1>1, <1>6, <1>7, <1>9, <1>10, <2>2 DEF SizeOK, SizeIsGenuine
  <2>3. QED BY <2>1, <2>2
<1>12. QED BY <1>2, <1>3, <1>11 DEF SInv

LEMMA GetSizeInv == SInv /\ getSize => SInv'
BY ReadHighInv, FirstReadInv, SecondReadInv DEF getSize

-----------------------------------------------------------------------------
(* Receiving. *)

LEMMA FunctionIsSeq ==
  ASSUME NEW S, NEW n \in Nat, NEW w \in [1 .. n -> S]
  PROVE  w \in Seq(S) /\ Len(w) = n
OBVIOUS

\* The bytes of a window, and how many they are.
LEMMA WindowIs ==
  ASSUME NEW cells \in Buffers, NEW ptr \in Int, NEW n \in 0 .. BufSize
  PROVE  /\ Window(cells, ptr, n) \in Short /\ Len(Window(cells, ptr, n)) = n
         /\ \A k \in 1 .. n : Window(cells, ptr, n)[k] = cells[Cell(ptr + k - 1)]
<1>1. n \in Nat
  BY Constants
<1>2. \A k \in 1 .. n : Cell(ptr + k - 1) \in 0 .. BufSize - 1
  BY <1>1, DivMod, Constants DEF Cell
<1>3. Window(cells, ptr, n) \in [1 .. n -> 0 .. Mod - 1]
  BY <1>2 DEF Window, Buffers
<1>4. \A k \in 1 .. n : Window(cells, ptr, n)[k] = cells[Cell(ptr + k - 1)]
  BY DEF Window
<1>5. n <= BufSize
  BY Constants
<1>6. Window(cells, ptr, n) \in Seq(0 .. Mod - 1) /\ Len(Window(cells, ptr, n)) = n
  BY ONLY <1>1, <1>3, FunctionIsSeq
<1>7. QED BY <1>4, <1>5, <1>6 DEF Short

\* RECV takes what was read from the size.
LEMMA CommitOK ==
  ASSUME SInv, NEW n \in 0 .. RX_RSR, Commit(n)
  PROVE  RxOK' /\ RX_RSR' = RX_RSR - n
<1>1. /\ RX_RD' = (RX_RD + n) % Mod /\ RX_RSR' = ((RX_RD + RX_RSR) - RX_RD') % Mod
      /\ UNCHANGED <<rxMem, came>>
  BY DEF Commit
<1>2. /\ RX_RD \in Nat /\ RX_RSR \in 0 .. BufSize /\ RX_RSR - n \in 0 .. BufSize
      /\ RX_RSR - n \in 0 .. Mod - 1 /\ RX_RD + n \in Int /\ n \in Int
  BY Constants DEF SInv, RxOK
<1>3. RX_RD' \in 0 .. Mod - 1 /\ RX_RD + n = Mod * ((RX_RD + n) \div Mod) + RX_RD'
      /\ (RX_RD + n) \div Mod \in Int
  BY <1>1, <1>2, DivMod, Constants
<1>4. (RX_RD + RX_RSR) - RX_RD' = Mod * ((RX_RD + n) \div Mod) + (RX_RSR - n)
  BY <1>2, <1>3, Constants
<1>5. RX_RSR' = RX_RSR - n
  <2>1. (RX_RD + RX_RSR) - RX_RD' \in Int
    BY <1>2, <1>3, Constants
  <2>2. QED BY <1>1, <1>2, <1>3, <1>4, <2>1, ModIs, Constants
<1>6. QED BY <1>1, <1>2, <1>3, <1>5 DEF SInv, RxOK

LEMMA recvInv == SInv /\ recv => SInv' /\ Min({val, len}) \in 1 .. RX_RSR
<1> SUFFICES ASSUME SInv, recv PROVE SInv' /\ Min({val, len}) \in 1 .. RX_RSR
  OBVIOUS
<1> DEFINE n == Min({val, len})
<1>1. /\ call = "recv" /\ pc = "sized" /\ val > 0
      /\ Return(n, Unread(RX_RD, n)) /\ Commit(n) /\ UNCHANGED <<sr, txVars>>
  BY DEF recv
<1>2. val <= RX_RSR /\ val \in Nat /\ len \in Nat \ {0} /\ RX_RSR \in 0 .. BufSize
  BY <1>1, Constants DEF SInv, SizeOK, SizeIsGenuine, Register, CallOK, RxOK
<1>3. n \in 1 .. RX_RSR /\ n \in 0 .. BufSize /\ n \in 0 .. RX_RSR
  BY <1>1, <1>2, MinIs, Constants
<1> HIDE DEF n
<1>4. RxOK'
  BY <1>1, <1>3, CommitOK
<1>5. Unread(RX_RD, n) \in Short
  <2>1. Unread(RX_RD, n) = Window(rxMem, RX_RD, n) /\ RX_RD \in Int
    BY Constants DEF Unread, Window, SInv, RxOK
  <2>2. QED BY <1>3, <2>1, WindowIs DEF SInv, RxOK
<1>6. CallOK' /\ SizeOK'
  BY <1>1, <1>3, <1>5, ReturnOK, Constants DEF SInv
<1>7. TxOK'
  BY <1>1, QuietTx DEF SInv
<1>8. QED BY <1>3, <1>4, <1>6, <1>7 DEF SInv, n

LEMMA recvNoDataInv == SInv /\ recvNoData => SInv'
<1> SUFFICES ASSUME SInv, recvNoData PROVE SInv'
  OBVIOUS
<1>1. /\ call = "recv" /\ pc = "sized" /\ pc' = "status"
      /\ UNCHANGED <<sr, rxVars, txVars, call, len, sizeVars, got, result>>
  BY DEF recvNoData
<1>2. RxOK' /\ TxOK'
  BY <1>1, QuietRx, QuietTx DEF SInv
<1>3. CallOK'
  BY <1>1 DEF SInv, CallOK, txVars, ret
<1>4. SizeOK'
  BY <1>1 DEF SInv, SizeOK, SizeIsGenuine, sizeVars
<1>5. QED BY <1>2, <1>3, <1>4 DEF SInv

LEMMA ReceiverReturnsInv == SInv /\ (AvailableReturns \/ recvStatus \/ peek) => SInv'
<1> SUFFICES ASSUME SInv, AvailableReturns \/ recvStatus \/ peek PROVE SInv'
  OBVIOUS
<1>1. UNCHANGED <<sr, rxVars, txVars>>
  BY DEF AvailableReturns, recvStatus, peek
<1>2. PICK n \in -1 .. BufSize, bytes \in Short : Return(n, bytes)
  <2>1. CASE AvailableReturns
    <3>1. Return(val, <<>>) /\ pc = "sized"
      BY <2>1 DEF AvailableReturns
    <3>2. val \in -1 .. BufSize
      BY <3>1, Sizes, Constants DEF SInv, SizeOK, SizeIsGenuine
    <3>3. QED BY <3>1, <3>2, NothingGot
  <2>2. CASE recvStatus
    <3>1. -1 \in -1 .. BufSize /\ 0 \in -1 .. BufSize
      BY Constants
    <3>2. Return(-1, <<>>) \/ Return(0, <<>>)
      BY <2>2 DEF recvStatus
    <3>3. QED BY <3>1, <3>2, NothingGot
  <2>3. CASE peek
    <3>1. Return(-1, <<>>) \/ Return(1, Window(rxMem, RX_RD, 1))
      BY <2>3 DEF peek, Unread, Window
    <3>2. 1 \in 0 .. BufSize /\ 1 \in -1 .. BufSize /\ -1 \in -1 .. BufSize /\ RX_RD \in Int
      BY Constants DEF SInv, RxOK
    <3>3. Window(rxMem, RX_RD, 1) \in Short
      BY <3>2, WindowIs DEF SInv, RxOK
    <3>4. QED BY <3>1, <3>2, <3>3, NothingGot
  <2>4. QED BY <2>1, <2>2, <2>3
<1>3. RxOK' /\ TxOK'
  BY <1>1, QuietRx, QuietTx DEF SInv
<1>4. CallOK' /\ SizeOK'
  BY <1>1, <1>2, ReturnOK DEF SInv
<1>5. QED BY <1>3, <1>4 DEF SInv

-----------------------------------------------------------------------------
(* Sending. *)

LEMMA RetIs ==
  ASSUME CallOK, call = "send"
  PROVE  ret \in 1 .. BufSize /\ ret \in Nat \ {0} /\ ret \in -1 .. BufSize
<1>1. len \in Nat \ {0}
  BY Constants DEF CallOK
<1>2. QED BY <1>1, MinIs, Constants DEF ret

LEMMA QueuedIs ==
  ASSUME TxOK
  PROVE  Queued \in 0 .. Mod - 1 /\ Queued \in Nat /\ TX_WR \in Int /\ TX_RD \in Int
<1>1. TX_WR \in Int /\ TX_RD \in Int /\ TX_WR - TX_RD \in Int
  BY Constants DEF TxOK
<1>2. QED BY <1>1, DivMod, Constants DEF Queued

LEMMA sendStatusInv == SInv /\ sendStatus => SInv'
<1> SUFFICES ASSUME SInv, sendStatus PROVE SInv'
  OBVIOUS
<1>1. /\ call = "send" /\ pc = "sized" /\ UNCHANGED <<sr, rxVars, call, len, got, result>>
      /\ UNCHANGED txVars
  BY DEF sendStatus
<1>2. RxOK' /\ TxOK'
  BY <1>1, QuietRx, QuietTx DEF SInv
<1>3. given' = given /\ TX_FSR' = TX_FSR /\ ret' = ret /\ Register = TX_FSR
      /\ Register' = TX_FSR /\ TX_FSR \in 0 .. BufSize
  BY <1>1 DEF txVars, ret, Register, SInv, TxOK
<1>4. pc' \in {"wait", "first", "status"}
  BY DEF sendStatus, SizeLoop
<1>5. CallOK'
  BY <1>1, <1>3, <1>4 DEF SInv, CallOK
<1> HIDE DEF ret
<1>6. SizeOK'
  <2>1. CASE pc' = "wait" /\ UNCHANGED sizeVars
    BY <1>1, <2>1 DEF SInv, SizeOK, SizeIsGenuine, sizeVars
  <2>2. CASE SizeLoop /\ held' = TX_FSR
    <3>1. 0 \in 0 .. Mod - 1 /\ 0 \in 0 .. Mod \div Digit /\ TX_FSR <= TX_FSR
      BY <1>3, FramesInRange, Constants
    <3>2. QED BY <1>3, <2>2, <3>1 DEF SizeLoop, SizeOK, SizeIsGenuine
  <2>3. CASE Fits /\ pc' = "status" /\ UNCHANGED sizeVars
    <3>1. ret <= val /\ ret \in Nat \ {0} /\ val \in Nat
      BY <1>1, <2>3, RetIs, Constants DEF Fits, SInv, SizeOK
    <3>2. val <= TX_FSR
      BY <1>1, <1>3, <3>1 DEF SInv, SizeOK, SizeIsGenuine
    <3>3. QED BY <1>1, <1>3, <2>3, <3>1, <3>2 DEF SInv, SizeOK, SizeIsGenuine, sizeVars
  <2>4. QED BY <2>1, <2>2, <2>3 DEF sendStatus
<1>7. QED BY <1>2, <1>5, <1>6 DEF SInv

\* SEND lengthens what is queued by what has been copied.
LEMMA SendQueues ==
  ASSUME SInv, sendData, sr # "CLOSED"
  PROVE  /\ Queued' = Queued + ret /\ Queued + ret <= BufSize
         /\ TX_FSR' = TX_FSR - ret /\ TX_FSR' \in 0 .. BufSize
         /\ TX_FSR' + Queued' <= BufSize
<1>1. /\ call = "send" /\ pc = "status" /\ TX_WR' = (TX_WR + ret) % Mod
      /\ TX_FSR' = TX_FSR - ret /\ UNCHANGED TX_RD
  BY DEF sendData
<1>2. ret \in Nat \ {0} /\ Queued \in Nat /\ TX_WR \in Int /\ TX_RD \in Int
      /\ TX_FSR \in 0 .. BufSize /\ TX_FSR + Queued <= BufSize
  BY <1>1, RetIs, QueuedIs DEF SInv, TxOK
<1>3. ret <= TX_FSR
  <2>1. ret <= val /\ val <= TX_FSR /\ val \in Nat
    BY <1>1, Constants DEF SInv, SizeOK
  <2>2. QED BY <1>2, <2>1, Constants
<1>4. Queued + ret <= BufSize /\ Queued + ret < Mod /\ TX_FSR - ret \in 0 .. BufSize
  BY <1>2, <1>3, Constants
<1>5. Queued' = Queued + ret
  <2>1. Mod \in Nat \ {0} /\ TX_RD \in Int /\ TX_WR \in Int /\ ret \in Nat
    BY <1>2, Constants
  <2>2. ((TX_WR - TX_RD) % Mod) + ret < Mod
    BY <1>4 DEF Queued
  <2>3. (((TX_WR + ret) % Mod) - TX_RD) % Mod = ((TX_WR - TX_RD) % Mod) + ret
    BY ONLY <2>1, <2>2, AheadMore
  <2>4. QED BY <1>1, <2>3 DEF Queued
<1>6. QED BY <1>1, <1>2, <1>4, <1>5, Constants

\* What is copied, and where.
At(n, ptr, c) == {k \in 1 .. n : Cell(ptr + k - 1) = c}
Copied(cells, ptr, n, first) ==
  [c \in DOMAIN cells |->
     IF At(n, ptr, c) = {} THEN cells[c] ELSE (first + Max(At(n, ptr, c)) - 1) % Mod]

LEMMA AtIs ==
  ASSUME NEW n \in Nat, NEW ptr, NEW c, At(n, ptr, c) # {}
  PROVE  Max(At(n, ptr, c)) \in At(n, ptr, c) /\ Max(At(n, ptr, c)) \in 1 .. n
BY MaxIs DEF At

LEMMA CopiedTyped ==
  ASSUME NEW cells \in Buffers, NEW ptr, NEW n \in Nat, NEW first \in Int
  PROVE  Copied(cells, ptr, n, first) \in Buffers
<1>1. DOMAIN cells = 0 .. BufSize - 1 /\ \A c \in DOMAIN cells : cells[c] \in 0 .. Mod - 1
  BY DEF Buffers
<1>2. ASSUME NEW c, At(n, ptr, c) # {}
      PROVE  (first + Max(At(n, ptr, c)) - 1) % Mod \in 0 .. Mod - 1
  <2>1. first + Max(At(n, ptr, c)) - 1 \in Int
    BY <1>2, AtIs
  <2>2. QED BY <2>1, DivMod, Constants
<1>3. QED BY <1>1, <1>2 DEF Copied, Buffers

LEMMA sendDataInv == SInv /\ sendData => SInv'
<1> SUFFICES ASSUME SInv, sendData PROVE SInv'
  OBVIOUS
<1>1. /\ call = "send" /\ pc = "status" /\ pc' = "wait" /\ TX_WR' = (TX_WR + ret) % Mod
      /\ UNCHANGED <<sr, rxVars, TX_RD, ir, wire, call, len, sizeVars, got, result>>
  BY DEF sendData
<1>2. txMem' = Copied(txMem, TX_WR, ret, Start + given)
  BY DEF sendData, Copied, At
<1>3. /\ ret \in Nat \ {0} /\ TX_WR \in Int /\ TX_WR + ret \in Int /\ given \in 0 .. MaxOut
      /\ Start + given \in Int /\ given + ret <= MaxOut /\ txMem \in Buffers
      /\ TX_FSR \in 0 .. BufSize
  BY <1>1, RetIs, QueuedIs, Constants DEF SInv, TxOK, CallOK
<1>4. txMem' \in Buffers /\ TX_WR' \in 0 .. Mod - 1
  BY <1>1, <1>2, <1>3, CopiedTyped, DivMod, Constants
<1>5. /\ TX_FSR' \in 0 .. BufSize /\ given' \in 0 .. MaxOut
      /\ sr' # "CLOSED" => TX_FSR' + Queued' <= BufSize
  <2>1. CASE sr = "CLOSED"
    BY <1>1, <1>3, <2>1 DEF sendData
  <2>2. CASE sr # "CLOSED"
    <3>1. given' = given + ret
      BY <2>2 DEF sendData
    <3>2. given' \in 0 .. MaxOut
      BY <1>3, <3>1, Constants
    <3>3. QED BY <2>2, <3>2, SendQueues
  <2>3. QED BY <2>1, <2>2
<1>6. TxOK'
  BY <1>1, <1>4, <1>5 DEF SInv, TxOK
<1>7. RxOK'
  BY <1>1, QuietRx DEF SInv
<1>8. CallOK' /\ SizeOK'
  BY <1>1 DEF SInv, CallOK, SizeOK, SizeIsGenuine, sizeVars
<1>9. QED BY <1>6, <1>7, <1>8 DEF SInv

\* The end of send, and its wait.
LEMMA SendWaitInv == SInv /\ (sendDone \/ sendNotYet \/ sendWaitStatus) => SInv'
<1> SUFFICES ASSUME SInv, sendDone \/ sendNotYet \/ sendWaitStatus PROVE SInv'
  OBVIOUS
<1>1. /\ call = "send" /\ pc \in {"wait", "wait_status"} /\ ir' \in {0, 1}
      /\ UNCHANGED <<sr, rxVars, TX_FSR, TX_RD, TX_WR, txMem, wire, given>>
  BY DEF sendDone, sendNotYet, sendWaitStatus, txVars, SInv, TxOK
<1>2. RxOK' /\ TxOK'
  BY <1>1, QuietRx DEF SInv, TxOK, Queued
<1>3. CASE \E n \in {ret, 0} : Return(n, <<>>)
  <2>1. PICK n \in {ret, 0} : Return(n, <<>>)
    BY <1>3
  <2>2. n \in -1 .. BufSize
    BY <1>1, RetIs, Constants DEF SInv
  <2>3. QED BY <1>1, <1>2, <2>1, <2>2, ReturnOK, NothingGot DEF SInv
<1>4. CASE pc' \in {"wait", "wait_status"} /\ UNCHANGED <<call, len, sizeVars, got, result>>
  <2>1. CallOK' /\ SizeOK'
    BY <1>1, <1>4 DEF SInv, CallOK, SizeOK, SizeIsGenuine, sizeVars
  <2>2. QED BY <1>2, <2>1 DEF SInv
<1>5. QED BY <1>3, <1>4 DEF sendDone, sendNotYet, sendWaitStatus

-----------------------------------------------------------------------------
(* The chip, the network and the peer. *)

LEMMA PeerByteInv == SInv /\ PeerByte => SInv'
<1> SUFFICES ASSUME SInv, PeerByte PROVE SInv'
  OBVIOUS
<1>1. /\ sr = "ESTABLISHED" /\ came < MaxIn /\ RX_RSR < BufSize
      /\ rxMem' = [rxMem EXCEPT ![Cell(RX_RD + RX_RSR)] = (Start + came) % Mod]
      /\ RX_RSR' = RX_RSR + 1 /\ came' = came + 1
      /\ UNCHANGED <<sr, RX_RD, txVars, call, pc, len, sizeVars, got, result>>
  BY DEF PeerByte
<1>2. /\ RX_RSR \in Nat /\ RX_RSR' \in 0 .. BufSize /\ came' \in 0 .. MaxIn /\ RX_RSR' >= RX_RSR
      /\ Start + came \in Int
  BY <1>1, Constants DEF SInv, RxOK
<1>3. rxMem' \in Buffers
  <2>1. (Start + came) % Mod \in 0 .. Mod - 1
    BY <1>2, DivMod, Constants
  <2>2. QED BY <1>1, <2>1 DEF SInv, RxOK, Buffers
<1>4. RxOK'
  BY <1>1, <1>2, <1>3 DEF SInv, RxOK
<1>5. TxOK' /\ CallOK'
  BY <1>1, QuietTx, QuietCall DEF SInv, txVars
<1>6. SizeOK'
  <2>1. RX_RSR' \in Nat /\ TX_FSR' = TX_FSR /\ TX_FSR \in Nat /\ TX_FSR' >= TX_FSR
    BY <1>1, <1>2, Constants DEF txVars, SInv, TxOK
  <2>2. QED BY <1>1, <1>2, <2>1, QuietSize DEF SInv
<1>7. QED BY <1>4, <1>5, <1>6 DEF SInv

\* The peer closes its half, or the connection is reset.
LEMMA ConnectionInv == SInv /\ (PeerFin \/ Reset) => SInv'
<1> SUFFICES ASSUME SInv, PeerFin \/ Reset PROVE SInv'
  OBVIOUS
<1>1. /\ sr' \in {"CLOSE_WAIT", "CLOSED"} /\ (sr' # "CLOSED" => sr # "CLOSED")
      /\ UNCHANGED <<rxVars, txVars, call, pc, len, sizeVars, got, result>>
  BY DEF PeerFin, Reset
<1>2. RxOK'
  BY <1>1, QuietRx DEF SInv
<1>3. TxOK'
  BY <1>1 DEF SInv, TxOK, txVars, Queued
<1>4. CallOK'
  BY <1>1 DEF SInv, CallOK, ret, txVars
<1>5. SizeOK'
  <2>1. RX_RSR' = RX_RSR /\ TX_FSR' = TX_FSR /\ RX_RSR \in Nat /\ TX_FSR \in Nat
    BY <1>1, Constants DEF rxVars, txVars, SInv, RxOK, TxOK
  <2>2. RX_RSR' >= RX_RSR /\ TX_FSR' >= TX_FSR
    BY <2>1
  <2>3. QED BY <1>1, <2>1, <2>2, QuietSize DEF SInv
<1>6. QED BY <1>2, <1>3, <1>4, <1>5 DEF SInv

LEMMA LeaveIs ==
  ASSUME SInv, Leave
  PROVE  Queued \in Nat /\ Queued > 0 /\ Queued' = Queued - 1
<1>1. Queued > 0 /\ TX_RD' = (TX_RD + 1) % Mod /\ UNCHANGED TX_WR
  BY DEF Leave
<1>2. Queued \in Nat /\ TX_WR \in Int /\ TX_RD \in Int
  BY QueuedIs DEF SInv
<1>3. 1 <= (TX_WR - TX_RD) % Mod
  BY <1>1, <1>2 DEF Queued
<1>4. (TX_WR - ((TX_RD + 1) % Mod)) % Mod = ((TX_WR - TX_RD) % Mod) - 1
  <2>1. 1 \in Nat /\ Mod \in Nat \ {0}
    BY Constants
  <2>2. QED BY ONLY <1>2, <1>3, <2>1, AheadLess, ZenonT(60)
<1>5. QED BY <1>1, <1>2, <1>4 DEF Queued

LEMMA LeaveInv == SInv /\ Leave => SInv'
<1> SUFFICES ASSUME SInv, Leave PROVE SInv'
  OBVIOUS
<1>1. /\ sr # "CLOSED" /\ wire' = <<txMem[Cell(TX_RD)]>> /\ TX_RD' = (TX_RD + 1) % Mod
      /\ UNCHANGED <<sr, rxVars, TX_FSR, TX_WR, txMem, given,
                     call, pc, len, sizeVars, got, result>>
  BY DEF Leave
<1>2. ir' \in {0, 1}
  BY DEF Leave, SInv, TxOK
<1>3. TX_RD \in Int /\ TX_RD + 1 \in Int
  BY Constants DEF SInv, TxOK
<1>4. TX_RD' \in 0 .. Mod - 1 /\ Cell(TX_RD) \in 0 .. BufSize - 1
  BY <1>1, <1>3, DivMod, Constants DEF Cell
<1>5. wire' \in Seq(0 .. Mod - 1) /\ Len(wire') <= 1
  <2>1. txMem[Cell(TX_RD)] \in 0 .. Mod - 1
    BY <1>4 DEF SInv, TxOK, Buffers
  <2>2. QED BY <1>1, <2>1
<1>6. TX_FSR' + Queued' <= BufSize
  <2>1. TX_FSR + Queued <= BufSize /\ TX_FSR \in Nat /\ BufSize \in Nat
    BY <1>1, Constants DEF SInv, TxOK
  <2>2. QED BY <1>1, <2>1, LeaveIs
<1>7. TxOK'
  BY <1>1, <1>2, <1>4, <1>5, <1>6 DEF SInv, TxOK
<1>8. RxOK' /\ CallOK'
  BY <1>1, QuietRx, QuietCall DEF SInv
<1>9. SizeOK'
  <2>1. RX_RSR' = RX_RSR /\ TX_FSR' = TX_FSR /\ RX_RSR \in Nat /\ TX_FSR \in Nat
    BY <1>1, Constants DEF rxVars, SInv, RxOK, TxOK
  <2>2. RX_RSR' >= RX_RSR /\ TX_FSR' >= TX_FSR
    BY <2>1
  <2>3. QED BY <1>1, <2>1, <2>2, QuietSize DEF SInv
<1>10. QED BY <1>7, <1>8, <1>9 DEF SInv

LEMMA AcknowledgeInv == SInv /\ Acknowledge => SInv'
<1> SUFFICES ASSUME SInv, Acknowledge PROVE SInv'
  OBVIOUS
<1>1. /\ sr # "CLOSED"
      /\ UNCHANGED <<sr, rxVars, TX_RD, TX_WR, txMem, ir, wire, given,
                     call, pc, len, sizeVars, got, result>>
  BY DEF Acknowledge
<1>2. PICK n \in 1 .. Unanswered : TX_FSR' = TX_FSR + n
  BY DEF Acknowledge
<1>3. Queued \in Nat /\ TX_FSR \in Nat /\ Queued' = Queued
  BY <1>1, QueuedIs, Constants DEF SInv, TxOK, Queued
<1>4. Unanswered = BufSize - TX_FSR - Queued
  BY DEF Unanswered
<1>5. n \in Nat /\ n <= BufSize - TX_FSR - Queued
  BY <1>2, <1>3, <1>4, Constants
<1>6. TX_FSR' \in 0 .. BufSize /\ TX_FSR' + Queued' <= BufSize /\ TX_FSR' >= TX_FSR
  BY <1>2, <1>3, <1>5, Constants
<1>7. TxOK'
  BY <1>1, <1>6 DEF SInv, TxOK
<1>8. RxOK' /\ CallOK'
  BY <1>1, QuietRx, QuietCall DEF SInv
<1>9. SizeOK'
  <2>1. RX_RSR' = RX_RSR /\ RX_RSR \in Nat /\ TX_FSR' \in Nat
    BY <1>1, <1>6, Constants DEF rxVars, SInv, RxOK
  <2>2. RX_RSR' >= RX_RSR
    BY <2>1
  <2>3. QED BY <1>1, <1>6, <2>1, <2>2, QuietSize DEF SInv
<1>10. QED BY <1>7, <1>8, <1>9 DEF SInv

-----------------------------------------------------------------------------
(* The invariant and its theorems. *)

LEMMA InitInv == Init => SInv
<1> SUFFICES ASSUME Init PROVE SInv
  OBVIOUS
<1>1. 0 \in 0 .. Mod - 1 /\ 0 \in 0 .. Mod \div Digit /\ 0 \in 0 .. BufSize
      /\ BufSize \in 0 .. BufSize /\ 0 \in -1 .. BufSize
  BY FramesInRange, Constants
<1>2. [c \in 0 .. BufSize - 1 |-> 0] \in Buffers
  BY <1>1 DEF Buffers
<1>3. RxOK
  BY <1>1, <1>2, Constants DEF Init, RxOK
<1>4. TxOK
  <2>1. (Start - Start) % Mod = 0
    BY Constants
  <2>2. TX_FSR + Queued <= BufSize
    BY <2>1, Constants DEF Init, Queued
  <2>3. wire \in Seq(0 .. Mod - 1) /\ Len(wire) <= 1
    BY EmptySeq DEF Init
  <2>4. QED BY <1>1, <1>2, <2>2, <2>3, Constants DEF Init, TxOK
<1>5. CallOK /\ SizeOK
  BY <1>1, NothingGot DEF Init, CallOK, SizeOK, SizeIsGenuine
<1>6. QED BY <1>3, <1>4, <1>5 DEF SInv

LEMMA NextInv == SInv /\ [Next]_vars => SInv'
<1> SUFFICES ASSUME SInv, [Next]_vars PROVE SInv'
  OBVIOUS
<1>1. CASE Call
  BY <1>1, CallInv
<1>2. CASE Continue
  BY <1>2, GetSizeInv, recvInv, recvNoDataInv, ReceiverReturnsInv, sendStatusInv, sendDataInv,
     SendWaitInv DEF Continue
<1>3. CASE PeerByte \/ PeerFin \/ Reset \/ Leave \/ Acknowledge
  BY <1>3, PeerByteInv, ConnectionInv, LeaveInv, AcknowledgeInv
<1>4. CASE UNCHANGED vars
  <2>1. RxOK' /\ TxOK' /\ CallOK'
    BY <1>4, QuietRx, QuietTx, QuietCall DEF SInv, vars, txVars
  <2>2. RX_RSR' = RX_RSR /\ TX_FSR' = TX_FSR /\ RX_RSR \in Nat /\ TX_FSR \in Nat
    BY <1>4, Constants DEF vars, rxVars, txVars, SInv, RxOK, TxOK
  <2>3. RX_RSR' >= RX_RSR /\ TX_FSR' >= TX_FSR
    BY <2>2
  <2>4. SizeOK'
    BY <1>4, <2>2, <2>3, QuietSize DEF SInv, vars
  <2>5. QED BY <2>1, <2>4 DEF SInv
<1>5. QED BY <1>1, <1>2, <1>3, <1>4 DEF Next

LEMMA Invariant == Spec => []SInv
<1>1. QED BY InitInv, NextInv, PTL DEF Spec

LEMMA Meaning == SInv => TypeOK /\ SizeIsGenuine
<1> SUFFICES ASSUME SInv PROVE TypeOK /\ SizeIsGenuine
  OBVIOUS
<1>1. TypeOK
  BY DEF SInv, RxOK, TxOK, CallOK, SizeOK, Buffers, Short, TypeOK
<1>2. QED BY <1>1 DEF SInv, SizeOK

\* The registers, the pointers, the buffers and the locals of a call keep their types: no
\* size ever exceeds the buffer, and no pointer its 16 bits.
THEOREM TypeCorrect == Spec => []TypeOK
<1>1. QED BY Invariant, Meaning, PTL

\* The loops of W5500_getTXFreeSize and W5500_getRXReceivedSize return a size that the
\* register had since the call began, the exact one if it has not changed, or zero.
THEOREM SizesAreGenuine == Spec => []SizeIsGenuine
<1>1. QED BY Invariant, Meaning, PTL

-----------------------------------------------------------------------------
(* The windows of the buffers, as queues. *)

Byte == 0 .. Mod - 1

\* A pointer may be reduced before or after an offset is added to it.
LEMMA SameCell ==
  ASSUME NEW a \in Int, NEW b \in Int
  PROVE  Cell((a % Mod) + b) = Cell(a + b)
<1>1. ((a % Mod) + b) % Mod = (a + b) % Mod
  BY ModPlus, Constants
<1>2. (a % Mod) + b \in Int /\ a + b \in Int
  BY DivMod, Constants
<1>3. (((a % Mod) + b) % Mod) % BufSize = ((a % Mod) + b) % BufSize
  BY <1>2, ModMod, Constants
<1>4. ((a + b) % Mod) % BufSize = (a + b) % BufSize
  BY <1>2, ModMod, Constants
<1>5. QED BY <1>1, <1>3, <1>4 DEF Cell

LEMMA CellInBuffer == ASSUME NEW a \in Int PROVE Cell(a) \in 0 .. BufSize - 1
BY DivMod, Constants DEF Cell

\* A window in which no cell has changed.
LEMMA SameWindow ==
  ASSUME NEW s \in Buffers, NEW t \in Buffers, NEW p \in Int, NEW q \in Int,
         NEW n \in 0 .. BufSize,
         \A k \in 1 .. n : s[Cell(p + k - 1)] = t[Cell(q + k - 1)]
  PROVE  Window(s, p, n) = Window(t, q, n)
BY DEF Window

\* The first n bytes of a queue, and the rest of it.
LEMMA WindowTaken ==
  ASSUME NEW cells \in Buffers, NEW ptr \in Int, NEW size \in 0 .. BufSize, NEW n \in 0 .. size
  PROVE  /\ SubSeq(Window(cells, ptr, size), 1, n) = Window(cells, ptr, n)
         /\ SubSeq(Window(cells, ptr, size), n + 1, size)
              = Window(cells, (ptr + n) % Mod, size - n)
<1>1. /\ size \in Nat /\ n \in Nat /\ n \in 0 .. BufSize /\ size - n \in 0 .. BufSize
      /\ size - n \in Nat /\ ptr + n \in Int /\ (ptr + n) % Mod \in Int
  BY DivMod, Constants
<1> DEFINE w == Window(cells, ptr, size)
           a == Window(cells, ptr, n)
           b == Window(cells, (ptr + n) % Mod, size - n)
<1>2. /\ w \in Seq(Byte) /\ Len(w) = size
      /\ \A k \in 1 .. size : w[k] = cells[Cell(ptr + k - 1)]
  BY WindowIs DEF Short, Byte
<1>3. /\ a \in Seq(Byte) /\ Len(a) = n
      /\ \A k \in 1 .. n : a[k] = cells[Cell(ptr + k - 1)]
  BY <1>1, WindowIs DEF Short, Byte
<1>4. /\ b \in Seq(Byte) /\ Len(b) = size - n
      /\ \A k \in 1 .. size - n : b[k] = cells[Cell(((ptr + n) % Mod) + k - 1)]
  BY <1>1, WindowIs DEF Short, Byte
<1> HIDE DEF w, a, b
<1>5. \A k \in 1 .. size : w[k] \in Byte
  BY <1>2, ElementOfSeq
<1>6. SubSeq(w, 1, n) = a
  <2>1. \A k \in 1 .. n : w[k] \in Byte
    BY <1>1, <1>5
  <2>2. /\ SubSeq(w, 1, n) \in Seq(Byte)
        /\ Len(SubSeq(w, 1, n)) = IF 1 <= n THEN n - 1 + 1 ELSE 0
        /\ \A k \in 1 .. n - 1 + 1 : SubSeq(w, 1, n)[k] = w[1 + k - 1]
    BY <1>1, <2>1, SubSeqProperties
  <2>3. Len(SubSeq(w, 1, n)) = Len(a)
    BY <1>1, <1>3, <2>2
  <2>4. ASSUME NEW k \in 1 .. Len(SubSeq(w, 1, n)) PROVE SubSeq(w, 1, n)[k] = a[k]
    <3>1. k \in 1 .. n /\ k \in 1 .. size /\ 1 + k - 1 = k /\ k \in 1 .. n - 1 + 1
      BY <1>1, <1>3, <2>3
    <3>2. QED BY <1>2, <1>3, <2>2, <3>1
  <2>5. QED BY ONLY <1>3, <2>2, <2>3, <2>4, SeqEqual
<1>7. SubSeq(w, n + 1, size) = b
  <2>1. \A k \in n + 1 .. size : w[k] \in Byte
    BY <1>1, <1>5
  <2> DEFINE t == SubSeq(w, n + 1, size)
  <2>2. /\ t \in Seq(Byte)
        /\ Len(t) = IF n + 1 <= size THEN size - (n + 1) + 1 ELSE 0
        /\ \A k \in 1 .. size - (n + 1) + 1 : t[k] = w[(n + 1) + k - 1]
    BY <1>1, <2>1, SubSeqProperties
  <2> HIDE DEF t
  <2>3. Len(t) = Len(b)
    BY <1>1, <1>4, <2>2
  <2>4. ASSUME NEW k \in 1 .. Len(t) PROVE t[k] = b[k]
    <3>1. /\ k \in 1 .. size - n /\ k \in 1 .. size - (n + 1) + 1
          /\ n + k \in 1 .. size /\ (n + 1) + k - 1 = n + k
      BY <1>1, <1>4, <2>3
    <3>2. t[k] = cells[Cell(ptr + (n + k) - 1)]
      BY <1>2, <2>2, <3>1
    <3>3. Cell(((ptr + n) % Mod) + (k - 1)) = Cell((ptr + n) + (k - 1))
      BY <1>1, <3>1, SameCell
    <3>4. ((ptr + n) % Mod) + (k - 1) = ((ptr + n) % Mod) + k - 1
          /\ (ptr + n) + (k - 1) = ptr + (n + k) - 1
      BY <1>1, <3>1
    <3>5. QED BY <1>4, <3>1, <3>2, <3>3, <3>4
  <2>5. t = b
    BY ONLY <1>4, <2>2, <2>3, <2>4, SeqEqual
  <2>6. QED BY <2>5 DEF t
<1>8. QED BY <1>6, <1>7 DEF w, a, b

\* A byte that is put behind a queue.
LEMMA WindowGrows ==
  ASSUME NEW cells \in Buffers, NEW ptr \in Int, NEW size \in 0 .. BufSize, size < BufSize,
         NEW byte \in Byte
  PROVE  Window([cells EXCEPT ![Cell(ptr + size)] = byte], ptr, size + 1)
           = Append(Window(cells, ptr, size), byte)
<1> DEFINE more == [cells EXCEPT ![Cell(ptr + size)] = byte]
           w == Window(cells, ptr, size)
           v == Window(more, ptr, size + 1)
<1>1. size \in Nat /\ size + 1 \in 0 .. BufSize /\ ptr + size \in Int /\ BufSize \in Nat \ {0}
  BY Constants
<1>2. Cell(ptr + size) \in 0 .. BufSize - 1
  BY <1>1, CellInBuffer
<1>3. /\ more \in Buffers /\ more[Cell(ptr + size)] = byte
      /\ \A c \in 0 .. BufSize - 1 : c # Cell(ptr + size) => more[c] = cells[c]
  BY <1>2 DEF Buffers, Byte
<1> HIDE DEF more
<1>4. /\ w \in Seq(Byte) /\ Len(w) = size
      /\ \A k \in 1 .. size : w[k] = cells[Cell(ptr + k - 1)]
  BY WindowIs DEF Short, Byte
<1>5. /\ v \in Seq(Byte) /\ Len(v) = size + 1
      /\ \A k \in 1 .. size + 1 : v[k] = more[Cell(ptr + k - 1)]
  BY <1>1, <1>3, WindowIs DEF Short, Byte
<1> HIDE DEF w, v
<1>6. /\ Append(w, byte) \in Seq(Byte) /\ Len(Append(w, byte)) = size + 1
      /\ \A k \in 1 .. size : Append(w, byte)[k] = w[k]
      /\ Append(w, byte)[size + 1] = byte
  BY <1>4, AppendProperties
<1>7. ASSUME NEW k \in 1 .. size + 1 PROVE v[k] = Append(w, byte)[k]
  <2>1. CASE k = size + 1
    <3>1. ptr + k - 1 = ptr + size
      BY <1>1, <2>1
    <3>2. QED BY <1>3, <1>5, <1>6, <2>1, <3>1
  <2>2. CASE k # size + 1
    <3>1. k \in 1 .. size /\ ptr + k - 1 \in Int
      BY <1>1, <2>2
    <3>2. ptr + k - 1 < ptr + size /\ ptr + size < (ptr + k - 1) + BufSize
      BY <1>1, <3>1
    <3>3. Cell(ptr + k - 1) # Cell(ptr + size)
      BY <1>1, <3>1, <3>2, DifferentCells DEF Cell
    <3>4. Cell(ptr + k - 1) \in 0 .. BufSize - 1
      BY <3>1, CellInBuffer
    <3>5. QED BY <1>3, <1>4, <1>5, <1>6, <3>1, <3>3, <3>4
  <2>3. QED BY <2>1, <2>2
<1>8. v = Append(w, byte)
  <2>1. Len(v) = Len(Append(w, byte)) /\ \A k \in 1 .. Len(v) : v[k] = Append(w, byte)[k]
    BY <1>5, <1>6, <1>7
  <2>2. QED BY ONLY <1>5, <1>6, <2>1, SeqEqual
<1>9. QED BY <1>8 DEF v, w, more

\* A queue, and behind it n bytes, the first of which has the number first.
With(queue, first, n) == queue \o [k \in 1 .. n |-> ((first % Mod) + k - 1) % Mod]

\* The bytes that send copies behind a queue.
LEMMA WindowCopied ==
  ASSUME NEW cells \in Buffers, NEW ptr \in Int, NEW end \in Int, NEW n \in Nat \ {0},
         NEW size \in 0 .. BufSize, size = (end - ptr) % Mod,
         NEW all \in 0 .. BufSize, all = size + n,
         NEW first \in Int
  PROVE  Window(Copied(cells, end, n, first), ptr, all)
           = With(Window(cells, ptr, size), first, n)
<1> DEFINE more == Copied(cells, end, n, first)
           w == Window(cells, ptr, size)
           v == Window(more, ptr, size + n)
           new == [k \in 1 .. n |-> ((first % Mod) + k - 1) % Mod]
<1>1. /\ size \in Nat /\ size + n \in 0 .. BufSize /\ BufSize \in Nat \ {0} /\ n <= BufSize
      /\ size + n = all /\ ptr \in Int /\ end \in Int
  BY Constants
<1>2. more \in Buffers
  BY CopiedTyped
<1>3. /\ w \in Seq(Byte) /\ Len(w) = size
      /\ \A k \in 1 .. size : w[k] = cells[Cell(ptr + k - 1)]
  BY <1>1, WindowIs DEF Short, Byte
<1>4. /\ v \in Seq(Byte) /\ Len(v) = size + n
      /\ \A k \in 1 .. size + n : v[k] = more[Cell(ptr + k - 1)]
  <2> HIDE DEF more
  <2>1. QED BY <1>1, <1>2, WindowIs DEF Short, Byte
<1>5. /\ new \in Seq(Byte) /\ Len(new) = n
      /\ \A k \in 1 .. n : new[k] = (first + k - 1) % Mod
  <2>1. ASSUME NEW k \in 1 .. n
        PROVE  ((first % Mod) + k - 1) % Mod = (first + k - 1) % Mod
               /\ (first + k - 1) % Mod \in Byte
    <3>1. k - 1 \in Int /\ first + k - 1 \in Int /\ first % Mod \in Int
      BY DivMod, Constants
    <3>2. ((first % Mod) + (k - 1)) % Mod = (first + (k - 1)) % Mod
      BY <3>1, ModPlus, Constants
    <3>3. (first % Mod) + (k - 1) = (first % Mod) + k - 1 /\ first + (k - 1) = first + k - 1
      BY <3>1
    <3>4. QED BY <3>1, <3>2, <3>3, DivMod, Constants DEF Byte
  <2>2. new \in [1 .. n -> Byte] /\ \A k \in 1 .. n : new[k] = (first + k - 1) % Mod
    BY <2>1
  <2> HIDE DEF new
  <2>3. QED BY <2>2, FunctionIsSeq
<1>6. \A c \in 0 .. BufSize - 1 :
        more[c] = IF At(n, end, c) = {} THEN cells[c] ELSE (first + Max(At(n, end, c)) - 1) % Mod
  BY DEF Copied, Buffers
\* The cell behind the queue that byte j goes to.
<1>7. ASSUME NEW j \in 1 .. n PROVE Cell(end + j - 1) = Cell(ptr + (size + j) - 1)
  <2>1. end - ptr \in Int /\ ptr + j - 1 \in Int
    BY <1>1
  <2>2. Cell(((end - ptr) % Mod) + (ptr + j - 1)) = Cell((end - ptr) + (ptr + j - 1))
    BY <2>1, SameCell
  <2>3. (end - ptr) + (ptr + j - 1) = end + j - 1 /\ size + (ptr + j - 1) = ptr + (size + j) - 1
    BY <1>1
  <2>4. QED BY <2>2, <2>3
\* No other pointer of the buffer names it.
<1>8. ASSUME NEW j \in 1 .. n, NEW k \in 1 .. size + n, k # size + j
      PROVE  Cell(end + j - 1) # Cell(ptr + k - 1)
  <2>1. ptr + (size + j) - 1 \in Int /\ ptr + k - 1 \in Int
    BY <1>1
  <2>2. \/ /\ ptr + k - 1 < ptr + (size + j) - 1
           /\ ptr + (size + j) - 1 < (ptr + k - 1) + BufSize
        \/ /\ ptr + (size + j) - 1 < ptr + k - 1
           /\ ptr + k - 1 < (ptr + (size + j) - 1) + BufSize
    BY <1>1, <1>8
  <2>3. (ptr + k - 1) % BufSize # (ptr + (size + j) - 1) % BufSize
    BY <1>1, <2>1, <2>2, DifferentCells
  <2>4. QED BY <1>7, <2>3 DEF Cell
<1> HIDE DEF more, w, v, new
<1>9. ASSUME NEW k \in 1 .. size PROVE v[k] = w[k]
  <2>1. At(n, end, Cell(ptr + k - 1)) = {}
    <3>1. k \in 1 .. size + n /\ \A j \in 1 .. n : k # size + j
      BY <1>1
    <3>2. QED BY <1>8, <3>1 DEF At
  <2>2. Cell(ptr + k - 1) \in 0 .. BufSize - 1 /\ k \in 1 .. size + n
    BY <1>1, CellInBuffer
  <2>3. QED BY <1>3, <1>4, <1>6, <2>1, <2>2
<1>10. ASSUME NEW j \in 1 .. n PROVE v[size + j] = new[j]
  <2>1. size + j \in 1 .. size + n /\ ptr + (size + j) - 1 \in Int
    BY <1>1
  <2>2. Cell(ptr + (size + j) - 1) \in 0 .. BufSize - 1
    BY <2>1, CellInBuffer
  <2>3. At(n, end, Cell(ptr + (size + j) - 1)) = {j}
    <3>1. \A i \in 1 .. n : Cell(end + i - 1) = Cell(ptr + (size + j) - 1) => i = j
      <4>1. ASSUME NEW i \in 1 .. n, i # j PROVE size + j # size + i
        BY <1>1, <4>1
      <4>2. QED BY <1>8, <2>1, <4>1
    <3>2. QED BY <1>7, <3>1 DEF At
  <2>4. Max({j}) = j /\ {j} # {}
    BY MaxOfOne
  <2>5. v[size + j] = (first + j - 1) % Mod
    BY <1>4, <1>6, <2>1, <2>2, <2>3, <2>4
  <2>6. QED BY <1>5, <2>5
<1>11. /\ w \o new \in Seq(Byte) /\ Len(w \o new) = size + n
       /\ \A k \in 1 .. size + n :
            (w \o new)[k] = IF k <= size THEN w[k] ELSE new[k - size]
  <2>1. /\ w \o new \in Seq(Byte) /\ Len(w \o new) = Len(w) + Len(new)
        /\ \A k \in 1 .. Len(w) + Len(new) :
             (w \o new)[k] = IF k <= Len(w) THEN w[k] ELSE new[k - Len(w)]
    BY ONLY <1>3, <1>5, ConcatProperties
  <2>2. QED BY <1>3, <1>5, <2>1
<1>12. ASSUME NEW k \in 1 .. size + n PROVE v[k] = (w \o new)[k]
  <2>1. CASE k <= size
    <3>1. k \in 1 .. size
      BY <1>1, <2>1
    <3>2. QED BY <1>9, <1>11, <2>1, <3>1
  <2>2. CASE ~(k <= size)
    <3>1. k - size \in 1 .. n /\ size + (k - size) = k
      BY <1>1, <2>2
    <3>2. QED BY <1>10, <1>11, <2>2, <3>1
  <2>3. QED BY <2>1, <2>2
<1>13. v = w \o new
  <2>1. Len(v) = Len(w \o new) /\ \A k \in 1 .. Len(v) : v[k] = (w \o new)[k]
    BY <1>4, <1>11, <1>12
  <2>2. QED BY ONLY <1>4, <1>11, <2>1, SeqEqual
<1>14. QED BY <1>13 DEF v, w, new, more, With

-----------------------------------------------------------------------------
(* The socket implements ByteStream. *)

\* The queues of ByteStream, as the refinement mapping of SocketStream defines them.
In == Window(rxMem, RX_RD, RX_RSR)
Out == IF sr = "CLOSED" THEN <<>> ELSE Window(txMem, TX_RD, Queued)

LEMMA Queues ==
  /\ Unread(RX_RD, RX_RSR) = In
  /\ (IF sr = "CLOSED" THEN <<>> ELSE [k \in 1 .. Queued |-> txMem[Cell(TX_RD + k - 1)]]) = Out
BY DEF In, Out, Unread, Window

LEMMA QuietIn == UNCHANGED rxVars => In' = In
BY DEF In, Window, rxVars

LEMMA QuietOut == UNCHANGED <<sr, TX_RD, TX_WR, txMem>> => Out' = Out
BY DEF Out, Window, Queued

\* What recv hands out is the front of the queue, which loses it.
LEMMA recvTakes ==
  ASSUME SInv, recv
  PROVE  \E n \in 1 .. Len(In) : got' = SubSeq(In, 1, n) /\ In' = SubSeq(In, n + 1, Len(In))
<1> DEFINE n == Min({val, len})
<1>1. /\ n \in 1 .. RX_RSR /\ Return(n, Unread(RX_RD, n)) /\ Commit(n)
  BY recvInv DEF recv
<1> HIDE DEF n
<1>2. /\ RX_RSR \in 0 .. BufSize /\ RX_RD \in Int /\ rxMem \in Buffers /\ n \in 0 .. RX_RSR
  BY <1>1, Constants DEF SInv, RxOK
<1>3. Len(In) = RX_RSR
  BY <1>2, WindowIs DEF In
<1>4. RX_RSR' = RX_RSR - n /\ RX_RD' = (RX_RD + n) % Mod /\ rxMem' = rxMem
  BY <1>1, <1>2, CommitOK DEF Commit
<1>5. got' = Window(rxMem, RX_RD, n)
  BY <1>1 DEF Return, Unread, Window
<1>6. /\ SubSeq(In, 1, n) = Window(rxMem, RX_RD, n)
      /\ SubSeq(In, n + 1, RX_RSR) = Window(rxMem, (RX_RD + n) % Mod, RX_RSR - n)
  BY <1>2, WindowTaken DEF In
<1>7. In' = Window(rxMem, (RX_RD + n) % Mod, RX_RSR - n)
  BY <1>4 DEF In
<1>8. QED BY <1>1, <1>3, <1>5, <1>6, <1>7

LEMMA peekShows ==
  ASSUME SInv, peek
  PROVE  got' = <<>> \/ (In # <<>> /\ got' = <<Head(In)>>)
<1>1. CASE val = 0
  BY <1>1 DEF peek, Return
<1>2. CASE val # 0
  <2>1. call = "peek" /\ pc = "sized" /\ got' = Window(rxMem, RX_RD, 1)
    BY <1>2 DEF peek, Return, Unread, Window
  <2>2. /\ RX_RSR \in 0 .. BufSize /\ RX_RD \in Int /\ rxMem \in Buffers /\ val <= RX_RSR
        /\ val \in Nat /\ 1 <= RX_RSR /\ 1 \in 0 .. BufSize /\ 1 \in 1 .. RX_RSR
    BY <1>2, <2>1, Constants DEF SInv, RxOK, SizeOK, SizeIsGenuine, Register
  <2>3. Len(In) = RX_RSR /\ In \in Seq(0 .. Mod - 1) /\ In[1] = rxMem[Cell(RX_RD + 1 - 1)]
    BY <2>2, WindowIs DEF In, Short
  <2>4. Window(rxMem, RX_RD, 1) = <<rxMem[Cell(RX_RD + 1 - 1)]>>
    BY DEF Window
  <2>5. In # <<>> /\ Head(In) = In[1]
    BY <2>2, <2>3
  <2>6. QED BY <2>1, <2>3, <2>4, <2>5
<1>3. QED BY <1>1, <1>2

LEMMA PeerByteArrives ==
  ASSUME SInv, PeerByte
  PROVE  /\ In' = Append(In, (Start + came) % Mod)
         /\ (Start + came') % Mod = (((Start + came) % Mod) + 1) % Mod
<1>1. /\ RX_RSR < BufSize /\ RX_RSR' = RX_RSR + 1 /\ came' = came + 1 /\ RX_RD' = RX_RD
      /\ rxMem' = [rxMem EXCEPT ![Cell(RX_RD + RX_RSR)] = (Start + came) % Mod]
  BY DEF PeerByte
<1>2. /\ RX_RSR \in 0 .. BufSize /\ RX_RD \in Int /\ rxMem \in Buffers /\ came \in Int
      /\ Start + came \in Int /\ 1 \in Int /\ Mod \in Nat \ {0}
  BY Constants DEF SInv, RxOK
<1>3. (Start + came) % Mod \in Byte
  BY <1>2, DivMod DEF Byte
<1>4. In' = Window([rxMem EXCEPT ![Cell(RX_RD + RX_RSR)] = (Start + came) % Mod],
                   RX_RD, RX_RSR + 1)
  BY <1>1 DEF In
<1>5. In' = Append(In, (Start + came) % Mod)
  BY <1>1, <1>2, <1>3, <1>4, WindowGrows DEF In
<1>6. (((Start + came) % Mod) + 1) % Mod = ((Start + came) + 1) % Mod
  BY ONLY <1>2, ModPlus
<1>7. Start + came' = (Start + came) + 1
  BY <1>1, <1>2, Constants
<1>8. QED BY <1>5, <1>6, <1>7

LEMMA sendDataGives ==
  ASSUME SInv, sendData, sr # "CLOSED"
  PROVE  \E n \in 1 .. BufSize :
           /\ Out' = Out \o [k \in 1 .. n |-> (((Start + given) % Mod) + k - 1) % Mod]
           /\ (Start + given') % Mod = (((Start + given) % Mod) + n) % Mod
<1>1. /\ call = "send" /\ pc = "status" /\ UNCHANGED <<sr, TX_RD>> /\ given' = given + ret
      /\ txMem' = Copied(txMem, TX_WR, ret, Start + given)
  BY DEF sendData, Copied, At
<1>2. /\ ret \in 1 .. BufSize /\ ret \in Nat \ {0} /\ Queued \in Nat /\ given \in Int
      /\ TX_RD \in Int /\ TX_WR \in Int /\ txMem \in Buffers /\ Start + given \in Int
      /\ ret \in Int /\ Mod \in Nat \ {0}
  BY <1>1, RetIs, QueuedIs, Constants DEF SInv, TxOK
<1>3. Queued' = Queued + ret /\ Queued + ret <= BufSize /\ Queued \in 0 .. BufSize
  BY <1>2, SendQueues, Constants
<1>4. Queued = (TX_WR - TX_RD) % Mod
  BY DEF Queued
<1>5. Window(Copied(txMem, TX_WR, ret, Start + given), TX_RD, Queued')
        = With(Window(txMem, TX_RD, Queued), Start + given, ret)
  <2>1. Queued' \in 0 .. BufSize /\ Queued' = Queued + ret
    BY <1>2, <1>3, Constants
  <2> DEFINE all == Queued'
  <2>2. all \in 0 .. BufSize /\ all = Queued + ret
    BY <2>1
  <2> HIDE DEF all
  <2>3. Window(Copied(txMem, TX_WR, ret, Start + given), TX_RD, all)
          = With(Window(txMem, TX_RD, Queued), Start + given, ret)
    BY ONLY <1>2, <1>3, <1>4, <2>2, WindowCopied
  <2>4. QED BY <2>3 DEF all
<1>6. Out' = Window(Copied(txMem, TX_WR, ret, Start + given), TX_RD, Queued')
  BY <1>1, <1>3 DEF Out
<1>7. Out = Window(txMem, TX_RD, Queued)
  BY DEF Out
<1>8. (((Start + given) % Mod) + ret) % Mod = ((Start + given) + ret) % Mod
  BY ONLY <1>2, ModPlus
<1>9. Start + given' = (Start + given) + ret
  BY <1>1, <1>2, Constants
<1>10. QED BY <1>2, <1>5, <1>6, <1>7, <1>8, <1>9 DEF With

LEMMA LeaveTakes ==
  ASSUME SInv, Leave
  PROVE  Out # <<>> /\ wire' = <<Head(Out)>> /\ Out' = Tail(Out)
<1>1. /\ sr # "CLOSED" /\ wire' = <<txMem[Cell(TX_RD)]>> /\ TX_RD' = (TX_RD + 1) % Mod
      /\ UNCHANGED <<sr, txMem>>
  BY DEF Leave
<1>2. Queued \in Nat /\ Queued > 0 /\ Queued' = Queued - 1
  BY LeaveIs
<1>3. TX_RD \in Int /\ txMem \in Buffers /\ Queued \in 0 .. BufSize /\ 1 \in 0 .. Queued
  BY <1>1, <1>2, Constants DEF SInv, TxOK
<1> DEFINE w == Window(txMem, TX_RD, Queued)
<1>4. Out = w
  BY <1>1 DEF Out
<1>5. w \in Seq(0 .. Mod - 1) /\ Len(w) = Queued /\ w[1] = txMem[Cell(TX_RD + 1 - 1)]
  BY <1>2, <1>3, WindowIs DEF Short
<1>6. SubSeq(w, 1 + 1, Queued) = Window(txMem, (TX_RD + 1) % Mod, Queued - 1)
  BY <1>3, WindowTaken
<1>7. Out' = Window(txMem, (TX_RD + 1) % Mod, Queued - 1)
  BY <1>1, <1>2 DEF Out
<1> HIDE DEF w
<1>8. w # <<>> /\ Head(w) = w[1] /\ TX_RD + 1 - 1 = TX_RD /\ 1 + 1 = 2
  BY <1>2, <1>3, <1>5
<1>9. Tail(w) = SubSeq(w, 2, Queued)
  BY <1>5, <1>8, TailIsSubSeq
<1>10. QED BY <1>1, <1>4, <1>5, <1>6, <1>7, <1>8, <1>9

\* A step that only empties got, one that changes nothing ByteStream sees, and a reset.
Empties == got' = <<>> /\ UNCHANGED <<sr, rxVars, TX_RD, TX_WR, txMem, wire, given>>
Unseen == UNCHANGED <<sr, rxVars, TX_RD, TX_WR, txMem, wire, given, got>>

LEMMA ServiceInit == Init => Service!Init
<1> SUFFICES ASSUME Init PROVE Service!Init
  OBVIOUS
<1>1. Start + 0 \in Int /\ (Start + 0) % Mod \in 0 .. Mod - 1
  BY DivMod, Constants
<1>2. In = <<>>
  <2>1. RX_RSR = 0
    BY DEF Init
  <2>2. QED BY <2>1 DEF In, Window
<1>3. Out = <<>>
  <2>1. (Start - Start) % Mod = 0
    BY Constants
  <2>2. Queued = 0
    BY <2>1 DEF Init, Queued
  <2>3. QED BY <2>2 DEF Out, Window
<1>4. came = 0 /\ given = 0 /\ got = <<>> /\ wire = <<>>
  BY DEF Init
<1>5. QED BY <1>1, <1>2, <1>3, <1>4, Queues DEF Service!Init

LEMMA ServiceNext == SInv /\ [Next]_vars => [Service!Next]_Service!vars
<1> SUFFICES ASSUME SInv, [Next]_vars PROVE [Service!Next]_Service!vars
  OBVIOUS
<1>1. CASE Empties
  <2>1. In' = In /\ Out' = Out /\ UNCHANGED <<came, given, wire>> /\ got' = <<>>
    BY <1>1, QuietIn, QuietOut DEF Empties, rxVars
  <2>2. Service!Nothing
    BY <2>1 DEF Service!Nothing, Service!sender, In, Out, Unread, Window
  <2>3. QED BY <2>2 DEF Service!Next
<1>2. CASE Unseen
  <2>1. In' = In /\ Out' = Out /\ UNCHANGED <<came, given, wire, got>>
    BY <1>2, QuietIn, QuietOut DEF Unseen, rxVars
  <2>2. QED
    BY <2>1 DEF Service!vars, Service!sender, Service!receiver, In, Out, Unread, Window
<1>3. CASE recv
  <2>1. PICK n \in 1 .. Len(In) :
          got' = SubSeq(In, 1, n) /\ In' = SubSeq(In, n + 1, Len(In))
    BY <1>3, recvTakes
  <2>2. Out' = Out /\ UNCHANGED <<came, given, wire>>
    BY <1>3, QuietOut DEF recv, Commit, txVars
  <2>3. Service!Recv
    BY <2>1, <2>2 DEF Service!Recv, Service!sender, In, Out, Unread, Window
  <2>4. QED BY <2>3 DEF Service!Next
<1>4. CASE peek
  <2>1. In' = In /\ Out' = Out /\ UNCHANGED <<came, given, wire>>
    BY <1>4, QuietIn, QuietOut DEF peek, rxVars, txVars
  <2>2. CASE got' = <<>>
    BY <1>1, <1>4, <2>2 DEF Empties, peek, txVars
  <2>3. CASE In # <<>> /\ got' = <<Head(In)>>
    <3>1. Service!Peek
      BY <2>1, <2>3 DEF Service!Peek, Service!sender, In, Out, Unread, Window
    <3>2. QED BY <3>1 DEF Service!Next
  <2>4. QED BY <1>4, <2>2, <2>3, peekShows
<1>5. CASE sendData
  <2>1. In' = In /\ UNCHANGED <<sr, came, wire, got>>
    BY <1>5, QuietIn DEF sendData, rxVars
  <2>2. CASE sr = "CLOSED"
    <3>1. given' = given
      BY <1>5, <2>2 DEF sendData
    <3>2. Out' = Out
      BY <2>1, <2>2 DEF Out
    <3>3. QED
      BY <2>1, <3>1, <3>2
      DEF Service!vars, Service!sender, Service!receiver, In, Out, Unread, Window
  <2>3. CASE sr # "CLOSED"
    <3>1. Service!Send
      BY <1>5, <2>1, <2>3, sendDataGives DEF Service!Send, Service!receiver, In, Out, Unread, Window
    <3>2. QED BY <3>1 DEF Service!Next
  <2>4. QED BY <2>2, <2>3
<1>6. CASE PeerByte
  <2>1. Out' = Out /\ UNCHANGED <<given, wire, got>>
    BY <1>6, QuietOut DEF PeerByte, txVars
  <2>2. Service!Arrive
    BY <1>6, <2>1, PeerByteArrives DEF Service!Arrive, Service!sender, In, Out, Unread, Window
  <2>3. QED BY <2>2 DEF Service!Next
<1>7. CASE Reset
  <2>1. In' = In /\ Out' = <<>> /\ UNCHANGED <<came, given, wire, got>>
    BY <1>7, QuietIn DEF Reset, rxVars, txVars, Out
  <2>2. Service!Reset
    BY <2>1 DEF Service!Reset, Service!receiver, In, Out, Unread, Window
  <2>3. QED BY <2>2 DEF Service!Next
<1>8. CASE Leave
  <2>1. In' = In /\ UNCHANGED <<came, given, got>>
    BY <1>8, QuietIn DEF Leave, rxVars
  <2>2. Service!Leave
    BY <1>8, <2>1, LeaveTakes DEF Service!Leave, Service!receiver, In, Out, Unread, Window
  <2>3. QED BY <2>2 DEF Service!Next
<1>9. CASE PeerFin
  <2>1. In' = In /\ UNCHANGED <<came, given, wire, got, TX_RD, TX_WR, txMem>>
    BY <1>9, QuietIn DEF PeerFin, rxVars, txVars
  <2>2. Out' = Out
    BY <1>9, <2>1 DEF PeerFin, Out, Window, Queued
  <2>3. QED
    BY <2>1, <2>2 DEF Service!vars, Service!sender, Service!receiver, In, Out, Unread, Window
<1>10. CASE Acknowledge \/ sendStatus \/ sendNotYet \/ recvNoData \/ getSize \/ UNCHANGED vars
  <2>1. Unseen
    BY <1>10 DEF Unseen, Acknowledge, sendStatus, sendNotYet, recvNoData, getSize, ReadHigh,
                 rxVars, txVars, vars
  <2>2. QED BY <1>2, <2>1
<1>11. CASE Call
  <2>1. Empties
    BY <1>11 DEF Empties, Call, EthernetClient_available, EthernetClient_read_buf,
                 EthernetClient_peek, EthernetClient_write, Begin, txVars
  <2>2. QED BY <1>1, <2>1
<1>12. CASE AvailableReturns \/ recvStatus \/ sendDone
  <2>1. Empties
    BY <1>12 DEF Empties, AvailableReturns, recvStatus, sendDone, Return, txVars
  <2>2. QED BY <1>1, <2>1
<1>13. CASE sendWaitStatus
  <2>1. Empties \/ Unseen
    BY <1>13 DEF Empties, Unseen, sendWaitStatus, Return
  <2>2. QED BY <1>1, <1>2, <2>1
<1>14. QED
  BY <1>3, <1>4, <1>5, <1>6, <1>7, <1>8, <1>9, <1>10, <1>11, <1>12, <1>13 DEF Next, Continue

\* Whatever happens between two register accesses, and wherever the pointers wrap: recv hands
\* out the peer's bytes in their order, none twice and none left out, and the bytes that are
\* given to send leave in theirs.
THEOREM StreamOfBytes == Spec => ImplementsByteStream
<1>1. Spec => Service!Init /\ [][Service!Next]_Service!vars
  BY Invariant, ServiceInit, ServiceNext, PTL DEF Spec
<1>2. QED BY <1>1 DEF ImplementsByteStream, Service!Spec
=============================================================================
