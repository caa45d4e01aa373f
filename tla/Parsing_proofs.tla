--------------------------- MODULE Parsing_proofs ---------------------------
(***************************************************************************)
(* Lemmas about the streams, numbers and addresses of Algorithms: that     *)
(* searches stop at the first occurrence, that printed numbers, decimals   *)
(* and addresses are read back, and that lines are read without a loss.    *)
(* The folds of the model are taken apart into runs, one state per         *)
(* character, about which an induction on positions says what is known     *)
(* behind each of them. Algorithms_proofs draws the theorems from them.    *)
(***************************************************************************)
EXTENDS Algorithms, SequenceTheorems, FiniteSetTheorems, WellFoundedInduction, TLAPS

-----------------------------------------------------------------------------
(* Remainders, and the smallest and the largest of some numbers. *)

LEMMA DivMod ==
  ASSUME NEW m \in Nat \ {0}, NEW a \in Int
  PROVE  a \div m \in Int /\ a % m \in 0 .. m - 1 /\ a = m * (a \div m) + (a % m)
OBVIOUS

LEMMA NoMultipleBetween ==
  ASSUME NEW m \in Nat \ {0}, NEW q \in Int, m * q < m, -m < m * q
  PROVE  q = 0
<1>1. CASE q >= 1
  <2>1. m * q >= m BY <1>1
  <2>2. QED BY <2>1
<1>2. CASE q <= -1
  <2>1. m * q <= -m BY <1>2
  <2>2. QED BY <2>1
<1>3. QED BY <1>1, <1>2

\* The quotient and the remainder are unique.
LEMMA ModIs ==
  ASSUME NEW m \in Nat \ {0}, NEW a \in Int, NEW q \in Int, NEW r \in 0 .. m - 1,
         a = m * q + r
  PROVE  a % m = r
<1>1. /\ a \div m \in Int /\ a % m \in 0 .. m - 1 /\ a = m * (a \div m) + (a % m)
  BY DivMod
<1>2. m * (q - a \div m) = (a % m) - r
  BY <1>1
<1>3. q - a \div m = 0
  <2>1. q - a \div m \in Int
    BY <1>1
  <2>2. (a % m) - r < m /\ -m < (a % m) - r
    BY <1>1
  <2>3. QED BY <1>2, <2>1, <2>2, NoMultipleBetween
<1>4. QED BY <1>1, <1>2, <1>3

LEMMA ModAddMultiple ==
  ASSUME NEW m \in Nat \ {0}, NEW a \in Int, NEW k \in Int
  PROVE  (a + m * k) % m = a % m
<1>1. /\ a \div m \in Int /\ a % m \in 0 .. m - 1 /\ a = m * (a \div m) + (a % m)
  BY DivMod
<1>2. a + m * k = m * (a \div m + k) + (a % m)
  BY <1>1
<1>3. a + m * k \in Int /\ a \div m + k \in Int
  BY <1>1
<1>4. QED BY <1>1, <1>2, <1>3, ModIs

LEMMA ModSmall ==
  ASSUME NEW m \in Nat \ {0}, NEW a \in 0 .. m - 1
  PROVE  a % m = a
OBVIOUS

LEMMA MinIs ==
  ASSUME NEW a \in Int, NEW b \in Int
  PROVE  Min({a, b}) = IF a <= b THEN a ELSE b
<1>1. \E x \in {a, b} : \A y \in {a, b} : x <= y
  OBVIOUS
<1>2. Min({a, b}) \in {a, b} /\ \A y \in {a, b} : Min({a, b}) <= y
  BY <1>1 DEF Min
<1>3. QED BY <1>2

LEMMA LeastElement ==
  ASSUME NEW S \in SUBSET Nat, S # {}
  PROVE  \E x \in S : \A y \in S : x <= y
<1> DEFINE R == {p \in Nat \X Nat : p[1] < p[2]}
<1>1. IsWellFoundedOn(R, Nat)
  BY NatLessThanWellFounded DEF OpToRel
<1>2. ASSUME NEW Q, IsWellFoundedOn(Q, Nat)
      PROVE  \E x \in S : \A y \in S : ~ (<<y, x>> \in Q)
  BY <1>2, WFMin
<1>3. \E x \in S : \A y \in S : ~ (<<y, x>> \in R)
  <2> HIDE DEF R
  <2>1. QED BY <1>1, <1>2
<1>4. ASSUME NEW x \in S, NEW y \in S, <<y, x>> \notin R
      PROVE  x <= y
  <2>1. <<y, x>> \in Nat \X Nat /\ <<y, x>>[1] = y /\ <<y, x>>[2] = x
    OBVIOUS
  <2>2. ~(y < x)
    BY <1>4, <2>1
  <2>3. x \in Nat /\ y \in Nat
    OBVIOUS
  <2>4. QED BY <2>2, <2>3
<1> HIDE DEF R
<1>5. QED BY <1>3, <1>4

LEMMA MinOf ==
  ASSUME NEW S \in SUBSET Nat, S # {}
  PROVE  Min(S) \in S /\ \A k \in S : Min(S) <= k
<1>1. \E x \in S : \A y \in S : x <= y
  BY LeastElement
<1>2. QED BY <1>1 DEF Min

LEMMA GreatestElement ==
  ASSUME NEW n \in Nat, NEW S \in SUBSET (0 .. n), S # {}
  PROVE  Max(S) \in S /\ \A k \in S : k <= Max(S)
<1> DEFINE T == {n - k : k \in S}
<1>1. T \in SUBSET Nat /\ T # {}
  <2>1. \A k \in S : n - k \in Nat
    OBVIOUS
  <2>2. PICK k \in S : TRUE
    OBVIOUS
  <2>3. n - k \in T
    BY <2>2
  <2>4. QED BY <2>1, <2>3
<1>2. PICK t \in T : \A u \in T : t <= u
  <2> HIDE DEF T
  <2>1. QED BY <1>1, LeastElement
<1>3. PICK m \in S : t = n - m
  BY <1>2
<1>4. ASSUME NEW k \in S PROVE m >= k
  <2>1. n - k \in T
    OBVIOUS
  <2>2. n - m <= n - k
    BY <1>2, <1>3, <2>1
  <2>3. QED BY <2>2
<1>5. Max(S) \in S /\ \A k \in S : Max(S) >= k
  BY <1>4 DEF Max
<1>6. QED BY <1>5

LEMMA MaxIs ==
  ASSUME NEW n \in Nat, NEW S \in SUBSET (1 .. n), S # {}
  PROVE  Max(S) \in S /\ \A k \in S : k <= Max(S)
<1>1. S \in SUBSET (0 .. n)
  OBVIOUS
<1>2. QED BY <1>1, GreatestElement

-----------------------------------------------------------------------------
(* Positions, and what a fold over a sequence computes. *)

\* Induction on a set of positions.
LEMMA Positions ==
  ASSUME NEW n \in Nat, NEW G, 0 \in G, \A k \in 0 .. n - 1 : k \in G => k + 1 \in G
  PROVE  \A k \in 0 .. n : k \in G
<1> DEFINE B == {k \in 0 .. n : k \notin G}
<1>1. SUFFICES ASSUME B # {} PROVE FALSE
  OBVIOUS
<1>2. B \in SUBSET Nat
  OBVIOUS
<1>3. PICK k \in B : \A j \in B : k <= j
  <2> HIDE DEF B
  <2>1. QED BY <1>1, <1>2, LeastElement
<1>4. k \in 1 .. n
  OBVIOUS
<1>5. k - 1 \in G
  BY <1>3, <1>4
<1>6. QED BY <1>4, <1>5

LEMMA UpTo ==
  ASSUME NEW n \in Nat, NEW k \in 1 .. n
  PROVE  1 .. k \in SUBSET (1 .. n) /\ 1 .. k # {} /\ k \in Nat \ {0}
OBVIOUS

\* What remains of 1 .. k without its largest element.
LEMMA LessTheLast ==
  ASSUME NEW k \in Nat \ {0}
  PROVE  Max(1 .. k) = k /\ (1 .. k) \ {Max(1 .. k)} = 1 .. (k - 1)
<1>1. 1 .. k # {}
  OBVIOUS
<1>2. Max(1 .. k) \in 1 .. k /\ \A j \in 1 .. k : j <= Max(1 .. k)
  <2>1. 1 .. k \in SUBSET (1 .. k)
    OBVIOUS
  <2>2. QED BY <1>1, <2>1, MaxIs
<1>3. Max(1 .. k) = k
  BY <1>2
<1>4. QED BY <1>3

\* The recursive function inside a fold of n elements, and the states it goes through.
FoldOf(n, base, step, f) ==
  f = [T \in SUBSET (1 .. n) |->
         IF T = {} THEN base ELSE step[<<f[T \ {Max(T)}], Max(T)>>]]
RunOf(n, base, step, end, run) ==
  /\ run[0] = base /\ run[n] = end
  /\ \A k \in 1 .. n : run[k] = step[<<run[k - 1], k>>]

\* The recursive function inside a fold exists when its step is a function.
LEMMA FoldExists ==
  ASSUME NEW n \in Nat, NEW St, NEW base \in St, NEW step \in [St \X (1 .. n) -> St]
  PROVE  \E f \in [SUBSET (1 .. n) -> St] : FoldOf(n, base, step, f)
<1> DEFINE Fold(k, f) ==
             /\ f \in [SUBSET (1 .. k) -> St]
             /\ \A T \in SUBSET (1 .. k) :
                  f[T] = IF T = {} THEN base ELSE step[<<f[T \ {Max(T)}], Max(T)>>]
           G == {k \in 0 .. n : \E f : Fold(k, f)}
<1>1. 0 \in G
  <2>1. Fold(0, [T \in SUBSET (1 .. 0) |-> base])
    <3>1. SUBSET (1 .. 0) = {{}}
      OBVIOUS
    <3>2. 1 .. 0 = {}
      OBVIOUS
    <3>3. QED BY ONLY <3>1, <3>2, base \in St
  <2>2. 0 \in 0 .. n
    OBVIOUS
  <2>3. QED
    <3> HIDE DEF Fold
    <3>1. QED BY <2>1, <2>2
<1>2. ASSUME NEW k \in 0 .. n - 1, k \in G PROVE k + 1 \in G
  <2>1. PICK f : Fold(k, f)
    BY <1>2
  <2> DEFINE g == [T \in SUBSET (1 .. k + 1) |->
                     IF T = {} THEN base ELSE step[<<f[T \ {Max(T)}], Max(T)>>]]
  <2>2. ASSUME NEW T \in SUBSET (1 .. k + 1), T # {}
        PROVE  Max(T) \in 1 .. k + 1 /\ T \ {Max(T)} \in SUBSET (1 .. k)
    <3>1. Max(T) \in T /\ \A j \in T : j <= Max(T)
      <4>1. k + 1 \in Nat
        OBVIOUS
      <4>2. QED BY <2>2, <4>1, MaxIs
    <3>2. ASSUME NEW j \in T \ {Max(T)} PROVE j \in 1 .. k
      <4>1. j \in 1 .. k + 1 /\ Max(T) \in 1 .. k + 1 /\ j <= Max(T) /\ j # Max(T)
        BY <3>1
      <4>2. QED BY ONLY <4>1, k \in 0 .. n - 1, n \in Nat
    <3>3. QED BY <3>1, <3>2
  <2>3. \A T \in SUBSET (1 .. k) : g[T] = f[T]
    BY <2>1
  <2>4. ASSUME NEW T \in SUBSET (1 .. k + 1), T # {}
        PROVE  step[<<f[T \ {Max(T)}], Max(T)>>] \in St
    <3>1. Max(T) \in 1 .. n /\ f[T \ {Max(T)}] \in St
      BY <2>1, <2>2, <2>4
    <3> HIDE DEF Fold
    <3>2. QED BY <3>1
  <2>5. g \in [SUBSET (1 .. k + 1) -> St]
    <3>1. \A T \in SUBSET (1 .. k + 1) : (IF T = {} THEN base ELSE step[<<f[T \ {Max(T)}], Max(T)>>]) \in St
      BY <2>4
    <3> HIDE DEF Fold
    <3>2. QED BY <3>1
  <2>6. ASSUME NEW T \in SUBSET (1 .. k + 1)
        PROVE  g[T] = IF T = {} THEN base ELSE step[<<g[T \ {Max(T)}], Max(T)>>]
    <3>1. CASE T = {}
      BY <3>1
    <3>2. CASE T # {}
      <4>1. g[T \ {Max(T)}] = f[T \ {Max(T)}]
        <5>1. T \ {Max(T)} \in SUBSET (1 .. k)
          BY <2>2, <3>2
        <5> HIDE DEF g
        <5>2. QED BY <2>3, <5>1
      <4>2. g[T] = step[<<f[T \ {Max(T)}], Max(T)>>]
        BY <3>2
      <4> HIDE DEF g
      <4>3. QED BY <3>2, <4>1, <4>2
    <3>3. QED BY <3>1, <3>2
  <2>7. Fold(k + 1, g)
    <3> HIDE DEF g
    <3>1. QED BY <2>5, <2>6
  <2>8. k + 1 \in 0 .. n
    OBVIOUS
  <2>9. QED
    <3> HIDE DEF Fold, g
    <3>1. QED BY <2>7, <2>8
<1>3. n \in G
  <2>1. \A k \in 0 .. n : k \in G
    <3> HIDE DEF G
    <3>1. \A k \in 0 .. n - 1 : k \in G => k + 1 \in G
      BY <1>2
    <3>2. QED BY <1>1, <3>1, Positions
  <2>2. n \in 0 .. n
    OBVIOUS
  <2> HIDE DEF G
  <2>3. QED BY <2>1, <2>2
<1>4. PICK f : Fold(n, f)
  BY <1>3
<1>5. f = [T \in SUBSET (1 .. n) |-> IF T = {} THEN base ELSE step[<<f[T \ {Max(T)}], Max(T)>>]]
  BY <1>4
<1>6. QED BY <1>4, <1>5 DEF FoldOf

\* The states such a function goes through, its values on the prefixes of the positions.
LEMMA FoldRuns ==
  ASSUME NEW n \in Nat, NEW St, NEW base \in St, NEW step \in [St \X (1 .. n) -> St],
         NEW f, f[{}] = base,
         \A k \in 1 .. n : f[1 .. (k - 1)] \in St => f[1 .. k] = step[<<f[1 .. (k - 1)], k>>]
  PROVE  \E run \in [0 .. n -> St] : RunOf(n, base, step, f[1 .. n], run)
<1> DEFINE run == [k \in 0 .. n |-> f[1 .. k]]
           G == {k \in 0 .. n : run[k] \in St}
<1>1. run[0] = base /\ run[n] = f[1 .. n]
  <2>1. 1 .. 0 = {} /\ 0 \in 0 .. n /\ n \in 0 .. n
    OBVIOUS
  <2>2. QED BY ONLY <2>1, f[{}] = base
<1>2. ASSUME NEW k \in 1 .. n, run[k - 1] \in St PROVE run[k] = step[<<run[k - 1], k>>]
  <2>1. run[k] = f[1 .. k] /\ run[k - 1] = f[1 .. (k - 1)]
    BY ONLY k \in 1 .. n, n \in Nat
  <2> HIDE DEF run
  <2>2. QED BY <1>2, <2>1
<1> HIDE DEF run
<1>3. 0 \in G
  BY <1>1
<1>4. ASSUME NEW k \in 0 .. n - 1, k \in G PROVE k + 1 \in G
  <2>1. k + 1 \in 1 .. n /\ (k + 1) - 1 = k /\ k + 1 \in 0 .. n
    OBVIOUS
  <2>2. run[k] \in St
    BY <1>4
  <2>3. run[k + 1] = step[<<run[k], k + 1>>]
    BY ONLY <1>2, <2>1, <2>2
  <2>4. step[<<run[k], k + 1>>] \in St
    BY ONLY <2>1, <2>2, step \in [St \X (1 .. n) -> St]
  <2>5. QED BY ONLY <2>1, <2>3, <2>4
<1>5. \A k \in 0 .. n : k \in G
  <2>1. \A k \in 0 .. n - 1 : k \in G => k + 1 \in G
    BY <1>4
  <2> HIDE DEF G
  <2>2. QED BY <1>3, <2>1, Positions
<1>6. run \in [0 .. n -> St]
  BY <1>5 DEF run
<1>7. \A k \in 1 .. n : run[k - 1] \in St
  BY <1>6
<1>8. RunOf(n, base, step, f[1 .. n], run)
  BY <1>1, <1>2, <1>7 DEF RunOf
<1>9. QED BY <1>6, <1>8

-----------------------------------------------------------------------------
(* Streams: where a read times out or stops. *)

\* The number of elements before the first position of a set.
LEMMA FirstOf ==
  ASSUME NEW n \in Nat, NEW I \in SUBSET (1 .. n)
  PROVE  LET k == IF I # {} THEN Min(I) ELSE 0
             b == IF k = 0 THEN n ELSE k - 1
         IN  b \in 0 .. n /\ (b < n => b + 1 \in I) /\ (\A i \in 1 .. b : i \notin I)
<1>1. CASE I = {}
  BY <1>1
<1>2. CASE I # {}
  <2>1. \E x \in I : \A y \in I : x <= y
    <3>1. I \in SUBSET Nat
      OBVIOUS
    <3>2. QED BY <1>2, <3>1, LeastElement
  <2>2. Min(I) \in I /\ \A y \in I : Min(I) <= y
    BY <2>1 DEF Min
  <2>3. Min(I) \in 1 .. n
    BY <2>2
  <2>4. \A i \in 1 .. Min(I) - 1 : i \notin I
    BY ONLY <2>2, <2>3, n \in Nat
  <2> DEFINE m == Min(I)
  <2> HIDE DEF m
  <2>5. m \in 1 .. n /\ m \in I /\ (\A i \in 1 .. m - 1 : i \notin I) /\ m = Min(I)
    BY ONLY <2>2, <2>3, <2>4 DEF m
  <2>6. QED BY ONLY <1>2, <2>5, n \in Nat
<1>3. QED BY <1>1, <1>2

\* Where a stream pauses, and where it pauses or ends a line.
Pause(s) == LET Gone(c) == c = Timeout IN Before(s, Gone)
Stop(s, terminator) == LET Ends(c) == c \in {Timeout, terminator} IN Before(s, Ends)

LEMMA PauseIs ==
  ASSUME NEW s \in Seq(Int)
  PROVE  /\ Pause(s) \in 0 .. Len(s)
         /\ Pause(s) < Len(s) => s[Pause(s) + 1] = Timeout
         /\ \A i \in 1 .. Pause(s) : s[i] # Timeout
<1> DEFINE I == {i \in 1 .. Len(s) : s[i] = Timeout}
           b == LET k == IF I # {} THEN Min(I) ELSE 0 IN IF k = 0 THEN Len(s) ELSE k - 1
<1>1. Pause(s) = b
  BY DEF Pause, Before, SelectInSeq
<1>2. b \in 0 .. Len(s) /\ (b < Len(s) => b + 1 \in I) /\ (\A i \in 1 .. b : i \notin I)
  <2>1. Len(s) \in Nat /\ I \in SUBSET (1 .. Len(s))
    OBVIOUS
  <2> HIDE DEF I
  <2>2. QED BY <2>1, FirstOf
<1> HIDE DEF b
<1>3. QED BY <1>1, <1>2

LEMMA StopIs ==
  ASSUME NEW s \in Seq(Int), NEW terminator \in Int
  PROVE  /\ Stop(s, terminator) \in 0 .. Len(s)
         /\ Stop(s, terminator) < Len(s) => s[Stop(s, terminator) + 1] \in {Timeout, terminator}
         /\ \A i \in 1 .. Stop(s, terminator) : s[i] \notin {Timeout, terminator}
<1> DEFINE I == {i \in 1 .. Len(s) : s[i] \in {Timeout, terminator}}
           b == LET k == IF I # {} THEN Min(I) ELSE 0 IN IF k = 0 THEN Len(s) ELSE k - 1
<1>1. Stop(s, terminator) = b
  BY DEF Stop, Before, SelectInSeq
<1>2. b \in 0 .. Len(s) /\ (b < Len(s) => b + 1 \in I) /\ (\A i \in 1 .. b : i \notin I)
  <2>1. Len(s) \in Nat /\ I \in SUBSET (1 .. Len(s))
    OBVIOUS
  <2> HIDE DEF I
  <2>2. QED BY <2>1, FirstOf
<1> HIDE DEF b
<1>3. QED BY <1>1, <1>2

\* The case of LinesReadBack that a buffer of a length makes of the n elements before
\* the first that ends the reading.
Exact(s, length, terminators, r) ==
  LET n == Len(r.value)
      taken == Len(s) - Len(r.rest)
  IN  /\ r.value = SubSeq(s, 1, n) /\ r.rest = Drop(s, taken)
      /\ \A k \in 1 .. n : s[k] \notin terminators
      /\ \/ taken = n /\ (n = length \/ n = Len(s))
         \/ taken = n + 1 /\ n < length /\ s[taken] \in terminators

LEMMA CutAfter ==
  ASSUME NEW s \in Seq(Int), NEW length \in Nat \ {0}, NEW Ends, NEW n \in 0 .. Len(s),
         n < Len(s) => s[n + 1] \in Ends, \A i \in 1 .. n : s[i] \notin Ends
  PROVE  Exact(s, length, Ends,
               IF length <= n THEN [value |-> SubSeq(s, 1, length), rest |-> Drop(s, length)]
               ELSE [value |-> SubSeq(s, 1, n), rest |-> Drop(s, n + 1)])
<1>1. ASSUME NEW m \in 0 .. Len(s), NEW t \in 0 .. Len(s), NEW v, NEW rest,
             v = SubSeq(s, 1, m), rest = Drop(s, t), m <= n,
             \/ t = m /\ (m = length \/ m = Len(s))
             \/ t = m + 1 /\ m < length /\ s[t] \in Ends
      PROVE  Exact(s, length, Ends, [value |-> v, rest |-> rest])
  <2>1. Len(v) = m /\ Len(s) - Len(rest) = t
    BY <1>1 DEF Drop
  <2>2. \A k \in 1 .. m : s[k] \notin Ends
    BY ONLY <1>1, n \in 0 .. Len(s), Len(s) \in Nat, \A i \in 1 .. n : s[i] \notin Ends
  <2> DEFINE r == [value |-> v, rest |-> rest]
  <2>3. r.value = v /\ r.rest = rest
    OBVIOUS
  <2> HIDE DEF r
  <2>4. Exact(s, length, Ends, r)
    BY <1>1, <2>1, <2>2, <2>3 DEF Exact
  <2>5. QED BY <2>4 DEF r
<1>2. CASE length <= n
  <2>1. length \in 0 .. Len(s)
    BY <1>2
  <2>2. Exact(s, length, Ends, [value |-> SubSeq(s, 1, length), rest |-> Drop(s, length)])
    BY ONLY <1>1, <1>2, <2>1
  <2>3. QED BY <1>2, <2>2
<1>3. CASE length > n /\ n < Len(s)
  <2>1. n + 1 \in 0 .. Len(s) /\ ~(length <= n) /\ n <= n /\ n < length
    BY <1>3
  <2>2. Exact(s, length, Ends, [value |-> SubSeq(s, 1, n), rest |-> Drop(s, n + 1)])
    BY ONLY <1>1, <1>3, <2>1, n \in 0 .. Len(s), n < Len(s) => s[n + 1] \in Ends
  <2>3. QED BY <2>1, <2>2
<1>4. CASE length > n /\ n = Len(s)
  <2>1. n \in 0 .. Len(s) /\ ~(length <= n) /\ n <= n
    BY <1>4
  <2>2. Drop(s, n + 1) = Drop(s, n)
    <3>1. Drop(s, n + 1) = <<>> /\ Drop(s, n) = <<>>
      BY <1>4 DEF Drop
    <3>2. QED BY <3>1
  <2>3. Exact(s, length, Ends, [value |-> SubSeq(s, 1, n), rest |-> Drop(s, n + 1)])
    BY ONLY <1>1, <1>4, <2>1, <2>2
  <2>4. QED BY <2>1, <2>3
<1>5. QED BY <1>2, <1>3, <1>4

-----------------------------------------------------------------------------
(* readBytes and readBytesUntil. *)

LEMMA ReadBytesExact ==
  ASSUME NEW s \in Seq(Int), NEW length \in Nat \ {0}
  PROVE  Exact(s, length, {Timeout}, readBytes(s, length))
<1> DEFINE n == Pause(s)
<1>1. readBytes(s, length) =
        IF length <= n THEN [value |-> SubSeq(s, 1, length), rest |-> Drop(s, length)]
        ELSE [value |-> SubSeq(s, 1, n), rest |-> Drop(s, n + 1)]
  BY DEF readBytes, Pause
<1>2. /\ n \in 0 .. Len(s)
      /\ n < Len(s) => s[n + 1] \in {Timeout}
      /\ \A i \in 1 .. n : s[i] \notin {Timeout}
  BY PauseIs
<1> HIDE DEF n
<1>3. QED BY <1>1, <1>2, CutAfter

LEMMA ReadBytesUntilExact ==
  ASSUME NEW s \in Seq(Int), NEW length \in Nat \ {0}, NEW terminator \in Int
  PROVE  Exact(s, length, {Timeout, terminator}, readBytesUntil(s, terminator, length))
<1> DEFINE n == Stop(s, terminator)
           E == {Timeout, terminator}
<1>1. readBytesUntil(s, terminator, length) =
        IF length <= n THEN [value |-> SubSeq(s, 1, length), rest |-> Drop(s, length)]
        ELSE [value |-> SubSeq(s, 1, n), rest |-> Drop(s, n + 1)]
  BY DEF readBytesUntil, Stop
<1>2. /\ n \in 0 .. Len(s)
      /\ n < Len(s) => s[n + 1] \in E
      /\ \A i \in 1 .. n : s[i] \notin E
  BY StopIs
<1> HIDE DEF n, E
<1>3. Exact(s, length, E, readBytesUntil(s, terminator, length))
  BY <1>1, <1>2, CutAfter
<1>4. QED BY <1>3 DEF E

-----------------------------------------------------------------------------
(* findMulti: the longest piece of a target that the stream ends with. *)

\* The last j of the first k characters of s are the first j of x.
Fit(x, s, k, j) == /\ j \in 0 .. Len(x) /\ j <= k
                   /\ \A i \in 1 .. j : x[i] = s[k - j + i]
Longest(x, s, k, j) == Fit(x, s, k, j) /\ \A m \in j + 1 .. Len(x) : ~Fit(x, s, k, m)

\* One character more on either side.
LEMMA FitMore ==
  ASSUME NEW x \in Seq(Int), NEW s \in Seq(Int), NEW k \in 0 .. Len(s) - 1,
         NEW j \in 0 .. Len(x) - 1
  PROVE  Fit(x, s, k + 1, j + 1) <=> Fit(x, s, k, j) /\ x[j + 1] = s[k + 1]
<1>1. \A i \in 1 .. j + 1 : (k + 1) - (j + 1) + i = k - j + i
  OBVIOUS
<1>2. ASSUME Fit(x, s, k + 1, j + 1) PROVE Fit(x, s, k, j) /\ x[j + 1] = s[k + 1]
  BY <1>2 DEF Fit
<1>3. ASSUME Fit(x, s, k, j), x[j + 1] = s[k + 1] PROVE Fit(x, s, k + 1, j + 1)
  BY <1>3 DEF Fit
<1>4. QED BY <1>2, <1>3

\* A shorter fit is a fit of the longer one with itself.
LEMMA FitWithin ==
  ASSUME NEW x \in Seq(Int), NEW s \in Seq(Int), NEW k \in 0 .. Len(s),
         NEW j \in 0 .. Len(x), Fit(x, s, k, j), NEW i \in 0 .. j
  PROVE  Fit(x, s, k, i) <=> \A m \in 1 .. i : x[m] = x[m + j - i]
<1>1. ASSUME NEW m \in 1 .. i PROVE x[m + j - i] = s[k - i + m]
  <2>1. m + j - i \in 1 .. j /\ k - j + (m + j - i) = k - i + m
    BY DEF Fit
  <2>2. QED BY <2>1 DEF Fit
<1>2. i <= k /\ i \in 0 .. Len(x)
  BY DEF Fit
<1>3. QED BY <1>1, <1>2 DEF Fit

LEMMA AdvanceKeepsLongest ==
  ASSUME NEW x \in Seq(Int), NEW s \in Seq(Int), NEW k \in 0 .. Len(s) - 1,
         NEW j \in 0 .. Len(x) - 1, Longest(x, s, k, j)
  PROVE  /\ Advance(x, j, s[k + 1]) \in 0 .. j + 1
         /\ Longest(x, s, k + 1, Advance(x, j, s[k + 1]))
<1> DEFINE c == s[k + 1]
           Fits == {i \in 0 .. j - 1 : c = x[i + 1] /\ \A m \in 1 .. i : x[m] = x[m + j - i]}
<1>1. Fit(x, s, k, j) /\ \A m \in j + 1 .. Len(x) : ~Fit(x, s, k, m)
  BY DEF Longest
<1>2. \A m \in j + 2 .. Len(x) : ~Fit(x, s, k + 1, m)
  <2>1. SUFFICES ASSUME NEW m \in j + 2 .. Len(x), Fit(x, s, k + 1, m) PROVE FALSE
    OBVIOUS
  <2>2. m - 1 \in 0 .. Len(x) - 1 /\ m - 1 \in j + 1 .. Len(x) /\ (m - 1) + 1 = m
    OBVIOUS
  <2>3. Fit(x, s, k, m - 1)
    BY ONLY <2>1, <2>2, FitMore, x \in Seq(Int), s \in Seq(Int), k \in 0 .. Len(s) - 1
  <2>4. QED BY <1>1, <2>2, <2>3
<1>3. CASE c = x[j + 1]
  <2>1. Advance(x, j, c) = j + 1
    BY <1>3 DEF Advance
  <2>2. Fit(x, s, k + 1, j + 1)
    BY <1>1, <1>3, FitMore
  <2>3. QED BY <1>2, <2>1, <2>2 DEF Longest
<1>4. CASE c # x[j + 1]
  <2>1. Advance(x, j, c) = IF Fits = {} THEN 0 ELSE Max(Fits) + 1
    BY <1>4 DEF Advance, Fallback
  <2>2. \A i \in 0 .. j - 1 : i \in Fits <=> Fit(x, s, k + 1, i + 1)
    <3>1. SUFFICES ASSUME NEW i \in 0 .. j - 1
                   PROVE  i \in Fits <=> Fit(x, s, k + 1, i + 1)
      OBVIOUS
    <3>2. i \in 0 .. j /\ j \in 0 .. Len(x) /\ k \in 0 .. Len(s) /\ i \in 0 .. Len(x) - 1
      OBVIOUS
    <3>3. Fit(x, s, k, i) <=> \A m \in 1 .. i : x[m] = x[m + j - i]
      BY <1>1, <3>2, FitWithin
    <3>4. Fit(x, s, k + 1, i + 1) <=> Fit(x, s, k, i) /\ x[i + 1] = s[k + 1]
      BY <3>2, FitMore
    <3>5. QED BY <3>3, <3>4
  <2>3. ~Fit(x, s, k + 1, j + 1)
    BY <1>4, FitMore
  <2>4. CASE Fits = {}
    <3>1. Advance(x, j, c) = 0
      BY <2>1, <2>4
    <3>2. Fit(x, s, k + 1, 0)
      BY DEF Fit
    <3>3. ASSUME NEW m \in 1 .. Len(x) PROVE ~Fit(x, s, k + 1, m)
      <4>1. CASE m <= j
        <5>1. m - 1 \in 0 .. j - 1 /\ (m - 1) + 1 = m
          BY <4>1
        <5> HIDE DEF Fits
        <5>2. QED BY ONLY <2>2, <2>4, <5>1
      <4>2. CASE m = j + 1 BY <2>3, <4>2
      <4>3. CASE m > j + 1 BY <1>2, <4>3
      <4>4. m <= j \/ m = j + 1 \/ m > j + 1
        OBVIOUS
      <4>5. QED BY ONLY <4>1, <4>2, <4>3, <4>4
    <3>4. QED BY <3>1, <3>2, <3>3 DEF Longest
  <2>5. CASE Fits # {}
    <3>1. Max(Fits) \in Fits /\ \A i \in Fits : i <= Max(Fits)
      <4>1. Fits \in SUBSET (0 .. j) /\ j \in Nat
        OBVIOUS
      <4> HIDE DEF Fits
      <4>2. QED BY <2>5, <4>1, GreatestElement
    <3> DEFINE f == Max(Fits)
    <3>2. f \in 0 .. j - 1 /\ f \in Fits
      BY <3>1
    <3>3. Advance(x, j, c) = f + 1
      BY <2>1, <2>5
    <3> HIDE DEF f
    <3>4. Fit(x, s, k + 1, f + 1)
      BY <2>2, <3>2
    <3>5. ASSUME NEW m \in f + 2 .. Len(x) PROVE ~Fit(x, s, k + 1, m)
      <4>1. CASE m <= j
        <5>1. m - 1 \in 0 .. j - 1 /\ (m - 1) + 1 = m /\ ~(m - 1 <= f)
          BY <3>2, <4>1
        <5>2. m - 1 \notin Fits
          <6> HIDE DEF Fits
          <6>1. QED BY <3>1, <5>1 DEF f
        <5> HIDE DEF Fits
        <5>3. QED BY ONLY <2>2, <5>1, <5>2
      <4>2. CASE m = j + 1 BY <2>3, <4>2
      <4>3. CASE m > j + 1 BY <1>2, <4>3
      <4>4. m \in Int /\ j \in Int
        BY <3>2
      <4>5. m <= j \/ m = j + 1 \/ m > j + 1
        BY ONLY <4>4
      <4>6. QED BY ONLY <4>1, <4>2, <4>3, <4>5
    <3>6. QED BY <3>2, <3>3, <3>4, <3>5, SMTT(60) DEF Longest
  <2>6. QED BY <2>4, <2>5
<1>5. QED BY <1>3, <1>4

-----------------------------------------------------------------------------
(* findMulti, one character after the other. *)

(* The fold of findMulti. *)
Complete(targets, index) == {t \in DOMAIN targets : index[t] = Len(targets[t])}
SearchStart(targets) == [index |-> [t \in DOMAIN targets |-> 0], read |-> 0, over |-> FALSE]
SearchStep(targets, st, c) ==
  IF st.over THEN st
  ELSE IF c = Timeout THEN [st EXCEPT !.over = TRUE, !.read = @ + 1]
  ELSE LET index == [t \in DOMAIN targets |-> Advance(targets[t], st.index[t], c)]
       IN  [index |-> index, read |-> st.read + 1, over |-> Complete(targets, index) # {}]
SearchEnd(s, targets) ==
  FoldLeft(LAMBDA st, c : SearchStep(targets, st, c), SearchStart(targets), s)
SearchStates(targets) == [index : [DOMAIN targets -> Nat], read : Nat, over : BOOLEAN]

LEMMA FindMultiIs ==
  ASSUME NEW s, NEW targets
  PROVE  findMulti(s, targets) =
           LET Empty == {t \in DOMAIN targets : targets[t] = <<>>}
               end == SearchEnd(s, targets)
           IN  IF Empty # {} THEN Result(Min(Empty) - 1, s)
               ELSE Result(IF Complete(targets, end.index) = {} THEN -1
                           ELSE Min(Complete(targets, end.index)) - 1, Drop(s, end.read))
BY DEF findMulti, SearchEnd, SearchStart, SearchStep, Complete

LEMMA AdvanceType ==
  ASSUME NEW x, NEW j \in Nat, NEW c PROVE Advance(x, j, c) \in Nat
<1> DEFINE Fits == {i \in 0 .. j - 1 : c = x[i + 1] /\ \A m \in 1 .. i : x[m] = x[m + j - i]}
<1>1. Advance(x, j, c) = IF c = x[j + 1] THEN j + 1 ELSE IF Fits = {} THEN 0 ELSE Max(Fits) + 1
  BY DEF Advance, Fallback
<1>2. CASE Fits # {}
  <2>1. Fits \in SUBSET (0 .. j)
    OBVIOUS
  <2>2. Fits \subseteq Nat
    OBVIOUS
  <2> HIDE DEF Fits
  <2>3. Max(Fits) \in Nat
    BY <1>2, <2>1, <2>2, GreatestElement
  <2>4. QED BY <1>1, <2>3
<1>3. CASE Fits = {}
  BY <1>1, <1>3
<1>4. QED BY <1>2, <1>3

LEMMA PausedType ==
  ASSUME NEW I, NEW st \in [index : I, read : Nat, over : BOOLEAN]
  PROVE  [st EXCEPT !.over = TRUE, !.read = @ + 1] \in [index : I, read : Nat, over : BOOLEAN]
<1>1. [st EXCEPT !.over = TRUE, !.read = @ + 1] =
        [[st EXCEPT !.over = TRUE] EXCEPT !.read = st.read + 1]
  OBVIOUS
<1>2. [st EXCEPT !.over = TRUE] \in [index : I, read : Nat, over : BOOLEAN]
  OBVIOUS
<1>3. st.read + 1 \in Nat
  OBVIOUS
<1>4. QED BY <1>1, <1>2, <1>3

LEMMA SearchStepType ==
  ASSUME NEW targets, NEW st \in SearchStates(targets), NEW c
  PROVE  SearchStep(targets, st, c) \in SearchStates(targets)
<1>1. CASE st.over
  BY <1>1 DEF SearchStep
<1>2. CASE ~st.over /\ c = Timeout
  <2>1. SearchStep(targets, st, c) = [st EXCEPT !.over = TRUE, !.read = @ + 1]
    BY <1>2 DEF SearchStep
  <2>2. QED BY <2>1, PausedType DEF SearchStates
<1>3. CASE ~st.over /\ c # Timeout
  <2> DEFINE index == [t \in DOMAIN targets |-> Advance(targets[t], st.index[t], c)]
  <2>1. index \in [DOMAIN targets -> Nat]
    BY AdvanceType DEF SearchStates
  <2>2. SearchStep(targets, st, c) =
          [index |-> index, read |-> st.read + 1, over |-> Complete(targets, index) # {}]
    BY <1>3 DEF SearchStep
  <2> HIDE DEF index
  <2>3. st.read + 1 \in Nat
    BY DEF SearchStates
  <2>4. QED BY <2>1, <2>2, <2>3 DEF SearchStates
<1>4. QED BY <1>1, <1>2, <1>3

LEMMA SearchRuns ==
  ASSUME NEW s \in Seq(Int), NEW targets
  PROVE  \E run \in [0 .. Len(s) -> SearchStates(targets)] :
           /\ run[0] = SearchStart(targets) /\ run[Len(s)] = SearchEnd(s, targets)
           /\ \A k \in 1 .. Len(s) : run[k] = SearchStep(targets, run[k - 1], s[k])
<1> DEFINE n == Len(s)
           St == SearchStates(targets)
           base == SearchStart(targets)
           step == [x \in St \X (1 .. n) |-> SearchStep(targets, x[1], s[x[2]])]
           Eq(f) == f = [T \in SUBSET DOMAIN s |->
                      IF T = {} THEN base ELSE SearchStep(targets, f[T \ {Max(T)}], s[Max(T)])]
           f == CHOOSE g : Eq(g)
<1>1. SearchEnd(s, targets) = f[DOMAIN s]
  BY DEF SearchEnd, FoldLeft, MapThenFoldSet
<1>2. n \in Nat /\ DOMAIN s = 1 .. n
  OBVIOUS
<1>3. base \in St
  BY DEF SearchStart, SearchStates
<1>4. step \in [St \X (1 .. n) -> St]
  BY SearchStepType
<1>5. \A st \in St, k \in 1 .. n : step[<<st, k>>] = SearchStep(targets, st, s[k])
  OBVIOUS
<1> HIDE DEF n, St, base, step, f
<1>6. PICK g \in [SUBSET (1 .. n) -> St] : FoldOf(n, base, step, g)
  BY <1>2, <1>3, <1>4, FoldExists
<1>7. Eq(g)
  <2>1. ASSUME NEW T \in SUBSET (1 .. n), T # {}
        PROVE  step[<<g[T \ {Max(T)}], Max(T)>>] = SearchStep(targets, g[T \ {Max(T)}], s[Max(T)])
    <3>1. Max(T) \in 1 .. n
      BY <1>2, <2>1, MaxIs
    <3>2. g[T \ {Max(T)}] \in St
      OBVIOUS
    <3>3. QED BY <1>5, <3>1, <3>2
  <2>2. QED BY ONLY <1>2, <1>6, <2>1 DEF FoldOf
<1>8. Eq(f)
  BY <1>7 DEF f
<1>9. f[{}] = base
  BY <1>8
<1>10. ASSUME NEW k \in 1 .. n, f[1 .. (k - 1)] \in St
       PROVE  f[1 .. k] = step[<<f[1 .. (k - 1)], k>>]
  <2>1. 1 .. k \in SUBSET DOMAIN s /\ 1 .. k # {} /\ k \in Nat \ {0}
    BY <1>2, UpTo
  <2>2. f[1 .. k] = SearchStep(targets, f[(1 .. k) \ {Max(1 .. k)}], s[Max(1 .. k)])
    BY <1>8, <2>1
  <2>3. Max(1 .. k) = k /\ (1 .. k) \ {Max(1 .. k)} = 1 .. (k - 1)
    BY <2>1, LessTheLast
  <2>4. f[1 .. k] = SearchStep(targets, f[1 .. (k - 1)], s[k])
    BY ONLY <2>2, <2>3
  <2>5. QED BY ONLY <1>5, <1>10, <2>4
<1>11. PICK run \in [0 .. n -> St] : RunOf(n, base, step, f[1 .. n], run)
  BY <1>2, <1>3, <1>4, <1>9, <1>10, FoldRuns
<1>12. \A k \in 1 .. n : run[k] = SearchStep(targets, run[k - 1], s[k])
  <2>1. \A k \in 1 .. n : run[k - 1] \in St
    BY <1>2
  <2>2. QED BY <1>5, <1>11, <2>1 DEF RunOf
<1>13. QED BY <1>1, <1>2, <1>11, <1>12 DEF n, St, base, RunOf

-----------------------------------------------------------------------------
(* What a search knows of what it has read. *)

Whole(x, s, k) == Fit(x, s, k, Len(x))

LEMMA WholeIsLongest ==
  ASSUME NEW x \in Seq(Int), NEW s \in Seq(Int), NEW k \in Nat, NEW j, Longest(x, s, k, j)
  PROVE  j \in 0 .. Len(x) /\ (Whole(x, s, k) <=> j = Len(x))
<1>1. Fit(x, s, k, j) /\ \A m \in j + 1 .. Len(x) : ~Fit(x, s, k, m)
  BY DEF Longest
<1>2. j \in 0 .. Len(x) /\ Len(x) \in Nat
  BY <1>1 DEF Fit
<1>3. j # Len(x) => Len(x) \in j + 1 .. Len(x)
  BY ONLY <1>2
<1>4. j # Len(x) => ~Fit(x, s, k, Len(x))
  BY ONLY <1>1, <1>3
<1>5. QED BY <1>1, <1>2, <1>4 DEF Whole

\* What a search knows after k elements of a stream.
Searching(s, targets, k, st) ==
  /\ st.read = k /\ k <= Pause(s)
  /\ \A t \in DOMAIN targets :
       /\ Longest(targets[t], s, k, st.index[t])
       /\ \A j \in 0 .. k : ~Whole(targets[t], s, j)
GaveUp(s, targets, k, st) ==
  /\ st.read = Pause(s) + 1 /\ Pause(s) < k
  /\ \A t \in DOMAIN targets :
       /\ Longest(targets[t], s, Pause(s), st.index[t])
       /\ \A j \in 0 .. Pause(s) : ~Whole(targets[t], s, j)
SawTarget(s, targets, k, st) ==
  /\ st.read \in 1 .. k /\ st.read <= Pause(s)
  /\ \E t \in DOMAIN targets : Whole(targets[t], s, st.read)
  /\ \A t \in DOMAIN targets :
       /\ Longest(targets[t], s, st.read, st.index[t])
       /\ \A j \in 0 .. st.read - 1 : ~Whole(targets[t], s, j)
SearchInv(s, targets, k, st) ==
  \/ ~st.over /\ Searching(s, targets, k, st)
  \/ st.over /\ (GaveUp(s, targets, k, st) \/ SawTarget(s, targets, k, st))

LEMMA SearchBegins ==
  ASSUME NEW s \in Seq(Int), NEW targets,
         \A t \in DOMAIN targets : targets[t] \in Seq(Int) /\ targets[t] # <<>>
  PROVE  SearchInv(s, targets, 0, SearchStart(targets))
<1> DEFINE st == SearchStart(targets)
<1>1. st.over = FALSE /\ st.read = 0 /\ \A t \in DOMAIN targets : st.index[t] = 0
  BY DEF SearchStart
<1>2. 0 <= Pause(s)
  BY PauseIs
<1>3. ASSUME NEW t \in DOMAIN targets
      PROVE  Longest(targets[t], s, 0, 0) /\ \A j \in 0 .. 0 : ~Whole(targets[t], s, j)
  <2>1. Len(targets[t]) \in Nat \ {0}
    OBVIOUS
  <2>2. QED BY <2>1 DEF Longest, Fit, Whole
<1> HIDE DEF st
<1>4. Searching(s, targets, 0, st)
  BY <1>1, <1>2, <1>3 DEF Searching
<1>5. SearchInv(s, targets, 0, st)
  BY <1>1, <1>4 DEF SearchInv
<1>6. QED BY <1>5 DEF st

LEMMA SearchGoesOn ==
  ASSUME NEW s \in Seq(Int), NEW targets,
         \A t \in DOMAIN targets : targets[t] \in Seq(Int) /\ targets[t] # <<>>,
         NEW k \in 0 .. Len(s) - 1, NEW st \in SearchStates(targets),
         SearchInv(s, targets, k, st)
  PROVE  SearchInv(s, targets, k + 1, SearchStep(targets, st, s[k + 1]))
<1> DEFINE c == s[k + 1]
           new == SearchStep(targets, st, c)
           p == Pause(s)
<1>1. p \in 0 .. Len(s) /\ (p < Len(s) => s[p + 1] = Timeout) /\ (\A i \in 1 .. p : s[i] # Timeout)
  BY PauseIs
<1> SUFFICES SearchInv(s, targets, k + 1, new)
  OBVIOUS
<1>2. CASE st.over
  <2>1. new = st
    BY <1>2 DEF SearchStep
  <2>2. GaveUp(s, targets, k, st) => GaveUp(s, targets, k + 1, st)
    BY <1>1 DEF GaveUp
  <2>3. SawTarget(s, targets, k, st) => SawTarget(s, targets, k + 1, st)
    BY <1>1 DEF SawTarget
  <2> HIDE DEF new
  <2>4. QED BY <1>2, <2>1, <2>2, <2>3 DEF SearchInv
<1>3. CASE ~st.over /\ c = Timeout
  <2>1. Searching(s, targets, k, st)
    BY <1>3 DEF SearchInv
  <2>2. p = k
    BY <1>1, <1>3, <2>1 DEF Searching
  <2>3. new.over = TRUE /\ new.read = k + 1 /\ new.index = st.index
    <3>1. new = [st EXCEPT !.over = TRUE, !.read = @ + 1]
      BY <1>3 DEF SearchStep
    <3>2. st.read = k
      BY <2>1 DEF Searching
    <3> HIDE DEF new
    <3>3. QED BY <3>1, <3>2 DEF SearchStates
  <2> HIDE DEF new, p
  <2>4. GaveUp(s, targets, k + 1, new)
    BY <2>1, <2>2, <2>3 DEF GaveUp, Searching, p
  <2>5. QED BY <2>3, <2>4 DEF SearchInv
<1>4. CASE ~st.over /\ c # Timeout
  <2>1. Searching(s, targets, k, st)
    BY <1>4 DEF SearchInv
  <2>2. k + 1 <= p
    BY <1>1, <1>4, <2>1 DEF Searching
  <2> DEFINE index == [t \in DOMAIN targets |-> Advance(targets[t], st.index[t], c)]
  <2>3. new = [index |-> index, read |-> st.read + 1, over |-> Complete(targets, index) # {}]
    BY <1>4 DEF SearchStep
  <2>4. ASSUME NEW t \in DOMAIN targets
        PROVE  /\ Longest(targets[t], s, k + 1, index[t])
               /\ \A j \in 0 .. k : ~Whole(targets[t], s, j)
               /\ Whole(targets[t], s, k + 1) <=> index[t] = Len(targets[t])
    <3>1. Longest(targets[t], s, k, st.index[t]) /\ \A j \in 0 .. k : ~Whole(targets[t], s, j)
      BY <2>1 DEF Searching
    <3>2. targets[t] \in Seq(Int)
      OBVIOUS
    <3>3. k \in Nat /\ k + 1 \in Nat /\ k \in 0 .. k
      OBVIOUS
    <3>4. st.index[t] \in 0 .. Len(targets[t]) - 1
      <4>1. st.index[t] \in 0 .. Len(targets[t]) /\ st.index[t] # Len(targets[t])
        BY <3>1, <3>2, <3>3, WholeIsLongest
      <4>2. QED BY <3>2, <4>1
    <3>5. Longest(targets[t], s, k + 1, Advance(targets[t], st.index[t], c))
      BY <3>1, <3>2, <3>4, AdvanceKeepsLongest
    <3>6. index[t] = Advance(targets[t], st.index[t], c)
      OBVIOUS
    <3> HIDE DEF index
    <3>7. Longest(targets[t], s, k + 1, index[t])
      BY <3>5, <3>6
    <3>8. QED BY <3>1, <3>2, <3>3, <3>7, WholeIsLongest
  <2>5. new.index = index /\ new.read = k + 1 /\ (new.over <=> Complete(targets, index) # {})
    <3>1. st.read = k
      BY <2>1 DEF Searching
    <3> HIDE DEF new, index
    <3>2. new.index = index /\ new.read = st.read + 1
      BY ONLY <2>3
    <3>3. new.over = (Complete(targets, index) # {})
      BY ONLY <2>3, Zenon
    <3>4. QED BY <3>1, <3>2, <3>3
  <2> HIDE DEF new, index
  <2>6. Complete(targets, index) = {t \in DOMAIN targets : Whole(targets[t], s, k + 1)}
    BY <2>4 DEF Complete
  <2>7. CASE new.over
    <3>1. \E t \in DOMAIN targets : Whole(targets[t], s, k + 1)
      BY <2>5, <2>6, <2>7
    <3>2. new.read \in 1 .. k + 1 /\ new.read <= Pause(s) /\ new.read - 1 = k
      BY <2>2, <2>5
    <3>3. SawTarget(s, targets, k + 1, new)
      BY <2>4, <2>5, <3>1, <3>2 DEF SawTarget
    <3>4. QED BY <2>7, <3>3 DEF SearchInv
  <2>8. CASE ~new.over
    <3>1. \A t \in DOMAIN targets : ~Whole(targets[t], s, k + 1)
      BY <2>5, <2>6, <2>8
    <3>2. \A j \in 0 .. k + 1 : j \in 0 .. k \/ j = k + 1
      OBVIOUS
    <3>3. Searching(s, targets, k + 1, new)
      BY <2>2, <2>4, <2>5, <3>1, <3>2 DEF Searching
    <3>4. QED BY <2>8, <3>3 DEF SearchInv
  <2>9. QED BY <2>7, <2>8
<1>5. QED BY <1>2, <1>3, <1>4

LEMMA SearchEnds ==
  ASSUME NEW s \in Seq(Int), NEW targets,
         \A t \in DOMAIN targets : targets[t] \in Seq(Int) /\ targets[t] # <<>>
  PROVE  SearchInv(s, targets, Len(s), SearchEnd(s, targets))
<1>1. PICK run \in [0 .. Len(s) -> SearchStates(targets)] :
        /\ run[0] = SearchStart(targets) /\ run[Len(s)] = SearchEnd(s, targets)
        /\ \A k \in 1 .. Len(s) : run[k] = SearchStep(targets, run[k - 1], s[k])
  BY SearchRuns
<1> DEFINE n == Len(s)
           G == {k \in 0 .. n : SearchInv(s, targets, k, run[k])}
<1>2. n \in Nat
  OBVIOUS
<1> HIDE DEF n
<1>3. 0 \in G
  BY <1>1, <1>2, SearchBegins
<1>4. ASSUME NEW k \in 0 .. n - 1, k \in G PROVE k + 1 \in G
  <2>1. k + 1 \in 1 .. n /\ k + 1 \in 0 .. n /\ (k + 1) - 1 = k /\ k \in 0 .. n
    BY <1>2
  <2>2. run[k + 1] = SearchStep(targets, run[k], s[k + 1])
    BY ONLY <1>1, <2>1 DEF n
  <2>3. run[k] \in SearchStates(targets) /\ SearchInv(s, targets, k, run[k])
    BY ONLY <1>1, <1>4, <2>1 DEF n
  <2>4. SearchInv(s, targets, k + 1, SearchStep(targets, run[k], s[k + 1]))
    BY <2>3, SearchGoesOn DEF n
  <2>5. QED BY <2>1, <2>2, <2>4
<1>5. \A k \in 0 .. n : k \in G
  <2>1. \A k \in 0 .. n - 1 : k \in G => k + 1 \in G
    BY <1>4
  <2> HIDE DEF G
  <2>2. QED BY <1>2, <1>3, <2>1, Positions
<1>6. n \in G
  BY ONLY <1>2, <1>5
<1>7. QED BY <1>1, <1>6 DEF n

-----------------------------------------------------------------------------
(* The first occurrence. *)

HitsOf(s, targets) == {n \in 0 .. Pause(s) : \E t \in DOMAIN targets : Whole(targets[t], s, n)}

LEMMA FindMultiFirst ==
  ASSUME NEW s \in Seq(Int), NEW targets,
         \A t \in DOMAIN targets : targets[t] \in Seq(Int) /\ targets[t] # <<>>
  PROVE  findMulti(s, targets) =
           IF HitsOf(s, targets) = {} THEN Result(-1, Drop(s, Pause(s) + 1))
           ELSE LET first == Min(HitsOf(s, targets))
                IN  Result(Min({t \in DOMAIN targets : Whole(targets[t], s, first)}) - 1,
                           Drop(s, first))
<1> DEFINE end == SearchEnd(s, targets)
           p == Pause(s)
           H == HitsOf(s, targets)
           C == Complete(targets, end.index)
<1>1. p \in 0 .. Len(s)
  BY PauseIs
<1>2. {t \in DOMAIN targets : targets[t] = <<>>} = {}
  OBVIOUS
<1>3. findMulti(s, targets) = Result(IF C = {} THEN -1 ELSE Min(C) - 1, Drop(s, end.read))
  BY <1>2, FindMultiIs
<1>4. SearchInv(s, targets, Len(s), end)
  BY SearchEnds
<1> HIDE DEF end
<1>5. ASSUME NEW k \in Nat, \A t \in DOMAIN targets : Longest(targets[t], s, k, end.index[t])
      PROVE  C = {t \in DOMAIN targets : Whole(targets[t], s, k)}
  <2>1. \A t \in DOMAIN targets : Whole(targets[t], s, k) <=> end.index[t] = Len(targets[t])
    BY <1>5, WholeIsLongest
  <2>2. QED BY <2>1 DEF Complete
<1>6. CASE Searching(s, targets, Len(s), end)
  <2>1. end.read = Len(s) /\ p = Len(s)
    BY <1>1, <1>6 DEF Searching
  <2>2. H = {}
    BY <2>1, <1>6 DEF Searching, HitsOf
  <2>3. C = {}
    <3>1. C = {t \in DOMAIN targets : Whole(targets[t], s, Len(s))}
      <4>1. \A t \in DOMAIN targets : Longest(targets[t], s, Len(s), end.index[t])
        BY <1>6 DEF Searching
      <4>2. QED BY <1>5, <4>1
    <3>2. \A t \in DOMAIN targets : ~Whole(targets[t], s, Len(s))
      <4>1. Len(s) \in 0 .. Len(s)
        OBVIOUS
      <4>2. QED BY <1>6, <4>1 DEF Searching
    <3>3. QED BY <3>1, <3>2
  <2>4. Drop(s, end.read) = Drop(s, p + 1)
    <3>1. Drop(s, Len(s)) = <<>> /\ Drop(s, Len(s) + 1) = <<>>
      BY DEF Drop
    <3>2. QED BY <2>1, <3>1
  <2> HIDE DEF C
  <2>5. QED BY <1>3, <2>2, <2>3, <2>4
<1>7. CASE GaveUp(s, targets, Len(s), end)
  <2>1. end.read = p + 1
    BY <1>7 DEF GaveUp
  <2>2. H = {}
    BY <1>7 DEF GaveUp, HitsOf
  <2>3. C = {}
    <3>1. C = {t \in DOMAIN targets : Whole(targets[t], s, p)}
      <4>1. \A t \in DOMAIN targets : Longest(targets[t], s, p, end.index[t])
        BY <1>7 DEF GaveUp
      <4> HIDE DEF p
      <4>2. QED BY <1>1, <1>5, <4>1
    <3>2. \A t \in DOMAIN targets : ~Whole(targets[t], s, p)
      <4>1. p \in 0 .. p
        BY <1>1
      <4>2. QED BY <1>7, <4>1 DEF GaveUp
    <3>3. QED BY <3>1, <3>2
  <2> HIDE DEF C
  <2>4. QED BY <1>3, <2>1, <2>2, <2>3
<1>8. CASE SawTarget(s, targets, Len(s), end)
  <2> DEFINE f == end.read
  <2>1. /\ f \in 1 .. Len(s) /\ f <= p
        /\ \E t \in DOMAIN targets : Whole(targets[t], s, f)
        /\ \A t \in DOMAIN targets : Longest(targets[t], s, f, end.index[t])
        /\ \A t \in DOMAIN targets : \A j \in 0 .. f - 1 : ~Whole(targets[t], s, j)
    BY <1>8 DEF SawTarget
  <2> HIDE DEF f
  <2>2. C = {t \in DOMAIN targets : Whole(targets[t], s, f)}
    <3>1. f \in Nat
      BY <2>1
    <3> HIDE DEF C
    <3>2. QED BY <1>5, <2>1, <3>1
  <2>3. C # {}
    BY <2>1, <2>2
  <2>4. f \in H /\ \A n \in H : f <= n
    BY <1>1, <2>1 DEF HitsOf
  <2>5. Min(H) = f
    <3>1. H \in SUBSET Nat /\ H # {}
      <4>1. H \subseteq 0 .. p
        BY DEF HitsOf
      <4> HIDE DEF H, p
      <4>2. QED BY <1>1, <2>4, <4>1
    <3>2. Min(H) \in H /\ Min(H) <= f
      BY <2>4, <3>1, MinOf
    <3>3. f <= Min(H)
      BY <2>4, <3>2
    <3> DEFINE m == Min(H)
    <3>4. m \in Nat /\ m <= f /\ f <= m
      BY <3>1, <3>2, <3>3
    <3> HIDE DEF m
    <3>5. m = f
      BY <2>1, <3>4
    <3>6. QED BY <3>5 DEF m
  <2> HIDE DEF C, H
  <2>6. findMulti(s, targets) = Result(Min(C) - 1, Drop(s, f))
    BY <1>3, <2>3 DEF f
  <2>7. findMulti(s, targets) = Result(Min({t \in DOMAIN targets : Whole(targets[t], s, f)}) - 1, Drop(s, f))
    BY ONLY <2>2, <2>6
  <2>8. H # {}
    BY <2>4
  <2>9. QED BY <2>5, <2>7, <2>8 DEF H
<1>9. QED BY <1>4, <1>6, <1>7, <1>8 DEF SearchInv

LEMMA EndsAre ==
  ASSUME NEW x \in Seq(Int), x # <<>>, NEW s \in Seq(Int)
  PROVE  EndsOf(x, Heard(s)) = {n \in 0 .. Pause(s) : Whole(x, s, n)}
<1> DEFINE p == Pause(s)
           h == SubSeq(s, 1, p)
<1>1. p \in 0 .. Len(s) /\ Len(x) \in Nat \ {0}
  BY PauseIs
<1>2. Heard(s) = h
  BY DEF Heard, Pause
<1> HIDE DEF p
<1>3. h \in Seq(Int) /\ Len(h) = p /\ \A i \in 1 .. p : h[i] = s[i]
  BY <1>1
<1>4. ASSUME NEW n \in Len(x) .. p
      PROVE  SubSeq(h, n - Len(x) + 1, n) = x <=> Whole(x, s, n)
  <2> DEFINE y == SubSeq(h, n - Len(x) + 1, n)
  <2>1. y \in Seq(Int) /\ Len(y) = Len(x) /\ \A i \in 1 .. Len(x) : y[i] = s[n - Len(x) + i]
    <3> DEFINE m == Len(x)
               q == n - m
    <3>1. m \in Nat \ {0} /\ q \in Nat /\ n = q + m /\ n <= Len(h) /\ n - Len(x) + 1 = q + 1
      BY <1>1, <1>3
    <3> HIDE DEF m, q
    <3>2. ASSUME NEW z, z = SubSeq(h, q + 1, n)
          PROVE  z \in Seq(Int) /\ Len(z) = m /\ \A i \in 1 .. m : z[i] = h[q + i]
      BY ONLY <1>3, <3>1, <3>2
    <3>3. y \in Seq(Int) /\ Len(y) = m /\ \A i \in 1 .. m : y[i] = h[q + i]
      BY <3>1, <3>2
    <3>4. \A i \in 1 .. m : q + i \in 1 .. p /\ n - Len(x) + i = q + i
      BY <1>3, <3>1 DEF m
    <3> HIDE DEF y
    <3>5. QED BY <1>3, <3>3, <3>4 DEF m
  <2> HIDE DEF y
  <2>2. y = x <=> \A i \in 1 .. Len(x) : y[i] = x[i]
    <3>1. ASSUME \A i \in 1 .. Len(x) : y[i] = x[i] PROVE y = x
      BY ONLY <2>1, <3>1, x \in Seq(Int), SeqEqual
    <3>2. QED BY <3>1
  <2>3. Whole(x, s, n) <=> \A i \in 1 .. Len(x) : x[i] = s[n - Len(x) + i]
    BY <1>1 DEF Whole, Fit
  <2>4. QED BY <2>1, <2>2, <2>3 DEF y
<1>5. ASSUME NEW n \in 0 .. p, Whole(x, s, n) PROVE n \in Len(x) .. p
  BY <1>1, <1>5 DEF Whole, Fit
<1>6. EndsOf(x, h) = {n \in Len(x) .. p : SubSeq(h, n - Len(x) + 1, n) = x}
  BY <1>3 DEF EndsOf
<1> HIDE DEF h
<1>7. \A n \in Len(x) .. p : n \in 0 .. p
  BY <1>1
<1>8. EndsOf(x, h) = {n \in 0 .. p : Whole(x, s, n)}
  BY <1>4, <1>5, <1>6, <1>7
<1>9. QED BY <1>2, <1>8 DEF p

LEMMA EmptyTargetFound ==
  ASSUME NEW s, NEW targets, NEW n \in Nat, DOMAIN targets = 1 .. n, NEW t \in 1 .. n,
         targets[t] = <<>>, \A u \in 1 .. n : u < t => targets[u] # <<>>
  PROVE  findMulti(s, targets) = Result(t - 1, s)
<1> DEFINE Empty == {u \in DOMAIN targets : targets[u] = <<>>}
<1>1. t \in Empty /\ \A u \in Empty : t <= u
  OBVIOUS
<1>2. Empty \in SUBSET Nat
  OBVIOUS
<1>3. findMulti(s, targets) = Result(Min(Empty) - 1, s)
  <2>1. Empty # {}
    BY <1>1
  <2>2. QED BY <2>1, FindMultiIs
<1> HIDE DEF Empty
<1>4. Min(Empty) \in Empty /\ Min(Empty) <= t
  BY <1>1, <1>2, MinOf
<1> DEFINE m == Min(Empty)
<1>5. m \in Nat /\ t \in Nat /\ m <= t /\ t <= m
  BY <1>1, <1>2, <1>4
<1> HIDE DEF m
<1>6. m = t
  BY <1>5
<1>7. QED BY <1>3, <1>6 DEF m

\* The first of one or two targets.
LEMMA MinOfTargets ==
  ASSUME NEW T \in SUBSET {1, 2}, T # {}
  PROVE  Min(T) - 1 = 0 <=> 1 \in T
<1>1. T \in SUBSET Nat
  OBVIOUS
<1> DEFINE m == Min(T)
<1>2. m \in T /\ \A k \in T : m <= k
  BY <1>1, MinOf
<1> HIDE DEF m
<1>3. m \in {1, 2} /\ (1 \in T => m = 1)
  BY <1>2
<1>4. m - 1 = 0 <=> 1 \in T
  BY <1>2, <1>3
<1>5. QED BY <1>4 DEF m

LEMMA FindsFirstOf ==
  ASSUME NEW s \in Seq(Int), NEW target \in Seq(Int), NEW terminator \in Seq(Int)
  PROVE  LET heard == Heard(s)
             hits == EndsOf(target, heard)
             both == hits \cup EndsOf(terminator, heard)
             r == findUntil(s, target, terminator)
         IN  /\ terminator # <<>> /\ hits = both => find(s, target) = r
             /\ IF target = <<>> THEN r = [value |-> 1, rest |-> s]
                ELSE IF terminator = <<>> THEN r = [value |-> 0, rest |-> s]
                ELSE IF both = {} THEN r = [value |-> 0, rest |-> Drop(s, Len(heard) + 1)]
                ELSE r = [value |-> IF Min(both) \in hits THEN 1 ELSE 0,
                          rest |-> Drop(s, Min(both))]
<1> DEFINE heard == Heard(s)
           hits == EndsOf(target, heard)
           both == hits \cup EndsOf(terminator, heard)
           r == findUntil(s, target, terminator)
           two == <<target, terminator>>
           one == <<target>>
           p == Pause(s)
<1>1. Len(heard) = p
  <2>1. p \in 0 .. Len(s)
    BY PauseIs
  <2>2. heard = SubSeq(s, 1, p)
    BY DEF Heard, Pause
  <2> HIDE DEF p
  <2>3. QED BY <2>1, <2>2
<1>2. /\ DOMAIN two = 1 .. 2 /\ DOMAIN one = 1 .. 1
      /\ two[1] = target /\ two[2] = terminator /\ one[1] = target
  OBVIOUS
<1> HIDE DEF two, one
<1>3. ASSUME NEW v, NEW rest, findMulti(s, two) = Result(v, rest)
      PROVE  r = [value |-> IF v = 0 THEN 1 ELSE 0, rest |-> rest]
  BY <1>3 DEF findUntil, Result, two
<1>4. ASSUME NEW v, NEW rest, findMulti(s, one) = Result(v, rest)
      PROVE  find(s, target) = [value |-> IF v = 0 THEN 1 ELSE 0, rest |-> rest]
  BY <1>4 DEF find, Result, one
<1> HIDE DEF r, heard
<1>5. CASE target = <<>>
  <2>0. /\ 2 \in Nat /\ 1 \in Nat /\ 1 \in 1 .. 2 /\ 1 \in 1 .. 1
        /\ \A u \in 1 .. 2 : ~(u < 1)
        /\ \A u \in 1 .. 1 : ~(u < 1)
    OBVIOUS
  <2>1. findMulti(s, two) = Result(1 - 1, s) /\ findMulti(s, one) = Result(1 - 1, s)
    <3>1. findMulti(s, two) = Result(1 - 1, s)
      BY ONLY <1>2, <1>5, <2>0, EmptyTargetFound, ZenonT(60)
    <3>2. findMulti(s, one) = Result(1 - 1, s)
      BY ONLY <1>2, <1>5, <2>0, EmptyTargetFound, ZenonT(60)
    <3>3. QED BY <3>1, <3>2
  <2>2. r = [value |-> 1, rest |-> s] /\ find(s, target) = [value |-> 1, rest |-> s]
    BY <1>3, <1>4, <2>1
  <2>3. QED BY <1>5, <2>2 DEF r, heard
<1>6. CASE target # <<>> /\ terminator = <<>>
  <2>1. \A u \in 1 .. 2 : u < 2 => two[u] # <<>>
    BY <1>2, <1>6
  <2>2. findMulti(s, two) = Result(2 - 1, s)
    <3>1. 2 \in Nat /\ 2 \in 1 .. 2
      OBVIOUS
    <3>2. QED BY ONLY <1>2, <1>6, <2>1, <3>1, EmptyTargetFound
  <2>3. r = [value |-> 0, rest |-> s]
    BY <1>3, <2>2
  <2>4. QED BY <1>6, <2>3 DEF r, heard
<1>7. CASE target # <<>> /\ terminator # <<>>
  <2>1. \A t \in DOMAIN two : two[t] \in Seq(Int) /\ two[t] # <<>>
    BY <1>2, <1>7
  <2>2. \A t \in DOMAIN one : one[t] \in Seq(Int) /\ one[t] # <<>>
    BY <1>2, <1>7
  <2>3. /\ hits = {n \in 0 .. p : Whole(target, s, n)}
        /\ EndsOf(terminator, heard) = {n \in 0 .. p : Whole(terminator, s, n)}
    BY <1>7, EndsAre DEF heard
  <2>4. HitsOf(s, two) = both
    BY <1>2, <2>3 DEF HitsOf
  <2>5. HitsOf(s, one) = hits
    BY <1>2, <2>3 DEF HitsOf
  <2> HIDE DEF p
  <2>6. hits \in SUBSET Nat /\ both \in SUBSET Nat
    <3>1. p \in Nat
      BY PauseIs DEF p
    <3>2. QED BY <2>3, <3>1
  <2> DEFINE first == Min(both)
             T2 == {t \in DOMAIN two : Whole(two[t], s, first)}
             T1 == {t \in DOMAIN one : Whole(one[t], s, first)}
  <2>7. CASE both = {}
    <3>1. findMulti(s, two) = Result(-1, Drop(s, p + 1))
      BY <2>1, <2>4, <2>7, FindMultiFirst DEF p
    <3>2. r = [value |-> 0, rest |-> Drop(s, p + 1)]
      BY <1>3, <3>1
    <3>3. ASSUME hits = both PROVE find(s, target) = r
      <4>1. findMulti(s, one) = Result(-1, Drop(s, p + 1))
        BY <2>2, <2>5, <2>7, <3>3, FindMultiFirst DEF p
      <4>2. QED BY <1>4, <3>2, <4>1
    <3>4. QED BY <1>1, <1>7, <2>7, <3>2, <3>3 DEF r, heard
  <2>8. CASE both # {}
    <3>1. first \in both
      BY <2>6, <2>8, MinOf
    <3>2. T2 \in SUBSET {1, 2} /\ (1 \in T2 <=> first \in hits) /\ T2 # {}
      <4>1. first \in 0 .. p
        BY <2>3, <3>1
      <4>2. (1 \in T2 <=> Whole(target, s, first)) /\ (2 \in T2 <=> Whole(terminator, s, first))
        BY <1>2
      <4>3. (first \in hits <=> Whole(target, s, first))
            /\ (first \in EndsOf(terminator, heard) <=> Whole(terminator, s, first))
        BY <2>3, <4>1
      <4>4. T2 \subseteq {1, 2}
        BY <1>2
      <4> HIDE DEF T2, first
      <4>5. QED BY <3>1, <4>2, <4>3, <4>4
    <3>3. findMulti(s, two) = Result(Min(T2) - 1, Drop(s, first))
      BY <2>1, <2>4, <2>8, FindMultiFirst
    <3>4. r = [value |-> IF first \in hits THEN 1 ELSE 0, rest |-> Drop(s, first)]
      <4>1. Min(T2) - 1 = 0 <=> first \in hits
        BY <3>2, MinOfTargets
      <4> HIDE DEF T2, first
      <4>2. QED BY <1>3, <3>3, <4>1
    <3>5. ASSUME hits = both PROVE find(s, target) = r
      <4>1. T1 \in SUBSET {1, 2} /\ 1 \in T1
        BY <1>2, <2>3, <3>1, <3>5
      <4>2. findMulti(s, one) = Result(Min(T1) - 1, Drop(s, first))
        BY <2>2, <2>5, <2>8, <3>5, FindMultiFirst
      <4>3. Min(T1) - 1 = 0
        BY <4>1, MinOfTargets
      <4> HIDE DEF T1, first
      <4>4. first \in hits
        BY <3>1, <3>5
      <4>5. QED BY <1>4, <3>4, <4>2, <4>3, <4>4
    <3>6. QED BY <1>7, <2>8, <3>4, <3>5 DEF r, heard
  <2>9. QED BY <2>7, <2>8
<1>8. QED BY <1>5, <1>6, <1>7

-----------------------------------------------------------------------------
(* Numbers, fields and addresses, one character after the other. *)

(* Denotes as a fold. *)
DenotesStart(b) == 0
DenotesStep(b, v, c) == v * b + DigitValue(c)
DenotesStates(b) == Int

LEMMA DenotesType ==
  ASSUME NEW b \in Int
  PROVE  /\ DenotesStart(b) \in DenotesStates(b)
         /\ \A v \in DenotesStates(b), c \in Int : DenotesStep(b, v, c) \in DenotesStates(b)
BY DEF DenotesStart, DenotesStep, DenotesStates, DigitValue, Zero

LEMMA DenotesRuns ==
  ASSUME NEW s \in Seq(Int), NEW b \in Int
  PROVE  \E run \in [0 .. Len(s) -> DenotesStates(b)] :
           /\ run[0] = DenotesStart(b) /\ run[Len(s)] = Denotes(s, b)
           /\ \A k \in 1 .. Len(s) : run[k] = DenotesStep(b, run[k - 1], s[k])
<1> DEFINE n == Len(s)
           St == DenotesStates(b)
           first == DenotesStart(b)
           step == [x \in St \X (1 .. n) |-> DenotesStep(b, x[1], s[x[2]])]
           Eq(f) == f = [T \in SUBSET DOMAIN s |->
                      IF T = {} THEN first ELSE DenotesStep(b, f[T \ {Max(T)}], s[Max(T)])]
           f == CHOOSE g : Eq(g)
<1>1. Denotes(s, b) = f[DOMAIN s]
  BY DEF Denotes, DenotesStart, DenotesStep, FoldLeft, MapThenFoldSet
<1>2. n \in Nat /\ DOMAIN s = 1 .. n
  OBVIOUS
<1>3. first \in St
  BY DenotesType
<1>4. step \in [St \X (1 .. n) -> St]
  BY DenotesType
<1>5. \A st \in St, k \in 1 .. n : step[<<st, k>>] = DenotesStep(b, st, s[k])
  OBVIOUS
<1> HIDE DEF n, St, first, step, f
<1>6. PICK g \in [SUBSET (1 .. n) -> St] : FoldOf(n, first, step, g)
  BY <1>2, <1>3, <1>4, FoldExists
<1>7. Eq(g)
  <2>1. ASSUME NEW T \in SUBSET (1 .. n), T # {}
        PROVE  step[<<g[T \ {Max(T)}], Max(T)>>] = DenotesStep(b, g[T \ {Max(T)}], s[Max(T)])
    <3>1. Max(T) \in 1 .. n
      BY <1>2, <2>1, MaxIs
    <3>2. g[T \ {Max(T)}] \in St
      OBVIOUS
    <3>3. QED BY <1>5, <3>1, <3>2
  <2>2. QED BY ONLY <1>2, <1>6, <2>1 DEF FoldOf
<1>8. Eq(f)
  BY <1>7 DEF f
<1>9. f[{}] = first
  BY <1>8
<1>10. ASSUME NEW k \in 1 .. n, f[1 .. (k - 1)] \in St
       PROVE  f[1 .. k] = step[<<f[1 .. (k - 1)], k>>]
  <2>1. 1 .. k \in SUBSET DOMAIN s /\ 1 .. k # {} /\ k \in Nat \ {0}
    BY <1>2, UpTo
  <2>2. f[1 .. k] = DenotesStep(b, f[(1 .. k) \ {Max(1 .. k)}], s[Max(1 .. k)])
    BY <1>8, <2>1
  <2>3. Max(1 .. k) = k /\ (1 .. k) \ {Max(1 .. k)} = 1 .. (k - 1)
    BY <2>1, LessTheLast
  <2>4. f[1 .. k] = DenotesStep(b, f[1 .. (k - 1)], s[k])
    BY ONLY <2>2, <2>3
  <2>5. QED BY ONLY <1>5, <1>10, <2>4
<1>11. PICK run \in [0 .. n -> St] : RunOf(n, first, step, f[1 .. n], run)
  BY <1>2, <1>3, <1>4, <1>9, <1>10, FoldRuns
<1>12. \A k \in 1 .. n : run[k] = DenotesStep(b, run[k - 1], s[k])
  <2>1. \A k \in 1 .. n : run[k - 1] \in St
    BY <1>2
  <2>2. QED BY <1>5, <1>11, <2>1 DEF RunOf
<1>13. QED BY <1>1, <1>2, <1>11, <1>12 DEF n, St, first, RunOf

(* The fields of a dotted text. *)
FieldsStart == << <<>> >>
FieldsStep(fs, c) == IF c = Dot THEN Append(fs, <<>>) ELSE [fs EXCEPT ![Len(fs)] = Append(@, c)]
FieldsStates == Seq(Seq(Int))

LEMMA FieldsType ==
  /\ FieldsStart \in FieldsStates
  /\ \A fs \in FieldsStates, c \in Int : FieldsStep(fs, c) \in FieldsStates
<1>1. FieldsStart \in FieldsStates
  BY DEF FieldsStart, FieldsStates
<1>2. ASSUME NEW fs \in Seq(Seq(Int)), NEW c \in Int
      PROVE  FieldsStep(fs, c) \in Seq(Seq(Int))
  <2>1. CASE c = Dot
    BY <2>1 DEF FieldsStep
  <2>2. CASE c # Dot
    <3>1. ASSUME NEW n \in Nat, NEW f \in [1 .. n -> Seq(Int)]
          PROVE  [f EXCEPT ![n] = Append(@, c)] \in Seq(Seq(Int))
      <4>1. n \in 1 .. n => Append(f[n], c) \in Seq(Int)
        OBVIOUS
      <4>2. [f EXCEPT ![n] = Append(@, c)] \in [1 .. n -> Seq(Int)]
        BY <4>1
      <4>3. QED BY <4>2
    <3>2. fs \in [1 .. Len(fs) -> Seq(Int)] /\ Len(fs) \in Nat
      OBVIOUS
    <3>3. QED BY <2>2, <3>1, <3>2 DEF FieldsStep
  <2>3. QED BY <2>1, <2>2
<1>3. QED BY <1>1, <1>2 DEF FieldsStates

LEMMA FieldsRuns ==
  ASSUME NEW s \in Seq(Int)
  PROVE  \E run \in [0 .. Len(s) -> FieldsStates] :
           /\ run[0] = FieldsStart /\ run[Len(s)] = Fields(s)
           /\ \A k \in 1 .. Len(s) : run[k] = FieldsStep(run[k - 1], s[k])
<1> DEFINE n == Len(s)
           St == FieldsStates
           first == FieldsStart
           step == [x \in St \X (1 .. n) |-> FieldsStep(x[1], s[x[2]])]
           Eq(f) == f = [T \in SUBSET DOMAIN s |->
                      IF T = {} THEN first ELSE FieldsStep(f[T \ {Max(T)}], s[Max(T)])]
           f == CHOOSE g : Eq(g)
<1>1. Fields(s) = f[DOMAIN s]
  BY DEF Fields, FieldsStart, FieldsStep, FoldLeft, MapThenFoldSet
<1>2. n \in Nat /\ DOMAIN s = 1 .. n
  OBVIOUS
<1>3. first \in St
  BY FieldsType
<1>4. step \in [St \X (1 .. n) -> St]
  BY FieldsType
<1>5. \A st \in St, k \in 1 .. n : step[<<st, k>>] = FieldsStep(st, s[k])
  OBVIOUS
<1> HIDE DEF n, St, first, step, f
<1>6. PICK g \in [SUBSET (1 .. n) -> St] : FoldOf(n, first, step, g)
  BY <1>2, <1>3, <1>4, FoldExists
<1>7. Eq(g)
  <2>1. ASSUME NEW T \in SUBSET (1 .. n), T # {}
        PROVE  step[<<g[T \ {Max(T)}], Max(T)>>] = FieldsStep(g[T \ {Max(T)}], s[Max(T)])
    <3>1. Max(T) \in 1 .. n
      BY <1>2, <2>1, MaxIs
    <3>2. g[T \ {Max(T)}] \in St
      OBVIOUS
    <3>3. QED BY <1>5, <3>1, <3>2
  <2>2. QED BY ONLY <1>2, <1>6, <2>1 DEF FoldOf
<1>8. Eq(f)
  BY <1>7 DEF f
<1>9. f[{}] = first
  BY <1>8
<1>10. ASSUME NEW k \in 1 .. n, f[1 .. (k - 1)] \in St
       PROVE  f[1 .. k] = step[<<f[1 .. (k - 1)], k>>]
  <2>1. 1 .. k \in SUBSET DOMAIN s /\ 1 .. k # {} /\ k \in Nat \ {0}
    BY <1>2, UpTo
  <2>2. f[1 .. k] = FieldsStep(f[(1 .. k) \ {Max(1 .. k)}], s[Max(1 .. k)])
    BY <1>8, <2>1
  <2>3. Max(1 .. k) = k /\ (1 .. k) \ {Max(1 .. k)} = 1 .. (k - 1)
    BY <2>1, LessTheLast
  <2>4. f[1 .. k] = FieldsStep(f[1 .. (k - 1)], s[k])
    BY ONLY <2>2, <2>3
  <2>5. QED BY ONLY <1>5, <1>10, <2>4
<1>11. PICK run \in [0 .. n -> St] : RunOf(n, first, step, f[1 .. n], run)
  BY <1>2, <1>3, <1>4, <1>9, <1>10, FoldRuns
<1>12. \A k \in 1 .. n : run[k] = FieldsStep(run[k - 1], s[k])
  <2>1. \A k \in 1 .. n : run[k - 1] \in St
    BY <1>2
  <2>2. QED BY <1>5, <1>11, <2>1 DEF RunOf
<1>13. QED BY <1>1, <1>2, <1>11, <1>12 DEF n, St, first, RunOf

(* fromString as a fold. *)
GivenStart == [bytes |-> <<>>, acc |-> 0, bad |-> FALSE]
GivenStep(st, c) ==
  IF st.bad THEN st
  ELSE IF IsDigit(c) THEN LET acc == st.acc * 10 + c - Zero
                          IN  [st EXCEPT !.acc = acc, !.bad = ~FitsByte(acc)]
  ELSE IF c = Dot /\ Len(st.bytes) < 3
       THEN [st EXCEPT !.bytes = Append(@, st.acc), !.acc = 0]
  ELSE [st EXCEPT !.bad = TRUE]
GivenStates == [bytes : Seq(Nat), acc : Nat, bad : BOOLEAN]
GivenEnd(s) == FoldLeft(LAMBDA st, c : GivenStep(st, c), GivenStart, s)

LEMMA TwoPartsType ==
  ASSUME NEW B, NEW st \in [bytes : B, acc : Nat, bad : BOOLEAN], NEW a \in Nat, NEW b \in BOOLEAN
  PROVE  /\ [st EXCEPT !.acc = a, !.bad = b] \in [bytes : B, acc : Nat, bad : BOOLEAN]
         /\ [st EXCEPT !.acc = a, !.bad = b].bytes = st.bytes
         /\ [st EXCEPT !.acc = a, !.bad = b].acc = a
         /\ [st EXCEPT !.acc = a, !.bad = b].bad <=> b
<1>1. [st EXCEPT !.acc = a, !.bad = b] = [[st EXCEPT !.acc = a] EXCEPT !.bad = b]
  OBVIOUS
<1>2. CASE b
  <2>1. b = TRUE
    BY <1>2
  <2>2. QED BY <1>1, <2>1
<1>3. CASE ~b
  <2>1. b = FALSE
    BY <1>3
  <2>2. QED BY <1>1, <2>1
<1>4. QED BY <1>2, <1>3

\* What a step makes of each part.
LEMMA GivenParts ==
  ASSUME NEW st \in GivenStates, NEW c \in Int
  PROVE  /\ GivenStep(st, c) \in GivenStates
         /\ st.bad => GivenStep(st, c) = st
         /\ ~st.bad /\ IsDigit(c) =>
              /\ GivenStep(st, c).bytes = st.bytes
              /\ GivenStep(st, c).acc = st.acc * 10 + c - Zero
              /\ GivenStep(st, c).bad <=> st.acc * 10 + c - Zero > 255
         /\ ~st.bad /\ c = Dot /\ Len(st.bytes) < 3 =>
              /\ GivenStep(st, c).bytes = Append(st.bytes, st.acc)
              /\ GivenStep(st, c).acc = 0
              /\ ~GivenStep(st, c).bad
         /\ ~st.bad /\ ~IsDigit(c) /\ (c # Dot \/ Len(st.bytes) >= 3) => GivenStep(st, c).bad
<1> DEFINE new == GivenStep(st, c)
<1>1. st.bytes \in Seq(Nat) /\ st.acc \in Nat
  BY DEF GivenStates
<1>2. IsDigit(Dot) = FALSE
  BY DEF IsDigit, Dot, Zero
<1> SUFFICES
         /\ new \in GivenStates
         /\ st.bad => new = st
         /\ ~st.bad /\ IsDigit(c) =>
              /\ new.bytes = st.bytes /\ new.acc = st.acc * 10 + c - Zero
              /\ new.bad <=> st.acc * 10 + c - Zero > 255
         /\ ~st.bad /\ c = Dot /\ Len(st.bytes) < 3 =>
              /\ new.bytes = Append(st.bytes, st.acc) /\ new.acc = 0 /\ ~new.bad
         /\ ~st.bad /\ ~IsDigit(c) /\ (c # Dot \/ Len(st.bytes) >= 3) => new.bad
  OBVIOUS
<1>3. CASE st.bad
  <2>1. new = st
    BY <1>3 DEF GivenStep
  <2> HIDE DEF new
  <2>2. QED BY <1>3, <2>1
<1>4. CASE ~st.bad /\ IsDigit(c)
  <2> DEFINE acc == st.acc * 10 + c - Zero
  <2>1. acc \in Nat
    BY <1>1, <1>4 DEF IsDigit, Zero
  <2>2. new = [st EXCEPT !.acc = acc, !.bad = ~FitsByte(acc)]
    BY <1>4 DEF GivenStep
  <2> HIDE DEF acc, new
  <2>3. /\ [st EXCEPT !.acc = acc, !.bad = ~FitsByte(acc)] \in GivenStates
        /\ [st EXCEPT !.acc = acc, !.bad = ~FitsByte(acc)].bytes = st.bytes
        /\ [st EXCEPT !.acc = acc, !.bad = ~FitsByte(acc)].acc = acc
        /\ [st EXCEPT !.acc = acc, !.bad = ~FitsByte(acc)].bad <=> ~FitsByte(acc)
    BY <2>1, TwoPartsType DEF GivenStates
  <2>4. ~FitsByte(acc) <=> acc > 255
    BY <2>1 DEF FitsByte
  <2>5. QED BY <1>2, <1>4, <2>2, <2>3, <2>4 DEF acc
<1>5. CASE ~st.bad /\ c = Dot /\ Len(st.bytes) < 3
  <2>1. new = [st EXCEPT !.bytes = Append(@, st.acc), !.acc = 0]
    BY <1>5, <1>2 DEF GivenStep
  <2> HIDE DEF new
  <2>2. Append(st.bytes, st.acc) \in Seq(Nat)
    BY <1>1
  <2>3. new \in GivenStates /\ new.bytes = Append(st.bytes, st.acc) /\ new.acc = 0 /\ ~new.bad
    BY <1>5, <2>1, <2>2 DEF GivenStates
  <2>4. QED BY <1>2, <1>5, <1>1, <2>3
<1>6. CASE ~st.bad /\ ~IsDigit(c) /\ (c # Dot \/ Len(st.bytes) >= 3)
  <2>1. new = [st EXCEPT !.bad = TRUE]
    BY <1>6, <1>1 DEF GivenStep
  <2> HIDE DEF new
  <2>2. new \in GivenStates /\ new.bad
    BY <2>1 DEF GivenStates
  <2>3. QED BY <1>6, <1>1, <2>2
<1>7. QED
  <2> HIDE DEF new
  <2>1. Len(st.bytes) \in Nat
    BY <1>1
  <2>2. QED BY <1>3, <1>4, <1>5, <1>6, <2>1

LEMMA GivenType ==
  /\ GivenStart \in GivenStates
  /\ \A st \in GivenStates, c \in Int : GivenStep(st, c) \in GivenStates
<1>1. GivenStart \in GivenStates
  BY DEF GivenStart, GivenStates
<1>2. QED BY <1>1, GivenParts

LEMMA GivenRuns ==
  ASSUME NEW s \in Seq(Int)
  PROVE  \E run \in [0 .. Len(s) -> GivenStates] :
           /\ run[0] = GivenStart /\ run[Len(s)] = GivenEnd(s)
           /\ \A k \in 1 .. Len(s) : run[k] = GivenStep(run[k - 1], s[k])
<1> DEFINE n == Len(s)
           St == GivenStates
           first == GivenStart
           step == [x \in St \X (1 .. n) |-> GivenStep(x[1], s[x[2]])]
           Eq(f) == f = [T \in SUBSET DOMAIN s |->
                      IF T = {} THEN first ELSE GivenStep(f[T \ {Max(T)}], s[Max(T)])]
           f == CHOOSE g : Eq(g)
<1>1. GivenEnd(s) = f[DOMAIN s]
  BY DEF GivenEnd, FoldLeft, MapThenFoldSet
<1>2. n \in Nat /\ DOMAIN s = 1 .. n
  OBVIOUS
<1>3. first \in St
  BY GivenType
<1>4. step \in [St \X (1 .. n) -> St]
  BY GivenType
<1>5. \A st \in St, k \in 1 .. n : step[<<st, k>>] = GivenStep(st, s[k])
  OBVIOUS
<1> HIDE DEF n, St, first, step, f
<1>6. PICK g \in [SUBSET (1 .. n) -> St] : FoldOf(n, first, step, g)
  BY <1>2, <1>3, <1>4, FoldExists
<1>7. Eq(g)
  <2>1. ASSUME NEW T \in SUBSET (1 .. n), T # {}
        PROVE  step[<<g[T \ {Max(T)}], Max(T)>>] = GivenStep(g[T \ {Max(T)}], s[Max(T)])
    <3>1. Max(T) \in 1 .. n
      BY <1>2, <2>1, MaxIs
    <3>2. g[T \ {Max(T)}] \in St
      OBVIOUS
    <3>3. QED BY <1>5, <3>1, <3>2
  <2>2. QED BY ONLY <1>2, <1>6, <2>1 DEF FoldOf
<1>8. Eq(f)
  BY <1>7 DEF f
<1>9. f[{}] = first
  BY <1>8
<1>10. ASSUME NEW k \in 1 .. n, f[1 .. (k - 1)] \in St
       PROVE  f[1 .. k] = step[<<f[1 .. (k - 1)], k>>]
  <2>1. 1 .. k \in SUBSET DOMAIN s /\ 1 .. k # {} /\ k \in Nat \ {0}
    BY <1>2, UpTo
  <2>2. f[1 .. k] = GivenStep(f[(1 .. k) \ {Max(1 .. k)}], s[Max(1 .. k)])
    BY <1>8, <2>1
  <2>3. Max(1 .. k) = k /\ (1 .. k) \ {Max(1 .. k)} = 1 .. (k - 1)
    BY <2>1, LessTheLast
  <2>4. f[1 .. k] = GivenStep(f[1 .. (k - 1)], s[k])
    BY ONLY <2>2, <2>3
  <2>5. QED BY ONLY <1>5, <1>10, <2>4
<1>11. PICK run \in [0 .. n -> St] : RunOf(n, first, step, f[1 .. n], run)
  BY <1>2, <1>3, <1>4, <1>9, <1>10, FoldRuns
<1>12. \A k \in 1 .. n : run[k] = GivenStep(run[k - 1], s[k])
  <2>1. \A k \in 1 .. n : run[k - 1] \in St
    BY <1>2
  <2>2. QED BY <1>5, <1>11, <2>1 DEF RunOf
<1>13. QED BY <1>1, <1>2, <1>11, <1>12 DEF n, St, first, RunOf

-----------------------------------------------------------------------------
(* What one more character adds. *)

\* Two runs of the same steps end the same.
LEMMA SameRuns ==
  ASSUME NEW n \in Nat, NEW a, NEW b, a[0] = b[0],
         \A k \in 1 .. n : a[k - 1] = b[k - 1] => a[k] = b[k]
  PROVE  a[n] = b[n]
<1> DEFINE G == {k \in 0 .. n : a[k] = b[k]}
<1>1. 0 \in G
  OBVIOUS
<1>2. ASSUME NEW k \in 0 .. n - 1, k \in G PROVE k + 1 \in G
  <2>1. k + 1 \in 1 .. n /\ (k + 1) - 1 = k /\ k + 1 \in 0 .. n
    OBVIOUS
  <2>2. a[k] = b[k]
    BY <1>2
  <2>3. a[k + 1] = b[k + 1]
    BY ONLY <2>1, <2>2, \A j \in 1 .. n : a[j - 1] = b[j - 1] => a[j] = b[j]
  <2>4. QED BY <2>1, <2>3
<1>3. \A k \in 0 .. n : k \in G
  <2>1. \A k \in 0 .. n - 1 : k \in G => k + 1 \in G
    BY <1>2
  <2> HIDE DEF G
  <2>2. QED BY <1>1, <2>1, Positions
<1>4. n \in 0 .. n
  OBVIOUS
<1>5. QED BY ONLY <1>3, <1>4

LEMMA DenotesEmpty ==
  ASSUME NEW b \in Int PROVE Denotes(<<>>, b) = 0
<1>1. <<>> \in Seq(Int) /\ Len(<<>>) = 0
  OBVIOUS
<1>2. PICK run : run[0] = DenotesStart(b) /\ run[Len(<<>>)] = Denotes(<<>>, b)
  BY <1>1, DenotesRuns
<1>3. QED BY <1>1, <1>2 DEF DenotesStart

LEMMA DenotesAppend ==
  ASSUME NEW s \in Seq(Int), NEW c \in Int, NEW b \in Int
  PROVE  /\ Denotes(s, b) \in Int
         /\ Denotes(Append(s, c), b) = Denotes(s, b) * b + DigitValue(c)
<1> DEFINE t == Append(s, c)
           n == Len(s)
<1>1. /\ t \in Seq(Int) /\ Len(t) = n + 1 /\ n \in Nat /\ t[n + 1] = c
      /\ \A k \in 1 .. n : t[k] = s[k]
  OBVIOUS
<1>2. PICK r \in [0 .. n -> DenotesStates(b)] :
        /\ r[0] = DenotesStart(b) /\ r[n] = Denotes(s, b)
        /\ \A k \in 1 .. n : r[k] = DenotesStep(b, r[k - 1], s[k])
  BY DenotesRuns
<1> HIDE DEF t, n
<1>3. PICK q \in [0 .. Len(t) -> DenotesStates(b)] :
        /\ q[0] = DenotesStart(b) /\ q[Len(t)] = Denotes(t, b)
        /\ \A k \in 1 .. Len(t) : q[k] = DenotesStep(b, q[k - 1], t[k])
  BY <1>1, DenotesRuns
<1>4. r[n] = q[n]
  <2>1. \A k \in 1 .. n : k \in 1 .. Len(t)
    BY <1>1
  <2>2. \A k \in 1 .. n : r[k - 1] = q[k - 1] => r[k] = q[k]
    BY ONLY <1>1, <1>2, <1>3, <2>1
  <2>3. r[0] = q[0] /\ n \in Nat
    BY <1>1, <1>2, <1>3
  <2>4. QED BY ONLY <2>2, <2>3, SameRuns
<1>5. q[n + 1] = DenotesStep(b, q[n], c)
  <2>1. n + 1 \in 1 .. Len(t) /\ (n + 1) - 1 = n
    BY <1>1
  <2>2. QED BY ONLY <1>1, <1>3, <2>1
<1>6. Denotes(s, b) \in Int
  BY <1>1, <1>2 DEF DenotesStates
<1>7. Denotes(t, b) = DenotesStep(b, Denotes(s, b), c)
  BY <1>1, <1>2, <1>3, <1>4, <1>5
<1>8. QED BY <1>6, <1>7 DEF DenotesStep, t

\* What a step makes of the fields.
LEMMA FieldsParts ==
  ASSUME NEW fs \in Seq(Seq(Int)), NEW c \in Int
  PROVE  /\ c = Dot => /\ Len(FieldsStep(fs, c)) = Len(fs) + 1
                       /\ \A i \in 1 .. Len(fs) : FieldsStep(fs, c)[i] = fs[i]
                       /\ FieldsStep(fs, c)[Len(fs) + 1] = <<>>
         /\ c # Dot => /\ Len(FieldsStep(fs, c)) = Len(fs)
                       /\ \A i \in 1 .. Len(fs) - 1 : FieldsStep(fs, c)[i] = fs[i]
                       /\ Len(fs) > 0 => FieldsStep(fs, c)[Len(fs)] = Append(fs[Len(fs)], c)
<1>1. CASE c = Dot
  BY <1>1 DEF FieldsStep
<1>2. CASE c # Dot /\ Len(fs) > 0
  <2>1. FieldsStep(fs, c) = [fs EXCEPT ![Len(fs)] = Append(fs[Len(fs)], c)]
    BY <1>2 DEF FieldsStep
  <2>2. Len(fs) \in 1 .. Len(fs) /\ Append(fs[Len(fs)], c) \in Seq(Int)
    BY <1>2
  <2> DEFINE x == Append(fs[Len(fs)], c)
             n == Len(fs)
  <2> HIDE DEF x, n
  <2>3. /\ Len([fs EXCEPT ![n] = x]) = Len(fs)
        /\ \A j \in 1 .. Len(fs) : [fs EXCEPT ![n] = x][j] = IF j = n THEN x ELSE fs[j]
    BY <2>2, ExceptSeq DEF x, n
  <2>4. \A j \in 1 .. Len(fs) - 1 : j \in 1 .. Len(fs) /\ j # n
    BY <2>2 DEF n
  <2>5. QED BY ONLY <1>2, <2>1, <2>2, <2>3, <2>4 DEF x, n
<1>3. CASE c # Dot /\ Len(fs) = 0
  <2>1. FieldsStep(fs, c) = [fs EXCEPT ![Len(fs)] = Append(fs[Len(fs)], c)]
    BY <1>3 DEF FieldsStep
  <2>2. fs = <<>>
    BY <1>3
  <2>3. Len(FieldsStep(fs, c)) = 0
    BY <2>1, <2>2
  <2>4. QED BY <1>3, <2>3
<1>4. QED BY <1>1, <1>2, <1>3

-----------------------------------------------------------------------------
(* fromString: fields and the bytes it keeps. *)

OnlyDigits(f) == \A i \in DOMAIN f : IsDigit(f[i])

\* Fields that belong to no address, whatever follows.
NoField(f) == ~OnlyDigits(f) \/ Denotes(f, 10) >= 256
Broken(fs) == Len(fs) > 4 \/ \E i \in 1 .. Len(fs) : NoField(fs[i])

\* What fromString has of the fields it has read.
Kept(fs, st) ==
  /\ Len(fs) = Len(st.bytes) + 1 /\ Len(st.bytes) <= 3
  /\ \A i \in 1 .. Len(st.bytes) : ~NoField(fs[i]) /\ st.bytes[i] = Denotes(fs[i], 10)
  /\ ~NoField(fs[Len(fs)]) /\ st.acc = Denotes(fs[Len(fs)], 10)

GivenInv(fs, st) == Len(fs) >= 1 /\ IF st.bad THEN Broken(fs) ELSE Kept(fs, st)

LEMMA EmptyField == ~NoField(<<>>) /\ Denotes(<<>>, 10) = 0
<1>1. Denotes(<<>>, 10) = 0
  BY DenotesEmpty
<1>2. QED BY <1>1 DEF NoField, OnlyDigits

\* A field with a character more.
LEMMA LongerField ==
  ASSUME NEW f \in Seq(Int), NEW c \in Int
  PROVE  /\ NoField(f) => NoField(Append(f, c))
         /\ ~IsDigit(c) => NoField(Append(f, c))
         /\ IsDigit(c) => Denotes(Append(f, c), 10) = Denotes(f, 10) * 10 + c - Zero
         /\ ~NoField(f) /\ IsDigit(c) =>
              (NoField(Append(f, c)) <=> Denotes(f, 10) * 10 + c - Zero > 255)
<1> DEFINE g == Append(f, c)
<1>1. /\ DOMAIN g = 1 .. Len(f) + 1 /\ DOMAIN f = 1 .. Len(f) /\ Len(f) \in Nat
      /\ g[Len(f) + 1] = c /\ \A i \in 1 .. Len(f) : g[i] = f[i]
  OBVIOUS
<1>2. Denotes(f, 10) \in Int /\ Denotes(g, 10) = Denotes(f, 10) * 10 + DigitValue(c)
  BY DenotesAppend
<1>3. IsDigit(c) => DigitValue(c) = c - Zero /\ c - Zero \in 0 .. 9
  BY DEF DigitValue, IsDigit, Zero
<1> HIDE DEF g
<1>4. OnlyDigits(g) <=> OnlyDigits(f) /\ IsDigit(c)
  <2>1. Len(f) + 1 \in DOMAIN g /\ \A i \in DOMAIN f : i \in DOMAIN g
    BY <1>1
  <2>2. OnlyDigits(g) => OnlyDigits(f) /\ IsDigit(c)
    BY ONLY <1>1, <2>1 DEF OnlyDigits
  <2>3. \A i \in DOMAIN g : i \in DOMAIN f \/ i = Len(f) + 1
    BY <1>1
  <2>4. OnlyDigits(f) /\ IsDigit(c) => OnlyDigits(g)
    BY ONLY <1>1, <2>3 DEF OnlyDigits
  <2>5. QED BY <2>2, <2>4
<1> DEFINE v == Denotes(f, 10)
           w == Denotes(g, 10)
<1>5. v \in Int /\ (IsDigit(c) => w = v * 10 + (c - Zero) /\ c - Zero \in 0 .. 9 /\ w = v * 10 + c - Zero)
  BY <1>2, <1>3 DEF Zero
<1>6. (NoField(f) <=> ~OnlyDigits(f) \/ v >= 256) /\ (NoField(g) <=> ~OnlyDigits(g) \/ w >= 256)
  BY DEF NoField
<1> HIDE DEF v, w
<1>7. IsDigit(c) /\ v >= 256 => w >= 256
  BY <1>5
<1>8. IsDigit(c) => (w >= 256 <=> w > 255)
  BY <1>5
<1>9. QED BY <1>4, <1>5, <1>6, <1>7, <1>8 DEF v, w, g

LEMMA GivenGoesOn ==
  ASSUME NEW fs \in Seq(Seq(Int)), NEW st \in GivenStates, NEW c \in Int, GivenInv(fs, st)
  PROVE  GivenInv(FieldsStep(fs, c), GivenStep(st, c))
<1> DEFINE gs == FieldsStep(fs, c)
           new == GivenStep(st, c)
           n == Len(fs)
<1>1. /\ n \in Nat /\ n >= 1 /\ gs \in Seq(Seq(Int)) /\ Len(gs) \in Nat
      /\ st.bytes \in Seq(Nat) /\ st.acc \in Nat /\ \A i \in 1 .. n : fs[i] \in Seq(Int)
  <2>1. gs \in Seq(Seq(Int))
    BY FieldsType DEF FieldsStates
  <2> HIDE DEF gs
  <2>2. QED BY <2>1 DEF GivenInv, GivenStates
<1>2. c = Dot => /\ Len(gs) = n + 1 /\ gs[n + 1] = <<>>
                 /\ \A i \in 1 .. n : gs[i] = fs[i]
  BY FieldsParts
<1>3. c # Dot => /\ Len(gs) = n /\ gs[n] = Append(fs[n], c)
                 /\ \A i \in 1 .. n - 1 : gs[i] = fs[i]
  <2>1. n > 0
    BY <1>1
  <2>2. QED BY <2>1, FieldsParts
<1>4. /\ st.bad => new = st
      /\ ~st.bad /\ IsDigit(c) =>
           /\ new.bytes = st.bytes /\ new.acc = st.acc * 10 + c - Zero
           /\ new.bad <=> st.acc * 10 + c - Zero > 255
      /\ ~st.bad /\ c = Dot /\ Len(st.bytes) < 3 =>
           /\ new.bytes = Append(st.bytes, st.acc) /\ new.acc = 0 /\ ~new.bad
      /\ ~st.bad /\ ~IsDigit(c) /\ (c # Dot \/ Len(st.bytes) >= 3) => new.bad
  BY GivenParts
<1>5. IsDigit(c) => c # Dot
  BY DEF IsDigit, Dot, Zero
<1> SUFFICES GivenInv(gs, new)
  OBVIOUS
<1> HIDE DEF gs, new, n
<1>6. Len(gs) >= 1
  BY <1>1, <1>2, <1>3
<1>7. ASSUME NEW i \in 1 .. n, NoField(fs[i]) PROVE \E j \in 1 .. Len(gs) : NoField(gs[j])
  <2>1. CASE c = Dot
    <3>1. i \in 1 .. Len(gs) /\ gs[i] = fs[i]
      BY <1>1, <1>2, <2>1
    <3>2. QED BY <1>7, <3>1
  <2>2. CASE c # Dot /\ i < n
    <3>1. i \in 1 .. Len(gs) /\ gs[i] = fs[i]
      BY <1>1, <1>3, <2>2
    <3>2. QED BY <1>7, <3>1
  <2>3. CASE c # Dot /\ i = n
    <3>1. NoField(Append(fs[n], c))
      BY <1>1, <1>7, <2>3, LongerField
    <3>2. QED BY <1>1, <1>3, <2>3, <3>1
  <2>4. QED BY <1>1, <2>1, <2>2, <2>3
<1>8. CASE st.bad
  <2>1. Broken(fs)
    BY <1>8 DEF GivenInv
  <2>2. Broken(gs)
    <3>1. CASE n > 4
      BY <1>1, <1>2, <1>3, <3>1 DEF Broken
    <3>2. CASE \E i \in 1 .. n : NoField(fs[i])
      BY <1>7, <3>2 DEF Broken
    <3>3. QED BY <2>1, <3>1, <3>2 DEF Broken, n
  <2>3. QED BY <1>4, <1>6, <1>8, <2>2 DEF GivenInv
<1>9. CASE ~st.bad
  <2>1. Kept(fs, st)
    BY <1>9 DEF GivenInv
  <2> DEFINE b == st.bytes
  <2>2. /\ n = Len(b) + 1 /\ Len(b) <= 3 /\ Len(b) \in Nat
        /\ \A i \in 1 .. Len(b) : ~NoField(fs[i]) /\ b[i] = Denotes(fs[i], 10)
        /\ ~NoField(fs[n]) /\ st.acc = Denotes(fs[n], 10)
    BY <1>1, <2>1 DEF Kept, n
  <2>3. CASE IsDigit(c)
    <3>1. /\ Denotes(Append(fs[n], c), 10) = Denotes(fs[n], 10) * 10 + c - Zero
          /\ NoField(Append(fs[n], c)) <=> Denotes(fs[n], 10) * 10 + c - Zero > 255
      <4>1. fs[n] \in Seq(Int)
        BY <1>1
      <4>2. QED BY <2>2, <2>3, <4>1, LongerField
    <3>2. /\ Denotes(gs[n], 10) = st.acc * 10 + c - Zero
          /\ NoField(gs[n]) <=> st.acc * 10 + c - Zero > 255
      BY <1>3, <1>5, <2>2, <2>3, <3>1
    <3>3. Len(gs) = n /\ \A i \in 1 .. n - 1 : gs[i] = fs[i]
      BY <1>3, <1>5, <2>3
    <3>4. CASE new.bad
      <4>1. NoField(gs[n]) /\ n \in 1 .. Len(gs)
        BY <1>1, <1>4, <1>9, <2>3, <3>2, <3>3, <3>4
      <4>2. Broken(gs)
        BY <4>1 DEF Broken
      <4>3. QED BY <1>6, <3>4, <4>2 DEF GivenInv
    <3>5. CASE ~new.bad
      <4>1. /\ ~NoField(gs[n]) /\ new.acc = Denotes(gs[n], 10) /\ new.bytes = b
        BY <1>4, <1>9, <2>3, <3>2, <3>5
      <4>2. \A i \in 1 .. Len(b) : gs[i] = fs[i]
        BY <2>2, <3>3
      <4> HIDE DEF b
      <4>3. Kept(gs, new)
        BY <2>2, <3>3, <4>1, <4>2 DEF Kept
      <4>4. QED BY <1>6, <3>5, <4>3 DEF GivenInv
    <3>6. QED BY <3>4, <3>5
  <2>4. CASE c = Dot /\ Len(b) < 3
    <3>1. new.bytes = Append(b, st.acc) /\ new.acc = 0 /\ ~new.bad
      BY <1>4, <1>9, <2>4
    <3>2. Len(new.bytes) = Len(b) + 1 /\ new.bytes[Len(b) + 1] = st.acc
          /\ \A i \in 1 .. Len(b) : new.bytes[i] = b[i]
      BY <1>1, <3>1
    <3>3. Len(gs) = n + 1 /\ gs[n + 1] = <<>> /\ \A i \in 1 .. n : gs[i] = fs[i]
      BY <1>2, <2>4
    <3> HIDE DEF b
    <3>4. ASSUME NEW i \in 1 .. Len(b) + 1
          PROVE  ~NoField(gs[i]) /\ new.bytes[i] = Denotes(gs[i], 10)
      <4>1. CASE i \in 1 .. Len(b)
        BY <2>2, <3>2, <3>3, <4>1
      <4>2. CASE i = Len(b) + 1
        BY <2>2, <3>2, <3>3, <4>2
      <4>3. QED BY <2>2, <4>1, <4>2
    <3>5. ~NoField(gs[n + 1]) /\ new.acc = Denotes(gs[n + 1], 10)
      BY <3>1, <3>3, EmptyField
    <3>6. Kept(gs, new)
      BY <2>2, <2>4, <3>2, <3>3, <3>4, <3>5 DEF Kept
    <3>7. QED BY <1>6, <3>1, <3>6 DEF GivenInv
  <2>5. CASE ~IsDigit(c) /\ c # Dot
    <3>1. new.bad
      BY <1>4, <1>9, <2>5
    <3>2. NoField(gs[n]) /\ n \in 1 .. Len(gs)
      <4>1. fs[n] \in Seq(Int)
        BY <1>1
      <4>2. NoField(Append(fs[n], c))
        BY <2>5, <4>1, LongerField
      <4>3. c # Dot
        BY <2>5
      <4>4. gs[n] = Append(fs[n], c) /\ Len(gs) = n
        BY ONLY <1>3, <4>3
      <4>5. n \in 1 .. n
        BY <1>1
      <4>6. QED BY ONLY <4>2, <4>4, <4>5
    <3>3. Broken(gs)
      BY <3>2 DEF Broken
    <3>4. QED BY <1>6, <3>1, <3>3 DEF GivenInv
  <2>6. CASE c = Dot /\ Len(b) >= 3
    <3>1. new.bad
      BY <1>4, <1>5, <1>9, <2>6
    <3>2. Len(gs) > 4
      BY <1>1, <1>2, <2>2, <2>6
    <3>3. Broken(gs)
      BY <3>2 DEF Broken
    <3>4. QED BY <1>6, <3>1, <3>3 DEF GivenInv
  <2>7. QED BY <2>2, <2>3, <2>4, <2>5, <2>6
<1>10. QED BY <1>8, <1>9

LEMMA FieldsSeq ==
  ASSUME NEW s \in Seq(Int) PROVE Fields(s) \in Seq(Seq(Int))
<1>1. PICK run \in [0 .. Len(s) -> FieldsStates] :
        /\ run[0] = FieldsStart /\ run[Len(s)] = Fields(s)
        /\ \A k \in 1 .. Len(s) : run[k] = FieldsStep(run[k - 1], s[k])
  BY FieldsRuns
<1>2. Len(s) \in 0 .. Len(s)
  OBVIOUS
<1>3. QED BY <1>1, <1>2 DEF FieldsStates

LEMMA GivenEnds ==
  ASSUME NEW s \in Seq(Int)
  PROVE  GivenEnd(s) \in GivenStates /\ GivenInv(Fields(s), GivenEnd(s))
<1>1. PICK fields \in [0 .. Len(s) -> FieldsStates] :
        /\ fields[0] = FieldsStart /\ fields[Len(s)] = Fields(s)
        /\ \A k \in 1 .. Len(s) : fields[k] = FieldsStep(fields[k - 1], s[k])
  BY FieldsRuns
<1>2. PICK run \in [0 .. Len(s) -> GivenStates] :
        /\ run[0] = GivenStart /\ run[Len(s)] = GivenEnd(s)
        /\ \A k \in 1 .. Len(s) : run[k] = GivenStep(run[k - 1], s[k])
  BY GivenRuns
<1> DEFINE n == Len(s)
           G == {k \in 0 .. n : GivenInv(fields[k], run[k])}
<1>3. n \in Nat /\ n \in 0 .. n
  OBVIOUS
<1> HIDE DEF n
<1>4. GivenInv(FieldsStart, GivenStart)
  <2>1. Len(FieldsStart) = 1 /\ FieldsStart[1] = <<>>
    BY DEF FieldsStart
  <2>2. GivenStart.bytes = <<>> /\ GivenStart.acc = 0 /\ GivenStart.bad = FALSE
    BY DEF GivenStart
  <2>3. Len(<<>>) = 0
    OBVIOUS
  <2>4. Kept(FieldsStart, GivenStart)
    BY <2>1, <2>2, <2>3, EmptyField DEF Kept
  <2>5. QED BY <2>1, <2>2, <2>4 DEF GivenInv
<1>5. 0 \in G
  BY <1>1, <1>2, <1>3, <1>4
<1>6. ASSUME NEW k \in 0 .. n - 1, k \in G PROVE k + 1 \in G
  <2>1. k + 1 \in 1 .. n /\ k + 1 \in 0 .. n /\ (k + 1) - 1 = k /\ k \in 0 .. n
    BY <1>3
  <2>2. fields[k + 1] = FieldsStep(fields[k], s[k + 1]) /\ run[k + 1] = GivenStep(run[k], s[k + 1])
    BY ONLY <1>1, <1>2, <2>1 DEF n
  <2>3. fields[k] \in Seq(Seq(Int)) /\ run[k] \in GivenStates
    BY ONLY <1>1, <1>2, <2>1 DEF n, FieldsStates
  <2>4. s[k + 1] \in Int
    BY <2>1 DEF n
  <2>5. GivenInv(fields[k], run[k])
    BY <1>6
  <2>6. GivenInv(FieldsStep(fields[k], s[k + 1]), GivenStep(run[k], s[k + 1]))
    BY ONLY <2>3, <2>4, <2>5, GivenGoesOn
  <2>7. QED BY <2>1, <2>2, <2>6
<1>7. n \in G
  <2>1. \A k \in 0 .. n - 1 : k \in G => k + 1 \in G
    BY <1>6
  <2> HIDE DEF G
  <2>2. \A k \in 0 .. n : k \in G
    BY <1>3, <1>5, <2>1, Positions
  <2>3. QED BY ONLY <1>3, <2>2
<1>8. QED BY <1>1, <1>2, <1>3, <1>7 DEF n

LEMMA FromStringIs ==
  ASSUME NEW s
  PROVE  fromString(s) =
           IF GivenEnd(s).bad \/ Len(GivenEnd(s).bytes) # 3 THEN [ok |-> 0, bytes |-> GivenEnd(s).bytes]
           ELSE [ok |-> 1, bytes |-> Append(GivenEnd(s).bytes, GivenEnd(s).acc)]
BY DEF fromString, GivenEnd, GivenStep, GivenStart

\* Addresses are four fields none of which is wrong.
LEMMA AddressFields ==
  ASSUME NEW s \in Seq(Int)
  PROVE  /\ IsAddress(s) <=> Len(Fields(s)) = 4 /\ \A k \in 1 .. 4 : ~NoField(Fields(s)[k])
         /\ Len(Fields(s)) = 4 => \A k \in 1 .. 4 : Denotes(Fields(s)[k], 10) \in Int
<1> DEFINE F == Fields(s)
<1>1. F \in Seq(Seq(Int))
  BY FieldsSeq
<1> HIDE DEF F
<1>2. ASSUME Len(F) = 4, NEW k \in 1 .. 4 
      PROVE  /\ Denotes(F[k], 10) \in Int
             /\ ~NoField(F[k]) <=> (\A i \in DOMAIN F[k] : IsDigit(F[k][i])) /\ Denotes(F[k], 10) < 256
  <2>1. F[k] \in Seq(Int)
    <3>1. k \in 1 .. Len(F)
      BY <1>2
    <3>2. QED BY ONLY <1>1, <3>1
  <2>2. Denotes(F[k], 10) \in Int
    BY <2>1, DenotesAppend, SMTT(60)
  <2> DEFINE v == Denotes(F[k], 10)
  <2> HIDE DEF v
  <2>3. v \in Int => (v < 256 <=> ~(v >= 256))
    OBVIOUS
  <2>4. QED BY <2>2, <2>3 DEF v, NoField, OnlyDigits
<1>3. QED BY <1>2 DEF F, IsAddress

LEMMA FourBytes ==
  ASSUME NEW b \in Seq(Nat), Len(b) = 3, NEW a \in Nat
  PROVE  Append(b, a) = [k \in 1 .. 4 |-> IF k <= 3 THEN b[k] ELSE a]
<1>1. ASSUME NEW c \in Seq(Nat)
      PROVE  /\ Append(c, a) \in Seq(Nat) /\ Len(Append(c, a)) = Len(c) + 1
             /\ Append(c, a)[Len(c) + 1] = a /\ \A k \in 1 .. Len(c) : Append(c, a)[k] = c[k]
  OBVIOUS
<1> DEFINE t == Append(b, a)
<1>2. t \in Seq(Nat) /\ Len(t) = 3 + 1 /\ t[3 + 1] = a /\ \A k \in 1 .. 3 : t[k] = b[k]
  BY ONLY <1>1, b \in Seq(Nat), Len(b) = 3, Zenon
<1> HIDE DEF t
<1>3. t = [k \in 1 .. 4 |-> t[k]] /\ t[4] = a /\ \A k \in 1 .. 3 : t[k] = b[k]
  <2>1. 3 + 1 = 4
    OBVIOUS
  <2>2. t \in Seq(Nat) /\ Len(t) = 4
    BY <1>2
  <2>3. t = [k \in 1 .. 4 |-> t[k]]
    BY ONLY <2>2
  <2>4. QED BY ONLY <1>2, <2>1, <2>3
<1>4. \A k \in 1 .. 4 : t[k] = IF k <= 3 THEN b[k] ELSE a
  BY ONLY <1>3
<1>5. t = [k \in 1 .. 4 |-> IF k <= 3 THEN b[k] ELSE a]
  BY ONLY <1>3, <1>4
<1>6. QED BY <1>5 DEF t

LEMMA FromStringTakes ==
  ASSUME NEW s \in Seq(Int)
  PROVE  /\ fromString(s).ok = 1 <=> IsAddress(s)
         /\ IsAddress(s) =>
              fromString(s) = [ok |-> 1, bytes |-> [k \in 1 .. 4 |-> Denotes(Fields(s)[k], 10)]]
<1> DEFINE F == Fields(s)
           st == GivenEnd(s)
<1>1. st \in GivenStates /\ GivenInv(F, st) /\ F \in Seq(Seq(Int))
  BY GivenEnds, FieldsSeq
<1>2. st.bytes \in Seq(Nat) /\ Len(st.bytes) \in Nat /\ st.acc \in Nat /\ Len(F) \in Nat
  BY <1>1 DEF GivenStates
<1>3. IsAddress(s) <=> Len(F) = 4 /\ \A k \in 1 .. 4 : ~NoField(F[k])
  BY AddressFields
<1>4. fromString(s) =
           IF st.bad \/ Len(st.bytes) # 3 THEN [ok |-> 0, bytes |-> st.bytes]
           ELSE [ok |-> 1, bytes |-> Append(st.bytes, st.acc)]
  BY FromStringIs
<1> SUFFICES /\ fromString(s).ok = 1 <=> IsAddress(s)
             /\ IsAddress(s) =>
                  fromString(s) = [ok |-> 1, bytes |-> [k \in 1 .. 4 |-> Denotes(F[k], 10)]]
  OBVIOUS
<1> HIDE DEF F, st
<1>5. CASE st.bad
  <2>1. ~IsAddress(s)
    <3>1. Broken(F)
      BY <1>1, <1>5 DEF GivenInv
    <3>2. ASSUME Len(F) = 4 PROVE \E i \in 1 .. 4 : NoField(F[i])
      BY <3>1, <3>2 DEF Broken
    <3>3. QED BY <1>3, <3>2
  <2>2. QED BY <1>4, <1>5, <2>1
<1>6. CASE ~st.bad
  <2>1. Kept(F, st)
    BY <1>1, <1>6 DEF GivenInv
  <2>2. CASE Len(st.bytes) # 3
    <3>1. Len(F) # 4
      <4>1. Len(F) = Len(st.bytes) + 1
        BY <2>1 DEF Kept
      <4>2. \A m \in Nat, l \in Nat : m # 3 /\ l = m + 1 => l # 4
        OBVIOUS
      <4>3. QED BY ONLY <1>2, <2>2, <4>1, <4>2
    <3>2. QED BY <1>3, <1>4, <2>2, <3>1
  <2>3. CASE Len(st.bytes) = 3
    <3>1. Len(F) = 4
      BY <2>1, <2>3 DEF Kept
    <3>2. IsAddress(s)
      BY <1>3, <2>1, <2>3, <3>1 DEF Kept
    <3>3. fromString(s) = [ok |-> 1, bytes |-> Append(st.bytes, st.acc)]
      BY <1>4, <1>6, <2>3
    <3> DEFINE b == st.bytes
    <3>4. Append(b, st.acc) = [k \in 1 .. 4 |-> IF k <= 3 THEN b[k] ELSE st.acc]
      <4>1. b \in Seq(Nat) /\ Len(b) = 3
        BY <1>2, <2>3
      <4> HIDE DEF b
      <4>2. QED BY ONLY <1>2, <4>1, FourBytes
    <3>5. \A k \in 1 .. 4 : (IF k <= 3 THEN b[k] ELSE st.acc) = Denotes(F[k], 10)
      BY <2>1, <2>3, <3>1 DEF Kept
    <3>6. QED BY <3>2, <3>3, <3>4, <3>5
  <2>4. QED BY <2>2, <2>3
<1>7. QED BY <1>5, <1>6

-----------------------------------------------------------------------------
(* The width of an int. *)

\* The powers of two up to those of a long.
LEMMA Powers == \A k \in 0 .. 31 : 2^k \in Nat \ {0} /\ 2^(k + 1) = 2 * 2^k
<1> DEFINE P(k) == 2^k \in Nat \ {0} /\ 2^(k + 1) = 2 * 2^k
<1>1. P(0) /\ P(1) /\ P(2) /\ P(3) /\ P(4) /\ P(5) /\ P(6) /\ P(7)
  OBVIOUS
<1>2. P(8) /\ P(9) /\ P(10) /\ P(11) /\ P(12) /\ P(13) /\ P(14) /\ P(15)
  OBVIOUS
<1>3. P(16) /\ P(17) /\ P(18) /\ P(19) /\ P(20) /\ P(21) /\ P(22) /\ P(23)
  OBVIOUS
<1>4. P(24) /\ P(25) /\ P(26) /\ P(27) /\ P(28) /\ P(29) /\ P(30) /\ P(31)
  OBVIOUS
<1>5. SUFFICES \A k \in 0 .. 31 : P(k)
  OBVIOUS
<1> HIDE DEF P
<1>6. QED BY <1>1, <1>2, <1>3, <1>4

LEMMA WidthRange ==
  ASSUME NEW w \in 1 .. 32
  PROVE  2^w \in Nat \ {0} /\ 2^(w - 1) \in Nat \ {0} /\ 2^w = 2 * 2^(w - 1)
<1>1. w - 1 \in 0 .. 31 /\ (w - 1) + 1 = w
  OBVIOUS
<1> DEFINE P(k) == 2^k \in Nat \ {0} /\ 2^(k + 1) = 2 * 2^k
<1>2. P(w - 1)
  BY <1>1, Powers
<1>3. 2^((w - 1) + 1) = 2^w
  BY ONLY <1>1
<1> DEFINE h == 2^(w - 1)
<1>4. h \in Nat \ {0} /\ 2^w = 2 * h
  BY <1>2, <1>3
<1> HIDE DEF h
<1>5. 2 * h \in Nat \ {0}
  BY <1>4
<1>6. QED BY <1>4, <1>5 DEF h

\* The signed number with the same bits.
LEMMA SignedIs ==
  ASSUME NEW M \in Nat \ {0}, NEW h \in Nat \ {0}, M = 2 * h, NEW n \in Int,
         NEW w, w = IF n % M < h THEN n % M ELSE (n % M) - M
  PROVE  w \in -h .. h - 1 /\ w % M = n % M /\ (n \in -h .. h - 1 => w = n)
<1> DEFINE u == n % M
<1>1. w = IF u < h THEN u ELSE u - M
  OBVIOUS
<1>2. n \div M \in Int /\ u \in 0 .. M - 1 /\ n = M * (n \div M) + u
  BY DivMod
<1> HIDE DEF u
<1>3. w \in -h .. h - 1
  BY <1>1, <1>2
<1>4. w % M = u
  <2>1. CASE u < h
    <3>1. w = u
      BY <1>1, <2>1
    <3>2. QED BY <1>2, <3>1, ModSmall
  <2>2. CASE ~(u < h)
    <3>1. w \in Int /\ -1 \in Int /\ w = M * (-1) + u
      BY <1>1, <1>2, <2>2
    <3>2. QED BY ONLY M \in Nat \ {0}, <1>2, <3>1, ModIs
  <2>3. QED BY <2>1, <2>2
<1>5. ASSUME n \in -h .. h - 1 PROVE w = n
  <2>1. CASE n \in 0 .. h - 1
    <3>1. n \in 0 .. M - 1
      BY <2>1
    <3>2. u = n
      BY <3>1, ModSmall DEF u
    <3>3. QED BY <1>1, <2>1, <3>2
  <2>2. CASE n \in -h .. -1
    <3>1. n + M \in 0 .. M - 1 /\ n = M * (-1) + (n + M) /\ -1 \in Int
      BY <2>2
    <3>2. n % M = n + M
      BY ONLY M \in Nat \ {0}, <3>1, n \in Int, ModIs
    <3>3. ~(n + M < h)
      BY <2>2
    <3>4. w = (n + M) - M
      BY ONLY <1>1, <3>2, <3>3 DEF u
    <3>5. QED BY <3>4
  <2>3. n \in 0 .. h - 1 \/ n \in -h .. -1
    BY <1>5
  <2>4. QED BY <2>1, <2>2, <2>3
<1>6. QED BY <1>3, <1>4, <1>5 DEF u

\* ToInt yields the int with the same bits.
LEMMA ToIntIs ==
  ASSUME IntBits \in 10 .. 32, NEW n \in Int
  PROVE  /\ ToInt(n) \in Int
         /\ -(2^(IntBits - 1)) <= n /\ n < 2^(IntBits - 1) => ToInt(n) = n
<1> DEFINE M == 2^IntBits
           h == 2^(IntBits - 1)
           w == ToInt(n)
<1>1. M \in Nat \ {0} /\ h \in Nat \ {0} /\ M = 2 * h
  <2>1. IntBits \in 1 .. 32
    OBVIOUS
  <2>2. QED BY <2>1, WidthRange
<1>2. w = IF n % M < h THEN n % M ELSE (n % M) - M
  BY DEF ToInt
<1> HIDE DEF M, h, w
<1>3. w \in -h .. h - 1 /\ (n \in -h .. h - 1 => w = n)
  BY ONLY <1>1, <1>2, n \in Int, SignedIs
<1>4. w \in Int /\ (-h <= n /\ n < h => w = n)
  BY ONLY <1>1, <1>3, n \in Int
<1>5. QED BY <1>4 DEF M, h, w

\* No int is too narrow for these.
LEMMA ToIntSmall ==
  ASSUME IntBits \in 10 .. 32, NEW n \in Int, -512 <= n, n <= 511
  PROVE  ToInt(n) = n
<1> DEFINE h == 2^(IntBits - 1)
<1>1. h >= 512 /\ h \in Nat
  <2> DEFINE P(k) == k \in 9 .. 31 => 2^k >= 512 /\ 2^k \in Nat
  <2>1. /\ P(9) /\ P(10) /\ P(11) /\ P(12) /\ P(13) /\ P(14) /\ P(15) /\ P(16) /\ P(17) /\ P(18)
        /\ P(19) /\ P(20) /\ P(21) /\ P(22) /\ P(23) /\ P(24) /\ P(25) /\ P(26) /\ P(27) /\ P(28)
        /\ P(29) /\ P(30) /\ P(31)
    OBVIOUS
  <2> HIDE DEF P
  <2>2. \A k \in 9 .. 31 : P(k)
    BY <2>1
  <2>3. IntBits - 1 \in 9 .. 31
    OBVIOUS
  <2>4. P(IntBits - 1)
    BY <2>2, <2>3
  <2>5. QED BY <2>3, <2>4 DEF P
<1> HIDE DEF h
<1>2. -h <= n /\ n < h /\ n \in Int
  BY <1>1
<1>3. QED BY ONLY <1>2, IntBits \in 10 .. 32, ToIntIs DEF h

-----------------------------------------------------------------------------
(* inet_aton, beside fromString. *)

(* inet_aton as a fold. *)
AtonStart == [bytes |-> <<>>, value |-> 0, bad |-> FALSE]
AtonStep(st, c) ==
  IF st.bad \/ Len(st.bytes) = 4 THEN st
  ELSE IF c # Dot THEN [st EXCEPT !.value = ToInt(@ * 10 + c - Zero)]
  ELSE IF ~FitsByte(st.value) THEN [st EXCEPT !.bad = TRUE]
  ELSE [st EXCEPT !.bytes = Append(@, st.value % 256), !.value = 0]
AtonStates == [bytes : Seq(Int), value : Int, bad : BOOLEAN]
AtonEnd(s) == FoldLeft(LAMBDA st, c : AtonStep(st, c), AtonStart, s)

LEMMA AtonIs ==
  ASSUME NEW s
  PROVE  inet_aton(s) =
           IF \/ \E k \in DOMAIN s : ~Accepted(s[k])
              \/ AtonEnd(s).bad \/ ~FitsByte(AtonEnd(s).value) \/ Len(AtonEnd(s).bytes) > 3
           THEN [ok |-> 0, bytes |-> AtonEnd(s).bytes]
           ELSE [ok |-> 1, bytes |-> Append(AtonEnd(s).bytes, AtonEnd(s).value % 256)]
BY DEF inet_aton, AtonEnd, AtonStep, AtonStart

\* What a step makes of each part.
LEMMA AtonParts ==
  ASSUME IntBits \in 10 .. 32, NEW st \in AtonStates, NEW c \in Int
  PROVE  /\ AtonStep(st, c) \in AtonStates
         /\ st.bad \/ Len(st.bytes) = 4 => AtonStep(st, c) = st
         /\ ~st.bad /\ Len(st.bytes) # 4 /\ c # Dot =>
              /\ AtonStep(st, c).bytes = st.bytes
              /\ AtonStep(st, c).value = ToInt(st.value * 10 + c - Zero)
              /\ ~AtonStep(st, c).bad
         /\ ~st.bad /\ Len(st.bytes) # 4 /\ c = Dot /\ st.value > 255 => AtonStep(st, c).bad
         /\ ~st.bad /\ Len(st.bytes) # 4 /\ c = Dot /\ st.value <= 255 =>
              /\ AtonStep(st, c).bytes = Append(st.bytes, st.value % 256)
              /\ AtonStep(st, c).value = 0
              /\ ~AtonStep(st, c).bad
<1> DEFINE new == AtonStep(st, c)
<1>1. st.bytes \in Seq(Int) /\ st.value \in Int /\ (st.value > 255 <=> ~(st.value <= 255))
  BY DEF AtonStates
<1> SUFFICES
         /\ new \in AtonStates
         /\ st.bad \/ Len(st.bytes) = 4 => new = st
         /\ ~st.bad /\ Len(st.bytes) # 4 /\ c # Dot =>
              /\ new.bytes = st.bytes /\ new.value = ToInt(st.value * 10 + c - Zero) /\ ~new.bad
         /\ ~st.bad /\ Len(st.bytes) # 4 /\ c = Dot /\ st.value > 255 => new.bad
         /\ ~st.bad /\ Len(st.bytes) # 4 /\ c = Dot /\ st.value <= 255 =>
              /\ new.bytes = Append(st.bytes, st.value % 256) /\ new.value = 0 /\ ~new.bad
  OBVIOUS
<1>2. CASE st.bad \/ Len(st.bytes) = 4
  <2>1. new = st
    BY <1>2 DEF AtonStep
  <2> HIDE DEF new
  <2>2. QED BY <1>2, <2>1
<1>3. CASE ~st.bad /\ Len(st.bytes) # 4 /\ c # Dot
  <2> DEFINE v == ToInt(st.value * 10 + c - Zero)
  <2>1. v \in Int
    <3>1. st.value * 10 + c - Zero \in Int
      BY <1>1 DEF Zero
    <3>2. QED BY <3>1, ToIntIs
  <2>2. new = [st EXCEPT !.value = v]
    BY <1>3 DEF AtonStep
  <2> HIDE DEF v, new
  <2>3. new \in AtonStates /\ new.bytes = st.bytes /\ new.value = v /\ ~new.bad
    BY <1>3, <2>1, <2>2 DEF AtonStates
  <2>4. QED BY <1>3, <2>3 DEF v
<1>4. CASE ~st.bad /\ Len(st.bytes) # 4 /\ c = Dot /\ st.value > 255
  <2>1. new = [st EXCEPT !.bad = TRUE]
    BY <1>1, <1>4 DEF AtonStep, FitsByte
  <2> HIDE DEF new
  <2>2. new \in AtonStates /\ new.bad
    BY <2>1 DEF AtonStates
  <2>3. QED BY <1>1, <1>4, <2>2
<1>5. CASE ~st.bad /\ Len(st.bytes) # 4 /\ c = Dot /\ st.value <= 255
  <2>1. new = [st EXCEPT !.bytes = Append(@, st.value % 256), !.value = 0]
    BY <1>5 DEF AtonStep, FitsByte
  <2> HIDE DEF new
  <2>2. Append(st.bytes, st.value % 256) \in Seq(Int)
    BY <1>1
  <2> DEFINE bs == Append(st.bytes, st.value % 256)
  <2> HIDE DEF bs
  <2>3. new = [[st EXCEPT !.bytes = bs] EXCEPT !.value = 0]
    BY <2>1 DEF bs
  <2>4. /\ [st EXCEPT !.bytes = bs] \in AtonStates /\ [st EXCEPT !.bytes = bs].bytes = bs
        /\ [st EXCEPT !.bytes = bs].bad = st.bad
    BY <2>2 DEF AtonStates, bs
  <2>5. new \in AtonStates /\ new.bytes = bs /\ new.value = 0 /\ ~new.bad
    <3>1. ASSUME NEW r \in AtonStates
          PROVE  /\ [r EXCEPT !.value = 0] \in AtonStates /\ [r EXCEPT !.value = 0].bytes = r.bytes
                 /\ [r EXCEPT !.value = 0].value = 0 /\ [r EXCEPT !.value = 0].bad = r.bad
      BY SMTT(60) DEF AtonStates
    <3> DEFINE r == [st EXCEPT !.bytes = bs]
    <3> HIDE DEF r
    <3>2. r \in AtonStates /\ r.bytes = bs /\ r.bad = st.bad /\ new = [r EXCEPT !.value = 0]
      BY <2>3, <2>4 DEF r
    <3>3. QED BY ONLY <1>5, <3>1, <3>2
  <2>6. QED BY <1>1, <1>5, <2>5 DEF bs
<1>6. QED
  <2> HIDE DEF new
  <2>1. QED BY <1>1, <1>2, <1>3, <1>4, <1>5

LEMMA AtonType ==
  ASSUME IntBits \in 10 .. 32
  PROVE  /\ AtonStart \in AtonStates
         /\ \A st \in AtonStates, c \in Int : AtonStep(st, c) \in AtonStates
<1>1. AtonStart \in AtonStates
  BY DEF AtonStart, AtonStates
<1>2. QED BY <1>1, AtonParts

LEMMA AtonRuns ==
  ASSUME IntBits \in 10 .. 32, NEW s \in Seq(Int)
  PROVE  \E run \in [0 .. Len(s) -> AtonStates] :
           /\ run[0] = AtonStart /\ run[Len(s)] = AtonEnd(s)
           /\ \A k \in 1 .. Len(s) : run[k] = AtonStep(run[k - 1], s[k])
<1> DEFINE n == Len(s)
           St == AtonStates
           first == AtonStart
           step == [x \in St \X (1 .. n) |-> AtonStep(x[1], s[x[2]])]
           Eq(f) == f = [T \in SUBSET DOMAIN s |->
                      IF T = {} THEN first ELSE AtonStep(f[T \ {Max(T)}], s[Max(T)])]
           f == CHOOSE g : Eq(g)
<1>1. AtonEnd(s) = f[DOMAIN s]
  BY DEF AtonEnd, FoldLeft, MapThenFoldSet
<1>2. n \in Nat /\ DOMAIN s = 1 .. n
  OBVIOUS
<1>3. first \in St
  BY AtonType
<1>4. step \in [St \X (1 .. n) -> St]
  BY AtonType
<1>5. \A st \in St, k \in 1 .. n : step[<<st, k>>] = AtonStep(st, s[k])
  OBVIOUS
<1> HIDE DEF n, St, first, step, f
<1>6. PICK g \in [SUBSET (1 .. n) -> St] : FoldOf(n, first, step, g)
  BY <1>2, <1>3, <1>4, FoldExists
<1>7. Eq(g)
  <2>1. ASSUME NEW T \in SUBSET (1 .. n), T # {}
        PROVE  step[<<g[T \ {Max(T)}], Max(T)>>] = AtonStep(g[T \ {Max(T)}], s[Max(T)])
    <3>1. Max(T) \in 1 .. n
      BY <1>2, <2>1, MaxIs
    <3>2. g[T \ {Max(T)}] \in St
      OBVIOUS
    <3>3. QED BY <1>5, <3>1, <3>2
  <2>2. QED BY ONLY <1>2, <1>6, <2>1 DEF FoldOf
<1>8. Eq(f)
  BY <1>7 DEF f
<1>9. f[{}] = first
  BY <1>8
<1>10. ASSUME NEW k \in 1 .. n, f[1 .. (k - 1)] \in St
       PROVE  f[1 .. k] = step[<<f[1 .. (k - 1)], k>>]
  <2>1. 1 .. k \in SUBSET DOMAIN s /\ 1 .. k # {} /\ k \in Nat \ {0}
    BY <1>2, UpTo
  <2>2. f[1 .. k] = AtonStep(f[(1 .. k) \ {Max(1 .. k)}], s[Max(1 .. k)])
    BY <1>8, <2>1
  <2>3. Max(1 .. k) = k /\ (1 .. k) \ {Max(1 .. k)} = 1 .. (k - 1)
    BY <2>1, LessTheLast
  <2>4. f[1 .. k] = AtonStep(f[1 .. (k - 1)], s[k])
    BY ONLY <2>2, <2>3
  <2>5. QED BY ONLY <1>5, <1>10, <2>4
<1>11. PICK run \in [0 .. n -> St] : RunOf(n, first, step, f[1 .. n], run)
  BY <1>2, <1>3, <1>4, <1>9, <1>10, FoldRuns
<1>12. \A k \in 1 .. n : run[k] = AtonStep(run[k - 1], s[k])
  <2>1. \A k \in 1 .. n : run[k - 1] \in St
    BY <1>2
  <2>2. QED BY <1>5, <1>11, <2>1 DEF RunOf
<1>13. QED BY <1>1, <1>2, <1>11, <1>12 DEF n, St, first, RunOf

\* While fromString finds nothing wrong, inet_aton has the same.
Alike(given, st) ==
  ~given.bad => /\ ~st.bad /\ st.bytes = given.bytes /\ st.value = given.acc
                /\ given.acc <= 255 /\ Len(given.bytes) <= 3

LEMMA AlikeGoesOn ==
  ASSUME IntBits \in 10 .. 32,
         NEW given \in GivenStates, NEW st \in AtonStates, NEW c \in Int, Alike(given, st)
  PROVE  Alike(GivenStep(given, c), AtonStep(st, c))
<1> DEFINE g == GivenStep(given, c)
           new == AtonStep(st, c)
<1>1. /\ given.bytes \in Seq(Nat) /\ given.acc \in Nat /\ Len(given.bytes) \in Nat
      /\ (given.acc <= 255 => given.acc % 256 = given.acc)
  BY ModSmall DEF GivenStates
<1>2. /\ given.bad => g = given
      /\ ~given.bad /\ IsDigit(c) =>
           /\ g.bytes = given.bytes /\ g.acc = given.acc * 10 + c - Zero
           /\ g.bad <=> given.acc * 10 + c - Zero > 255
      /\ ~given.bad /\ c = Dot /\ Len(given.bytes) < 3 =>
           /\ g.bytes = Append(given.bytes, given.acc) /\ g.acc = 0 /\ ~g.bad
      /\ ~given.bad /\ ~IsDigit(c) /\ (c # Dot \/ Len(given.bytes) >= 3) => g.bad
      /\ g \in GivenStates
  BY GivenParts
<1>3. /\ ~st.bad /\ Len(st.bytes) # 4 /\ c # Dot =>
           /\ new.bytes = st.bytes /\ new.value = ToInt(st.value * 10 + c - Zero) /\ ~new.bad
      /\ ~st.bad /\ Len(st.bytes) # 4 /\ c = Dot /\ st.value <= 255 =>
           /\ new.bytes = Append(st.bytes, st.value % 256) /\ new.value = 0 /\ ~new.bad
  BY AtonParts, ZenonT(60)
<1>4. IsDigit(c) => c # Dot
  BY DEF IsDigit, Dot, Zero
<1> SUFFICES ASSUME ~g.bad
             PROVE  /\ ~new.bad /\ new.bytes = g.bytes /\ new.value = g.acc
                    /\ g.acc <= 255 /\ Len(g.bytes) <= 3
  BY DEF Alike
<1> HIDE DEF g, new
<1>5. ~given.bad
  BY <1>2
<1>6. /\ ~st.bad /\ st.bytes = given.bytes /\ st.value = given.acc
      /\ given.acc <= 255 /\ Len(given.bytes) <= 3 /\ Len(st.bytes) # 4
  <2>1. /\ ~st.bad /\ st.bytes = given.bytes /\ st.value = given.acc
        /\ given.acc <= 255 /\ Len(given.bytes) <= 3
    BY <1>5 DEF Alike
  <2>2. \A l \in Nat : l <= 3 => l # 4
    OBVIOUS
  <2>3. QED BY ONLY <1>1, <2>1, <2>2
<1>7. CASE IsDigit(c)
  <2>1. g.acc \in Nat /\ g.bytes = given.bytes /\ g.acc = given.acc * 10 + c - Zero
        /\ ~(given.acc * 10 + c - Zero > 255)
    BY <1>2, <1>5, <1>7 DEF GivenStates
  <2>2. g.acc <= 255
    BY <2>1
  <2>3. new.bytes = st.bytes /\ new.value = ToInt(st.value * 10 + c - Zero) /\ ~new.bad
    BY <1>3, <1>4, <1>6, <1>7
  <2>4. ToInt(g.acc) = g.acc
    BY <2>1, <2>2, ToIntSmall
  <2>5. st.value * 10 + c - Zero = g.acc
    BY <1>6, <2>1
  <2>6. QED BY <1>6, <2>1, <2>2, <2>3, <2>4, <2>5
<1>8. CASE c = Dot /\ Len(given.bytes) < 3
  <2>1. g.bytes = Append(given.bytes, given.acc) /\ g.acc = 0
    BY <1>2, <1>5, <1>8
  <2>2. Len(g.bytes) <= 3
    BY <1>1, <1>8, <2>1
  <2>3. new.bytes = Append(given.bytes, given.acc) /\ new.value = 0 /\ ~new.bad
    BY <1>1, <1>3, <1>6, <1>8
  <2>4. QED BY <2>1, <2>2, <2>3
<1>9. CASE ~IsDigit(c) /\ (c # Dot \/ Len(given.bytes) >= 3)
  BY <1>2, <1>5, <1>9
<1>10. QED BY <1>1, <1>4, <1>7, <1>8, <1>9

LEMMA AlikeEnds ==
  ASSUME IntBits \in 10 .. 32, NEW s \in Seq(Int)
  PROVE  AtonEnd(s) \in AtonStates /\ Alike(GivenEnd(s), AtonEnd(s))
<1>1. PICK given \in [0 .. Len(s) -> GivenStates] :
        /\ given[0] = GivenStart /\ given[Len(s)] = GivenEnd(s)
        /\ \A k \in 1 .. Len(s) : given[k] = GivenStep(given[k - 1], s[k])
  BY GivenRuns
<1>2. PICK run \in [0 .. Len(s) -> AtonStates] :
        /\ run[0] = AtonStart /\ run[Len(s)] = AtonEnd(s)
        /\ \A k \in 1 .. Len(s) : run[k] = AtonStep(run[k - 1], s[k])
  BY AtonRuns
<1> DEFINE n == Len(s)
           G == {k \in 0 .. n : Alike(given[k], run[k])}
<1>3. n \in Nat /\ n \in 0 .. n
  OBVIOUS
<1> HIDE DEF n
<1>4. Alike(GivenStart, AtonStart)
  BY DEF Alike, GivenStart, AtonStart
<1>5. 0 \in G
  BY <1>1, <1>2, <1>3, <1>4
<1>6. ASSUME NEW k \in 0 .. n - 1, k \in G PROVE k + 1 \in G
  <2>1. k + 1 \in 1 .. n /\ k + 1 \in 0 .. n /\ (k + 1) - 1 = k /\ k \in 0 .. n
    BY <1>3
  <2>2. given[k + 1] = GivenStep(given[k], s[k + 1]) /\ run[k + 1] = AtonStep(run[k], s[k + 1])
    BY ONLY <1>1, <1>2, <2>1 DEF n
  <2>3. given[k] \in GivenStates /\ run[k] \in AtonStates
    BY ONLY <1>1, <1>2, <2>1 DEF n
  <2>4. s[k + 1] \in Int
    BY <2>1 DEF n
  <2>5. Alike(given[k], run[k])
    BY <1>6
  <2>6. Alike(GivenStep(given[k], s[k + 1]), AtonStep(run[k], s[k + 1]))
    BY ONLY <2>3, <2>4, <2>5, IntBits \in 10 .. 32, AlikeGoesOn
  <2>7. QED BY <2>1, <2>2, <2>6
<1>7. n \in G
  <2>1. \A k \in 0 .. n - 1 : k \in G => k + 1 \in G
    BY <1>6
  <2> HIDE DEF G
  <2>2. \A k \in 0 .. n : k \in G
    BY <1>3, <1>5, <2>1, Positions
  <2>3. QED BY ONLY <1>3, <2>2
<1>8. QED BY <1>1, <1>2, <1>3, <1>7 DEF n

\* inet_aton gives the same as fromString for every address.
LEMMA AtonTakesAddresses ==
  ASSUME IntBits \in 10 .. 32, NEW s \in Seq(Int), IsAddress(s)
  PROVE  inet_aton(s) = fromString(s)
<1> DEFINE g == GivenEnd(s)
           st == AtonEnd(s)
<1>1. fromString(s).ok = 1
  BY FromStringTakes
<1>2. fromString(s) =
           IF g.bad \/ Len(g.bytes) # 3 THEN [ok |-> 0, bytes |-> g.bytes]
           ELSE [ok |-> 1, bytes |-> Append(g.bytes, g.acc)]
  BY FromStringIs
<1>3. g \in GivenStates /\ st \in AtonStates /\ Alike(g, st)
  BY GivenEnds, AlikeEnds
<1>4. inet_aton(s) =
           IF \/ \E k \in DOMAIN s : ~Accepted(s[k])
              \/ st.bad \/ ~FitsByte(st.value) \/ Len(st.bytes) > 3
           THEN [ok |-> 0, bytes |-> st.bytes]
           ELSE [ok |-> 1, bytes |-> Append(st.bytes, st.value % 256)]
  BY AtonIs
<1> HIDE DEF g, st
<1>5. ~g.bad /\ Len(g.bytes) = 3
  BY <1>1, <1>2
<1>6. /\ ~st.bad /\ st.bytes = g.bytes /\ st.value = g.acc /\ g.acc \in Nat /\ g.acc <= 255
  BY <1>3, <1>5 DEF Alike, GivenStates
<1>7. \A k \in DOMAIN s : Accepted(s[k])
  BY DEF Accepted, Zero, Dot
<1>8. g.acc % 256 = g.acc /\ FitsByte(g.acc)
  BY <1>6, ModSmall DEF FitsByte
<1>9. ~(Len(st.bytes) > 3)
  <2>1. Len(st.bytes) = 3
    BY <1>5, <1>6
  <2>2. QED BY ONLY <2>1
<1>10. inet_aton(s) = [ok |-> 1, bytes |-> Append(g.bytes, g.acc)]
  BY ONLY <1>4, <1>6, <1>7, <1>8, <1>9
<1>11. fromString(s) = [ok |-> 1, bytes |-> Append(g.bytes, g.acc)]
  BY ONLY <1>2, <1>5
<1>12. QED BY <1>10, <1>11

-----------------------------------------------------------------------------
(* inet_aton and names. *)

\* What inet_aton has read of the last field, unless it has given up.
Named(fs, st) ==
  LET f == fs[Len(fs)] IN
  /\ Len(fs) >= 1
  /\ \/ st.bad \/ Len(st.bytes) = 4
     \/ /\ Len(f) = 0 => st.value = 0
        /\ Len(f) = 1 => st.value = f[1] - Zero
        /\ Len(f) \in 2 .. ShortLabel /\ IsLetter(f[1]) /\ IsLetter(f[2]) =>
             256 <= st.value /\ st.value <= 23 * 10^Len(f) - 23

\* No int overflows on a number of as many digits as a short label has letters.
Short == ShortLabel \in 2 .. 7 /\ 23 * 10^ShortLabel <= 2^(IntBits - 1)

LEMMA TenTimes ==
  /\ 10^0 = 1 /\ 10^1 = 10 /\ 10^2 = 100 /\ 10^3 = 1000 /\ 10^4 = 10000 /\ 10^5 = 100000
  /\ 10^6 = 1000000 /\ 10^7 = 10000000
OBVIOUS

LEMMA NoOverflow ==
  ASSUME IntBits \in 10 .. 32, Short, NEW l \in 0 .. ShortLabel - 1,
         NEW v \in Int, NEW c \in 0 .. 255, 0 <= v, v <= 23 * 10^l - 23
  PROVE  /\ ToInt(v * 10 + c - 48) = v * 10 + c - 48
         /\ v * 10 + c - 48 <= 23 * 10^(l + 1) - 23
<1> DEFINE ten(k) == 10^k
           h == 2^(IntBits - 1)
           new == v * 10 + c - 48
<1>1. \A k \in 0 .. 7 : ten(k) \in Nat
  <2> DEFINE P(k) == 10^k \in Nat
  <2>1. P(0) /\ P(1) /\ P(2) /\ P(3) /\ P(4) /\ P(5) /\ P(6) /\ P(7)
    BY TenTimes
  <2> SUFFICES \A k \in 0 .. 7 : P(k)
    OBVIOUS
  <2> HIDE DEF P
  <2>2. QED BY <2>1
<1>2. \A k \in 0 .. 6 : ten(k + 1) = 10 * ten(k)
  <2> DEFINE P(k) == 10^(k + 1) = 10 * 10^k
  <2>1. P(0) /\ P(1) /\ P(2) /\ P(3) /\ P(4) /\ P(5) /\ P(6)
    OBVIOUS
  <2> SUFFICES \A k \in 0 .. 6 : P(k)
    OBVIOUS
  <2> HIDE DEF P
  <2>2. QED BY <2>1
<1>3. ShortLabel \in 2 .. 7 /\ 23 * ten(ShortLabel) <= h
  BY DEF Short
<1>4. h \in Nat \ {0}
  <2>1. IntBits \in 1 .. 32
    OBVIOUS
  <2>2. QED BY <2>1, WidthRange
<1>5. v <= 23 * ten(l) - 23 /\ l \in Nat /\ l <= 6
  BY <1>3
<1> HIDE DEF ten, h, new
<1>6. \A k \in 1 .. 7 : l + 1 <= k => ten(l + 1) <= ten(k)
  <2>1. ten(l + 1) \in Nat /\ l + 1 \in 1 .. 7
    BY <1>1, <1>5
  <2> DEFINE G(k) == l + 1 <= k => ten(l + 1) <= ten(k)
  <2>2. ASSUME NEW k \in 1 .. 6, G(k) PROVE G(k + 1)
    <3>1. ten(k + 1) = 10 * ten(k) /\ ten(k) \in Nat /\ ten(k + 1) \in Nat
      BY <1>1, <1>2
    <3>2. CASE l + 1 = k + 1
      BY <2>1, <3>2
    <3>3. CASE l + 1 <= k
      BY <2>1, <2>2, <3>1, <3>3
    <3>4. QED BY <2>1, <3>2, <3>3
  <2>3. G(1)
    <3>1. l + 1 <= 1 => l + 1 = 1
      BY <2>1
    <3>2. QED BY <2>1, <3>1
  <2> HIDE DEF G
  <2>4. G(2) /\ G(3) /\ G(4) /\ G(5) /\ G(6) /\ G(7)
    <3>1. G(2)
      BY <2>2, <2>3
    <3>2. G(3)
      BY <2>2, <3>1
    <3>3. G(4)
      BY <2>2, <3>2
    <3>4. G(5)
      BY <2>2, <3>3
    <3>5. G(6)
      BY <2>2, <3>4
    <3>6. G(7)
      BY <2>2, <3>5
    <3>7. QED BY <3>1, <3>2, <3>3, <3>4, <3>5, <3>6
  <2>5. \A k \in 1 .. 7 : G(k)
    BY <2>3, <2>4
  <2>6. QED BY <2>5 DEF G
<1>7. ten(l + 1) <= ten(ShortLabel) /\ ten(ShortLabel) \in Nat /\ ten(l + 1) \in Nat
  <2>1. ShortLabel \in 1 .. 7 /\ l + 1 <= ShortLabel /\ ShortLabel \in 0 .. 7 /\ l + 1 \in 0 .. 7
    BY <1>3, <1>5
  <2>2. QED BY <1>1, <1>6, <2>1
<1>8. ten(l + 1) = 10 * ten(l) /\ ten(l) \in Nat
  BY <1>1, <1>2, <1>5
<1>9. new \in Int /\ -48 <= new /\ new <= 23 * ten(l + 1) - 23
  BY <1>5, <1>8 DEF new
<1>10. new < h /\ -h <= new
  <2>1. new < h
    BY <1>3, <1>4, <1>7, <1>9
  <2>2. h >= 512
    <3>1. ten(l + 1) >= 1 => 23 * ten(ShortLabel) >= 23
      BY <1>7
    <3>2. ten(ShortLabel) >= 100
      <4> DEFINE P(k) == k \in 2 .. 7 => 10^k >= 100
      <4>1. P(2) /\ P(3) /\ P(4) /\ P(5) /\ P(6) /\ P(7)
        OBVIOUS
      <4> HIDE DEF P
      <4>2. P(ShortLabel)
        BY <1>3, <4>1
      <4>3. QED BY <1>3, <4>2 DEF P, ten
    <3>3. QED BY <1>3, <1>4, <1>7, <3>2
  <2>3. QED BY <1>4, <1>9, <2>1, <2>2
<1>11. ToInt(new) = new
  BY ONLY <1>9, <1>10, IntBits \in 10 .. 32, ToIntIs DEF h
<1>12. QED BY <1>9, <1>11 DEF new, ten

LEMMA NamedGoesOn ==
  ASSUME IntBits \in 10 .. 32, Short,
         NEW fs \in Seq(Seq(Int)), NEW st \in AtonStates, NEW c \in 0 .. 255, Named(fs, st)
  PROVE  Named(FieldsStep(fs, c), AtonStep(st, c))
<1> DEFINE gs == FieldsStep(fs, c)
           new == AtonStep(st, c)
           n == Len(fs)
           f == fs[Len(fs)]
           g == gs[Len(gs)]
<1>1. /\ n \in Nat /\ n >= 1 /\ f \in Seq(Int) /\ st.value \in Int /\ c \in Int
  <2>1. Len(fs) \in Nat /\ Len(fs) >= 1
    BY DEF Named
  <2>2. Len(fs) \in 1 .. Len(fs)
    BY <2>1
  <2>3. QED BY <2>1, <2>2 DEF AtonStates
<1>2. /\ c = Dot => Len(gs) = n + 1 /\ g = <<>>
      /\ c # Dot => Len(gs) = n /\ g = Append(f, c)
  <2>1. n > 0
    BY <1>1
  <2>2. QED BY <1>1, <2>1, FieldsParts
<1>3. /\ st.bad \/ Len(st.bytes) = 4 => new = st
      /\ ~st.bad /\ Len(st.bytes) # 4 /\ c # Dot =>
           /\ new.bytes = st.bytes /\ new.value = ToInt(st.value * 10 + c - Zero) /\ ~new.bad
      /\ ~st.bad /\ Len(st.bytes) # 4 /\ c = Dot /\ st.value > 255 => new.bad
      /\ ~st.bad /\ Len(st.bytes) # 4 /\ c = Dot /\ st.value <= 255 => new.value = 0
  BY <1>1, AtonParts, ZenonT(60)
<1>4. \/ st.bad \/ Len(st.bytes) = 4
      \/ /\ Len(f) = 0 => st.value = 0
         /\ Len(f) = 1 => st.value = f[1] - Zero
         /\ Len(f) \in 2 .. ShortLabel /\ IsLetter(f[1]) /\ IsLetter(f[2]) =>
              256 <= st.value /\ st.value <= 23 * 10^Len(f) - 23
  BY DEF Named
<1> SUFFICES /\ Len(gs) >= 1
             /\ \/ new.bad \/ Len(new.bytes) = 4
                \/ /\ Len(g) = 0 => new.value = 0
                   /\ Len(g) = 1 => new.value = g[1] - Zero
                   /\ Len(g) \in 2 .. ShortLabel /\ IsLetter(g[1]) /\ IsLetter(g[2]) =>
                         256 <= new.value /\ new.value <= 23 * 10^Len(g) - 23
  BY DEF Named
<1> HIDE DEF gs, new, n, f, g
<1>5. Len(gs) >= 1
  BY <1>1, <1>2
<1>6. CASE st.bad \/ Len(st.bytes) = 4
  BY <1>3, <1>5, <1>6
<1>7. CASE ~st.bad /\ Len(st.bytes) # 4 /\ c = Dot
  <2>1. Len(g) = 0
    BY <1>2, <1>7
  <2>2. CASE st.value > 255
    BY <1>3, <1>5, <1>7, <2>2
  <2>3. CASE st.value <= 255
    BY <1>3, <1>5, <1>7, <2>1, <2>3
  <2>4. QED BY <1>1, <2>2, <2>3
<1>8. CASE ~st.bad /\ Len(st.bytes) # 4 /\ c # Dot
  <2>1. new.value = ToInt(st.value * 10 + c - 48)
    BY <1>3, <1>8 DEF Zero
  <2>2. /\ Len(g) = Len(f) + 1 /\ g[Len(f) + 1] = c /\ Len(f) \in Nat
        /\ \A i \in 1 .. Len(f) : g[i] = f[i]
    <3>1. g = Append(f, c)
      BY <1>2, <1>8
    <3>2. QED BY ONLY <1>1, <3>1
  <2>3. /\ Len(f) = 0 => st.value = 0
        /\ Len(f) = 1 => st.value = f[1] - Zero
        /\ Len(f) \in 2 .. ShortLabel /\ IsLetter(f[1]) /\ IsLetter(f[2]) =>
              256 <= st.value /\ st.value <= 23 * 10^Len(f) - 23
    BY <1>4, <1>8
  <2>4. CASE Len(f) = 0
    <3>1. Len(g) = 1 /\ g[1] = c /\ st.value = 0
      BY <2>2, <2>3, <2>4
    <3>2. /\ st.value * 10 + c - 48 = c - 48
          /\ c - 48 \in Int /\ -512 <= c - 48 /\ c - 48 <= 511
      BY <3>1
    <3>3. new.value = c - Zero
      <4> DEFINE d == c - 48
      <4>1. d \in Int /\ -512 <= d /\ d <= 511
        BY <3>2
      <4> HIDE DEF d
      <4>2. ToInt(d) = d
        BY <4>1, ToIntSmall
      <4>3. QED BY ONLY <2>1, <3>2, <4>2 DEF Zero, d
    <3>4. Len(g) # 0 /\ Len(g) \notin 2 .. ShortLabel
      BY <3>1
    <3>5. QED BY ONLY <1>5, <3>1, <3>3, <3>4
  <2>5. CASE Len(f) = 1
    <3>1. Len(g) = 2 /\ g[2] = c /\ g[1] = f[1] /\ st.value = f[1] - 48
      BY <2>2, <2>3, <2>5 DEF Zero
    <3>2. ASSUME IsLetter(g[1]), IsLetter(g[2])
          PROVE  256 <= new.value /\ new.value <= 23 * 10^2 - 23
      <4>1. g[1] \in 97 .. 122 /\ c \in 97 .. 122
        BY <3>1, <3>2 DEF IsLetter
      <4>2. st.value \in 49 .. 74
        BY <3>1, <4>1
      <4>3. 1 \in 0 .. ShortLabel - 1 /\ 23 * 10^1 - 23 = 207 /\ 23 * 10^(1 + 1) - 23 = 23 * 10^2 - 23
        BY TenTimes DEF Short
      <4>4. 0 <= st.value /\ st.value <= 23 * 10^1 - 23 /\ st.value \in Int
        <5> DEFINE b == 23 * 10^1 - 23
        <5>1. b = 207
          BY <4>3
        <5> HIDE DEF b
        <5>2. 0 <= st.value /\ st.value <= b /\ st.value \in Int
          <6> DEFINE v == st.value
          <6>1. v \in 49 .. 74
            BY <4>2
          <6> HIDE DEF v
          <6>2. 0 <= v /\ v <= b /\ v \in Int
            BY ONLY <5>1, <6>1
          <6>3. QED BY ONLY <6>2 DEF v
        <5>3. QED BY ONLY <5>2 DEF b
      <4> DEFINE l == 1
      <4> HIDE DEF l
      <4>5. l \in 0 .. ShortLabel - 1 /\ st.value <= 23 * 10^l - 23
        BY <4>3, <4>4 DEF l
      <4>6. /\ ToInt(st.value * 10 + c - 48) = st.value * 10 + c - 48
            /\ st.value * 10 + c - 48 <= 23 * 10^(l + 1) - 23
        BY ONLY <4>4, <4>5, IntBits \in 10 .. 32, Short, c \in 0 .. 255, NoOverflow
      <4>7. new.value <= 23 * 10^2 - 23
        BY ONLY <2>1, <4>3, <4>6 DEF l
      <4>8. 256 <= new.value
        <5>1. \A v \in 49 .. 74, d \in 97 .. 122 : 256 <= v * 10 + d - 48
          OBVIOUS
        <5>2. 256 <= st.value * 10 + c - 48
          BY ONLY <4>1, <4>2, <5>1
        <5>3. QED BY ONLY <2>1, <4>6, <5>2
      <4>9. QED BY <4>7, <4>8
    <3>3. Len(g) # 0 /\ Len(g) # 1
      BY <3>1
    <3>4. QED BY ONLY <1>5, <3>1, <3>2, <3>3
  <2>6. CASE Len(f) >= 2
    <3>1. Len(g) # 0 /\ Len(g) # 1 /\ g[1] = f[1] /\ g[2] = f[2] /\ Len(g) = Len(f) + 1
      <4>1. 1 \in 1 .. Len(f) /\ 2 \in 1 .. Len(f)
        BY <2>2, <2>6
      <4>2. Len(f) + 1 # 0 /\ Len(f) + 1 # 1
        BY <2>2, <2>6
      <4>3. QED BY ONLY <2>2, <4>1, <4>2
    <3>2. ASSUME Len(g) \in 2 .. ShortLabel, IsLetter(g[1]), IsLetter(g[2])
          PROVE  256 <= new.value /\ new.value <= 23 * 10^Len(g) - 23
      <4> DEFINE l == Len(f)
      <4>1. l \in 0 .. ShortLabel - 1 /\ l \in 2 .. ShortLabel /\ Len(g) = l + 1
        BY <2>2, <2>6, <3>1, <3>2 DEF Short
      <4>2. 256 <= st.value /\ st.value <= 23 * 10^l - 23
        BY ONLY <2>3, <3>1, <3>2, <4>1
      <4> HIDE DEF l
      <4>3. 0 <= st.value
        BY <1>1, <4>2
      <4>4. /\ ToInt(st.value * 10 + c - 48) = st.value * 10 + c - 48
            /\ st.value * 10 + c - 48 <= 23 * 10^(l + 1) - 23
        BY ONLY <1>1, <4>1, <4>2, <4>3, IntBits \in 10 .. 32, Short, c \in 0 .. 255, NoOverflow
      <4>5. 256 <= st.value * 10 + c - 48
        BY <1>1, <4>2
      <4>6. QED BY ONLY <2>1, <4>1, <4>4, <4>5
    <3>3. QED BY ONLY <1>5, <3>1, <3>2
  <2>7. Len(f) = 0 \/ Len(f) = 1 \/ Len(f) >= 2
    <3>1. Len(f) \in Nat
      BY ONLY <2>2
    <3>2. \A l \in Nat : l = 0 \/ l = 1 \/ l >= 2
      OBVIOUS
    <3>3. QED BY ONLY <3>1, <3>2
  <2>8. QED BY ONLY <2>4, <2>5, <2>6, <2>7
<1>9. QED BY <1>6, <1>7, <1>8

LEMMA NamedEnds ==
  ASSUME IntBits \in 10 .. 32, Short, NEW s \in Seq(0 .. 255)
  PROVE  AtonEnd(s) \in AtonStates /\ Named(Fields(s), AtonEnd(s))
<1>1. s \in Seq(Int)
  <2>1. 0 .. 255 \subseteq Int
    OBVIOUS
  <2>2. QED BY <2>1, SeqMonotonic
<1>2. PICK fields \in [0 .. Len(s) -> FieldsStates] :
        /\ fields[0] = FieldsStart /\ fields[Len(s)] = Fields(s)
        /\ \A k \in 1 .. Len(s) : fields[k] = FieldsStep(fields[k - 1], s[k])
  BY <1>1, FieldsRuns
<1>3. PICK run \in [0 .. Len(s) -> AtonStates] :
        /\ run[0] = AtonStart /\ run[Len(s)] = AtonEnd(s)
        /\ \A k \in 1 .. Len(s) : run[k] = AtonStep(run[k - 1], s[k])
  BY <1>1, AtonRuns
<1> DEFINE n == Len(s)
           G == {k \in 0 .. n : Named(fields[k], run[k])}
<1>4. n \in Nat /\ n \in 0 .. n
  OBVIOUS
<1> HIDE DEF n
<1>5. Named(FieldsStart, AtonStart)
  <2>1. Len(FieldsStart) = 1 /\ FieldsStart[1] = <<>>
    BY DEF FieldsStart
  <2>2. AtonStart.value = 0
    BY DEF AtonStart
  <2>3. Len(<<>>) = 0
    OBVIOUS
  <2>4. QED BY <2>1, <2>2, <2>3 DEF Named
<1>6. 0 \in G
  BY <1>2, <1>3, <1>4, <1>5
<1>7. ASSUME NEW k \in 0 .. n - 1, k \in G PROVE k + 1 \in G
  <2>1. k + 1 \in 1 .. n /\ k + 1 \in 0 .. n /\ (k + 1) - 1 = k /\ k \in 0 .. n
    BY <1>4
  <2>2. fields[k + 1] = FieldsStep(fields[k], s[k + 1]) /\ run[k + 1] = AtonStep(run[k], s[k + 1])
    BY ONLY <1>2, <1>3, <2>1 DEF n
  <2>3. fields[k] \in Seq(Seq(Int)) /\ run[k] \in AtonStates
    BY ONLY <1>2, <1>3, <2>1 DEF n, FieldsStates
  <2>4. s[k + 1] \in 0 .. 255
    <3>1. s \in [1 .. Len(s) -> 0 .. 255]
      BY LenProperties
    <3>2. QED BY ONLY <2>1, <3>1 DEF n
  <2>5. Named(fields[k], run[k])
    BY <1>7
  <2>6. Named(FieldsStep(fields[k], s[k + 1]), AtonStep(run[k], s[k + 1]))
    BY ONLY <2>3, <2>4, <2>5, IntBits \in 10 .. 32, Short, NamedGoesOn
  <2>7. QED BY <2>1, <2>2, <2>6
<1>8. n \in G
  <2>1. \A k \in 0 .. n - 1 : k \in G => k + 1 \in G
    BY <1>7
  <2> HIDE DEF G
  <2>2. \A k \in 0 .. n : k \in G
    BY <1>4, <1>6, <2>1, Positions
  <2>3. QED BY ONLY <1>4, <2>2
<1>9. QED BY <1>2, <1>3, <1>4, <1>8 DEF n

\* inet_aton takes no text whose last label is short and begins with two letters.
LEMMA AtonTakesNoName ==
  ASSUME IntBits \in 10 .. 32, Short,
         NEW s \in Seq(0 .. 255), Len(Last(Fields(s))) \in 2 .. ShortLabel,
         IsLetter(Last(Fields(s))[1]), IsLetter(Last(Fields(s))[2])
  PROVE  inet_aton(s).ok = 0
<1> DEFINE st == AtonEnd(s)
<1>1. st \in AtonStates /\ (st.bad \/ Len(st.bytes) = 4 \/ 256 <= st.value)
  <2>1. AtonEnd(s) \in AtonStates /\ Named(Fields(s), AtonEnd(s))
    BY NamedEnds
  <2>2. Last(Fields(s)) = Fields(s)[Len(Fields(s))]
    BY DEF Last
  <2>3. QED BY <2>1, <2>2 DEF Named
<1>2. inet_aton(s) =
           IF \/ \E k \in DOMAIN s : ~Accepted(s[k])
              \/ st.bad \/ ~FitsByte(st.value) \/ Len(st.bytes) > 3
           THEN [ok |-> 0, bytes |-> st.bytes]
           ELSE [ok |-> 1, bytes |-> Append(st.bytes, st.value % 256)]
  BY AtonIs
<1> HIDE DEF st
<1>3. st.bad \/ ~FitsByte(st.value) \/ Len(st.bytes) > 3
  <2>1. Len(st.bytes) = 4 => Len(st.bytes) > 3
    OBVIOUS
  <2>2. st.value \in Int /\ 256 <= st.value => ~FitsByte(st.value)
    BY DEF FitsByte
  <2>3. st.value \in Int
    BY <1>1 DEF AtonStates
  <2>4. QED BY ONLY <1>1, <2>1, <2>2, <2>3
<1>4. QED BY <1>2, <1>3

-----------------------------------------------------------------------------
(* printNumber: the digits of a number. *)

\* A sequence of values, each of which a step makes of the one before.
StepsOf(n, first, step, run) ==
  run[0] = first /\ \A k \in 1 .. n : run[k] = step[<<run[k - 1], k>>]

LEMMA StepsExist ==
  ASSUME NEW n \in Nat, NEW St, NEW first \in St, NEW step \in [St \X (1 .. n) -> St]
  PROVE  \E run \in [0 .. n -> St] : StepsOf(n, first, step, run)
<1>1. PICK f \in [SUBSET (1 .. n) -> St] : FoldOf(n, first, step, f)
  BY FoldExists
<1>2. f = [T \in SUBSET (1 .. n) |-> IF T = {} THEN first ELSE step[<<f[T \ {Max(T)}], Max(T)>>]]
  BY <1>1 DEF FoldOf
<1>3. f[{}] = first
  <2>1. {} \in SUBSET (1 .. n)
    OBVIOUS
  <2>2. QED BY ONLY <1>2, <2>1
<1>4. ASSUME NEW k \in 1 .. n
      PROVE  f[1 .. k] = step[<<f[1 .. (k - 1)], k>>]
  <2>1. 1 .. k \in SUBSET (1 .. n) /\ 1 .. k # {} /\ k \in Nat \ {0}
    OBVIOUS
  <2>2. f[1 .. k] = step[<<f[(1 .. k) \ {Max(1 .. k)}], Max(1 .. k)>>]
    BY ONLY <1>2, <2>1
  <2>3. Max(1 .. k) = k /\ (1 .. k) \ {Max(1 .. k)} = 1 .. (k - 1)
    BY <2>1, LessTheLast
  <2>4. QED BY ONLY <2>2, <2>3
<1>5. PICK run \in [0 .. n -> St] : RunOf(n, first, step, f[1 .. n], run)
  BY <1>3, <1>4, FoldRuns
<1>6. QED BY <1>5 DEF RunOf, StepsOf

\* What the loop of printNumber has left of n.
Left(n, b) ==
  LET left[k \in 0 .. LongBits] == IF k = 0 THEN n ELSE left[k - 1] \div b IN left

LEMMA LeftIs ==
  ASSUME NEW n \in Nat, NEW b \in Nat \ {0}, LongBits \in Nat
  PROVE  /\ Left(n, b) \in [0 .. LongBits -> Nat] /\ Left(n, b)[0] = n
         /\ \A k \in 1 .. LongBits : Left(n, b)[k] = Left(n, b)[k - 1] \div b
<1> DEFINE Eq(f) == f = [k \in 0 .. LongBits |-> IF k = 0 THEN n ELSE f[k - 1] \div b]
           step == [x \in Nat \X (1 .. LongBits) |-> x[1] \div b]
           f == CHOOSE g : Eq(g)
<1>1. Left(n, b) = f
  BY DEF Left
<1>2. \A m \in Nat : m \div b \in Nat
  OBVIOUS
<1>3. step \in [Nat \X (1 .. LongBits) -> Nat]
  BY <1>2
<1>4. \A m \in Nat, k \in 1 .. LongBits : step[<<m, k>>] = m \div b
  OBVIOUS
<1> HIDE DEF step, f
<1>5. PICK run \in [0 .. LongBits -> Nat] : StepsOf(LongBits, n, step, run)
  BY <1>3, StepsExist
<1>6. ASSUME NEW k \in 1 .. LongBits PROVE run[k] = run[k - 1] \div b
  <2>1. k - 1 \in 0 .. LongBits
    OBVIOUS
  <2>2. run[k - 1] \in Nat
    BY <2>1
  <2>3. QED BY ONLY <1>4, <1>5, <2>2, k \in 1 .. LongBits DEF StepsOf
<1>7. Eq(run)
  <2>1. ASSUME NEW k \in 0 .. LongBits
        PROVE  run[k] = IF k = 0 THEN n ELSE run[k - 1] \div b
    <3>1. CASE k = 0
      BY <1>5, <3>1 DEF StepsOf
    <3>2. CASE k # 0
      <4>1. k \in 1 .. LongBits
        BY <3>2
      <4>2. QED BY ONLY <1>6, <3>2, <4>1
    <3>3. QED BY <3>1, <3>2
  <2>2. run = [k \in 0 .. LongBits |-> run[k]]
    OBVIOUS
  <2>3. QED BY ONLY <2>1, <2>2
<1>8. Eq(f)
  BY <1>7 DEF f
<1>9. f[0] = n /\ \A k \in 1 .. LongBits : f[k] = f[k - 1] \div b
  <2>1. 0 \in 0 .. LongBits /\ \A k \in 1 .. LongBits : k \in 0 .. LongBits /\ k # 0
    OBVIOUS
  <2>2. QED BY ONLY <1>8, <2>1
<1>10. \A k \in 0 .. LongBits : f[k] \in Nat
  <2> DEFINE G == {k \in 0 .. LongBits : f[k] \in Nat}
  <2>1. 0 \in G
    BY <1>9
  <2>2. ASSUME NEW k \in 0 .. LongBits - 1, k \in G PROVE k + 1 \in G
    <3>1. k + 1 \in 1 .. LongBits /\ (k + 1) - 1 = k /\ k + 1 \in 0 .. LongBits
      OBVIOUS
    <3>2. f[k] \in Nat
      BY <2>2
    <3>3. f[k + 1] = f[k] \div b
      BY ONLY <1>9, <3>1
    <3>4. QED BY ONLY <1>2, <3>1, <3>2, <3>3
  <2>3. \A k \in 0 .. LongBits - 1 : k \in G => k + 1 \in G
    BY <2>2
  <2> HIDE DEF G
  <2>4. \A k \in 0 .. LongBits : k \in G
    BY <2>1, <2>3, Positions
  <2>5. QED BY <2>4 DEF G
<1>11. f \in [0 .. LongBits -> Nat]
  BY ONLY <1>8, <1>10
<1>12. QED BY <1>1, <1>9, <1>11

LEMMA DigitsValue ==
  ASSUME NEW d \in 0 .. 15
  PROVE  DigitChar(d) \in Nat /\ DigitValue(DigitChar(d)) = d /\ (d < 10 => IsDigit(DigitChar(d)))
BY DEF DigitChar, DigitValue, IsDigit, Zero

\* What printNumber writes, when all of the number fits.
LEMMA PrintNumberIs ==
  ASSUME NEW n \in Nat, NEW b \in 2 .. 16, LongBits \in Nat,
         NEW m \in 1 .. LongBits, Left(n, b)[m] = 0
  PROVE  LET t == printNumber(n, b) IN
         /\ t \in Seq(Nat) /\ Len(t) \in 1 .. m /\ Denotes(t, b) = n
         /\ b = 10 => \A k \in 1 .. Len(t) : IsDigit(t[k])
<1> DEFINE left == Left(n, b)
           Ends == {k \in 1 .. LongBits : left[k] = 0}
           len == Min(Ends)
           t == [k \in 1 .. len |-> DigitChar(left[len - k] % b)]
<1>1. printNumber(n, b) = t
  <2> DEFINE c == IF b < 2 THEN 10 ELSE b
  <2>1. printNumber(n, b) =
          LET l == Left(n, c)
              e == Min({k \in 1 .. LongBits : l[k] = 0})
          IN  [k \in 1 .. e |-> DigitChar(l[e - k] % c)]
    BY DEF printNumber, Left
  <2>2. c = b
    OBVIOUS
  <2> HIDE DEF c
  <2>3. QED BY <2>1, <2>2
<1>2. /\ left \in [0 .. LongBits -> Nat] /\ left[0] = n
      /\ \A k \in 1 .. LongBits : left[k] = left[k - 1] \div b
  <2>1. b \in Nat \ {0}
    OBVIOUS
  <2>2. QED BY <2>1, LeftIs, ZenonT(60)
<1>3. m \in Ends /\ Ends \in SUBSET Nat
  OBVIOUS
<1> HIDE DEF left
<1>4. len \in Ends /\ len <= m
  <2> HIDE DEF Ends
  <2>1. QED BY <1>3, MinOf
<1>5. len \in 1 .. LongBits /\ left[len] = 0
  BY <1>4
<1> HIDE DEF len
<1>6. ASSUME NEW k \in 1 .. len
      PROVE  /\ left[len - k] \in Nat /\ left[len - k] % b \in 0 .. b - 1
             /\ left[len - k] = left[len - k + 1] * b + (left[len - k] % b)
  <2> DEFINE j == len - k
  <2>1. j \in 0 .. LongBits /\ j + 1 \in 1 .. LongBits /\ (j + 1) - 1 = j
    BY <1>5
  <2> HIDE DEF j
  <2> DEFINE x == left[j]
  <2>2. x \in Nat /\ left[j + 1] = x \div b
    BY ONLY <1>2, <2>1
  <2> HIDE DEF x
  <2>3. b \in Nat \ {0} /\ x \in Int
    BY <2>2
  <2>4. x \div b \in Int /\ x % b \in 0 .. b - 1 /\ x = b * (x \div b) + (x % b)
    BY ONLY <2>3, DivMod
  <2>5. x = (x \div b) * b + (x % b)
    BY ONLY <2>3, <2>4
  <2>6. QED BY <2>2, <2>4, <2>5 DEF x, j
<1>7. ASSUME NEW k \in 1 .. len
      PROVE  /\ t[k] \in Nat /\ DigitValue(t[k]) = left[len - k] % b
             /\ b = 10 => IsDigit(t[k])
  <2>1. left[len - k] % b \in 0 .. b - 1
    BY <1>6
  <2> DEFINE d == left[len - k] % b
  <2> HIDE DEF d
  <2>2. d \in 0 .. 15 /\ (b = 10 => d < 10)
    BY <2>1 DEF d
  <2>3. t[k] = DigitChar(d)
    BY DEF d
  <2> HIDE DEF t
  <2>4. QED BY <2>2, <2>3, DigitsValue DEF d
<1>8. t \in Seq(Nat) /\ Len(t) = len
  <2>1. t \in [1 .. len -> Nat]
    <3>1. \A k \in 1 .. len : DigitChar(left[len - k] % b) \in Nat
      BY <1>7
    <3>2. QED BY <3>1
  <2>2. len \in Nat
    BY <1>5
  <2> HIDE DEF t
  <2>3. QED BY <2>1, <2>2
<1> HIDE DEF t
<1>9. Denotes(t, b) = n
  <2>1. t \in Seq(Int) /\ b \in Int
    BY <1>8
  <2>2. PICK r \in [0 .. Len(t) -> DenotesStates(b)] :
          /\ r[0] = DenotesStart(b) /\ r[Len(t)] = Denotes(t, b)
          /\ \A k \in 1 .. Len(t) : r[k] = DenotesStep(b, r[k - 1], t[k])
    BY <2>1, DenotesRuns
  <2> DEFINE G == {k \in 0 .. len : r[k] = left[len - k]}
  <2>3. 0 \in G
    <3>1. 0 \in 0 .. len /\ len - 0 = len
      BY <1>5
    <3>2. QED BY <1>5, <2>2, <3>1 DEF DenotesStart
  <2>4. ASSUME NEW k \in 0 .. len - 1, k \in G PROVE k + 1 \in G
    <3>1. k + 1 \in 1 .. len /\ (k + 1) - 1 = k /\ k + 1 \in 0 .. len
          /\ (len - (k + 1)) + 1 = len - k
      BY <1>5
    <3>2. r[k] = left[len - k]
      BY <2>4
    <3>3. r[k + 1] = r[k] * b + DigitValue(t[k + 1])
      BY ONLY <1>8, <2>2, <3>1 DEF DenotesStep
    <3>4. /\ DigitValue(t[k + 1]) = left[len - (k + 1)] % b
          /\ left[len - (k + 1)] = left[(len - (k + 1)) + 1] * b + (left[len - (k + 1)] % b)
      BY ONLY <1>6, <1>7, <3>1
    <3>5. r[k + 1] = left[len - (k + 1)]
      BY ONLY <3>1, <3>2, <3>3, <3>4
    <3>6. QED BY <3>1, <3>5
  <2>5. len \in G
    <3>1. \A k \in 0 .. len - 1 : k \in G => k + 1 \in G
      BY <2>4
    <3> HIDE DEF G
    <3>2. len \in Nat /\ len \in 0 .. len
      BY <1>5
    <3>3. \A k \in 0 .. len : k \in G
      BY <2>3, <3>1, <3>2, Positions
    <3>4. QED BY ONLY <3>2, <3>3
  <2>6. r[len] = left[len - len] /\ len - len = 0
    BY <1>5, <2>5
  <2>7. QED BY ONLY <1>2, <1>8, <2>2, <2>6
<1>10. len \in 1 .. m
  BY <1>4, <1>5
<1>11. QED BY <1>1, <1>7, <1>8, <1>9, <1>10

-----------------------------------------------------------------------------
(* The fields of a printed address. *)

LEMMA FieldsAppend ==
  ASSUME NEW s \in Seq(Int), NEW c \in Int
  PROVE  Fields(Append(s, c)) = FieldsStep(Fields(s), c)
<1> DEFINE t == Append(s, c)
           n == Len(s)
<1>1. /\ t \in Seq(Int) /\ Len(t) = n + 1 /\ n \in Nat /\ t[n + 1] = c
      /\ \A k \in 1 .. n : t[k] = s[k]
  OBVIOUS
<1>2. PICK r \in [0 .. n -> FieldsStates] :
        /\ r[0] = FieldsStart /\ r[n] = Fields(s)
        /\ \A k \in 1 .. n : r[k] = FieldsStep(r[k - 1], s[k])
  BY FieldsRuns
<1> HIDE DEF t, n
<1>3. PICK q \in [0 .. Len(t) -> FieldsStates] :
        /\ q[0] = FieldsStart /\ q[Len(t)] = Fields(t)
        /\ \A k \in 1 .. Len(t) : q[k] = FieldsStep(q[k - 1], t[k])
  BY <1>1, FieldsRuns
<1>4. r[n] = q[n]
  <2>1. \A k \in 1 .. n : k \in 1 .. Len(t)
    BY <1>1
  <2>2. \A k \in 1 .. n : r[k - 1] = q[k - 1] => r[k] = q[k]
    BY ONLY <1>1, <1>2, <1>3, <2>1
  <2>3. r[0] = q[0] /\ n \in Nat
    BY <1>1, <1>2, <1>3
  <2>4. QED BY ONLY <2>2, <2>3, SameRuns
<1>5. q[n + 1] = FieldsStep(q[n], c)
  <2>1. n + 1 \in 1 .. Len(t) /\ (n + 1) - 1 = n
    BY <1>1
  <2>2. QED BY ONLY <1>1, <1>3, <2>1
<1>6. Fields(t) = FieldsStep(Fields(s), c)
  BY <1>1, <1>2, <1>3, <1>4, <1>5
<1>7. QED BY <1>6 DEF t

LEMMA FieldsEmpty == Fields(<<>>) = << <<>> >>
<1>1. <<>> \in Seq(Int) /\ Len(<<>>) = 0
  OBVIOUS
<1>2. PICK run : run[0] = FieldsStart /\ run[Len(<<>>)] = Fields(<<>>)
  BY <1>1, FieldsRuns
<1>3. QED BY <1>1, <1>2 DEF FieldsStart

NoDot(l) == \A i \in DOMAIN l : l[i] # Dot

\* gs is fs with l behind its last field.
Extended(fs, l, gs) ==
  /\ Len(gs) = Len(fs) /\ gs[Len(fs)] = fs[Len(fs)] \o l
  /\ \A i \in 1 .. Len(fs) - 1 : gs[i] = fs[i]

LEMMA ConcatAppend ==
  ASSUME NEW x \in Seq(Int), NEW y \in Seq(Int), NEW c \in Int
  PROVE  Append(x \o y, c) = x \o Append(y, c)
<1> DEFINE p == Append(x \o y, c)
           q == x \o Append(y, c)
<1>1. /\ p \in Seq(Int) /\ q \in Seq(Int) /\ Len(p) = Len(x) + Len(y) + 1
      /\ Len(q) = Len(x) + Len(y) + 1 /\ Len(x) \in Nat /\ Len(y) \in Nat
  OBVIOUS
<1>2. ASSUME NEW i \in 1 .. Len(x) + Len(y) + 1 PROVE p[i] = q[i]
  OBVIOUS
<1> HIDE DEF p, q
<1>3. p = q
  BY <1>1, <1>2, SeqEqual
<1>4. QED BY <1>3 DEF p, q

LEMMA ExtendedMore ==
  ASSUME NEW fs \in Seq(Seq(Int)), Len(fs) >= 1, NEW l \in Seq(Int), NEW gs \in Seq(Seq(Int)),
         Extended(fs, l, gs), NEW c \in Int, c # Dot
  PROVE  Extended(fs, Append(l, c), FieldsStep(gs, c))
<1> DEFINE n == Len(fs)
           hs == FieldsStep(gs, c)
<1>1. n \in Nat /\ n >= 1 /\ Len(gs) = n /\ gs[n] = fs[n] \o l
      /\ \A i \in 1 .. n - 1 : gs[i] = fs[i]
  BY DEF Extended
<1>2. /\ Len(hs) = Len(gs) /\ \A i \in 1 .. Len(gs) - 1 : hs[i] = gs[i]
      /\ Len(gs) > 0 => hs[Len(gs)] = Append(gs[Len(gs)], c)
  BY FieldsParts
<1>3. fs[n] \in Seq(Int)
  <2>1. n \in 1 .. Len(fs)
    BY <1>1
  <2> HIDE DEF n
  <2>2. QED BY <2>1
<1> HIDE DEF n, hs
<1>4. Append(fs[n] \o l, c) = fs[n] \o Append(l, c)
  BY <1>3, ConcatAppend
<1>5. hs[n] = fs[n] \o Append(l, c) /\ Len(hs) = n /\ \A i \in 1 .. n - 1 : hs[i] = fs[i]
  <2>1. n > 0
    BY <1>1
  <2>2. QED BY ONLY <1>1, <1>2, <1>4, <2>1
<1>6. QED BY <1>5 DEF Extended, n, hs

\* Characters without a dot go into the last field.
LEMMA FieldsConcat ==
  ASSUME NEW s \in Seq(Int), NEW l \in Seq(Int), NoDot(l), Len(Fields(s)) >= 1
  PROVE  Extended(Fields(s), l, Fields(s \o l))
<1> DEFINE n == Len(l)
           front(k) == SubSeq(l, 1, k)
           G == {k \in 0 .. n : Extended(Fields(s), front(k), Fields(s \o front(k)))}
<1>1. n \in Nat /\ n \in 0 .. n /\ 0 \in 0 .. n /\ DOMAIN l = 1 .. n /\ \A i \in 1 .. n : l[i] \in Int
  OBVIOUS
<1>2. front(0) = <<>> /\ s \o <<>> = s /\ front(n) = l
  <2>1. front(0) = <<>> /\ s \o <<>> = s
    OBVIOUS
  <2>2. front(n) = l
    BY <1>1, SubSeqFull
  <2>3. QED BY <2>1, <2>2
<1>3. ASSUME NEW k \in 0 .. n - 1
      PROVE  /\ front(k + 1) = Append(front(k), l[k + 1]) /\ front(k) \in Seq(Int)
             /\ s \o front(k + 1) = Append(s \o front(k), l[k + 1]) /\ s \o front(k) \in Seq(Int)
  <2>1. front(k) \in Seq(Int) /\ front(k + 1) \in Seq(Int) /\ l[k + 1] \in Int
        /\ Len(front(k)) = k /\ Len(front(k + 1)) = k + 1
    OBVIOUS
  <2>2. front(k + 1) = Append(front(k), l[k + 1])
    BY <2>1, SubSeqRecursiveSecond
  <2>3. \A x \in Seq(Int), c \in Int : s \o Append(x, c) = Append(s \o x, c)
    BY ConcatAppend
  <2> HIDE DEF front
  <2>4. \A x \in Seq(Int) : s \o x \in Seq(Int)
    OBVIOUS
  <2>5. QED BY ONLY <2>1, <2>2, <2>3, <2>4
<1> HIDE DEF front
<1>4. 0 \in G
  <2>1. \A x : x \in Seq(Seq(Int)) /\ Len(x) >= 1 => Extended(x, <<>>, x)
    <3>1. ASSUME NEW x \in Seq(Seq(Int)), Len(x) >= 1 PROVE x[Len(x)] \o <<>> = x[Len(x)]
      <4>1. Len(x) \in 1 .. Len(x)
        BY <3>1
      <4>2. x[Len(x)] \in Seq(Int)
        BY <4>1
      <4>3. QED BY <4>2
    <3>2. QED BY <3>1 DEF Extended
  <2>2. Fields(s) \in Seq(Seq(Int))
    BY FieldsSeq
  <2>3. Extended(Fields(s), <<>>, Fields(s))
    BY <2>1, <2>2
  <2>4. QED BY <1>1, <1>2, <2>3
<1>5. ASSUME NEW k \in 0 .. n - 1, k \in G PROVE k + 1 \in G
  <2>1. Fields(s \o front(k + 1)) = FieldsStep(Fields(s \o front(k)), l[k + 1])
    <3>1. k + 1 \in 1 .. n
      BY <1>1
    <3>2. l[k + 1] \in Int
      BY <1>1, <3>1
    <3>3. QED BY <1>3, <3>2, FieldsAppend
  <2>2. Fields(s \o front(k)) \in Seq(Seq(Int)) /\ Fields(s) \in Seq(Seq(Int))
    BY <1>3, FieldsSeq
  <2>3. l[k + 1] # Dot /\ l[k + 1] \in Int /\ k + 1 \in 0 .. n
    <3>1. k + 1 \in 1 .. n
      BY <1>1
    <3>2. \A i \in 1 .. n : l[i] # Dot
      BY ONLY <1>1, NoDot(l) DEF NoDot
    <3>3. k + 1 \in 0 .. n
      BY <1>1
    <3>4. QED BY ONLY <1>1, <3>1, <3>2, <3>3
  <2>4. Extended(Fields(s), front(k), Fields(s \o front(k)))
    BY <1>5
  <2>5. Extended(Fields(s), Append(front(k), l[k + 1]), FieldsStep(Fields(s \o front(k)), l[k + 1]))
    BY <1>3, <2>2, <2>3, <2>4, ExtendedMore
  <2>6. QED BY <1>3, <2>1, <2>3, <2>5
<1>6. n \in G
  <2>1. \A k \in 0 .. n - 1 : k \in G => k + 1 \in G
    BY <1>5
  <2> HIDE DEF G
  <2>2. \A k \in 0 .. n : k \in G
    BY <1>1, <1>4, <2>1, Positions
  <2>3. QED BY ONLY <1>1, <2>2
<1>7. QED BY <1>2, <1>6

\* Another label behind a dot is another field.
LEMMA FieldsMore ==
  ASSUME NEW s \in Seq(Int), NEW l \in Seq(Int), NoDot(l)
  PROVE  Fields((s \o <<Dot>>) \o l) = Append(Fields(s), l)
<1> DEFINE fs == Fields(s)
           t == s \o <<Dot>>
           gs == Fields(t)
           hs == Fields(t \o l)
           n == Len(fs)
<1>1. t = Append(s, Dot) /\ Dot \in Int
  <2>1. Dot \in Int
    BY DEF Dot
  <2>2. QED BY <2>1, AppendIsConcat
<1>2. t \in Seq(Int) /\ t \o l \in Seq(Int)
  BY <1>1
<1>3. fs \in Seq(Seq(Int)) /\ gs \in Seq(Seq(Int)) /\ hs \in Seq(Seq(Int))
  BY <1>2, FieldsSeq
<1>4. gs = FieldsStep(fs, Dot)
  BY <1>1, FieldsAppend
<1>5. Len(gs) = n + 1 /\ gs[n + 1] = <<>> /\ \A i \in 1 .. n : gs[i] = fs[i]
  <2> HIDE DEF gs, t, fs
  <2>1. /\ Len(FieldsStep(fs, Dot)) = Len(fs) + 1
        /\ \A i \in 1 .. Len(fs) : FieldsStep(fs, Dot)[i] = fs[i]
        /\ FieldsStep(fs, Dot)[Len(fs) + 1] = <<>>
    BY ONLY <1>1, <1>3, FieldsParts
  <2>2. QED BY <1>4, <2>1
<1> HIDE DEF gs, t, fs, n
<1>6. n \in Nat
  BY <1>3 DEF n
<1>7. Extended(gs, l, hs)
  BY <1>2, <1>5, <1>6, FieldsConcat DEF gs
<1> HIDE DEF hs
<1>8. Len(hs) = n + 1 /\ hs[n + 1] = l /\ \A i \in 1 .. n : hs[i] = fs[i]
  <2>1. Len(hs) = n + 1 /\ hs[n + 1] = <<>> \o l
    BY <1>5, <1>7 DEF Extended
  <2>2. \A i \in 1 .. n : hs[i] = gs[i]
    BY <1>5, <1>6, <1>7 DEF Extended
  <2>3. <<>> \o l = l
    OBVIOUS
  <2>4. QED BY <1>5, <2>1, <2>2, <2>3
<1>9. hs = Append(fs, l)
  <2> DEFINE ks == Append(fs, l)
  <2>1. ks \in Seq(Seq(Int)) /\ Len(ks) = n + 1 /\ ks[n + 1] = l /\ \A i \in 1 .. n : ks[i] = fs[i]
    BY <1>3 DEF n
  <2> HIDE DEF ks
  <2>2. \A i \in 1 .. n + 1 : hs[i] = ks[i]
    BY <1>6, <1>8, <2>1
  <2>3. hs = ks
    BY <1>3, <1>8, <2>1, <2>2, SeqEqual
  <2>4. QED BY <2>3 DEF ks
<1>10. QED BY <1>9 DEF hs, t, fs

\* A label alone is one field.
LEMMA FieldsOne ==
  ASSUME NEW l \in Seq(Int), NoDot(l)
  PROVE  Fields(l) = <<l>>
<1>1. <<>> \in Seq(Int) /\ <<>> \o l = l /\ Len(<< <<>> >>) = 1
  OBVIOUS
<1>2. Extended(Fields(<<>>), l, Fields(<<>> \o l))
  <2>1. Len(Fields(<<>>)) >= 1
    BY <1>1, FieldsEmpty
  <2>2. QED BY <1>1, <2>1, FieldsConcat
<1> DEFINE gs == Fields(l)
<1>3. Extended(<< <<>> >>, l, gs)
  BY <1>1, <1>2, FieldsEmpty
<1>4. gs \in Seq(Seq(Int))
  BY FieldsSeq
<1> HIDE DEF gs
<1>5. Len(gs) = 1 /\ gs[1] = l
  BY <1>1, <1>3 DEF Extended
<1>6. <<l>> \in Seq(Seq(Int)) /\ Len(<<l>>) = 1 /\ <<l>>[1] = l
  OBVIOUS
<1>7. gs = <<l>>
  BY <1>4, <1>5, <1>6, SeqEqual
<1>8. QED BY <1>7 DEF gs

-----------------------------------------------------------------------------
(* Printed addresses. *)

\* A byte printed in base 10.
LEMMA ByteText ==
  ASSUME NEW n \in 0 .. 255, LongBits \in Nat, LongBits >= 8
  PROVE  LET t == printNumber(n, 10) IN
         t \in Seq(Int) /\ NoDot(t) /\ ~NoField(t) /\ Denotes(t, 10) = n
<1> DEFINE left == Left(n, 10)
           t == printNumber(n, 10)
<1>1. 10 \in Nat \ {0} /\ n \in Nat
  OBVIOUS
<1>2. left[0] = n /\ \A k \in 1 .. LongBits : left[k] = left[k - 1] \div 10
  BY <1>1, LeftIs
<1> HIDE DEF left
<1>3. left[1] = left[0] \div 10 /\ left[2] = left[1] \div 10 /\ left[3] = left[2] \div 10
  <2>1. 1 \in 1 .. LongBits /\ 2 \in 1 .. LongBits /\ 3 \in 1 .. LongBits
    OBVIOUS
  <2>2. 1 - 1 = 0 /\ 2 - 1 = 1 /\ 3 - 1 = 2
    OBVIOUS
  <2>3. QED BY ONLY <1>2, <2>1, <2>2
<1>4. left[3] = 0
  <2>1. left[1] \in 0 .. 25
    BY <1>2, <1>3
  <2>2. left[2] \in 0 .. 2
    BY <1>3, <2>1
  <2>3. QED BY <1>3, <2>2
<1>5. 3 \in 1 .. LongBits /\ 10 \in 2 .. 16
  OBVIOUS
<1>6. t \in Seq(Nat) /\ Denotes(t, 10) = n /\ \A k \in 1 .. Len(t) : IsDigit(t[k])
  BY <1>1, <1>4, <1>5, PrintNumberIs DEF left
<1> HIDE DEF t
<1>7. t \in Seq(Int) /\ DOMAIN t = 1 .. Len(t)
  BY <1>6
<1>8. NoDot(t)
  BY <1>6, <1>7, SMTT(60) DEF NoDot, IsDigit, Dot, Zero
<1>9. ~NoField(t)
  <2>1. OnlyDigits(t)
    BY <1>6, <1>7 DEF OnlyDigits
  <2>2. ~(n >= 256)
    OBVIOUS
  <2>3. QED BY ONLY <1>6, <2>1, <2>2 DEF NoField
<1>10. QED BY <1>6, <1>7, <1>8, <1>9 DEF t

\* The fields of a printed address are its bytes in base 10.
LEMMA AddressText ==
  ASSUME NEW ip \in [1 .. 4 -> 0 .. 255], LongBits \in Nat, LongBits >= 8
  PROVE  LET s == toString(ip) IN
         /\ s \in Seq(Int) /\ IsAddress(s)
         /\ [k \in 1 .. 4 |-> Denotes(Fields(s)[k], 10)] = ip
<1> DEFINE p(k) == printNumber(ip[k], 10)
           s == toString(ip)
           two == (p(1) \o <<Dot>>) \o p(2)
           three == (two \o <<Dot>>) \o p(3)
<1>1. \A k \in 1 .. 4 : p(k) \in Seq(Int) /\ NoDot(p(k)) /\ ~NoField(p(k)) /\ Denotes(p(k), 10) = ip[k]
  BY ByteText
<1>2. s = (three \o <<Dot>>) \o p(4)
  BY DEF toString
<1> HIDE DEF p, s
<1>3. p(1) \in Seq(Int) /\ p(2) \in Seq(Int) /\ p(3) \in Seq(Int) /\ p(4) \in Seq(Int)
      /\ NoDot(p(1)) /\ NoDot(p(2)) /\ NoDot(p(3)) /\ NoDot(p(4))
  BY <1>1
<1>4. \A x \in Seq(Int), y \in Seq(Int) : (x \o <<Dot>>) \o y \in Seq(Int)
  BY DEF Dot
<1>5. two \in Seq(Int) /\ three \in Seq(Int) /\ s \in Seq(Int)
  <2>1. two \in Seq(Int)
    BY <1>3, <1>4
  <2> HIDE DEF two
  <2>2. three \in Seq(Int)
    BY <1>3, <1>4, <2>1
  <2> HIDE DEF three
  <2>3. QED BY <1>2, <1>3, <1>4, <2>1, <2>2
<1>6. Fields(p(1)) = <<p(1)>>
  BY <1>3, FieldsOne
<1>7. Fields(two) = Append(<<p(1)>>, p(2))
  BY <1>3, <1>6, FieldsMore
<1> HIDE DEF two
<1>8. Fields(three) = Append(Append(<<p(1)>>, p(2)), p(3))
  BY <1>3, <1>5, <1>7, FieldsMore
<1> HIDE DEF three
<1>9. Fields(s) = Append(Append(Append(<<p(1)>>, p(2)), p(3)), p(4))
  BY <1>2, <1>3, <1>5, <1>8, FieldsMore
<1>10. Len(Fields(s)) = 4 /\ \A k \in 1 .. 4 : Fields(s)[k] = p(k)
  <2> DEFINE one == <<p(1)>>
             pair == Append(one, p(2))
             triple == Append(pair, p(3))
             all == Append(triple, p(4))
  <2>1. ASSUME NEW fs \in Seq(Seq(Int)), NEW l \in Seq(Int), NEW m \in Nat, Len(fs) = m
        PROVE  /\ Append(fs, l) \in Seq(Seq(Int)) /\ Len(Append(fs, l)) = m + 1
               /\ \A i \in 1 .. m : Append(fs, l)[i] = fs[i]
               /\ Append(fs, l)[m + 1] = l
    BY <2>1, AppendProperties
  <2>2. one \in Seq(Seq(Int)) /\ Len(one) = 1 /\ one[1] = p(1)
    BY <1>3
  <2> HIDE DEF one
  <2>3. pair \in Seq(Seq(Int)) /\ Len(pair) = 2 /\ pair[1] = p(1) /\ pair[2] = p(2)
    <3>1. /\ pair \in Seq(Seq(Int)) /\ Len(pair) = 1 + 1
          /\ (\A i \in 1 .. 1 : pair[i] = one[i]) /\ pair[1 + 1] = p(2)
      BY ONLY <1>3, <2>1, <2>2, 1 \in Nat
    <3> HIDE DEF pair
    <3>2. QED BY <2>2, <3>1
  <2> HIDE DEF pair
  <2>4. /\ triple \in Seq(Seq(Int)) /\ Len(triple) = 3
        /\ triple[1] = p(1) /\ triple[2] = p(2) /\ triple[3] = p(3)
    <3>1. /\ triple \in Seq(Seq(Int)) /\ Len(triple) = 2 + 1
          /\ (\A i \in 1 .. 2 : triple[i] = pair[i]) /\ triple[2 + 1] = p(3)
      BY ONLY <1>3, <2>1, <2>3, 2 \in Nat
    <3> HIDE DEF triple
    <3>2. QED BY <2>3, <3>1
  <2> HIDE DEF triple
  <2>5. Len(all) = 4 /\ all[1] = p(1) /\ all[2] = p(2) /\ all[3] = p(3) /\ all[4] = p(4)
    <3>1. /\ all \in Seq(Seq(Int)) /\ Len(all) = 3 + 1
          /\ (\A i \in 1 .. 3 : all[i] = triple[i]) /\ all[3 + 1] = p(4)
      BY ONLY <1>3, <2>1, <2>4, 3 \in Nat
    <3> HIDE DEF all
    <3>2. QED BY <2>4, <3>1
  <2>6. Fields(s) = all
    BY <1>9 DEF one, pair, triple
  <2> HIDE DEF all
  <2>7. QED BY <2>5, <2>6
<1>11. IsAddress(s)
  BY <1>1, <1>5, <1>10, AddressFields
<1>12. [k \in 1 .. 4 |-> Denotes(Fields(s)[k], 10)] = ip
  BY <1>1, <1>10
<1>13. QED BY <1>5, <1>11, <1>12 DEF s

\* The two halves of AddressesReadBack.
LEMMA PrintedAddresses ==
  ASSUME NEW ip \in [1 .. 4 -> 0 .. 255], LongBits \in Nat, LongBits >= 8, IntBits \in 10 .. 32
  PROVE  /\ fromString(toString(ip)) = [ok |-> 1, bytes |-> ip]
         /\ inet_aton(toString(ip)) = [ok |-> 1, bytes |-> ip]
<1> DEFINE s == toString(ip)
<1>1. s \in Seq(Int) /\ IsAddress(s) /\ [k \in 1 .. 4 |-> Denotes(Fields(s)[k], 10)] = ip
  BY AddressText
<1> HIDE DEF s
<1>2. fromString(s) = [ok |-> 1, bytes |-> [k \in 1 .. 4 |-> Denotes(Fields(s)[k], 10)]]
  BY <1>1, FromStringTakes
<1>3. inet_aton(s) = fromString(s)
  BY <1>1, AtonTakesAddresses
<1>4. QED BY <1>1, <1>2, <1>3 DEF s

-----------------------------------------------------------------------------
(* The width of a long. *)

LEMMA LongRange ==
  ASSUME LongBits \in 8 .. 32
  PROVE  /\ 2^LongBits \in Nat \ {0} /\ 2^(LongBits - 1) \in Nat \ {0}
         /\ 2^LongBits = 2 * 2^(LongBits - 1)
<1>1. LongBits \in 1 .. 32
  OBVIOUS
<1>2. QED BY <1>1, WidthRange

\* printNumber is done with a long after LongBits passes at most.
LEMMA LeftVanishes ==
  ASSUME LongBits \in 8 .. 32, NEW n \in 0 .. 2^LongBits - 1, NEW b \in 2 .. 16
  PROVE  Left(n, b)[LongBits] = 0
<1> DEFINE left == Left(n, b)
           pow(k) == 2^k
           G == {k \in 0 .. LongBits : left[k] < pow(LongBits - k)}
<1>1. n \in Nat /\ b \in Nat \ {0} /\ LongBits \in Nat
  BY LongRange
<1>2. /\ left \in [0 .. LongBits -> Nat] /\ left[0] = n
      /\ \A k \in 1 .. LongBits : left[k] = left[k - 1] \div b
  BY <1>1, LeftIs
<1>3. \A k \in 0 .. 31 : pow(k) \in Nat \ {0} /\ pow(k + 1) = 2 * pow(k)
  BY Powers
<1>4. n < pow(LongBits) /\ pow(0) = 1
  BY LongRange
<1> HIDE DEF left, pow
<1>5. 0 \in G
  <2>1. LongBits - 0 = LongBits /\ 0 \in 0 .. LongBits
    OBVIOUS
  <2>2. QED BY <1>2, <1>4, <2>1
<1>6. ASSUME NEW k \in 0 .. LongBits - 1, k \in G PROVE k + 1 \in G
  <2> DEFINE j == LongBits - (k + 1)
  <2>1. /\ k + 1 \in 1 .. LongBits /\ (k + 1) - 1 = k /\ k + 1 \in 0 .. LongBits
        /\ j \in 0 .. 31 /\ j + 1 = LongBits - k /\ k \in 0 .. LongBits
    OBVIOUS
  <2> HIDE DEF j
  <2>2. left[k + 1] = left[k] \div b /\ left[k] \in Nat
    BY ONLY <1>2, <2>1
  <2>3. left[k] < 2 * pow(j) /\ pow(j) \in Nat
    <3>1. left[k] < pow(j + 1)
      BY <1>6, <2>1
    <3>2. QED BY ONLY <1>3, <2>1, <3>1
  <2>4. ASSUME NEW x \in Nat, NEW y \in Nat, x < 2 * y PROVE x \div b < y
    <3>1. x \div b \in Int /\ x % b \in 0 .. b - 1 /\ x = b * (x \div b) + (x % b)
      BY <1>1, DivMod
    <3> DEFINE q == x \div b
    <3> HIDE DEF q
    <3>2. q \in Int /\ b * q <= x
      BY <3>1 DEF q
    <3>3. q >= y => b * q >= 2 * y
      <4>1. q >= y => 2 * q >= 2 * y /\ q >= 0
        BY <3>2
      <4>2. q >= 0 => b * q >= 2 * q
        BY <3>2
      <4>3. QED BY <3>2, <4>1, <4>2
    <3>4. q < y
      BY <2>4, <3>2, <3>3
    <3>5. QED BY <3>4 DEF q
  <2>5. left[k + 1] < pow(j)
    BY ONLY <2>2, <2>3, <2>4
  <2>6. QED BY <2>1, <2>5 DEF j
<1>7. LongBits \in G
  <2>1. \A k \in 0 .. LongBits - 1 : k \in G => k + 1 \in G
    BY <1>6
  <2> HIDE DEF G
  <2>2. \A k \in 0 .. LongBits : k \in G
    BY <1>1, <1>5, <2>1, Positions
  <2>3. LongBits \in 0 .. LongBits
    OBVIOUS
  <2>4. QED BY ONLY <2>2, <2>3
<1>8. left[LongBits] < 1 /\ left[LongBits] \in Nat
  <2>1. LongBits - LongBits = 0
    OBVIOUS
  <2>2. QED BY <1>2, <1>4, <1>7, <2>1
<1>9. left[LongBits] = 0
  BY ONLY <1>8
<1>10. QED BY <1>9 DEF left

\* Wrap yields the long with the same bits.
LEMMA WrapIs ==
  ASSUME LongBits \in 8 .. 32, NEW n \in Int
  PROVE  /\ Wrap(n) \in -(2^(LongBits - 1)) .. 2^(LongBits - 1) - 1
         /\ Wrap(n) % 2^LongBits = n % 2^LongBits
         /\ Unsigned(n) = n % 2^LongBits
         /\ n \in 0 .. 2^LongBits - 1 => Unsigned(n) = n
         /\ n \in -(2^(LongBits - 1)) .. 2^(LongBits - 1) - 1 => Wrap(n) = n
<1> DEFINE M == 2^LongBits
           h == 2^(LongBits - 1)
           w == Wrap(n)
<1>1. M \in Nat \ {0} /\ h \in Nat \ {0} /\ M = 2 * h
  BY LongRange
<1>2. Unsigned(n) = n % M /\ w = IF n % M < h THEN n % M ELSE (n % M) - M
  BY DEF Wrap, Unsigned
<1> HIDE DEF M, h, w
<1>3. w \in -h .. h - 1 /\ w % M = n % M /\ (n \in -h .. h - 1 => w = n)
  BY ONLY <1>1, <1>2, n \in Int, SignedIs
<1>4. n \in 0 .. M - 1 => n % M = n
  BY <1>1, ModSmall
<1>5. QED BY <1>2, <1>3, <1>4 DEF M, h, w

LEMMA WrapSame ==
  ASSUME LongBits \in 8 .. 32, NEW m \in Int, NEW n \in Int, m % 2^LongBits = n % 2^LongBits
  PROVE  Wrap(m) = Wrap(n)
BY DEF Wrap, Unsigned

\* Wrapping before another step of the sum, or before the sign changes, changes nothing.
LEMMA WrapWraps ==
  ASSUME LongBits \in 8 .. 32, NEW n \in Int, NEW d \in Int
  PROVE  Wrap(Wrap(n) * 10 + d) = Wrap(n * 10 + d) /\ Wrap(-Wrap(n)) = Wrap(-n)
<1> DEFINE M == 2^LongBits
           w == Wrap(n)
           k == w \div M - n \div M
<1>1. M \in Nat \ {0} /\ w \in Int /\ w % M = n % M
  BY LongRange, WrapIs
<1> HIDE DEF M, w
<1>2. /\ w \div M \in Int /\ w = M * (w \div M) + (w % M)
      /\ n \div M \in Int /\ n = M * (n \div M) + (n % M) /\ n % M \in Int
  BY <1>1, DivMod
<1>3. k \in Int /\ w = n + M * k
  <2> DEFINE p == w \div M
             q == n \div M
             r == n % M
  <2>1. p \in Int /\ q \in Int /\ r \in Int /\ w = M * p + r /\ n = M * q + r /\ k = p - q
    BY <1>1, <1>2
  <2> HIDE DEF p, q, r, k
  <2>2. M * (p - q) = M * p - M * q
    BY <1>1, <2>1
  <2>3. QED BY <1>1, <2>1, <2>2
<1> HIDE DEF k
<1>4. w * 10 + d = (n * 10 + d) + M * (k * 10) /\ -w = -n + M * (-k)
  <2>1. M * (k * 10) = (M * k) * 10 /\ M * (-k) = -(M * k)
    BY <1>1, <1>3
  <2> DEFINE x == M * k
  <2>2. x \in Int /\ w = n + x
    BY <1>1, <1>3
  <2> HIDE DEF x
  <2>3. w * 10 + d = (n * 10 + d) + x * 10 /\ -w = -n + (-x)
    BY <2>2
  <2>4. QED BY <2>1, <2>3 DEF x
<1>5. /\ n * 10 + d \in Int /\ k * 10 \in Int /\ -n \in Int /\ -k \in Int
      /\ w * 10 + d \in Int /\ -w \in Int
  BY <1>1, <1>3
<1>6. ((n * 10 + d) + M * (k * 10)) % M = (n * 10 + d) % M
  BY ONLY <1>1, <1>5, ModAddMultiple
<1>7. (-n + M * (-k)) % M = (-n) % M
  BY ONLY <1>1, <1>5, ModAddMultiple
<1>8. QED
  <2>1. Wrap(w * 10 + d) = Wrap(n * 10 + d)
    BY <1>4, <1>5, <1>6, WrapSame DEF M
  <2>2. Wrap(-w) = Wrap(-n)
    BY <1>4, <1>5, <1>7, WrapSame DEF M
  <2>3. QED BY <2>1, <2>2 DEF w

-----------------------------------------------------------------------------
(* The value of the digits of a stream. *)

\* A sequence behind another, character by character.
LEMMA FrontMore ==
  ASSUME NEW s \in Seq(Int), NEW l \in Seq(Int), NEW k \in 0 .. Len(l) - 1
  PROVE  /\ s \o SubSeq(l, 1, k + 1) = Append(s \o SubSeq(l, 1, k), l[k + 1])
         /\ s \o SubSeq(l, 1, k) \in Seq(Int) /\ l[k + 1] \in Int
<1>1. SubSeq(l, 1, k) \in Seq(Int) /\ l[k + 1] \in Int
  OBVIOUS
<1>2. SubSeq(l, 1, k + 1) = Append(SubSeq(l, 1, k), l[k + 1])
  BY <1>1, SubSeqRecursiveSecond
<1> DEFINE x == SubSeq(l, 1, k)
<1> HIDE DEF x
<1>3. s \o Append(x, l[k + 1]) = Append(s \o x, l[k + 1])
  BY <1>1, ConcatAppend DEF x
<1>4. s \o x \in Seq(Int)
  BY <1>1 DEF x
<1>5. QED BY <1>1, <1>2, <1>3, <1>4 DEF x

LEMMA FrontEnds ==
  ASSUME NEW s \in Seq(Int), NEW l \in Seq(Int)
  PROVE  s \o SubSeq(l, 1, 0) = s /\ s \o SubSeq(l, 1, Len(l)) = s \o l
<1>1. SubSeq(l, 1, 0) = <<>> /\ s \o <<>> = s
  OBVIOUS
<1>2. SubSeq(l, 1, Len(l)) = l
  BY SubSeqFull
<1>3. QED BY <1>1, <1>2

(* The number the digits of a text denote, whatever else is in it. *)
NumberStart == 0
NumberStep(v, c) == IF IsDigit(c) THEN v * 10 + (c - Zero) ELSE v
NumberStates == Int
NumberIn(s) == FoldLeft(LAMBDA v, c : NumberStep(v, c), NumberStart, s)

LEMMA NumberType ==
  /\ NumberStart \in NumberStates
  /\ \A v \in NumberStates, c \in Int : NumberStep(v, c) \in NumberStates
BY DEF NumberStart, NumberStep, NumberStates, Zero

LEMMA NumberRuns ==
  ASSUME NEW s \in Seq(Int)
  PROVE  \E run \in [0 .. Len(s) -> NumberStates] :
           /\ run[0] = NumberStart /\ run[Len(s)] = NumberIn(s)
           /\ \A k \in 1 .. Len(s) : run[k] = NumberStep(run[k - 1], s[k])
<1> DEFINE n == Len(s)
           St == NumberStates
           first == NumberStart
           step == [x \in St \X (1 .. n) |-> NumberStep(x[1], s[x[2]])]
           Eq(f) == f = [T \in SUBSET DOMAIN s |->
                      IF T = {} THEN first ELSE NumberStep(f[T \ {Max(T)}], s[Max(T)])]
           f == CHOOSE g : Eq(g)
<1>1. NumberIn(s) = f[DOMAIN s]
  BY DEF NumberIn, FoldLeft, MapThenFoldSet
<1>2. n \in Nat /\ DOMAIN s = 1 .. n
  OBVIOUS
<1>3. first \in St
  BY NumberType
<1>4. step \in [St \X (1 .. n) -> St]
  BY NumberType
<1>5. \A st \in St, k \in 1 .. n : step[<<st, k>>] = NumberStep(st, s[k])
  OBVIOUS
<1> HIDE DEF n, St, first, step, f
<1>6. PICK g \in [SUBSET (1 .. n) -> St] : FoldOf(n, first, step, g)
  BY <1>2, <1>3, <1>4, FoldExists
<1>7. Eq(g)
  <2>1. ASSUME NEW T \in SUBSET (1 .. n), T # {}
        PROVE  step[<<g[T \ {Max(T)}], Max(T)>>] = NumberStep(g[T \ {Max(T)}], s[Max(T)])
    <3>1. Max(T) \in 1 .. n
      BY <1>2, <2>1, MaxIs
    <3>2. g[T \ {Max(T)}] \in St
      OBVIOUS
    <3>3. QED BY <1>5, <3>1, <3>2
  <2>2. QED BY ONLY <1>2, <1>6, <2>1 DEF FoldOf
<1>8. Eq(f)
  BY <1>7 DEF f
<1>9. f[{}] = first
  BY <1>8
<1>10. ASSUME NEW k \in 1 .. n, f[1 .. (k - 1)] \in St
       PROVE  f[1 .. k] = step[<<f[1 .. (k - 1)], k>>]
  <2>1. 1 .. k \in SUBSET DOMAIN s /\ 1 .. k # {} /\ k \in Nat \ {0}
    BY <1>2, UpTo
  <2>2. f[1 .. k] = NumberStep(f[(1 .. k) \ {Max(1 .. k)}], s[Max(1 .. k)])
    BY <1>8, <2>1
  <2>3. Max(1 .. k) = k /\ (1 .. k) \ {Max(1 .. k)} = 1 .. (k - 1)
    BY <2>1, LessTheLast
  <2>4. f[1 .. k] = NumberStep(f[1 .. (k - 1)], s[k])
    BY ONLY <2>2, <2>3
  <2>5. QED BY ONLY <1>5, <1>10, <2>4
<1>11. PICK run \in [0 .. n -> St] : RunOf(n, first, step, f[1 .. n], run)
  BY <1>2, <1>3, <1>4, <1>9, <1>10, FoldRuns
<1>12. \A k \in 1 .. n : run[k] = NumberStep(run[k - 1], s[k])
  <2>1. \A k \in 1 .. n : run[k - 1] \in St
    BY <1>2
  <2>2. QED BY <1>5, <1>11, <2>1 DEF RunOf
<1>13. QED BY <1>1, <1>2, <1>11, <1>12 DEF n, St, first, RunOf

LEMMA NumberAppend ==
  ASSUME NEW s \in Seq(Int), NEW c \in Int
  PROVE  NumberIn(s) \in Int /\ NumberIn(Append(s, c)) = NumberStep(NumberIn(s), c)
<1> DEFINE t == Append(s, c)
           n == Len(s)
<1>1. /\ t \in Seq(Int) /\ Len(t) = n + 1 /\ n \in Nat /\ t[n + 1] = c
      /\ \A k \in 1 .. n : t[k] = s[k]
  OBVIOUS
<1>2. PICK r \in [0 .. n -> NumberStates] :
        /\ r[0] = NumberStart /\ r[n] = NumberIn(s)
        /\ \A k \in 1 .. n : r[k] = NumberStep(r[k - 1], s[k])
  BY NumberRuns
<1> HIDE DEF t, n
<1>3. PICK q \in [0 .. Len(t) -> NumberStates] :
        /\ q[0] = NumberStart /\ q[Len(t)] = NumberIn(t)
        /\ \A k \in 1 .. Len(t) : q[k] = NumberStep(q[k - 1], t[k])
  BY <1>1, NumberRuns
<1>4. r[n] = q[n]
  <2>1. \A k \in 1 .. n : k \in 1 .. Len(t)
    BY <1>1
  <2>2. \A k \in 1 .. n : r[k - 1] = q[k - 1] => r[k] = q[k]
    BY ONLY <1>1, <1>2, <1>3, <2>1
  <2>3. r[0] = q[0] /\ n \in Nat
    BY <1>1, <1>2, <1>3
  <2>4. QED BY ONLY <2>2, <2>3, SameRuns
<1>5. q[n + 1] = NumberStep(q[n], c)
  <2>1. n + 1 \in 1 .. Len(t) /\ (n + 1) - 1 = n
    BY <1>1
  <2>2. QED BY ONLY <1>1, <1>3, <2>1
<1>6. NumberIn(s) \in Int
  BY <1>1, <1>2 DEF NumberStates
<1>7. QED BY <1>1, <1>2, <1>3, <1>4, <1>5, <1>6 DEF t

LEMMA NumberEmpty == NumberIn(<<>>) = 0
<1>1. <<>> \in Seq(Int) /\ Len(<<>>) = 0
  OBVIOUS
<1>2. PICK run : run[0] = NumberStart /\ run[Len(<<>>)] = NumberIn(<<>>)
  BY <1>1, NumberRuns
<1>3. QED BY <1>1, <1>2 DEF NumberStart

\* Texts that denote the same number go on doing so.
LEMMA NumberBehind ==
  ASSUME NEW s \in Seq(Int), NEW t \in Seq(Int), NumberIn(s) = NumberIn(t), NEW l \in Seq(Int)
  PROVE  NumberIn(s \o l) = NumberIn(t \o l)
<1> DEFINE n == Len(l)
           front(k) == SubSeq(l, 1, k)
           G == {k \in 0 .. n : NumberIn(s \o front(k)) = NumberIn(t \o front(k))}
<1>1. n \in Nat /\ n \in 0 .. n /\ 0 \in 0 .. n
  OBVIOUS
<1>2. /\ s \o front(0) = s /\ s \o front(n) = s \o l
      /\ t \o front(0) = t /\ t \o front(n) = t \o l
  BY FrontEnds
<1>3. \A k \in 0 .. n - 1 :
        /\ s \o front(k + 1) = Append(s \o front(k), l[k + 1]) /\ s \o front(k) \in Seq(Int)
        /\ t \o front(k + 1) = Append(t \o front(k), l[k + 1]) /\ t \o front(k) \in Seq(Int)
        /\ l[k + 1] \in Int
  BY FrontMore
<1> HIDE DEF front, n
<1>4. 0 \in G
  BY <1>1, <1>2
<1>5. ASSUME NEW k \in 0 .. n - 1, k \in G PROVE k + 1 \in G
  <2>1. NumberIn(s \o front(k)) = NumberIn(t \o front(k))
    BY <1>5
  <2>2. NumberIn(s \o front(k + 1)) = NumberIn(t \o front(k + 1))
    <3>1. NumberIn(s \o front(k + 1)) = NumberStep(NumberIn(s \o front(k)), l[k + 1])
      BY <1>3, NumberAppend
    <3>2. NumberIn(t \o front(k + 1)) = NumberStep(NumberIn(t \o front(k)), l[k + 1])
      BY <1>3, NumberAppend
    <3>3. QED BY <2>1, <3>1, <3>2
  <2>3. k + 1 \in 0 .. n
    BY <1>1
  <2>4. QED BY <2>2, <2>3
<1>6. n \in G
  <2>1. \A k \in 0 .. n - 1 : k \in G => k + 1 \in G
    BY <1>5
  <2> HIDE DEF G
  <2>2. \A k \in 0 .. n : k \in G
    BY <1>1, <1>4, <2>1, Positions
  <2>3. QED BY ONLY <1>1, <2>2
<1>7. QED BY <1>2, <1>6

\* What is no digit counts for nothing.
LEMMA NumberWithout ==
  ASSUME NEW s \in Seq(Int), NEW c \in Int, ~IsDigit(c), NEW l \in Seq(Int)
  PROVE  NumberIn((s \o <<c>>) \o l) = NumberIn(s \o l)
<1>1. s \o <<c>> = Append(s, c) /\ Append(s, c) \in Seq(Int)
  BY AppendIsConcat
<1>2. NumberIn(Append(s, c)) = NumberIn(s)
  BY NumberAppend DEF NumberStep
<1> DEFINE t == Append(s, c)
<1>3. t \in Seq(Int) /\ NumberIn(t) = NumberIn(s)
  BY <1>1, <1>2
<1> HIDE DEF t
<1>4. NumberIn(t \o l) = NumberIn(s \o l)
  BY <1>3, NumberBehind
<1>5. QED BY <1>1, <1>4 DEF t

\* A text of digits denotes what Denotes says.
LEMMA NumberOfDigits ==
  ASSUME NEW s \in Seq(Int), \A k \in 1 .. Len(s) : IsDigit(s[k])
  PROVE  NumberIn(s) = Denotes(s, 10)
<1> DEFINE n == Len(s)
<1>1. PICK r \in [0 .. n -> NumberStates] :
        /\ r[0] = NumberStart /\ r[n] = NumberIn(s)
        /\ \A k \in 1 .. n : r[k] = NumberStep(r[k - 1], s[k])
  BY NumberRuns
<1>2. PICK b \in Int : b = 10
  OBVIOUS
<1>3. PICK q \in [0 .. n -> DenotesStates(b)] :
        /\ q[0] = DenotesStart(b) /\ q[n] = Denotes(s, b)
        /\ \A k \in 1 .. n : q[k] = DenotesStep(b, q[k - 1], s[k])
  BY DenotesRuns
<1>4. n \in Nat /\ r[0] = q[0]
  BY <1>1, <1>3 DEF NumberStart, DenotesStart
<1>5. ASSUME NEW k \in 1 .. n PROVE r[k - 1] = q[k - 1] => r[k] = q[k]
  <2>1. DenotesStep(b, q[k - 1], s[k]) = NumberStep(q[k - 1], s[k])
    BY <1>2 DEF DenotesStep, NumberStep, DigitValue
  <2>2. QED BY <1>1, <1>3, <2>1
<1> HIDE DEF n
<1>6. r[n] = q[n]
  BY ONLY <1>4, <1>5, SameRuns
<1>7. QED BY <1>2, <1>1, <1>3, <1>6

(* The fold of Value. *)
ValueStart(ignore) == 0
ValueStep(ignore, v, c) == IF c # ignore /\ IsDigit(c) THEN Wrap(v * 10 + c - Zero) ELSE v
ValueStates(ignore) == Int
ValueEnd(s, ignore) ==
  FoldLeft(LAMBDA v, c : ValueStep(ignore, v, c), ValueStart(ignore), s)

LEMMA WrapType == ASSUME LongBits \in 8 .. 32, NEW n \in Int PROVE Wrap(n) \in Int
BY WrapIs, LongRange

LEMMA ValueType ==
  ASSUME LongBits \in 8 .. 32, NEW ignore
  PROVE  /\ ValueStart(ignore) \in ValueStates(ignore)
         /\ \A v \in ValueStates(ignore), c \in Int : ValueStep(ignore, v, c) \in ValueStates(ignore)
<1>1. \A v \in Int, c \in Int : v * 10 + c - Zero \in Int
  BY DEF Zero
<1>2. \A v \in Int, c \in Int : Wrap(v * 10 + c - Zero) \in Int
  BY <1>1, WrapType
<1>3. QED BY <1>2 DEF ValueStart, ValueStep, ValueStates

LEMMA ValueRuns ==
  ASSUME LongBits \in 8 .. 32, NEW s \in Seq(Int), NEW ignore
  PROVE  \E run \in [0 .. Len(s) -> ValueStates(ignore)] :
           /\ run[0] = ValueStart(ignore) /\ run[Len(s)] = ValueEnd(s, ignore)
           /\ \A k \in 1 .. Len(s) : run[k] = ValueStep(ignore, run[k - 1], s[k])
<1> DEFINE n == Len(s)
           St == ValueStates(ignore)
           first == ValueStart(ignore)
           step == [x \in St \X (1 .. n) |-> ValueStep(ignore, x[1], s[x[2]])]
           Eq(f) == f = [T \in SUBSET DOMAIN s |->
                      IF T = {} THEN first ELSE ValueStep(ignore, f[T \ {Max(T)}], s[Max(T)])]
           f == CHOOSE g : Eq(g)
<1>1. ValueEnd(s, ignore) = f[DOMAIN s]
  BY DEF ValueEnd, FoldLeft, MapThenFoldSet
<1>2. n \in Nat /\ DOMAIN s = 1 .. n
  OBVIOUS
<1>3. first \in St
  BY ValueType
<1>4. step \in [St \X (1 .. n) -> St]
  BY ValueType
<1>5. \A st \in St, k \in 1 .. n : step[<<st, k>>] = ValueStep(ignore, st, s[k])
  OBVIOUS
<1> HIDE DEF n, St, first, step, f
<1>6. PICK g \in [SUBSET (1 .. n) -> St] : FoldOf(n, first, step, g)
  BY <1>2, <1>3, <1>4, FoldExists
<1>7. Eq(g)
  <2>1. ASSUME NEW T \in SUBSET (1 .. n), T # {}
        PROVE  step[<<g[T \ {Max(T)}], Max(T)>>] = ValueStep(ignore, g[T \ {Max(T)}], s[Max(T)])
    <3>1. Max(T) \in 1 .. n
      BY <1>2, <2>1, MaxIs
    <3>2. g[T \ {Max(T)}] \in St
      OBVIOUS
    <3>3. QED BY <1>5, <3>1, <3>2
  <2>2. QED BY ONLY <1>2, <1>6, <2>1 DEF FoldOf
<1>8. Eq(f)
  BY <1>7 DEF f
<1>9. f[{}] = first
  BY <1>8
<1>10. ASSUME NEW k \in 1 .. n, f[1 .. (k - 1)] \in St
       PROVE  f[1 .. k] = step[<<f[1 .. (k - 1)], k>>]
  <2>1. 1 .. k \in SUBSET DOMAIN s /\ 1 .. k # {} /\ k \in Nat \ {0}
    BY <1>2, UpTo
  <2>2. f[1 .. k] = ValueStep(ignore, f[(1 .. k) \ {Max(1 .. k)}], s[Max(1 .. k)])
    BY <1>8, <2>1
  <2>3. Max(1 .. k) = k /\ (1 .. k) \ {Max(1 .. k)} = 1 .. (k - 1)
    BY <2>1, LessTheLast
  <2>4. f[1 .. k] = ValueStep(ignore, f[1 .. (k - 1)], s[k])
    BY ONLY <2>2, <2>3
  <2>5. QED BY ONLY <1>5, <1>10, <2>4
<1>11. PICK run \in [0 .. n -> St] : RunOf(n, first, step, f[1 .. n], run)
  BY <1>2, <1>3, <1>4, <1>9, <1>10, FoldRuns
<1>12. \A k \in 1 .. n : run[k] = ValueStep(ignore, run[k - 1], s[k])
  <2>1. \A k \in 1 .. n : run[k - 1] \in St
    BY <1>2
  <2>2. QED BY <1>5, <1>11, <2>1 DEF RunOf
<1>13. QED BY <1>1, <1>2, <1>11, <1>12 DEF n, St, first, RunOf

\* Value is the number in what was taken, as a long, with the sign of a '-'.
LEMMA ValueIs ==
  ASSUME LongBits \in 8 .. 32, NEW s \in Seq(Int), NEW ignore \in Int, ~IsDigit(ignore)
  PROVE  Value(s, ignore) = IF ignore # Minus /\ Contains(s, Minus) THEN Wrap(-NumberIn(s))
                            ELSE Wrap(NumberIn(s))
<1> DEFINE n == Len(s)
           v == ValueEnd(s, ignore)
<1>1. Value(s, ignore) = IF ignore # Minus /\ Contains(s, Minus) THEN Wrap(-v) ELSE v
  BY DEF Value, ValueEnd, ValueStep, ValueStart
<1>2. PICK q \in [0 .. n -> ValueStates(ignore)] :
        /\ q[0] = ValueStart(ignore) /\ q[n] = v
        /\ \A k \in 1 .. n : q[k] = ValueStep(ignore, q[k - 1], s[k])
  BY ValueRuns
<1>3. PICK r \in [0 .. n -> NumberStates] :
        /\ r[0] = NumberStart /\ r[n] = NumberIn(s)
        /\ \A k \in 1 .. n : r[k] = NumberStep(r[k - 1], s[k])
  BY NumberRuns
<1> DEFINE G == {k \in 0 .. n : q[k] = Wrap(r[k])}
<1>4. n \in Nat /\ n \in 0 .. n /\ 0 \in 0 .. n /\ \A k \in 1 .. n : s[k] \in Int
  OBVIOUS
<1> HIDE DEF n, v
<1>5. 0 \in G
  <2>1. 0 \in -(2^(LongBits - 1)) .. 2^(LongBits - 1) - 1
    BY LongRange
  <2>2. Wrap(0) = 0
    BY <2>1, WrapIs
  <2>3. QED BY <1>2, <1>3, <1>4, <2>2 DEF ValueStart, NumberStart
<1>6. ASSUME NEW k \in 0 .. n - 1, k \in G PROVE k + 1 \in G
  <2>1. k + 1 \in 1 .. n /\ k + 1 \in 0 .. n /\ (k + 1) - 1 = k /\ k \in 0 .. n
    BY <1>4
  <2>2. /\ q[k + 1] = ValueStep(ignore, q[k], s[k + 1]) /\ r[k + 1] = NumberStep(r[k], s[k + 1])
        /\ r[k] \in Int /\ s[k + 1] \in Int /\ q[k] = Wrap(r[k])
    <3>1. /\ q[k + 1] = ValueStep(ignore, q[k], s[k + 1]) /\ r[k + 1] = NumberStep(r[k], s[k + 1])
          /\ s[k + 1] \in Int
      BY ONLY <1>2, <1>3, <1>4, <2>1
    <3>2. r[k] \in Int
      BY ONLY <1>3, <2>1 DEF NumberStates
    <3>3. QED BY <1>6, <3>1, <3>2
  <2>3. CASE IsDigit(s[k + 1])
    <3>1. s[k + 1] # ignore
      BY <2>3
    <3>2. r[k + 1] = r[k] * 10 + (s[k + 1] - Zero)
      BY <2>2, <2>3 DEF NumberStep
    <3>3. q[k + 1] = Wrap(q[k] * 10 + s[k + 1] - Zero)
      BY <2>2, <2>3, <3>1 DEF ValueStep
    <3> DEFINE d == s[k + 1] - Zero
    <3>4. d \in Int
      BY <2>2 DEF Zero
    <3>5. q[k] * 10 + s[k + 1] - Zero = q[k] * 10 + d
      <4>1. q[k] \in Int
        BY <2>2, WrapType
      <4>2. QED BY <2>2, <4>1 DEF Zero
    <3> HIDE DEF d
    <3>6. Wrap(Wrap(r[k]) * 10 + d) = Wrap(r[k] * 10 + d)
      BY <2>2, <3>4, WrapWraps
    <3>7. q[k + 1] = Wrap(r[k + 1])
      BY <2>2, <3>2, <3>3, <3>5, <3>6 DEF d
    <3>8. QED BY <2>1, <3>7
  <2>4. CASE ~IsDigit(s[k + 1])
    BY <2>1, <2>2, <2>4 DEF ValueStep, NumberStep
  <2>5. QED BY <2>3, <2>4
<1>7. n \in G
  <2>1. \A k \in 0 .. n - 1 : k \in G => k + 1 \in G
    BY <1>6
  <2> HIDE DEF G
  <2>2. \A k \in 0 .. n : k \in G
    BY <1>4, <1>5, <2>1, Positions
  <2>3. QED BY ONLY <1>4, <2>2
<1>8. v = Wrap(NumberIn(s)) /\ NumberIn(s) \in Int
  BY <1>2, <1>3, <1>4, <1>7 DEF NumberStates
<1>9. Wrap(-Wrap(NumberIn(s))) = Wrap(-NumberIn(s))
  BY <1>8, 0 \in Int, WrapWraps
<1>10. QED BY <1>1, <1>8, <1>9

-----------------------------------------------------------------------------
(* print_long. *)

Long == -(2^(LongBits - 1)) .. 2^(LongBits - 1) - 1

LEMMA PrintUnsigned ==
  ASSUME LongBits \in 8 .. 32, NEW n \in 0 .. 2^LongBits - 1, NEW b \in 2 .. 16
  PROVE  LET t == printNumber(n, b) IN
         /\ t \in Seq(Int) /\ Len(t) \in 1 .. LongBits /\ Denotes(t, b) = n
         /\ b = 10 => (\A k \in 1 .. Len(t) : IsDigit(t[k])) /\ NumberIn(t) = n
<1> DEFINE t == printNumber(n, b)
<1>1. n \in Nat /\ LongBits \in Nat /\ LongBits \in 1 .. LongBits
  BY LongRange
<1>2. Left(n, b)[LongBits] = 0
  BY LeftVanishes
<1>3. /\ t \in Seq(Nat) /\ Len(t) \in 1 .. LongBits /\ Denotes(t, b) = n
      /\ b = 10 => \A k \in 1 .. Len(t) : IsDigit(t[k])
  BY <1>1, <1>2, PrintNumberIs
<1> HIDE DEF t
<1>4. t \in Seq(Int)
  BY <1>3
<1>5. b = 10 => NumberIn(t) = Denotes(t, 10)
  BY <1>3, <1>4, NumberOfDigits
<1>6. QED BY <1>3, <1>4, <1>5 DEF t

LEMMA PrintDecimal ==
  ASSUME LongBits \in 8 .. 32, NEW n \in 0 .. 2^LongBits - 1
  PROVE  LET t == printNumber(n, 10) IN
         /\ t \in Seq(Int) /\ Len(t) >= 1 /\ Denotes(t, 10) = n
         /\ (\A k \in 1 .. Len(t) : IsDigit(t[k])) /\ NumberIn(t) = n
<1>1. PICK b \in 2 .. 16 : b = 10
  OBVIOUS
<1> DEFINE t == printNumber(n, b)
<1>2. /\ t \in Seq(Int) /\ Len(t) \in 1 .. LongBits /\ Denotes(t, b) = n
      /\ b = 10 => (\A k \in 1 .. Len(t) : IsDigit(t[k])) /\ NumberIn(t) = n
  BY PrintUnsigned
<1> HIDE DEF t
<1>3. Len(t) >= 1
  BY <1>2
<1>4. QED BY <1>1, <1>2, <1>3 DEF t

\* A sign in front of digits.
LEMMA SignedText ==
  ASSUME NEW d \in Seq(Int), \A k \in 1 .. Len(d) : IsDigit(d[k]), Len(d) >= 1
  PROVE  LET t == <<Minus>> \o d IN
         /\ t \in Seq(Int) /\ Len(t) = Len(d) + 1 /\ Head(t) = Minus /\ t[1] = Minus /\ Tail(t) = d
         /\ (\A k \in 2 .. Len(t) : IsDigit(t[k])) /\ NumberIn(t) = NumberIn(d)
<1> DEFINE t == <<Minus>> \o d
<1>1. <<Minus>> \in Seq(Int) /\ <<>> \in Seq(Int) /\ Minus \in Int
  BY DEF Minus
<1>2. /\ t \in Seq(Int) /\ Len(t) = Len(d) + 1 /\ t[1] = Minus
      /\ \A k \in 1 .. Len(d) : t[k + 1] = d[k]
  BY <1>1
<1>3. Head(t) = Minus
  BY <1>2
<1>4. Tail(t) = d
  <2> HIDE DEF t
  <2> DEFINE u == Tail(t)
  <2>1. t # <<>>
    BY <1>2
  <2>2. u \in Seq(Int) /\ Len(u) = Len(d) /\ \A k \in 1 .. Len(d) : u[k] = t[k + 1]
    BY <1>2, <2>1
  <2> HIDE DEF u
  <2>3. \A k \in 1 .. Len(d) : u[k] = d[k]
    BY <1>2, <2>2
  <2>4. u = d
    BY <2>2, <2>3, SeqEqual
  <2>5. QED BY <2>4 DEF u
<1>5. ASSUME NEW k \in 2 .. Len(t) PROVE IsDigit(t[k])
  <2>1. k - 1 \in 1 .. Len(d) /\ (k - 1) + 1 = k
    BY <1>2
  <2>2. t[k] = d[k - 1]
    BY ONLY <1>2, <2>1
  <2>3. QED BY <2>1, <2>2
<1>6. NumberIn(t) = NumberIn(d)
  <2>1. ~IsDigit(Minus)
    BY DEF Minus, IsDigit, Zero
  <2>2. <<>> \o <<Minus>> = <<Minus>> /\ <<>> \o d = d
    BY <1>1
  <2>3. NumberIn((<<>> \o <<Minus>>) \o d) = NumberIn(<<>> \o d)
    BY <1>1, <2>1, NumberWithout
  <2>4. QED BY <2>2, <2>3
<1>7. QED BY <1>2, <1>3, <1>4, <1>5, <1>6

\* What print_long writes in base 10.
LEMMA PrintLongIs ==
  ASSUME LongBits \in 8 .. 32, NEW n \in Long
  PROVE  LET t == print_long(n, 10) IN
         /\ t \in Seq(Int) /\ Len(t) >= 1 /\ NumberIn(t) = IF n < 0 THEN -n ELSE n
         /\ \A k \in 2 .. Len(t) : IsDigit(t[k])
         /\ IF n < 0 THEN t[1] = Minus /\ Head(t) = Minus /\ Denotes(Tail(t), 10) = -n
            ELSE IsDigit(t[1]) /\ Denotes(t, 10) = n
<1> DEFINE t == print_long(n, 10)
<1>1. /\ n \in Int /\ -n \in Int
      /\ n < 0 => -n \in 0 .. 2^LongBits - 1
      /\ ~(n < 0) => n \in 0 .. 2^LongBits - 1
  BY LongRange DEF Long
<1>2. CASE n < 0
  <2> DEFINE d == printNumber(-n, 10)
  <2>1. Unsigned(-n) = -n
    BY <1>1, <1>2, WrapIs
  <2>2. t = <<Minus>> \o d
    BY <1>2, <2>1 DEF print_long
  <2>3. /\ d \in Seq(Int) /\ Len(d) >= 1 /\ Denotes(d, 10) = -n
        /\ (\A k \in 1 .. Len(d) : IsDigit(d[k])) /\ NumberIn(d) = -n
    BY <1>1, <1>2, PrintDecimal
  <2> HIDE DEF t, d
  <2>4. /\ t \in Seq(Int) /\ Len(t) = Len(d) + 1 /\ Head(t) = Minus /\ t[1] = Minus /\ Tail(t) = d
        /\ (\A k \in 2 .. Len(t) : IsDigit(t[k])) /\ NumberIn(t) = NumberIn(d)
    BY <2>2, <2>3, SignedText
  <2>5. Len(t) >= 1
    BY <2>3, <2>4
  <2>6. QED BY <1>2, <2>3, <2>4, <2>5 DEF t
<1>3. CASE ~(n < 0)
  <2>1. Unsigned(n) = n
    BY <1>1, <1>3, WrapIs
  <2>2. t = printNumber(n, 10)
    BY <1>3, <2>1 DEF print_long
  <2> HIDE DEF t
  <2>3. /\ t \in Seq(Int) /\ Len(t) >= 1 /\ Denotes(t, 10) = n
        /\ (\A k \in 1 .. Len(t) : IsDigit(t[k])) /\ NumberIn(t) = n
    BY <1>1, <1>3, <2>2, PrintDecimal
  <2>4. 1 \in 1 .. Len(t) /\ \A k \in 2 .. Len(t) : k \in 1 .. Len(t)
    BY <2>3
  <2>5. QED BY <1>3, <2>3, <2>4 DEF t
<1>4. QED BY <1>2, <1>3

\* And in another base.
LEMMA PrintLongBase ==
  ASSUME LongBits \in 8 .. 32, NEW n \in Long, NEW b \in {2, 8, 16}
  PROVE  LET t == print_long(n, b) IN Denotes(t, b) = Unsigned(n) /\ Len(t) <= LongBits
<1>1. Unsigned(n) \in 0 .. 2^LongBits - 1
  <2>1. n \in Int
    BY LongRange DEF Long
  <2>2. QED BY <2>1, LongRange, DivMod DEF Unsigned
<1>2. print_long(n, b) = printNumber(Unsigned(n), b) /\ b \in 2 .. 16
  BY DEF print_long
<1>3. Denotes(printNumber(Unsigned(n), b), b) = Unsigned(n)
      /\ Len(printNumber(Unsigned(n), b)) \in 1 .. LongBits
  BY <1>1, <1>2, PrintUnsigned
<1>4. QED BY <1>2, <1>3

-----------------------------------------------------------------------------
(* Where a number begins and ends in a stream. *)

\* Which characters end the search of peekNextDigit, and how many come before the first.
IsNumeric(c, detectDecimal) == c = Minus \/ IsDigit(c) \/ (detectDecimal /\ c = Dot)
Stopping(c, lookahead, detectDecimal) ==
  c = Timeout \/ IsNumeric(c, detectDecimal) \/ ~Skipped(c, lookahead)
NumberAt(s, lookahead, detectDecimal) ==
  LET Stops(c) == Stopping(c, lookahead, detectDecimal) IN Before(s, Stops)

\* peekNextDigit stands at the first of them.
LEMMA FoundIs ==
  ASSUME NEW s \in Seq(Int), NEW lookahead, NEW detectDecimal, NEW m \in 0 .. Len(s) - 1,
         Stopping(s[m + 1], lookahead, detectDecimal),
         \A i \in 1 .. m : ~Stopping(s[i], lookahead, detectDecimal)
  PROVE  NumberAt(s, lookahead, detectDecimal) = m
<1> DEFINE I == {i \in 1 .. Len(s) : Stopping(s[i], lookahead, detectDecimal)}
           b == LET k == IF I # {} THEN Min(I) ELSE 0 IN IF k = 0 THEN Len(s) ELSE k - 1
<1>1. NumberAt(s, lookahead, detectDecimal) = b
  BY DEF NumberAt, Before, SelectInSeq
<1>2. b \in 0 .. Len(s) /\ (b < Len(s) => b + 1 \in I) /\ (\A i \in 1 .. b : i \notin I)
  <2>1. Len(s) \in Nat /\ I \in SUBSET (1 .. Len(s))
    OBVIOUS
  <2> HIDE DEF I
  <2>2. QED BY <2>1, FirstOf
<1>3. m + 1 \in I /\ \A i \in 1 .. m : i \notin I
  OBVIOUS
<1>4. Len(s) \in Nat
  OBVIOUS
<1> HIDE DEF b, I
<1>5. b = m
  BY ONLY <1>2, <1>3, <1>4, m \in 0 .. Len(s) - 1
<1>6. QED BY <1>1, <1>5

\* What is left of a stream, and its first character.
LEMMA DropIs ==
  ASSUME NEW s \in Seq(Int), NEW m \in 0 .. Len(s)
  PROVE  /\ Drop(s, m) \in Seq(Int) /\ Len(Drop(s, m)) = Len(s) - m
         /\ \A k \in 1 .. Len(s) - m : Drop(s, m)[k] = s[m + k]
         /\ m < Len(s) => Drop(s, m) # <<>> /\ Head(Drop(s, m)) = s[m + 1]
         /\ m = Len(s) => Drop(s, m) = <<>>
<1> DEFINE u == Drop(s, m)
<1>1. /\ u \in Seq(Int) /\ Len(u) = Len(s) - m
      /\ \A k \in 1 .. Len(s) - m : u[k] = s[m + k]
  BY DEF Drop
<1> HIDE DEF u
<1>2. m < Len(s) => u # <<>> /\ Head(u) = s[m + 1]
  <2>1. SUFFICES ASSUME m < Len(s) PROVE u # <<>> /\ Head(u) = s[m + 1]
    OBVIOUS
  <2>2. Len(u) # 0 /\ u[1] = s[m + 1]
    BY <1>1, <2>1
  <2>3. u # <<>>
    BY <2>2
  <2>4. QED BY <1>1, <2>2, <2>3
<1>3. m = Len(s) => u = <<>>
  BY <1>1
<1>4. QED BY <1>1, <1>2, <1>3 DEF u

LEMMA PeekIs ==
  ASSUME NEW s \in Seq(Int), NEW lookahead, NEW detectDecimal, NEW m \in 0 .. Len(s) - 1,
         Stopping(s[m + 1], lookahead, detectDecimal), s[m + 1] # Timeout,
         \A i \in 1 .. m : ~Stopping(s[i], lookahead, detectDecimal)
  PROVE  peekNextDigit(s, lookahead, detectDecimal) =
           IF IsNumeric(s[m + 1], detectDecimal) THEN Result(s[m + 1], Drop(s, m))
           ELSE Result(-1, Drop(s, m))
<1>1. NumberAt(s, lookahead, detectDecimal) = m
  BY FoundIs
<1> DEFINE p == timedPeek(Drop(s, NumberAt(s, lookahead, detectDecimal)))
<1>2. peekNextDigit(s, lookahead, detectDecimal) =
        IF IsNumeric(p.value, detectDecimal) THEN p ELSE Result(-1, p.rest)
  BY DEF peekNextDigit, NumberAt, Stopping, IsNumeric
<1>3. Drop(s, m) # <<>> /\ Head(Drop(s, m)) = s[m + 1]
  <2>1. m \in 0 .. Len(s) /\ m < Len(s)
    OBVIOUS
  <2>2. QED BY <2>1, DropIs
<1>4. p = Result(s[m + 1], Drop(s, m))
  BY <1>1, <1>3 DEF timedPeek
<1>5. p.value = s[m + 1] /\ p.rest = Drop(s, m)
  BY <1>4 DEF Result
<1> HIDE DEF p
<1>6. QED BY <1>2, <1>4, <1>5

\* The same for parseInt, which takes no point.
StopsInt(c, lookahead) == c \in {Timeout, Minus} \/ IsDigit(c) \/ ~Skipped(c, lookahead)
BeginsInt(c) == c = Minus \/ IsDigit(c)

LEMMA PeekInt ==
  ASSUME NEW s \in Seq(Int), NEW lookahead, NEW m \in 0 .. Len(s) - 1,
         StopsInt(s[m + 1], lookahead), s[m + 1] # Timeout,
         \A i \in 1 .. m : ~StopsInt(s[i], lookahead)
  PROVE  peekNextDigit(s, lookahead, FALSE) =
           IF BeginsInt(s[m + 1]) THEN Result(s[m + 1], Drop(s, m)) ELSE Result(-1, Drop(s, m))
<1>1. \A c : Stopping(c, lookahead, FALSE) <=> StopsInt(c, lookahead)
  BY DEF Stopping, IsNumeric, StopsInt
<1>2. \A c : IsNumeric(c, FALSE) <=> BeginsInt(c)
  BY DEF IsNumeric, BeginsInt
<1>3. Stopping(s[m + 1], lookahead, FALSE) /\ \A i \in 1 .. m : ~Stopping(s[i], lookahead, FALSE)
  BY <1>1
<1>4. peekNextDigit(s, lookahead, FALSE) =
        IF IsNumeric(s[m + 1], FALSE) THEN Result(s[m + 1], Drop(s, m)) ELSE Result(-1, Drop(s, m))
  BY ONLY <1>3, s \in Seq(Int), m \in 0 .. Len(s) - 1, s[m + 1] # Timeout, PeekIs
<1>5. QED BY <1>2, <1>4

\* The greatest number all positions behind the first and up to which are in a set.
LEMMA LongestIs ==
  ASSUME NEW n \in Nat, NEW P, NEW m \in 1 .. n, \A k \in 2 .. m : k \in P,
         m < n => m + 1 \notin P
  PROVE  Max({j \in 1 .. n : \A k \in 2 .. j : k \in P}) = m
<1> DEFINE S == {j \in 1 .. n : \A k \in 2 .. j : k \in P}
<1>1. m \in S
  OBVIOUS
<1>2. ASSUME NEW j \in S PROVE j <= m
  <2>1. SUFFICES ASSUME j > m PROVE FALSE
    OBVIOUS
  <2>2. m < n /\ m + 1 \in 2 .. j
    BY <2>1
  <2>3. QED BY <2>2
<1>3. S \in SUBSET (0 .. n) /\ S # {}
  BY <1>1
<1> HIDE DEF S
<1>4. Max(S) \in S /\ \A j \in S : j <= Max(S)
  BY <1>3, GreatestElement
<1>5. Max(S) \in Int
  <2>1. \A j \in S : j \in Int
    BY <1>3
  <2>2. QED BY <1>4, <2>1
<1>6. Max(S) = m
  BY <1>1, <1>2, <1>4, <1>5
<1>7. QED BY <1>6 DEF S

\* What parseInt takes: the first character and those behind it that go on with a number.
TakenInt(s, ignore) == LET More(before, c) == IsDigit(c) \/ c = ignore IN Taken(s, More)

LEMMA TakenIs ==
  ASSUME NEW s \in Seq(Int), NEW ignore, NEW m \in 1 .. Len(s),
         \A k \in 2 .. m : IsDigit(s[k]) \/ s[k] = ignore,
         m < Len(s) => ~IsDigit(s[m + 1]) /\ s[m + 1] # ignore
  PROVE  TakenInt(s, ignore) = SubSeq(s, 1, m)
<1> DEFINE P == {k \in 1 .. Len(s) : IsDigit(s[k]) \/ s[k] = ignore}
           F == {j \in 1 .. Len(s) : \A k \in 2 .. j : IsDigit(s[k]) \/ s[k] = ignore}
<1>1. TakenInt(s, ignore) = SubSeq(s, 1, Max(F))
  BY DEF TakenInt, Taken
<1>2. F = {j \in 1 .. Len(s) : \A k \in 2 .. j : k \in P}
  <2>1. \A j \in 1 .. Len(s) : \A k \in 2 .. j : k \in 1 .. Len(s)
    OBVIOUS
  <2>2. QED BY <2>1
<1>3. Len(s) \in Nat /\ (\A k \in 2 .. m : k \in P) /\ (m < Len(s) => m + 1 \notin P)
  OBVIOUS
<1> HIDE DEF P, F
<1>4. Max(F) = m
  BY <1>2, <1>3, LongestIs
<1>5. QED BY <1>1, <1>4

-----------------------------------------------------------------------------
(* parseInt. *)

\* The parts of a stream made of three.
LEMMA ThreeParts ==
  ASSUME NEW a \in Seq(Int), NEW b \in Seq(Int), NEW c \in Seq(Int)
  PROVE  LET s == (a \o b) \o c IN
         /\ s \in Seq(Int) /\ Len(s) = Len(a) + Len(b) + Len(c)
         /\ \A i \in 1 .. Len(a) : s[i] = a[i]
         /\ \A i \in 1 .. Len(b) : s[Len(a) + i] = b[i]
         /\ \A i \in 1 .. Len(c) : s[Len(a) + Len(b) + i] = c[i]
<1> DEFINE ab == a \o b
           s == ab \o c
<1>1. /\ ab \in Seq(Int) /\ Len(ab) = Len(a) + Len(b)
      /\ \A i \in 1 .. Len(a) : ab[i] = a[i]
      /\ \A i \in 1 .. Len(b) : ab[Len(a) + i] = b[i]
  OBVIOUS
<1> HIDE DEF ab
<1>2. /\ s \in Seq(Int) /\ Len(s) = Len(ab) + Len(c)
      /\ \A i \in 1 .. Len(ab) : s[i] = ab[i]
      /\ \A i \in 1 .. Len(c) : s[Len(ab) + i] = c[i]
  <2>1. ab \in Seq(Int)
    BY <1>1
  <2>2. QED BY ONLY <2>1, c \in Seq(Int)
<1> HIDE DEF s
<1>3. Len(a) \in Nat /\ Len(b) \in Nat /\ Len(c) \in Nat
  OBVIOUS
<1>4. (\A i \in 1 .. Len(a) : i \in 1 .. Len(ab)) /\ (\A i \in 1 .. Len(b) : Len(a) + i \in 1 .. Len(ab))
  BY ONLY <1>1, <1>3
<1>5. QED
  <2>1. Len(s) = Len(a) + Len(b) + Len(c)
    BY <1>1, <1>2
  <2>2. \A i \in 1 .. Len(a) : s[i] = a[i]
    BY ONLY <1>1, <1>2, <1>4
  <2>3. \A i \in 1 .. Len(b) : s[Len(a) + i] = b[i]
    BY ONLY <1>1, <1>2, <1>4
  <2>4. \A i \in 1 .. Len(c) : s[Len(a) + Len(b) + i] = c[i]
    BY ONLY <1>1, <1>2
  <2>5. QED BY <1>2, <2>1, <2>2, <2>3, <2>4 DEF s, ab

LEMMA Regrouped ==
  ASSUME NEW a \in Seq(Int), NEW b \in Seq(Int), NEW c \in Seq(Int)
  PROVE  a \o (b \o c) = (a \o b) \o c
<1> DEFINE x == a \o (b \o c)
           y == (a \o b) \o c
<1>1. b \o c \in Seq(Int) /\ Len(b \o c) = Len(b) + Len(c) /\ a \o b \in Seq(Int)
      /\ Len(a \o b) = Len(a) + Len(b)
  OBVIOUS
<1>2. x \in Seq(Int) /\ Len(x) = Len(a) + Len(b) + Len(c)
  BY <1>1
<1>3. y \in Seq(Int) /\ Len(y) = Len(a) + Len(b) + Len(c)
  BY <1>1
<1>4. \A i \in 1 .. Len(x) : x[i] = y[i]
  BY <1>1
<1>5. x = y
  <2> HIDE DEF x, y
  <2>1. QED BY <1>2, <1>3, <1>4, SeqEqual
<1>6. QED BY <1>5

\* A stream of two parts falls apart again.
LEMMA TwoParts ==
  ASSUME NEW b \in Seq(Int), NEW c \in Seq(Int)
  PROVE  /\ b \o c \in Seq(Int) /\ Len(b \o c) = Len(b) + Len(c)
         /\ \A i \in 1 .. Len(b) : (b \o c)[i] = b[i]
         /\ \A i \in 1 .. Len(c) : (b \o c)[Len(b) + i] = c[i]
         /\ SubSeq(b \o c, 1, Len(b)) = b /\ Drop(b \o c, Len(b)) = c
<1> DEFINE s == b \o c
           front == SubSeq(s, 1, Len(b))
           back == Drop(s, Len(b))
<1>1. /\ s \in Seq(Int) /\ Len(s) = Len(b) + Len(c)
      /\ \A i \in 1 .. Len(b) : s[i] = b[i]
      /\ \A i \in 1 .. Len(c) : s[Len(b) + i] = c[i]
  OBVIOUS
<1> HIDE DEF s
<1>2. Len(b) \in 0 .. Len(s) /\ Len(b) \in Nat /\ Len(c) \in Nat
  BY <1>1
<1>3. front \in Seq(Int) /\ Len(front) = Len(b) /\ \A i \in 1 .. Len(b) : front[i] = s[i]
  BY <1>1, <1>2
<1>4. back \in Seq(Int) /\ Len(back) = Len(c) /\ \A i \in 1 .. Len(c) : back[i] = s[Len(b) + i]
  <2>1. /\ back \in Seq(Int) /\ Len(back) = Len(s) - Len(b)
        /\ \A k \in 1 .. Len(s) - Len(b) : back[k] = s[Len(b) + k]
    BY <1>1, <1>2, DropIs
  <2>2. Len(s) - Len(b) = Len(c)
    BY <1>1, <1>2
  <2> HIDE DEF back
  <2>3. QED BY <2>1, <2>2
<1> HIDE DEF front, back
<1>5. \A i \in 1 .. Len(b) : front[i] = b[i]
  BY <1>1, <1>3
<1>6. \A i \in 1 .. Len(c) : back[i] = c[i]
  BY <1>1, <1>4
<1>7. front = b /\ back = c
  BY <1>3, <1>4, <1>5, <1>6, SeqEqual
<1>8. QED BY <1>1, <1>7 DEF s, front, back

\* A number that stands behind characters parseInt skips and in front of one that does not
\* go on with it.
Stands(junk, text, tail, lookahead, ignore) ==
  /\ junk \in Seq(Int) /\ text \in Seq(Int) /\ tail \in Seq(Int)
  /\ Len(text) >= 1 /\ BeginsInt(text[1])
  /\ \A k \in 2 .. Len(text) : IsDigit(text[k]) \/ text[k] = ignore
  /\ \A i \in 1 .. Len(junk) : ~StopsInt(junk[i], lookahead)
  /\ Len(tail) >= 1 => ~IsDigit(tail[1]) /\ tail[1] # ignore

\* parseInt reads it, and what follows it if that is a timeout.
LEMMA ParseIntIs ==
  ASSUME NEW junk, NEW text, NEW tail, NEW lookahead, NEW ignore,
         Stands(junk, text, tail, lookahead, ignore)
  PROVE  parseInt((junk \o text) \o tail, lookahead, ignore) =
           Result(Value(text, ignore), timedPeek(tail).rest)
<1>1. /\ junk \in Seq(Int) /\ text \in Seq(Int) /\ tail \in Seq(Int)
      /\ Len(text) >= 1 /\ BeginsInt(text[1])
      /\ \A k \in 2 .. Len(text) : IsDigit(text[k]) \/ text[k] = ignore
      /\ \A i \in 1 .. Len(junk) : ~StopsInt(junk[i], lookahead)
      /\ Len(tail) >= 1 => ~IsDigit(tail[1]) /\ tail[1] # ignore
  BY DEF Stands
<1> DEFINE s == (junk \o text) \o tail
           m == Len(junk)
           u == Drop(s, m)
<1>2. /\ s \in Seq(Int) /\ Len(s) = Len(junk) + Len(text) + Len(tail)
      /\ \A i \in 1 .. Len(junk) : s[i] = junk[i]
      /\ \A i \in 1 .. Len(text) : s[Len(junk) + i] = text[i]
      /\ \A i \in 1 .. Len(tail) : s[Len(junk) + Len(text) + i] = tail[i]
  BY <1>1, ThreeParts
<1>3. u = text \o tail
  <2>1. junk \o (text \o tail) = s
    BY <1>1, Regrouped
  <2>2. text \o tail \in Seq(Int)
    BY <1>1
  <2> HIDE DEF s
  <2>3. Drop(junk \o (text \o tail), Len(junk)) = text \o tail
    BY <1>1, <2>2, TwoParts
  <2>4. QED BY <2>1, <2>3
<1> HIDE DEF s
<1>4. m \in 0 .. Len(s) - 1 /\ 1 \in 1 .. Len(text) /\ Len(tail) \in Nat
  BY <1>1, <1>2, SMTT(60)
<1>5. s[m + 1] = text[1]
  BY <1>1, <1>2, <1>4
<1>6. StopsInt(s[m + 1], lookahead) /\ s[m + 1] # Timeout /\ s[m + 1] >= 0
  <2>1. BeginsInt(s[m + 1])
    BY <1>1, <1>5
  <2>2. s[m + 1] \in Int
    BY <1>1, <1>2, <1>4
  <2>3. QED BY ONLY <2>1, <2>2 DEF StopsInt, BeginsInt, IsDigit, Minus, Zero, Timeout
<1>7. \A i \in 1 .. m : ~StopsInt(s[i], lookahead)
  BY <1>1, <1>2
<1>8. peekNextDigit(s, lookahead, FALSE) = Result(text[1], u)
  <2>1. peekNextDigit(s, lookahead, FALSE) =
           IF BeginsInt(s[m + 1]) THEN Result(s[m + 1], Drop(s, m)) ELSE Result(-1, Drop(s, m))
    BY <1>1, <1>2, <1>4, <1>6, <1>7, PeekInt
  <2>2. QED BY <1>1, <1>5, <2>1
<1>9. /\ u \in Seq(Int) /\ Len(u) = Len(text) + Len(tail)
      /\ \A i \in 1 .. Len(text) : u[i] = text[i]
      /\ \A i \in 1 .. Len(tail) : u[Len(text) + i] = tail[i]
      /\ SubSeq(u, 1, Len(text)) = text /\ Drop(u, Len(text)) = tail
  BY <1>1, <1>3, TwoParts
<1> HIDE DEF u
<1>10. TakenInt(u, ignore) = text
  <2>1. Len(text) \in 1 .. Len(u) /\ \A k \in 2 .. Len(text) : k \in 1 .. Len(text)
    BY <1>1, <1>9
  <2>2. \A k \in 2 .. Len(text) : IsDigit(u[k]) \/ u[k] = ignore
    BY <1>1, <1>9, <2>1
  <2>3. Len(text) < Len(u) => ~IsDigit(u[Len(text) + 1]) /\ u[Len(text) + 1] # ignore
    <3>1. SUFFICES ASSUME Len(text) < Len(u)
                   PROVE  ~IsDigit(u[Len(text) + 1]) /\ u[Len(text) + 1] # ignore
      OBVIOUS
    <3>2. Len(tail) >= 1 /\ 1 \in 1 .. Len(tail)
      BY <1>1, <1>4, <1>9, <3>1
    <3>3. QED BY <1>1, <1>9, <3>2
  <2>4. TakenInt(u, ignore) = SubSeq(u, 1, Len(text))
    <3>1. u \in Seq(Int)
      BY <1>1, <1>9
    <3>2. QED BY ONLY <2>1, <2>2, <2>3, <3>1, TakenIs
  <2>5. QED BY <1>1, <1>9, <2>4
<1> DEFINE p == peekNextDigit(s, lookahead, FALSE)
<1>11. p.value = text[1] /\ p.rest = u /\ ~(text[1] < 0)
  <2>1. p.value = text[1] /\ p.rest = u
    <3>1. p = Result(text[1], u)
      BY <1>1, <1>8
    <3> HIDE DEF p
    <3>2. QED BY ONLY <3>1 DEF Result
  <2>2. text[1] \in Int
    BY <1>1, <1>4
  <2>3. ~(text[1] < 0)
    BY ONLY <1>5, <1>6, <2>2
  <2>4. QED BY <2>1, <2>3
<1>12. parseInt(s, lookahead, ignore) =
         IF p.value < 0 THEN Result(0, p.rest)
         ELSE Result(Value(TakenInt(p.rest, ignore), ignore),
                     timedPeek(Drop(p.rest, Len(TakenInt(p.rest, ignore)))).rest)
  BY DEF parseInt, TakenInt
<1> HIDE DEF p
<1>13. parseInt(s, lookahead, ignore) = Result(Value(text, ignore), timedPeek(tail).rest)
  BY <1>1, <1>9, <1>10, <1>11, <1>12
<1>14. QED BY <1>1, <1>13 DEF s

-----------------------------------------------------------------------------
(* parseInt where there is no number. *)

LEMMA ReverseIs ==
  ASSUME NEW s \in Seq(Int)
  PROVE  /\ Reverse(s) \in Seq(Int) /\ Len(Reverse(s)) = Len(s)
         /\ \A i \in 1 .. Len(s) : Reverse(s)[i] = s[(Len(s) - i) + 1]
<1>1. Len(s) \in Nat /\ \A i \in 1 .. Len(s) : (Len(s) - i) + 1 \in 1 .. Len(s)
  OBVIOUS
<1>2. \A i \in 1 .. Len(s) : s[(Len(s) - i) + 1] \in Int
  BY <1>1
<1>3. QED BY <1>1, <1>2 DEF Reverse

\* The end of a sequence is a suffix of it.
LEMMA SuffixIs ==
  ASSUME NEW z \in Seq(Int), NEW y \in Seq(Int), NEW d \in Nat, Len(y) = d + Len(z),
         \A k \in 1 .. Len(z) : z[k] = y[d + k]
  PROVE  IsSuffix(z, y)
<1> DEFINE n == Len(z)
           rz == Reverse(z)
           ry == Reverse(y)
           u == SubSeq(rz, 1, n)
           v == SubSeq(ry, 1, n)
<1>1. /\ rz \in Seq(Int) /\ Len(rz) = n
      /\ \A i \in 1 .. n : rz[i] = z[(n - i) + 1]
  BY ReverseIs
<1>2. /\ ry \in Seq(Int) /\ Len(ry) = d + n
      /\ \A i \in 1 .. d + n : ry[i] = y[((d + n) - i) + 1]
  <2>1. /\ ry \in Seq(Int) /\ Len(ry) = Len(y)
        /\ \A i \in 1 .. Len(y) : ry[i] = y[(Len(y) - i) + 1]
    BY ReverseIs
  <2> HIDE DEF ry
  <2>2. QED BY <2>1
<1>3. n \in Nat /\ n <= d + n
  OBVIOUS
<1>4. \A k \in 1 .. n : z[k] = y[d + k]
  OBVIOUS
<1>5. IsSuffix(z, y) <=> Len(rz) <= Len(ry) /\ SubSeq(rz, 1, Len(rz)) = SubSeq(ry, 1, Len(rz))
  BY DEF IsSuffix, IsPrefix
<1> HIDE DEF rz, ry, n
<1>6. u \in Seq(Int) /\ Len(u) = n /\ \A i \in 1 .. n : u[i] = rz[i]
  BY <1>1, <1>3
<1>7. v \in Seq(Int) /\ Len(v) = n /\ \A i \in 1 .. n : v[i] = ry[i]
  BY <1>2, <1>3
<1> HIDE DEF u, v
<1>8. ASSUME NEW i \in 1 .. n PROVE u[i] = v[i]
  <2>1. i \in 1 .. d + n /\ (n - i) + 1 \in 1 .. n /\ d + ((n - i) + 1) = ((d + n) - i) + 1
    BY <1>3
  <2>2. u[i] = z[(n - i) + 1]
    BY <1>1, <1>6
  <2>3. v[i] = y[((d + n) - i) + 1]
    BY <1>2, <1>7, <2>1
  <2>4. QED BY <1>4, <2>1, <2>2, <2>3
<1>9. u = v
  BY <1>6, <1>7, <1>8, SeqEqual
<1>10. Len(rz) <= Len(ry)
  BY <1>1, <1>2, <1>3
<1>11. QED BY <1>1, <1>5, <1>9, <1>10 DEF u, v

\* What parseInt does where it may skip spaces only and meets something else first.
LEMMA ParseIntFails ==
  ASSUME NEW junk \in Seq(Int), NEW text \in Seq(Int), NEW tail \in Seq(Int), NEW ignore,
         \A i \in 1 .. Len(junk) : ~BeginsInt(junk[i]) /\ junk[i] # Timeout,
         NEW j \in 1 .. Len(junk), ~IsSpace(junk[j])
  PROVE  LET w == parseInt((junk \o text) \o tail, "SKIP_WHITESPACE", ignore)
         IN  w.value = 0 /\ IsSuffix(text \o tail, w.rest)
<1> DEFINE s == (junk \o text) \o tail
           z == text \o tail
           I == {i \in 1 .. Len(junk) : ~IsSpace(junk[i])}
<1>1. PICK l : l = "SKIP_WHITESPACE"
  OBVIOUS
<1>2. PICK i \in I : \A k \in I : i <= k
  <2>1. I \in SUBSET Nat /\ j \in I
    OBVIOUS
  <2> HIDE DEF I
  <2>2. QED BY <2>1, LeastElement
<1> DEFINE m == i - 1
<1>3. /\ m + 1 \in 1 .. Len(junk) /\ m \in Nat /\ ~IsSpace(junk[m + 1])
      /\ \A k \in 1 .. m : k \in 1 .. Len(junk) /\ IsSpace(junk[k])
  BY <1>2
<1> HIDE DEF m, I
<1>4. /\ s \in Seq(Int) /\ Len(s) = Len(junk) + Len(text) + Len(tail)
      /\ \A k \in 1 .. Len(junk) : s[k] = junk[k]
      /\ \A k \in 1 .. Len(text) : s[Len(junk) + k] = text[k]
      /\ \A k \in 1 .. Len(tail) : s[Len(junk) + Len(text) + k] = tail[k]
  BY ThreeParts
<1>5. /\ z \in Seq(Int) /\ Len(z) = Len(text) + Len(tail)
      /\ \A k \in 1 .. Len(z) : z[k] = s[Len(junk) + k]
  <2>1. junk \o z = s
    BY Regrouped
  <2>2. z \in Seq(Int) /\ Len(z) = Len(text) + Len(tail)
    OBVIOUS
  <2> HIDE DEF s, z
  <2>3. \A k \in 1 .. Len(z) : (junk \o z)[Len(junk) + k] = z[k]
    BY <2>2, TwoParts
  <2>4. QED BY <2>1, <2>2, <2>3
<1> HIDE DEF s, z
<1>6. Len(junk) \in Nat /\ Len(text) \in Nat /\ Len(tail) \in Nat
  OBVIOUS
<1>7. m \in 0 .. Len(s) - 1 /\ m \in 0 .. Len(s) /\ s[m + 1] = junk[m + 1]
  BY <1>3, <1>4, <1>6
<1>8. StopsInt(s[m + 1], l) /\ s[m + 1] # Timeout /\ ~BeginsInt(s[m + 1])
  BY <1>1, <1>3, <1>7 DEF StopsInt, Skipped
<1>9. \A k \in 1 .. m : ~StopsInt(s[k], l)
  <2>1. \A k \in 1 .. m : ~BeginsInt(s[k]) /\ s[k] # Timeout /\ IsSpace(s[k])
    BY <1>3, <1>4
  <2>2. QED BY <1>1, <2>1 DEF StopsInt, BeginsInt, Skipped
<1> DEFINE p == peekNextDigit(s, l, FALSE)
           y == Drop(s, m)
<1>10. p = Result(-1, y)
  <2>1. p = IF BeginsInt(s[m + 1]) THEN Result(s[m + 1], Drop(s, m)) ELSE Result(-1, Drop(s, m))
    <3>1. s \in Seq(Int) /\ m \in 0 .. Len(s) - 1
      BY <1>4, <1>7
    <3>2. QED BY ONLY <3>1, <1>8, <1>9, PeekInt
  <2> HIDE DEF p
  <2>2. QED BY <1>8, <2>1
<1>11. p.value < 0 /\ p.rest = y
  <2> HIDE DEF p, y
  <2>1. QED BY ONLY <1>10 DEF Result
<1>12. parseInt(s, l, ignore) = Result(0, y)
  BY <1>11 DEF parseInt
<1>13. /\ y \in Seq(Int) /\ Len(y) = Len(s) - m
       /\ \A k \in 1 .. Len(s) - m : y[k] = s[m + k]
  BY <1>4, <1>7, DropIs
<1> HIDE DEF p, y
<1> DEFINE d == Len(junk) - m
<1>14. /\ d \in Nat /\ Len(y) = d + Len(z)
  <2>1. m + 1 \in 1 .. Len(junk) /\ m \in Nat
    BY <1>3
  <2>2. Len(y) = (Len(junk) + Len(text) + Len(tail)) - m /\ Len(z) = Len(text) + Len(tail)
    BY <1>4, <1>5, <1>13
  <2>3. QED BY ONLY <1>6, <2>1, <2>2
<1>15. ASSUME NEW k \in 1 .. Len(z) PROVE z[k] = y[d + k]
  <2>1. d + k \in 1 .. Len(s) - m /\ m + (d + k) = Len(junk) + k
    <3>1. \A a, b, c, m0 \in Nat : \A i0 \in 1 .. (b + c) : m0 + 1 <= a =>
            (a - m0) + i0 \in 1 .. (((a + b) + c) - m0) /\ m0 + ((a - m0) + i0) = a + i0
      OBVIOUS
    <3>2. m \in Nat /\ m + 1 <= Len(junk) /\ k \in 1 .. Len(text) + Len(tail)
      BY <1>3, <1>5
    <3>3. d + k \in 1 .. (Len(junk) + Len(text) + Len(tail)) - m
            /\ m + (d + k) = Len(junk) + k
      BY ONLY <1>6, <3>1, <3>2
    <3>4. QED BY ONLY <1>4, <3>3
  <2> HIDE DEF d
  <2>2. QED BY <1>5, <1>13, <2>1
<1> HIDE DEF d
<1>16. IsSuffix(z, y)
  BY <1>5, <1>13, <1>14, <1>15, SuffixIs
<1> DEFINE w == parseInt(s, l, ignore)
<1>17. w.value = 0 /\ w.rest = y
  <2> HIDE DEF w
  <2>1. w = Result(0, y)
    BY <1>12 DEF w
  <2>2. QED BY ONLY <2>1 DEF Result
<1>18. QED BY <1>1, <1>16, <1>17 DEF s, z

-----------------------------------------------------------------------------
(* Grouped digits. *)

\* A sequence is its two parts put together.
LEMMA Parted ==
  ASSUME NEW t \in Seq(Int), NEW k \in 1 .. Len(t) - 1
  PROVE  /\ SubSeq(t, 1, k) \in Seq(Int) /\ SubSeq(t, k + 1, Len(t)) \in Seq(Int)
         /\ Len(SubSeq(t, 1, k)) = k /\ Len(SubSeq(t, k + 1, Len(t))) = Len(t) - k
         /\ \A i \in 1 .. k : SubSeq(t, 1, k)[i] = t[i]
         /\ \A i \in 1 .. Len(t) - k : SubSeq(t, k + 1, Len(t))[i] = t[k + i]
         /\ SubSeq(t, 1, k) \o SubSeq(t, k + 1, Len(t)) = t
<1> DEFINE a == SubSeq(t, 1, k)
           b == SubSeq(t, k + 1, Len(t))
           s == a \o b
<1>1. /\ a \in Seq(Int) /\ Len(a) = k
      /\ \A i \in 1 .. k : a[i] = t[i]
  OBVIOUS
<1>2. /\ b \in Seq(Int) /\ Len(b) = Len(t) - k
      /\ \A i \in 1 .. Len(t) - k : b[i] = t[k + i]
  <2>1. k \in 0 .. Len(t) /\ b = Drop(t, k)
    BY DEF Drop
  <2> HIDE DEF b
  <2>2. QED BY <2>1, DropIs
<1> HIDE DEF a, b
<1>3. /\ s \in Seq(Int) /\ Len(s) = Len(t)
      /\ \A i \in 1 .. Len(a) : s[i] = a[i]
      /\ \A i \in 1 .. Len(b) : s[Len(a) + i] = b[i]
  <2>1. a \in Seq(Int) /\ b \in Seq(Int) /\ Len(t) \in Nat
    BY <1>1, <1>2
  <2>2. /\ s \in Seq(Int) /\ Len(s) = Len(a) + Len(b)
        /\ \A i \in 1 .. Len(a) : s[i] = a[i]
        /\ \A i \in 1 .. Len(b) : s[Len(a) + i] = b[i]
    BY ONLY <2>1, TwoParts
  <2>3. Len(s) = Len(t)
    BY <1>1, <1>2, <2>1, <2>2
  <2>4. QED BY <2>2, <2>3
<1>4. ASSUME NEW i \in 1 .. Len(t) PROVE s[i] = t[i]
  <2>1. CASE i <= k
    <3>1. i \in 1 .. Len(a) /\ i \in 1 .. k
      BY <1>1, <2>1
    <3>2. QED BY ONLY <1>1, <1>3, <3>1
  <2>2. CASE i > k
    <3>1. i - k \in 1 .. Len(b) /\ i - k \in 1 .. Len(t) - k /\ Len(a) + (i - k) = i /\ k + (i - k) = i
      BY <1>1, <1>2, <2>2
    <3>2. s[Len(a) + (i - k)] = b[i - k]
      BY ONLY <1>3, <3>1
    <3>3. QED BY <1>2, <3>1, <3>2
  <2>3. i <= k \/ i > k
    OBVIOUS
  <2> HIDE DEF s
  <2>4. QED BY ONLY <2>1, <2>2, <2>3
<1> HIDE DEF s
<1>5. s = t
  BY <1>3, <1>4, SeqEqual
<1>6. QED BY <1>1, <1>2, <1>5 DEF s, a, b

\* A comma inside a text: where everything stands, and that the number is the same.
LEMMA CommaInside ==
  ASSUME NEW t \in Seq(Int), NEW k \in 1 .. Len(t) - 1
  PROVE  LET u == WithComma(t, k) IN
         /\ u \in Seq(Int) /\ Len(u) = Len(t) + 1 /\ NumberIn(u) = NumberIn(t)
         /\ \A i \in 1 .. k : u[i] = t[i]
         /\ u[k + 1] = Comma
         /\ \A i \in k + 1 .. Len(t) : u[i + 1] = t[i]
<1> DEFINE u == WithComma(t, k)
           a == SubSeq(t, 1, k)
           b == SubSeq(t, k + 1, Len(t))
           c == <<Comma>>
<1>1. ~(k >= Len(t)) /\ (k + 1) - 1 = k /\ k \in Nat \ {0} /\ Len(t) \in Nat
  OBVIOUS
<1>2. u = (a \o c) \o b
  BY <1>1 DEF WithComma, InsertAt
<1>3. /\ a \in Seq(Int) /\ b \in Seq(Int) /\ Len(a) = k /\ Len(b) = Len(t) - k
      /\ \A i \in 1 .. k : a[i] = t[i]
      /\ \A i \in 1 .. Len(t) - k : b[i] = t[k + i]
      /\ a \o b = t
  BY Parted
<1>4. c \in Seq(Int) /\ Len(c) = 1 /\ c[1] = Comma /\ Comma \in Int /\ ~IsDigit(Comma)
  BY DEF Comma, IsDigit, Zero
<1>5. NumberIn((a \o <<Comma>>) \o b) = NumberIn(a \o b)
  <2> HIDE DEF a, b
  <2>1. QED BY <1>3, <1>4, NumberWithout
<1> HIDE DEF u, a, b, c
<1>6. /\ u \in Seq(Int) /\ Len(u) = Len(a) + Len(c) + Len(b)
      /\ \A i \in 1 .. Len(a) : u[i] = a[i]
      /\ \A i \in 1 .. Len(c) : u[Len(a) + i] = c[i]
      /\ \A i \in 1 .. Len(b) : u[Len(a) + Len(c) + i] = b[i]
  <2>1. a \in Seq(Int) /\ b \in Seq(Int) /\ c \in Seq(Int)
    BY <1>3, <1>4
  <2> DEFINE v == (a \o c) \o b
  <2>2. /\ v \in Seq(Int) /\ Len(v) = Len(a) + Len(c) + Len(b)
        /\ \A i \in 1 .. Len(a) : v[i] = a[i]
        /\ \A i \in 1 .. Len(c) : v[Len(a) + i] = c[i]
        /\ \A i \in 1 .. Len(b) : v[Len(a) + Len(c) + i] = b[i]
    BY ONLY <2>1, ThreeParts
  <2>3. u = v
    BY <1>2
  <2> HIDE DEF v
  <2>4. QED BY ONLY <2>2, <2>3
<1>7. Len(u) = Len(t) + 1
  BY <1>1, <1>3, <1>4, <1>6
<1>8. \A i \in 1 .. k : u[i] = t[i]
  BY <1>3, <1>6
<1>9. u[k + 1] = Comma
  <2>1. 1 \in 1 .. Len(c)
    BY <1>4
  <2>2. QED BY <1>3, <1>4, <1>6, <2>1
<1>10. ASSUME NEW i \in k + 1 .. Len(t) PROVE u[i + 1] = t[i]
  <2> DEFINE l == i - k
  <2>1. l \in 1 .. Len(t) - k /\ k + l = i /\ k + 1 + l = i + 1
    BY <1>1
  <2> HIDE DEF l
  <2>2. l \in 1 .. Len(b) /\ Len(a) + Len(c) + l = i + 1
    BY <1>3, <1>4, <2>1
  <2>3. u[i + 1] = b[l]
    BY ONLY <1>6, <2>2
  <2>4. b[l] = t[i]
    BY ONLY <1>3, <2>1
  <2>5. QED BY <2>3, <2>4
<1>11. NumberIn(u) = NumberIn(t)
  BY <1>2, <1>3, <1>4, <1>5 DEF c
<1>12. QED BY <1>6, <1>7, <1>8, <1>9, <1>10, <1>11 DEF u

\* A comma in a text or behind it.
LEMMA WithCommaIs ==
  ASSUME NEW t \in Seq(Int), NEW k \in Nat \ {0}, Len(t) >= 1
  PROVE  LET u == WithComma(t, k) IN
         /\ u \in Seq(Int) /\ Len(u) >= 1 /\ u[1] = t[1] /\ NumberIn(u) = NumberIn(t)
         /\ \A i \in 2 .. Len(u) : u[i] = Comma \/ \E j \in 2 .. Len(t) : u[i] = t[j]
<1> DEFINE u == WithComma(t, k)
<1>1. CASE k >= Len(t)
  <2>1. u = t
    BY <1>1 DEF WithComma
  <2> HIDE DEF u
  <2>2. QED BY <2>1 DEF u
<1>2. CASE k < Len(t)
  <2>1. k \in 1 .. Len(t) - 1 /\ Len(t) \in Nat
    BY <1>2
  <2>2. /\ u \in Seq(Int) /\ Len(u) = Len(t) + 1 /\ NumberIn(u) = NumberIn(t)
        /\ \A i \in 1 .. k : u[i] = t[i]
        /\ u[k + 1] = Comma
        /\ \A i \in k + 1 .. Len(t) : u[i + 1] = t[i]
    BY <2>1, CommaInside
  <2> HIDE DEF u
  <2>3. ASSUME NEW i \in 2 .. Len(u) PROVE u[i] = Comma \/ \E j \in 2 .. Len(t) : u[i] = t[j]
    <3>1. CASE i <= k
      <4>1. i \in 1 .. k /\ i \in 2 .. Len(t)
        BY <2>1, <3>1
      <4>2. QED BY <2>2, <4>1
    <3>2. CASE i = k + 1
      BY <2>2, <3>2
    <3>3. CASE i > k + 1
      <4>1. i - 1 \in k + 1 .. Len(t) /\ i - 1 \in 2 .. Len(t) /\ (i - 1) + 1 = i
        BY <2>1, <2>2, <3>3
      <4>2. u[(i - 1) + 1] = t[i - 1]
        BY ONLY <2>2, <4>1
      <4>3. QED BY <4>1, <4>2
    <3>4. QED BY <2>1, <3>1, <3>2, <3>3
  <2>4. 1 \in 1 .. k /\ Len(u) >= 1
    BY <2>1, <2>2
  <2>5. u[1] = t[1]
    BY ONLY <2>2, <2>4
  <2>6. QED BY <2>2, <2>3, <2>4, <2>5 DEF u
<1>3. QED BY <1>1, <1>2

\* The value of a text that begins like a number and goes on with digits and characters to
\* ignore.
LEMMA SignedValue ==
  ASSUME LongBits \in 8 .. 32, NEW n \in Long, NEW t \in Seq(Int), Len(t) >= 1,
         NumberIn(t) = IF n < 0 THEN -n ELSE n,
         IF n < 0 THEN t[1] = Minus ELSE IsDigit(t[1]),
         \A k \in 2 .. Len(t) : t[k] # Minus,
         NEW ignore \in Int, ~IsDigit(ignore), ignore # Minus
  PROVE  Value(t, ignore) = n /\ BeginsInt(t[1])
<1>1. n \in Int /\ -n \in Int /\ -(-n) = n /\ 1 \in 1 .. Len(t)
  BY LongRange DEF Long
<1>2. Wrap(n) = n
  BY <1>1, WrapIs DEF Long
<1>3. Contains(t, Minus) <=> n < 0
  <2>1. ~(n < 0) => t[1] # Minus
    BY DEF IsDigit, Minus, Zero
  <2>2. \A i \in 1 .. Len(t) : i = 1 \/ i \in 2 .. Len(t)
    OBVIOUS
  <2>3. CASE n < 0
    BY <1>1, <2>3 DEF Contains
  <2>4. CASE ~(n < 0)
    BY <2>1, <2>2, <2>4 DEF Contains
  <2>5. QED BY <2>3, <2>4
<1>4. Value(t, ignore) = IF ignore # Minus /\ Contains(t, Minus) THEN Wrap(-NumberIn(t))
                         ELSE Wrap(NumberIn(t))
  BY ValueIs
<1>5. Value(t, ignore) = n
  BY <1>1, <1>2, <1>3, <1>4
<1>6. QED BY <1>5 DEF BeginsInt

-----------------------------------------------------------------------------
(* Printed numbers read back. *)

\* Characters in front of a number that are not of it, and behind it.
InFront(junk) ==
  junk \in Seq(Int) /\ \A i \in 1 .. Len(junk) : ~IsDigit(junk[i]) /\ junk[i] \notin {Minus, Timeout}
Behind(tail) ==
  tail \in Seq(Int) /\ (tail # <<>> => ~IsDigit(Head(tail)) /\ Head(tail) # NO_IGNORE_CHAR)

\* A number is read behind what its search skips.
LEMMA NumberRead ==
  ASSUME LongBits \in 8 .. 32, NEW n \in Long, NEW t \in Seq(Int), Len(t) >= 1,
         NumberIn(t) = IF n < 0 THEN -n ELSE n,
         IF n < 0 THEN t[1] = Minus ELSE IsDigit(t[1]),
         NEW ignore \in {NO_IGNORE_CHAR, Comma},
         \A k \in 2 .. Len(t) : IsDigit(t[k]) \/ t[k] = ignore,
         NEW junk, InFront(junk), NEW lookahead, \A i \in 1 .. Len(junk) : Skipped(junk[i], lookahead),
         NEW tail, Behind(tail), ignore = Comma => tail = <<>> \/ Head(tail) # Comma
  PROVE  parseInt((junk \o t) \o tail, lookahead, ignore) =
           [value |-> n, rest |-> timedPeek(tail).rest]
<1>1. ignore \in Int /\ ~IsDigit(ignore) /\ ignore # Minus
  BY DEF NO_IGNORE_CHAR, Comma, IsDigit, Zero, Minus
<1>2. \A k \in 2 .. Len(t) : t[k] # Minus
  BY <1>1 DEF IsDigit, Zero, Minus
<1>3. Value(t, ignore) = n /\ BeginsInt(t[1])
  BY <1>1, <1>2, SignedValue
<1>4. junk \in Seq(Int) /\ tail \in Seq(Int)
  BY DEF InFront, Behind
<1>5. \A i \in 1 .. Len(junk) : ~StopsInt(junk[i], lookahead)
  BY DEF InFront, StopsInt
<1>6. Len(tail) >= 1 => ~IsDigit(tail[1]) /\ tail[1] # ignore
  <2>1. SUFFICES ASSUME Len(tail) >= 1 PROVE ~IsDigit(tail[1]) /\ tail[1] # ignore
    OBVIOUS
  <2>2. tail # <<>> /\ Head(tail) = tail[1]
    BY <1>4, <2>1
  <2>3. QED BY <2>2 DEF Behind
<1>7. parseInt((junk \o t) \o tail, lookahead, ignore) = Result(Value(t, ignore), timedPeek(tail).rest)
  <2>1. Stands(junk, t, tail, lookahead, ignore)
    BY <1>3, <1>4, <1>5, <1>6 DEF Stands
  <2>2. QED BY <2>1, ParseIntIs
<1>8. QED BY <1>3, <1>7 DEF Result

\* NumbersReadBack for a number and what stands around it.
LEMMA NumbersAre ==
  ASSUME LongBits \in 8 .. 32, NEW n \in Long, NEW junk, InFront(junk), NEW tail, Behind(tail),
         NEW comma \in Nat \ {0}
  PROVE  LET text == print_long(n, 10)
             after == timedPeek(tail).rest
             r == parseInt(junk \o text \o tail, "SKIP_ALL", NO_IGNORE_CHAR)
             g == parseInt(junk \o WithComma(text, comma) \o tail, "SKIP_ALL", Comma)
             w == parseInt(junk \o text \o tail, "SKIP_WHITESPACE", NO_IGNORE_CHAR)
         IN  /\ IF n < 0 THEN Head(text) = Minus /\ Denotes(Tail(text), 10) = -n
                ELSE Denotes(text, 10) = n
             /\ r = [value |-> n, rest |-> after]
             /\ (tail = <<>> \/ Head(tail) # Comma) => g = [value |-> n, rest |-> after]
             /\ IF \A k \in DOMAIN junk : IsSpace(junk[k]) THEN w = r
                ELSE w.value = 0 /\ IsSuffix(text \o tail, w.rest)
             /\ \A base \in {2, 8, 16} : LET s == print_long(n, base) IN
                  Denotes(s, base) = Unsigned(n) /\ Len(s) <= LongBits
<1> DEFINE text == print_long(n, 10)
           after == timedPeek(tail).rest
           u == WithComma(text, comma)
           r == parseInt((junk \o text) \o tail, "SKIP_ALL", NO_IGNORE_CHAR)
           g == parseInt((junk \o u) \o tail, "SKIP_ALL", Comma)
           w == parseInt((junk \o text) \o tail, "SKIP_WHITESPACE", NO_IGNORE_CHAR)
<1>1. /\ text \in Seq(Int) /\ Len(text) >= 1 /\ NumberIn(text) = IF n < 0 THEN -n ELSE n
      /\ \A k \in 2 .. Len(text) : IsDigit(text[k])
      /\ IF n < 0 THEN text[1] = Minus /\ Head(text) = Minus /\ Denotes(Tail(text), 10) = -n
         ELSE IsDigit(text[1]) /\ Denotes(text, 10) = n
  BY PrintLongIs
<1> HIDE DEF text
<1>2. /\ u \in Seq(Int) /\ Len(u) >= 1 /\ u[1] = text[1] /\ NumberIn(u) = NumberIn(text)
      /\ \A i \in 2 .. Len(u) : u[i] = Comma \/ \E j \in 2 .. Len(text) : u[i] = text[j]
  BY <1>1, WithCommaIs
<1> HIDE DEF u
<1>3. PICK all, space : all = "SKIP_ALL" /\ space = "SKIP_WHITESPACE"
  OBVIOUS
<1>4. \A i \in 1 .. Len(junk) : Skipped(junk[i], all)
  BY <1>3 DEF Skipped
<1>5. PICK none, sep \in {NO_IGNORE_CHAR, Comma} : none = NO_IGNORE_CHAR /\ sep = Comma
  OBVIOUS
<1>6. none # Comma
  BY <1>5 DEF NO_IGNORE_CHAR, Comma
<1>7. IF n < 0 THEN text[1] = Minus ELSE IsDigit(text[1])
  BY <1>1
<1>8. r = [value |-> n, rest |-> after]
  <2>1. parseInt((junk \o text) \o tail, all, none) = [value |-> n, rest |-> timedPeek(tail).rest]
    BY <1>1, <1>4, <1>6, <1>7, NumberRead
  <2>2. QED BY <1>3, <1>5, <2>1
<1>9. (tail = <<>> \/ Head(tail) # Comma) => g = [value |-> n, rest |-> after]
  <2>1. SUFFICES ASSUME tail = <<>> \/ Head(tail) # Comma PROVE g = [value |-> n, rest |-> after]
    OBVIOUS
  <2>2. \A k \in 2 .. Len(u) : IsDigit(u[k]) \/ u[k] = sep
    BY <1>1, <1>2, <1>5
  <2>3. NumberIn(u) = IF n < 0 THEN -n ELSE n
    BY <1>1, <1>2
  <2>4. IF n < 0 THEN u[1] = Minus ELSE IsDigit(u[1])
    BY <1>2, <1>7
  <2>5. parseInt((junk \o u) \o tail, all, sep) = [value |-> n, rest |-> timedPeek(tail).rest]
    <3>1. u \in Seq(Int) /\ Len(u) >= 1
      BY <1>2
    <3>2. InFront(junk) /\ Behind(tail) /\ LongBits \in 8 .. 32
      OBVIOUS
    <3>3. sep = Comma => tail = <<>> \/ Head(tail) # Comma
      BY <2>1
    <3>4. QED BY ONLY <1>4, <2>2, <2>3, <2>4, <3>1, <3>2, <3>3, n \in Long, sep \in {NO_IGNORE_CHAR, Comma}, NumberRead
  <2>6. QED BY <1>3, <1>5, <2>5
<1>10. IF \A k \in DOMAIN junk : IsSpace(junk[k]) THEN w = r
       ELSE w.value = 0 /\ IsSuffix(text \o tail, w.rest)
  <2>1. DOMAIN junk = 1 .. Len(junk) /\ junk \in Seq(Int) /\ tail \in Seq(Int)
    BY DEF InFront, Behind
  <2>2. CASE \A k \in DOMAIN junk : IsSpace(junk[k])
    <3>1. \A i \in 1 .. Len(junk) : Skipped(junk[i], space)
      BY <1>3, <2>1, <2>2 DEF Skipped
    <3>2. parseInt((junk \o text) \o tail, space, none) = [value |-> n, rest |-> timedPeek(tail).rest]
      BY <1>1, <1>6, <1>7, <3>1, NumberRead
    <3>3. w = [value |-> n, rest |-> after]
      BY <1>3, <1>5, <3>2
    <3> HIDE DEF w, r, after
    <3>4. QED BY <1>8, <2>2, <3>3
  <2>3. CASE ~(\A k \in DOMAIN junk : IsSpace(junk[k]))
    <3>1. PICK j \in 1 .. Len(junk) : ~IsSpace(junk[j])
      BY <2>1, <2>3
    <3>2. \A i \in 1 .. Len(junk) : ~BeginsInt(junk[i]) /\ junk[i] # Timeout
      BY DEF InFront, BeginsInt
    <3>3. w.value = 0 /\ IsSuffix(text \o tail, w.rest)
      BY <1>1, <2>1, <3>1, <3>2, ParseIntFails
    <3> HIDE DEF w, r
    <3>4. QED BY <2>3, <3>3
  <2>4. QED
    <3> HIDE DEF w, r
    <3>1. QED BY <2>2, <2>3
<1>11. \A base \in {2, 8, 16} : Denotes(print_long(n, base), base) = Unsigned(n)
                                /\ Len(print_long(n, base)) <= LongBits
  BY PrintLongBase
<1>12. IF n < 0 THEN Head(text) = Minus /\ Denotes(Tail(text), 10) = -n ELSE Denotes(text, 10) = n
  BY <1>1
<1> HIDE DEF r, g, w, after
<1>13. QED BY <1>8, <1>9, <1>10, <1>11, <1>12 DEF r, g, w, after, u, text

-----------------------------------------------------------------------------
(* parseFloat. *)

\* A decimal number: characters with a point at a position behind the first, digits and
\* characters to ignore around it.
IsDecimal(u, p, ignore) ==
  /\ u \in Seq(Int) /\ p \in 2 .. Len(u) /\ BeginsInt(u[1]) /\ u[p] = Dot
  /\ \A i \in 2 .. Len(u) : i # p => IsDigit(u[i]) \/ u[i] = ignore
  /\ ignore \in {NO_IGNORE_CHAR, Comma}

LEMMA DecimalElements ==
  ASSUME NEW u, NEW p, NEW ignore, IsDecimal(u, p, ignore)
  PROVE  /\ \A i \in 1 .. Len(u) : i # p => u[i] # Dot
         /\ \A i \in 2 .. Len(u) : u[i] # Minus
         /\ ignore \in Int /\ ~IsDigit(ignore) /\ ignore # Minus /\ ignore # Dot
         /\ u \in Seq(Int) /\ p \in 2 .. Len(u) /\ p \in 1 .. Len(u) /\ 1 \in 1 .. Len(u)
<1>1. ignore \in Int /\ ~IsDigit(ignore) /\ ignore # Minus /\ ignore # Dot
  BY DEF IsDecimal, NO_IGNORE_CHAR, Comma, IsDigit, Zero, Minus, Dot
<1>2. u \in Seq(Int) /\ p \in 2 .. Len(u) /\ p \in 1 .. Len(u) /\ 1 \in 1 .. Len(u)
  BY DEF IsDecimal
<1>3. \A c : IsDigit(c) \/ BeginsInt(c) \/ c = ignore => c # Dot
  BY <1>1 DEF IsDigit, BeginsInt, Zero, Minus, Dot
<1>4. \A c : IsDigit(c) \/ c = ignore \/ c = Dot => c # Minus
  BY <1>1 DEF IsDigit, Zero, Minus, Dot
<1>5. \A i \in 1 .. Len(u) : i = 1 \/ i \in 2 .. Len(u)
  BY <1>2
<1>6. \A i \in 1 .. Len(u) : i # p => u[i] # Dot
  BY <1>3, <1>5 DEF IsDecimal
<1>7. \A i \in 2 .. Len(u) : u[i] # Minus
  BY <1>4 DEF IsDecimal
<1>8. QED BY <1>1, <1>2, <1>6, <1>7

\* What parseFloat takes: one point at most, unless points are ignored.
TakenFloat(s, ignore) ==
  LET Fraction(before) == ignore # Dot /\ Contains(before, Dot)
      More(before, c) == IsDigit(c) \/ (c = Dot /\ ~Fraction(before)) \/ c = ignore
  IN  Taken(s, More)
GoesOn(s, k, ignore) ==
  \/ IsDigit(s[k])
  \/ s[k] = Dot /\ ~(ignore # Dot /\ Contains(SubSeq(s, 1, k - 1), Dot))
  \/ s[k] = ignore

LEMMA TakenFloatIs ==
  ASSUME NEW s \in Seq(Int), NEW ignore, NEW m \in 1 .. Len(s),
         \A k \in 2 .. m : GoesOn(s, k, ignore),
         m < Len(s) => ~GoesOn(s, m + 1, ignore)
  PROVE  TakenFloat(s, ignore) = SubSeq(s, 1, m)
<1> DEFINE P == {k \in 1 .. Len(s) : GoesOn(s, k, ignore)}
           F == {j \in 1 .. Len(s) : \A k \in 2 .. j : GoesOn(s, k, ignore)}
<1>1. TakenFloat(s, ignore) = SubSeq(s, 1, Max(F))
  BY DEF TakenFloat, Taken, GoesOn
<1>2. F = {j \in 1 .. Len(s) : \A k \in 2 .. j : k \in P}
  <2>1. \A j \in 1 .. Len(s) : \A k \in 2 .. j : k \in 1 .. Len(s)
    OBVIOUS
  <2>2. QED BY <2>1
<1>3. Len(s) \in Nat /\ (\A k \in 2 .. m : k \in P) /\ (m < Len(s) => m + 1 \notin P)
  OBVIOUS
<1> HIDE DEF P, F
<1>4. Max(F) = m
  BY <1>2, <1>3, LongestIs
<1>5. QED BY <1>1, <1>4

\* A decimal number is taken as a whole, also in front of a second point.
LEMMA DecimalTaken ==
  ASSUME NEW u, NEW p, NEW ignore, IsDecimal(u, p, ignore), NEW tail \in Seq(Int),
         Len(tail) >= 1 => ~IsDigit(tail[1]) /\ tail[1] # ignore
  PROVE  TakenFloat(u \o tail, ignore) = u
<1> DEFINE s == u \o tail
           m == Len(u)
<1>1. /\ \A i \in 1 .. Len(u) : i # p => u[i] # Dot
      /\ ignore # Dot
      /\ u \in Seq(Int) /\ p \in 2 .. m
  BY DecimalElements
<1>2. /\ s \in Seq(Int) /\ Len(s) = Len(u) + Len(tail)
      /\ \A i \in 1 .. m : s[i] = u[i]
      /\ \A i \in 1 .. Len(tail) : s[m + i] = tail[i]
      /\ SubSeq(s, 1, m) = u
  BY <1>1, TwoParts
<1>3. m \in Nat /\ Len(tail) \in Nat /\ m \in 1 .. Len(s)
  BY <1>1, <1>2
<1> HIDE DEF s
<1>4. ASSUME NEW k \in 1 .. m
      PROVE  /\ SubSeq(s, 1, k) \in Seq(Int) /\ Len(SubSeq(s, 1, k)) = k
             /\ \A i \in 1 .. k : SubSeq(s, 1, k)[i] = u[i]
  <2>1. k \in 0 .. Len(s) /\ \A i \in 1 .. k : i \in 1 .. m
    BY <1>2, <1>3
  <2>2. /\ SubSeq(s, 1, k) \in Seq(Int) /\ Len(SubSeq(s, 1, k)) = k
        /\ \A i \in 1 .. k : SubSeq(s, 1, k)[i] = s[i]
    BY <1>2, <2>1
  <2>3. QED BY <1>2, <2>1, <2>2
<1>5. ASSUME NEW k \in 2 .. m PROVE GoesOn(s, k, ignore)
  <2>1. k \in 1 .. m /\ k - 1 \in 1 .. m /\ s[k] = u[k]
    BY <1>2, <1>3
  <2>2. CASE k # p
    BY <2>1, <2>2 DEF GoesOn, IsDecimal
  <2>3. CASE k = p
    <3>1. u[k] = Dot
      BY <2>3 DEF IsDecimal
    <3>2. Len(SubSeq(s, 1, k - 1)) = k - 1 /\ \A i \in 1 .. k - 1 : SubSeq(s, 1, k - 1)[i] = u[i]
      BY <1>4, <2>1
    <3>3. \A i \in 1 .. k - 1 : i \in 1 .. Len(u) /\ i # p
      BY <1>3, <2>1, <2>3
    <3>4. ~Contains(SubSeq(s, 1, k - 1), Dot)
      BY <1>1, <3>2, <3>3 DEF Contains
    <3>5. QED BY <2>1, <3>1, <3>4 DEF GoesOn
  <2>4. QED BY <2>2, <2>3
<1>6. m < Len(s) => ~GoesOn(s, m + 1, ignore)
  <2>1. SUFFICES ASSUME m < Len(s) PROVE ~GoesOn(s, m + 1, ignore)
    OBVIOUS
  <2>2. Len(tail) >= 1 /\ 1 \in 1 .. Len(tail)
    BY <1>2, <1>3, <2>1
  <2>3. s[m + 1] = tail[1]
    BY <1>2, <2>2
  <2>4. ~IsDigit(s[m + 1]) /\ s[m + 1] # ignore
    BY <2>2, <2>3
  <2>5. (m + 1) - 1 = m
    BY <1>3
  <2>6. Contains(u, Dot)
    <3>1. p \in 1 .. Len(u) /\ u[p] = Dot
      BY <1>1 DEF IsDecimal
    <3>2. QED BY <3>1 DEF Contains
  <2>7. QED BY <1>1, <1>2, <2>4, <2>5, <2>6 DEF GoesOn
<1>7. TakenFloat(s, ignore) = SubSeq(s, 1, m)
  BY ONLY <1>2, <1>3, <1>5, <1>6, TakenFloatIs
<1>8. QED BY <1>2, <1>7 DEF s

\* parseFloat of a decimal number at the head of a stream.
LEMMA ParseFloatIs ==
  ASSUME NEW u, NEW p, NEW ignore, IsDecimal(u, p, ignore), NEW tail \in Seq(Int),
         Len(tail) >= 1 => ~IsDigit(tail[1]) /\ tail[1] # ignore
  PROVE  parseFloat(u \o tail, "SKIP_NONE", ignore) =
           [number |-> Value(u, ignore), decimals |-> Decimals(u, ignore), rest |-> timedPeek(tail).rest]
<1> DEFINE s == u \o tail
<1>1. u \in Seq(Int) /\ 1 \in 1 .. Len(u)
  BY DecimalElements
<1>2. /\ s \in Seq(Int) /\ Len(s) = Len(u) + Len(tail)
      /\ \A i \in 1 .. Len(u) : s[i] = u[i]
      /\ Drop(s, Len(u)) = tail
  BY <1>1, TwoParts
<1>3. TakenFloat(s, ignore) = u
  BY DecimalTaken
<1> HIDE DEF s
<1>4. s[1] = u[1] /\ s[1] \in Int /\ BeginsInt(s[1])
  BY <1>1, <1>2 DEF IsDecimal
<1>5. PICK m \in 0 .. Len(s) - 1 : m = 0
  BY <1>1, <1>2
<1>6. PICK none, yes : none = "SKIP_NONE" /\ yes = TRUE
  OBVIOUS
<1>7. Stopping(s[m + 1], none, yes) /\ IsNumeric(s[m + 1], yes) /\ s[m + 1] # Timeout
      /\ ~(s[m + 1] < 0)
  <2>1. s[m + 1] = s[1]
    BY <1>5
  <2>2. IsNumeric(s[1], yes)
    BY <1>4 DEF IsNumeric, BeginsInt
  <2>3. s[1] # Timeout /\ ~(s[1] < 0)
    <3>1. \A c \in Int : BeginsInt(c) => c # Timeout /\ ~(c < 0)
      BY DEF BeginsInt, IsDigit, Zero, Minus, Timeout
    <3>2. QED BY ONLY <1>4, <3>1
  <2>4. QED BY <2>1, <2>2, <2>3 DEF Stopping
<1>8. \A i \in 1 .. m : ~Stopping(s[i], none, yes)
  BY <1>5
<1> DEFINE q == peekNextDigit(s, none, yes)
<1>9. q = Result(s[m + 1], s)
  <2>1. q = IF IsNumeric(s[m + 1], yes) THEN Result(s[m + 1], Drop(s, m)) ELSE Result(-1, Drop(s, m))
    <3>1. s \in Seq(Int)
      BY <1>2
    <3>2. QED BY ONLY <1>7, <1>8, <3>1, m \in 0 .. Len(s) - 1, PeekIs
  <2>2. Drop(s, m) = s
    <3>1. SubSeq(s, 1, Len(s)) = s
      BY <1>2, SubSeqFull
    <3>2. QED BY <1>5, <3>1 DEF Drop
  <2> HIDE DEF q
  <2>3. QED BY <1>7, <2>1, <2>2
<1>10. q.rest = s /\ ~(q.value < 0)
  <2> HIDE DEF q
  <2>1. q.value = s[m + 1] /\ q.rest = s
    BY ONLY <1>9 DEF Result
  <2>2. QED BY <1>7, <2>1
<1>11. parseFloat(s, none, ignore) =
         IF peekNextDigit(s, none, TRUE).value < 0
         THEN [number |-> 0, decimals |-> 0, rest |-> peekNextDigit(s, none, TRUE).rest]
         ELSE [number |-> Value(TakenFloat(peekNextDigit(s, none, TRUE).rest, ignore), ignore),
               decimals |-> Decimals(TakenFloat(peekNextDigit(s, none, TRUE).rest, ignore), ignore),
               rest |-> timedPeek(Drop(peekNextDigit(s, none, TRUE).rest,
                                       Len(TakenFloat(peekNextDigit(s, none, TRUE).rest, ignore)))).rest]
  BY DEF parseFloat, TakenFloat
<1>12. peekNextDigit(s, none, TRUE) = q
  BY <1>6
<1> HIDE DEF q
<1>13. parseFloat(s, none, ignore) =
         [number |-> Value(u, ignore), decimals |-> Decimals(u, ignore), rest |-> timedPeek(tail).rest]
  BY <1>2, <1>3, <1>10, <1>11, <1>12
<1>14. QED BY <1>6, <1>13 DEF s

-----------------------------------------------------------------------------
(* Decimals and their groups. *)

\* How many digits stand behind the point.
LEMMA DecimalsAre ==
  ASSUME NEW u, NEW p, NEW ignore, IsDecimal(u, p, ignore)
  PROVE  Decimals(u, ignore) = Cardinality({i \in p + 1 .. Len(u) : IsDigit(u[i]) /\ u[i] # ignore})
<1> DEFINE I == {i \in 1 .. Len(u) : u[i] = Dot /\ u[i] # ignore}
           k == IF I # {} THEN Min(I) ELSE 0
<1>1. Decimals(u, ignore) = IF k = 0 THEN 0
         ELSE Cardinality({i \in k + 1 .. Len(u) : IsDigit(u[i]) /\ u[i] # ignore})
  BY DEF Decimals, SelectInSeq
<1>2. /\ \A i \in 1 .. Len(u) : i # p => u[i] # Dot
      /\ ignore # Dot /\ p \in 2 .. Len(u) /\ p \in 1 .. Len(u)
  BY DecimalElements
<1>3. I = {p}
  BY <1>2 DEF IsDecimal
<1>4. Min({p}) \in {p}
  <2>1. {p} \in SUBSET Nat /\ {p} # {}
    BY <1>2
  <2>2. QED BY <2>1, MinOf
<1>5. k = p /\ p # 0
  <2> HIDE DEF I
  <2>1. I # {} /\ Min(I) = p
    BY <1>3, <1>4
  <2>2. QED BY <1>2, <2>1
<1> HIDE DEF k, I
<1>6. QED BY <1>1, <1>5

LEMMA Interval ==
  ASSUME NEW a \in Nat, NEW b \in Nat, a <= b
  PROVE  IsFiniteSet(a + 1 .. b) /\ Cardinality(a + 1 .. b) = b - a
<1>1. a + 1 \in Int /\ b \in Int
  OBVIOUS
<1>2. IsFiniteSet(a + 1 .. b)
      /\ Cardinality(a + 1 .. b) = IF a + 1 > b THEN 0 ELSE (b - (a + 1)) + 1
  BY <1>1, FS_Interval
<1>3. (IF a + 1 > b THEN 0 ELSE (b - (a + 1)) + 1) = b - a
  OBVIOUS
<1>4. QED BY <1>2, <1>3

\* A decimal number without and with a comma.
LEMMA PlainDecimals ==
  ASSUME NEW u, NEW p, IsDecimal(u, p, NO_IGNORE_CHAR), \A i \in 2 .. Len(u) : i # p => IsDigit(u[i])
  PROVE  Decimals(u, NO_IGNORE_CHAR) = Len(u) - p
<1>1. /\ NO_IGNORE_CHAR \in Int /\ ~IsDigit(NO_IGNORE_CHAR)
      /\ u \in Seq(Int) /\ p \in 2 .. Len(u)
  BY DecimalElements
<1> DEFINE D == {i \in p + 1 .. Len(u) : IsDigit(u[i]) /\ u[i] # NO_IGNORE_CHAR}
<1>2. Decimals(u, NO_IGNORE_CHAR) = Cardinality(D)
  BY DecimalsAre
<1>3. D = p + 1 .. Len(u)
  <2>1. \A i \in p + 1 .. Len(u) : i \in 2 .. Len(u) /\ i # p
    BY <1>1
  <2>2. QED BY <1>1, <2>1
<1>4. p \in Nat /\ Len(u) \in Nat /\ p <= Len(u)
  BY <1>1
<1>5. QED BY <1>2, <1>3, <1>4, Interval

LEMMA GroupedDecimal ==
  ASSUME NEW t, NEW p, IsDecimal(t, p, NO_IGNORE_CHAR), \A i \in 2 .. Len(t) : i # p => IsDigit(t[i]),
         NEW k \in Nat \ {0}
  PROVE  LET u == WithComma(t, k) IN
         /\ \E q : IsDecimal(u, q, Comma)
         /\ NumberIn(u) = NumberIn(t) /\ u[1] = t[1] /\ u \in Seq(Int)
         /\ Decimals(u, Comma) = Len(t) - p
<1> DEFINE u == WithComma(t, k)
           D(q) == {i \in q + 1 .. Len(u) : IsDigit(u[i]) /\ u[i] # Comma}
<1>1. t \in Seq(Int) /\ p \in 2 .. Len(t) /\ BeginsInt(t[1]) /\ t[p] = Dot
  BY DEF IsDecimal
<1>2. \A c : IsDigit(c) => c # Comma
  BY DEF IsDigit, Zero, Comma
<1>3. ~IsDigit(Comma) /\ ~IsDigit(Dot)
  BY DEF IsDigit, Zero, Comma, Dot
<1>4. Len(t) \in Nat /\ p \in Nat /\ p <= Len(t) /\ 2 <= p
  BY <1>1
<1>5. CASE k >= Len(t)
  <2>1. u = t
    BY <1>5 DEF WithComma
  <2>2. IsDecimal(u, p, Comma)
    BY <2>1, <1>1 DEF IsDecimal
  <2>3. Decimals(u, Comma) = Cardinality(D(p))
    BY <2>2, DecimalsAre
  <2>4. D(p) = p + 1 .. Len(t)
    <3> HIDE DEF u
    <3>1. \A i \in p + 1 .. Len(t) : i \in 2 .. Len(t) /\ i # p
      BY <1>4
    <3>2. QED BY <1>2, <2>1, <3>1
  <2>5. Cardinality(p + 1 .. Len(t)) = Len(t) - p
    BY <1>4, Interval
  <2>6. QED BY <1>1, <2>1, <2>2, <2>3, <2>4, <2>5
<1>6. CASE k < Len(t)
  <2>1. k \in 1 .. Len(t) - 1
    BY <1>4, <1>6
  <2>2. /\ u \in Seq(Int) /\ Len(u) = Len(t) + 1 /\ NumberIn(u) = NumberIn(t)
        /\ \A i \in 1 .. k : u[i] = t[i]
        /\ u[k + 1] = Comma
        /\ \A i \in k + 1 .. Len(t) : u[i + 1] = t[i]
    BY <1>1, <2>1, CommaInside
  <2> HIDE DEF u
  <2>3. u[1] = t[1]
    <3>1. 1 \in 1 .. k
      BY <2>1
    <3>2. QED BY ONLY <2>2, <3>1
  <2>4. ASSUME NEW i \in 2 .. Len(u)
        PROVE  \/ i <= k /\ i \in 2 .. Len(t) /\ u[i] = t[i]
               \/ i = k + 1 /\ u[i] = Comma
               \/ i > k + 1 /\ i - 1 \in 2 .. Len(t) /\ u[i] = t[i - 1]
    <3>1. CASE i <= k
      <4>1. i \in 1 .. k /\ i \in 2 .. Len(t)
        BY <2>1, <3>1, <1>4
      <4>2. QED BY <2>2, <3>1, <4>1
    <3>2. CASE i = k + 1
      BY <2>2, <3>2
    <3>3. CASE i > k + 1
      <4>1. i - 1 \in k + 1 .. Len(t) /\ i - 1 \in 2 .. Len(t) /\ (i - 1) + 1 = i
        BY <1>4, <2>1, <2>2, <3>3
      <4>2. u[(i - 1) + 1] = t[i - 1]
        BY ONLY <2>2, <4>1
      <4>3. QED BY <3>3, <4>1, <4>2
    <3>4. QED BY <2>1, <3>1, <3>2, <3>3
  <2>5. CASE k < p
    <3>1. p \in k + 1 .. Len(t) /\ p + 1 \in 2 .. Len(u)
      BY <1>4, <2>1, <2>2, <2>5
    <3>2. u[p + 1] = Dot
      BY <1>1, <2>2, <3>1
    <3>3. ASSUME NEW i \in 2 .. Len(u), i # p + 1 PROVE IsDigit(u[i]) \/ u[i] = Comma
      <4>1. i <= k => i # p
        BY <1>4, <2>1, <2>5
      <4>2. i > k + 1 => i - 1 # p
        BY <1>4, <2>1, <3>3
      <4>3. QED BY <2>4, <4>1, <4>2
    <3>4. IsDecimal(u, p + 1, Comma)
      BY <1>1, <2>2, <2>3, <3>1, <3>2, <3>3 DEF IsDecimal
    <3>5. Decimals(u, Comma) = Cardinality(D(p + 1))
      BY <3>4, DecimalsAre
    <3>6. ASSUME NEW i \in (p + 1) + 1 .. Len(u) PROVE IsDigit(u[i]) /\ u[i] # Comma
      <4>1. i \in 2 .. Len(u) /\ i > k + 1 /\ i - 1 # p
        BY <1>4, <2>1, <2>2, <2>5
      <4>2. ~(i <= k) /\ i # k + 1
        BY <2>1, <4>1
      <4>3. IsDigit(u[i])
        BY <2>4, <4>1, <4>2
      <4>4. QED BY <1>2, <4>3
    <3>7. D(p + 1) = (p + 1) + 1 .. Len(u)
      BY <3>6
    <3>8. Cardinality((p + 1) + 1 .. Len(u)) = Len(u) - (p + 1)
      <4>1. p + 1 \in Nat /\ Len(u) \in Nat /\ p + 1 <= Len(u)
        BY <1>4, <2>2
      <4>2. QED BY <4>1, Interval
    <3>9. Len(u) - (p + 1) = Len(t) - p
      BY <1>4, <2>2
    <3>10. QED BY <2>2, <2>3, <3>4, <3>5, <3>7, <3>8, <3>9 DEF u
  <2>6. CASE p <= k
    <3>1. p \in 1 .. k /\ p \in 2 .. Len(u)
      BY <1>4, <2>1, <2>2, <2>6
    <3>2. u[p] = Dot
      BY <1>1, <2>2, <3>1
    <3>3. ASSUME NEW i \in 2 .. Len(u), i # p PROVE IsDigit(u[i]) \/ u[i] = Comma
      <4>1. i > k + 1 => i - 1 # p
        BY <1>4, <2>1, <2>6
      <4>2. QED BY <2>4, <3>3, <4>1
    <3>4. IsDecimal(u, p, Comma)
      BY <1>1, <2>2, <2>3, <3>1, <3>2, <3>3 DEF IsDecimal
    <3>5. Decimals(u, Comma) = Cardinality(D(p))
      BY <3>4, DecimalsAre
    <3> DEFINE All == p + 1 .. Len(u)
    <3>6. ASSUME NEW i \in All PROVE i = k + 1 \/ (IsDigit(u[i]) /\ u[i] # Comma)
      <4>1. i \in 2 .. Len(u) /\ i # p /\ (i > k + 1 => i - 1 # p)
        BY <1>4, <2>1, <2>2, <2>6
      <4>2. i = k + 1 \/ IsDigit(u[i])
        BY <2>4, <4>1
      <4>3. QED BY <1>2, <4>2
    <3>7. D(p) = All \ {k + 1}
      BY <1>3, <2>2, <3>6
    <3>8. IsFiniteSet(All) /\ Cardinality(All) = Len(u) - p
      <4>1. Len(u) \in Nat /\ p <= Len(u)
        BY <1>4, <2>2
      <4>2. QED BY <1>4, <4>1, Interval
    <3>9. k + 1 \in All
      BY <1>4, <2>1, <2>2, <2>6
    <3> HIDE DEF All
    <3>10. Cardinality(All \ {k + 1}) = Cardinality(All) - 1
      BY <3>8, <3>9, FS_RemoveElement
    <3>11. (Len(u) - p) - 1 = Len(t) - p
      BY <1>4, <2>2
    <3>12. QED BY <2>2, <2>3, <3>4, <3>5, <3>7, <3>8, <3>10, <3>11 DEF u
  <2>7. QED BY <1>4, <2>1, <2>5, <2>6
<1>7. QED BY <1>4, <1>5, <1>6

-----------------------------------------------------------------------------
(* The digits behind the point. *)

\* The digits DecimalsReadBack writes behind the point.
Digits(d) == [k \in 1 .. d |-> Zero + 2 * k]

LEMMA DigitsType ==
  ASSUME NEW d \in 0 .. 3
  PROVE  /\ Digits(d) \in Seq(Int) /\ Len(Digits(d)) = d
         /\ \A k \in 1 .. d : Digits(d)[k] = Zero + 2 * k /\ IsDigit(Digits(d)[k])
<1>1. d \in Nat /\ \A k \in 1 .. d : Zero + 2 * k \in Int /\ IsDigit(Zero + 2 * k)
  BY DEF Zero, IsDigit
<1>2. QED BY <1>1 DEF Digits

LEMMA DigitsGrow ==
  ASSUME NEW s \in Seq(Int), NEW d \in 0 .. 2
  PROVE  NumberIn(s \o Digits(d + 1)) = NumberIn(s \o Digits(d)) * 10 + 2 * (d + 1)
<1> DEFINE e == d + 1
           c == Zero + 2 * (d + 1)
           a == Digits(d)
           b == Digits(e)
<1>1. d \in 0 .. 3 /\ e \in 0 .. 3 /\ e \in 1 .. e /\ d \in Nat
  OBVIOUS
<1>2. /\ a \in Seq(Int) /\ Len(a) = d
      /\ \A k \in 1 .. d : a[k] = Zero + 2 * k
  BY <1>1, DigitsType
<1>3. /\ b \in Seq(Int) /\ Len(b) = d + 1
      /\ \A k \in 1 .. d + 1 : b[k] = Zero + 2 * k
  <2> HIDE DEF e
  <2>1. /\ b \in Seq(Int) /\ Len(b) = e
        /\ \A k \in 1 .. e : b[k] = Zero + 2 * k
    BY <1>1, DigitsType
  <2>2. QED BY <2>1 DEF e
<1>4. c \in Int /\ IsDigit(c) /\ c - Zero = 2 * (d + 1)
  BY DEF Zero, IsDigit
<1> DEFINE x == s \o b
           f == s \o a
           y == Append(f, c)
<1>5. f \in Seq(Int) /\ Len(f) = Len(s) + d
      /\ (\A i \in 1 .. Len(s) : f[i] = s[i]) /\ (\A i \in 1 .. d : f[Len(s) + i] = a[i])
  <2> HIDE DEF a
  <2>1. QED BY <1>2
<1>6. x \in Seq(Int) /\ Len(x) = Len(s) + (d + 1)
      /\ (\A i \in 1 .. Len(s) : x[i] = s[i]) /\ (\A i \in 1 .. d + 1 : x[Len(s) + i] = b[i])
  <2> HIDE DEF b
  <2>1. QED BY <1>3
<1> HIDE DEF x, f, a, b, c
<1>7. y \in Seq(Int) /\ Len(y) = Len(f) + 1 /\ y[Len(f) + 1] = c
      /\ \A i \in 1 .. Len(f) : y[i] = f[i]
  BY <1>4, <1>5
<1> HIDE DEF y
<1>8. Len(s) \in Nat
  OBVIOUS
<1>9. ASSUME NEW i \in 1 .. Len(x) PROVE x[i] = y[i]
  <2>1. CASE i <= Len(s)
    <3>1. i \in 1 .. Len(s) /\ i \in 1 .. Len(f)
      BY <1>1, <1>5, <1>8, <2>1
    <3>2. QED BY ONLY <1>5, <1>6, <1>7, <3>1
  <2>2. CASE i > Len(s) /\ i <= Len(s) + d
    <3>1. PICK j \in 1 .. d : i = Len(s) + j /\ j \in 1 .. d + 1 /\ i \in 1 .. Len(f)
      <4>1. i - Len(s) \in 1 .. d /\ i = Len(s) + (i - Len(s)) /\ i - Len(s) \in 1 .. d + 1
            /\ i \in 1 .. Len(f)
        BY <1>1, <1>5, <1>8, <2>2
      <4>2. QED BY <4>1
    <3>2. x[i] = b[j] /\ f[i] = a[j] /\ y[i] = f[i]
      BY ONLY <1>5, <1>6, <1>7, <3>1
    <3>3. b[j] = a[j]
      BY <1>2, <1>3, <3>1
    <3>4. QED BY <3>2, <3>3
  <2>3. CASE i = Len(s) + (d + 1)
    <3>1. d + 1 \in 1 .. d + 1 /\ Len(f) + 1 = i
      BY <1>1, <1>5, <1>8, <2>3
    <3>2. x[i] = b[d + 1] /\ y[i] = c
      BY ONLY <1>6, <1>7, <2>3, <3>1
    <3>3. QED BY <1>3, <3>1, <3>2 DEF c
  <2>4. QED BY <1>1, <1>6, <1>8, <2>1, <2>2, <2>3
<1>10. Len(x) = Len(y)
  BY <1>1, <1>5, <1>6, <1>7, <1>8
<1>11. x = y
  BY ONLY <1>6, <1>7, <1>9, <1>10, SeqEqual
<1>12. NumberIn(f) \in Int /\ NumberIn(Append(f, c)) = NumberStep(NumberIn(f), c)
  BY <1>4, <1>5, NumberAppend
<1>13. NumberStep(NumberIn(f), c) = NumberIn(f) * 10 + 2 * (d + 1)
  <2>1. NumberStep(NumberIn(f), c) = NumberIn(f) * 10 + c - Zero
    BY <1>4 DEF NumberStep
  <2>2. QED BY <1>4, <1>12, <2>1 DEF Zero
<1>14. QED BY <1>11, <1>12, <1>13 DEF x, y, f, a, b

LEMMA DigitsBehind ==
  ASSUME NEW s \in Seq(Int), NEW d \in 0 .. 3
  PROVE  NumberIn(s \o Digits(d)) = NumberIn(s) * 10^d + Denotes(Digits(d), 10)
<1> DEFINE e == <<>>
           N(t, k) == NumberIn(t \o Digits(k))
<1>1. ASSUME NEW t \in Seq(Int)
      PROVE  /\ N(t, 0) = NumberIn(t)
             /\ N(t, 1) = NumberIn(t) * 10 + 2
             /\ N(t, 2) = (NumberIn(t) * 10 + 2) * 10 + 4
             /\ N(t, 3) = ((NumberIn(t) * 10 + 2) * 10 + 4) * 10 + 6
  <2>1. N(t, 0) = NumberIn(t)
    <3>1. PICK z \in 0 .. 3 : z = 0
      OBVIOUS
    <3>2. Digits(z) \in Seq(Int) /\ Len(Digits(z)) = z
      BY DigitsType
    <3>3. Digits(0) = <<>>
      BY <3>1, <3>2
    <3>4. t \o <<>> = t
      OBVIOUS
    <3>5. QED BY <3>3, <3>4
  <2>2. \A k \in 0 .. 2 : N(t, k + 1) = N(t, k) * 10 + 2 * (k + 1)
    BY DigitsGrow
  <2> HIDE DEF N
  <2>3. N(t, 0 + 1) = N(t, 0) * 10 + 2 * (0 + 1)
    BY <2>2
  <2>4. N(t, 1 + 1) = N(t, 1) * 10 + 2 * (1 + 1)
    BY <2>2
  <2>5. N(t, 2 + 1) = N(t, 2) * 10 + 2 * (2 + 1)
    BY <2>2
  <2>6. QED BY <2>1, <2>3, <2>4, <2>5
<1>2. e \in Seq(Int) /\ NumberIn(e) = 0
  BY NumberEmpty
<1>3. N(e, d) = Denotes(Digits(d), 10)
  <2>1. /\ Digits(d) \in Seq(Int) /\ Len(Digits(d)) = d
        /\ \A k \in 1 .. d : IsDigit(Digits(d)[k])
    BY DigitsType
  <2>2. NumberIn(Digits(d)) = Denotes(Digits(d), 10)
    BY <2>1, NumberOfDigits
  <2>3. e \o Digits(d) = Digits(d)
    BY <2>1
  <2>4. QED BY <2>2, <2>3
<1>4. NumberIn(s) \in Int
  <2>1. Zero \in Int
    BY DEF Zero
  <2>2. QED BY <2>1, NumberAppend
<1>5. 10^0 = 1 /\ 10^1 = 10 /\ 10^2 = 100 /\ 10^3 = 1000
  OBVIOUS
<1>6. /\ N(s, 0) = NumberIn(s) /\ N(e, 0) = 0
      /\ N(s, 1) = NumberIn(s) * 10 + 2 /\ N(e, 1) = 2
      /\ N(s, 2) = NumberIn(s) * 100 + 24 /\ N(e, 2) = 24
      /\ N(s, 3) = NumberIn(s) * 1000 + 246 /\ N(e, 3) = 246
  <2> HIDE DEF N, e
  <2>1. /\ N(s, 0) = NumberIn(s)
        /\ N(s, 1) = NumberIn(s) * 10 + 2
        /\ N(s, 2) = (NumberIn(s) * 10 + 2) * 10 + 4
        /\ N(s, 3) = ((NumberIn(s) * 10 + 2) * 10 + 4) * 10 + 6
    BY <1>1
  <2>2. /\ N(e, 0) = NumberIn(e)
        /\ N(e, 1) = NumberIn(e) * 10 + 2
        /\ N(e, 2) = (NumberIn(e) * 10 + 2) * 10 + 4
        /\ N(e, 3) = ((NumberIn(e) * 10 + 2) * 10 + 4) * 10 + 6
    BY <1>1, <1>2
  <2>3. QED BY <1>2, <1>4, <2>1, <2>2
<1> HIDE DEF N, e
<1>7. N(s, d) = NumberIn(s) * 10^d + N(e, d)
  <2>1. CASE d = 0
    BY <1>4, <1>5, <1>6, <2>1
  <2>2. CASE d = 1
    BY <1>4, <1>5, <1>6, <2>2
  <2>3. CASE d = 2
    BY <1>4, <1>5, <1>6, <2>3
  <2>4. CASE d = 3
    BY <1>4, <1>5, <1>6, <2>4
  <2>5. QED BY <2>1, <2>2, <2>3, <2>4
<1>8. QED BY <1>3, <1>7 DEF N

-----------------------------------------------------------------------------
(* Printed decimals read back. *)

\* The value of a decimal number, point ignored.
LEMMA DecimalValue ==
  ASSUME LongBits \in 8 .. 32, NEW u, NEW p, NEW ignore, IsDecimal(u, p, ignore)
  PROVE  Value(u, ignore) = IF u[1] = Minus THEN Wrap(-NumberIn(u)) ELSE Wrap(NumberIn(u))
<1>1. /\ \A i \in 2 .. Len(u) : u[i] # Minus
      /\ ignore \in Int /\ ~IsDigit(ignore) /\ ignore # Minus
      /\ u \in Seq(Int) /\ 1 \in 1 .. Len(u)
  BY DecimalElements
<1>2. \A i \in 1 .. Len(u) : i = 1 \/ i \in 2 .. Len(u)
  BY <1>1
<1>3. Contains(u, Minus) <=> u[1] = Minus
  BY <1>1, <1>2 DEF Contains
<1>4. Value(u, ignore) = IF ignore # Minus /\ Contains(u, Minus) THEN Wrap(-NumberIn(u))
                         ELSE Wrap(NumberIn(u))
  BY <1>1, ValueIs
<1>5. QED BY <1>1, <1>3, <1>4

\* A printed number with a point and digits behind it is a decimal number.
LEMMA PrintedDecimal ==
  ASSUME LongBits \in 8 .. 32, NEW n \in Long, NEW d \in 0 .. 3
  PROVE  LET text == print_long(n, 10)
             number == (text \o <<Dot>>) \o Digits(d)
             p == Len(text) + 1
         IN  /\ IsDecimal(number, p, NO_IGNORE_CHAR) /\ Len(number) - p = d
             /\ \A i \in 2 .. Len(number) : i # p => IsDigit(number[i])
             /\ number[1] = Minus <=> n < 0
             /\ NumberIn(number) = (IF n < 0 THEN -n ELSE n) * 10^d + Denotes(Digits(d), 10)
<1> DEFINE text == print_long(n, 10)
           dot == <<Dot>>
           frac == Digits(d)
           number == (text \o dot) \o frac
           p == Len(text) + 1
<1>1. /\ text \in Seq(Int) /\ Len(text) >= 1 /\ NumberIn(text) = IF n < 0 THEN -n ELSE n
      /\ \A k \in 2 .. Len(text) : IsDigit(text[k])
      /\ IF n < 0 THEN text[1] = Minus ELSE IsDigit(text[1])
  BY PrintLongIs
<1>2. /\ frac \in Seq(Int) /\ Len(frac) = d
      /\ \A k \in 1 .. d : IsDigit(frac[k])
  BY DigitsType
<1>3. dot \in Seq(Int) /\ Len(dot) = 1 /\ dot[1] = Dot /\ Dot \in Int /\ ~IsDigit(Dot)
  BY DEF Dot, IsDigit, Zero
<1>4. NumberIn(number) = NumberIn(text) * 10^d + Denotes(frac, 10)
  <2>1. text \o dot \in Seq(Int)
    BY <1>1, <1>3
  <2>2. NumberIn((text \o dot) \o frac) = NumberIn(text \o dot) * 10^d + Denotes(frac, 10)
    <3> HIDE DEF text, dot
    <3>1. QED BY <2>1, DigitsBehind
  <2>3. NumberIn(text \o dot) = NumberIn(text)
    <3>1. text \o dot = Append(text, Dot)
      BY <1>1, <1>3, AppendIsConcat
    <3> HIDE DEF text, dot
    <3>2. NumberIn(Append(text, Dot)) = NumberIn(text)
      BY <1>1, <1>3, NumberAppend DEF NumberStep
    <3>3. QED BY <3>1, <3>2
  <2>4. QED BY <2>2, <2>3
<1> HIDE DEF text, dot, frac
<1>5. /\ number \in Seq(Int) /\ Len(number) = Len(text) + Len(dot) + Len(frac)
      /\ \A i \in 1 .. Len(text) : number[i] = text[i]
      /\ \A i \in 1 .. Len(dot) : number[Len(text) + i] = dot[i]
      /\ \A i \in 1 .. Len(frac) : number[Len(text) + Len(dot) + i] = frac[i]
  <2>1. text \in Seq(Int) /\ dot \in Seq(Int) /\ frac \in Seq(Int)
    BY <1>1, <1>2, <1>3
  <2>2. QED BY ONLY <2>1, ThreeParts
<1> HIDE DEF number, p
<1>6. Len(text) \in Nat /\ d \in Nat /\ Len(number) = p + d /\ p = Len(text) + 1 /\ p \in 2 .. Len(number)
  BY <1>1, <1>2, <1>3, <1>5, SMTT(60) DEF p
<1>7. number[p] = Dot
  <2>1. 1 \in 1 .. Len(dot)
    BY <1>3
  <2>2. QED BY <1>3, <1>5, <1>6, <2>1
<1>8. number[1] = text[1]
  <2>1. 1 \in 1 .. Len(text)
    BY <1>1
  <2>2. QED BY ONLY <1>5, <2>1
<1>9. ASSUME NEW i \in 2 .. Len(number), i # p PROVE IsDigit(number[i])
  <2>1. CASE i < p
    <3>1. i \in 1 .. Len(text) /\ i \in 2 .. Len(text)
      BY <1>6, <2>1
    <3>2. QED BY <1>1, <1>5, <3>1
  <2>2. CASE i > p
    <3>1. PICK j \in 1 .. d : j \in 1 .. Len(frac) /\ Len(text) + Len(dot) + j = i
      <4>1. i - p \in 1 .. d /\ Len(text) + Len(dot) + (i - p) = i
        BY <1>3, <1>6, <2>2
      <4>2. QED BY <1>2, <4>1
    <3>2. number[i] = frac[j]
      BY ONLY <1>5, <3>1
    <3>3. QED BY <1>2, <3>1, <3>2
  <2>3. QED BY <1>6, <1>9, <2>1, <2>2
<1>10. BeginsInt(number[1]) /\ (number[1] = Minus <=> n < 0)
  BY <1>1, <1>8 DEF BeginsInt, IsDigit, Minus, Zero
<1>11. IsDecimal(number, p, NO_IGNORE_CHAR)
  BY <1>5, <1>6, <1>7, <1>9, <1>10 DEF IsDecimal
<1>12. Len(number) - p = d
  BY <1>6
<1>13. NumberIn(number) = (IF n < 0 THEN -n ELSE n) * 10^d + Denotes(frac, 10)
  BY <1>1, <1>4
<1>14. QED BY <1>9, <1>10, <1>11, <1>12, <1>13 DEF number, p, text, dot, frac

\* The number with its sign.
LEMMA SignedDecimal ==
  ASSUME LongBits \in 8 .. 32, NEW n \in Long, NEW d \in 0 .. 3, NEW v \in Int
  PROVE  LET a == (IF n < 0 THEN -n ELSE n) * 10^d + v IN
         (IF n < 0 THEN -a ELSE a) = n * 10^d + (IF n < 0 THEN -1 ELSE 1) * v
<1>1. n \in Int
  BY LongRange DEF Long
<1>2. 10^0 = 1 /\ 10^1 = 10 /\ 10^2 = 100 /\ 10^3 = 1000
  OBVIOUS
<1>3. CASE d = 0
  BY <1>1, <1>2, <1>3
<1>4. CASE d = 1
  BY <1>1, <1>2, <1>4
<1>5. CASE d = 2
  BY <1>1, <1>2, <1>5
<1>6. CASE d = 3
  BY <1>1, <1>2, <1>6
<1>7. QED BY <1>3, <1>4, <1>5, <1>6

\* DecimalsReadBack for a number, its fraction and what stands behind it.
DecimalIsRead(n, d, tail, comma) ==
  LET text == print_long(n, 10)
      frac == [k \in 1 .. d |-> Zero + 2 * k]
      number == text \o <<Dot>> \o frac
      r == parseFloat(number \o tail, "SKIP_NONE", NO_IGNORE_CHAR)
      g == parseFloat(WithComma(number, comma) \o tail, "SKIP_NONE", Comma)
  IN  /\ r.number = Wrap(n * 10^d + (IF n < 0 THEN -1 ELSE 1) * Denotes(frac, 10))
      /\ r.decimals = d
      /\ r.rest = timedPeek(tail).rest
      /\ (tail = <<>> \/ Head(tail) # Comma) => g = r

LEMMA DecimalsRead ==
  ASSUME LongBits \in 8 .. 32, NEW n \in Long, NEW d \in 0 .. 3, NEW tail, Behind(tail),
         NEW comma \in Nat \ {0}
  PROVE  DecimalIsRead(n, d, tail, comma)
<1> DEFINE text == print_long(n, 10)
           number == (text \o <<Dot>>) \o Digits(d)
           p == Len(text) + 1
           u == WithComma(number, comma)
           v == Denotes(Digits(d), 10)
           total == Wrap(n * 10^d + (IF n < 0 THEN -1 ELSE 1) * v)
           r == parseFloat(number \o tail, "SKIP_NONE", NO_IGNORE_CHAR)
           g == parseFloat(u \o tail, "SKIP_NONE", Comma)
<1>1. /\ IsDecimal(number, p, NO_IGNORE_CHAR) /\ Len(number) - p = d
      /\ \A i \in 2 .. Len(number) : i # p => IsDigit(number[i])
      /\ number[1] = Minus <=> n < 0
      /\ NumberIn(number) = (IF n < 0 THEN -n ELSE n) * 10^d + v
  BY PrintedDecimal
<1> HIDE DEF number, p, text
<1>2. /\ \E q : IsDecimal(u, q, Comma)
      /\ NumberIn(u) = NumberIn(number) /\ u[1] = number[1] /\ u \in Seq(Int)
      /\ Decimals(u, Comma) = Len(number) - p
  BY <1>1, GroupedDecimal
<1>3. Decimals(number, NO_IGNORE_CHAR) = Len(number) - p
  BY <1>1, PlainDecimals
<1> HIDE DEF u
<1>4. v \in Int
  <2>1. /\ Digits(d) \in Seq(Int) /\ Len(Digits(d)) = d
        /\ \A k \in 1 .. d : IsDigit(Digits(d)[k])
    BY DigitsType
  <2>2. NumberIn(Digits(d)) = v
    BY <2>1, NumberOfDigits
  <2>3. NumberIn(Digits(d)) \in Int
    <3>1. Zero \in Int
      BY DEF Zero
    <3>2. QED BY <2>1, <3>1, NumberAppend
  <2>4. QED BY <2>2, <2>3
<1> HIDE DEF v
<1>5. (IF n < 0 THEN Wrap(-NumberIn(number)) ELSE Wrap(NumberIn(number))) = total
  <2> DEFINE a == (IF n < 0 THEN -n ELSE n) * 10^d + v
  <2>1. (IF n < 0 THEN -a ELSE a) = n * 10^d + (IF n < 0 THEN -1 ELSE 1) * v
    BY <1>4, SignedDecimal
  <2>2. NumberIn(number) = a
    BY <1>1
  <2> HIDE DEF a
  <2>3. QED BY <2>1, <2>2
<1> HIDE DEF total
<1>6. Value(number, NO_IGNORE_CHAR) = total
  BY <1>1, <1>5, DecimalValue
<1>7. Value(u, Comma) = total
  <2>1. PICK q : IsDecimal(u, q, Comma)
    BY <1>2
  <2>2. Value(u, Comma) = IF u[1] = Minus THEN Wrap(-NumberIn(u)) ELSE Wrap(NumberIn(u))
    BY <2>1, DecimalValue
  <2>3. QED BY <1>1, <1>2, <1>5, <2>2
<1>8. tail \in Seq(Int) /\ Comma # NO_IGNORE_CHAR
  BY DEF Behind, Comma, NO_IGNORE_CHAR
<1>9. Len(tail) >= 1 => tail # <<>> /\ Head(tail) = tail[1]
  BY <1>8
<1>10. r = [number |-> total, decimals |-> d, rest |-> timedPeek(tail).rest]
  <2>1. Len(tail) >= 1 => ~IsDigit(tail[1]) /\ tail[1] # NO_IGNORE_CHAR
    BY <1>9 DEF Behind
  <2>2. r = [number |-> Value(number, NO_IGNORE_CHAR), decimals |-> Decimals(number, NO_IGNORE_CHAR),
             rest |-> timedPeek(tail).rest]
    BY <1>1, <1>8, <2>1, ParseFloatIs
  <2>3. QED BY <1>1, <1>3, <1>6, <2>2
<1>11. (tail = <<>> \/ Head(tail) # Comma)
         => g = [number |-> total, decimals |-> d, rest |-> timedPeek(tail).rest]
  <2>1. SUFFICES ASSUME tail = <<>> \/ Head(tail) # Comma
                 PROVE  g = [number |-> total, decimals |-> d, rest |-> timedPeek(tail).rest]
    OBVIOUS
  <2>2. Len(tail) >= 1 => ~IsDigit(tail[1]) /\ tail[1] # Comma
    BY <1>9, <2>1 DEF Behind
  <2>3. PICK q : IsDecimal(u, q, Comma)
    BY <1>2
  <2>4. g = [number |-> Value(u, Comma), decimals |-> Decimals(u, Comma), rest |-> timedPeek(tail).rest]
    BY <1>8, <2>2, <2>3, ParseFloatIs
  <2>5. QED BY <1>1, <1>2, <1>7, <2>4
<1> HIDE DEF r, g
<1>12. r.number = total /\ r.decimals = d /\ r.rest = timedPeek(tail).rest
  BY <1>10
<1>13. (tail = <<>> \/ Head(tail) # Comma) => g = r
  BY <1>10, <1>11
<1>14. QED BY <1>12, <1>13 DEF r, g, total, v, u, number, text, Digits, DecimalIsRead
=============================================================================
