------------------------- MODULE Algorithms_proofs --------------------------
(***************************************************************************)
(* Proofs about Algorithms, for every stream, word, number, text and       *)
(* address of the inputs, for names of any labels and any hosts. The       *)
(* lemmas about streams, numbers and addresses are in Parsing_proofs; here *)
(* are those about names on the wire, the questions that match them, the   *)
(* responses of hosts and the answers to questions, whose folds are taken  *)
(* apart into runs in the same way, one state per label, answer, question  *)
(* or service.                                                             *)
(***************************************************************************)
EXTENDS Parsing_proofs

-----------------------------------------------------------------------------
(* Sequences one behind the other. *)

\* FlattenSeq, one sequence after the other.
LEMMA FlatRuns ==
  ASSUME NEW ss \in Seq(Seq(Int))
  PROVE  \E run \in [0 .. Len(ss) -> Seq(Int)] :
           /\ run[0] = <<>> /\ run[Len(ss)] = FlattenSeq(ss)
           /\ \A k \in 1 .. Len(ss) : run[k] = run[k - 1] \o ss[k]
<1> DEFINE n == Len(ss)
           step == [x \in Seq(Int) \X (1 .. n) |-> x[1] \o ss[x[2]]]
           Eq(f) == f = [i \in 1 .. n |-> IF i = 1 THEN ss[i] ELSE f[i - 1] \o ss[i]]
           f == CHOOSE g : Eq(g)
<1>1. n \in Nat /\ \A k \in 1 .. n : ss[k] \in Seq(Int)
  OBVIOUS
<1>2. FlattenSeq(ss) = IF n = 0 THEN ss ELSE f[n]
  BY DEF FlattenSeq
<1>3. \A x \in Seq(Int), y \in Seq(Int) : x \o y \in Seq(Int)
  OBVIOUS
<1>4. step \in [Seq(Int) \X (1 .. n) -> Seq(Int)]
  <2> HIDE DEF n
  <2>1. \A x \in Seq(Int) \X (1 .. n) : x[1] \o ss[x[2]] \in Seq(Int)
    BY <1>1, <1>3
  <2>2. QED BY <2>1
<1>5. \A x \in Seq(Int), k \in 1 .. n : step[<<x, k>>] = x \o ss[k]
  OBVIOUS
<1>6. <<>> \in Seq(Int) /\ \A y \in Seq(Int) : <<>> \o y = y
  OBVIOUS
<1> HIDE DEF n, step, f
<1>7. PICK run \in [0 .. n -> Seq(Int)] : StepsOf(n, <<>>, step, run)
  BY <1>1, <1>4, <1>6, StepsExist
<1>8. run[0] = <<>> /\ \A k \in 1 .. n : run[k] = run[k - 1] \o ss[k]
  <2>1. run[0] = <<>> /\ \A k \in 1 .. n : run[k] = step[<<run[k - 1], k>>]
    BY <1>7 DEF StepsOf
  <2>2. \A k \in 1 .. n : run[k - 1] \in Seq(Int)
    BY <1>1, <1>7
  <2>3. QED BY ONLY <1>5, <2>1, <2>2
<1>9. \E g : Eq(g)
  <2> DEFINE g == [i \in 1 .. n |-> run[i]]
  <2>1. ASSUME NEW i \in 1 .. n PROVE g[i] = IF i = 1 THEN ss[i] ELSE g[i - 1] \o ss[i]
    <3>1. CASE i = 1
      <4>1. run[1] = run[0] \o ss[1] /\ ss[1] \in Seq(Int)
        <5>1. 1 \in 1 .. n /\ 1 - 1 = 0
          BY <3>1
        <5>2. QED BY ONLY <1>1, <1>8, <5>1
      <4>2. QED BY <1>6, <1>8, <3>1, <4>1
    <3>2. CASE i # 1
      <4>1. i - 1 \in 1 .. n
        BY <1>1, <3>2
      <4>2. g[i - 1] = run[i - 1] /\ g[i] = run[i]
        BY <4>1
      <4> HIDE DEF g
      <4>3. QED BY <1>8, <3>2, <4>2
    <3>3. QED BY <3>1, <3>2
  <2>2. Eq(g)
    <3>1. g = [i \in 1 .. n |-> g[i]]
      OBVIOUS
    <3> HIDE DEF g
    <3>2. [i \in 1 .. n |-> g[i]] = [i \in 1 .. n |-> IF i = 1 THEN ss[i] ELSE g[i - 1] \o ss[i]]
      BY <2>1
    <3>3. QED BY <3>1, <3>2
  <2> HIDE DEF g
  <2>3. QED BY <2>2
<1>10. f = [i \in 1 .. n |-> IF i = 1 THEN ss[i] ELSE f[i - 1] \o ss[i]]
  BY <1>9 DEF f
<1>11. \A i \in 1 .. n : f[i] = IF i = 1 THEN ss[i] ELSE f[i - 1] \o ss[i]
  BY ONLY <1>10
<1>12. n >= 1 => f[n] = run[n]
  <2> DEFINE G == {k \in 0 .. n : k # 0 => f[k] = run[k]}
  <2>1. 0 \in G
    BY <1>1
  <2>2. ASSUME NEW k \in 0 .. n - 1, k \in G PROVE k + 1 \in G
    <3>1. k + 1 \in 1 .. n /\ k + 1 \in 0 .. n /\ (k + 1) - 1 = k
      BY <1>1
    <3>2. f[k + 1] = IF k + 1 = 1 THEN ss[k + 1] ELSE f[k] \o ss[k + 1]
      BY ONLY <1>11, <3>1
    <3>3. run[k + 1] = run[k] \o ss[k + 1]
      BY ONLY <1>8, <3>1
    <3>4. CASE k = 0
      <4>1. run[k] = <<>> /\ ss[k + 1] \in Seq(Int) /\ k + 1 = 1
        BY <1>1, <1>8, <3>1, <3>4
      <4>2. f[k + 1] = ss[k + 1] /\ run[k + 1] = ss[k + 1]
        BY ONLY <1>6, <3>2, <3>3, <4>1
      <4>3. QED BY <3>1, <4>2
    <3>5. CASE k # 0
      <4>1. f[k] = run[k] /\ k + 1 # 1
        BY <2>2, <3>5
      <4>2. QED BY <3>1, <3>2, <3>3, <4>1
    <3>6. QED BY <3>4, <3>5
  <2>3. \A k \in 0 .. n : k \in G
    <3>1. \A k \in 0 .. n - 1 : k \in G => k + 1 \in G
      BY <2>2
    <3> HIDE DEF G
    <3>2. QED BY <1>1, <2>1, <3>1, Positions
  <2>4. n \in 0 .. n
    BY <1>1
  <2>5. QED BY <1>1, <2>3, <2>4
<1>13. run[n] = FlattenSeq(ss)
  <2>1. CASE n = 0
    <3>1. ss = <<>>
      BY <2>1 DEF n
    <3>2. QED BY <1>2, <1>8, <2>1, <3>1
  <2>2. CASE n # 0
    BY <1>1, <1>2, <1>12, <2>2
  <2>3. QED BY <2>1, <2>2
<1>14. QED BY <1>8, <1>13 DEF n

LEMMA FlatEmpty == FlattenSeq(<<>>) = <<>>
BY DEF FlattenSeq

LEMMA FlatAppend ==
  ASSUME NEW ss \in Seq(Seq(Int)), NEW l \in Seq(Int)
  PROVE  FlattenSeq(ss) \in Seq(Int) /\ FlattenSeq(Append(ss, l)) = FlattenSeq(ss) \o l
<1> DEFINE t == Append(ss, l)
           n == Len(ss)
<1>1. n + 1 \in 1 .. n + 1 /\ (n + 1) - 1 = n
  OBVIOUS
<1>2. /\ t \in Seq(Seq(Int)) /\ Len(t) = n + 1 /\ n \in Nat /\ t[n + 1] = l
      /\ \A k \in 1 .. n : t[k] = ss[k]
  OBVIOUS
<1>3. PICK r \in [0 .. n -> Seq(Int)] :
        /\ r[0] = <<>> /\ r[n] = FlattenSeq(ss)
        /\ \A k \in 1 .. n : r[k] = r[k - 1] \o ss[k]
  BY FlatRuns
<1> HIDE DEF t, n
<1>4. PICK q \in [0 .. Len(t) -> Seq(Int)] :
        /\ q[0] = <<>> /\ q[Len(t)] = FlattenSeq(t)
        /\ \A k \in 1 .. Len(t) : q[k] = q[k - 1] \o t[k]
  BY <1>2, FlatRuns
<1>5. r[n] = q[n]
  <2>1. \A k \in 1 .. n : k \in 1 .. Len(t)
    BY <1>2
  <2>2. \A k \in 1 .. n : r[k - 1] = q[k - 1] => r[k] = q[k]
    BY ONLY <1>2, <1>3, <1>4, <2>1
  <2>3. r[0] = q[0] /\ n \in Nat
    BY <1>2, <1>3, <1>4
  <2>4. QED BY ONLY <2>2, <2>3, SameRuns
<1>6. q[n + 1] = q[n] \o l
  <2>1. n + 1 \in 1 .. Len(t)
    BY <1>2, <1>1
  <2>2. QED BY ONLY <1>2, <1>4, <1>1, <2>1
<1>7. FlattenSeq(ss) \in Seq(Int)
  BY <1>2, <1>3
<1>8. FlattenSeq(t) = FlattenSeq(ss) \o l
  BY <1>2, <1>3, <1>4, <1>5, <1>6
<1>9. QED BY <1>7, <1>8 DEF t

LEMMA AppendBehind ==
  ASSUME NEW S, NEW x \in Seq(S), NEW y \in Seq(S), NEW c \in S
  PROVE  Append(x \o y, c) = x \o Append(y, c)
<1> DEFINE p == Append(x \o y, c)
           q == x \o Append(y, c)
<1>1. /\ p \in Seq(S) /\ q \in Seq(S) /\ Len(p) = Len(x) + Len(y) + 1
      /\ Len(q) = Len(x) + Len(y) + 1 /\ Len(x) \in Nat /\ Len(y) \in Nat
  OBVIOUS
<1>2. ASSUME NEW i \in 1 .. Len(x) + Len(y) + 1 PROVE p[i] = q[i]
  OBVIOUS
<1> HIDE DEF p, q
<1>3. p = q
  BY <1>1, <1>2, SeqEqual
<1>4. QED BY <1>3 DEF p, q

\* The prefixes of a sequence, each an element longer than the one before.
LEMMA LongerPrefix ==
  ASSUME NEW S, NEW t \in Seq(S), NEW k \in 0 .. Len(t) - 1
  PROVE  /\ SubSeq(t, 1, k) \in Seq(S) /\ k + 1 \in 1 .. Len(t) /\ t[k + 1] \in S
         /\ SubSeq(t, 1, k + 1) = Append(SubSeq(t, 1, k), t[k + 1])
<1>1. k + 1 \in 1 .. Len(t) /\ 1 \in Int /\ k \in Int /\ k + 1 \in Int
  OBVIOUS
<1>2. SubSeq(t, 1, k) \in Seq(S) /\ Len(SubSeq(t, 1, k)) = k
  OBVIOUS
<1>3. SubSeq(t, 1, k + 1) \in Seq(S) /\ Len(SubSeq(t, 1, k + 1)) = k + 1
  OBVIOUS
<1>4. \A i \in 1 .. k : SubSeq(t, 1, k + 1)[i] = t[i] /\ SubSeq(t, 1, k)[i] = t[i]
  OBVIOUS
<1>5. SubSeq(t, 1, k + 1)[k + 1] = t[k + 1] /\ t[k + 1] \in S
  OBVIOUS
<1> DEFINE a == SubSeq(t, 1, k)
           b == SubSeq(t, 1, k + 1)
           c == Append(a, t[k + 1])
<1> HIDE DEF a, b
<1>6. c \in Seq(S) /\ Len(c) = k + 1 /\ c[k + 1] = t[k + 1] /\ \A i \in 1 .. k : c[i] = a[i]
  BY <1>2, <1>5 DEF a
<1> HIDE DEF c
<1>7. \A i \in 1 .. k + 1 : b[i] = c[i]
  <2>1. \A i \in 1 .. k + 1 : i \in 1 .. k \/ i = k + 1
    OBVIOUS
  <2>2. QED BY ONLY <1>4, <1>5, <1>6, <2>1 DEF a, b
<1>8. b = c
  BY <1>3, <1>6, <1>7, SeqEqual DEF b
<1>9. QED BY <1>1, <1>2, <1>5, <1>8 DEF a, b, c

LEMMA EmptyPrefix ==
  ASSUME NEW S, NEW t \in Seq(S)
  PROVE  SubSeq(t, 1, 0) = <<>> /\ SubSeq(t, 1, Len(t)) = t /\ Len(t) \in Nat
<1>1. SubSeq(t, 1, 0) = <<>> /\ Len(t) \in Nat
  OBVIOUS
<1>2. QED BY <1>1, SubSeqFull

LEMMA FlatConcat ==
  ASSUME NEW ss \in Seq(Seq(Int)), NEW tt \in Seq(Seq(Int))
  PROVE  FlattenSeq(ss \o tt) = FlattenSeq(ss) \o FlattenSeq(tt)
<1> DEFINE n == Len(tt)
           front(k) == SubSeq(tt, 1, k)
           G == {k \in 0 .. n : FlattenSeq(ss \o front(k)) = FlattenSeq(ss) \o FlattenSeq(front(k))}
<1>1. front(0) = <<>> /\ front(n) = tt /\ n \in Nat
  BY EmptyPrefix
<1>2. ASSUME NEW k \in 0 .. n - 1
      PROVE  front(k) \in Seq(Seq(Int)) /\ front(k + 1) = Append(front(k), tt[k + 1]) /\ tt[k + 1] \in Seq(Int)
  BY LongerPrefix
<1> HIDE DEF front, n
<1>3. 0 \in G
  <2>1. ss \o <<>> = ss
    OBVIOUS
  <2>2. FlattenSeq(ss) \in Seq(Int)
    <3>1. <<>> \in Seq(Int)
      OBVIOUS
    <3>2. QED BY <3>1, FlatAppend
  <2>3. \A x \in Seq(Int) : x \o <<>> = x
    OBVIOUS
  <2>4. FlattenSeq(ss) \o <<>> = FlattenSeq(ss) /\ 0 \in 0 .. n
    BY <1>1, <2>2, <2>3
  <2>5. QED BY <1>1, <2>1, <2>4, FlatEmpty
<1>4. ASSUME NEW k \in 0 .. n - 1, k \in G PROVE k + 1 \in G
  <2> DEFINE x == front(k)
             l == tt[k + 1]
  <2>1. x \in Seq(Seq(Int)) /\ front(k + 1) = Append(x, l) /\ l \in Seq(Int)
    BY <1>2
  <2>2. FlattenSeq(ss \o x) = FlattenSeq(ss) \o FlattenSeq(x) /\ k + 1 \in 0 .. n
    BY <1>1, <1>4
  <2> HIDE DEF x, l
  <2>3. ss \o Append(x, l) = Append(ss \o x, l) /\ ss \o x \in Seq(Seq(Int))
    <3> DEFINE p == ss \o Append(x, l)
               q == Append(ss \o x, l)
               m == Len(ss) + Len(x) + 1
    <3>1. /\ p \in Seq(Seq(Int)) /\ q \in Seq(Seq(Int)) /\ ss \o x \in Seq(Seq(Int))
          /\ Len(p) = m /\ Len(q) = m
      BY ONLY <2>1, ss \in Seq(Seq(Int))
    <3>2. ASSUME NEW i \in 1 .. m PROVE p[i] = q[i]
      BY ONLY <2>1, ss \in Seq(Seq(Int)), i \in 1 .. m
    <3> HIDE DEF p, q, m
    <3>3. p = q
      BY ONLY <3>1, <3>2, SeqEqual
    <3>4. QED BY <3>1, <3>3 DEF p, q
  <2>4. FlattenSeq(Append(ss \o x, l)) = FlattenSeq(ss \o x) \o l
    BY <2>1, <2>3, FlatAppend
  <2>5. FlattenSeq(Append(x, l)) = FlattenSeq(x) \o l /\ FlattenSeq(x) \in Seq(Int)
        /\ FlattenSeq(ss) \in Seq(Int)
    BY <2>1, FlatAppend
  <2>6. (FlattenSeq(ss) \o FlattenSeq(x)) \o l = FlattenSeq(ss) \o (FlattenSeq(x) \o l)
    BY <2>1, <2>5, Regrouped
  <2>7. QED BY <2>1, <2>2, <2>3, <2>4, <2>5, <2>6
<1>5. n \in G
  <2>1. \A k \in 0 .. n - 1 : k \in G => k + 1 \in G
    BY <1>4
  <2> HIDE DEF G
  <2>2. \A k \in 0 .. n : k \in G
    BY <1>1, <1>3, <2>1, Positions
  <2>3. QED BY <1>1, <2>2
<1>6. QED BY <1>1, <1>5

LEMMA OneMore ==
  ASSUME NEW x \in Seq(Int), NEW y \in Seq(Int), NEW c \in Int
  PROVE  x \o Append(y, c) = Append(x \o y, c) /\ x \o y \in Seq(Int)
<1>1. x \o Append(y, c) = Append(x \o y, c)
  BY AppendBehind
<1>2. x \o y \in Seq(Int)
  OBVIOUS
<1>3. QED BY <1>1, <1>2

-----------------------------------------------------------------------------
(* Names: their labels, and their labels with dots between them. *)

\* The fold of Labels.
LabelsStart == [labels |-> <<>>, label |-> <<>>]
LabelsOf(st) == IF st.label = <<>> THEN st.labels ELSE Append(st.labels, st.label)
LabelsStep(st, c) ==
  IF c = Dot THEN [labels |-> LabelsOf(st), label |-> <<>>] ELSE [st EXCEPT !.label = Append(@, c)]
LabelsStates == [labels : Seq(Seq(Int)), label : Seq(Int)]
LabelsEnd(s) == FoldLeft(LAMBDA st, c : LabelsStep(st, c), LabelsStart, s)

LEMMA LabelsAre ==
  ASSUME NEW s PROVE Labels(s) = LabelsOf(LabelsEnd(s))
BY DEF Labels, LabelsEnd, LabelsStep, LabelsStart, LabelsOf

LEMMA LabelsEndType ==
  /\ LabelsStart \in LabelsStates
  /\ \A st \in LabelsStates, c \in Int : LabelsStep(st, c) \in LabelsStates
<1>1. LabelsStart \in LabelsStates
  BY DEF LabelsStart, LabelsStates
<1>2. ASSUME NEW st \in LabelsStates, NEW c \in Int PROVE LabelsStep(st, c) \in LabelsStates
  <2>1. st.labels \in Seq(Seq(Int)) /\ st.label \in Seq(Int) /\ LabelsOf(st) \in Seq(Seq(Int))
    BY DEF LabelsStates, LabelsOf
  <2>2. CASE c = Dot
    BY <2>1, <2>2 DEF LabelsStates, LabelsStep
  <2>3. CASE c # Dot
    <3>1. \A l \in Seq(Int) : [st EXCEPT !.label = l] \in LabelsStates
      BY DEF LabelsStates
    <3>2. Append(st.label, c) \in Seq(Int)
      BY <2>1
    <3>3. QED BY <2>3, <3>1, <3>2 DEF LabelsStep
  <2>4. QED BY <2>2, <2>3
<1>3. QED BY <1>1, <1>2

LabelsEndRun(s, run) ==
  /\ run \in [0 .. Len(s) -> LabelsStates] /\ run[0] = LabelsStart /\ run[Len(s)] = LabelsEnd(s)
  /\ \A k \in 1 .. Len(s) : run[k] = LabelsStep(run[k - 1], s[k])

LEMMA LabelsEndRuns ==
  ASSUME NEW s \in Seq(Int)
  PROVE  \E run : LabelsEndRun(s, run)
<1> DEFINE n == Len(s)
           St == LabelsStates
           base == LabelsStart
           step == [x \in St \X (1 .. n) |-> LabelsStep(x[1], s[x[2]])]
           Eq(f) == f = [T \in SUBSET DOMAIN s |->
                      IF T = {} THEN base ELSE LabelsStep(f[T \ {Max(T)}], s[Max(T)])]
           f == CHOOSE g : Eq(g)
<1>1. LabelsEnd(s) = f[DOMAIN s]
  BY DEF LabelsEnd, FoldLeft, MapThenFoldSet
<1>2. n \in Nat /\ DOMAIN s = 1 .. n
  OBVIOUS
<1>3. base \in St /\ \A st \in St, c \in Int : LabelsStep(st, c) \in St
  BY LabelsEndType
<1>4. base \in St
  BY <1>3
<1>5. step \in [St \X (1 .. n) -> St]
  <2>1. \A k \in 1 .. n : s[k] \in Int
    OBVIOUS
  <2> HIDE DEF n, St, base
  <2>2. \A x \in St \X (1 .. n) : LabelsStep(x[1], s[x[2]]) \in St
    BY <1>3, <2>1
  <2>3. QED BY <2>2
<1>6. \A st \in St, k \in 1 .. n : step[<<st, k>>] = LabelsStep(st, s[k])
  OBVIOUS
<1> HIDE DEF n, St, base, step, f
<1>7. PICK g \in [SUBSET (1 .. n) -> St] : FoldOf(n, base, step, g)
  BY <1>2, <1>4, <1>5, FoldExists
<1>8. Eq(g)
  <2>1. ASSUME NEW T \in SUBSET (1 .. n), T # {}
        PROVE  step[<<g[T \ {Max(T)}], Max(T)>>] = LabelsStep(g[T \ {Max(T)}], s[Max(T)])
    <3>1. Max(T) \in 1 .. n
      BY <1>2, <2>1, MaxIs
    <3>2. g[T \ {Max(T)}] \in St
      OBVIOUS
    <3>3. QED BY <1>6, <3>1, <3>2
  <2>2. QED BY ONLY <1>2, <1>7, <2>1 DEF FoldOf
<1>9. Eq(f)
  BY <1>8 DEF f
<1>10. f[{}] = base
  BY <1>9
<1>11. ASSUME NEW k \in 1 .. n, f[1 .. (k - 1)] \in St
       PROVE  f[1 .. k] = step[<<f[1 .. (k - 1)], k>>]
  <2>1. 1 .. k \in SUBSET DOMAIN s /\ 1 .. k # {} /\ k \in Nat \ {0}
    BY <1>2, UpTo
  <2>2. f[1 .. k] = LabelsStep(f[(1 .. k) \ {Max(1 .. k)}], s[Max(1 .. k)])
    BY <1>9, <2>1
  <2>3. Max(1 .. k) = k /\ (1 .. k) \ {Max(1 .. k)} = 1 .. (k - 1)
    BY <2>1, LessTheLast
  <2>4. f[1 .. k] = LabelsStep(f[1 .. (k - 1)], s[k])
    BY ONLY <2>2, <2>3
  <2>5. QED BY ONLY <1>6, <1>11, <2>4
<1>12. PICK run \in [0 .. n -> St] : RunOf(n, base, step, f[1 .. n], run)
  BY <1>2, <1>4, <1>5, <1>10, <1>11, FoldRuns
<1>13. \A k \in 1 .. n : run[k] = LabelsStep(run[k - 1], s[k])
  <2>1. \A k \in 1 .. n : run[k - 1] \in St
    BY <1>2
  <2>2. QED BY <1>6, <1>12, <2>1 DEF RunOf
<1>14. LabelsEndRun(s, run)
  BY <1>1, <1>2, <1>12, <1>13 DEF n, St, base, RunOf, LabelsEndRun
<1>15. QED BY <1>14

LEMMA LabelsEndAppend ==
  ASSUME NEW s \in Seq(Int), NEW c \in Int
  PROVE  /\ LabelsEnd(s) \in LabelsStates
         /\ LabelsEnd(Append(s, c)) = LabelsStep(LabelsEnd(s), c)
<1> DEFINE t == Append(s, c)
           n == Len(s)
<1>1. /\ t \in Seq(Int) /\ Len(t) = n + 1 /\ n \in Nat /\ t[n + 1] = c
      /\ \A k \in 1 .. n : t[k] = s[k]
  OBVIOUS
<1>2. n + 1 \in 1 .. n + 1 /\ (n + 1) - 1 = n
  OBVIOUS
<1>3. PICK r : LabelsEndRun(s, r)
  BY LabelsEndRuns
<1>4. /\ r \in [0 .. n -> LabelsStates] /\ r[0] = LabelsStart /\ r[n] = LabelsEnd(s)
      /\ \A k \in 1 .. n : r[k] = LabelsStep(r[k - 1], s[k])
  BY <1>3 DEF LabelsEndRun
<1> HIDE DEF t, n
<1>5. PICK q : LabelsEndRun(t, q)
  BY <1>1, LabelsEndRuns
<1>6. /\ q \in [0 .. Len(t) -> LabelsStates] /\ q[0] = LabelsStart /\ q[Len(t)] = LabelsEnd(t)
      /\ \A k \in 1 .. Len(t) : q[k] = LabelsStep(q[k - 1], t[k])
  BY <1>5 DEF LabelsEndRun
<1>7. r[n] = q[n]
  <2>1. \A k \in 1 .. n : k \in 1 .. Len(t)
    BY <1>1
  <2>2. \A k \in 1 .. n : r[k - 1] = q[k - 1] => r[k] = q[k]
    BY ONLY <1>1, <1>4, <1>6, <2>1
  <2>3. r[0] = q[0] /\ n \in Nat
    BY <1>1, <1>4, <1>6
  <2>4. QED BY ONLY <2>2, <2>3, SameRuns
<1>8. q[n + 1] = LabelsStep(q[n], c)
  <2>1. n + 1 \in 1 .. Len(t)
    BY <1>1, <1>2
  <2>2. QED BY ONLY <1>1, <1>2, <1>6, <2>1
<1>9. LabelsEnd(s) \in LabelsStates
  BY <1>1, <1>4
<1>10. LabelsEnd(t) = LabelsStep(LabelsEnd(s), c)
  BY <1>1, <1>4, <1>6, <1>7, <1>8
<1>11. QED BY <1>9, <1>10 DEF t

LEMMA LabelsEndEmpty ==
  LabelsEnd(<<>>) = LabelsStart
<1>1. <<>> \in Seq(Int) /\ Len(<<>>) = 0
  OBVIOUS
<1>2. PICK run : LabelsEndRun(<<>>, run)
  BY <1>1, LabelsEndRuns
<1>3. run[0] = LabelsStart /\ run[Len(<<>>)] = LabelsEnd(<<>>)
  BY <1>2 DEF LabelsEndRun
<1>4. QED BY <1>1, <1>3

\* The fold of Joined.
JoinedStep(s, l) == IF s = <<>> THEN l ELSE s \o <<Dot>> \o l

LEMMA JoinedType ==
  /\ <<>> \in Seq(Int)
  /\ \A st \in Seq(Int), c \in Seq(Int) : JoinedStep(st, c) \in Seq(Int)
BY DEF JoinedStep, Dot

JoinedRun(s, run) ==
  /\ run \in [0 .. Len(s) -> Seq(Int)] /\ run[0] = <<>> /\ run[Len(s)] = Joined(s)
  /\ \A k \in 1 .. Len(s) : run[k] = JoinedStep(run[k - 1], s[k])

LEMMA JoinedRuns ==
  ASSUME NEW s \in Seq(Seq(Int))
  PROVE  \E run : JoinedRun(s, run)
<1> DEFINE n == Len(s)
           St == Seq(Int)
           base == <<>>
           step == [x \in St \X (1 .. n) |-> JoinedStep(x[1], s[x[2]])]
           Eq(f) == f = [T \in SUBSET DOMAIN s |->
                      IF T = {} THEN base ELSE JoinedStep(f[T \ {Max(T)}], s[Max(T)])]
           f == CHOOSE g : Eq(g)
<1>1. Joined(s) = f[DOMAIN s]
  BY DEF Joined, JoinedStep, FoldLeft, MapThenFoldSet
<1>2. n \in Nat /\ DOMAIN s = 1 .. n
  OBVIOUS
<1>3. base \in St /\ \A st \in St, c \in Seq(Int) : JoinedStep(st, c) \in St
  BY JoinedType
<1>4. base \in St
  BY <1>3
<1>5. step \in [St \X (1 .. n) -> St]
  <2>1. \A k \in 1 .. n : s[k] \in Seq(Int)
    OBVIOUS
  <2> HIDE DEF n, St, base
  <2>2. \A x \in St \X (1 .. n) : JoinedStep(x[1], s[x[2]]) \in St
    BY <1>3, <2>1
  <2>3. QED BY <2>2
<1>6. \A st \in St, k \in 1 .. n : step[<<st, k>>] = JoinedStep(st, s[k])
  OBVIOUS
<1> HIDE DEF n, St, base, step, f
<1>7. PICK g \in [SUBSET (1 .. n) -> St] : FoldOf(n, base, step, g)
  BY <1>2, <1>4, <1>5, FoldExists
<1>8. Eq(g)
  <2>1. ASSUME NEW T \in SUBSET (1 .. n), T # {}
        PROVE  step[<<g[T \ {Max(T)}], Max(T)>>] = JoinedStep(g[T \ {Max(T)}], s[Max(T)])
    <3>1. Max(T) \in 1 .. n
      BY <1>2, <2>1, MaxIs
    <3>2. g[T \ {Max(T)}] \in St
      OBVIOUS
    <3>3. QED BY <1>6, <3>1, <3>2
  <2>2. QED BY ONLY <1>2, <1>7, <2>1 DEF FoldOf
<1>9. Eq(f)
  BY <1>8 DEF f
<1>10. f[{}] = base
  BY <1>9
<1>11. ASSUME NEW k \in 1 .. n, f[1 .. (k - 1)] \in St
       PROVE  f[1 .. k] = step[<<f[1 .. (k - 1)], k>>]
  <2>1. 1 .. k \in SUBSET DOMAIN s /\ 1 .. k # {} /\ k \in Nat \ {0}
    BY <1>2, UpTo
  <2>2. f[1 .. k] = JoinedStep(f[(1 .. k) \ {Max(1 .. k)}], s[Max(1 .. k)])
    BY <1>9, <2>1
  <2>3. Max(1 .. k) = k /\ (1 .. k) \ {Max(1 .. k)} = 1 .. (k - 1)
    BY <2>1, LessTheLast
  <2>4. f[1 .. k] = JoinedStep(f[1 .. (k - 1)], s[k])
    BY ONLY <2>2, <2>3
  <2>5. QED BY ONLY <1>6, <1>11, <2>4
<1>12. PICK run \in [0 .. n -> St] : RunOf(n, base, step, f[1 .. n], run)
  BY <1>2, <1>4, <1>5, <1>10, <1>11, FoldRuns
<1>13. \A k \in 1 .. n : run[k] = JoinedStep(run[k - 1], s[k])
  <2>1. \A k \in 1 .. n : run[k - 1] \in St
    BY <1>2
  <2>2. QED BY <1>6, <1>12, <2>1 DEF RunOf
<1>14. JoinedRun(s, run)
  BY <1>1, <1>2, <1>12, <1>13 DEF n, St, base, RunOf, JoinedRun
<1>15. QED BY <1>14

LEMMA JoinedAppend ==
  ASSUME NEW s \in Seq(Seq(Int)), NEW c \in Seq(Int)
  PROVE  /\ Joined(s) \in Seq(Int)
         /\ Joined(Append(s, c)) = JoinedStep(Joined(s), c)
<1> DEFINE t == Append(s, c)
           n == Len(s)
<1>1. /\ t \in Seq(Seq(Int)) /\ Len(t) = n + 1 /\ n \in Nat /\ t[n + 1] = c
      /\ \A k \in 1 .. n : t[k] = s[k]
  OBVIOUS
<1>2. n + 1 \in 1 .. n + 1 /\ (n + 1) - 1 = n
  OBVIOUS
<1>3. PICK r : JoinedRun(s, r)
  BY JoinedRuns
<1>4. /\ r \in [0 .. n -> Seq(Int)] /\ r[0] = <<>> /\ r[n] = Joined(s)
      /\ \A k \in 1 .. n : r[k] = JoinedStep(r[k - 1], s[k])
  BY <1>3 DEF JoinedRun
<1> HIDE DEF t, n
<1>5. PICK q : JoinedRun(t, q)
  BY <1>1, JoinedRuns
<1>6. /\ q \in [0 .. Len(t) -> Seq(Int)] /\ q[0] = <<>> /\ q[Len(t)] = Joined(t)
      /\ \A k \in 1 .. Len(t) : q[k] = JoinedStep(q[k - 1], t[k])
  BY <1>5 DEF JoinedRun
<1>7. r[n] = q[n]
  <2>1. \A k \in 1 .. n : k \in 1 .. Len(t)
    BY <1>1
  <2>2. \A k \in 1 .. n : r[k - 1] = q[k - 1] => r[k] = q[k]
    BY ONLY <1>1, <1>4, <1>6, <2>1
  <2>3. r[0] = q[0] /\ n \in Nat
    BY <1>1, <1>4, <1>6
  <2>4. QED BY ONLY <2>2, <2>3, SameRuns
<1>8. q[n + 1] = JoinedStep(q[n], c)
  <2>1. n + 1 \in 1 .. Len(t)
    BY <1>1, <1>2
  <2>2. QED BY ONLY <1>1, <1>2, <1>6, <2>1
<1>9. Joined(s) \in Seq(Int)
  BY <1>1, <1>4
<1>10. Joined(t) = JoinedStep(Joined(s), c)
  BY <1>1, <1>4, <1>6, <1>7, <1>8
<1>11. QED BY <1>9, <1>10 DEF t

LEMMA JoinedEmpty ==
  Joined(<<>>) = <<>>
<1>1. <<>> \in Seq(Seq(Int)) /\ Len(<<>>) = 0
  OBVIOUS
<1>2. PICK run : JoinedRun(<<>>, run)
  BY <1>1, JoinedRuns
<1>3. run[0] = <<>> /\ run[Len(<<>>)] = Joined(<<>>)
  BY <1>2 DEF JoinedRun
<1>4. QED BY <1>1, <1>3

-----------------------------------------------------------------------------
(* Induction on the labels of a name. *)

\* Induction on a set of sequences.
LEMMA SequencesGrow ==
  ASSUME NEW S, NEW G, <<>> \in G, \A s \in Seq(S), c \in S : s \in G => Append(s, c) \in G
  PROVE  \A s \in Seq(S) : s \in G
<1> SUFFICES ASSUME NEW s \in Seq(S) PROVE s \in G
  OBVIOUS
<1> DEFINE n == Len(s)
           front(k) == SubSeq(s, 1, k)
           H == {k \in 0 .. n : front(k) \in G}
<1>1. front(0) = <<>> /\ front(n) = s /\ n \in Nat
  BY EmptyPrefix
<1>2. ASSUME NEW k \in 0 .. n - 1
      PROVE  front(k) \in Seq(S) /\ front(k + 1) = Append(front(k), s[k + 1]) /\ s[k + 1] \in S
  BY LongerPrefix
<1> HIDE DEF front, n
<1>3. 0 \in H
  BY <1>1
<1>4. ASSUME NEW k \in 0 .. n - 1, k \in H PROVE k + 1 \in H
  <2>1. k + 1 \in 0 .. n /\ front(k) \in G
    BY <1>1, <1>4
  <2>2. front(k + 1) \in G
    BY <1>2, <2>1
  <2>3. QED BY <2>1, <2>2
<1>5. n \in H
  <2>1. \A k \in 0 .. n - 1 : k \in H => k + 1 \in H
    BY <1>4
  <2> HIDE DEF H
  <2>2. \A k \in 0 .. n : k \in H
    BY <1>1, <1>3, <2>1, Positions
  <2>3. QED BY <1>1, <2>2
<1>6. QED BY <1>1, <1>5

\* What a label is, and the labels of a name.
IsLabel(l) == l \in Seq(Int) /\ l # <<>> /\ \A i \in 1 .. Len(l) : l[i] # Dot
IsName(L) == L \in Seq(Seq(Int)) /\ L # <<>> /\ \A k \in 1 .. Len(L) : IsLabel(L[k])

LEMMA NameOfOne ==
  ASSUME NEW l, IsLabel(l)
  PROVE  IsName(<<l>>) /\ Append(<<>>, l) = <<l>> /\ <<l>>[1] = l
<1>1. l \in Seq(Int) /\ Len(<<l>>) = 1 /\ <<l>>[1] = l /\ <<l>> # <<>>
  BY DEF IsLabel
<1>2. <<l>> \in Seq(Seq(Int))
  BY <1>1
<1>3. QED BY <1>1, <1>2 DEF IsName

LEMMA NameAppend ==
  ASSUME NEW L \in Seq(Seq(Int)), NEW l \in Seq(Int)
  PROVE  IsName(Append(L, l)) <=> IsLabel(l) /\ (L = <<>> \/ IsName(L))
<1> DEFINE t == Append(L, l)
           n == Len(L)
<1>1. /\ t \in Seq(Seq(Int)) /\ Len(t) = n + 1 /\ n \in Nat /\ t[n + 1] = l /\ t # <<>>
      /\ \A k \in 1 .. n : t[k] = L[k]
  <2>1. t \in Seq(Seq(Int)) /\ Len(t) = n + 1 /\ n \in Nat
    OBVIOUS
  <2>2. \A k \in 1 .. n : t[k] = L[k]
    OBVIOUS
  <2>3. t[n + 1] = l
    OBVIOUS
  <2>4. Len(<<>>) = 0
    OBVIOUS
  <2> HIDE DEF t, n
  <2>5. t # <<>>
    BY <2>1, <2>4
  <2>6. QED BY <2>1, <2>2, <2>3, <2>5
<1>2. L = <<>> <=> n = 0
  OBVIOUS
<1>3. L \in Seq(Seq(Int)) /\ n = Len(L)
  OBVIOUS
<1> HIDE DEF t, n
<1>4. \A k \in 1 .. n + 1 : k \in 1 .. n \/ k = n + 1
  BY <1>1
<1>5. n + 1 \in 1 .. n + 1 /\ \A k \in 1 .. n : k \in 1 .. n + 1
  BY <1>1
<1>6. IsName(t) <=> \A k \in 1 .. n + 1 : IsLabel(t[k])
  BY <1>1 DEF IsName
<1>7. IsName(t) <=> IsLabel(l) /\ \A k \in 1 .. n : IsLabel(L[k])
  BY ONLY <1>1, <1>4, <1>5, <1>6
<1>8. L = <<>> => \A k \in 1 .. n : IsLabel(L[k])
  <2>1. n = 0 => ~\E k \in 1 .. n : TRUE
    OBVIOUS
  <2>2. QED BY <1>2, <2>1
<1>9. (L = <<>> \/ IsName(L)) <=> \A k \in 1 .. n : IsLabel(L[k])
  BY <1>3, <1>8 DEF IsName
<1>10. QED BY <1>7, <1>9 DEF t

\* Induction on a set of names.
LEMMA NamesGrow ==
  ASSUME NEW G, \A l \in Seq(Int) : IsLabel(l) => <<l>> \in G,
         \A L \in Seq(Seq(Int)), l \in Seq(Int) :
           IsName(L) /\ IsLabel(l) /\ L \in G => Append(L, l) \in G
  PROVE  \A L : IsName(L) => L \in G
<1> DEFINE H == {L \in Seq(Seq(Int)) : IsName(L) => L \in G}
<1>1. <<>> \in H
  BY DEF IsName
<1>2. ASSUME NEW L \in Seq(Seq(Int)), NEW l \in Seq(Int), L \in H PROVE Append(L, l) \in H
  <2>1. Append(L, l) \in Seq(Seq(Int))
    OBVIOUS
  <2>2. ASSUME IsName(Append(L, l)) PROVE Append(L, l) \in G
    <3>1. IsLabel(l) /\ (L = <<>> \/ IsName(L))
      BY <2>2, NameAppend
    <3>2. CASE L = <<>>
      <4>1. Append(L, l) = <<l>>
        BY <3>2
      <4>2. QED BY <3>1, <4>1
    <3>3. CASE IsName(L)
      BY <1>2, <3>1, <3>3
    <3>4. QED BY <3>1, <3>2, <3>3
  <2>3. QED BY <2>1, <2>2
<1>3. \A L \in Seq(Seq(Int)) : L \in H
  <2>1. \A L \in Seq(Seq(Int)), l \in Seq(Int) : L \in H => Append(L, l) \in H
    BY <1>2
  <2> HIDE DEF H
  <2>2. QED BY <1>1, <2>1, SequencesGrow
<1>4. QED BY <1>3 DEF IsName

\* A label behind a name.
LEMMA JoinedLonger ==
  ASSUME NEW L, IsName(L), NEW l, IsLabel(l)
  PROVE  /\ Joined(L) \in Seq(Int) /\ Joined(L) # <<>>
         /\ Joined(Append(L, l)) = Joined(L) \o (<<Dot>> \o l)
<1> DEFINE G == {M \in Seq(Seq(Int)) : Joined(M) \in Seq(Int) /\ Joined(M) # <<>>}
<1>1. ASSUME NEW x \in Seq(Int), IsLabel(x) PROVE <<x>> \in G
  <2>1. Joined(<<>>) = <<>> /\ <<>> \in Seq(Seq(Int))
    BY JoinedEmpty
  <2>2. Joined(Append(<<>>, x)) = JoinedStep(Joined(<<>>), x)
    BY <2>1, JoinedAppend
  <2>3. Joined(<<x>>) = x
    BY <1>1, <2>1, <2>2, NameOfOne DEF JoinedStep
  <2>4. QED BY <1>1, <2>3, NameOfOne DEF IsLabel, IsName
<1>2. ASSUME NEW M \in Seq(Seq(Int)), NEW x \in Seq(Int), IsLabel(x), M \in G
      PROVE  Append(M, x) \in G /\ Joined(Append(M, x)) = Joined(M) \o (<<Dot>> \o x)
  <2>1. Joined(Append(M, x)) = JoinedStep(Joined(M), x)
    BY JoinedAppend
  <2>2. Joined(Append(M, x)) = (Joined(M) \o <<Dot>>) \o x
    BY <1>2, <2>1 DEF JoinedStep
  <2>3. <<Dot>> \in Seq(Int) /\ Len(<<Dot>>) = 1
    BY DEF Dot
  <2>4. Joined(M) \o (<<Dot>> \o x) = (Joined(M) \o <<Dot>>) \o x
    BY <1>2, <2>3, Regrouped
  <2>5. \A y \in Seq(Int) : y \o <<Dot>> \in Seq(Int) /\ y \o <<Dot>> # <<>>
    BY <2>3
  <2>6. \A y \in Seq(Int) : y # <<>> => y \o x \in Seq(Int) /\ y \o x # <<>>
    OBVIOUS
  <2>7. Append(M, x) \in Seq(Seq(Int))
    OBVIOUS
  <2>8. Joined(M) \o <<Dot>> \in Seq(Int) /\ Joined(M) \o <<Dot>> # <<>>
    BY <1>2, <2>5
  <2>9. QED BY <2>2, <2>4, <2>6, <2>7, <2>8
<1>3. \A M : IsName(M) => M \in G
  <2> HIDE DEF G
  <2>1. QED BY <1>1, <1>2, NamesGrow
<1>4. L \in G /\ L \in Seq(Seq(Int)) /\ l \in Seq(Int)
  BY <1>3 DEF IsName, IsLabel
<1>5. QED BY <1>2, <1>4

LEMMA JoinedOne == ASSUME NEW l, IsLabel(l) PROVE Joined(<<l>>) = l
<1>1. Joined(<<>>) = <<>> /\ <<>> \in Seq(Seq(Int)) /\ l \in Seq(Int)
  BY JoinedEmpty DEF IsLabel
<1>2. Joined(Append(<<>>, l)) = JoinedStep(Joined(<<>>), l)
  BY <1>1, JoinedAppend
<1>3. QED BY <1>1, <1>2, NameOfOne DEF JoinedStep

-----------------------------------------------------------------------------
(* The labels of a name are what it was made of. *)

Plain == Int \ {Dot}

LEMMA LabelIsPlain ==
  ASSUME NEW l, IsLabel(l)
  PROVE  l \in Seq(Plain) /\ l \in Seq(Int) /\ l # <<>> /\ Len(l) \in Nat \ {0}
<1>1. l \in Seq(Int) /\ \A i \in 1 .. Len(l) : l[i] \in Plain
  BY DEF IsLabel, Plain
<1>2. l # <<>>
  BY DEF IsLabel
<1>3. l \in Seq(Plain)
  BY <1>1
<1>4. Len(l) \in Nat \ {0}
  BY <1>1, <1>2
<1>5. QED BY <1>1, <1>2, <1>3, <1>4

\* Plain characters go to the label that has begun.
LEMMA LabelsBehind ==
  ASSUME NEW s \in Seq(Int), NEW l \in Seq(Plain)
  PROVE  /\ LabelsEnd(s \o l).labels = LabelsEnd(s).labels
         /\ LabelsEnd(s \o l).label = LabelsEnd(s).label \o l
<1> DEFINE e(x) == LabelsEnd(x)
           G == {x \in Seq(Plain) : e(s \o x).labels = e(s).labels /\ e(s \o x).label = e(s).label \o x}
<1>1. \A x \in Seq(Int) : e(x) \in LabelsStates
  <2>1. Dot \in Int
    BY DEF Dot
  <2>2. QED BY <2>1, LabelsEndAppend
<1>2. \A x \in Seq(Int) : e(x).labels \in Seq(Seq(Int)) /\ e(x).label \in Seq(Int)
  BY <1>1 DEF LabelsStates
<1>3. \A x \in Seq(Plain) : x \in Seq(Int)
  <2>1. Plain \subseteq Int
    BY DEF Plain
  <2>2. QED BY <2>1, SeqMonotonic
<1>4. <<>> \in G
  <2>1. s \o <<>> = s /\ <<>> \in Seq(Plain) /\ \A x \in Seq(Int) : x \o <<>> = x
    OBVIOUS
  <2> HIDE DEF e
  <2>2. e(s).label \o <<>> = e(s).label
    BY <1>2, <2>1
  <2>3. QED BY <2>1, <2>2
<1>5. ASSUME NEW x \in Seq(Plain), NEW c \in Plain, x \in G PROVE Append(x, c) \in G
  <2>1. x \in Seq(Int) /\ c \in Int /\ c # Dot /\ s \o x \in Seq(Int) /\ Append(x, c) \in Seq(Plain)
    BY <1>3 DEF Plain
  <2>2. s \o Append(x, c) = Append(s \o x, c)
    BY <2>1, AppendBehind
  <2>3. e(Append(s \o x, c)) = LabelsStep(e(s \o x), c)
    BY <2>1, LabelsEndAppend
  <2>4. e(s \o x).labels = e(s).labels /\ e(s \o x).label = e(s).label \o x
    BY <1>5
  <2>5. e(s).label \in Seq(Int) /\ e(s \o x) \in LabelsStates
    BY <1>1, <1>2, <2>1
  <2> HIDE DEF e
  <2>6. LabelsStep(e(s \o x), c) = [e(s \o x) EXCEPT !.label = Append(e(s \o x).label, c)]
    BY <2>1 DEF LabelsStep
  <2>7. \A st \in LabelsStates : \A l2 : [st EXCEPT !.label = l2].label = l2
                                     /\ [st EXCEPT !.label = l2].labels = st.labels
    BY DEF LabelsStates
  <2>8. Append(e(s).label \o x, c) = e(s).label \o Append(x, c)
    BY <2>1, <2>5, OneMore
  <2>9. e(s \o Append(x, c)).label = Append(e(s).label \o x, c)
        /\ e(s \o Append(x, c)).labels = e(s).labels
    BY <2>2, <2>3, <2>4, <2>5, <2>6, <2>7
  <2>10. QED BY <2>1, <2>8, <2>9
<1>6. l \in G
  <2>1. \A x \in Seq(Plain), c \in Plain : x \in G => Append(x, c) \in G
    BY <1>5
  <2> HIDE DEF G
  <2>2. QED BY <1>4, <2>1, SequencesGrow
<1>7. QED BY <1>6

\* Labels undoes Joined, behind nothing or behind a dot.
LEMMA LabelsOfJoined ==
  ASSUME NEW s \in Seq(Int), LabelsEnd(s) = LabelsStart, NEW L, IsName(L)
  PROVE  Labels(s \o Joined(L)) = L
<1> DEFINE e(M) == LabelsEnd(s \o Joined(M))
           G == {M \in Seq(Seq(Int)) : e(M).label # <<>> /\ Append(e(M).labels, e(M).label) = M}
<1>1. LabelsEnd(s).labels = <<>> /\ LabelsEnd(s).label = <<>>
  BY DEF LabelsStart
<1>2. ASSUME NEW l \in Seq(Int), IsLabel(l) PROVE <<l>> \in G
  <2>1. Joined(<<l>>) = l /\ l \in Seq(Plain) /\ l # <<>>
    BY <1>2, JoinedOne, LabelIsPlain
  <2>2. LabelsEnd(s \o l).labels = <<>> /\ LabelsEnd(s \o l).label = <<>> \o l
    BY <1>1, <2>1, LabelsBehind
  <2>3. <<>> \o l = l /\ Append(<<>>, l) = <<l>> /\ <<l>> \in Seq(Seq(Int))
    OBVIOUS
  <2>4. QED BY <2>1, <2>2, <2>3
<1>3. ASSUME NEW M \in Seq(Seq(Int)), NEW l \in Seq(Int), IsName(M), IsLabel(l), M \in G
      PROVE  Append(M, l) \in G
  <2> DEFINE j == Joined(M)
             u == s \o j
             v == Append(u, Dot)
  <2>1. j \in Seq(Int) /\ Joined(Append(M, l)) = j \o (<<Dot>> \o l)
    BY <1>3, JoinedLonger
  <2>2. l \in Seq(Plain) /\ l # <<>> /\ Dot \in Int
    BY <1>3, LabelIsPlain DEF Dot
  <2>3. e(M) = LabelsEnd(u) /\ e(Append(M, l)) = LabelsEnd(s \o (j \o (<<Dot>> \o l)))
    BY <2>1
  <2>4. e(M).label # <<>> /\ Append(e(M).labels, e(M).label) = M
    BY <1>3
  <2> HIDE DEF j, e
  <2>5. u \in Seq(Int) /\ v \in Seq(Int)
    BY <2>1, <2>2
  <2>6. s \o (j \o (<<Dot>> \o l)) = v \o l
    <3>1. <<Dot>> \in Seq(Int) /\ <<Dot>> \o l \in Seq(Int) /\ s \o j \in Seq(Int)
      BY <2>1, <2>2
    <3>2. s \o (j \o (<<Dot>> \o l)) = (s \o j) \o (<<Dot>> \o l)
      BY <2>1, <3>1, Regrouped
    <3>3. (s \o j) \o (<<Dot>> \o l) = ((s \o j) \o <<Dot>>) \o l
      BY <3>1, Regrouped
    <3>4. \A y \in Seq(Int) : y \o <<Dot>> = Append(y, Dot)
      BY <2>2, AppendIsConcat
    <3>5. QED BY <3>1, <3>2, <3>3, <3>4
  <2>7. LabelsEnd(v) = LabelsStep(LabelsEnd(u), Dot)
    <3> HIDE DEF u
    <3>1. QED BY <2>2, <2>5, LabelsEndAppend
  <2> HIDE DEF u, v
  <2>8. LabelsEnd(v).labels = M /\ LabelsEnd(v).label = <<>>
    BY <2>3, <2>4, <2>7 DEF LabelsStep, LabelsOf
  <2>9. LabelsEnd(v \o l).labels = M /\ LabelsEnd(v \o l).label = <<>> \o l
    BY <2>2, <2>5, <2>8, LabelsBehind
  <2>10. e(Append(M, l)).labels = M /\ e(Append(M, l)).label = l
    <3>1. <<>> \o l = l
      OBVIOUS
    <3>2. QED BY <2>3, <2>6, <2>9, <3>1
  <2>11. Append(M, l) \in Seq(Seq(Int))
    OBVIOUS
  <2>12. QED BY <2>2, <2>10, <2>11
<1>4. L \in G
  <2>1. \A l \in Seq(Int) : IsLabel(l) => <<l>> \in G
    BY <1>2
  <2>2. \A M \in Seq(Seq(Int)), l \in Seq(Int) :
          IsName(M) /\ IsLabel(l) /\ M \in G => Append(M, l) \in G
    BY <1>3
  <2> HIDE DEF G
  <2>3. QED BY <2>1, <2>2, NamesGrow
<1>5. Labels(s \o Joined(L)) = LabelsOf(e(L))
  BY LabelsAre
<1>6. QED BY <1>4, <1>5 DEF LabelsOf

LEMMA LabelsOfName ==
  ASSUME NEW L, IsName(L)
  PROVE  Labels(Joined(L)) = L /\ Labels(<<Dot>> \o Joined(L)) = L
<1>1. LabelsEnd(<<>>) = LabelsStart /\ <<>> \in Seq(Int) /\ Dot \in Int
  BY LabelsEndEmpty DEF Dot
<1>2. LabelsEnd(Append(<<>>, Dot)) = LabelsStep(LabelsStart, Dot)
  BY <1>1, LabelsEndAppend
<1>3. LabelsStep(LabelsStart, Dot) = LabelsStart
  BY DEF LabelsStep, LabelsStart, LabelsOf
<1>4. Append(<<>>, Dot) = <<Dot>> /\ <<Dot>> \in Seq(Int)
  BY <1>1
<1>5. Joined(L) \in Seq(Int)
  <2>1. L \in Seq(Seq(Int)) /\ <<>> \in Seq(Int)
    BY DEF IsName
  <2>2. QED BY <2>1, JoinedAppend
<1>6. <<>> \o Joined(L) = Joined(L)
  BY <1>5
<1>7. LabelsEnd(<<Dot>>) = LabelsStart
  BY <1>2, <1>3, <1>4
<1>8. QED BY <1>1, <1>4, <1>6, <1>7, LabelsOfJoined

-----------------------------------------------------------------------------
(* writeDNSName, one character and one label after the other. *)

\* The folds of writeDNSName: the characters of a label, and the labels of a name.
PutStates == [buf : Seq(Int), sent : Seq(Seq(Int))]
PutStart(n0, sent) == [buf |-> <<n0>>, sent |-> sent]
PutEnd(n0, sent, l, B) == FoldLeft(LAMBDA st, c : Put(st, c, B), PutStart(n0, sent), l)
SentStep(B, sent, l) ==
  LET st == PutEnd(Len(l), sent, l, B)
  IN  IF st.buf = <<>> THEN st.sent ELSE Append(st.sent, st.buf)
SentEnd(L, B) == FoldLeft(LAMBDA sent, l : SentStep(B, sent, l), <<>>, L)

LEMMA WritesAre ==
  ASSUME NEW name, NEW B
  PROVE  /\ writeDNSName(name, B, FALSE) = SentEnd(Labels(name), B)
         /\ writeDNSName(name, B, TRUE) = Append(SentEnd(Labels(name), B), <<0>>)
BY DEF writeDNSName, SentEnd, SentStep, PutEnd, PutStart

LEMMA PutParts ==
  ASSUME NEW st \in PutStates, NEW c \in Int, NEW B
  PROVE  LET b == Append(st.buf, c) IN
         /\ Put(st, c, B) \in PutStates /\ st.buf \in Seq(Int) /\ st.sent \in Seq(Seq(Int))
         /\ Len(b) = B => Put(st, c, B).buf = <<>> /\ Put(st, c, B).sent = Append(st.sent, b)
         /\ Len(b) # B => Put(st, c, B).buf = b /\ Put(st, c, B).sent = st.sent
<1> DEFINE b == Append(st.buf, c)
<1>1. st.buf \in Seq(Int) /\ st.sent \in Seq(Seq(Int))
  BY DEF PutStates
<1>2. b \in Seq(Int) /\ <<>> \in Seq(Int)
  BY <1>1
<1> HIDE DEF b
<1>3. Append(st.sent, b) \in Seq(Seq(Int))
  BY <1>1, <1>2
<1>4. Put(st, c, B) = IF Len(b) = B THEN [buf |-> <<>>, sent |-> Append(st.sent, b)]
                      ELSE [st EXCEPT !.buf = b]
  BY DEF Put, b
<1>5. \A l \in Seq(Int) : /\ [st EXCEPT !.buf = l] \in PutStates
                          /\ [st EXCEPT !.buf = l].buf = l /\ [st EXCEPT !.buf = l].sent = st.sent
  BY DEF PutStates
<1>6. Put(st, c, B) \in PutStates
  <2>1. [buf |-> <<>>, sent |-> Append(st.sent, b)] \in PutStates
    BY <1>2, <1>3 DEF PutStates
  <2>2. QED BY <1>2, <1>4, <1>5, <2>1
<1>7. Len(b) = B => Put(st, c, B).buf = <<>> /\ Put(st, c, B).sent = Append(st.sent, b)
  BY <1>2, <1>3, <1>4
<1>8. Len(b) # B => Put(st, c, B).buf = b /\ Put(st, c, B).sent = st.sent
  BY <1>2, <1>4, <1>5
<1>9. QED BY <1>1, <1>6, <1>7, <1>8 DEF b

LEMMA PutEndType ==
  ASSUME NEW n0 \in Int, NEW sent \in Seq(Seq(Int)), NEW B
  PROVE  /\ PutStart(n0, sent) \in PutStates
         /\ \A st \in PutStates, c \in Int : Put(st, c, B) \in PutStates
<1>1. PutStart(n0, sent) \in PutStates
  BY DEF PutStart, PutStates
<1>2. QED BY <1>1, PutParts

PutEndRun(n0, sent, s, B, run) ==
  /\ run \in [0 .. Len(s) -> PutStates] /\ run[0] = PutStart(n0, sent) /\ run[Len(s)] = PutEnd(n0, sent, s, B)
  /\ \A k \in 1 .. Len(s) : run[k] = Put(run[k - 1], s[k], B)

LEMMA PutEndRuns ==
  ASSUME NEW s \in Seq(Int), NEW n0 \in Int, NEW sent \in Seq(Seq(Int)), NEW B
  PROVE  \E run : PutEndRun(n0, sent, s, B, run)
<1> DEFINE n == Len(s)
           St == PutStates
           base == PutStart(n0, sent)
           step == [x \in St \X (1 .. n) |-> Put(x[1], s[x[2]], B)]
           Eq(f) == f = [T \in SUBSET DOMAIN s |->
                      IF T = {} THEN base ELSE Put(f[T \ {Max(T)}], s[Max(T)], B)]
           f == CHOOSE g : Eq(g)
<1>1. PutEnd(n0, sent, s, B) = f[DOMAIN s]
  BY DEF PutEnd, FoldLeft, MapThenFoldSet
<1>2. n \in Nat /\ DOMAIN s = 1 .. n
  OBVIOUS
<1>3. base \in St /\ \A st \in St, c \in Int : Put(st, c, B) \in St
  BY PutEndType
<1>4. base \in St
  BY <1>3
<1>5. step \in [St \X (1 .. n) -> St]
  <2>1. \A k \in 1 .. n : s[k] \in Int
    OBVIOUS
  <2> HIDE DEF n, St, base
  <2>2. \A x \in St \X (1 .. n) : Put(x[1], s[x[2]], B) \in St
    BY <1>3, <2>1
  <2>3. QED BY <2>2
<1>6. \A st \in St, k \in 1 .. n : step[<<st, k>>] = Put(st, s[k], B)
  OBVIOUS
<1> HIDE DEF n, St, base, step, f
<1>7. PICK g \in [SUBSET (1 .. n) -> St] : FoldOf(n, base, step, g)
  BY <1>2, <1>4, <1>5, FoldExists
<1>8. Eq(g)
  <2>1. ASSUME NEW T \in SUBSET (1 .. n), T # {}
        PROVE  step[<<g[T \ {Max(T)}], Max(T)>>] = Put(g[T \ {Max(T)}], s[Max(T)], B)
    <3>1. Max(T) \in 1 .. n
      BY <1>2, <2>1, MaxIs
    <3>2. g[T \ {Max(T)}] \in St
      OBVIOUS
    <3>3. QED BY <1>6, <3>1, <3>2
  <2>2. QED BY ONLY <1>2, <1>7, <2>1 DEF FoldOf
<1>9. Eq(f)
  BY <1>8 DEF f
<1>10. f[{}] = base
  BY <1>9
<1>11. ASSUME NEW k \in 1 .. n, f[1 .. (k - 1)] \in St
       PROVE  f[1 .. k] = step[<<f[1 .. (k - 1)], k>>]
  <2>1. 1 .. k \in SUBSET DOMAIN s /\ 1 .. k # {} /\ k \in Nat \ {0}
    BY <1>2, UpTo
  <2>2. f[1 .. k] = Put(f[(1 .. k) \ {Max(1 .. k)}], s[Max(1 .. k)], B)
    BY <1>9, <2>1
  <2>3. Max(1 .. k) = k /\ (1 .. k) \ {Max(1 .. k)} = 1 .. (k - 1)
    BY <2>1, LessTheLast
  <2>4. f[1 .. k] = Put(f[1 .. (k - 1)], s[k], B)
    BY ONLY <2>2, <2>3
  <2>5. QED BY ONLY <1>6, <1>11, <2>4
<1>12. PICK run \in [0 .. n -> St] : RunOf(n, base, step, f[1 .. n], run)
  BY <1>2, <1>4, <1>5, <1>10, <1>11, FoldRuns
<1>13. \A k \in 1 .. n : run[k] = Put(run[k - 1], s[k], B)
  <2>1. \A k \in 1 .. n : run[k - 1] \in St
    BY <1>2
  <2>2. QED BY <1>6, <1>12, <2>1 DEF RunOf
<1>14. PutEndRun(n0, sent, s, B, run)
  BY <1>1, <1>2, <1>12, <1>13 DEF n, St, base, RunOf, PutEndRun
<1>15. QED BY <1>14

LEMMA PutEndAppend ==
  ASSUME NEW s \in Seq(Int), NEW c \in Int, NEW n0 \in Int, NEW sent \in Seq(Seq(Int)), NEW B
  PROVE  /\ PutEnd(n0, sent, s, B) \in PutStates
         /\ PutEnd(n0, sent, Append(s, c), B) = Put(PutEnd(n0, sent, s, B), c, B)
<1> DEFINE t == Append(s, c)
           n == Len(s)
<1>1. /\ t \in Seq(Int) /\ Len(t) = n + 1 /\ n \in Nat /\ t[n + 1] = c
      /\ \A k \in 1 .. n : t[k] = s[k]
  OBVIOUS
<1>2. n + 1 \in 1 .. n + 1 /\ (n + 1) - 1 = n
  OBVIOUS
<1>3. PICK r : PutEndRun(n0, sent, s, B, r)
  BY PutEndRuns
<1>4. /\ r \in [0 .. n -> PutStates] /\ r[0] = PutStart(n0, sent) /\ r[n] = PutEnd(n0, sent, s, B)
      /\ \A k \in 1 .. n : r[k] = Put(r[k - 1], s[k], B)
  BY <1>3 DEF PutEndRun
<1> HIDE DEF t, n
<1>5. PICK q : PutEndRun(n0, sent, t, B, q)
  BY <1>1, PutEndRuns
<1>6. /\ q \in [0 .. Len(t) -> PutStates] /\ q[0] = PutStart(n0, sent) /\ q[Len(t)] = PutEnd(n0, sent, t, B)
      /\ \A k \in 1 .. Len(t) : q[k] = Put(q[k - 1], t[k], B)
  BY <1>5 DEF PutEndRun
<1>7. r[n] = q[n]
  <2>1. \A k \in 1 .. n : k \in 1 .. Len(t)
    BY <1>1
  <2>2. \A k \in 1 .. n : r[k - 1] = q[k - 1] => r[k] = q[k]
    BY ONLY <1>1, <1>4, <1>6, <2>1
  <2>3. r[0] = q[0] /\ n \in Nat
    BY <1>1, <1>4, <1>6
  <2>4. QED BY ONLY <2>2, <2>3, SameRuns
<1>8. q[n + 1] = Put(q[n], c, B)
  <2>1. n + 1 \in 1 .. Len(t)
    BY <1>1, <1>2
  <2>2. QED BY ONLY <1>1, <1>2, <1>6, <2>1
<1>9. PutEnd(n0, sent, s, B) \in PutStates
  BY <1>1, <1>4
<1>10. PutEnd(n0, sent, t, B) = Put(PutEnd(n0, sent, s, B), c, B)
  BY <1>1, <1>4, <1>6, <1>7, <1>8
<1>11. QED BY <1>9, <1>10 DEF t

LEMMA PutEndEmpty ==
  ASSUME NEW n0 \in Int, NEW sent \in Seq(Seq(Int)), NEW B
  PROVE  PutEnd(n0, sent, <<>>, B) = PutStart(n0, sent)
<1>1. <<>> \in Seq(Int) /\ Len(<<>>) = 0
  OBVIOUS
<1>2. PICK run : PutEndRun(n0, sent, <<>>, B, run)
  BY <1>1, PutEndRuns
<1>3. run[0] = PutStart(n0, sent) /\ run[Len(<<>>)] = PutEnd(n0, sent, <<>>, B)
  BY <1>2 DEF PutEndRun
<1>4. QED BY <1>1, <1>3

LEMMA SentEndType ==
  ASSUME NEW B
  PROVE  /\ <<>> \in Seq(Seq(Int))
         /\ \A sent \in Seq(Seq(Int)), l \in Seq(Int) : SentStep(B, sent, l) \in Seq(Seq(Int))
<1>1. ASSUME NEW sent \in Seq(Seq(Int)), NEW l \in Seq(Int) PROVE SentStep(B, sent, l) \in Seq(Seq(Int))
  <2> DEFINE st == PutEnd(Len(l), sent, l, B)
  <2>1. st \in PutStates
    <3>1. Len(l) \in Int /\ 0 \in Int
      OBVIOUS
    <3>2. QED BY <3>1, PutEndAppend
  <2>2. SentStep(B, sent, l) = IF st.buf = <<>> THEN st.sent ELSE Append(st.sent, st.buf)
    BY DEF SentStep
  <2> HIDE DEF st
  <2>3. QED BY <2>1, <2>2 DEF PutStates
<1>2. QED BY <1>1

SentEndRun(s, B, run) ==
  /\ run \in [0 .. Len(s) -> Seq(Seq(Int))] /\ run[0] = <<>> /\ run[Len(s)] = SentEnd(s, B)
  /\ \A k \in 1 .. Len(s) : run[k] = SentStep(B, run[k - 1], s[k])

LEMMA SentEndRuns ==
  ASSUME NEW s \in Seq(Seq(Int)), NEW B
  PROVE  \E run : SentEndRun(s, B, run)
<1> DEFINE n == Len(s)
           St == Seq(Seq(Int))
           base == <<>>
           step == [x \in St \X (1 .. n) |-> SentStep(B, x[1], s[x[2]])]
           Eq(f) == f = [T \in SUBSET DOMAIN s |->
                      IF T = {} THEN base ELSE SentStep(B, f[T \ {Max(T)}], s[Max(T)])]
           f == CHOOSE g : Eq(g)
<1>1. SentEnd(s, B) = f[DOMAIN s]
  BY DEF SentEnd, FoldLeft, MapThenFoldSet
<1>2. n \in Nat /\ DOMAIN s = 1 .. n
  OBVIOUS
<1>3. base \in St /\ \A st \in St, c \in Seq(Int) : SentStep(B, st, c) \in St
  BY SentEndType
<1>4. base \in St
  BY <1>3
<1>5. step \in [St \X (1 .. n) -> St]
  <2>1. \A k \in 1 .. n : s[k] \in Seq(Int)
    OBVIOUS
  <2> HIDE DEF n, St, base
  <2>2. \A x \in St \X (1 .. n) : SentStep(B, x[1], s[x[2]]) \in St
    BY <1>3, <2>1
  <2>3. QED BY <2>2
<1>6. \A st \in St, k \in 1 .. n : step[<<st, k>>] = SentStep(B, st, s[k])
  OBVIOUS
<1> HIDE DEF n, St, base, step, f
<1>7. PICK g \in [SUBSET (1 .. n) -> St] : FoldOf(n, base, step, g)
  BY <1>2, <1>4, <1>5, FoldExists
<1>8. Eq(g)
  <2>1. ASSUME NEW T \in SUBSET (1 .. n), T # {}
        PROVE  step[<<g[T \ {Max(T)}], Max(T)>>] = SentStep(B, g[T \ {Max(T)}], s[Max(T)])
    <3>1. Max(T) \in 1 .. n
      BY <1>2, <2>1, MaxIs
    <3>2. g[T \ {Max(T)}] \in St
      OBVIOUS
    <3>3. QED BY <1>6, <3>1, <3>2
  <2>2. QED BY ONLY <1>2, <1>7, <2>1 DEF FoldOf
<1>9. Eq(f)
  BY <1>8 DEF f
<1>10. f[{}] = base
  BY <1>9
<1>11. ASSUME NEW k \in 1 .. n, f[1 .. (k - 1)] \in St
       PROVE  f[1 .. k] = step[<<f[1 .. (k - 1)], k>>]
  <2>1. 1 .. k \in SUBSET DOMAIN s /\ 1 .. k # {} /\ k \in Nat \ {0}
    BY <1>2, UpTo
  <2>2. f[1 .. k] = SentStep(B, f[(1 .. k) \ {Max(1 .. k)}], s[Max(1 .. k)])
    BY <1>9, <2>1
  <2>3. Max(1 .. k) = k /\ (1 .. k) \ {Max(1 .. k)} = 1 .. (k - 1)
    BY <2>1, LessTheLast
  <2>4. f[1 .. k] = SentStep(B, f[1 .. (k - 1)], s[k])
    BY ONLY <2>2, <2>3
  <2>5. QED BY ONLY <1>6, <1>11, <2>4
<1>12. PICK run \in [0 .. n -> St] : RunOf(n, base, step, f[1 .. n], run)
  BY <1>2, <1>4, <1>5, <1>10, <1>11, FoldRuns
<1>13. \A k \in 1 .. n : run[k] = SentStep(B, run[k - 1], s[k])
  <2>1. \A k \in 1 .. n : run[k - 1] \in St
    BY <1>2
  <2>2. QED BY <1>6, <1>12, <2>1 DEF RunOf
<1>14. SentEndRun(s, B, run)
  BY <1>1, <1>2, <1>12, <1>13 DEF n, St, base, RunOf, SentEndRun
<1>15. QED BY <1>14

LEMMA SentEndAppend ==
  ASSUME NEW s \in Seq(Seq(Int)), NEW c \in Seq(Int), NEW B
  PROVE  /\ SentEnd(s, B) \in Seq(Seq(Int))
         /\ SentEnd(Append(s, c), B) = SentStep(B, SentEnd(s, B), c)
<1> DEFINE t == Append(s, c)
           n == Len(s)
<1>1. /\ t \in Seq(Seq(Int)) /\ Len(t) = n + 1 /\ n \in Nat /\ t[n + 1] = c
      /\ \A k \in 1 .. n : t[k] = s[k]
  OBVIOUS
<1>2. n + 1 \in 1 .. n + 1 /\ (n + 1) - 1 = n
  OBVIOUS
<1>3. PICK r : SentEndRun(s, B, r)
  BY SentEndRuns
<1>4. /\ r \in [0 .. n -> Seq(Seq(Int))] /\ r[0] = <<>> /\ r[n] = SentEnd(s, B)
      /\ \A k \in 1 .. n : r[k] = SentStep(B, r[k - 1], s[k])
  BY <1>3 DEF SentEndRun
<1> HIDE DEF t, n
<1>5. PICK q : SentEndRun(t, B, q)
  BY <1>1, SentEndRuns
<1>6. /\ q \in [0 .. Len(t) -> Seq(Seq(Int))] /\ q[0] = <<>> /\ q[Len(t)] = SentEnd(t, B)
      /\ \A k \in 1 .. Len(t) : q[k] = SentStep(B, q[k - 1], t[k])
  BY <1>5 DEF SentEndRun
<1>7. r[n] = q[n]
  <2>1. \A k \in 1 .. n : k \in 1 .. Len(t)
    BY <1>1
  <2>2. \A k \in 1 .. n : r[k - 1] = q[k - 1] => r[k] = q[k]
    BY ONLY <1>1, <1>4, <1>6, <2>1
  <2>3. r[0] = q[0] /\ n \in Nat
    BY <1>1, <1>4, <1>6
  <2>4. QED BY ONLY <2>2, <2>3, SameRuns
<1>8. q[n + 1] = SentStep(B, q[n], c)
  <2>1. n + 1 \in 1 .. Len(t)
    BY <1>1, <1>2
  <2>2. QED BY ONLY <1>1, <1>2, <1>6, <2>1
<1>9. SentEnd(s, B) \in Seq(Seq(Int))
  BY <1>1, <1>4
<1>10. SentEnd(t, B) = SentStep(B, SentEnd(s, B), c)
  BY <1>1, <1>4, <1>6, <1>7, <1>8
<1>11. QED BY <1>9, <1>10 DEF t

LEMMA SentEndEmpty ==
  ASSUME NEW B
  PROVE  SentEnd(<<>>, B) = <<>>
<1>1. <<>> \in Seq(Seq(Int)) /\ Len(<<>>) = 0
  OBVIOUS
<1>2. PICK run : SentEndRun(<<>>, B, run)
  BY <1>1, SentEndRuns
<1>3. run[0] = <<>> /\ run[Len(<<>>)] = SentEnd(<<>>, B)
  BY <1>2 DEF SentEndRun
<1>4. QED BY <1>1, <1>3

-----------------------------------------------------------------------------
(* What it has written. *)

\* Writes of one to B bytes.
Fits(ws, B) == ws \in Seq(Seq(Int)) /\ \A k \in 1 .. Len(ws) : Len(ws[k]) \in 1 .. B

LEMMA FitsAppend ==
  ASSUME NEW B, NEW ws, Fits(ws, B), NEW w \in Seq(Int), Len(w) \in 1 .. B
  PROVE  Fits(Append(ws, w), B)
<1> DEFINE t == Append(ws, w)
           n == Len(ws)
<1>1. ws \in Seq(Seq(Int)) /\ \A k \in 1 .. n : Len(ws[k]) \in 1 .. B
  BY DEF Fits
<1>2. t \in Seq(Seq(Int)) /\ Len(t) = n + 1 /\ n \in Nat
  BY <1>1
<1>3. t[n + 1] = w /\ \A k \in 1 .. n : t[k] = ws[k]
  BY <1>1
<1> HIDE DEF t, n
<1>4. \A k \in 1 .. n + 1 : k \in 1 .. n \/ k = n + 1
  BY <1>2
<1>5. \A k \in 1 .. n + 1 : Len(t[k]) \in 1 .. B
  BY <1>1, <1>3, <1>4
<1>6. Fits(t, B)
  BY <1>2, <1>5 DEF Fits
<1>7. QED BY <1>6 DEF t

\* What has been written and what waits in the buffer are the length and the characters.
PutDone(n0, sent, l, B) ==
  LET st == PutEnd(n0, sent, l, B) IN
  /\ st \in PutStates /\ Fits(st.sent, B) /\ Len(st.buf) \in 0 .. B - 1
  /\ FlattenSeq(st.sent) \o st.buf = FlattenSeq(sent) \o (<<n0>> \o l)

LEMMA PutWrites ==
  ASSUME NEW B \in Nat, B >= 2, NEW n0 \in Int, NEW sent, Fits(sent, B), NEW l \in Seq(Int)
  PROVE  PutDone(n0, sent, l, B)
<1> DEFINE G == {x \in Seq(Int) : PutDone(n0, sent, x, B)}
<1>1. sent \in Seq(Seq(Int)) /\ FlattenSeq(sent) \in Seq(Int) /\ <<n0>> \in Seq(Int) /\ <<>> \in Seq(Int)
  <2>1. sent \in Seq(Seq(Int)) /\ <<>> \in Seq(Int) /\ <<n0>> \in Seq(Int)
    BY DEF Fits
  <2>2. QED BY <2>1, FlatAppend
<1>2. <<>> \in G
  <2>1. PutEnd(n0, sent, <<>>, B) = PutStart(n0, sent)
    BY <1>1, PutEndEmpty
  <2>2. PutStart(n0, sent) \in PutStates
    BY <1>1, PutEndType
  <2>3. <<n0>> \o <<>> = <<n0>> /\ Len(<<n0>>) \in 0 .. B - 1
    OBVIOUS
  <2>4. PutStart(n0, sent).buf = <<n0>> /\ PutStart(n0, sent).sent = sent
    BY DEF PutStart
  <2>5. PutDone(n0, sent, <<>>, B)
    BY <2>1, <2>2, <2>3, <2>4 DEF PutDone
  <2> HIDE DEF G
  <2>6. QED BY <1>1, <2>5 DEF G
<1>3. ASSUME NEW x \in Seq(Int), NEW c \in Int, x \in G PROVE Append(x, c) \in G
  <2> DEFINE st == PutEnd(n0, sent, x, B)
             nx == PutEnd(n0, sent, Append(x, c), B)
             b == Append(st.buf, c)
             F == FlattenSeq(sent)
  <2>1. /\ st \in PutStates /\ Fits(st.sent, B) /\ Len(st.buf) \in 0 .. B - 1
        /\ FlattenSeq(st.sent) \o st.buf = F \o (<<n0>> \o x)
    BY <1>3 DEF PutDone
  <2>2. nx = Put(st, c, B)
    BY <1>1, PutEndAppend
  <2>3. Append(x, c) \in Seq(Int)
    OBVIOUS
  <2>4. PutDone(n0, sent, Append(x, c), B) <=>
          /\ nx \in PutStates /\ Fits(nx.sent, B) /\ Len(nx.buf) \in 0 .. B - 1
          /\ FlattenSeq(nx.sent) \o nx.buf = F \o (<<n0>> \o Append(x, c))
    BY DEF PutDone
  <2> HIDE DEF st, nx, F
  <2>5. /\ nx \in PutStates /\ st.buf \in Seq(Int) /\ st.sent \in Seq(Seq(Int))
        /\ Len(b) = B => nx.buf = <<>> /\ nx.sent = Append(st.sent, b)
        /\ Len(b) # B => nx.buf = b /\ nx.sent = st.sent
    BY <2>1, <2>2, PutParts, ZenonT(60)
  <2>6. b \in Seq(Int) /\ Len(b) = Len(st.buf) + 1 /\ Len(b) \in 1 .. B
    BY <2>1, <2>5
  <2>7. FlattenSeq(st.sent) \in Seq(Int) /\ F \in Seq(Int) /\ <<n0>> \o x \in Seq(Int)
    BY <1>1, <2>5, FlatAppend DEF F
  <2>8. FlattenSeq(st.sent) \o b = F \o (<<n0>> \o Append(x, c))
    <3>1. FlattenSeq(st.sent) \o Append(st.buf, c) = Append(FlattenSeq(st.sent) \o st.buf, c)
      BY <2>5, <2>7, OneMore, ZenonT(60)
    <3>2. <<n0>> \o Append(x, c) = Append(<<n0>> \o x, c)
      BY <1>1, OneMore
    <3>3. F \o Append(<<n0>> \o x, c) = Append(F \o (<<n0>> \o x), c)
      BY <2>7, OneMore
    <3>4. QED BY <2>1, <3>1, <3>2, <3>3
  <2> HIDE DEF b
  <2>9. /\ Fits(nx.sent, B) /\ Len(nx.buf) \in 0 .. B - 1
        /\ FlattenSeq(nx.sent) \o nx.buf = F \o (<<n0>> \o Append(x, c))
    <3>1. CASE Len(b) = B
      <4>1. nx.buf = <<>> /\ nx.sent = Append(st.sent, b)
        BY <2>5, <3>1
      <4>0. \A y, z \in Seq(Int) : y \o z \in Seq(Int)
        OBVIOUS
      <4>2. FlattenSeq(nx.sent) = FlattenSeq(st.sent) \o b /\ FlattenSeq(st.sent) \o b \in Seq(Int)
        BY <2>5, <2>6, <2>7, <4>0, <4>1, FlatAppend
      <4>3. \A y \in Seq(Int) : y \o <<>> = y
        OBVIOUS
      <4>4. FlattenSeq(nx.sent) \o nx.buf = FlattenSeq(st.sent) \o b
        BY <4>1, <4>2, <4>3
      <4>5. Fits(nx.sent, B)
        BY <2>1, <2>6, <4>1, FitsAppend
      <4>6. Len(nx.buf) \in 0 .. B - 1
        BY <4>1
      <4>7. QED BY <2>8, <4>4, <4>5, <4>6
    <3>2. CASE Len(b) # B
      <4>1. nx.buf = b /\ nx.sent = st.sent
        BY <2>5, <3>2
      <4>2. Len(b) \in 0 .. B - 1
        BY <2>6, <3>2
      <4>3. QED BY <2>1, <2>8, <4>1, <4>2
    <3>3. QED BY <3>1, <3>2
  <2>10. PutDone(n0, sent, Append(x, c), B)
    BY <2>4, <2>5, <2>9
  <2>11. QED BY <2>3, <2>10
<1>4. l \in G
  <2>1. \A x \in Seq(Int), c \in Int : x \in G => Append(x, c) \in G
    BY <1>3
  <2> HIDE DEF G
  <2>2. QED BY <1>2, <2>1, SequencesGrow
<1>5. QED BY <1>4

\* A label is written as its length and its characters.
LEMMA LabelWrites ==
  ASSUME NEW B \in Nat, B >= 2, NEW sent, Fits(sent, B), NEW l \in Seq(Int)
  PROVE  /\ Fits(SentStep(B, sent, l), B)
         /\ FlattenSeq(SentStep(B, sent, l)) = FlattenSeq(sent) \o (<<Len(l)>> \o l)
<1> DEFINE st == PutEnd(Len(l), sent, l, B)
<1>1. Len(l) \in Int
  OBVIOUS
<1>2. /\ st \in PutStates /\ Fits(st.sent, B) /\ Len(st.buf) \in 0 .. B - 1
      /\ FlattenSeq(st.sent) \o st.buf = FlattenSeq(sent) \o (<<Len(l)>> \o l)
  <2>1. PutDone(Len(l), sent, l, B)
    BY <1>1, PutWrites
  <2>2. QED BY <2>1 DEF PutDone
<1>3. SentStep(B, sent, l) = IF st.buf = <<>> THEN st.sent ELSE Append(st.sent, st.buf)
  BY DEF SentStep
<1> HIDE DEF st
<1>4. st.sent \in Seq(Seq(Int)) /\ st.buf \in Seq(Int) /\ FlattenSeq(st.sent) \in Seq(Int)
  <2>1. st.sent \in Seq(Seq(Int)) /\ st.buf \in Seq(Int)
    BY <1>2 DEF PutStates
  <2>2. QED BY <2>1, FlatAppend
<1>5. CASE st.buf = <<>>
  <2>1. \A y \in Seq(Int) : y \o <<>> = y
    OBVIOUS
  <2>2. FlattenSeq(st.sent) \o st.buf = FlattenSeq(st.sent)
    BY <1>4, <1>5, <2>1
  <2>3. QED BY <1>2, <1>3, <1>5, <2>2
<1>6. CASE st.buf # <<>>
  <2>1. \A y \in Seq(Int) : y # <<>> => Len(y) # 0
    OBVIOUS
  <2>2. Len(st.buf) # 0
    BY <1>4, <1>6, <2>1
  <2>3. Len(st.buf) \in 1 .. B
    BY <1>2, <2>2
  <2>4. Fits(Append(st.sent, st.buf), B)
    BY <1>2, <1>4, <2>3, FitsAppend
  <2>5. FlattenSeq(Append(st.sent, st.buf)) = FlattenSeq(st.sent) \o st.buf
    BY <1>4, FlatAppend
  <2>6. QED BY <1>2, <1>3, <1>6, <2>4, <2>5
<1>7. QED BY <1>5, <1>6

-----------------------------------------------------------------------------
(* The bytes of a name. *)

\* The bytes of one more label.
LEMMA WireAppend ==
  ASSUME NEW L \in Seq(Seq(Int)), NEW l \in Seq(Int)
  PROVE  Wire(L) \in Seq(Int) /\ Wire(Append(L, l)) = Wire(L) \o (<<Len(l)>> \o l)
<1> DEFINE n == Len(L)
           t == Append(L, l)
           w == [k \in 1 .. n |-> <<Len(L[k])>> \o L[k]]
           v == [k \in 1 .. n + 1 |-> <<Len(t[k])>> \o t[k]]
           x == <<Len(l)>> \o l
<1>1. /\ t \in Seq(Seq(Int)) /\ Len(t) = n + 1 /\ n \in Nat /\ t[n + 1] = l
      /\ \A k \in 1 .. n : t[k] = L[k]
  OBVIOUS
<1>2. \A y \in Seq(Int) : <<Len(y)>> \o y \in Seq(Int)
  <2>1. \A y \in Seq(Int) : <<Len(y)>> \in Seq(Int)
    OBVIOUS
  <2>2. QED BY <2>1
<1>3. w \in Seq(Seq(Int)) /\ Len(w) = n /\ \A k \in 1 .. n : w[k] = <<Len(L[k])>> \o L[k]
  <2>1. \A k \in 1 .. n : <<Len(L[k])>> \o L[k] \in Seq(Int)
    BY <1>2
  <2>2. QED BY <1>1, <2>1
<1>4. Wire(L) = FlattenSeq(w)
  <2>1. DOMAIN L = 1 .. n
    OBVIOUS
  <2>2. QED BY <2>1 DEF Wire
<1>5. Wire(t) = FlattenSeq(v)
  <2>1. DOMAIN t = 1 .. n + 1
    BY <1>1
  <2>2. QED BY <2>1 DEF Wire
<1>6. x \in Seq(Int)
  BY <1>2
<1>7. v \in Seq(Seq(Int)) /\ Len(v) = n + 1 /\ \A k \in 1 .. n + 1 : v[k] = <<Len(t[k])>> \o t[k]
  <2>1. \A k \in 1 .. n + 1 : t[k] \in Seq(Int)
    BY <1>1
  <2>2. n + 1 \in Nat
    BY <1>1
  <2> HIDE DEF t, n
  <2>3. \A k \in 1 .. n + 1 : <<Len(t[k])>> \o t[k] \in Seq(Int)
    BY <1>2, <2>1
  <2>4. v \in [1 .. n + 1 -> Seq(Int)] /\ \A k \in 1 .. n + 1 : v[k] = <<Len(t[k])>> \o t[k]
    BY <2>3
  <2> HIDE DEF v
  <2>5. \A m \in Nat : \A f \in [1 .. m -> Seq(Int)] : f \in Seq(Seq(Int)) /\ Len(f) = m
    OBVIOUS
  <2>6. QED BY <2>2, <2>4, <2>5
<1> DEFINE u == Append(w, x)
<1>8. u \in Seq(Seq(Int)) /\ Len(u) = n + 1 /\ u[n + 1] = x /\ \A k \in 1 .. n : u[k] = w[k]
  <2> HIDE DEF w, x, n
  <2>1. QED BY <1>1, <1>3, <1>6
<1>9. u = v
  <2>1. x = <<Len(t[n + 1])>> \o t[n + 1]
    BY <1>1
  <2> HIDE DEF w, v, u, x, n, t
  <2>2. \A k \in 1 .. n + 1 : k \in 1 .. n \/ k = n + 1
    BY <1>1
  <2>3. \A k \in 1 .. n + 1 : u[k] = v[k]
    <3>1. ASSUME NEW k \in 1 .. n PROVE u[k] = v[k]
      <4>1. k \in 1 .. n + 1
        BY <1>1
      <4>2. QED BY <1>1, <1>3, <1>7, <1>8, <4>1
    <3>2. n + 1 \in 1 .. n + 1
      BY <1>1
    <3>3. u[n + 1] = v[n + 1]
      BY <1>7, <1>8, <2>1, <3>2
    <3>4. QED BY <2>2, <3>1, <3>3
  <2>4. QED BY <1>7, <1>8, <2>3, SeqEqual
<1>10. FlattenSeq(w) \in Seq(Int) /\ FlattenSeq(u) = FlattenSeq(w) \o x
  <2> HIDE DEF w, x
  <2>1. QED BY <1>3, <1>6, FlatAppend
<1> HIDE DEF w, v, x, t
<1>11. Wire(L) \in Seq(Int) /\ Wire(t) = Wire(L) \o x
  BY <1>4, <1>5, <1>9, <1>10
<1>12. QED BY <1>11 DEF t, x

LEMMA WireEmpty == Wire(<<>>) = <<>>
<1> DEFINE w == [k \in DOMAIN <<>> |-> <<Len(<<>>[k])>> \o <<>>[k]]
<1>1. w = <<>>
  OBVIOUS
<1>2. Wire(<<>>) = FlattenSeq(w)
  BY DEF Wire
<1>3. QED BY <1>1, <1>2, FlatEmpty

\* A name takes a byte more than its text.
LEMMA WireLength ==
  ASSUME NEW L, IsName(L)
  PROVE  /\ Wire(L) \in Seq(Int) /\ Joined(L) \in Seq(Int)
         /\ Len(Wire(L)) = Len(Joined(L)) + 1 /\ Len(Joined(L)) \in Nat \ {0}
<1> DEFINE G == {M \in Seq(Seq(Int)) : Len(Wire(M)) = Len(Joined(M)) + 1}
<1>1. ASSUME NEW l \in Seq(Int)
      PROVE  Len(<<Len(l)>> \o l) = Len(l) + 1 /\ <<Len(l)>> \o l \in Seq(Int)
             /\ Len(<<Dot>> \o l) = Len(l) + 1 /\ <<Dot>> \o l \in Seq(Int)
             /\ <<>> \o (<<Len(l)>> \o l) = <<Len(l)>> \o l
  BY DEF Dot
<1>2. ASSUME NEW l \in Seq(Int), IsLabel(l) PROVE <<l>> \in G
  <2>1. Joined(<<l>>) = l /\ <<l>> \in Seq(Seq(Int)) /\ Append(<<>>, l) = <<l>>
    BY <1>2, JoinedOne
  <2>2. Wire(Append(<<>>, l)) = Wire(<<>>) \o (<<Len(l)>> \o l)
    <3>1. <<>> \in Seq(Seq(Int))
      OBVIOUS
    <3>2. QED BY <3>1, WireAppend
  <2>3. Wire(<<l>>) = <<Len(l)>> \o l
    BY <1>1, <2>1, <2>2, WireEmpty
  <2>4. QED BY <1>1, <2>1, <2>3
<1>3. ASSUME NEW M \in Seq(Seq(Int)), NEW l \in Seq(Int), IsName(M), IsLabel(l), M \in G
      PROVE  Append(M, l) \in G
  <2>1. Wire(M) \in Seq(Int) /\ Wire(Append(M, l)) = Wire(M) \o (<<Len(l)>> \o l)
    BY WireAppend
  <2>2. Joined(M) \in Seq(Int) /\ Joined(Append(M, l)) = Joined(M) \o (<<Dot>> \o l)
    BY <1>3, JoinedLonger
  <2>3. \A x, y \in Seq(Int) : Len(x \o y) = Len(x) + Len(y)
    OBVIOUS
  <2>4. /\ Len(Wire(Append(M, l))) = Len(Wire(M)) + (Len(l) + 1)
        /\ Len(Joined(Append(M, l))) = Len(Joined(M)) + (Len(l) + 1)
    BY <1>1, <2>1, <2>2, <2>3
  <2>5. Len(l) \in Nat /\ Len(Joined(M)) \in Nat /\ Len(Wire(M)) = Len(Joined(M)) + 1
    BY <1>3, <2>2
  <2>6. Append(M, l) \in Seq(Seq(Int))
    OBVIOUS
  <2>7. Len(Wire(Append(M, l))) = Len(Joined(Append(M, l))) + 1
    BY ONLY <2>4, <2>5
  <2>8. QED BY <2>6, <2>7
<1>4. L \in G
  <2>1. \A l \in Seq(Int) : IsLabel(l) => <<l>> \in G
    BY <1>2
  <2>2. \A M \in Seq(Seq(Int)), l \in Seq(Int) :
          IsName(M) /\ IsLabel(l) /\ M \in G => Append(M, l) \in G
    BY <1>3
  <2> HIDE DEF G
  <2>3. QED BY <2>1, <2>2, NamesGrow
<1>5. L \in Seq(Seq(Int)) /\ <<>> \in Seq(Int)
  BY DEF IsName
<1>6. Wire(L) \in Seq(Int)
  BY <1>5, WireAppend
<1>7. Joined(L) \in Seq(Int)
  BY <1>5, JoinedAppend
<1>8. Joined(L) # <<>>
  <2>1. L[1] \in Seq(Int) /\ IsLabel(L[1])
    BY <1>5 DEF IsName, IsLabel
  <2>2. QED BY <2>1, JoinedLonger
<1>9. Len(Joined(L)) \in Nat \ {0}
  BY <1>7, <1>8
<1>10. QED BY <1>4, <1>6, <1>7, <1>9

-----------------------------------------------------------------------------
(* Names one behind the other, and the last dot of a name. *)

LEMMA SentWrites ==
  ASSUME NEW B \in Nat, B >= 2, NEW L \in Seq(Seq(Int))
  PROVE  Fits(SentEnd(L, B), B) /\ FlattenSeq(SentEnd(L, B)) = Wire(L)
<1> DEFINE G == {M \in Seq(Seq(Int)) : Fits(SentEnd(M, B), B) /\ FlattenSeq(SentEnd(M, B)) = Wire(M)}
<1>1. <<>> \in G
  <2>1. SentEnd(<<>>, B) = <<>> /\ <<>> \in Seq(Seq(Int)) /\ Len(<<>>) = 0
    BY SentEndEmpty
  <2>2. Fits(<<>>, B)
    BY <2>1 DEF Fits
  <2>3. QED BY <2>1, <2>2, FlatEmpty, WireEmpty
<1>2. ASSUME NEW M \in Seq(Seq(Int)), NEW l \in Seq(Int), M \in G PROVE Append(M, l) \in G
  <2>1. Append(M, l) \in Seq(Seq(Int)) /\ Fits(SentEnd(M, B), B) /\ FlattenSeq(SentEnd(M, B)) = Wire(M)
    BY <1>2
  <2>2. SentEnd(Append(M, l), B) = SentStep(B, SentEnd(M, B), l)
    BY SentEndAppend
  <2> DEFINE ws == SentEnd(M, B)
             vs == SentStep(B, ws, l)
  <2>3. Fits(ws, B) /\ FlattenSeq(ws) = Wire(M)
    BY <2>1
  <2> HIDE DEF ws
  <2>4. Fits(vs, B) /\ FlattenSeq(vs) = FlattenSeq(ws) \o (<<Len(l)>> \o l)
    BY <2>3, LabelWrites
  <2>5. /\ Fits(SentEnd(Append(M, l), B), B)
        /\ FlattenSeq(SentEnd(Append(M, l), B)) = Wire(M) \o (<<Len(l)>> \o l)
    BY <2>2, <2>3, <2>4 DEF ws
  <2>6. Wire(Append(M, l)) = Wire(M) \o (<<Len(l)>> \o l)
    BY WireAppend
  <2>7. QED BY <2>1, <2>5, <2>6
<1>3. L \in G
  <2>1. \A M \in Seq(Seq(Int)), l \in Seq(Int) : M \in G => Append(M, l) \in G
    BY <1>2
  <2> HIDE DEF G
  <2>2. QED BY <1>1, <2>1, SequencesGrow
<1>4. QED BY <1>3

\* What writeDNSName writes, in writes of a buffer at most.
LEMMA NameWrites ==
  ASSUME NEW B \in Nat, B >= 2, NEW name, Labels(name) \in Seq(Seq(Int))
  PROVE  /\ Fits(writeDNSName(name, B, FALSE), B) /\ Fits(writeDNSName(name, B, TRUE), B)
         /\ FlattenSeq(writeDNSName(name, B, FALSE)) = Wire(Labels(name))
         /\ FlattenSeq(writeDNSName(name, B, TRUE)) = Wire(Labels(name)) \o <<0>>
<1> DEFINE ws == SentEnd(Labels(name), B)
<1>1. Fits(ws, B) /\ FlattenSeq(ws) = Wire(Labels(name))
  BY SentWrites
<1>2. writeDNSName(name, B, FALSE) = ws /\ writeDNSName(name, B, TRUE) = Append(ws, <<0>>)
  BY WritesAre
<1> HIDE DEF ws
<1>3. <<0>> \in Seq(Int) /\ Len(<<0>>) \in 1 .. B
  OBVIOUS
<1>4. Fits(Append(ws, <<0>>), B)
  BY <1>1, <1>3, FitsAppend
<1>5. FlattenSeq(Append(ws, <<0>>)) = Wire(Labels(name)) \o <<0>>
  <2>1. ws \in Seq(Seq(Int))
    BY <1>1 DEF Fits
  <2>2. QED BY <1>1, <1>3, <2>1, FlatAppend
<1>6. QED BY <1>1, <1>2, <1>4, <1>5

\* Two names with a dot between them.
LEMMA JoinedBehind ==
  ASSUME NEW L, IsName(L), NEW M, IsName(M)
  PROVE  IsName(L \o M) /\ Joined(L \o M) = Joined(L) \o (<<Dot>> \o Joined(M))
<1> DEFINE P(N) == IsName(L \o N) /\ Joined(L \o N) = Joined(L) \o (<<Dot>> \o Joined(N))
           G == {N \in Seq(Seq(Int)) : P(N)}
<1>1. L \in Seq(Seq(Int)) /\ L # <<>> /\ Joined(L) \in Seq(Int) /\ <<Dot>> \in Seq(Int)
  BY WireLength DEF IsName, Dot
<1>2. ASSUME NEW l \in Seq(Int), IsLabel(l) PROVE <<l>> \in G
  <2>1. L \o <<l>> = Append(L, l) /\ <<l>> \in Seq(Seq(Int))
    BY <1>1, AppendIsConcat
  <2>2. IsName(Append(L, l))
    BY <1>1, <1>2, NameAppend
  <2>3. Joined(Append(L, l)) = Joined(L) \o (<<Dot>> \o l) /\ Joined(<<l>>) = l
    BY <1>2, JoinedLonger, JoinedOne
  <2>4. QED BY <2>1, <2>2, <2>3
<1>3. ASSUME NEW N \in Seq(Seq(Int)), NEW l \in Seq(Int), IsName(N), IsLabel(l), N \in G
      PROVE  Append(N, l) \in G
  <2>1. L \o Append(N, l) = Append(L \o N, l) /\ L \o N \in Seq(Seq(Int)) /\ Append(N, l) \in Seq(Seq(Int))
    <3>1. L \o Append(N, l) = Append(L \o N, l)
      BY <1>1, AppendBehind
    <3>2. QED BY <1>1, <3>1
  <2>2. IsName(L \o N) /\ Joined(L \o N) = Joined(L) \o (<<Dot>> \o Joined(N))
    BY <1>3
  <2>3. IsName(Append(L \o N, l))
    BY <1>3, <2>1, <2>2, NameAppend
  <2>4. Joined(Append(L \o N, l)) = Joined(L \o N) \o (<<Dot>> \o l)
    BY <1>3, <2>2, JoinedLonger
  <2>5. Joined(Append(N, l)) = Joined(N) \o (<<Dot>> \o l) /\ Joined(N) \in Seq(Int)
    BY <1>3, JoinedLonger
  <2>6. (Joined(L) \o (<<Dot>> \o Joined(N))) \o (<<Dot>> \o l)
          = Joined(L) \o (<<Dot>> \o (Joined(N) \o (<<Dot>> \o l)))
    <3> DEFINE d == <<Dot>>
               e == d \o l
               j == Joined(N)
               k == Joined(L)
    <3>1. d \in Seq(Int) /\ e \in Seq(Int) /\ j \in Seq(Int) /\ k \in Seq(Int)
      BY <1>1, <2>5
    <3> HIDE DEF d, e, j, k
    <3>2. d \o j \in Seq(Int) /\ j \o e \in Seq(Int)
      BY <3>1
    <3>3. (k \o (d \o j)) \o e = k \o ((d \o j) \o e)
      BY <3>1, <3>2, Regrouped, ZenonT(60)
    <3>4. (d \o j) \o e = d \o (j \o e)
      BY <3>1, Regrouped
    <3>5. (k \o (d \o j)) \o e = k \o (d \o (j \o e))
      BY <3>3, <3>4
    <3>6. QED BY <3>5 DEF d, e, j, k
  <2>7. P(Append(N, l))
    BY <2>1, <2>2, <2>3, <2>4, <2>5, <2>6
  <2>8. QED BY <2>1, <2>7
<1>4. M \in G
  <2>1. \A l \in Seq(Int) : IsLabel(l) => <<l>> \in G
    BY <1>2
  <2>2. \A N \in Seq(Seq(Int)), l \in Seq(Int) :
          IsName(N) /\ IsLabel(l) /\ N \in G => Append(N, l) \in G
    BY <1>3
  <2> HIDE DEF G
  <2>3. QED BY <2>1, <2>2, NamesGrow
<1>5. QED BY <1>4

\* The last dot of a text.
LEMMA LastDot ==
  ASSUME NEW p \in Seq(Int), p # <<>>, NEW l \in Seq(Plain)
  PROVE  LET s == p \o (<<Dot>> \o l) IN
         /\ findFirstDotFromRight(s) = Len(p) + 2
         /\ Drop(s, Len(p) + 1) = l /\ SubSeq(s, 1, Len(p)) = p
<1> DEFINE s == p \o (<<Dot>> \o l)
           n == Len(p)
           D == {k \in 2 .. Len(s) : s[k] = Dot}
<1>1. l \in Seq(Int) /\ \A k \in 1 .. Len(l) : l[k] # Dot
  <2>1. Plain \subseteq Int
    BY DEF Plain
  <2>2. l \in Seq(Int)
    BY <2>1, SeqMonotonic
  <2>3. \A k \in 1 .. Len(l) : l[k] \in Plain
    OBVIOUS
  <2>4. QED BY <2>2, <2>3 DEF Plain
<1>2. <<Dot>> \in Seq(Int) /\ Len(<<Dot>>) = 1 /\ <<Dot>>[1] = Dot
  BY DEF Dot
<1>3. s = (p \o <<Dot>>) \o l
  BY <1>1, <1>2, Regrouped
<1>4. /\ s \in Seq(Int) /\ Len(s) = n + 1 + Len(l)
      /\ \A i \in 1 .. 1 : s[n + i] = <<Dot>>[i]
      /\ \A i \in 1 .. Len(l) : s[n + 1 + i] = l[i]
  <2>1. /\ (p \o <<Dot>>) \o l \in Seq(Int) /\ Len((p \o <<Dot>>) \o l) = Len(p) + Len(<<Dot>>) + Len(l)
        /\ \A i \in 1 .. Len(<<Dot>>) : ((p \o <<Dot>>) \o l)[Len(p) + i] = <<Dot>>[i]
        /\ \A i \in 1 .. Len(l) : ((p \o <<Dot>>) \o l)[Len(p) + Len(<<Dot>>) + i] = l[i]
    BY <1>1, <1>2, ThreeParts, SMTT(60)
  <2>2. QED BY ONLY <1>2, <1>3, <2>1
<1>5. n \in Nat \ {0} /\ Len(l) \in Nat
  OBVIOUS
<1>6. Drop(s, n + 1) = l /\ SubSeq(s, 1, n) = p
  <2>1. p \o <<Dot>> \in Seq(Int) /\ Len(p \o <<Dot>>) = n + 1
    BY <1>2
  <2>2. Drop(s, n + 1) = l
    <3> DEFINE b == p \o <<Dot>>
    <3>1. b \in Seq(Int) /\ Len(b) = n + 1 /\ s = b \o l
      BY <1>3, <2>1
    <3> HIDE DEF b, s, n
    <3>2. Drop(b \o l, Len(b)) = l
      BY <1>1, <3>1, TwoParts
    <3>3. QED BY <3>1, <3>2
  <2>3. <<Dot>> \o l \in Seq(Int)
    BY <1>1, <1>2
  <2>4. SubSeq(s, 1, n) = p
    BY <2>3, TwoParts
  <2>5. QED BY <2>2, <2>4
<1>7. findFirstDotFromRight(s) = IF D = {} THEN 3 ELSE Max(D) + 1
  BY DEF findFirstDotFromRight
<1> HIDE DEF s, n
<1>8. n + 1 \in D /\ \A k \in D : k <= n + 1
  <2>1. s[n + 1] = Dot /\ n + 1 \in 2 .. Len(s)
    BY <1>2, <1>4, <1>5
  <2>2. ASSUME NEW k \in D, k > n + 1 PROVE FALSE
    <3>1. k - (n + 1) \in 1 .. Len(l) /\ n + 1 + (k - (n + 1)) = k /\ s[k] = Dot
      BY <1>4, <1>5, <2>2
    <3>2. QED BY <1>1, <1>4, <3>1
  <2>3. QED BY <1>5, <2>1, <2>2
<1>9. Max(D) = n + 1
  <2>1. Len(s) \in Nat
    BY <1>4, <1>5
  <2>2. D \in SUBSET (1 .. Len(s)) /\ D \subseteq Int
    BY <2>1
  <2>3. D # {}
    BY <1>8
  <2> HIDE DEF D
  <2>4. Max(D) \in D /\ \A k \in D : k <= Max(D)
    BY <2>1, <2>2, <2>3, MaxIs
  <2>5. Max(D) \in Int /\ Max(D) <= n + 1 /\ n + 1 <= Max(D)
    BY <1>8, <2>2, <2>4
  <2>6. QED BY ONLY <1>5, <2>5
<1>10. findFirstDotFromRight(s) = n + 2
  BY <1>5, <1>7, <1>8, <1>9
<1>11. QED BY <1>6, <1>10 DEF s, n

-----------------------------------------------------------------------------
(* The names of the protocols. *)

\* The text of the constants.
LocalLabel == <<108, 111, 99, 97, 108>>
TcpLabel == <<95, 116, 99, 112>>
UdpLabel == <<95, 117, 100, 112>>

LEMMA ConstantLabels ==
  /\ IsLabel(LocalLabel) /\ IsLabel(TcpLabel) /\ IsLabel(UdpLabel)
  /\ Len(LocalLabel) = 5 /\ Len(TcpLabel) = 4 /\ Len(UdpLabel) = 4
<1>1. IsLabel(LocalLabel) /\ Len(LocalLabel) = 5
  BY DEF LocalLabel, IsLabel, Dot
<1>2. IsLabel(TcpLabel) /\ Len(TcpLabel) = 4
  BY DEF TcpLabel, IsLabel, Dot
<1>3. IsLabel(UdpLabel) /\ Len(UdpLabel) = 4
  BY DEF UdpLabel, IsLabel, Dot
<1>4. QED BY <1>1, <1>2, <1>3

LEMMA ConstantTexts ==
  /\ local = <<Dot>> \o LocalLabel
  /\ tcp = (<<Dot>> \o TcpLabel) \o local
  /\ udp = (<<Dot>> \o UdpLabel) \o local
<1>1. local = <<Dot>> \o LocalLabel
  BY DEF local, LocalLabel, Dot
<1>2. <<Dot, 95, 116, 99, 112>> = <<Dot>> \o TcpLabel
  BY DEF TcpLabel, Dot
<1>3. <<Dot, 95, 117, 100, 112>> = <<Dot>> \o UdpLabel
  BY DEF UdpLabel, Dot
<1>4. QED BY <1>1, <1>2, <1>3 DEF tcp, udp

\* A protocol's postfix is a dot and two labels.
LEMMA PostfixIs ==
  ASSUME NEW l, IsLabel(l), Len(l) = 4
  PROVE  LET t == (<<Dot>> \o l) \o local
             names == <<l, LocalLabel>> IN
         /\ IsName(names) /\ t = <<Dot>> \o Joined(names)
         /\ Tail(t) = Joined(names) /\ Len(Joined(names)) = 10 /\ Len(t) = 11
         /\ t \in Seq(Int)
<1> DEFINE t == (<<Dot>> \o l) \o local
           names == <<l, LocalLabel>>
           j == Joined(names)
<1>1. l \in Seq(Int) /\ LocalLabel \in Seq(Int) /\ IsLabel(LocalLabel) /\ Len(LocalLabel) = 5
  BY ConstantLabels DEF IsLabel
<1>2. <<Dot>> \in Seq(Int) /\ Len(<<Dot>>) = 1
  BY DEF Dot
<1>3. names = Append(<<l>>, LocalLabel) /\ <<l>> \in Seq(Seq(Int))
  BY <1>1
<1>4. IsName(<<l>>)
  BY NameOfOne
<1>5. IsName(names)
  BY <1>1, <1>3, <1>4, NameAppend
<1>6. j = l \o (<<Dot>> \o LocalLabel)
  BY <1>1, <1>3, <1>4, JoinedLonger, JoinedOne
<1>7. j \in Seq(Int) /\ Len(j) = 10
  <2> DEFINE d == <<Dot>>
             x == LocalLabel
             e == d \o x
  <2>1. d \in Seq(Int) /\ Len(d) = 1 /\ j = l \o e /\ Len(l) = 4 /\ x \in Seq(Int) /\ Len(x) = 5
    BY <1>1, <1>2, <1>6
  <2> HIDE DEF j, d, x
  <2>2. e \in Seq(Int) /\ Len(e) = Len(d) + Len(x)
    BY <2>1, TwoParts
  <2> HIDE DEF e
  <2>3. l \o e \in Seq(Int) /\ Len(l \o e) = Len(l) + Len(e)
    BY <1>1, <2>2, TwoParts
  <2>4. QED BY <2>1, <2>2, <2>3
<1>8. t = <<Dot>> \o j
  <2>0. \A x, y \in Seq(Int) : x \o y \in Seq(Int)
    OBVIOUS
  <2>1. <<Dot>> \o LocalLabel \in Seq(Int) /\ local = <<Dot>> \o LocalLabel
    BY <1>1, <1>2, <2>0, ConstantTexts
  <2>2. (<<Dot>> \o l) \o local = <<Dot>> \o (l \o local)
    BY <1>1, <1>2, <2>1, Regrouped
  <2>3. QED BY <1>6, <2>1, <2>2
<1> HIDE DEF j, t
<1>9. \A x \in Seq(Int) : /\ Tail(<<Dot>> \o x) = x /\ Len(<<Dot>> \o x) = Len(x) + 1
                          /\ <<Dot>> \o x \in Seq(Int)
  <2> SUFFICES ASSUME NEW x \in Seq(Int)
               PROVE  /\ Tail(<<Dot>> \o x) = x /\ Len(<<Dot>> \o x) = Len(x) + 1
                      /\ <<Dot>> \o x \in Seq(Int)
    OBVIOUS
  <2> DEFINE y == <<Dot>> \o x
  <2>1. y \in Seq(Int) /\ Len(y) = Len(x) + 1 /\ Len(x) \in Nat /\ \A i \in 1 .. Len(x) : y[1 + i] = x[i]
    BY <1>2, TwoParts
  <2> HIDE DEF y
  <2>2. y # <<>>
    BY <2>1
  <2>3. Tail(y) \in Seq(Int) /\ Len(Tail(y)) = Len(x) /\ \A i \in 1 .. Len(x) : Tail(y)[i] = y[i + 1]
    BY <2>1, <2>2
  <2>4. \A i \in 1 .. Len(x) : Tail(y)[i] = x[i]
    BY <2>1, <2>3
  <2>5. Tail(y) = x
    BY <2>3, <2>4, SeqEqual
  <2>6. QED BY <2>1, <2>5 DEF y
<1>10. Tail(t) = j /\ Len(t) = 11 /\ t \in Seq(Int)
  <2>1. Tail(<<Dot>> \o j) = j /\ Len(<<Dot>> \o j) = Len(j) + 1 /\ <<Dot>> \o j \in Seq(Int)
    BY <1>7, <1>9
  <2>2. Tail(t) = j /\ Len(t) = Len(j) + 1 /\ t \in Seq(Int)
    BY <1>8, <2>1
  <2>3. QED BY <1>7, <2>2
<1>11. QED BY <1>5, <1>7, <1>8, <1>10 DEF t, j

LEMMA Postfixes ==
  /\ postfixForProtocol("TCP") = (<<Dot>> \o TcpLabel) \o local
  /\ postfixForProtocol("UDP") = (<<Dot>> \o UdpLabel) \o local
BY ConstantTexts DEF postfixForProtocol

\* A name of several labels ends in one of them.
LEMMA NameEnds ==
  ASSUME NEW L, IsName(L), Len(L) > 1
  PROVE  \E M \in Seq(Seq(Int)), l \in Seq(Int) :
           IsName(M) /\ IsLabel(l) /\ L = Append(M, l) /\ Last(L) = l
<1> DEFINE n == Len(L)
           M == SubSeq(L, 1, n - 1)
           l == L[n]
<1>1. L \in Seq(Seq(Int)) /\ n \in Nat
  BY DEF IsName
<1>2. n - 1 \in 0 .. n - 1 /\ (n - 1) + 1 = n
  BY <1>1
<1>3. M \in Seq(Seq(Int)) /\ L = Append(M, l) /\ l \in Seq(Int)
  <2>1. SubSeq(L, 1, n) = L
    BY <1>1, EmptyPrefix
  <2>2. SubSeq(L, 1, (n - 1) + 1) = Append(SubSeq(L, 1, n - 1), L[(n - 1) + 1])
        /\ SubSeq(L, 1, n - 1) \in Seq(Seq(Int)) /\ L[(n - 1) + 1] \in Seq(Int)
    BY <1>1, <1>2, LongerPrefix
  <2>3. QED BY <1>2, <2>1, <2>2
<1>4. M # <<>>
  <2>1. Len(M) = n - 1 /\ n - 1 > 0
    BY <1>1
  <2>2. Len(<<>>) = 0
    OBVIOUS
  <2> HIDE DEF M, n
  <2>3. QED BY <2>1, <2>2
<1>5. IsName(M) /\ IsLabel(l)
  <2> HIDE DEF M, l
  <2>1. QED BY <1>3, <1>4, NameAppend
<1>6. Last(L) = l
  BY DEF Last
<1>7. QED BY <1>3, <1>5, <1>6

-----------------------------------------------------------------------------
(* Instances, services and hosts on the wire. *)

\* The bytes of a name with its zero.
LEMMA BytesOfName ==
  ASSUME NEW B \in Nat, B >= 2, NEW name, NEW L, IsName(L), Labels(name) = L
  PROVE  /\ Fits(writeDNSName(name, B, TRUE), B)
         /\ FlattenSeq(writeDNSName(name, B, TRUE)) = Wire(L) \o <<0>>
         /\ Len(FlattenSeq(writeDNSName(name, B, TRUE))) = Len(Joined(L)) + 2
<1>1. Labels(name) \in Seq(Seq(Int))
  BY DEF IsName
<1>2. /\ Fits(writeDNSName(name, B, TRUE), B)
      /\ FlattenSeq(writeDNSName(name, B, TRUE)) = Wire(L) \o <<0>>
  BY <1>1, NameWrites
<1>3. Wire(L) \in Seq(Int) /\ Len(Wire(L)) = Len(Joined(L)) + 1 /\ Len(Joined(L)) \in Nat
  BY WireLength
<1>4. <<0>> \in Seq(Int) /\ Len(<<0>>) = 1
  OBVIOUS
<1>5. Len(Wire(L) \o <<0>>) = Len(Wire(L)) + 1
  BY <1>3, <1>4
<1>6. (Len(Joined(L)) + 1) + 1 = Len(Joined(L)) + 2
  BY <1>3
<1>7. QED BY <1>2, <1>3, <1>5, <1>6

\* An instance's name and the postfix of its protocol.
LEMMA InstanceLength ==
  ASSUME NEW B \in Nat, B >= 2, NEW L, IsName(L), NEW proto, NEW l, IsLabel(l), Len(l) = 4,
         postfixForProtocol(proto) = (<<Dot>> \o l) \o local
  PROVE  Len(FlattenSeq(writeInstance(Joined(L), proto, B))) = Len(Joined(L)) + 13
<1> DEFINE t == Tail(postfixForProtocol(proto))
           names == <<l, LocalLabel>>
           v == writeDNSName(Joined(L), B, FALSE)
           w == writeDNSName(t, B, TRUE)
<1>1. IsName(names) /\ t = Joined(names) /\ Len(Joined(names)) = 10
  BY PostfixIs
<1> HIDE DEF names, t
<1>2. Labels(t) = names /\ Labels(Joined(L)) = L
  BY <1>1, LabelsOfName
<1>3. Fits(w, B) /\ Len(FlattenSeq(w)) = 12
  <2>1. Fits(w, B) /\ Len(FlattenSeq(w)) = Len(Joined(names)) + 2
    BY <1>1, <1>2, BytesOfName
  <2> HIDE DEF w
  <2>2. QED BY <1>1, <2>1
<1>4. Fits(v, B) /\ FlattenSeq(v) = Wire(L)
  <2>1. Labels(Joined(L)) \in Seq(Seq(Int))
    BY <1>2 DEF IsName
  <2>2. QED BY <1>2, <2>1, NameWrites
<1>5. Wire(L) \in Seq(Int) /\ Len(Wire(L)) = Len(Joined(L)) + 1 /\ Len(Joined(L)) \in Nat
  BY WireLength
<1>6. writeInstance(Joined(L), proto, B) = v \o w
  BY DEF writeInstance, t
<1> HIDE DEF v, w
<1>7. v \in Seq(Seq(Int)) /\ w \in Seq(Seq(Int))
  BY <1>3, <1>4 DEF Fits
<1>8. FlattenSeq(v \o w) = FlattenSeq(v) \o FlattenSeq(w)
  BY <1>7, FlatConcat
<1>9. FlattenSeq(w) \in Seq(Int) /\ FlattenSeq(v) \in Seq(Int)
  <2>1. <<>> \in Seq(Int)
    OBVIOUS
  <2>2. QED BY <1>7, <2>1, FlatAppend
<1>10. Len(FlattenSeq(v) \o FlattenSeq(w)) = Len(FlattenSeq(v)) + Len(FlattenSeq(w))
  BY <1>9, TwoParts
<1>11. QED BY <1>3, <1>4, <1>5, <1>6, <1>8, <1>10

\* The service a record belongs to is the last label of its name, under its protocol.
LEMMA ServiceIs ==
  ASSUME NEW B \in Nat, B >= 2, NEW L, IsName(L), Len(L) > 1
  PROVE  LET serv == servNameOf(Joined(L), "TCP") IN
         /\ Labels(serv) = <<Last(L)>> \o Labels(tcp)
         /\ Len(FlattenSeq(writeDNSName(serv, B, TRUE))) = Len(serv) + 2
<1> DEFINE serv == servNameOf(Joined(L), "TCP")
           names == <<TcpLabel, LocalLabel>>
<1>1. PICK M \in Seq(Seq(Int)), l \in Seq(Int) :
        IsName(M) /\ IsLabel(l) /\ L = Append(M, l) /\ Last(L) = l
  BY NameEnds
<1>2. /\ IsName(names) /\ tcp = <<Dot>> \o Joined(names) /\ postfixForProtocol("TCP") = tcp
      /\ Joined(names) \in Seq(Int)
  <2>1. IsName(names) /\ (<<Dot>> \o TcpLabel) \o local = <<Dot>> \o Joined(names)
    BY ConstantLabels, PostfixIs
  <2>2. Joined(names) \in Seq(Int)
    BY <2>1, WireLength
  <2>3. QED BY <2>1, <2>2, ConstantTexts, Postfixes
<1> HIDE DEF names
<1>3. Drop(Joined(L), findFirstDotFromRight(Joined(L)) - 1) = l
  <2> DEFINE p == Joined(M)
             s == p \o (<<Dot>> \o l)
  <2>1. p \in Seq(Int) /\ p # <<>> /\ Joined(L) = s
    BY <1>1, JoinedLonger
  <2>2. l \in Seq(Plain)
    BY <1>1, LabelIsPlain
  <2> HIDE DEF p
  <2>3. findFirstDotFromRight(s) = Len(p) + 2 /\ Drop(s, Len(p) + 1) = l
    BY <2>1, <2>2, LastDot
  <2>4. (Len(p) + 2) - 1 = Len(p) + 1
    BY <2>1
  <2> HIDE DEF s
  <2>5. QED BY <2>1, <2>3, <2>4
<1>4. serv = l \o (<<Dot>> \o Joined(names))
  BY <1>2, <1>3 DEF servNameOf
<1>5. IsName(<<l>>) /\ Joined(<<l>>) = l
  BY <1>1, NameOfOne, JoinedOne
<1>6. IsName(<<l>> \o names) /\ serv = Joined(<<l>> \o names)
  BY <1>2, <1>4, <1>5, JoinedBehind
<1> HIDE DEF serv
<1>7. Labels(serv) = <<l>> \o names /\ Labels(tcp) = names
  BY <1>2, <1>6, LabelsOfName
<1>8. Len(FlattenSeq(writeDNSName(serv, B, TRUE))) = Len(serv) + 2
  BY <1>6, <1>7, BytesOfName
<1>9. QED BY <1>1, <1>7, <1>8 DEF serv

\* The host's own name.
LEMMA OwnNameIs ==
  ASSUME NEW B \in Nat, B >= 2, NEW L, IsName(L)
  PROVE  LET own == bonjourNameOf(Joined(L)) IN
         /\ Len(FlattenSeq(writeDNSName(own, B, TRUE))) = Len(own) + 2
         /\ Len(own) \in Nat /\ resolvedName(own) = Joined(L)
<1> DEFINE own == bonjourNameOf(Joined(L))
           names == Append(L, LocalLabel)
           p == Joined(L)
<1>1. IsLabel(LocalLabel) /\ LocalLabel \in Seq(Plain) /\ LocalLabel \in Seq(Int)
  BY ConstantLabels, LabelIsPlain
<1>2. p \in Seq(Int) /\ p # <<>> /\ Joined(names) = p \o (<<Dot>> \o LocalLabel)
  BY <1>1, JoinedLonger
<1>3. own = p \o (<<Dot>> \o LocalLabel)
  BY ConstantTexts DEF bonjourNameOf
<1>4. IsName(names)
  <2>1. L \in Seq(Seq(Int))
    BY DEF IsName
  <2>2. QED BY <1>1, <2>1, NameAppend
<1> HIDE DEF own, names, p
<1>5. Labels(own) = names /\ own = Joined(names)
  BY <1>2, <1>3, <1>4, LabelsOfName
<1>6. Len(FlattenSeq(writeDNSName(own, B, TRUE))) = Len(own) + 2 /\ Len(own) \in Nat
  BY <1>4, <1>5, BytesOfName, WireLength
<1>7. resolvedName(own) = p
  <2>1. findFirstDotFromRight(own) = Len(p) + 2 /\ SubSeq(own, 1, Len(p)) = p
    BY <1>1, <1>2, <1>3, LastDot
  <2>2. (Len(p) + 2) - 2 = Len(p)
    BY <1>2
  <2>3. QED BY <2>1, <2>2 DEF resolvedName
<1>8. QED BY <1>6, <1>7 DEF own, p

-----------------------------------------------------------------------------
(* Words in network order. *)

\* What NamesOnTheWire says of a name.
NameIsWritten(labels) ==
  LET name == Joined(labels)
      writes == writeDNSName(name, BufSize, TRUE)
      serv == servNameOf(name, "TCP")
      own == bonjourNameOf(name)
      Bytes(ws) == FlattenSeq(ws)
  IN  /\ Bytes(writes) = Wire(labels) \o <<0>>
      /\ \A k \in DOMAIN writes : Len(writes[k]) \in 1 .. BufSize
      /\ \A proto \in {"TCP", "UDP"} :
           Len(Bytes(writeInstance(name, proto, BufSize))) = PTRLength(name)
      /\ Len(labels) > 1 =>
           /\ Labels(serv) = <<Last(labels)>> \o Labels(tcp)
           /\ Len(Bytes(writeDNSName(serv, BufSize, TRUE))) = ServiceLength(serv)
      /\ Len(Bytes(writeDNSName(own, BufSize, TRUE))) + 6 = SRVLength(own)
      /\ resolvedName(own) = name

LEMMA NamesAreWritten ==
  ASSUME NEW L, IsName(L)
  PROVE  NameIsWritten(L)
<1> DEFINE name == Joined(L)
           writes == writeDNSName(name, BufSize, TRUE)
           serv == servNameOf(name, "TCP")
           own == bonjourNameOf(name)
<1>1. BufSize \in Nat /\ BufSize >= 2
  BY DEF BufSize
<1>2. FlattenSeq(writes) = Wire(L) \o <<0>> /\ Fits(writes, BufSize)
  BY <1>1, LabelsOfName, BytesOfName
<1>3. \A k \in DOMAIN writes : Len(writes[k]) \in 1 .. BufSize
  <2> HIDE DEF writes
  <2>1. DOMAIN writes = 1 .. Len(writes)
    BY <1>2 DEF Fits
  <2>2. QED BY <1>2, <2>1 DEF Fits
<1>4. ASSUME NEW proto \in {"TCP", "UDP"}
      PROVE  Len(FlattenSeq(writeInstance(name, proto, BufSize))) = PTRLength(name)
  <2>1. CASE proto = "TCP"
    <3>1. postfixForProtocol(proto) = (<<Dot>> \o TcpLabel) \o local
      BY <2>1, Postfixes
    <3>2. QED BY <1>1, <3>1, ConstantLabels, InstanceLength DEF PTRLength
  <2>2. CASE proto = "UDP"
    <3>1. postfixForProtocol(proto) = (<<Dot>> \o UdpLabel) \o local
      BY <2>2, Postfixes
    <3>2. QED BY <1>1, <3>1, ConstantLabels, InstanceLength DEF PTRLength
  <2>3. QED BY <2>1, <2>2
<1>5. ASSUME Len(L) > 1
      PROVE  /\ Labels(serv) = <<Last(L)>> \o Labels(tcp)
             /\ Len(FlattenSeq(writeDNSName(serv, BufSize, TRUE))) = ServiceLength(serv)
  BY <1>1, <1>5, ServiceIs DEF ServiceLength
<1>6. Len(FlattenSeq(writeDNSName(own, BufSize, TRUE))) + 6 = SRVLength(own) /\ resolvedName(own) = name
  <2>1. /\ Len(FlattenSeq(writeDNSName(own, BufSize, TRUE))) = Len(own) + 2
        /\ Len(own) \in Nat /\ resolvedName(own) = name
    BY <1>1, OwnNameIs
  <2> HIDE DEF own
  <2>2. (Len(own) + 2) + 6 = 8 + Len(own)
    BY <2>1
  <2>3. QED BY <2>1, <2>2 DEF SRVLength
<1>7. QED BY <1>2, <1>3, <1>4, <1>5, <1>6 DEF NameIsWritten

\* Bytes of a word, in the order of the processor and of the network.
IsByte(b) == b \in 0 .. 255

LEMMA ShortSwapped ==
  ASSUME NEW a, IsByte(a), NEW b, IsByte(b)
  PROVE  InMemory(swaps(a * 256 + b), 2) = <<a, b>>
<1> DEFINE n == a * 256 + b
           m == b * 256 + a
<1>1. a \in 0 .. 255 /\ b \in 0 .. 255
  BY DEF IsByte
<1>2. n \in Nat /\ n % 256 = b /\ n \div 256 = a /\ a % 256 = a
  BY <1>1
<1>3. m \in Nat /\ m % 256 = a /\ m \div 256 = b /\ b % 256 = b
  BY <1>1
<1>4. 256^0 = 1 /\ 256^1 = 256
  OBVIOUS
<1>5. \A k \in Nat : k \div 1 = k
  OBVIOUS
<1> HIDE DEF n, m
<1>6. Byte(n, 0) = b /\ Byte(n, 1) = a /\ Byte(m, 0) = a /\ Byte(m, 1) = b
  BY <1>2, <1>3, <1>4, <1>5 DEF Byte
<1>7. swaps(n) = m
  BY <1>6 DEF swaps, m
<1>8. InMemory(m, 2) = <<a, b>>
  <2>1. InMemory(m, 2) = [k \in 1 .. 2 |-> Byte(m, k - 1)]
    BY DEF InMemory
  <2>2. \A k \in 1 .. 2 : k = 1 \/ k = 2
    OBVIOUS
  <2>3. Byte(m, 1 - 1) = a /\ Byte(m, 2 - 1) = b
    BY <1>6
  <2>4. \A k \in 1 .. 2 : Byte(m, k - 1) = <<a, b>>[k]
    BY <2>2, <2>3
  <2>5. <<a, b>> = [k \in 1 .. 2 |-> <<a, b>>[k]]
    OBVIOUS
  <2>6. QED BY <2>1, <2>4, <2>5
<1>9. QED BY <1>7, <1>8 DEF n

\* The bytes of a number of four.
LEMMA BytesOfLong ==
  ASSUME NEW a, IsByte(a), NEW b, IsByte(b), NEW c, IsByte(c), NEW d, IsByte(d), NEW n,
         n = ((a * 256 + b) * 256 + c) * 256 + d
  PROVE  Byte(n, 0) = d /\ Byte(n, 1) = c /\ Byte(n, 2) = b /\ Byte(n, 3) = a
<1>1. a \in 0 .. 255 /\ b \in 0 .. 255 /\ c \in 0 .. 255 /\ d \in 0 .. 255
  BY DEF IsByte
<1>2. 256^0 = 1 /\ 256^1 = 256 /\ 256^2 = 65536 /\ 256^3 = 16777216
  OBVIOUS
<1> DEFINE x == a * 256 + b
           y == x * 256 + c
<1>3. x \in Nat /\ x % 256 = b /\ x \div 256 = a /\ a % 256 = a
  BY <1>1
<1>4. y = x * 256 + c /\ n = y * 256 + d
  OBVIOUS
<1> HIDE DEF x, y
<1>5. y \in Nat /\ y % 256 = c /\ y \div 256 = x
  BY <1>1, <1>3, <1>4
<1>6. n \in Nat /\ n % 256 = d /\ n \div 256 = y
  BY <1>1, <1>4, <1>5
<1>7. \A k \in Nat : k \div 1 = k /\ k \div 65536 = (k \div 256) \div 256
  OBVIOUS
<1>8. \A k \in Nat : k \div 16777216 = (k \div 65536) \div 256
  OBVIOUS
<1>9. n \div 1 = n /\ n \div 65536 = x /\ n \div 16777216 = a
  BY <1>3, <1>5, <1>6, <1>7, <1>8
<1>10. /\ Byte(n, 0) = (n \div 1) % 256 /\ Byte(n, 1) = (n \div 256) % 256
       /\ Byte(n, 2) = (n \div 65536) % 256 /\ Byte(n, 3) = (n \div 16777216) % 256
  BY ONLY <1>2 DEF Byte
<1>11. Byte(n, 0) = d /\ Byte(n, 1) = c
  BY ONLY <1>5, <1>6, <1>9, <1>10
<1>12. Byte(n, 2) = b
  BY ONLY <1>3, <1>9, <1>10
<1>13. Byte(n, 3) = a
  BY ONLY <1>3, <1>9, <1>10
<1>14. QED BY ONLY <1>11, <1>12, <1>13

LEMMA LongSwapped ==
  ASSUME NEW a, IsByte(a), NEW b, IsByte(b), NEW c, IsByte(c), NEW d, IsByte(d)
  PROVE  InMemory(swapl(((a * 256 + b) * 256 + c) * 256 + d), 4) = <<a, b, c, d>>
<1> DEFINE n == ((a * 256 + b) * 256 + c) * 256 + d
           m == ((d * 256 + c) * 256 + b) * 256 + a
<1>1. Byte(n, 0) = d /\ Byte(n, 1) = c /\ Byte(n, 2) = b /\ Byte(n, 3) = a
  BY BytesOfLong
<1>2. Byte(m, 0) = a /\ Byte(m, 1) = b /\ Byte(m, 2) = c /\ Byte(m, 3) = d
  BY BytesOfLong
<1>3. swapl(n) = m
  <2>1. swapl(n) = d * 256^3 + c * 256^2 + b * 256 + a
    <3> HIDE DEF n
    <3>1. QED BY <1>1 DEF swapl
  <2>2. 256^2 = 65536 /\ 256^3 = 16777216
    OBVIOUS
  <2>3. a \in Int /\ b \in Int /\ c \in Int /\ d \in Int
    BY DEF IsByte
  <2>4. d * 16777216 + c * 65536 + b * 256 + a = m
    BY <2>3
  <2>5. QED BY <2>1, <2>2, <2>4
<1> HIDE DEF n, m
<1>4. InMemory(m, 4) = <<a, b, c, d>>
  <2>1. InMemory(m, 4) = [k \in 1 .. 4 |-> Byte(m, k - 1)]
    BY DEF InMemory
  <2>2. \A k \in 1 .. 4 : k = 1 \/ k = 2 \/ k = 3 \/ k = 4
    OBVIOUS
  <2>3. Byte(m, 1 - 1) = a /\ Byte(m, 2 - 1) = b /\ Byte(m, 3 - 1) = c /\ Byte(m, 4 - 1) = d
    BY <1>2
  <2>4. \A k \in 1 .. 4 : Byte(m, k - 1) = <<a, b, c, d>>[k]
    BY <2>2, <2>3
  <2>5. <<a, b, c, d>> = [k \in 1 .. 4 |-> <<a, b, c, d>>[k]]
    OBVIOUS
  <2>6. QED BY <2>1, <2>4, <2>5
<1>5. QED BY <1>3, <1>4 DEF n

-----------------------------------------------------------------------------
(* matchStringPart, and the pieces of a label. *)

\* The folds of nameMatches: the pieces of a label, and the labels of a question.
Undot(r) == IF r # <<>> /\ Head(r) = Dot THEN Tail(r) ELSE r
MatchStates == [ok : {0, 1}, rest : Seq(Int)]
PieceStep(st, p) == IF st.ok = 0 THEN st ELSE matchStringPart(st.rest, p)
PieceEnd(st0, ps) == FoldLeft(LAMBDA st, p : PieceStep(st, p), st0, ps)
MatchStep(st, l) == PieceEnd(st, Pieces(l, BufSize))
MatchStart(name) == [ok |-> 1, rest |-> name]
MatchEnd(name, L) == FoldLeft(LAMBDA st, l : MatchStep(st, l), MatchStart(name), L)

LEMMA MatchesAre ==
  ASSUME NEW name, NEW L
  PROVE  nameMatches(name, L, BufSize) <=> MatchEnd(name, L).ok = 1 /\ MatchEnd(name, L).rest = <<>>
BY DEF nameMatches, MatchEnd, MatchStep, MatchStart, PieceEnd, PieceStep

LEMMA UndotType == ASSUME NEW r \in Seq(Int) PROVE Undot(r) \in Seq(Int)
BY DEF Undot

\* A piece matches what begins with it, and what is behind it remains, without its dot.
LEMMA PartMatches ==
  ASSUME NEW p \in Seq(Int), NEW r \in Seq(Int)
  PROVE  matchStringPart(p \o r, p) = [ok |-> 1, rest |-> Undot(r)]
<1> DEFINE s == p \o r
<1>1. s \in Seq(Int) /\ Len(s) = Len(p) + Len(r) /\ SubSeq(s, 1, Len(p)) = p /\ Drop(s, Len(p)) = r
  BY TwoParts
<1>2. Len(p) \in Nat /\ Len(r) \in Nat /\ SubSeq(p, 1, Len(p)) = p
  BY EmptyPrefix
<1> HIDE DEF s
<1>3. Len(p) <= Len(s)
  BY <1>1, <1>2
<1>4. IsPrefix(p, s)
  BY <1>1, <1>2, <1>3 DEF IsPrefix
<1>5. matchStringPart(s, p) = [ok |-> 1, rest |-> Undot(r)]
  BY <1>1, <1>4 DEF matchStringPart, Undot
<1>6. QED BY <1>5 DEF s

LEMMA PartFails ==
  ASSUME NEW s \in Seq(Int), NEW p \in Seq(Int), ~IsPrefix(p, s)
  PROVE  matchStringPart(s, p) = [ok |-> 0, rest |-> <<>>]
BY DEF matchStringPart

LEMMA PrefixParts ==
  ASSUME NEW s \in Seq(Int), NEW p \in Seq(Int), IsPrefix(p, s)
  PROVE  \E r \in Seq(Int) : s = p \o r
<1> DEFINE m == Len(p)
           r == Drop(s, m)
           q == p \o r
<1>1. m <= Len(s) /\ m \in Nat /\ Len(s) \in Nat /\ SubSeq(p, 1, m) = SubSeq(s, 1, m)
  BY DEF IsPrefix
<1>2. SubSeq(p, 1, m) = p
  BY EmptyPrefix
<1>3. \A i \in 1 .. m : p[i] = s[i]
  <2>1. \A i \in 1 .. m : SubSeq(s, 1, m)[i] = s[i]
    BY <1>1
  <2>2. QED BY <1>1, <1>2, <2>1
<1>4. r \in Seq(Int) /\ Len(r) = Len(s) - m /\ \A k \in 1 .. Len(s) - m : r[k] = s[m + k]
  <2>1. m \in 0 .. Len(s)
    BY <1>1
  <2>2. QED BY <2>1, DropIs
<1> HIDE DEF r
<1>5. /\ q \in Seq(Int) /\ Len(q) = Len(p) + Len(r)
      /\ \A i \in 1 .. Len(p) : q[i] = p[i]
      /\ \A i \in 1 .. Len(r) : q[Len(p) + i] = r[i]
  BY <1>4, TwoParts
<1> HIDE DEF q
<1>6. Len(q) = Len(s)
  BY <1>1, <1>4, <1>5
<1>7. ASSUME NEW i \in 1 .. Len(s) PROVE q[i] = s[i]
  <2>1. CASE i <= m
    <3>1. i \in 1 .. m
      BY <1>1, <2>1
    <3>2. QED BY <1>3, <1>5, <3>1
  <2>2. CASE i > m
    <3>1. i - m \in 1 .. Len(s) - m /\ m + (i - m) = i
      BY <1>1, <2>2
    <3>2. QED BY <1>4, <1>5, <3>1
  <2>3. QED BY <1>1, <2>1, <2>2
<1>8. q = s
  BY <1>5, <1>6, <1>7, SeqEqual
<1>9. QED BY <1>4, <1>8 DEF q

LEMMA PieceEndType ==
  ASSUME NEW st0 \in MatchStates
  PROVE  st0 \in MatchStates /\ \A st \in MatchStates, p \in Seq(Int) : PieceStep(st, p) \in MatchStates
<1>1. ASSUME NEW st \in MatchStates, NEW p \in Seq(Int) PROVE PieceStep(st, p) \in MatchStates
  <2>1. st.rest \in Seq(Int) /\ <<>> \in Seq(Int)
    BY DEF MatchStates
  <2>2. \A r \in Seq(Int) : [ok |-> 1, rest |-> r] \in MatchStates /\ [ok |-> 0, rest |-> r] \in MatchStates
    BY DEF MatchStates
  <2>3. matchStringPart(st.rest, p) \in MatchStates
    <3>1. CASE IsPrefix(p, st.rest)
      <4>1. PICK r \in Seq(Int) : st.rest = p \o r
        BY <2>1, <3>1, PrefixParts
      <4>2. matchStringPart(st.rest, p) = [ok |-> 1, rest |-> Undot(r)] /\ Undot(r) \in Seq(Int)
        BY <4>1, PartMatches, UndotType
      <4>3. QED BY <2>2, <4>2
    <3>2. CASE ~IsPrefix(p, st.rest)
      BY <2>1, <2>2, <3>2, PartFails
    <3>3. QED BY <3>1, <3>2
  <2>4. QED BY <2>3 DEF PieceStep
<1>2. QED BY <1>1

PieceEndRun(st0, s, run) ==
  /\ run \in [0 .. Len(s) -> MatchStates] /\ run[0] = st0 /\ run[Len(s)] = PieceEnd(st0, s)
  /\ \A k \in 1 .. Len(s) : run[k] = PieceStep(run[k - 1], s[k])

LEMMA PieceEndRuns ==
  ASSUME NEW s \in Seq(Seq(Int)), NEW st0 \in MatchStates
  PROVE  \E run : PieceEndRun(st0, s, run)
<1> DEFINE n == Len(s)
           St == MatchStates
           base == st0
           step == [x \in St \X (1 .. n) |-> PieceStep(x[1], s[x[2]])]
           Eq(f) == f = [T \in SUBSET DOMAIN s |->
                      IF T = {} THEN base ELSE PieceStep(f[T \ {Max(T)}], s[Max(T)])]
           f == CHOOSE g : Eq(g)
<1>1. PieceEnd(st0, s) = f[DOMAIN s]
  BY DEF PieceEnd, FoldLeft, MapThenFoldSet
<1>2. n \in Nat /\ DOMAIN s = 1 .. n
  OBVIOUS
<1>3. base \in St /\ \A st \in St, c \in Seq(Int) : PieceStep(st, c) \in St
  BY PieceEndType
<1>4. base \in St
  BY <1>3
<1>5. step \in [St \X (1 .. n) -> St]
  <2>1. \A k \in 1 .. n : s[k] \in Seq(Int)
    OBVIOUS
  <2> HIDE DEF n, St, base
  <2>2. \A x \in St \X (1 .. n) : PieceStep(x[1], s[x[2]]) \in St
    BY <1>3, <2>1
  <2>3. QED BY <2>2
<1>6. \A st \in St, k \in 1 .. n : step[<<st, k>>] = PieceStep(st, s[k])
  OBVIOUS
<1> HIDE DEF n, St, base, step, f
<1>7. PICK g \in [SUBSET (1 .. n) -> St] : FoldOf(n, base, step, g)
  BY <1>2, <1>4, <1>5, FoldExists
<1>8. Eq(g)
  <2>1. ASSUME NEW T \in SUBSET (1 .. n), T # {}
        PROVE  step[<<g[T \ {Max(T)}], Max(T)>>] = PieceStep(g[T \ {Max(T)}], s[Max(T)])
    <3>1. Max(T) \in 1 .. n
      BY <1>2, <2>1, MaxIs
    <3>2. g[T \ {Max(T)}] \in St
      OBVIOUS
    <3>3. QED BY <1>6, <3>1, <3>2
  <2>2. QED BY ONLY <1>2, <1>7, <2>1 DEF FoldOf
<1>9. Eq(f)
  BY <1>8 DEF f
<1>10. f[{}] = base
  BY <1>9
<1>11. ASSUME NEW k \in 1 .. n, f[1 .. (k - 1)] \in St
       PROVE  f[1 .. k] = step[<<f[1 .. (k - 1)], k>>]
  <2>1. 1 .. k \in SUBSET DOMAIN s /\ 1 .. k # {} /\ k \in Nat \ {0}
    BY <1>2, UpTo
  <2>2. f[1 .. k] = PieceStep(f[(1 .. k) \ {Max(1 .. k)}], s[Max(1 .. k)])
    BY <1>9, <2>1
  <2>3. Max(1 .. k) = k /\ (1 .. k) \ {Max(1 .. k)} = 1 .. (k - 1)
    BY <2>1, LessTheLast
  <2>4. f[1 .. k] = PieceStep(f[1 .. (k - 1)], s[k])
    BY ONLY <2>2, <2>3
  <2>5. QED BY ONLY <1>6, <1>11, <2>4
<1>12. PICK run \in [0 .. n -> St] : RunOf(n, base, step, f[1 .. n], run)
  BY <1>2, <1>4, <1>5, <1>10, <1>11, FoldRuns
<1>13. \A k \in 1 .. n : run[k] = PieceStep(run[k - 1], s[k])
  <2>1. \A k \in 1 .. n : run[k - 1] \in St
    BY <1>2
  <2>2. QED BY <1>6, <1>12, <2>1 DEF RunOf
<1>14. PieceEndRun(st0, s, run)
  BY <1>1, <1>2, <1>12, <1>13 DEF n, St, base, RunOf, PieceEndRun
<1>15. QED BY <1>14

LEMMA PieceEndAppend ==
  ASSUME NEW s \in Seq(Seq(Int)), NEW c \in Seq(Int), NEW st0 \in MatchStates
  PROVE  /\ PieceEnd(st0, s) \in MatchStates
         /\ PieceEnd(st0, Append(s, c)) = PieceStep(PieceEnd(st0, s), c)
<1> DEFINE t == Append(s, c)
           n == Len(s)
<1>1. /\ t \in Seq(Seq(Int)) /\ Len(t) = n + 1 /\ n \in Nat /\ t[n + 1] = c
      /\ \A k \in 1 .. n : t[k] = s[k]
  OBVIOUS
<1>2. n + 1 \in 1 .. n + 1 /\ (n + 1) - 1 = n
  OBVIOUS
<1>3. PICK r : PieceEndRun(st0, s, r)
  BY PieceEndRuns
<1>4. /\ r \in [0 .. n -> MatchStates] /\ r[0] = st0 /\ r[n] = PieceEnd(st0, s)
      /\ \A k \in 1 .. n : r[k] = PieceStep(r[k - 1], s[k])
  BY <1>3 DEF PieceEndRun
<1> HIDE DEF t, n
<1>5. PICK q : PieceEndRun(st0, t, q)
  BY <1>1, PieceEndRuns
<1>6. /\ q \in [0 .. Len(t) -> MatchStates] /\ q[0] = st0 /\ q[Len(t)] = PieceEnd(st0, t)
      /\ \A k \in 1 .. Len(t) : q[k] = PieceStep(q[k - 1], t[k])
  BY <1>5 DEF PieceEndRun
<1>7. r[n] = q[n]
  <2>1. \A k \in 1 .. n : k \in 1 .. Len(t)
    BY <1>1
  <2>2. \A k \in 1 .. n : r[k - 1] = q[k - 1] => r[k] = q[k]
    BY ONLY <1>1, <1>4, <1>6, <2>1
  <2>3. r[0] = q[0] /\ n \in Nat
    BY <1>1, <1>4, <1>6
  <2>4. QED BY ONLY <2>2, <2>3, SameRuns
<1>8. q[n + 1] = PieceStep(q[n], c)
  <2>1. n + 1 \in 1 .. Len(t)
    BY <1>1, <1>2
  <2>2. QED BY ONLY <1>1, <1>2, <1>6, <2>1
<1>9. PieceEnd(st0, s) \in MatchStates
  BY <1>1, <1>4
<1>10. PieceEnd(st0, t) = PieceStep(PieceEnd(st0, s), c)
  BY <1>1, <1>4, <1>6, <1>7, <1>8
<1>11. QED BY <1>9, <1>10 DEF t

LEMMA PieceEndEmpty ==
  ASSUME NEW st0 \in MatchStates
  PROVE  PieceEnd(st0, <<>>) = st0
<1>1. <<>> \in Seq(Seq(Int)) /\ Len(<<>>) = 0
  OBVIOUS
<1>2. PICK run : PieceEndRun(st0, <<>>, run)
  BY <1>1, PieceEndRuns
<1>3. run[0] = st0 /\ run[Len(<<>>)] = PieceEnd(st0, <<>>)
  BY <1>2 DEF PieceEndRun
<1>4. QED BY <1>1, <1>3

\* A sequence up to one place, and on to another.
LEMMA FrontGrows ==
  ASSUME NEW l \in Seq(Int), NEW i \in Nat, NEW j \in Nat, i <= j, j <= Len(l)
  PROVE  /\ SubSeq(l, i + 1, j) \in Seq(Int) /\ Len(SubSeq(l, i + 1, j)) = j - i
         /\ \A k \in 1 .. j - i : SubSeq(l, i + 1, j)[k] = l[i + k]
         /\ SubSeq(l, 1, i) \o SubSeq(l, i + 1, j) = SubSeq(l, 1, j)
<1> DEFINE x == SubSeq(l, 1, i)
           y == SubSeq(l, i + 1, j)
           z == SubSeq(l, 1, j)
           q == x \o y
<1>1. x \in Seq(Int) /\ Len(x) = i /\ \A k \in 1 .. i : x[k] = l[k]
  OBVIOUS
<1>2. y \in Seq(Int) /\ Len(y) = j - i /\ \A k \in 1 .. j - i : y[k] = l[i + k]
  <2>1. y \in Seq(Int) /\ Len(y) = j - i
    OBVIOUS
  <2>2. \A k \in 1 .. j - i : y[k] = l[(i + 1) + k - 1]
    OBVIOUS
  <2>3. \A k \in 1 .. j - i : (i + 1) + k - 1 = i + k
    OBVIOUS
  <2> HIDE DEF y
  <2>4. QED BY <2>1, <2>2, <2>3
<1>3. z \in Seq(Int) /\ Len(z) = j /\ \A k \in 1 .. j : z[k] = l[k]
  OBVIOUS
<1> HIDE DEF x, y, z
<1>4. /\ q \in Seq(Int) /\ Len(q) = Len(x) + Len(y)
      /\ \A k \in 1 .. Len(x) : q[k] = x[k]
      /\ \A k \in 1 .. Len(y) : q[Len(x) + k] = y[k]
  BY <1>1, <1>2, TwoParts
<1> HIDE DEF q
<1>5. Len(q) = j
  BY <1>1, <1>2, <1>4
<1>6. ASSUME NEW k \in 1 .. j PROVE q[k] = z[k]
  <2>1. CASE k <= i
    <3>1. k \in 1 .. i
      BY <2>1
    <3>2. QED BY <1>1, <1>3, <1>4, <3>1
  <2>2. CASE k > i
    <3> DEFINE m == k - i
    <3>1. m \in 1 .. j - i /\ i + m = k
      BY <2>2
    <3> HIDE DEF m
    <3>2. q[Len(x) + m] = y[m] /\ y[m] = l[i + m]
      BY <1>2, <1>4, <3>1
    <3>3. QED BY <1>1, <1>3, <3>1, <3>2
  <2>3. QED BY <2>1, <2>2
<1>7. q = z
  BY <1>3, <1>4, <1>5, <1>6, SeqEqual
<1>8. QED BY <1>2, <1>7 DEF x, y, z, q

\* The pieces of a label make it up, and none of a label is empty.
LEMMA PiecesAre ==
  ASSUME NEW l \in Seq(Int)
  PROVE  LET P == Pieces(l, BufSize) IN
         /\ P \in Seq(Seq(Int)) /\ FlattenSeq(P) = l
         /\ IsLabel(l) => IsName(P)
<1> DEFINE P == Pieces(l, BufSize)
           m == Len(l)
           n == (m + 11) \div 12
           cut(k) == IF k * 12 <= m THEN k * 12 ELSE m
<1>1. m \in Nat /\ n \in Nat /\ n * 12 >= m /\ n * 12 < m + 12
  OBVIOUS
<1>2. P = [k \in 1 .. n |-> SubSeq(l, (k - 1) * 12 + 1, cut(k))]
  <2>1. (m + BufSize - 1) \div BufSize = n
    BY DEF BufSize
  <2>2. \A k \in 1 .. n : Min({k * BufSize, m}) = cut(k) /\ (k - 1) * BufSize + 1 = (k - 1) * 12 + 1
    <3>1. ASSUME NEW k \in 1 .. n PROVE Min({k * 12, m}) = cut(k)
      <4>1. k * 12 \in Int /\ m \in Int
        BY <1>1
      <4> HIDE DEF m, n
      <4>2. QED BY <4>1, MinIs
    <3> HIDE DEF n, cut, m
    <3>2. QED BY <3>1 DEF BufSize
  <2>3. P = [k \in 1 .. n |-> SubSeq(l, (k - 1) * BufSize + 1, Min({k * BufSize, m}))]
    BY <2>1 DEF Pieces
  <2> HIDE DEF P, n, cut, m
  <2>4. QED BY <2>2, <2>3
<1> HIDE DEF P, n
<1>3. ASSUME NEW k \in 1 .. n
      PROVE  /\ (k - 1) * 12 \in Nat /\ cut(k) \in Nat /\ (k - 1) * 12 < cut(k) /\ cut(k) <= m
             /\ cut(k - 1) = (k - 1) * 12
  BY <1>1
<1>4. cut(0) = 0 /\ cut(n) = m
  BY <1>1
<1>5. ASSUME NEW k \in 1 .. n
      PROVE  /\ P[k] \in Seq(Int) /\ Len(P[k]) = cut(k) - (k - 1) * 12
             /\ \A i \in 1 .. cut(k) - (k - 1) * 12 : P[k][i] = l[(k - 1) * 12 + i]
             /\ SubSeq(l, 1, cut(k - 1)) \o P[k] = SubSeq(l, 1, cut(k))
  <2> DEFINE i == (k - 1) * 12
             j == cut(k)
  <2>1. i \in Nat /\ j \in Nat /\ i <= j /\ j <= Len(l) /\ cut(k - 1) = i
    BY <1>3
  <2>2. P[k] = SubSeq(l, i + 1, j)
    BY <1>2
  <2> HIDE DEF i, j, cut
  <2>3. /\ SubSeq(l, i + 1, j) \in Seq(Int) /\ Len(SubSeq(l, i + 1, j)) = j - i
        /\ \A h \in 1 .. j - i : SubSeq(l, i + 1, j)[h] = l[i + h]
        /\ SubSeq(l, 1, i) \o SubSeq(l, i + 1, j) = SubSeq(l, 1, j)
    BY <2>1, FrontGrows
  <2>4. /\ P[k] \in Seq(Int) /\ Len(P[k]) = j - i
        /\ \A h \in 1 .. j - i : P[k][h] = l[i + h]
        /\ SubSeq(l, 1, cut(k - 1)) \o P[k] = SubSeq(l, 1, j)
    BY ONLY <2>1, <2>2, <2>3
  <2>5. QED BY <2>4 DEF i, j
<1>6. P \in Seq(Seq(Int)) /\ Len(P) = n
  <2>1. P = [k \in 1 .. n |-> P[k]]
    BY <1>2
  <2>2. \A k \in 1 .. n : P[k] \in Seq(Int)
    BY <1>5
  <2>3. P \in [1 .. n -> Seq(Int)]
    BY ONLY <2>1, <2>2
  <2>4. \A x \in Nat : \A f \in [1 .. x -> Seq(Int)] : f \in Seq(Seq(Int)) /\ Len(f) = x
    OBVIOUS
  <2>5. QED BY <1>1, <2>3, <2>4
<1>7. FlattenSeq(P) = l
  <2>1. PICK run \in [0 .. Len(P) -> Seq(Int)] :
          /\ run[0] = <<>> /\ run[Len(P)] = FlattenSeq(P)
          /\ \A k \in 1 .. Len(P) : run[k] = run[k - 1] \o P[k]
    BY <1>6, FlatRuns
  <2> DEFINE G == {k \in 0 .. n : run[k] = SubSeq(l, 1, cut(k))}
  <2>2. SubSeq(l, 1, 0) = <<>> /\ SubSeq(l, 1, m) = l
    BY EmptyPrefix
  <2> HIDE DEF cut, m
  <2>3. 0 \in G
    BY <1>1, <1>4, <2>1, <2>2
  <2>4. ASSUME NEW k \in 0 .. n - 1, k \in G PROVE k + 1 \in G
    <3>1. k + 1 \in 1 .. n /\ (k + 1) - 1 = k /\ k + 1 \in 0 .. n
      BY <1>1
    <3>2. run[k + 1] = run[k] \o P[k + 1]
      BY ONLY <1>6, <2>1, <3>1
    <3>3. SubSeq(l, 1, cut(k)) \o P[k + 1] = SubSeq(l, 1, cut(k + 1))
      <4>1. SubSeq(l, 1, cut((k + 1) - 1)) \o P[k + 1] = SubSeq(l, 1, cut(k + 1))
        BY <1>5, <3>1
      <4>2. QED BY ONLY <3>1, <4>1
    <3>4. QED BY <2>4, <3>1, <3>2, <3>3
  <2>5. \A k \in 0 .. n : k \in G
    <3>1. \A k \in 0 .. n - 1 : k \in G => k + 1 \in G
      BY <2>4
    <3> HIDE DEF G
    <3>2. QED BY <1>1, <2>3, <3>1, Positions
  <2>6. n \in 0 .. n
    BY <1>1
  <2>7. run[n] = SubSeq(l, 1, m)
    BY <1>4, <2>5, <2>6
  <2>8. QED BY <1>6, <2>1, <2>2, <2>7
<1>8. ASSUME IsLabel(l) PROVE IsName(P)
  <2>1. m >= 1 /\ n >= 1 /\ \A i \in 1 .. m : l[i] # Dot
    <3>1. m \in Nat \ {0} /\ \A i \in 1 .. m : l[i] # Dot
      BY <1>8, LabelIsPlain DEF IsLabel
    <3> HIDE DEF m
    <3>2. QED BY <1>1, <3>1
  <2>2. ASSUME NEW k \in 1 .. n PROVE IsLabel(P[k])
    <3> DEFINE x == P[k]
               i == (k - 1) * 12
               w == cut(k) - i
    <3>1. i \in Nat /\ w \in Nat /\ w >= 1 /\ i + w <= m
      BY <1>3
    <3>2. x \in Seq(Int) /\ Len(x) = w /\ \A h \in 1 .. w : x[h] = l[i + h]
      BY <1>5
    <3> HIDE DEF x, i, w, m, n
    <3>3. \A h \in 1 .. w : i + h \in 1 .. m
      BY <1>1, <3>1
    <3>4. \A h \in 1 .. Len(x) : x[h] # Dot
      BY <2>1, <3>2, <3>3
    <3>5. Len(<<>>) = 0 /\ x # <<>>
      <4>1. Len(<<>>) = 0
        OBVIOUS
      <4>2. QED BY <3>1, <3>2, <4>1
    <3>6. IsLabel(x)
      BY <3>2, <3>4, <3>5 DEF IsLabel
    <3>7. QED BY <3>6 DEF x
  <2>3. P # <<>>
    <3>1. Len(<<>>) = 0
      OBVIOUS
    <3>2. QED BY <1>6, <2>1, <3>1
  <2>4. QED BY <1>6, <2>2, <2>3 DEF IsName
<1>9. QED BY <1>6, <1>7, <1>8 DEF P

-----------------------------------------------------------------------------
(* Names without their dots. *)

\* A text without its dots.
BareStep(t, c) == IF c = Dot THEN t ELSE Append(t, c)
Bare(s) == FoldLeft(LAMBDA t, c : BareStep(t, c), <<>>, s)

LEMMA BareType ==
  /\ <<>> \in Seq(Int)
  /\ \A st \in Seq(Int), c \in Int : BareStep(st, c) \in Seq(Int)
BY DEF BareStep

BareRun(s, run) ==
  /\ run \in [0 .. Len(s) -> Seq(Int)] /\ run[0] = <<>> /\ run[Len(s)] = Bare(s)
  /\ \A k \in 1 .. Len(s) : run[k] = BareStep(run[k - 1], s[k])

LEMMA BareRuns ==
  ASSUME NEW s \in Seq(Int)
  PROVE  \E run : BareRun(s, run)
<1> DEFINE n == Len(s)
           St == Seq(Int)
           base == <<>>
           step == [x \in St \X (1 .. n) |-> BareStep(x[1], s[x[2]])]
           Eq(f) == f = [T \in SUBSET DOMAIN s |->
                      IF T = {} THEN base ELSE BareStep(f[T \ {Max(T)}], s[Max(T)])]
           f == CHOOSE g : Eq(g)
<1>1. Bare(s) = f[DOMAIN s]
  BY DEF Bare, FoldLeft, MapThenFoldSet
<1>2. n \in Nat /\ DOMAIN s = 1 .. n
  OBVIOUS
<1>3. base \in St /\ \A st \in St, c \in Int : BareStep(st, c) \in St
  BY BareType
<1>4. base \in St
  BY <1>3
<1>5. step \in [St \X (1 .. n) -> St]
  <2>1. \A k \in 1 .. n : s[k] \in Int
    OBVIOUS
  <2> HIDE DEF n, St, base
  <2>2. \A x \in St \X (1 .. n) : BareStep(x[1], s[x[2]]) \in St
    BY <1>3, <2>1
  <2>3. QED BY <2>2
<1>6. \A st \in St, k \in 1 .. n : step[<<st, k>>] = BareStep(st, s[k])
  OBVIOUS
<1> HIDE DEF n, St, base, step, f
<1>7. PICK g \in [SUBSET (1 .. n) -> St] : FoldOf(n, base, step, g)
  BY <1>2, <1>4, <1>5, FoldExists
<1>8. Eq(g)
  <2>1. ASSUME NEW T \in SUBSET (1 .. n), T # {}
        PROVE  step[<<g[T \ {Max(T)}], Max(T)>>] = BareStep(g[T \ {Max(T)}], s[Max(T)])
    <3>1. Max(T) \in 1 .. n
      BY <1>2, <2>1, MaxIs
    <3>2. g[T \ {Max(T)}] \in St
      OBVIOUS
    <3>3. QED BY <1>6, <3>1, <3>2
  <2>2. QED BY ONLY <1>2, <1>7, <2>1 DEF FoldOf
<1>9. Eq(f)
  BY <1>8 DEF f
<1>10. f[{}] = base
  BY <1>9
<1>11. ASSUME NEW k \in 1 .. n, f[1 .. (k - 1)] \in St
       PROVE  f[1 .. k] = step[<<f[1 .. (k - 1)], k>>]
  <2>1. 1 .. k \in SUBSET DOMAIN s /\ 1 .. k # {} /\ k \in Nat \ {0}
    BY <1>2, UpTo
  <2>2. f[1 .. k] = BareStep(f[(1 .. k) \ {Max(1 .. k)}], s[Max(1 .. k)])
    BY <1>9, <2>1
  <2>3. Max(1 .. k) = k /\ (1 .. k) \ {Max(1 .. k)} = 1 .. (k - 1)
    BY <2>1, LessTheLast
  <2>4. f[1 .. k] = BareStep(f[1 .. (k - 1)], s[k])
    BY ONLY <2>2, <2>3
  <2>5. QED BY ONLY <1>6, <1>11, <2>4
<1>12. PICK run \in [0 .. n -> St] : RunOf(n, base, step, f[1 .. n], run)
  BY <1>2, <1>4, <1>5, <1>10, <1>11, FoldRuns
<1>13. \A k \in 1 .. n : run[k] = BareStep(run[k - 1], s[k])
  <2>1. \A k \in 1 .. n : run[k - 1] \in St
    BY <1>2
  <2>2. QED BY <1>6, <1>12, <2>1 DEF RunOf
<1>14. BareRun(s, run)
  BY <1>1, <1>2, <1>12, <1>13 DEF n, St, base, RunOf, BareRun
<1>15. QED BY <1>14

LEMMA BareAppend ==
  ASSUME NEW s \in Seq(Int), NEW c \in Int
  PROVE  /\ Bare(s) \in Seq(Int)
         /\ Bare(Append(s, c)) = BareStep(Bare(s), c)
<1> DEFINE t == Append(s, c)
           n == Len(s)
<1>1. /\ t \in Seq(Int) /\ Len(t) = n + 1 /\ n \in Nat /\ t[n + 1] = c
      /\ \A k \in 1 .. n : t[k] = s[k]
  OBVIOUS
<1>2. n + 1 \in 1 .. n + 1 /\ (n + 1) - 1 = n
  OBVIOUS
<1>3. PICK r : BareRun(s, r)
  BY BareRuns
<1>4. /\ r \in [0 .. n -> Seq(Int)] /\ r[0] = <<>> /\ r[n] = Bare(s)
      /\ \A k \in 1 .. n : r[k] = BareStep(r[k - 1], s[k])
  BY <1>3 DEF BareRun
<1> HIDE DEF t, n
<1>5. PICK q : BareRun(t, q)
  BY <1>1, BareRuns
<1>6. /\ q \in [0 .. Len(t) -> Seq(Int)] /\ q[0] = <<>> /\ q[Len(t)] = Bare(t)
      /\ \A k \in 1 .. Len(t) : q[k] = BareStep(q[k - 1], t[k])
  BY <1>5 DEF BareRun
<1>7. r[n] = q[n]
  <2>1. \A k \in 1 .. n : k \in 1 .. Len(t)
    BY <1>1
  <2>2. \A k \in 1 .. n : r[k - 1] = q[k - 1] => r[k] = q[k]
    BY ONLY <1>1, <1>4, <1>6, <2>1
  <2>3. r[0] = q[0] /\ n \in Nat
    BY <1>1, <1>4, <1>6
  <2>4. QED BY ONLY <2>2, <2>3, SameRuns
<1>8. q[n + 1] = BareStep(q[n], c)
  <2>1. n + 1 \in 1 .. Len(t)
    BY <1>1, <1>2
  <2>2. QED BY ONLY <1>1, <1>2, <1>6, <2>1
<1>9. Bare(s) \in Seq(Int)
  BY <1>1, <1>4
<1>10. Bare(t) = BareStep(Bare(s), c)
  BY <1>1, <1>4, <1>6, <1>7, <1>8
<1>11. QED BY <1>9, <1>10 DEF t

LEMMA BareEmpty ==
  Bare(<<>>) = <<>>
<1>1. <<>> \in Seq(Int) /\ Len(<<>>) = 0
  OBVIOUS
<1>2. PICK run : BareRun(<<>>, run)
  BY <1>1, BareRuns
<1>3. run[0] = <<>> /\ run[Len(<<>>)] = Bare(<<>>)
  BY <1>2 DEF BareRun
<1>4. QED BY <1>1, <1>3

LEMMA BareBehind ==
  ASSUME NEW x \in Seq(Int), NEW y \in Seq(Int)
  PROVE  Bare(x \o y) = Bare(x) \o Bare(y) /\ Bare(x) \in Seq(Int) /\ Bare(y) \in Seq(Int)
<1> DEFINE G == {s \in Seq(Int) : Bare(x \o s) = Bare(x) \o Bare(s)}
<1>1. \A s \in Seq(Int) : Bare(s) \in Seq(Int)
  <2>1. 0 \in Int
    OBVIOUS
  <2>2. QED BY <2>1, BareAppend
<1>2. <<>> \in G
  <2>1. \A s \in Seq(Int) : s \o <<>> = s
    OBVIOUS
  <2>2. <<>> \in Seq(Int)
    OBVIOUS
  <2>3. QED BY <1>1, <2>1, <2>2, BareEmpty
<1>3. ASSUME NEW s \in Seq(Int), NEW c \in Int, s \in G PROVE Append(s, c) \in G
  <2>1. x \o Append(s, c) = Append(x \o s, c) /\ x \o s \in Seq(Int)
    BY OneMore
  <2>2. Bare(Append(x \o s, c)) = BareStep(Bare(x \o s), c)
    BY <2>1, BareAppend
  <2>3. Bare(Append(s, c)) = BareStep(Bare(s), c)
    BY BareAppend
  <2>4. Bare(x \o s) = Bare(x) \o Bare(s)
    BY <1>3
  <2>5. Bare(x) \o Append(Bare(s), c) = Append(Bare(x) \o Bare(s), c)
    BY <1>1, OneMore
  <2>6. BareStep(Bare(x) \o Bare(s), c) = Bare(x) \o BareStep(Bare(s), c)
    BY <2>5 DEF BareStep
  <2>7. Append(s, c) \in Seq(Int)
    OBVIOUS
  <2>8. QED BY <2>1, <2>2, <2>3, <2>4, <2>6, <2>7
<1>4. y \in G
  <2>1. \A s \in Seq(Int), c \in Int : s \in G => Append(s, c) \in G
    BY <1>3
  <2> HIDE DEF G
  <2>2. QED BY <1>2, <2>1, SequencesGrow
<1>5. QED BY <1>1, <1>4

LEMMA BareOfPlain == ASSUME NEW l \in Seq(Plain) PROVE Bare(l) = l
<1> DEFINE G == {s \in Seq(Plain) : Bare(s) = s}
<1>1. <<>> \in G
  BY BareEmpty
<1>2. ASSUME NEW s \in Seq(Plain), NEW c \in Plain, s \in G PROVE Append(s, c) \in G
  <2>1. Plain \subseteq Int
    BY DEF Plain
  <2>2. s \in Seq(Int) /\ c \in Int /\ c # Dot
    BY <2>1, SeqMonotonic DEF Plain
  <2>3. Bare(Append(s, c)) = BareStep(Bare(s), c)
    BY <2>2, BareAppend
  <2>4. Bare(Append(s, c)) = Append(s, c)
    BY <1>2, <2>2, <2>3 DEF BareStep
  <2>5. Append(s, c) \in Seq(Plain)
    OBVIOUS
  <2>6. QED BY <2>4, <2>5
<1>3. l \in G
  <2>1. \A s \in Seq(Plain), c \in Plain : s \in G => Append(s, c) \in G
    BY <1>2
  <2> HIDE DEF G
  <2>2. QED BY <1>1, <2>1, SequencesGrow
<1>4. QED BY <1>3

LEMMA BareOfDot == Bare(<<Dot>>) = <<>> /\ <<Dot>> \in Seq(Int)
<1>1. <<>> \in Seq(Int) /\ Dot \in Int
  BY DEF Dot
<1>2. Bare(Append(<<>>, Dot)) = BareStep(Bare(<<>>), Dot)
  BY <1>1, BareAppend
<1>3. Append(<<>>, Dot) = <<Dot>> /\ <<Dot>> \in Seq(Int)
  BY <1>1
<1>4. QED BY <1>2, <1>3, BareEmpty DEF BareStep

LEMMA BareOfRest == ASSUME NEW r \in Seq(Int) PROVE Bare(Undot(r)) = Bare(r)
<1>1. CASE r # <<>> /\ Head(r) = Dot
  <2>1. Tail(r) \in Seq(Int) /\ r = <<Head(r)>> \o Tail(r)
    BY <1>1
  <2>2. r = <<Dot>> \o Tail(r)
    BY <1>1, <2>1
  <2> DEFINE y == Tail(r)
  <2>3. y \in Seq(Int) /\ r = <<Dot>> \o y /\ Undot(r) = y
    BY <1>1, <2>1, <2>2 DEF Undot
  <2> HIDE DEF y
  <2>4. Bare(<<Dot>> \o y) = Bare(<<Dot>>) \o Bare(y) /\ Bare(y) \in Seq(Int)
    BY <2>3, BareOfDot, BareBehind
  <2>5. \A s \in Seq(Int) : <<>> \o s = s
    OBVIOUS
  <2>6. Bare(<<Dot>> \o y) = Bare(y)
    BY <2>4, <2>5, BareOfDot
  <2>7. QED BY <2>3, <2>6
<1>2. CASE ~(r # <<>> /\ Head(r) = Dot)
  BY <1>2 DEF Undot
<1>3. QED BY <1>1, <1>2

\* The text of a name without its dots.
LEMMA BareOfName ==
  ASSUME NEW L, IsName(L)
  PROVE  Bare(Joined(L)) = FlattenSeq(L)
<1> DEFINE G == {M \in Seq(Seq(Int)) : Bare(Joined(M)) = FlattenSeq(M)}
<1>1. ASSUME NEW l \in Seq(Int), IsLabel(l) PROVE <<l>> \in G
  <2>1. Bare(Joined(<<l>>)) = l
    BY <1>1, JoinedOne, LabelIsPlain, BareOfPlain
  <2>2. FlattenSeq(Append(<<>>, l)) = FlattenSeq(<<>>) \o l
    <3>1. <<>> \in Seq(Seq(Int))
      OBVIOUS
    <3>2. QED BY <3>1, FlatAppend
  <2>3. <<>> \o l = l /\ Append(<<>>, l) = <<l>> /\ <<l>> \in Seq(Seq(Int))
    OBVIOUS
  <2>4. QED BY <2>1, <2>2, <2>3, FlatEmpty
<1>2. ASSUME NEW M \in Seq(Seq(Int)), NEW l \in Seq(Int), IsName(M), IsLabel(l), M \in G
      PROVE  Append(M, l) \in G
  <2>1. Joined(M) \in Seq(Int) /\ Joined(Append(M, l)) = Joined(M) \o (<<Dot>> \o l)
    BY <1>2, JoinedLonger
  <2>2. Bare(l) = l
    BY <1>2, LabelIsPlain, BareOfPlain
  <2>3. Bare(<<Dot>> \o l) = <<>> \o l
    BY <2>2, BareOfDot, BareBehind
  <2>4. <<>> \o l = l
    OBVIOUS
  <2>5. <<Dot>> \o l \in Seq(Int)
    <3>1. \A x, y \in Seq(Int) : x \o y \in Seq(Int)
      OBVIOUS
    <3>2. QED BY <3>1, BareOfDot
  <2> DEFINE e == <<Dot>> \o l
  <2>6. e \in Seq(Int) /\ Bare(e) = l /\ Joined(Append(M, l)) = Joined(M) \o e
    BY <2>1, <2>3, <2>4, <2>5
  <2> HIDE DEF e
  <2>7. Bare(Joined(M) \o e) = Bare(Joined(M)) \o Bare(e)
    BY <2>1, <2>6, BareBehind
  <2>8. FlattenSeq(Append(M, l)) = FlattenSeq(M) \o l
    BY FlatAppend
  <2>9. Append(M, l) \in Seq(Seq(Int)) /\ Bare(Joined(M)) = FlattenSeq(M)
    BY <1>2
  <2>10. QED BY <2>6, <2>7, <2>8, <2>9
<1>3. L \in G
  <2>1. \A l \in Seq(Int) : IsLabel(l) => <<l>> \in G
    BY <1>1
  <2>2. \A M \in Seq(Seq(Int)), l \in Seq(Int) :
          IsName(M) /\ IsLabel(l) /\ M \in G => Append(M, l) \in G
    BY <1>2
  <2> HIDE DEF G
  <2>3. QED BY <2>1, <2>2, NamesGrow
<1>4. QED BY <1>3

-----------------------------------------------------------------------------
(* A name matches its own labels. *)

LEMMA MatchEndType ==
  ASSUME NEW name \in Seq(Int)
  PROVE  /\ MatchStart(name) \in MatchStates
         /\ \A st \in MatchStates, l \in Seq(Int) : MatchStep(st, l) \in MatchStates
<1>1. MatchStart(name) \in MatchStates
  BY DEF MatchStart, MatchStates
<1>2. ASSUME NEW st \in MatchStates, NEW l \in Seq(Int) PROVE MatchStep(st, l) \in MatchStates
  <2>1. Pieces(l, BufSize) \in Seq(Seq(Int)) /\ <<>> \in Seq(Int)
    BY PiecesAre
  <2>2. QED BY <2>1, PieceEndAppend DEF MatchStep
<1>3. QED BY <1>1, <1>2

MatchEndRun(name, s, run) ==
  /\ run \in [0 .. Len(s) -> MatchStates] /\ run[0] = MatchStart(name) /\ run[Len(s)] = MatchEnd(name, s)
  /\ \A k \in 1 .. Len(s) : run[k] = MatchStep(run[k - 1], s[k])

LEMMA MatchEndRuns ==
  ASSUME NEW s \in Seq(Seq(Int)), NEW name \in Seq(Int)
  PROVE  \E run : MatchEndRun(name, s, run)
<1> DEFINE n == Len(s)
           St == MatchStates
           base == MatchStart(name)
           step == [x \in St \X (1 .. n) |-> MatchStep(x[1], s[x[2]])]
           Eq(f) == f = [T \in SUBSET DOMAIN s |->
                      IF T = {} THEN base ELSE MatchStep(f[T \ {Max(T)}], s[Max(T)])]
           f == CHOOSE g : Eq(g)
<1>1. MatchEnd(name, s) = f[DOMAIN s]
  BY DEF MatchEnd, FoldLeft, MapThenFoldSet
<1>2. n \in Nat /\ DOMAIN s = 1 .. n
  OBVIOUS
<1>3. base \in St /\ \A st \in St, c \in Seq(Int) : MatchStep(st, c) \in St
  BY MatchEndType
<1>4. base \in St
  BY <1>3
<1>5. step \in [St \X (1 .. n) -> St]
  <2>1. \A k \in 1 .. n : s[k] \in Seq(Int)
    OBVIOUS
  <2> HIDE DEF n, St, base
  <2>2. \A x \in St \X (1 .. n) : MatchStep(x[1], s[x[2]]) \in St
    BY <1>3, <2>1
  <2>3. QED BY <2>2
<1>6. \A st \in St, k \in 1 .. n : step[<<st, k>>] = MatchStep(st, s[k])
  OBVIOUS
<1> HIDE DEF n, St, base, step, f
<1>7. PICK g \in [SUBSET (1 .. n) -> St] : FoldOf(n, base, step, g)
  BY <1>2, <1>4, <1>5, FoldExists
<1>8. Eq(g)
  <2>1. ASSUME NEW T \in SUBSET (1 .. n), T # {}
        PROVE  step[<<g[T \ {Max(T)}], Max(T)>>] = MatchStep(g[T \ {Max(T)}], s[Max(T)])
    <3>1. Max(T) \in 1 .. n
      BY <1>2, <2>1, MaxIs
    <3>2. g[T \ {Max(T)}] \in St
      OBVIOUS
    <3>3. QED BY <1>6, <3>1, <3>2
  <2>2. QED BY ONLY <1>2, <1>7, <2>1 DEF FoldOf
<1>9. Eq(f)
  BY <1>8 DEF f
<1>10. f[{}] = base
  BY <1>9
<1>11. ASSUME NEW k \in 1 .. n, f[1 .. (k - 1)] \in St
       PROVE  f[1 .. k] = step[<<f[1 .. (k - 1)], k>>]
  <2>1. 1 .. k \in SUBSET DOMAIN s /\ 1 .. k # {} /\ k \in Nat \ {0}
    BY <1>2, UpTo
  <2>2. f[1 .. k] = MatchStep(f[(1 .. k) \ {Max(1 .. k)}], s[Max(1 .. k)])
    BY <1>9, <2>1
  <2>3. Max(1 .. k) = k /\ (1 .. k) \ {Max(1 .. k)} = 1 .. (k - 1)
    BY <2>1, LessTheLast
  <2>4. f[1 .. k] = MatchStep(f[1 .. (k - 1)], s[k])
    BY ONLY <2>2, <2>3
  <2>5. QED BY ONLY <1>6, <1>11, <2>4
<1>12. PICK run \in [0 .. n -> St] : RunOf(n, base, step, f[1 .. n], run)
  BY <1>2, <1>4, <1>5, <1>10, <1>11, FoldRuns
<1>13. \A k \in 1 .. n : run[k] = MatchStep(run[k - 1], s[k])
  <2>1. \A k \in 1 .. n : run[k - 1] \in St
    BY <1>2
  <2>2. QED BY <1>6, <1>12, <2>1 DEF RunOf
<1>14. MatchEndRun(name, s, run)
  BY <1>1, <1>2, <1>12, <1>13 DEF n, St, base, RunOf, MatchEndRun
<1>15. QED BY <1>14

LEMMA MatchEndAppend ==
  ASSUME NEW s \in Seq(Seq(Int)), NEW c \in Seq(Int), NEW name \in Seq(Int)
  PROVE  /\ MatchEnd(name, s) \in MatchStates
         /\ MatchEnd(name, Append(s, c)) = MatchStep(MatchEnd(name, s), c)
<1> DEFINE t == Append(s, c)
           n == Len(s)
<1>1. /\ t \in Seq(Seq(Int)) /\ Len(t) = n + 1 /\ n \in Nat /\ t[n + 1] = c
      /\ \A k \in 1 .. n : t[k] = s[k]
  OBVIOUS
<1>2. n + 1 \in 1 .. n + 1 /\ (n + 1) - 1 = n
  OBVIOUS
<1>3. PICK r : MatchEndRun(name, s, r)
  BY MatchEndRuns
<1>4. /\ r \in [0 .. n -> MatchStates] /\ r[0] = MatchStart(name) /\ r[n] = MatchEnd(name, s)
      /\ \A k \in 1 .. n : r[k] = MatchStep(r[k - 1], s[k])
  BY <1>3 DEF MatchEndRun
<1> HIDE DEF t, n
<1>5. PICK q : MatchEndRun(name, t, q)
  BY <1>1, MatchEndRuns
<1>6. /\ q \in [0 .. Len(t) -> MatchStates] /\ q[0] = MatchStart(name) /\ q[Len(t)] = MatchEnd(name, t)
      /\ \A k \in 1 .. Len(t) : q[k] = MatchStep(q[k - 1], t[k])
  BY <1>5 DEF MatchEndRun
<1>7. r[n] = q[n]
  <2>1. \A k \in 1 .. n : k \in 1 .. Len(t)
    BY <1>1
  <2>2. \A k \in 1 .. n : r[k - 1] = q[k - 1] => r[k] = q[k]
    BY ONLY <1>1, <1>4, <1>6, <2>1
  <2>3. r[0] = q[0] /\ n \in Nat
    BY <1>1, <1>4, <1>6
  <2>4. QED BY ONLY <2>2, <2>3, SameRuns
<1>8. q[n + 1] = MatchStep(q[n], c)
  <2>1. n + 1 \in 1 .. Len(t)
    BY <1>1, <1>2
  <2>2. QED BY ONLY <1>1, <1>2, <1>6, <2>1
<1>9. MatchEnd(name, s) \in MatchStates
  BY <1>1, <1>4
<1>10. MatchEnd(name, t) = MatchStep(MatchEnd(name, s), c)
  BY <1>1, <1>4, <1>6, <1>7, <1>8
<1>11. QED BY <1>9, <1>10 DEF t

LEMMA MatchEndEmpty ==
  ASSUME NEW name \in Seq(Int)
  PROVE  MatchEnd(name, <<>>) = MatchStart(name)
<1>1. <<>> \in Seq(Seq(Int)) /\ Len(<<>>) = 0
  OBVIOUS
<1>2. PICK run : MatchEndRun(name, <<>>, run)
  BY <1>1, MatchEndRuns
<1>3. run[0] = MatchStart(name) /\ run[Len(<<>>)] = MatchEnd(name, <<>>)
  BY <1>2 DEF MatchEndRun
<1>4. QED BY <1>1, <1>3

\* A text that begins with the pieces, and what is behind them.
LEMMA PiecesMatch ==
  ASSUME NEW P, IsName(P), NEW w \in Seq(Int)
  PROVE  PieceEnd(MatchStart(FlattenSeq(P) \o w), P) = MatchStart(Undot(w))
<1> DEFINE G == {Q \in Seq(Seq(Int)) :
                   \A v \in Seq(Int) : PieceEnd(MatchStart(FlattenSeq(Q) \o v), Q) = MatchStart(Undot(v))}
<1>1. \A x \in Seq(Int) : MatchStart(x) \in MatchStates /\ MatchStart(x).ok = 1 /\ MatchStart(x).rest = x
  BY DEF MatchStart, MatchStates
<1>2. ASSUME NEW p \in Seq(Int), NEW v \in Seq(Int)
      PROVE  PieceStep(MatchStart(p \o v), p) = MatchStart(Undot(v)) /\ p \o v \in Seq(Int)
  <2>1. p \o v \in Seq(Int)
    OBVIOUS
  <2>2. MatchStart(p \o v).ok = 1 /\ MatchStart(p \o v).rest = p \o v
    BY <1>1, <2>1
  <2>3. matchStringPart(p \o v, p) = MatchStart(Undot(v))
    BY PartMatches DEF MatchStart
  <2>4. QED BY <2>1, <2>2, <2>3 DEF PieceStep
<1>3. ASSUME NEW p \in Seq(Int), IsLabel(p) PROVE <<p>> \in G
  <2>1. FlattenSeq(<<p>>) = p /\ Append(<<>>, p) = <<p>> /\ <<p>> \in Seq(Seq(Int)) /\ <<>> \in Seq(Seq(Int))
    <3>1. <<>> \in Seq(Seq(Int)) /\ <<>> \o p = p /\ Append(<<>>, p) = <<p>> /\ <<p>> \in Seq(Seq(Int))
      OBVIOUS
    <3>2. FlattenSeq(Append(<<>>, p)) = FlattenSeq(<<>>) \o p
      BY <3>1, FlatAppend
    <3>3. QED BY <3>1, <3>2, FlatEmpty
  <2>2. ASSUME NEW v \in Seq(Int)
        PROVE  PieceEnd(MatchStart(FlattenSeq(<<p>>) \o v), <<p>>) = MatchStart(Undot(v))
    <3> DEFINE st == MatchStart(p \o v)
    <3>1. st \in MatchStates /\ PieceStep(st, p) = MatchStart(Undot(v))
      BY <1>1, <1>2
    <3> HIDE DEF st
    <3>2. PieceEnd(st, Append(<<>>, p)) = PieceStep(PieceEnd(st, <<>>), p) /\ PieceEnd(st, <<>>) = st
      BY <2>1, <3>1, PieceEndAppend, PieceEndEmpty
    <3>3. QED BY <2>1, <3>1, <3>2 DEF st
  <2>3. QED BY <2>1, <2>2
<1>4. ASSUME NEW Q \in Seq(Seq(Int)), NEW p \in Seq(Int), IsName(Q), IsLabel(p), Q \in G
      PROVE  Append(Q, p) \in G
  <2>1. FlattenSeq(Append(Q, p)) = FlattenSeq(Q) \o p /\ FlattenSeq(Q) \in Seq(Int)
        /\ Append(Q, p) \in Seq(Seq(Int))
    <3>1. Append(Q, p) \in Seq(Seq(Int))
      OBVIOUS
    <3>2. QED BY <3>1, FlatAppend
  <2>2. ASSUME NEW v \in Seq(Int)
        PROVE  PieceEnd(MatchStart(FlattenSeq(Append(Q, p)) \o v), Append(Q, p)) = MatchStart(Undot(v))
    <3> DEFINE u == p \o v
               st == MatchStart(FlattenSeq(Q) \o u)
    <3>1. FlattenSeq(Append(Q, p)) \o v = FlattenSeq(Q) \o u /\ u \in Seq(Int)
      BY <1>2, <2>1, Regrouped, SMTT(60)
    <3>2. Undot(u) = u
      <4>1. p \in Seq(Int) /\ Len(p) \in Nat \ {0} /\ p[1] # Dot
        BY <1>4, LabelIsPlain DEF IsLabel
      <4>2. u # <<>> /\ Head(u) = p[1]
        BY <4>1
      <4>3. QED BY <4>1, <4>2 DEF Undot
    <3>3. PieceStep(MatchStart(u), p) = MatchStart(Undot(v))
      BY <1>2
    <3>4. FlattenSeq(Q) \o u \in Seq(Int)
      BY <1>2, <2>1, <3>1
    <3> HIDE DEF u
    <3>5. PieceEnd(st, Q) = MatchStart(u) /\ st \in MatchStates
      BY <1>1, <1>4, <3>1, <3>2, <3>4
    <3> HIDE DEF st
    <3>6. PieceEnd(st, Append(Q, p)) = PieceStep(PieceEnd(st, Q), p)
      BY <3>5, PieceEndAppend
    <3>7. QED BY <3>1, <3>3, <3>5, <3>6 DEF st
  <2>3. QED BY <2>1, <2>2
<1>5. P \in G
  <2>1. \A p \in Seq(Int) : IsLabel(p) => <<p>> \in G
    BY <1>3
  <2>2. \A Q \in Seq(Seq(Int)), p \in Seq(Int) :
          IsName(Q) /\ IsLabel(p) /\ Q \in G => Append(Q, p) \in G
    BY <1>4
  <2> HIDE DEF G
  <2>3. QED BY <2>1, <2>2, NamesGrow
<1>6. QED BY <1>5

\* A label, at the end of a name and in front of others.
LEMMA LabelMatches ==
  ASSUME NEW l, IsLabel(l)
  PROVE  /\ MatchStep(MatchStart(l), l) = MatchStart(<<>>)
         /\ \A x \in Seq(Int) : MatchStep(MatchStart(l \o (<<Dot>> \o x)), l) = MatchStart(x)
<1> DEFINE P == Pieces(l, BufSize)
<1>1. l \in Seq(Int) /\ <<>> \in Seq(Int) /\ l \o <<>> = l
  BY DEF IsLabel
<1>2. IsName(P) /\ FlattenSeq(P) = l
  BY <1>1, PiecesAre
<1>3. \A st : MatchStep(st, l) = PieceEnd(st, P)
  BY DEF MatchStep
<1> HIDE DEF P
<1>4. \A w \in Seq(Int) : MatchStep(MatchStart(l \o w), l) = MatchStart(Undot(w))
  BY <1>2, <1>3, PiecesMatch
<1>5. Undot(<<>>) = <<>>
  BY DEF Undot
<1>6. ASSUME NEW x \in Seq(Int) PROVE Undot(<<Dot>> \o x) = x /\ <<Dot>> \o x \in Seq(Int)
  <2> DEFINE y == <<Dot>> \o x
  <2>1. /\ y \in Seq(Int) /\ Len(y) = Len(<<Dot>>) + Len(x)
        /\ \A i \in 1 .. Len(<<Dot>>) : y[i] = <<Dot>>[i]
        /\ \A i \in 1 .. Len(x) : y[Len(<<Dot>>) + i] = x[i]
    BY BareOfDot, TwoParts
  <2> HIDE DEF y
  <2>2. Len(<<Dot>>) = 1 /\ <<Dot>>[1] = Dot /\ Len(x) \in Nat
    OBVIOUS
  <2>3. Len(y) = 1 + Len(x) /\ y[1] = Dot /\ \A i \in 1 .. Len(x) : y[1 + i] = x[i]
    BY <2>1, <2>2
  <2>4. y # <<>> /\ Head(y) = Dot
    BY <2>1, <2>2, <2>3
  <2>5. Tail(y) \in Seq(Int) /\ Len(Tail(y)) = Len(x) /\ \A i \in 1 .. Len(x) : Tail(y)[i] = x[i]
    BY <2>1, <2>2, <2>3, <2>4
  <2>6. Tail(y) = x
    BY <2>5, SeqEqual
  <2>7. QED BY <2>1, <2>4, <2>6 DEF Undot, y
<1>7. MatchStep(MatchStart(l), l) = MatchStart(<<>>)
  BY <1>1, <1>4, <1>5
<1>8. QED BY <1>4, <1>6, <1>7

-----------------------------------------------------------------------------
(* What matches a name is, but for dots, the name. *)

\* A name is recognised, label by label.
LEMMA OwnLabelsMatch ==
  ASSUME NEW L, IsName(L)
  PROVE  MatchEnd(Joined(L), L) = MatchStart(<<>>)
<1> DEFINE After(F, M) == MatchEnd(Joined(F \o M), F) = MatchStart(Joined(M))
           G == {F \in Seq(Seq(Int)) :
                   /\ MatchEnd(Joined(F), F) = MatchStart(<<>>)
                   /\ \A M \in Seq(Seq(Int)) : IsName(M) => After(F, M)}
<1>1. \A M : IsName(M) => M \in Seq(Seq(Int)) /\ Joined(M) \in Seq(Int)
  BY WireLength DEF IsName
<1>2. ASSUME NEW l \in Seq(Int), IsLabel(l) PROVE <<l>> \in G
  <2>1. /\ IsName(<<l>>) /\ Joined(<<l>>) = l /\ Append(<<>>, l) = <<l>>
        /\ <<>> \in Seq(Seq(Int)) /\ <<l>> \in Seq(Seq(Int))
    BY <1>1, <1>2, NameOfOne, JoinedOne
  <2>2. ASSUME NEW s \in Seq(Int) PROVE MatchEnd(s, <<l>>) = MatchStep(MatchStart(s), l)
    <3>1. MatchEnd(s, Append(<<>>, l)) = MatchStep(MatchEnd(s, <<>>), l) /\ MatchEnd(s, <<>>) = MatchStart(s)
      BY <2>1, MatchEndAppend, MatchEndEmpty
    <3>2. QED BY <2>1, <3>1
  <2>3. MatchEnd(Joined(<<l>>), <<l>>) = MatchStart(<<>>)
    BY <1>2, <2>1, <2>2, LabelMatches
  <2>4. ASSUME NEW M \in Seq(Seq(Int)), IsName(M) PROVE After(<<l>>, M)
    <3>1. Joined(<<l>> \o M) = l \o (<<Dot>> \o Joined(M)) /\ IsName(<<l>> \o M)
      BY <2>1, <2>4, JoinedBehind
    <3>2. Joined(M) \in Seq(Int) /\ Joined(<<l>> \o M) \in Seq(Int)
      BY <1>1, <2>4, <3>1
    <3>3. QED BY <1>2, <2>2, <3>1, <3>2, LabelMatches
  <2>5. QED BY <2>1, <2>3, <2>4
<1>3. ASSUME NEW F \in Seq(Seq(Int)), NEW l \in Seq(Int), IsName(F), IsLabel(l), F \in G
      PROVE  Append(F, l) \in G
  <2>1. IsName(<<l>>) /\ Joined(<<l>>) = l /\ <<l>> \in Seq(Seq(Int))
    BY <1>1, <1>3, NameOfOne, JoinedOne
  <2>2. Append(F, l) \in Seq(Seq(Int)) /\ Append(F, l) = F \o <<l>> /\ IsName(Append(F, l))
    <3>1. Append(F, l) = F \o <<l>> /\ Append(F, l) \in Seq(Seq(Int))
      BY AppendIsConcat
    <3>2. QED BY <1>3, <3>1, NameAppend
  <2>3. ASSUME NEW s \in Seq(Int) PROVE MatchEnd(s, Append(F, l)) = MatchStep(MatchEnd(s, F), l)
    BY MatchEndAppend
  <2>4. \A M \in Seq(Seq(Int)) : IsName(M) => After(F, M)
    BY <1>3
  <2>5. MatchEnd(Joined(Append(F, l)), Append(F, l)) = MatchStart(<<>>)
    <3>1. After(F, <<l>>) /\ Joined(Append(F, l)) \in Seq(Int)
      BY <1>1, <2>1, <2>2, <2>4
    <3>2. MatchEnd(Joined(Append(F, l)), F) = MatchStart(l)
      BY <2>1, <2>2, <3>1
    <3>3. QED BY <1>3, <2>3, <3>1, <3>2, LabelMatches
  <2>6. ASSUME NEW M \in Seq(Seq(Int)), IsName(M) PROVE After(Append(F, l), M)
    <3> DEFINE N == <<l>> \o M
               s == Joined(Append(F, l) \o M)
    <3>1. IsName(N) /\ N \in Seq(Seq(Int)) /\ Joined(N) = l \o (<<Dot>> \o Joined(M))
      BY <1>1, <2>1, <2>6, JoinedBehind
    <3>2. Append(F, l) \o M = F \o N
      <4>1. \A x, y, z \in Seq(Seq(Int)) : (x \o y) \o z = x \o (y \o z)
        BY SMTT(60)
      <4>2. QED BY <2>1, <2>2, <4>1
    <3>3. IsName(Append(F, l) \o M)
      BY <2>2, <2>6, JoinedBehind
    <3>4. s \in Seq(Int) /\ Joined(M) \in Seq(Int)
      BY <1>1, <2>6, <3>3
    <3> HIDE DEF N
    <3>5. MatchEnd(s, F) = MatchStart(Joined(N))
      BY <2>4, <3>1, <3>2
    <3> HIDE DEF s
    <3>6. MatchEnd(s, Append(F, l)) = MatchStep(MatchStart(l \o (<<Dot>> \o Joined(M))), l)
      BY <2>3, <3>1, <3>4, <3>5
    <3>7. MatchEnd(s, Append(F, l)) = MatchStart(Joined(M))
      BY <1>3, <3>4, <3>6, LabelMatches
    <3>8. QED BY <3>7 DEF s
  <2>7. QED BY <2>2, <2>5, <2>6
<1>4. L \in G
  <2>1. \A l \in Seq(Int) : IsLabel(l) => <<l>> \in G
    BY <1>2
  <2>2. \A F \in Seq(Seq(Int)), l \in Seq(Int) :
          IsName(F) /\ IsLabel(l) /\ F \in G => Append(F, l) \in G
    BY <1>3
  <2> HIDE DEF G
  <2>3. QED BY <2>1, <2>2, NamesGrow
<1>5. QED BY <1>4

\* What has matched is, but for dots, what was asked.
LEMMA PieceSame ==
  ASSUME NEW st \in MatchStates, NEW p, IsLabel(p), PieceStep(st, p).ok = 1
  PROVE  /\ st.ok = 1 /\ Bare(st.rest) = p \o Bare(PieceStep(st, p).rest)
         /\ Bare(PieceStep(st, p).rest) \in Seq(Int)
<1>1. st.rest \in Seq(Int) /\ st.ok \in {0, 1} /\ p \in Seq(Int) /\ p \in Seq(Plain)
  BY LabelIsPlain DEF MatchStates
<1>2. st.ok # 0
  BY DEF PieceStep
<1>3. PieceStep(st, p) = matchStringPart(st.rest, p)
  BY <1>2 DEF PieceStep
<1>4. IsPrefix(p, st.rest)
  <2>1. ASSUME ~IsPrefix(p, st.rest) PROVE FALSE
    <3>1. PieceStep(st, p) = [ok |-> 0, rest |-> <<>>]
      BY <1>1, <1>3, <2>1, PartFails
    <3>2. QED BY <3>1
  <2>2. QED BY <2>1
<1>5. PICK r \in Seq(Int) : st.rest = p \o r
  BY <1>1, <1>4, PrefixParts
<1>6. PieceStep(st, p).rest = Undot(r)
  BY <1>1, <1>3, <1>5, PartMatches
<1>7. Bare(p \o r) = p \o Bare(r) /\ Bare(r) \in Seq(Int)
  BY <1>1, BareBehind, BareOfPlain
<1>8. QED BY <1>1, <1>2, <1>5, <1>6, <1>7, BareOfRest

LEMMA PiecesSame ==
  ASSUME NEW P, IsName(P), NEW st \in MatchStates, PieceEnd(st, P).ok = 1
  PROVE  /\ st.ok = 1 /\ Bare(st.rest) = FlattenSeq(P) \o Bare(PieceEnd(st, P).rest)
         /\ Bare(PieceEnd(st, P).rest) \in Seq(Int)
<1> DEFINE Same(s, Q) ==
             PieceEnd(s, Q).ok = 1 =>
               /\ s.ok = 1 /\ Bare(s.rest) = FlattenSeq(Q) \o Bare(PieceEnd(s, Q).rest)
               /\ Bare(PieceEnd(s, Q).rest) \in Seq(Int)
           G == {Q \in Seq(Seq(Int)) : \A s \in MatchStates : Same(s, Q)}
<1>1. ASSUME NEW p \in Seq(Int), IsLabel(p) PROVE <<p>> \in G
  <2>1. FlattenSeq(<<p>>) = p /\ Append(<<>>, p) = <<p>> /\ <<p>> \in Seq(Seq(Int)) /\ <<>> \in Seq(Seq(Int))
    <3>1. <<>> \in Seq(Seq(Int)) /\ <<>> \o p = p /\ Append(<<>>, p) = <<p>> /\ <<p>> \in Seq(Seq(Int))
      OBVIOUS
    <3>2. FlattenSeq(Append(<<>>, p)) = FlattenSeq(<<>>) \o p
      BY <3>1, FlatAppend
    <3>3. QED BY <3>1, <3>2, FlatEmpty
  <2>2. ASSUME NEW s \in MatchStates PROVE PieceEnd(s, <<p>>) = PieceStep(s, p)
    <3>1. PieceEnd(s, Append(<<>>, p)) = PieceStep(PieceEnd(s, <<>>), p) /\ PieceEnd(s, <<>>) = s
      BY <2>1, PieceEndAppend, PieceEndEmpty
    <3>2. QED BY <2>1, <3>1
  <2>3. \A s \in MatchStates : Same(s, <<p>>)
    BY <1>1, <2>1, <2>2, PieceSame
  <2>4. QED BY <2>1, <2>3
<1>2. ASSUME NEW Q \in Seq(Seq(Int)), NEW p \in Seq(Int), IsName(Q), IsLabel(p), Q \in G
      PROVE  Append(Q, p) \in G
  <2>1. FlattenSeq(Append(Q, p)) = FlattenSeq(Q) \o p /\ FlattenSeq(Q) \in Seq(Int)
        /\ Append(Q, p) \in Seq(Seq(Int))
    <3>1. Append(Q, p) \in Seq(Seq(Int))
      OBVIOUS
    <3>2. QED BY <3>1, FlatAppend
  <2>2. ASSUME NEW s \in MatchStates, PieceEnd(s, Append(Q, p)).ok = 1
        PROVE  /\ s.ok = 1 /\ Bare(s.rest) = FlattenSeq(Append(Q, p)) \o Bare(PieceEnd(s, Append(Q, p)).rest)
               /\ Bare(PieceEnd(s, Append(Q, p)).rest) \in Seq(Int)
    <3> DEFINE m == PieceEnd(s, Q)
               e == PieceStep(m, p)
    <3>1. m \in MatchStates /\ PieceEnd(s, Append(Q, p)) = e
      BY PieceEndAppend
    <3>2. Same(s, Q)
      BY <1>2
    <3>3. m.ok = 1 => s.ok = 1 /\ Bare(s.rest) = FlattenSeq(Q) \o Bare(m.rest)
      BY <3>2
    <3> HIDE DEF m
    <3>4. m.ok = 1 /\ Bare(m.rest) = p \o Bare(e.rest) /\ Bare(e.rest) \in Seq(Int)
      BY <1>2, <2>2, <3>1, PieceSame
    <3> HIDE DEF e
    <3> DEFINE z == Bare(e.rest)
    <3>5. FlattenSeq(Q) \o (p \o z) = (FlattenSeq(Q) \o p) \o z
      BY <2>1, <3>4, Regrouped
    <3>6. QED BY <2>1, <3>1, <3>3, <3>4, <3>5
  <2>3. QED BY <2>1, <2>2
<1>3. P \in G
  <2>1. \A p \in Seq(Int) : IsLabel(p) => <<p>> \in G
    BY <1>1
  <2>2. \A Q \in Seq(Seq(Int)), p \in Seq(Int) :
          IsName(Q) /\ IsLabel(p) /\ Q \in G => Append(Q, p) \in G
    BY <1>2
  <2> HIDE DEF G
  <2>3. QED BY <2>1, <2>2, NamesGrow
<1>4. Same(st, P)
  BY <1>3
<1>5. QED BY <1>4

LEMMA LabelSame ==
  ASSUME NEW st \in MatchStates, NEW l, IsLabel(l), MatchStep(st, l).ok = 1
  PROVE  /\ st.ok = 1 /\ Bare(st.rest) = l \o Bare(MatchStep(st, l).rest)
         /\ Bare(MatchStep(st, l).rest) \in Seq(Int)
<1> DEFINE P == Pieces(l, BufSize)
<1>1. l \in Seq(Int)
  BY DEF IsLabel
<1>2. IsName(P) /\ FlattenSeq(P) = l
  BY <1>1, PiecesAre
<1>3. MatchStep(st, l) = PieceEnd(st, P)
  BY DEF MatchStep
<1> HIDE DEF P
<1>4. QED BY <1>2, <1>3, PiecesSame

LEMMA NamesSame ==
  ASSUME NEW L, IsName(L), NEW name \in Seq(Int), MatchEnd(name, L).ok = 1
  PROVE  /\ Bare(name) = FlattenSeq(L) \o Bare(MatchEnd(name, L).rest)
         /\ Bare(MatchEnd(name, L).rest) \in Seq(Int)
<1> DEFINE Same(Q) ==
             MatchEnd(name, Q).ok = 1 =>
               /\ Bare(name) = FlattenSeq(Q) \o Bare(MatchEnd(name, Q).rest)
               /\ Bare(MatchEnd(name, Q).rest) \in Seq(Int)
           G == {Q \in Seq(Seq(Int)) : Same(Q)}
<1>1. MatchStart(name) \in MatchStates /\ MatchStart(name).rest = name
  BY DEF MatchStart, MatchStates
<1>2. ASSUME NEW l \in Seq(Int), IsLabel(l) PROVE <<l>> \in G
  <2>1. FlattenSeq(<<l>>) = l /\ Append(<<>>, l) = <<l>> /\ <<l>> \in Seq(Seq(Int)) /\ <<>> \in Seq(Seq(Int))
    <3>1. <<>> \in Seq(Seq(Int)) /\ <<>> \o l = l /\ Append(<<>>, l) = <<l>> /\ <<l>> \in Seq(Seq(Int))
      OBVIOUS
    <3>2. FlattenSeq(Append(<<>>, l)) = FlattenSeq(<<>>) \o l
      BY <3>1, FlatAppend
    <3>3. QED BY <3>1, <3>2, FlatEmpty
  <2>2. MatchEnd(name, <<l>>) = MatchStep(MatchStart(name), l)
    <3>1. MatchEnd(name, Append(<<>>, l)) = MatchStep(MatchEnd(name, <<>>), l)
          /\ MatchEnd(name, <<>>) = MatchStart(name)
      BY <2>1, MatchEndAppend, MatchEndEmpty
    <3>2. QED BY <2>1, <3>1
  <2>3. Same(<<l>>)
    BY <1>1, <1>2, <2>1, <2>2, LabelSame
  <2>4. QED BY <2>1, <2>3
<1>3. ASSUME NEW Q \in Seq(Seq(Int)), NEW l \in Seq(Int), IsName(Q), IsLabel(l), Q \in G
      PROVE  Append(Q, l) \in G
  <2>1. FlattenSeq(Append(Q, l)) = FlattenSeq(Q) \o l /\ FlattenSeq(Q) \in Seq(Int)
        /\ Append(Q, l) \in Seq(Seq(Int))
    <3>1. Append(Q, l) \in Seq(Seq(Int))
      OBVIOUS
    <3>2. QED BY <3>1, FlatAppend
  <2>2. ASSUME MatchEnd(name, Append(Q, l)).ok = 1
        PROVE  /\ Bare(name) = FlattenSeq(Append(Q, l)) \o Bare(MatchEnd(name, Append(Q, l)).rest)
               /\ Bare(MatchEnd(name, Append(Q, l)).rest) \in Seq(Int)
    <3> DEFINE m == MatchEnd(name, Q)
               e == MatchStep(m, l)
    <3>1. m \in MatchStates /\ MatchEnd(name, Append(Q, l)) = e
      BY MatchEndAppend
    <3>2. Same(Q)
      BY <1>3
    <3>3. m.ok = 1 => Bare(name) = FlattenSeq(Q) \o Bare(m.rest)
      BY <3>2
    <3> HIDE DEF m
    <3>4. m.ok = 1 /\ Bare(m.rest) = l \o Bare(e.rest) /\ Bare(e.rest) \in Seq(Int)
      BY <1>3, <2>2, <3>1, LabelSame
    <3> HIDE DEF e
    <3> DEFINE z == Bare(e.rest)
    <3>5. FlattenSeq(Q) \o (l \o z) = (FlattenSeq(Q) \o l) \o z
      BY <2>1, <3>4, Regrouped
    <3>6. QED BY <2>1, <3>1, <3>3, <3>4, <3>5
  <2>3. QED BY <2>1, <2>2
<1>4. L \in G
  <2>1. \A l \in Seq(Int) : IsLabel(l) => <<l>> \in G
    BY <1>2
  <2>2. \A Q \in Seq(Seq(Int)), l \in Seq(Int) :
          IsName(Q) /\ IsLabel(l) /\ Q \in G => Append(Q, l) \in G
    BY <1>3
  <2> HIDE DEF G
  <2>3. QED BY <2>1, <2>2, NamesGrow
<1>5. Same(L)
  BY <1>4
<1>6. QED BY <1>5

\* A question for a name's own labels is taken for one, and one that is taken differs in dots.
LEMMA QuestionsOf ==
  ASSUME NEW L, IsName(L), NEW asked, IsName(asked)
  PROVE  /\ nameMatches(Joined(L), L, BufSize)
         /\ nameMatches(Joined(L), asked, BufSize) => FlattenSeq(asked) = FlattenSeq(L)
<1>1. nameMatches(Joined(L), L, BufSize)
  <2>1. MatchEnd(Joined(L), L) = MatchStart(<<>>)
    BY OwnLabelsMatch
  <2>2. QED BY <2>1, MatchesAre DEF MatchStart
<1>2. ASSUME nameMatches(Joined(L), asked, BufSize) PROVE FlattenSeq(asked) = FlattenSeq(L)
  <2>1. MatchEnd(Joined(L), asked).ok = 1 /\ MatchEnd(Joined(L), asked).rest = <<>>
    BY <1>2, MatchesAre
  <2>2. Joined(L) \in Seq(Int) /\ Bare(Joined(L)) = FlattenSeq(L)
    BY WireLength, BareOfName
  <2>3. Bare(Joined(L)) = FlattenSeq(asked) \o <<>>
    <3> DEFINE name == Joined(L)
    <3>1. name \in Seq(Int) /\ MatchEnd(name, asked).ok = 1 /\ MatchEnd(name, asked).rest = <<>>
      BY <2>1, <2>2
    <3> HIDE DEF name
    <3>2. Bare(name) = FlattenSeq(asked) \o Bare(MatchEnd(name, asked).rest)
      BY <3>1, NamesSame
    <3>3. Bare(name) = FlattenSeq(asked) \o <<>>
      BY <3>1, <3>2, BareEmpty
    <3>4. QED BY <3>3 DEF name
  <2>4. FlattenSeq(asked) \in Seq(Int) /\ \A x \in Seq(Int) : x \o <<>> = x
    <3>1. asked \in Seq(Seq(Int)) /\ <<>> \in Seq(Int)
      BY DEF IsName
    <3>2. FlattenSeq(asked) \in Seq(Int)
      BY <3>1, FlatAppend
    <3>3. \A x \in Seq(Int) : x \o <<>> = x
      OBVIOUS
    <3>4. QED BY <3>2, <3>3
  <2>5. QED BY <2>2, <2>3, <2>4
<1>3. QED BY <1>1, <1>2

-----------------------------------------------------------------------------
(* Compared, beside nameMatches. *)

\* The folds of Compared, beside those of nameMatches.
ComparedStates == [ok : {0, 1}, rest : Seq(Int), part : {0, 1}]
PartStep(st, p) ==
  IF st.ok = 0 THEN st
  ELSE LET m == matchStringPart(st.rest, p)
       IN  [ok |-> m.ok, rest |-> m.rest, part |-> IF m.ok = 1 THEN 1 ELSE st.part]
PartEnd(st0, ps) == FoldLeft(LAMBDA st, p : PartStep(st, p), st0, ps)
ComparedStep(st, l) == PartEnd(st, Pieces(l, HeaderSize))
ComparedStart(name) == [ok |-> 1, rest |-> name, part |-> 0]
ComparedEnd(name, L) == FoldLeft(LAMBDA st, l : ComparedStep(st, l), ComparedStart(name), L)
SameMatch(st, m) == st.ok = m.ok /\ st.rest = m.rest

LEMMA ComparedIs == ASSUME NEW name, NEW L PROVE Compared(name, L) = ComparedEnd(name, L)
BY DEF Compared, ComparedEnd, ComparedStep, ComparedStart, PartEnd, PartStep

LEMMA MatchStringPartType ==
  ASSUME NEW s \in Seq(Int), NEW p \in Seq(Int)
  PROVE  matchStringPart(s, p) \in MatchStates
<1>1. [ok |-> 1, rest |-> s] \in MatchStates /\ [ok |-> 1, rest |-> s].ok # 0
      /\ [ok |-> 1, rest |-> s].rest = s
  BY DEF MatchStates
<1>2. PieceStep([ok |-> 1, rest |-> s], p) = matchStringPart(s, p)
  BY <1>1 DEF PieceStep
<1>3. QED BY <1>1, <1>2, PieceEndType

LEMMA PartEndType ==
  ASSUME NEW st0 \in ComparedStates
  PROVE  st0 \in ComparedStates /\ \A st \in ComparedStates, p \in Seq(Int) : PartStep(st, p) \in ComparedStates
<1>1. ASSUME NEW st \in ComparedStates, NEW p \in Seq(Int) PROVE PartStep(st, p) \in ComparedStates
  <2> DEFINE m == matchStringPart(st.rest, p)
  <2>1. m \in MatchStates /\ st.part \in {0, 1}
    BY MatchStringPartType DEF ComparedStates
  <2> HIDE DEF m
  <2>2. m.ok \in {0, 1} /\ m.rest \in Seq(Int)
    BY <2>1 DEF MatchStates
  <2>3. [ok |-> m.ok, rest |-> m.rest, part |-> IF m.ok = 1 THEN 1 ELSE st.part] \in ComparedStates
    BY <2>1, <2>2 DEF ComparedStates
  <2>4. QED BY <2>3 DEF PartStep, m
<1>2. QED BY <1>1

PartEndRun(st0, s, run) ==
  /\ run \in [0 .. Len(s) -> ComparedStates] /\ run[0] = st0 /\ run[Len(s)] = PartEnd(st0, s)
  /\ \A k \in 1 .. Len(s) : run[k] = PartStep(run[k - 1], s[k])

LEMMA PartEndRuns ==
  ASSUME NEW s \in Seq(Seq(Int)), NEW st0 \in ComparedStates
  PROVE  \E run : PartEndRun(st0, s, run)
<1> DEFINE n == Len(s)
           St == ComparedStates
           base == st0
           step == [x \in St \X (1 .. n) |-> PartStep(x[1], s[x[2]])]
           Eq(f) == f = [T \in SUBSET DOMAIN s |->
                      IF T = {} THEN base ELSE PartStep(f[T \ {Max(T)}], s[Max(T)])]
           f == CHOOSE g : Eq(g)
<1>1. PartEnd(st0, s) = f[DOMAIN s]
  BY DEF PartEnd, FoldLeft, MapThenFoldSet
<1>2. n \in Nat /\ DOMAIN s = 1 .. n
  OBVIOUS
<1>3. base \in St /\ \A st \in St, c \in Seq(Int) : PartStep(st, c) \in St
  BY PartEndType
<1>4. base \in St
  BY <1>3
<1>5. step \in [St \X (1 .. n) -> St]
  <2>1. \A k \in 1 .. n : s[k] \in Seq(Int)
    OBVIOUS
  <2> HIDE DEF n, St, base
  <2>2. \A x \in St \X (1 .. n) : PartStep(x[1], s[x[2]]) \in St
    BY <1>3, <2>1
  <2>3. QED BY <2>2
<1>6. \A st \in St, k \in 1 .. n : step[<<st, k>>] = PartStep(st, s[k])
  OBVIOUS
<1> HIDE DEF n, St, base, step, f
<1>7. PICK g \in [SUBSET (1 .. n) -> St] : FoldOf(n, base, step, g)
  BY <1>2, <1>4, <1>5, FoldExists
<1>8. Eq(g)
  <2>1. ASSUME NEW T \in SUBSET (1 .. n), T # {}
        PROVE  step[<<g[T \ {Max(T)}], Max(T)>>] = PartStep(g[T \ {Max(T)}], s[Max(T)])
    <3>1. Max(T) \in 1 .. n
      BY <1>2, <2>1, MaxIs
    <3>2. g[T \ {Max(T)}] \in St
      OBVIOUS
    <3>3. QED BY <1>6, <3>1, <3>2
  <2>2. QED BY ONLY <1>2, <1>7, <2>1 DEF FoldOf
<1>9. Eq(f)
  BY <1>8 DEF f
<1>10. f[{}] = base
  BY <1>9
<1>11. ASSUME NEW k \in 1 .. n, f[1 .. (k - 1)] \in St
       PROVE  f[1 .. k] = step[<<f[1 .. (k - 1)], k>>]
  <2>1. 1 .. k \in SUBSET DOMAIN s /\ 1 .. k # {} /\ k \in Nat \ {0}
    BY <1>2, UpTo
  <2>2. f[1 .. k] = PartStep(f[(1 .. k) \ {Max(1 .. k)}], s[Max(1 .. k)])
    BY <1>9, <2>1
  <2>3. Max(1 .. k) = k /\ (1 .. k) \ {Max(1 .. k)} = 1 .. (k - 1)
    BY <2>1, LessTheLast
  <2>4. f[1 .. k] = PartStep(f[1 .. (k - 1)], s[k])
    BY ONLY <2>2, <2>3
  <2>5. QED BY ONLY <1>6, <1>11, <2>4
<1>12. PICK run \in [0 .. n -> St] : RunOf(n, base, step, f[1 .. n], run)
  BY <1>2, <1>4, <1>5, <1>10, <1>11, FoldRuns
<1>13. \A k \in 1 .. n : run[k] = PartStep(run[k - 1], s[k])
  <2>1. \A k \in 1 .. n : run[k - 1] \in St
    BY <1>2
  <2>2. QED BY <1>6, <1>12, <2>1 DEF RunOf
<1>14. PartEndRun(st0, s, run)
  BY <1>1, <1>2, <1>12, <1>13 DEF n, St, base, RunOf, PartEndRun
<1>15. QED BY <1>14

LEMMA PartEndAppend ==
  ASSUME NEW s \in Seq(Seq(Int)), NEW c \in Seq(Int), NEW st0 \in ComparedStates
  PROVE  /\ PartEnd(st0, s) \in ComparedStates
         /\ PartEnd(st0, Append(s, c)) = PartStep(PartEnd(st0, s), c)
<1> DEFINE t == Append(s, c)
           n == Len(s)
<1>1. /\ t \in Seq(Seq(Int)) /\ Len(t) = n + 1 /\ n \in Nat /\ t[n + 1] = c
      /\ \A k \in 1 .. n : t[k] = s[k]
  OBVIOUS
<1>2. n + 1 \in 1 .. n + 1 /\ (n + 1) - 1 = n
  OBVIOUS
<1>3. PICK r : PartEndRun(st0, s, r)
  BY PartEndRuns
<1>4. /\ r \in [0 .. n -> ComparedStates] /\ r[0] = st0 /\ r[n] = PartEnd(st0, s)
      /\ \A k \in 1 .. n : r[k] = PartStep(r[k - 1], s[k])
  BY <1>3 DEF PartEndRun
<1> HIDE DEF t, n
<1>5. PICK q : PartEndRun(st0, t, q)
  BY <1>1, PartEndRuns
<1>6. /\ q \in [0 .. Len(t) -> ComparedStates] /\ q[0] = st0 /\ q[Len(t)] = PartEnd(st0, t)
      /\ \A k \in 1 .. Len(t) : q[k] = PartStep(q[k - 1], t[k])
  BY <1>5 DEF PartEndRun
<1>7. r[n] = q[n]
  <2>1. \A k \in 1 .. n : k \in 1 .. Len(t)
    BY <1>1
  <2>2. \A k \in 1 .. n : r[k - 1] = q[k - 1] => r[k] = q[k]
    BY ONLY <1>1, <1>4, <1>6, <2>1
  <2>3. r[0] = q[0] /\ n \in Nat
    BY <1>1, <1>4, <1>6
  <2>4. QED BY ONLY <2>2, <2>3, SameRuns
<1>8. q[n + 1] = PartStep(q[n], c)
  <2>1. n + 1 \in 1 .. Len(t)
    BY <1>1, <1>2
  <2>2. QED BY ONLY <1>1, <1>2, <1>6, <2>1
<1>9. PartEnd(st0, s) \in ComparedStates
  BY <1>1, <1>4
<1>10. PartEnd(st0, t) = PartStep(PartEnd(st0, s), c)
  BY <1>1, <1>4, <1>6, <1>7, <1>8
<1>11. QED BY <1>9, <1>10 DEF t

LEMMA PartEndEmpty ==
  ASSUME NEW st0 \in ComparedStates
  PROVE  PartEnd(st0, <<>>) = st0
<1>1. <<>> \in Seq(Seq(Int)) /\ Len(<<>>) = 0
  OBVIOUS
<1>2. PICK run : PartEndRun(st0, <<>>, run)
  BY <1>1, PartEndRuns
<1>3. run[0] = st0 /\ run[Len(<<>>)] = PartEnd(st0, <<>>)
  BY <1>2 DEF PartEndRun
<1>4. QED BY <1>1, <1>3

LEMMA ComparedEndType ==
  ASSUME NEW name \in Seq(Int)
  PROVE  /\ ComparedStart(name) \in ComparedStates
         /\ \A st \in ComparedStates, l \in Seq(Int) : ComparedStep(st, l) \in ComparedStates
<1>1. ComparedStart(name) \in ComparedStates
  BY DEF ComparedStart, ComparedStates
<1>2. ASSUME NEW st \in ComparedStates, NEW l \in Seq(Int) PROVE ComparedStep(st, l) \in ComparedStates
  <2>1. Pieces(l, HeaderSize) \in Seq(Seq(Int)) /\ <<>> \in Seq(Int)
    BY PiecesAre DEF HeaderSize, BufSize
  <2>2. QED BY <2>1, PartEndAppend DEF ComparedStep
<1>3. QED BY <1>1, <1>2

ComparedEndRun(name, s, run) ==
  /\ run \in [0 .. Len(s) -> ComparedStates] /\ run[0] = ComparedStart(name) /\ run[Len(s)] = ComparedEnd(name, s)
  /\ \A k \in 1 .. Len(s) : run[k] = ComparedStep(run[k - 1], s[k])

LEMMA ComparedEndRuns ==
  ASSUME NEW s \in Seq(Seq(Int)), NEW name \in Seq(Int)
  PROVE  \E run : ComparedEndRun(name, s, run)
<1> DEFINE n == Len(s)
           St == ComparedStates
           base == ComparedStart(name)
           step == [x \in St \X (1 .. n) |-> ComparedStep(x[1], s[x[2]])]
           Eq(f) == f = [T \in SUBSET DOMAIN s |->
                      IF T = {} THEN base ELSE ComparedStep(f[T \ {Max(T)}], s[Max(T)])]
           f == CHOOSE g : Eq(g)
<1>1. ComparedEnd(name, s) = f[DOMAIN s]
  BY DEF ComparedEnd, FoldLeft, MapThenFoldSet
<1>2. n \in Nat /\ DOMAIN s = 1 .. n
  OBVIOUS
<1>3. base \in St /\ \A st \in St, c \in Seq(Int) : ComparedStep(st, c) \in St
  BY ComparedEndType
<1>4. base \in St
  BY <1>3
<1>5. step \in [St \X (1 .. n) -> St]
  <2>1. \A k \in 1 .. n : s[k] \in Seq(Int)
    OBVIOUS
  <2> HIDE DEF n, St, base
  <2>2. \A x \in St \X (1 .. n) : ComparedStep(x[1], s[x[2]]) \in St
    BY <1>3, <2>1
  <2>3. QED BY <2>2
<1>6. \A st \in St, k \in 1 .. n : step[<<st, k>>] = ComparedStep(st, s[k])
  OBVIOUS
<1> HIDE DEF n, St, base, step, f
<1>7. PICK g \in [SUBSET (1 .. n) -> St] : FoldOf(n, base, step, g)
  BY <1>2, <1>4, <1>5, FoldExists
<1>8. Eq(g)
  <2>1. ASSUME NEW T \in SUBSET (1 .. n), T # {}
        PROVE  step[<<g[T \ {Max(T)}], Max(T)>>] = ComparedStep(g[T \ {Max(T)}], s[Max(T)])
    <3>1. Max(T) \in 1 .. n
      BY <1>2, <2>1, MaxIs
    <3>2. g[T \ {Max(T)}] \in St
      OBVIOUS
    <3>3. QED BY <1>6, <3>1, <3>2
  <2>2. QED BY ONLY <1>2, <1>7, <2>1 DEF FoldOf
<1>9. Eq(f)
  BY <1>8 DEF f
<1>10. f[{}] = base
  BY <1>9
<1>11. ASSUME NEW k \in 1 .. n, f[1 .. (k - 1)] \in St
       PROVE  f[1 .. k] = step[<<f[1 .. (k - 1)], k>>]
  <2>1. 1 .. k \in SUBSET DOMAIN s /\ 1 .. k # {} /\ k \in Nat \ {0}
    BY <1>2, UpTo
  <2>2. f[1 .. k] = ComparedStep(f[(1 .. k) \ {Max(1 .. k)}], s[Max(1 .. k)])
    BY <1>9, <2>1
  <2>3. Max(1 .. k) = k /\ (1 .. k) \ {Max(1 .. k)} = 1 .. (k - 1)
    BY <2>1, LessTheLast
  <2>4. f[1 .. k] = ComparedStep(f[1 .. (k - 1)], s[k])
    BY ONLY <2>2, <2>3
  <2>5. QED BY ONLY <1>6, <1>11, <2>4
<1>12. PICK run \in [0 .. n -> St] : RunOf(n, base, step, f[1 .. n], run)
  BY <1>2, <1>4, <1>5, <1>10, <1>11, FoldRuns
<1>13. \A k \in 1 .. n : run[k] = ComparedStep(run[k - 1], s[k])
  <2>1. \A k \in 1 .. n : run[k - 1] \in St
    BY <1>2
  <2>2. QED BY <1>6, <1>12, <2>1 DEF RunOf
<1>14. ComparedEndRun(name, s, run)
  BY <1>1, <1>2, <1>12, <1>13 DEF n, St, base, RunOf, ComparedEndRun
<1>15. QED BY <1>14

LEMMA ComparedEndAppend ==
  ASSUME NEW s \in Seq(Seq(Int)), NEW c \in Seq(Int), NEW name \in Seq(Int)
  PROVE  /\ ComparedEnd(name, s) \in ComparedStates
         /\ ComparedEnd(name, Append(s, c)) = ComparedStep(ComparedEnd(name, s), c)
<1> DEFINE t == Append(s, c)
           n == Len(s)
<1>1. /\ t \in Seq(Seq(Int)) /\ Len(t) = n + 1 /\ n \in Nat /\ t[n + 1] = c
      /\ \A k \in 1 .. n : t[k] = s[k]
  OBVIOUS
<1>2. n + 1 \in 1 .. n + 1 /\ (n + 1) - 1 = n
  OBVIOUS
<1>3. PICK r : ComparedEndRun(name, s, r)
  BY ComparedEndRuns
<1>4. /\ r \in [0 .. n -> ComparedStates] /\ r[0] = ComparedStart(name) /\ r[n] = ComparedEnd(name, s)
      /\ \A k \in 1 .. n : r[k] = ComparedStep(r[k - 1], s[k])
  BY <1>3 DEF ComparedEndRun
<1> HIDE DEF t, n
<1>5. PICK q : ComparedEndRun(name, t, q)
  BY <1>1, ComparedEndRuns
<1>6. /\ q \in [0 .. Len(t) -> ComparedStates] /\ q[0] = ComparedStart(name) /\ q[Len(t)] = ComparedEnd(name, t)
      /\ \A k \in 1 .. Len(t) : q[k] = ComparedStep(q[k - 1], t[k])
  BY <1>5 DEF ComparedEndRun
<1>7. r[n] = q[n]
  <2>1. \A k \in 1 .. n : k \in 1 .. Len(t)
    BY <1>1
  <2>2. \A k \in 1 .. n : r[k - 1] = q[k - 1] => r[k] = q[k]
    BY ONLY <1>1, <1>4, <1>6, <2>1
  <2>3. r[0] = q[0] /\ n \in Nat
    BY <1>1, <1>4, <1>6
  <2>4. QED BY ONLY <2>2, <2>3, SameRuns
<1>8. q[n + 1] = ComparedStep(q[n], c)
  <2>1. n + 1 \in 1 .. Len(t)
    BY <1>1, <1>2
  <2>2. QED BY ONLY <1>1, <1>2, <1>6, <2>1
<1>9. ComparedEnd(name, s) \in ComparedStates
  BY <1>1, <1>4
<1>10. ComparedEnd(name, t) = ComparedStep(ComparedEnd(name, s), c)
  BY <1>1, <1>4, <1>6, <1>7, <1>8
<1>11. QED BY <1>9, <1>10 DEF t

LEMMA ComparedEndEmpty ==
  ASSUME NEW name \in Seq(Int)
  PROVE  ComparedEnd(name, <<>>) = ComparedStart(name)
<1>1. <<>> \in Seq(Seq(Int)) /\ Len(<<>>) = 0
  OBVIOUS
<1>2. PICK run : ComparedEndRun(name, <<>>, run)
  BY <1>1, ComparedEndRuns
<1>3. run[0] = ComparedStart(name) /\ run[Len(<<>>)] = ComparedEnd(name, <<>>)
  BY <1>2 DEF ComparedEndRun
<1>4. QED BY <1>1, <1>3

LEMMA SamePart ==
  ASSUME NEW st \in ComparedStates, NEW m \in MatchStates, SameMatch(st, m), NEW p \in Seq(Int)
  PROVE  SameMatch(PartStep(st, p), PieceStep(m, p))
<1>1. st.ok = m.ok /\ st.rest = m.rest
  BY DEF SameMatch
<1>2. CASE m.ok = 0
  <2>1. PartStep(st, p) = st /\ PieceStep(m, p) = m
    BY <1>1, <1>2 DEF PartStep, PieceStep
  <2>2. QED BY <1>1, <2>1 DEF SameMatch
<1>3. CASE m.ok # 0
  <2> DEFINE r == matchStringPart(m.rest, p)
  <2>1. PieceStep(m, p) = r
    BY <1>3 DEF PieceStep
  <2>2. PartStep(st, p) = [ok |-> r.ok, rest |-> r.rest, part |-> IF r.ok = 1 THEN 1 ELSE st.part]
    BY <1>1, <1>3 DEF PartStep
  <2> HIDE DEF r
  <2>3. QED BY <2>1, <2>2 DEF SameMatch
<1>4. QED BY <1>2, <1>3

LEMMA SameParts ==
  ASSUME NEW st \in ComparedStates, NEW m \in MatchStates, SameMatch(st, m), NEW ps \in Seq(Seq(Int))
  PROVE  SameMatch(PartEnd(st, ps), PieceEnd(m, ps))
<1> DEFINE G == {q \in Seq(Seq(Int)) : SameMatch(PartEnd(st, q), PieceEnd(m, q))}
<1>1. <<>> \in G
  <2>1. PartEnd(st, <<>>) = st /\ PieceEnd(m, <<>>) = m /\ <<>> \in Seq(Seq(Int))
    BY PartEndEmpty, PieceEndEmpty
  <2>2. QED BY <2>1
<1>2. ASSUME NEW q \in Seq(Seq(Int)), NEW p \in Seq(Int), q \in G PROVE Append(q, p) \in G
  <2>1. PartEnd(st, q) \in ComparedStates /\ PartEnd(st, Append(q, p)) = PartStep(PartEnd(st, q), p)
    BY PartEndAppend
  <2>2. PieceEnd(m, q) \in MatchStates /\ PieceEnd(m, Append(q, p)) = PieceStep(PieceEnd(m, q), p)
    BY PieceEndAppend
  <2>3. SameMatch(PartEnd(st, q), PieceEnd(m, q)) /\ Append(q, p) \in Seq(Seq(Int))
    BY <1>2
  <2>4. SameMatch(PartStep(PartEnd(st, q), p), PieceStep(PieceEnd(m, q), p))
    BY <2>1, <2>2, <2>3, SamePart
  <2>5. QED BY <2>1, <2>2, <2>3, <2>4
<1>3. ps \in G
  <2>1. \A q \in Seq(Seq(Int)), p \in Seq(Int) : q \in G => Append(q, p) \in G
    BY <1>2
  <2> HIDE DEF G
  <2>2. QED BY <1>1, <2>1, SequencesGrow
<1>4. QED BY <1>3

LEMMA SameLabels ==
  ASSUME NEW name \in Seq(Int), NEW L \in Seq(Seq(Int))
  PROVE  SameMatch(ComparedEnd(name, L), MatchEnd(name, L))
<1> DEFINE G == {q \in Seq(Seq(Int)) : SameMatch(ComparedEnd(name, q), MatchEnd(name, q))}
<1>1. <<>> \in G
  <2>1. ComparedEnd(name, <<>>) = ComparedStart(name) /\ MatchEnd(name, <<>>) = MatchStart(name)
        /\ <<>> \in Seq(Seq(Int))
    BY ComparedEndEmpty, MatchEndEmpty
  <2>2. SameMatch(ComparedStart(name), MatchStart(name))
    BY DEF SameMatch, ComparedStart, MatchStart
  <2>3. QED BY <2>1, <2>2
<1>2. ASSUME NEW q \in Seq(Seq(Int)), NEW l \in Seq(Int), q \in G PROVE Append(q, l) \in G
  <2> DEFINE st == ComparedEnd(name, q)
             m == MatchEnd(name, q)
  <2>1. st \in ComparedStates /\ ComparedEnd(name, Append(q, l)) = ComparedStep(st, l)
    BY ComparedEndAppend
  <2>2. m \in MatchStates /\ MatchEnd(name, Append(q, l)) = MatchStep(m, l)
    BY MatchEndAppend
  <2>3. SameMatch(st, m) /\ Append(q, l) \in Seq(Seq(Int))
    BY <1>2
  <2> HIDE DEF st, m
  <2>4. Pieces(l, HeaderSize) = Pieces(l, BufSize) /\ Pieces(l, BufSize) \in Seq(Seq(Int))
    BY PiecesAre DEF HeaderSize, BufSize
  <2>5. SameMatch(ComparedStep(st, l), MatchStep(m, l))
    BY <2>1, <2>2, <2>3, <2>4, SameParts DEF ComparedStep, MatchStep
  <2>6. QED BY <2>1, <2>2, <2>3, <2>5
<1>3. L \in G
  <2>1. \A q \in Seq(Seq(Int)), l \in Seq(Int) : q \in G => Append(q, l) \in G
    BY <1>2
  <2> HIDE DEF G
  <2>2. QED BY <1>1, <2>1, SequencesGrow
<1>4. QED BY <1>3

\* What is left of the name when its labels have been compared: as for a question.
LEMMA ComparedMatches ==
  ASSUME NEW name \in Seq(Int), NEW L \in Seq(Seq(Int))
  PROVE  (Compared(name, L).ok = 1 /\ Compared(name, L).rest = <<>>) <=> nameMatches(name, L, BufSize)
BY ComparedIs, SameLabels, MatchesAre DEF SameMatch

LEMMA ComparedNothing ==
  ASSUME NEW name \in Seq(Int)
  PROVE  Compared(name, <<>>).ok = 1 /\ Compared(name, <<>>).rest = name
BY ComparedIs, ComparedEndEmpty DEF ComparedStart

\* A label has a part that matches when its first piece does.
LEMMA ComparedFirst ==
  ASSUME NEW name \in Seq(Int), NEW l, IsLabel(l)
  PROVE  Compared(name, <<l>>).part = 1 <=> IsPrefix(Pieces(l, BufSize)[1], name)
<1> DEFINE P == Pieces(l, HeaderSize)
           start == ComparedStart(name)
           n == Len(P)
<1>1. l \in Seq(Int) /\ P \in Seq(Seq(Int)) /\ P # <<>> /\ P = Pieces(l, BufSize)
  <2>1. l \in Seq(Int) /\ P = Pieces(l, BufSize)
    BY DEF IsLabel, HeaderSize, BufSize
  <2>2. IsName(Pieces(l, BufSize))
    BY <2>1, PiecesAre
  <2>3. QED BY <2>1, <2>2 DEF IsName
<1>2. Compared(name, <<l>>) = PartEnd(start, P)
  <2>1. <<>> \in Seq(Seq(Int)) /\ Append(<<>>, l) = <<l>>
    BY <1>1, NameOfOne
  <2>2. ComparedEnd(name, Append(<<>>, l)) = ComparedStep(ComparedEnd(name, <<>>), l)
        /\ ComparedEnd(name, <<>>) = start
    BY <1>1, <2>1, ComparedEndAppend, ComparedEndEmpty
  <2>3. QED BY <2>1, <2>2, ComparedIs DEF ComparedStep
<1>3. start \in ComparedStates /\ start.ok = 1 /\ start.part = 0 /\ start.rest = name
  BY ComparedEndType DEF ComparedStart
<1> HIDE DEF P, start
<1>4. PICK run : PartEndRun(start, P, run)
  BY <1>1, <1>3, PartEndRuns
<1>5. /\ run[0] = start /\ run[n] = PartEnd(start, P)
      /\ \A k \in 1 .. n : run[k] = PartStep(run[k - 1], P[k])
  BY <1>4 DEF PartEndRun
<1>6. n \in Nat /\ n >= 1 /\ P[1] \in Seq(Int)
  BY <1>1
<1> HIDE DEF n
<1> DEFINE Right(st) == IF IsPrefix(P[1], name) THEN st.part = 1 ELSE st.ok = 0 /\ st.part = 0
           G == {k \in 0 .. n : k = 0 \/ Right(run[k])}
<1>7. \A st, q : Right(st) => Right(PartStep(st, q))
  <2>1. SUFFICES ASSUME NEW st, NEW q, Right(st) PROVE Right(PartStep(st, q))
    OBVIOUS
  <2> DEFINE m == matchStringPart(st.rest, q)
             e == [ok |-> m.ok, rest |-> m.rest, part |-> IF m.ok = 1 THEN 1 ELSE st.part]
  <2>2. PartStep(st, q) = IF st.ok = 0 THEN st ELSE e
    BY DEF PartStep
  <2>3. e.part = IF m.ok = 1 THEN 1 ELSE st.part
    OBVIOUS
  <2> HIDE DEF e, m
  <2>4. QED BY <2>1, <2>2, <2>3
<1>8. Right(PartStep(start, P[1]))
  <2> DEFINE m == matchStringPart(name, P[1])
             e == [ok |-> m.ok, rest |-> m.rest, part |-> IF m.ok = 1 THEN 1 ELSE 0]
  <2>1. PartStep(start, P[1]) = e
    BY <1>3 DEF PartStep
  <2>2. e.ok = m.ok /\ e.part = IF m.ok = 1 THEN 1 ELSE 0
    OBVIOUS
  <2>3. m.ok = IF IsPrefix(P[1], name) THEN 1 ELSE 0
    BY DEF matchStringPart
  <2> HIDE DEF e, m
  <2>4. QED BY <2>1, <2>2, <2>3
<1> HIDE DEF Right
<1>9. ASSUME NEW k \in 0 .. n - 1, k \in G PROVE k + 1 \in G
  <2>1. k + 1 \in 1 .. n /\ (k + 1) - 1 = k /\ k + 1 \in 0 .. n
    BY <1>6
  <2>2. run[k + 1] = PartStep(run[k], P[k + 1])
    BY ONLY <1>5, <2>1
  <2>3. CASE k = 0
    <3>1. run[0 + 1] = PartStep(start, P[0 + 1]) /\ 0 + 1 = 1
      BY <1>5, <2>2, <2>3
    <3>2. QED BY <1>8, <2>1, <2>3, <3>1
  <2>4. CASE k # 0
    BY <1>7, <1>9, <2>1, <2>2, <2>4
  <2>5. QED BY <2>3, <2>4
<1>10. n \in G
  <2>1. \A k \in 0 .. n - 1 : k \in G => k + 1 \in G
    BY <1>9
  <2>2. n \in 0 .. n /\ 0 \in G
    BY <1>6
  <2> HIDE DEF G
  <2>3. QED BY <1>6, <2>1, <2>2, Positions
<1>11. Right(run[n])
  BY <1>6, <1>10
<1>12. QED BY <1>1, <1>2, <1>5, <1>11 DEF Right

-----------------------------------------------------------------------------
(* A response, one answer after the other. *)

\* One record of a response, by a program that looks for a host and for no service.
AnswerStates(packet) ==
  [found : SUBSET {1}, pos : [1 .. 2 -> Nat], slots : {<<>>}, ips : {<<>>}, over : {TRUE, FALSE},
   address : {None} \cup {packet.records[i].data : i \in DOMAIN packet.records}]
AnswerStart ==
  [found |-> {}, pos |-> <<0, 0>>, address |-> None, slots |-> <<>>, ips |-> <<>>, over |-> FALSE]
\* A record that is taken for an answer about name.
TakenFor(st, name, rec) ==
  /\ rec.type = "A" /\ st.address = None /\ name # None
  /\ Guess(IF 1 \notin st.found THEN Compared(name, rec.labels)
           ELSE [ok |-> 1, rest |-> name, part |-> IF rec.labels = <<>> THEN 0 ELSE 1],
           rec, st.pos[1])

LEMMA AnswerIs ==
  ASSUME NEW packet, NEW st \in AnswerStates(packet), NEW name, NEW names, names[1] = name,
         names[2] = None, NEW i \in DOMAIN packet.records \cap Nat
  PROVE  LET rec == packet.records[i]
             e == Answer(st, names, i, rec)
         IN  /\ e \in AnswerStates(packet)
             /\ e.found = IF TakenFor(st, name, rec) THEN {1} ELSE st.found
             /\ e.pos[1] = IF st.pos[1] = 0 THEN i ELSE st.pos[1]
             /\ e.address = IF TakenFor(st, name, rec) THEN rec.data ELSE st.address
             /\ e.over = st.over
<1> DEFINE rec == packet.records[i]
           other == IF st.address # None THEN None ELSE names[1]
           byName == rec.type = "A" /\ Hits(st, other, 1, rec)
           byService == rec.type = "PTR" /\ Hits(st, names[2], 2, rec)
           pos == [j \in 1 .. 2 |-> IF st.pos[j] # 0 THEN st.pos[j]
                                   ELSE IF j = 2 /\ byName THEN PastName(i) ELSE NameAt(i)]
           P == [1 .. 2 -> Nat]
           found == (st.found \cup (IF byName THEN {1} ELSE {})) \cup (IF byService THEN {2} ELSE {})
           address == IF byName THEN rec.data ELSE st.address
           slots == IF byService /\ Len(st.slots) < MaxServices
                    THEN Append(st.slots, Found(i, rec)) ELSE st.slots
           F == SUBSET {1}
           A == {None} \cup {packet.records[k].data : k \in DOMAIN packet.records}
<1>1. /\ st.slots = <<>> /\ st.pos \in P /\ st.found \in F /\ st.address \in A
      /\ st \in [found : F, pos : P, slots : {<<>>}, ips : {<<>>}, over : {TRUE, FALSE}, address : A]
  BY DEF AnswerStates
<1>2. ~byService
  BY DEF Hits
<1>3. byName <=> TakenFor(st, name, rec)
  BY DEF Hits, TakenFor
<1>4. Answer(st, names, i, rec) =
        [st EXCEPT !.pos = pos, !.found = found, !.address = address, !.slots = slots]
  BY DEF Answer
<1>5. slots = <<>> /\ pos \in P /\ pos[1] = IF st.pos[1] = 0 THEN i ELSE st.pos[1]
  <2>1. slots = <<>>
    BY <1>1, <1>2
  <2>2. \A j \in 1 .. 2 : st.pos[j] \in Nat
    BY <1>1
  <2>3. NameAt(i) = i /\ NameAt(i) \in Nat /\ PastName(i) \in Nat
    BY DEF NameAt, PastName
  <2> HIDE DEF byName, slots
  <2>4. pos \in P
    BY <2>2, <2>3
  <2>5. pos[1] = IF st.pos[1] = 0 THEN i ELSE st.pos[1]
    BY <2>3
  <2>6. QED BY <2>1, <2>4, <2>5
<1>6. found = (IF TakenFor(st, name, rec) THEN {1} ELSE st.found) /\ found \in F
  BY <1>1, <1>2, <1>3
<1>7. address = (IF TakenFor(st, name, rec) THEN rec.data ELSE st.address) /\ address \in A
  BY <1>1, <1>3
<1> HIDE DEF found, address, slots, pos, F, A, P
<1>8. LET e == [st EXCEPT !.pos = pos, !.found = found, !.address = address, !.slots = slots]
      IN  /\ e \in [found : F, pos : P, slots : {<<>>}, ips : {<<>>}, over : {TRUE, FALSE}, address : A]
          /\ e.found = found /\ e.pos = pos /\ e.address = address /\ e.over = st.over
  BY ONLY <1>1, <1>5, <1>6, <1>7
<1>9. QED BY <1>4, <1>5, <1>6, <1>7, <1>8 DEF AnswerStates, F, A, P

\* The records of a response, one after the other.
OnlyName(names, packet) ==
  /\ names[2] = None /\ DOMAIN packet.records \subseteq Nat
  /\ packet.q \in Nat /\ packet.a \in Nat
RecordsEnd(names, packet, s) ==
  FoldLeft(LAMBDA st, i : readRecord(st, names, packet, i), AnswerStart, s)

LEMMA RecordsAre ==
  ASSUME NEW names, NEW packet
  PROVE  readRecords(names, packet) = RecordsEnd(names, packet, [i \in DOMAIN packet.records |-> i])
BY DEF readRecords, RecordsEnd, AnswerStart

\* Answers are looked at, what is in front of them is passed over, and the records behind
\* them end the loop.
LEMMA RecordIs ==
  ASSUME NEW names, NEW packet, OnlyName(names, packet), NEW st \in AnswerStates(packet),
         NEW i \in DOMAIN packet.records
  PROVE  LET e == readRecord(st, names, packet, i) IN
         /\ e \in AnswerStates(packet)
         /\ ~st.over /\ packet.q < i /\ i <= packet.q + packet.a => e = Answer(st, names, i, packet.records[i])
         /\ st.over \/ i <= packet.q \/ i > packet.q + packet.a => e.address = st.address
<1> DEFINE e == readRecord(st, names, packet, i)
           rec == packet.records[i]
           behind == [st EXCEPT !.over = TRUE]
<1>1. i \in Nat /\ packet.q \in Nat /\ packet.a \in Nat /\ i \in DOMAIN packet.records \cap Nat
      /\ names[2] = None
  BY DEF OnlyName
<1>2. Answer(st, names, i, rec) \in AnswerStates(packet)
  <2>1. PICK name : names[1] = name
    OBVIOUS
  <2>2. QED BY <1>1, <2>1, AnswerIs
<1>3. behind \in AnswerStates(packet) /\ behind.address = st.address /\ st.slots = <<>>
  BY DEF AnswerStates
<1> HIDE DEF behind
<1>4. e = IF st.over \/ i <= packet.q THEN st
          ELSE IF i <= packet.q + packet.a THEN Answer(st, names, i, rec) ELSE behind
  BY <1>3 DEF readRecord, behind
<1> HIDE DEF e
<1>5. CASE st.over \/ i <= packet.q
  <2>1. e = st
    BY <1>4, <1>5
  <2>2. QED BY <1>1, <1>5, <2>1 DEF e
<1>6. CASE ~st.over /\ ~(i <= packet.q) /\ i <= packet.q + packet.a
  <2>1. e = Answer(st, names, i, rec)
    BY <1>4, <1>6
  <2>2. QED BY <1>1, <1>2, <1>6, <2>1 DEF e
<1>7. CASE ~st.over /\ ~(i <= packet.q) /\ ~(i <= packet.q + packet.a)
  <2>1. e = behind
    BY <1>4, <1>7
  <2>2. QED BY <1>1, <1>3, <1>7, <2>1 DEF e
<1>8. QED BY <1>5, <1>6, <1>7

LEMMA RecordsEndType ==
  ASSUME NEW names, NEW packet, OnlyName(names, packet)
  PROVE  /\ AnswerStart \in AnswerStates(packet)
         /\ \A st \in AnswerStates(packet), i \in DOMAIN packet.records :
              readRecord(st, names, packet, i) \in AnswerStates(packet)
<1>1. AnswerStart \in AnswerStates(packet)
  BY DEF AnswerStart, AnswerStates
<1>2. QED BY <1>1, RecordIs

RecordsEndRun(names, packet, s, run) ==
  /\ run \in [0 .. Len(s) -> AnswerStates(packet)] /\ run[0] = AnswerStart /\ run[Len(s)] = RecordsEnd(names, packet, s)
  /\ \A k \in 1 .. Len(s) : run[k] = readRecord(run[k - 1], names, packet, s[k])

LEMMA RecordsEndRuns ==
  ASSUME NEW names, NEW packet, OnlyName(names, packet), NEW s \in Seq(DOMAIN packet.records)
  PROVE  \E run : RecordsEndRun(names, packet, s, run)
<1> DEFINE n == Len(s)
           St == AnswerStates(packet)
           base == AnswerStart
           step == [x \in St \X (1 .. n) |-> readRecord(x[1], names, packet, s[x[2]])]
           Eq(f) == f = [T \in SUBSET DOMAIN s |->
                      IF T = {} THEN base ELSE readRecord(f[T \ {Max(T)}], names, packet, s[Max(T)])]
           f == CHOOSE g : Eq(g)
<1>1. RecordsEnd(names, packet, s) = f[DOMAIN s]
  BY DEF RecordsEnd, FoldLeft, MapThenFoldSet
<1>2. n \in Nat /\ DOMAIN s = 1 .. n
  OBVIOUS
<1>3. base \in St /\ \A st \in St, c \in DOMAIN packet.records : readRecord(st, names, packet, c) \in St
  BY RecordsEndType
<1>4. base \in St
  BY <1>3
<1>5. step \in [St \X (1 .. n) -> St]
  <2>1. \A k \in 1 .. n : s[k] \in DOMAIN packet.records
    OBVIOUS
  <2> HIDE DEF n, St, base
  <2>2. \A x \in St \X (1 .. n) : readRecord(x[1], names, packet, s[x[2]]) \in St
    BY <1>3, <2>1
  <2>3. QED BY <2>2
<1>6. \A st \in St, k \in 1 .. n : step[<<st, k>>] = readRecord(st, names, packet, s[k])
  OBVIOUS
<1> HIDE DEF n, St, base, step, f
<1>7. PICK g \in [SUBSET (1 .. n) -> St] : FoldOf(n, base, step, g)
  BY <1>2, <1>4, <1>5, FoldExists
<1>8. Eq(g)
  <2>1. ASSUME NEW T \in SUBSET (1 .. n), T # {}
        PROVE  step[<<g[T \ {Max(T)}], Max(T)>>] = readRecord(g[T \ {Max(T)}], names, packet, s[Max(T)])
    <3>1. Max(T) \in 1 .. n
      BY <1>2, <2>1, MaxIs
    <3>2. g[T \ {Max(T)}] \in St
      OBVIOUS
    <3>3. QED BY <1>6, <3>1, <3>2
  <2>2. QED BY ONLY <1>2, <1>7, <2>1 DEF FoldOf
<1>9. Eq(f)
  BY <1>8 DEF f
<1>10. f[{}] = base
  BY <1>9
<1>11. ASSUME NEW k \in 1 .. n, f[1 .. (k - 1)] \in St
       PROVE  f[1 .. k] = step[<<f[1 .. (k - 1)], k>>]
  <2>1. 1 .. k \in SUBSET DOMAIN s /\ 1 .. k # {} /\ k \in Nat \ {0}
    BY <1>2, UpTo
  <2>2. f[1 .. k] = readRecord(f[(1 .. k) \ {Max(1 .. k)}], names, packet, s[Max(1 .. k)])
    BY <1>9, <2>1
  <2>3. Max(1 .. k) = k /\ (1 .. k) \ {Max(1 .. k)} = 1 .. (k - 1)
    BY <2>1, LessTheLast
  <2>4. f[1 .. k] = readRecord(f[1 .. (k - 1)], names, packet, s[k])
    BY ONLY <2>2, <2>3
  <2>5. QED BY ONLY <1>6, <1>11, <2>4
<1>12. PICK run \in [0 .. n -> St] : RunOf(n, base, step, f[1 .. n], run)
  BY <1>2, <1>4, <1>5, <1>10, <1>11, FoldRuns
<1>13. \A k \in 1 .. n : run[k] = readRecord(run[k - 1], names, packet, s[k])
  <2>1. \A k \in 1 .. n : run[k - 1] \in St
    BY <1>2
  <2>2. QED BY <1>6, <1>12, <2>1 DEF RunOf
<1>14. RecordsEndRun(names, packet, s, run)
  BY <1>1, <1>2, <1>12, <1>13 DEF n, St, base, RunOf, RecordsEndRun
<1>15. QED BY <1>14

LEMMA RecordsEndAppend ==
  ASSUME NEW names, NEW packet, OnlyName(names, packet), NEW s \in Seq(DOMAIN packet.records),
         NEW c \in DOMAIN packet.records
  PROVE  /\ RecordsEnd(names, packet, s) \in AnswerStates(packet)
         /\ RecordsEnd(names, packet, Append(s, c)) = readRecord(RecordsEnd(names, packet, s), names, packet, c)
<1> DEFINE t == Append(s, c)
           n == Len(s)
<1>1. /\ t \in Seq(DOMAIN packet.records) /\ Len(t) = n + 1 /\ n \in Nat /\ t[n + 1] = c
      /\ \A k \in 1 .. n : t[k] = s[k]
  OBVIOUS
<1>2. n + 1 \in 1 .. n + 1 /\ (n + 1) - 1 = n
  OBVIOUS
<1>3. PICK r : RecordsEndRun(names, packet, s, r)
  BY RecordsEndRuns
<1>4. /\ r \in [0 .. n -> AnswerStates(packet)] /\ r[0] = AnswerStart /\ r[n] = RecordsEnd(names, packet, s)
      /\ \A k \in 1 .. n : r[k] = readRecord(r[k - 1], names, packet, s[k])
  BY <1>3 DEF RecordsEndRun
<1> HIDE DEF t, n
<1>5. PICK q : RecordsEndRun(names, packet, t, q)
  BY <1>1, RecordsEndRuns
<1>6. /\ q \in [0 .. Len(t) -> AnswerStates(packet)] /\ q[0] = AnswerStart /\ q[Len(t)] = RecordsEnd(names, packet, t)
      /\ \A k \in 1 .. Len(t) : q[k] = readRecord(q[k - 1], names, packet, t[k])
  BY <1>5 DEF RecordsEndRun
<1>7. r[n] = q[n]
  <2>1. \A k \in 1 .. n : k \in 1 .. Len(t)
    BY <1>1
  <2>2. \A k \in 1 .. n : r[k - 1] = q[k - 1] => r[k] = q[k]
    BY ONLY <1>1, <1>4, <1>6, <2>1
  <2>3. r[0] = q[0] /\ n \in Nat
    BY <1>1, <1>4, <1>6
  <2>4. QED BY ONLY <2>2, <2>3, SameRuns
<1>8. q[n + 1] = readRecord(q[n], names, packet, c)
  <2>1. n + 1 \in 1 .. Len(t)
    BY <1>1, <1>2
  <2>2. QED BY ONLY <1>1, <1>2, <1>6, <2>1
<1>9. RecordsEnd(names, packet, s) \in AnswerStates(packet)
  BY <1>1, <1>4
<1>10. RecordsEnd(names, packet, t) = readRecord(RecordsEnd(names, packet, s), names, packet, c)
  BY <1>1, <1>4, <1>6, <1>7, <1>8
<1>11. QED BY <1>9, <1>10 DEF t

LEMMA RecordsEndEmpty ==
  ASSUME NEW names, NEW packet, OnlyName(names, packet)
  PROVE  RecordsEnd(names, packet, <<>>) = AnswerStart
<1>1. <<>> \in Seq(DOMAIN packet.records) /\ Len(<<>>) = 0
  OBVIOUS
<1>2. PICK run : RecordsEndRun(names, packet, <<>>, run)
  BY <1>1, RecordsEndRuns
<1>3. run[0] = AnswerStart /\ run[Len(<<>>)] = RecordsEnd(names, packet, <<>>)
  BY <1>2 DEF RecordsEndRun
<1>4. QED BY <1>1, <1>3

-----------------------------------------------------------------------------
(* Hosts, and packets without an address among their answers. *)

\* Names of labels.
LEMMA DottedIs ==
  ASSUME NEW name, IsDotted(name)
  PROVE  /\ name # <<>> /\ name \in Seq(Int)
         /\ IsName(Labels(name)) /\ Joined(Labels(name)) = name
<1> DEFINE L == Labels(name)
<1>1. /\ name \in Seq(Int) /\ name = Joined(L) /\ L # <<>>
      /\ \A k \in DOMAIN L : /\ L[k] \in Seq(Int) /\ L[k] # <<>>
                             /\ \A i \in DOMAIN L[k] : L[k][i] # Dot
  BY DEF IsDotted
<1>2. LabelsEnd(name) \in LabelsStates /\ L = LabelsOf(LabelsEnd(name))
  BY <1>1, LabelsAre, LabelsEndAppend, 0 \in Int
<1>3. L \in Seq(Seq(Int))
  <2>1. \A st \in LabelsStates : st.labels \in Seq(Seq(Int)) /\ st.label \in Seq(Int)
    BY DEF LabelsStates
  <2>2. \A st \in LabelsStates : LabelsOf(st) \in Seq(Seq(Int))
    BY <2>1 DEF LabelsOf
  <2>3. QED BY <1>2, <2>2
<1>4. name # <<>>
  <2>1. LabelsOf(LabelsStart) = <<>>
    BY DEF LabelsOf, LabelsStart
  <2>2. Labels(<<>>) = <<>>
    BY <2>1, LabelsAre, LabelsEndEmpty
  <2>3. QED BY <1>1, <2>2
<1> HIDE DEF L
<1>5. IsName(L)
  <2>1. DOMAIN L = 1 .. Len(L)
    BY <1>3
  <2>2. ASSUME NEW k \in 1 .. Len(L) PROVE IsLabel(L[k])
    <3>1. L[k] \in Seq(Int) /\ L[k] # <<>> /\ \A i \in DOMAIN L[k] : L[k][i] # Dot
      BY <1>1, <2>1
    <3>2. DOMAIN L[k] = 1 .. Len(L[k])
      BY <3>1
    <3>3. QED BY <3>1, <3>2 DEF IsLabel
  <2>3. QED BY <1>1, <1>3, <2>2 DEF IsName
<1>6. QED BY <1>1, <1>4, <1>5 DEF L

\* Hosts and their names.
LEMMA HostIs ==
  ASSUME NEW h \in Hosts
  PROVE  /\ h.ip # None /\ h.name # None /\ h.name \in Seq(Int)
         /\ IsName(Labels(h.name)) /\ Joined(Labels(h.name)) = h.name
BY HostsAssumption, DottedIs DEF None

LEMMA HostsDiffer ==
  ASSUME NEW g \in Hosts, NEW h \in Hosts
  PROVE  nameMatches(g.name, Labels(h.name), BufSize) <=> g.name = h.name
<1>1. IsName(Labels(g.name)) /\ IsName(Labels(h.name)) /\ Joined(Labels(g.name)) = g.name
  BY HostIs
<1>2. /\ nameMatches(g.name, Labels(g.name), BufSize)
      /\ nameMatches(g.name, Labels(h.name), BufSize)
           => FlattenSeq(Labels(h.name)) = FlattenSeq(Labels(g.name))
  BY <1>1, QuestionsOf
<1>3. FlattenSeq(Labels(g.name)) = FlattenSeq(Labels(h.name)) => g.name = h.name
  BY HostsAssumption
<1>4. QED BY <1>2, <1>3

\* A name that is spelled out passes when it matches.
LEMMA SpelledOut ==
  ASSUME NEW g \in Hosts, NEW h \in Hosts, NEW rec, rec.labels = Labels(h.name), rec.ptr = 0, NEW pos
  PROVE  Guess(Compared(g.name, rec.labels), rec, pos) <=> g.name = h.name
<1>1. Labels(h.name) \in Seq(Seq(Int)) /\ g.name \in Seq(Int)
  BY HostIs DEF IsName
<1>2. Guess(Compared(g.name, rec.labels), rec, pos)
        <=> Compared(g.name, rec.labels).ok = 1 /\ Compared(g.name, rec.labels).rest = <<>>
  BY DEF Guess
<1>3. QED BY <1>1, <1>2, ComparedMatches, HostsDiffer

\* Packets without an address among their answers.
LEMMA NoAnswer ==
  ASSUME NEW names, NEW packet, OnlyName(names, packet), NEW n \in Nat, DOMAIN packet.records = 1 .. n,
         \A i \in 1 .. n : packet.q < i /\ i <= packet.q + packet.a => packet.records[i].type # "A"
  PROVE  readRecords(names, packet).address = None
<1> DEFINE s == [i \in 1 .. n |-> i]
<1>1. s \in Seq(DOMAIN packet.records) /\ Len(s) = n /\ \A k \in 1 .. n : s[k] = k
  OBVIOUS
<1> HIDE DEF s
<1>2. PICK run : RecordsEndRun(names, packet, s, run)
  BY <1>1, RecordsEndRuns
<1>3. /\ run \in [0 .. n -> AnswerStates(packet)] /\ run[0] = AnswerStart
      /\ run[n] = RecordsEnd(names, packet, s)
      /\ \A k \in 1 .. n : run[k] = readRecord(run[k - 1], names, packet, s[k])
  BY <1>1, <1>2 DEF RecordsEndRun
<1> DEFINE G == {k \in 0 .. n : run[k].address = None}
<1>4. 0 \in G
  BY <1>3 DEF AnswerStart
<1>5. ASSUME NEW k \in 0 .. n - 1, k \in G PROVE k + 1 \in G
  <2> DEFINE st == run[k]
             rec == packet.records[k + 1]
  <2>1. k + 1 \in 1 .. n /\ k + 1 \in 0 .. n /\ (k + 1) - 1 = k /\ k \in 0 .. n /\ k + 1 \in Nat
    OBVIOUS
  <2>2. st \in AnswerStates(packet) /\ run[k + 1] = readRecord(st, names, packet, k + 1)
        /\ st.address = None
    BY <1>1, <1>3, <1>5, <2>1
  <2> HIDE DEF st, rec
  <2>3. ~st.over /\ packet.q < k + 1 /\ k + 1 <= packet.q + packet.a
          => run[k + 1] = Answer(st, names, k + 1, packet.records[k + 1])
    BY <2>1, <2>2, RecordIs
  <2>4. st.over \/ k + 1 <= packet.q \/ k + 1 > packet.q + packet.a => run[k + 1].address = st.address
    BY <2>1, <2>2, RecordIs
  <2>5. packet.q \in Nat /\ packet.a \in Nat
    BY DEF OnlyName
  <2>6. CASE ~st.over /\ packet.q < k + 1 /\ k + 1 <= packet.q + packet.a
    <3>1. rec.type # "A"
      BY <2>1, <2>6 DEF rec
    <3>2. PICK name : names[1] = name
      OBVIOUS
    <3>3. ~TakenFor(st, name, rec)
      BY <3>1 DEF TakenFor
    <3>4. Answer(st, names, k + 1, rec).address = IF TakenFor(st, name, rec) THEN rec.data ELSE st.address
      BY <2>1, <2>2, <3>2, AnswerIs DEF OnlyName, rec
    <3>5. QED BY <2>1, <2>2, <2>3, <2>6, <3>3, <3>4 DEF rec
  <2>7. CASE st.over \/ k + 1 <= packet.q \/ k + 1 > packet.q + packet.a
    BY <2>1, <2>2, <2>4, <2>7
  <2>8. QED BY <2>1, <2>5, <2>6, <2>7
<1>6. n \in G
  <2>1. \A k \in 0 .. n - 1 : k \in G => k + 1 \in G
    BY <1>5
  <2>2. n \in 0 .. n
    OBVIOUS
  <2> HIDE DEF G
  <2>3. QED BY <1>4, <2>1, <2>2, Positions
<1>7. QED BY <1>3, <1>6, RecordsAre DEF s

-----------------------------------------------------------------------------
(* Responses of one answer and of two. *)

\* Responses of one answer and of two.
LEMMA StartsEmpty ==
  /\ AnswerStart.found = {} /\ AnswerStart.pos[1] = 0 /\ AnswerStart.address = None
  /\ AnswerStart.over = FALSE
BY DEF AnswerStart

LEMMA OneAnswer ==
  ASSUME NEW names, NEW packet, OnlyName(names, packet), DOMAIN packet.records = 1 .. 1,
         packet.q = 0, packet.a = 1
  PROVE  LET rec == packet.records[1] IN
         readRecords(names, packet).address =
           IF TakenFor(AnswerStart, names[1], rec) THEN rec.data ELSE None
<1> DEFINE s == [i \in DOMAIN packet.records |-> i]
<1>1. s = Append(<<>>, 1) /\ <<>> \in Seq(DOMAIN packet.records) /\ 1 \in DOMAIN packet.records
  <2>1. s = <<1>>
    OBVIOUS
  <2>2. QED BY <2>1
<1> HIDE DEF s
<1>2. RecordsEnd(names, packet, s) = readRecord(AnswerStart, names, packet, 1)
  <2> DEFINE none == <<>>
  <2>1. RecordsEnd(names, packet, none) = AnswerStart
    BY RecordsEndEmpty
  <2>2. s = Append(none, 1) /\ none \in Seq(DOMAIN packet.records) /\ 1 \in DOMAIN packet.records
    BY <1>1
  <2> HIDE DEF none
  <2>3. RecordsEnd(names, packet, Append(none, 1)) = readRecord(RecordsEnd(names, packet, none), names, packet, 1)
    BY <2>2, RecordsEndAppend
  <2>4. QED BY <2>1, <2>2, <2>3
<1>3. AnswerStart \in AnswerStates(packet)
  BY RecordsEndType
<1>4. 0 < 1 /\ 1 <= 0 + 1 /\ ~FALSE
  OBVIOUS
<1>5. readRecord(AnswerStart, names, packet, 1) = Answer(AnswerStart, names, 1, packet.records[1])
  BY <1>1, <1>3, <1>4, RecordIs, StartsEmpty
<1>6. 1 \in DOMAIN packet.records \cap Nat /\ names[2] = None
  BY <1>1 DEF OnlyName
<1>7. Answer(AnswerStart, names, 1, packet.records[1]).address =
        IF TakenFor(AnswerStart, names[1], packet.records[1]) THEN packet.records[1].data ELSE AnswerStart.address
  BY <1>3, <1>6, AnswerIs
<1>8. QED BY <1>2, <1>5, <1>7, RecordsAre, StartsEmpty DEF s

LEMMA TwoAnswers ==
  ASSUME NEW names, NEW packet, OnlyName(names, packet), DOMAIN packet.records = 1 .. 2,
         packet.q = 0, packet.a = 2
  PROVE  LET r1 == packet.records[1]
             r2 == packet.records[2]
         IN  \E st \in AnswerStates(packet) :
               /\ st.found = IF TakenFor(AnswerStart, names[1], r1) THEN {1} ELSE {}
               /\ st.pos[1] = 1
               /\ st.address = IF TakenFor(AnswerStart, names[1], r1) THEN r1.data ELSE None
               /\ readRecords(names, packet).address =
                    IF TakenFor(st, names[1], r2) THEN r2.data ELSE st.address
<1> DEFINE s == [i \in DOMAIN packet.records |-> i]
           st == Answer(AnswerStart, names, 1, packet.records[1])
<1>1. /\ s = Append(Append(<<>>, 1), 2) /\ <<>> \in Seq(DOMAIN packet.records)
      /\ Append(<<>>, 1) \in Seq(DOMAIN packet.records)
      /\ 1 \in DOMAIN packet.records /\ 2 \in DOMAIN packet.records
  <2>1. s = <<1, 2>>
    OBVIOUS
  <2>2. QED BY <2>1
<1> HIDE DEF s
<1>2. RecordsEnd(names, packet, s) = readRecord(readRecord(AnswerStart, names, packet, 1), names, packet, 2)
  <2> DEFINE none == <<>>
             one == Append(none, 1)
  <2>1. RecordsEnd(names, packet, none) = AnswerStart
    BY RecordsEndEmpty
  <2>2. /\ s = Append(one, 2) /\ one \in Seq(DOMAIN packet.records) /\ none \in Seq(DOMAIN packet.records)
        /\ 1 \in DOMAIN packet.records /\ 2 \in DOMAIN packet.records
    BY <1>1
  <2> HIDE DEF none
  <2>3. RecordsEnd(names, packet, one) = readRecord(RecordsEnd(names, packet, none), names, packet, 1)
    BY <2>2, RecordsEndAppend
  <2> HIDE DEF one
  <2>4. RecordsEnd(names, packet, Append(one, 2)) = readRecord(RecordsEnd(names, packet, one), names, packet, 2)
    BY <2>2, RecordsEndAppend
  <2>5. QED BY <2>1, <2>2, <2>3, <2>4
<1>3. AnswerStart \in AnswerStates(packet)
  BY RecordsEndType
<1>4. 0 < 1 /\ 1 <= 0 + 2 /\ 0 < 2 /\ 2 <= 0 + 2
  OBVIOUS
<1>5. readRecord(AnswerStart, names, packet, 1) = st
  BY <1>1, <1>3, <1>4, RecordIs, StartsEmpty
<1>6. /\ 1 \in DOMAIN packet.records \cap Nat /\ 2 \in DOMAIN packet.records \cap Nat
      /\ names[2] = None
  BY <1>1 DEF OnlyName
<1>7. /\ st \in AnswerStates(packet)
      /\ st.found = IF TakenFor(AnswerStart, names[1], packet.records[1]) THEN {1} ELSE {}
      /\ st.pos[1] = 1 /\ st.over = FALSE
      /\ st.address = IF TakenFor(AnswerStart, names[1], packet.records[1]) THEN packet.records[1].data
                      ELSE None
  <2>1. PICK name : names[1] = name
    OBVIOUS
  <2>2. /\ st \in AnswerStates(packet)
        /\ st.found = IF TakenFor(AnswerStart, name, packet.records[1]) THEN {1} ELSE AnswerStart.found
        /\ st.pos[1] = IF AnswerStart.pos[1] = 0 THEN 1 ELSE AnswerStart.pos[1]
        /\ st.address = IF TakenFor(AnswerStart, name, packet.records[1]) THEN packet.records[1].data
                        ELSE AnswerStart.address
        /\ st.over = AnswerStart.over
    BY <1>3, <1>6, <2>1, AnswerIs
  <2> HIDE DEF st
  <2>3. QED BY <2>1, <2>2, StartsEmpty
<1> HIDE DEF st
<1>8. readRecord(st, names, packet, 2) = Answer(st, names, 2, packet.records[2])
  BY <1>1, <1>4, <1>7, RecordIs
<1>9. Answer(st, names, 2, packet.records[2]).address =
        IF TakenFor(st, names[1], packet.records[2]) THEN packet.records[2].data ELSE st.address
  BY <1>6, <1>7, AnswerIs
<1>10. QED BY <1>2, <1>5, <1>7, <1>8, <1>9, RecordsAre DEF s

\* What a host running this code says.
LEMMA SaidIs ==
  ASSUME NEW asker \in Hosts, NEW h \in Hosts, NEW packet \in Said(h)
  PROVE  readRecords(<<asker.name, None>>, packet).address =
           IF h.name = asker.name /\ packet = MyIPAnswer(h) THEN h.ip ELSE None
<1> DEFINE names == <<asker.name, None>>
<1>1. names[1] = asker.name /\ names[2] = None
  OBVIOUS
<1> HIDE DEF names
<1>2. ASSUME packet = MyIPAnswer(h)
      PROVE  readRecords(names, packet).address = IF h.name = asker.name THEN h.ip ELSE None
  <2> DEFINE rec == writeMyIPAnswerRecord(h)
  <2>1. packet.q = 0 /\ packet.a = 1 /\ packet.records = <<rec>>
    BY <1>2 DEF MyIPAnswer, Packet
  <2>2. rec.labels = Labels(h.name) /\ rec.ptr = 0 /\ rec.type = "A" /\ rec.data = h.ip
    BY DEF writeMyIPAnswerRecord, Record
  <2> HIDE DEF rec
  <2>3. DOMAIN packet.records = 1 .. 1 /\ packet.records[1] = rec
    BY <2>1
  <2>4. OnlyName(names, packet)
    BY <1>1, <2>1, <2>3 DEF OnlyName
  <2>5. readRecords(names, packet).address = IF TakenFor(AnswerStart, asker.name, rec) THEN h.ip ELSE None
    BY <1>1, <2>1, <2>2, <2>3, <2>4, OneAnswer
  <2>6. asker.name # None /\ 1 \notin {}
    BY HostIs
  <2>7. TakenFor(AnswerStart, asker.name, rec) <=> Guess(Compared(asker.name, rec.labels), rec, 0)
    BY <2>2, <2>6, StartsEmpty DEF TakenFor
  <2>8. Guess(Compared(asker.name, rec.labels), rec, 0) <=> asker.name = h.name
    BY <2>2, SpelledOut
  <2>9. QED BY <2>5, <2>7, <2>8
<1>3. ASSUME packet # MyIPAnswer(h) PROVE readRecords(names, packet).address = None
  <2>1. \/ packet = NoIPv6AddrAvailable(h)
        \/ \E r : packet = ServiceRecord(h, r)
        \/ \E r : packet = ServiceRecordRelease(r)
    BY <1>3 DEF Said
  <2>2. CASE packet = NoIPv6AddrAvailable(h)
    <3>1. packet.q = 1 /\ packet.a = 0 /\ DOMAIN packet.records = 1 .. 2
      BY <2>2 DEF NoIPv6AddrAvailable, Packet
    <3>2. OnlyName(names, packet)
      BY <1>1, <3>1 DEF OnlyName
    <3>3. \A i \in 1 .. 2 : ~(1 < i /\ i <= 1 + 0)
      OBVIOUS
    <3>4. QED BY <3>1, <3>2, <3>3, NoAnswer, 2 \in Nat
  <2>3. ASSUME NEW r, packet = ServiceRecord(h, r) PROVE readRecords(names, packet).address = None
    <3>1. /\ packet.q = 0 /\ packet.a = 4 /\ DOMAIN packet.records = 1 .. 5
          /\ packet.records[1].type = "SRV" /\ packet.records[2].type = "TXT"
          /\ packet.records[3].type = "PTR" /\ packet.records[4].type = "PTR"
      BY <2>3 DEF ServiceRecord, Packet, Record, writeServiceRecordPTR
    <3>2. OnlyName(names, packet)
      BY <1>1, <3>1 DEF OnlyName
    <3>3. \A i \in 1 .. 5 : 0 < i /\ i <= 0 + 4 => i \in {1, 2, 3, 4}
      OBVIOUS
    <3>4. \A i \in {1, 2, 3, 4} : packet.records[i].type # "A"
      BY <3>1
    <3>5. QED BY <3>1, <3>2, <3>3, <3>4, NoAnswer, 5 \in Nat
  <2>4. ASSUME NEW r, packet = ServiceRecordRelease(r) PROVE readRecords(names, packet).address = None
    <3>1. /\ packet.q = 0 /\ packet.a = 1 /\ DOMAIN packet.records = 1 .. 1
          /\ packet.records[1].type = "PTR"
      BY <2>4 DEF ServiceRecordRelease, Packet, Record, writeServiceRecordPTR
    <3>2. OnlyName(names, packet)
      BY <1>1, <3>1 DEF OnlyName
    <3>3. \A i \in 1 .. 1 : packet.records[i].type # "A"
      BY <3>1
    <3>4. QED BY <3>1, <3>2, <3>3, NoAnswer, 1 \in Nat
  <2>5. QED BY <2>1, <2>2, <2>3, <2>4
<1>4. QED BY <1>2, <1>3 DEF names

LEMMA FirstRight ==
  ASSUME NEW T \in SUBSET {1, 2}
  PROVE  /\ 1 \in T => Min(T) = 1
         /\ T = {2} => Min(T) = 2
<1>1. ASSUME 1 \in T PROVE Min(T) = 1
  <2>1. T \in SUBSET Nat
    OBVIOUS
  <2> DEFINE m == Min(T)
  <2>2. m \in T /\ \A k \in T : m <= k
    BY <1>1, <2>1, MinOf
  <2>3. m \in {1, 2} /\ m <= 1
    BY <1>1, <2>2
  <2> HIDE DEF m
  <2>4. m = 1
    BY <2>3
  <2>5. QED BY <2>4 DEF m
<1>2. ASSUME T = {2} PROVE Min(T) = 2
  <2>1. T \in SUBSET Nat /\ T # {}
    BY <1>2
  <2>2. Min(T) \in T
    BY <2>1, MinOf
  <2>3. QED BY <1>2, <2>2
<1>3. QED BY <1>1, <1>2

\* Which pairs of answers there are, and which of them pass.
FormOf(first, second, form) ==
  /\ form \in {"spelled", "label", "pointer"}
  /\ form = "pointer" => second = first
PassesAs(k, asker, form, of) ==
  CASE k = 1 \/ form = "spelled" -> of[k].name = asker.name
    [] k = 2 /\ form = "label" ->
         IsPrefix(Pieces(Labels(of[2].name)[1], BufSize)[1], asker.name)
    [] k = 2 /\ form = "pointer" -> TRUE
PassingOf(asker, first, second, types, form, of, Passing) ==
  /\ of = <<first, second>>
  /\ Passing = {k \in 1 .. 2 : types[k] = "A" /\ PassesAs(k, asker, form, of)}

\* The second of two answers, when the first was for nobody.
LEMMA SecondAnswer ==
  ASSUME NEW asker \in Hosts, NEW first \in Hosts, NEW second \in Hosts, NEW of, of[2] = second,
         NEW types, NEW form, FormOf(first, second, form), NEW rec, rec = AnswerPacket(first, second, types, form).records[2],
         NEW st, st.found = {}, st.pos[1] = 1, st.address = None
  PROVE  /\ TakenFor(st, asker.name, rec) <=> types[2] = "A" /\ PassesAs(2, asker, form, of)
         /\ rec.data = second.ip
<1> DEFINE c == Compared(asker.name, rec.labels)
           l == Labels(second.name)[1]
<1>1. form \in {"spelled", "label", "pointer"}
  BY DEF FormOf
<1>2. asker.name # None /\ asker.name \in Seq(Int) /\ IsLabel(l)
  <2>1. IsName(Labels(second.name)) /\ asker.name # None /\ asker.name \in Seq(Int)
    BY HostIs
  <2>2. 1 \in 1 .. Len(Labels(second.name))
    BY <2>1 DEF IsName
  <2>3. QED BY <2>1, <2>2 DEF IsName
<1>3. TakenFor(st, asker.name, rec) <=> rec.type = "A" /\ Guess(c, rec, 1)
  BY <1>2 DEF TakenFor
<1>4. CASE form = "spelled"
  <2>1. rec = Record(Labels(second.name), 0, types[2], second.ip)
    BY <1>4 DEF AnswerPacket, Packet
  <2>2. rec.labels = Labels(second.name) /\ rec.ptr = 0 /\ rec.type = types[2] /\ rec.data = second.ip
    BY <2>1 DEF Record
  <2>3. Guess(c, rec, 1) <=> asker.name = second.name
    BY <2>2, SpelledOut
  <2>4. PassesAs(2, asker, form, of) <=> second.name = asker.name
    BY <1>4 DEF PassesAs
  <2>5. QED BY <1>3, <2>2, <2>3, <2>4
<1>5. CASE form = "label"
  <2>1. rec = Record(<<l>>, 150, types[2], second.ip)
    BY <1>5 DEF AnswerPacket, Packet
  <2>2. rec.labels = <<l>> /\ rec.ptr = 150 /\ rec.type = types[2] /\ rec.data = second.ip
    BY <2>1 DEF Record
  <2> HIDE DEF l
  <2>3. c.part = 1 <=> IsPrefix(Pieces(l, BufSize)[1], asker.name)
    BY <1>2, <2>2, ComparedFirst
  <2> HIDE DEF c
  <2>4. Guess(c, rec, 1) <=> c.part = 1
    BY <2>2 DEF Guess
  <2>5. PassesAs(2, asker, form, of) <=> IsPrefix(Pieces(l, BufSize)[1], asker.name)
    BY <1>5 DEF PassesAs, l
  <2>6. QED BY <1>3, <2>2, <2>3, <2>4, <2>5
<1>6. CASE form = "pointer"
  <2>1. rec = Record(<<>>, 1, types[2], second.ip)
    BY <1>6 DEF AnswerPacket, Packet, NameAt
  <2>2. rec.labels = <<>> /\ rec.ptr = 1 /\ rec.type = types[2] /\ rec.data = second.ip
    BY <2>1 DEF Record
  <2>3. c.ok = 1
    BY <1>2, <2>2, ComparedNothing
  <2>4. Guess(c, rec, 1)
    BY <2>2, <2>3 DEF Guess
  <2>5. PassesAs(2, asker, form, of)
    BY <1>6 DEF PassesAs
  <2>6. QED BY <1>3, <2>2, <2>4, <2>5
<1>7. QED BY <1>1, <1>4, <1>5, <1>6

\* The first answer that passes gives its address.
LEMMA AnswersOf ==
  ASSUME NEW asker \in Hosts, NEW first \in Hosts, NEW second \in Hosts,
         NEW types, NEW form, FormOf(first, second, form),
         NEW of, NEW Passing, PassingOf(asker, first, second, types, form, of, Passing)
  PROVE  readRecords(<<asker.name, None>>, AnswerPacket(first, second, types, form)).address =
           IF Passing = {} THEN None ELSE of[Min(Passing)].ip
<1> DEFINE names == <<asker.name, None>>
           packet == AnswerPacket(first, second, types, form)
           r1 == packet.records[1]
           r2 == packet.records[2]
<1>1. names[1] = asker.name /\ names[2] = None
  OBVIOUS
<1>2. /\ packet.q = 0 /\ packet.a = 2 /\ DOMAIN packet.records = 1 .. 2
      /\ r1 = Record(Labels(first.name), 0, types[1], first.ip)
  BY DEF AnswerPacket, Packet
<1>3. r1.labels = Labels(first.name) /\ r1.ptr = 0 /\ r1.type = types[1] /\ r1.data = first.ip
  BY <1>2 DEF Record
<1>4. ASSUME NEW st, st.found = {}, st.pos[1] = 1, st.address = None
      PROVE  /\ TakenFor(st, asker.name, r2) <=> types[2] = "A" /\ PassesAs(2, asker, form, of)
             /\ r2.data = second.ip
  <2>0. of[2] = second
    BY DEF PassingOf
  <2>1. r2 = AnswerPacket(first, second, types, form).records[2]
    OBVIOUS
  <2> HIDE DEF r2
  <2>2. QED BY <1>4, <2>0, <2>1, SecondAnswer
<1>5. first.ip # None /\ asker.name # None
  BY HostIs
<1> HIDE DEF names, r1, r2, packet
<1>6. OnlyName(names, packet)
  BY <1>1, <1>2 DEF OnlyName
<1>7. PICK st \in AnswerStates(packet) :
        /\ st.found = IF TakenFor(AnswerStart, asker.name, r1) THEN {1} ELSE {}
        /\ st.pos[1] = 1
        /\ st.address = IF TakenFor(AnswerStart, asker.name, r1) THEN r1.data ELSE None
        /\ readRecords(names, packet).address =
             IF TakenFor(st, asker.name, r2) THEN r2.data ELSE st.address
  BY <1>1, <1>2, <1>6, TwoAnswers DEF r1, r2
<1>8. TakenFor(AnswerStart, asker.name, r1) <=> types[1] = "A" /\ first.name = asker.name
  <2>1. TakenFor(AnswerStart, asker.name, r1)
          <=> r1.type = "A" /\ Guess(Compared(asker.name, r1.labels), r1, 0)
    BY <1>5, StartsEmpty DEF TakenFor
  <2>2. Guess(Compared(asker.name, r1.labels), r1, 0) <=> asker.name = first.name
    BY <1>3, SpelledOut
  <2>3. QED BY <1>3, <2>1, <2>2
<1>9. /\ 1 \in Passing <=> types[1] = "A" /\ first.name = asker.name
      /\ 2 \in Passing <=> types[2] = "A" /\ PassesAs(2, asker, form, of)
      /\ Passing \in SUBSET {1, 2} /\ of[1] = first /\ of[2] = second
  <2>1. of[1] = first /\ of[2] = second /\ Passing \in SUBSET {1, 2}
    BY DEF PassingOf
  <2>2. PassesAs(1, asker, form, of) <=> first.name = asker.name
    BY <2>1 DEF PassesAs
  <2>3. \A k \in 1 .. 2 : k \in Passing <=> types[k] = "A" /\ PassesAs(k, asker, form, of)
    BY DEF PassingOf
  <2>4. 1 \in 1 .. 2 /\ 2 \in 1 .. 2
    OBVIOUS
  <2>5. QED BY ONLY <2>1, <2>2, <2>3, <2>4
<1>10. CASE 1 \in Passing
  <2>1. st.address = first.ip
    BY <1>3, <1>7, <1>8, <1>9, <1>10
  <2>2. ~TakenFor(st, asker.name, r2)
    BY <1>5, <2>1 DEF TakenFor
  <2>3. Min(Passing) = 1 /\ Passing # {}
    BY <1>9, <1>10, FirstRight
  <2>4. QED BY <1>7, <1>9, <2>1, <2>2, <2>3 DEF names, packet
<1>11. CASE 1 \notin Passing
  <2>1. st.found = {} /\ st.pos[1] = 1 /\ st.address = None
    BY <1>7, <1>8, <1>9, <1>11
  <2>2. CASE 2 \in Passing
    <3>1. Passing = {2} /\ Passing # {}
      BY <1>9, <1>11, <2>2
    <3>2. Min(Passing) = 2
      BY <1>9, <3>1, FirstRight
    <3>3. TakenFor(st, asker.name, r2) /\ r2.data = second.ip
      BY <1>4, <1>9, <2>1, <2>2
    <3>4. QED BY <1>7, <1>9, <3>1, <3>2, <3>3 DEF names, packet
  <2>3. CASE 2 \notin Passing
    <3>1. Passing = {}
      BY <1>9, <1>11, <2>3
    <3>2. ~TakenFor(st, asker.name, r2)
      BY <1>4, <1>9, <2>1, <2>3
    <3>3. QED BY <1>7, <2>1, <3>1, <3>2 DEF names, packet
  <2>4. QED BY <2>2, <2>3
<1>12. QED BY <1>10, <1>11

-----------------------------------------------------------------------------
(* The names a host answers for. *)

\* One sequence behind the other.
LEMMA Beside ==
  ASSUME NEW S, NEW a \in Seq(S), NEW b \in Seq(S)
  PROVE  /\ a \o b \in Seq(S) /\ Len(a \o b) = Len(a) + Len(b)
         /\ \A i \in 1 .. Len(a) : (a \o b)[i] = a[i]
         /\ \A i \in 1 .. Len(b) : (a \o b)[Len(a) + i] = b[i]
<1> DEFINE t == a \o b
<1>1. /\ t \in Seq(S) /\ Len(t) = Len(a) + Len(b)
      /\ \A i \in 1 .. Len(a) + Len(b) : t[i] = IF i <= Len(a) THEN a[i] ELSE b[i - Len(a)]
  BY ConcatProperties
<1>2. Len(a) \in Nat /\ Len(b) \in Nat
  OBVIOUS
<1> HIDE DEF t
<1>3. ASSUME NEW i \in 1 .. Len(a) PROVE t[i] = a[i]
  BY <1>1, <1>2
<1>4. ASSUME NEW i \in 1 .. Len(b) PROVE t[Len(a) + i] = b[i]
  <2>1. Len(a) + i \in 1 .. Len(a) + Len(b) /\ ~(Len(a) + i <= Len(a)) /\ (Len(a) + i) - Len(a) = i
    BY <1>2
  <2>2. QED BY <1>1, <2>1
<1>5. QED BY <1>1, <1>3, <1>4 DEF t

LEMMA ProtocolNames ==
  ASSUME NEW proto \in {"TCP", "UDP"}
  PROVE  LET p == IF proto = "TCP" THEN TcpLabel ELSE UdpLabel
             names == <<p, LocalLabel>> IN
         /\ IsLabel(p) /\ IsName(names) /\ postfixForProtocol(proto) = <<Dot>> \o Joined(names)
<1>1. CASE proto = "TCP"
  <2>1. IsName(<<TcpLabel, LocalLabel>>)
        /\ (<<Dot>> \o TcpLabel) \o local = <<Dot>> \o Joined(<<TcpLabel, LocalLabel>>)
    BY ConstantLabels, PostfixIs
  <2>2. QED BY <1>1, <2>1, ConstantLabels, Postfixes
<1>2. CASE proto = "UDP"
  <2>1. IsName(<<UdpLabel, LocalLabel>>)
        /\ (<<Dot>> \o UdpLabel) \o local = <<Dot>> \o Joined(<<UdpLabel, LocalLabel>>)
    BY ConstantLabels, PostfixIs
  <2>2. QED BY <1>2, <2>1, ConstantLabels, Postfixes
<1>3. QED BY <1>1, <1>2

\* The type of a service is the last label of its name with the protocol behind it.
LEMMA ServiceNameIs ==
  ASSUME NEW L, IsName(L), Len(L) > 1, NEW N, IsName(N), NEW proto,
         postfixForProtocol(proto) = <<Dot>> \o Joined(N)
  PROVE  LET serv == servNameOf(Joined(L), proto) IN
         /\ IsLabel(Last(L)) /\ IsName(<<Last(L)>> \o N)
         /\ serv = Joined(<<Last(L)>> \o N) /\ Labels(serv) = <<Last(L)>> \o N
<1> DEFINE serv == servNameOf(Joined(L), proto)
<1>1. PICK M \in Seq(Seq(Int)), l \in Seq(Int) :
        IsName(M) /\ IsLabel(l) /\ L = Append(M, l) /\ Last(L) = l
  BY NameEnds
<1>2. Drop(Joined(L), findFirstDotFromRight(Joined(L)) - 1) = l
  <2> DEFINE p == Joined(M)
             s == p \o (<<Dot>> \o l)
  <2>1. p \in Seq(Int) /\ p # <<>> /\ Joined(L) = s
    BY <1>1, JoinedLonger
  <2>2. l \in Seq(Plain)
    BY <1>1, LabelIsPlain
  <2> HIDE DEF p
  <2>3. findFirstDotFromRight(s) = Len(p) + 2 /\ Drop(s, Len(p) + 1) = l
    BY <2>1, <2>2, LastDot
  <2>4. (Len(p) + 2) - 1 = Len(p) + 1
    BY <2>1
  <2> HIDE DEF s
  <2>5. QED BY <2>1, <2>3, <2>4
<1>3. serv = l \o (<<Dot>> \o Joined(N))
  BY <1>2 DEF servNameOf
<1>4. IsName(<<l>>) /\ Joined(<<l>>) = l
  BY <1>1, NameOfOne, JoinedOne
<1>5. IsName(<<l>> \o N) /\ serv = Joined(<<l>> \o N)
  BY <1>3, <1>4, JoinedBehind
<1>6. Labels(serv) = <<l>> \o N
  BY <1>5, LabelsOfName
<1>7. QED BY <1>1, <1>5, <1>6

\* The general service.
ServicesLabel == <<95, 115, 101, 114, 118, 105, 99, 101, 115>>
DnsSdLabel == <<95, 100, 110, 115, 45, 115, 100>>
LEMMA GeneralServiceIs ==
  IsName(Labels(DNS_SD_SERVICE)) /\ Joined(Labels(DNS_SD_SERVICE)) = DNS_SD_SERVICE
<1> DEFINE N == <<UdpLabel, LocalLabel>>
           M == <<ServicesLabel, DnsSdLabel>>
<1>1. IsName(N) /\ udp = <<Dot>> \o Joined(N)
  BY ConstantLabels, PostfixIs, ConstantTexts
<1>2. IsLabel(ServicesLabel)
  BY DEF ServicesLabel, IsLabel, Dot
<1>3. IsLabel(DnsSdLabel)
  BY DEF DnsSdLabel, IsLabel, Dot
<1>4. ServicesLabel \in Seq(Int) /\ DnsSdLabel \in Seq(Int) /\ M = Append(<<ServicesLabel>>, DnsSdLabel)
  BY <1>2, <1>3 DEF IsLabel
<1>5. IsName(<<ServicesLabel>>) /\ Joined(<<ServicesLabel>>) = ServicesLabel
      /\ <<ServicesLabel>> \in Seq(Seq(Int))
  BY <1>2, NameOfOne, JoinedOne DEF IsName
<1>6. IsName(M) /\ Joined(M) = ServicesLabel \o (<<Dot>> \o DnsSdLabel)
  <2> HIDE DEF M
  <2>1. IsName(M)
    BY <1>3, <1>4, <1>5, NameAppend
  <2>2. Joined(Append(<<ServicesLabel>>, DnsSdLabel)) = Joined(<<ServicesLabel>>) \o (<<Dot>> \o DnsSdLabel)
    BY <1>3, <1>5, JoinedLonger
  <2>3. QED BY <1>4, <1>5, <2>1, <2>2
<1>7. <<Dot, 95, 100, 110, 115, 45, 115, 100>> = <<Dot>> \o DnsSdLabel
  BY DEF DnsSdLabel, Dot
<1>8. DNS_SD_SERVICE = Joined(M) \o (<<Dot>> \o Joined(N))
  BY <1>1, <1>6, <1>7, ZenonT(60) DEF DNS_SD_SERVICE, ServicesLabel
<1> HIDE DEF N, M
<1>9. IsName(M \o N) /\ DNS_SD_SERVICE = Joined(M \o N)
  BY <1>1, <1>6, <1>8, JoinedBehind
<1>10. QED BY <1>9, LabelsOfName

\* The services of a host.
UsedBy(h) == {k \in DOMAIN h.services : h.services[k] # None}

LEMMA ServiceOf ==
  ASSUME NEW h \in Hosts, NEW k \in UsedBy(h)
  PROVE  LET r == h.services[k] IN
         /\ r # None /\ r.proto \in {"TCP", "UDP"} /\ IsName(Labels(r.name))
         /\ Joined(Labels(r.name)) = r.name /\ Len(Labels(r.name)) > 1
         /\ IsName(ServiceLabels(r)) /\ Joined(ServiceLabels(r)) = servNameOf(r.name, r.proto)
         /\ ServiceLabels(r)[2] = IF r.proto = "TCP" THEN TcpLabel ELSE UdpLabel
         /\ ServiceLabels(r) \in AnsweredFor(h)
<1> DEFINE r == h.services[k]
           L == Labels(r.name)
           p == IF r.proto = "TCP" THEN TcpLabel ELSE UdpLabel
           N == <<p, LocalLabel>>
<1>1. r # None /\ r.proto \in {"TCP", "UDP"} /\ IsDotted(r.name) /\ Len(L) > 1
  BY ServicesAssumption DEF UsedBy
<1>2. IsName(L) /\ Joined(L) = r.name
  BY <1>1, DottedIs
<1>3. IsName(N) /\ postfixForProtocol(r.proto) = <<Dot>> \o Joined(N) /\ IsLabel(p)
  BY <1>1, ProtocolNames
<1>4. ServiceLabels(r) \in AnsweredFor(h)
  <2>1. k \in {i \in DOMAIN h.services : h.services[i] # None}
    BY DEF UsedBy
  <2>2. QED BY <2>1 DEF AnsweredFor
<1> HIDE DEF L, N
<1>5. /\ IsLabel(Last(L)) /\ IsName(<<Last(L)>> \o N)
      /\ servNameOf(Joined(L), r.proto) = Joined(<<Last(L)>> \o N)
      /\ Labels(servNameOf(Joined(L), r.proto)) = <<Last(L)>> \o N
  BY <1>1, <1>2, <1>3, ServiceNameIs
<1>6. ServiceLabels(r) = <<Last(L)>> \o N
  BY <1>2, <1>5 DEF ServiceLabels
<1>7. (<<Last(L)>> \o N)[2] = p
  <2> DEFINE x == <<Last(L)>>
             T == Seq(Int)
  <2>1. Last(L) \in Seq(Int) /\ p \in Seq(Int) /\ LocalLabel \in Seq(Int)
    BY <1>3, <1>5, ConstantLabels DEF IsLabel
  <2>2. N \in Seq(T) /\ N[1] = p /\ Len(N) = 2
    BY <2>1 DEF N
  <2>3. x \in Seq(T) /\ Len(x) = 1
    BY <2>1
  <2> HIDE DEF p, x, T
  <2>4. (x \o N)[Len(x) + 1] = N[1]
    <3>1. \A y \in Seq(T), M \in Seq(T) : Len(y) = 1 /\ Len(M) = 2 => (y \o M)[2] = M[1]
      <4> SUFFICES ASSUME NEW y \in Seq(T), NEW M \in Seq(T), Len(y) = 1, Len(M) = 2 PROVE (y \o M)[2] = M[1]
        OBVIOUS
      <4>1. \A i \in 1 .. Len(M) : (y \o M)[Len(y) + i] = M[i]
        BY Beside, SMTT(60)
      <4>2. 1 \in 1 .. Len(M) /\ Len(y) + 1 = 2
        OBVIOUS
      <4>3. QED BY <4>1, <4>2
    <3>2. QED BY <2>2, <2>3, <3>1
  <2>5. Len(x) + 1 = 2
    BY <2>3
  <2>6. (x \o N)[2] = N[1]
    BY <2>4, <2>5
  <2>7. QED BY <2>2, <2>6 DEF x
<1>8. QED BY <1>1, <1>2, <1>4, <1>5, <1>6, <1>7 DEF L

\* Its names in their order, each made of labels.
LEMMA OwnNamesAre ==
  ASSUME NEW h \in Hosts
  PROVE  LET names == OwnNames(h)
             n == Len(h.services)
         IN  /\ n \in Nat /\ DOMAIN h.services = 1 .. n /\ DOMAIN names = 1 .. n + 2
             /\ names[1] = h.name /\ names[2] = DNS_SD_SERVICE
             /\ \A k \in 1 .. n : names[k + 2] = IF k \in UsedBy(h)
                                                 THEN servNameOf(h.services[k].name, h.services[k].proto)
                                                 ELSE None
             /\ \A j \in DOMAIN names : names[j] # None =>
                  /\ IsName(Labels(names[j])) /\ Joined(Labels(names[j])) = names[j]
                  /\ Labels(names[j]) \in AnsweredFor(h)
             /\ names[1] # None /\ names[2] # None
<1> DEFINE n == Len(h.services)
           Name(k) == IF h.services[k] = None THEN None
                      ELSE servNameOf(h.services[k].name, h.services[k].proto)
           front == <<h.name, DNS_SD_SERVICE>>
           back == [k \in DOMAIN h.services |-> Name(k)]
           names == front \o back
           V == {h.name, DNS_SD_SERVICE} \cup {Name(k) : k \in DOMAIN h.services}
<1>1. OwnNames(h) = names
  BY DEF OwnNames
<1>2. n \in Nat /\ DOMAIN h.services = 1 .. n
  <2>1. h.services \in Seq({h.services[k] : k \in DOMAIN h.services})
    BY ServicesAssumption
  <2> DEFINE S == {h.services[k] : k \in DOMAIN h.services}
  <2>2. h.services \in Seq(S)
    BY <2>1
  <2> HIDE DEF S
  <2>3. QED BY <2>2
<1>3. front \in Seq(V) /\ Len(front) = 2 /\ front[1] = h.name /\ front[2] = DNS_SD_SERVICE
  OBVIOUS
<1>4. back \in Seq(V) /\ Len(back) = n /\ \A k \in 1 .. n : back[k] = Name(k)
  <2>1. back = [k \in 1 .. n |-> Name(k)] /\ \A k \in 1 .. n : Name(k) \in V
    BY <1>2
  <2> HIDE DEF n, Name, V, back
  <2>2. QED BY <1>2, <2>1
<1>5. /\ DOMAIN names = 1 .. n + 2 /\ names[1] = h.name /\ names[2] = DNS_SD_SERVICE
      /\ \A k \in 1 .. n : names[k + 2] = Name(k)
  <2> HIDE DEF front, back, V, n, Name
  <2>0. /\ names \in Seq(V) /\ Len(names) = Len(front) + Len(back)
        /\ \A i \in 1 .. Len(front) : names[i] = front[i]
        /\ \A i \in 1 .. Len(back) : names[Len(front) + i] = back[i]
    <3>1. names = front \o back
      BY DEF front, back
    <3>2. front \in Seq(V) /\ back \in Seq(V)
      BY <1>3, <1>4
    <3> HIDE DEF names
    <3>3. QED BY <3>1, <3>2, Beside
  <2> HIDE DEF names
  <2>1. names \in Seq(V) /\ Len(names) = 2 + n
    BY <1>3, <1>4, <2>0
  <2>2. names[1] = front[1] /\ names[2] = front[2] /\ \A k \in 1 .. n : names[k + 2] = back[k]
    <3>1. 1 \in 1 .. Len(front) /\ 2 \in 1 .. Len(front)
      BY <1>3
    <3>2. \A k \in 1 .. n : k + 2 = 2 + k
      BY <1>2
    <3>3. QED BY <1>3, <1>4, <2>0, <3>1, <3>2
  <2>3. DOMAIN names = 1 .. n + 2
    BY <1>2, <2>1
  <2>4. QED BY <1>3, <1>4, <2>2, <2>3
<1>6. ASSUME NEW k \in 1 .. n
      PROVE  Name(k) = IF k \in UsedBy(h) THEN servNameOf(h.services[k].name, h.services[k].proto) ELSE None
  BY <1>2 DEF UsedBy
<1>7. /\ h.name # None /\ IsName(Labels(h.name)) /\ Joined(Labels(h.name)) = h.name
      /\ Labels(h.name) \in AnsweredFor(h) /\ Labels(DNS_SD_SERVICE) \in AnsweredFor(h)
  BY HostIs DEF AnsweredFor
<1>8. DNS_SD_SERVICE # None
  <2>1. Len(Joined(Labels(DNS_SD_SERVICE))) \in Nat \ {0} /\ Len(<<>>) = 0
    BY GeneralServiceIs, WireLength
  <2>2. QED BY <2>1, GeneralServiceIs DEF None
<1>9. ASSUME NEW k \in UsedBy(h)
      PROVE  LET s == servNameOf(h.services[k].name, h.services[k].proto) IN
             IsName(Labels(s)) /\ Joined(Labels(s)) = s /\ Labels(s) \in AnsweredFor(h)
  BY ServiceOf DEF ServiceLabels
<1> HIDE DEF names, n, Name
<1>10. ASSUME NEW j \in DOMAIN names, names[j] # None
       PROVE  /\ IsName(Labels(names[j])) /\ Joined(Labels(names[j])) = names[j]
              /\ Labels(names[j]) \in AnsweredFor(h)
  <2>1. CASE j = 1 BY <1>5, <1>7, <2>1
  <2>2. CASE j = 2 BY <1>5, <1>7, <2>2, GeneralServiceIs
  <2>3. CASE j > 2
    <3>1. j - 2 \in 1 .. n /\ (j - 2) + 2 = j
      BY <1>2, <1>5, <2>3
    <3>2. names[j] = Name(j - 2)
      BY <1>5, <3>1
    <3>3. j - 2 \in UsedBy(h) /\ names[j] = servNameOf(h.services[j - 2].name, h.services[j - 2].proto)
      BY <1>6, <1>10, <3>1, <3>2
    <3>4. QED BY <1>9, <3>3
  <2>4. QED BY <1>2, <1>5, <2>1, <2>2, <2>3
<1>11. QED BY <1>1, <1>2, <1>5, <1>6, <1>7, <1>8, <1>10 DEF n

-----------------------------------------------------------------------------
(* What a question is taken for. *)

\* A question for one of the names of a host is taken for it when it spells it out, and for
\* no other of them.
LEMMA SpelledIs ==
  ASSUME NEW h \in Hosts, NEW name, IsName(Labels(name)), Joined(Labels(name)) = name, name # None,
         Labels(name) \in AnsweredFor(h), NEW q \in Asked(h)
  PROVE  Spelled(name, q) <=> q.labels = Labels(name)
<1> DEFINE m == Labels(name)
<1>1. PICK l \in AskedFor(h) : q.labels = l \/ q.labels = Front(l)
  <2>1. PICK l \in AskedFor(h), ptr \in {0, 1}, type \in {"A", "AAAA", "PTR", "SRV"} :
          q = Record(l, ptr, type, None) \/ q = Record(Front(l), 1, type, None)
    BY DEF Asked
  <2>2. QED BY <2>1 DEF Record
<1>2. FlattenSeq(l) = FlattenSeq(m) => l = m
  BY ServicesAssumption
<1>3. FlattenSeq(Front(l)) # FlattenSeq(m)
  BY ServicesAssumption
<1>4. IsName(l)
  <2>1. CASE l = SubSeq(Labels(h.name), 1, 1)
    <3>1. IsName(Labels(h.name))
      BY HostIs
    <3>2. SubSeq(Labels(h.name), 1, 1) = <<Labels(h.name)[1]>> /\ IsLabel(Labels(h.name)[1])
      <4>1. \A L : IsName(L) => SubSeq(L, 1, 1) = <<L[1]>> /\ IsLabel(L[1])
        <5> SUFFICES ASSUME NEW L, IsName(L) PROVE SubSeq(L, 1, 1) = <<L[1]>> /\ IsLabel(L[1])
          OBVIOUS
        <5>1. L \in Seq(Seq(Int)) /\ L # <<>> /\ \A k \in 1 .. Len(L) : IsLabel(L[k])
          BY DEF IsName
        <5>2. 1 \in 1 .. Len(L)
          BY <5>1
        <5>3. SubSeq(L, 1, 1) = <<L[1]>>
          <6>1. 0 \in 0 .. Len(L) - 1 /\ 0 + 1 = 1
            BY <5>1, <5>2
          <6>2. SubSeq(L, 1, 0 + 1) = Append(SubSeq(L, 1, 0), L[0 + 1]) /\ SubSeq(L, 1, 0) = <<>>
            BY <5>1, <6>1, LongerPrefix, EmptyPrefix
          <6>3. Append(<<>>, L[1]) = <<L[1]>>
            BY <5>1, <5>2, NameOfOne
          <6>4. QED BY <6>1, <6>2, <6>3
        <5>4. QED BY <5>1, <5>2, <5>3
      <4>2. QED BY <3>1, <4>1
    <3>3. QED BY <2>1, <3>2, NameOfOne
  <2>2. CASE l \in AnsweredFor(h)
    BY <2>2, HostIs, GeneralServiceIs, ServiceOf DEF AnsweredFor, UsedBy
  <2>3. QED BY <2>1, <2>2 DEF AskedFor
<1>5. HeaderSize = BufSize
  BY DEF HeaderSize, BufSize
<1>6. Spelled(name, q) <=> nameMatches(name, q.labels, BufSize)
  BY <1>5 DEF Spelled
<1> HIDE DEF m
<1>7. ASSUME NEW x, IsName(x), nameMatches(name, x, BufSize) PROVE FlattenSeq(x) = FlattenSeq(m)
  <2>1. nameMatches(Joined(m), x, BufSize) => FlattenSeq(x) = FlattenSeq(m)
    BY <1>7, QuestionsOf DEF m
  <2>2. QED BY <1>7, <2>1 DEF m
<1>8. nameMatches(name, m, BufSize)
  <2>1. nameMatches(Joined(m), m, BufSize)
    BY QuestionsOf DEF m
  <2>2. QED BY <2>1 DEF m
<1>9. ~nameMatches(name, <<>>, BufSize)
  <2>1. MatchEnd(name, <<>>) = MatchStart(name)
    <3>1. name \in Seq(Int)
      BY WireLength
    <3>2. QED BY <3>1, MatchEndEmpty
  <2>2. QED BY <2>1, MatchesAre DEF MatchStart, None
<1>10. CASE q.labels = l
  <2>1. nameMatches(name, l, BufSize) <=> l = m
    BY <1>2, <1>4, <1>7, <1>8
  <2>2. QED BY <1>6, <1>10, <2>1 DEF m
<1>11. CASE q.labels = Front(l)
  <2>1. Front(l) = <<>> \/ IsName(Front(l))
    <3> DEFINE f == Front(l)
    <3>1. l \in Seq(Seq(Int)) /\ l # <<>> /\ \A k \in 1 .. Len(l) : IsLabel(l[k])
      BY <1>4 DEF IsName
    <3>2. f \in Seq(Seq(Int)) /\ Len(f) = Len(l) - 1 /\ \A k \in 1 .. Len(f) : f[k] = l[k]
      <4> DEFINE n == Len(l)
                 T == Seq(Int)
      <4>1. n \in Nat /\ n # 0 /\ l \in Seq(T) /\ \A i \in 1 .. n - 1 : l[i] \in T
        BY <3>1
      <4> HIDE DEF T, n
      <4>2. 1 \in Int /\ n - 1 \in Int
        BY <4>1
      <4>3. /\ SubSeq(l, 1, n - 1) \in Seq(T)
            /\ Len(SubSeq(l, 1, n - 1)) = IF 1 <= n - 1 THEN (n - 1) - 1 + 1 ELSE 0
            /\ \A i \in 1 .. (n - 1) - 1 + 1 : SubSeq(l, 1, n - 1)[i] = l[1 + i - 1]
        BY <4>1, <4>2, SubSeqProperties
      <4>4. f = SubSeq(l, 1, n - 1)
        BY DEF Front, n
      <4> HIDE DEF f
      <4>5. Len(f) = n - 1
        BY <4>1, <4>3, <4>4
      <4>6. \A k \in 1 .. n - 1 : f[k] = l[k]
        BY <4>1, <4>3, <4>4
      <4>7. QED BY <4>3, <4>4, <4>5, <4>6 DEF n, T
    <3>3. \A k \in 1 .. Len(f) : k \in 1 .. Len(l)
      BY <3>1, <3>2
    <3> HIDE DEF f
    <3>4. \A k \in 1 .. Len(f) : IsLabel(f[k])
      BY <3>1, <3>2, <3>3
    <3>5. f # <<>> => IsName(f)
      BY <3>2, <3>4 DEF IsName
    <3>6. QED BY <3>5 DEF f
  <2>2. ~nameMatches(name, Front(l), BufSize)
    BY <1>3, <1>7, <1>9, <2>1
  <2>3. Front(l) # m
    BY <1>3
  <2>4. QED BY <1>6, <1>11, <2>2, <2>3 DEF m
<1>12. QED BY <1>1, <1>10, <1>11

-----------------------------------------------------------------------------
(* The questions of a packet, one after the other. *)

AskedStates(h) == [asked : SUBSET (DOMAIN OwnNames(h)), six : {TRUE, FALSE}]
AskedStart == [asked |-> {}, six |-> FALSE]
AskedStep(h, st, q) ==
  LET names == OwnNames(h)
      Hit == {j \in DOMAIN names : j \notin st.asked /\ Spelled(names[j], q)}
  IN  [asked |-> st.asked \cup {j \in Hit : Asks(j, q.type)},
       six |-> st.six \/ (1 \in Hit /\ q.type = "AAAA")]
AskedEnd(h, qs) == FoldLeft(LAMBDA st, q : AskedStep(h, st, q), AskedStart, qs)

LEMMA QuestionsRead ==
  ASSUME NEW h, NEW qs
  PROVE  readQuestions(h, qs) = AskedEnd(h, qs)
BY DEF readQuestions, AskedEnd, AskedStep, AskedStart

LEMMA AskedEndType ==
  ASSUME NEW h
  PROVE  /\ AskedStart \in AskedStates(h)
         /\ \A st \in AskedStates(h), q \in Asked(h) : AskedStep(h, st, q) \in AskedStates(h)
<1>1. AskedStart \in AskedStates(h)
  BY DEF AskedStart, AskedStates
<1>2. ASSUME NEW st \in AskedStates(h), NEW q \in Asked(h) PROVE AskedStep(h, st, q) \in AskedStates(h)
  <2> DEFINE Hit == {j \in DOMAIN OwnNames(h) : j \notin st.asked /\ Spelled(OwnNames(h)[j], q)}
             a == st.asked \cup {j \in Hit : Asks(j, q.type)}
             b == st.six \/ (1 \in Hit /\ q.type = "AAAA")
  <2>1. st.asked \in SUBSET (DOMAIN OwnNames(h)) /\ st.six \in {TRUE, FALSE}
    BY DEF AskedStates
  <2>2. a \in SUBSET (DOMAIN OwnNames(h))
    BY <2>1
  <2>3. b \in {TRUE, FALSE}
    BY <2>1
  <2>4. AskedStep(h, st, q) = [asked |-> a, six |-> b]
    BY DEF AskedStep
  <2>5. \A S, B : \A x \in S, y \in B : [asked |-> x, six |-> y] \in [asked : S, six : B]
    OBVIOUS
  <2> HIDE DEF a, b
  <2>6. [asked |-> a, six |-> b] \in [asked : SUBSET (DOMAIN OwnNames(h)), six : {TRUE, FALSE}]
    BY <2>2, <2>3, <2>5, Zenon
  <2>7. QED BY <2>4, <2>6, Zenon DEF AskedStates
<1>3. QED BY <1>1, <1>2

AskedEndRun(h, s, run) ==
  /\ run \in [0 .. Len(s) -> AskedStates(h)] /\ run[0] = AskedStart /\ run[Len(s)] = AskedEnd(h, s)
  /\ \A k \in 1 .. Len(s) : run[k] = AskedStep(h, run[k - 1], s[k])

LEMMA AskedEndRuns ==
  ASSUME NEW h, NEW s \in Seq(Asked(h))
  PROVE  \E run : AskedEndRun(h, s, run)
<1> DEFINE n == Len(s)
           St == AskedStates(h)
           base == AskedStart
           step == [x \in St \X (1 .. n) |-> AskedStep(h, x[1], s[x[2]])]
           Eq(f) == f = [T \in SUBSET DOMAIN s |->
                      IF T = {} THEN base ELSE AskedStep(h, f[T \ {Max(T)}], s[Max(T)])]
           f == CHOOSE g : Eq(g)
<1>1. AskedEnd(h, s) = f[DOMAIN s]
  BY DEF AskedEnd, FoldLeft, MapThenFoldSet
<1>2. n \in Nat /\ DOMAIN s = 1 .. n
  OBVIOUS
<1>0. base \in St /\ \A st \in St, c \in Asked(h) : AskedStep(h, st, c) \in St
  BY AskedEndType
<1>3. base \in St
  BY <1>0
<1>4. step \in [St \X (1 .. n) -> St]
  <2>1. \A k \in 1 .. n : s[k] \in Asked(h)
    OBVIOUS
  <2> HIDE DEF n, St, base
  <2>2. \A x \in St \X (1 .. n) : AskedStep(h, x[1], s[x[2]]) \in St
    BY <1>0, <2>1
  <2>3. QED BY <2>2
<1>5. \A st \in St, k \in 1 .. n : step[<<st, k>>] = AskedStep(h, st, s[k])
  OBVIOUS
<1> HIDE DEF n, St, base, step, f
<1>6. PICK g \in [SUBSET (1 .. n) -> St] : FoldOf(n, base, step, g)
  BY <1>2, <1>3, <1>4, FoldExists
<1>7. Eq(g)
  <2>1. ASSUME NEW T \in SUBSET (1 .. n), T # {}
        PROVE  step[<<g[T \ {Max(T)}], Max(T)>>] = AskedStep(h, g[T \ {Max(T)}], s[Max(T)])
    <3>1. Max(T) \in 1 .. n
      BY <1>2, <2>1, MaxIs
    <3>2. g[T \ {Max(T)}] \in St
      OBVIOUS
    <3>3. QED BY <1>5, <3>1, <3>2
  <2>2. QED BY ONLY <1>2, <1>6, <2>1 DEF FoldOf
<1>8. Eq(f)
  BY <1>7 DEF f
<1>9. f[{}] = base
  BY <1>8
<1>10. ASSUME NEW k \in 1 .. n, f[1 .. (k - 1)] \in St
       PROVE  f[1 .. k] = step[<<f[1 .. (k - 1)], k>>]
  <2>1. 1 .. k \in SUBSET DOMAIN s /\ 1 .. k # {} /\ k \in Nat \ {0}
    BY <1>2, UpTo
  <2>2. f[1 .. k] = AskedStep(h, f[(1 .. k) \ {Max(1 .. k)}], s[Max(1 .. k)])
    BY <1>8, <2>1
  <2>3. Max(1 .. k) = k /\ (1 .. k) \ {Max(1 .. k)} = 1 .. (k - 1)
    BY <2>1, LessTheLast
  <2>4. f[1 .. k] = AskedStep(h, f[1 .. (k - 1)], s[k])
    BY ONLY <2>2, <2>3
  <2>5. QED BY ONLY <1>5, <1>10, <2>4
<1>11. PICK run \in [0 .. n -> St] : RunOf(n, base, step, f[1 .. n], run)
  BY <1>2, <1>3, <1>4, <1>9, <1>10, FoldRuns
<1>12. \A k \in 1 .. n : run[k] = AskedStep(h, run[k - 1], s[k])
  <2>1. \A k \in 1 .. n : run[k - 1] \in St
    BY <1>2
  <2>2. QED BY <1>5, <1>11, <2>1 DEF RunOf
<1>13. AskedEndRun(h, s, run)
  BY <1>1, <1>2, <1>11, <1>12 DEF n, St, base, RunOf, AskedEndRun
<1>14. QED BY <1>13

LEMMA AskedEndAppend ==
  ASSUME NEW h, NEW s \in Seq(Asked(h)), NEW c \in Asked(h)
  PROVE  /\ AskedEnd(h, s) \in AskedStates(h)
         /\ AskedEnd(h, Append(s, c)) = AskedStep(h, AskedEnd(h, s), c)
<1> DEFINE t == Append(s, c)
           n == Len(s)
<1>1. /\ t \in Seq(Asked(h)) /\ Len(t) = n + 1 /\ n \in Nat /\ t[n + 1] = c
      /\ \A k \in 1 .. n : t[k] = s[k]
  OBVIOUS
<1>2. n + 1 \in 1 .. n + 1 /\ (n + 1) - 1 = n
  OBVIOUS
<1>3. PICK r : AskedEndRun(h, s, r)
  BY AskedEndRuns
<1>10. /\ r \in [0 .. n -> AskedStates(h)] /\ r[0] = AskedStart /\ r[n] = AskedEnd(h, s)
      /\ \A k \in 1 .. n : r[k] = AskedStep(h, r[k - 1], s[k])
  BY <1>3 DEF AskedEndRun
<1> HIDE DEF t, n
<1>4. PICK q : AskedEndRun(h, t, q)
  BY <1>1, AskedEndRuns
<1>11. /\ q \in [0 .. Len(t) -> AskedStates(h)] /\ q[0] = AskedStart /\ q[Len(t)] = AskedEnd(h, t)
      /\ \A k \in 1 .. Len(t) : q[k] = AskedStep(h, q[k - 1], t[k])
  BY <1>4 DEF AskedEndRun
<1>5. r[n] = q[n]
  <2>1. \A k \in 1 .. n : k \in 1 .. Len(t)
    BY <1>1
  <2>2. \A k \in 1 .. n : r[k - 1] = q[k - 1] => r[k] = q[k]
    BY ONLY <1>1, <1>10, <1>11, <2>1
  <2>3. r[0] = q[0] /\ n \in Nat
    BY <1>1, <1>10, <1>11
  <2>4. QED BY ONLY <2>2, <2>3, SameRuns
<1>6. q[n + 1] = AskedStep(h, q[n], c)
  <2>1. n + 1 \in 1 .. Len(t)
    BY <1>1, <1>2
  <2>2. QED BY ONLY <1>1, <1>2, <1>11, <2>1
<1>7. AskedEnd(h, s) \in AskedStates(h)
  BY <1>1, <1>10
<1>8. AskedEnd(h, t) = AskedStep(h, AskedEnd(h, s), c)
  BY <1>1, <1>10, <1>11, <1>5, <1>6
<1>9. QED BY <1>7, <1>8 DEF t

LEMMA AskedEndEmpty ==
  ASSUME NEW h
  PROVE  AskedEnd(h, <<>>) = AskedStart
<1>1. <<>> \in Seq(Asked(h)) /\ Len(<<>>) = 0
  OBVIOUS
<1>2. PICK run : AskedEndRun(h, <<>>, run)
  BY <1>1, AskedEndRuns
<1>3. run[0] = AskedStart /\ run[Len(<<>>)] = AskedEnd(h, <<>>)
  BY <1>2 DEF AskedEndRun
<1>4. QED BY <1>1, <1>3

\* What one question adds.
Takes(h, j, q) == Spelled(OwnNames(h)[j], q) /\ Asks(j, q.type)
TakesSix(h, q) == Spelled(OwnNames(h)[1], q) /\ q.type = "AAAA"

LEMMA AskedStepIs ==
  ASSUME NEW h \in Hosts, NEW st \in AskedStates(h), NEW q
  PROVE  /\ \A j \in DOMAIN OwnNames(h) :
              j \in AskedStep(h, st, q).asked <=> j \in st.asked \/ Takes(h, j, q)
         /\ AskedStep(h, st, q).six = TRUE <=>
              st.six = TRUE \/ (1 \notin st.asked /\ TakesSix(h, q))
<1> DEFINE Hit == {j \in DOMAIN OwnNames(h) : j \notin st.asked /\ Spelled(OwnNames(h)[j], q)}
           a == st.asked \cup {j \in Hit : Asks(j, q.type)}
           b == st.six \/ (1 \in Hit /\ q.type = "AAAA")
<1>1. AskedStep(h, st, q) = [asked |-> a, six |-> b]
  BY DEF AskedStep
<1>2. \A j \in DOMAIN OwnNames(h) : j \in a <=> j \in st.asked \/ Takes(h, j, q)
  BY DEF Takes
<1>3. 1 \in DOMAIN OwnNames(h)
  <2>1. \E n \in Nat : DOMAIN OwnNames(h) = 1 .. n + 2
    BY OwnNamesAre
  <2>2. QED BY <2>1
<1>4. 1 \in Hit <=> 1 \notin st.asked /\ Spelled(OwnNames(h)[1], q)
  BY <1>3
<1>5. st.six \in {TRUE, FALSE}
  BY DEF AskedStates
<1> HIDE DEF Hit
<1>6. b \in {TRUE, FALSE} /\ (b = TRUE <=> st.six = TRUE \/ (1 \notin st.asked /\ TakesSix(h, q)))
  BY <1>4, <1>5 DEF TakesSix
<1> HIDE DEF a, b
<1>7. AskedStep(h, st, q).asked = a /\ AskedStep(h, st, q).six = b
  BY <1>1
<1>8. QED BY <1>2, <1>6, <1>7

\* What is asked for after a number of questions: what one of them asks for, and the missing
\* address when none asked for the address before.
AskedBy(h, qs) ==
  /\ \A j \in DOMAIN OwnNames(h) :
       j \in AskedEnd(h, qs).asked <=> \E i \in 1 .. Len(qs) : Takes(h, j, qs[i])
  /\ AskedEnd(h, qs).six = TRUE <=>
       \E i \in 1 .. Len(qs) : TakesSix(h, qs[i]) /\ \A k \in 1 .. i - 1 : ~Takes(h, 1, qs[k])

LEMMA AskedAll ==
  ASSUME NEW h \in Hosts, NEW qs \in Seq(Asked(h))
  PROVE  AskedEnd(h, qs) \in AskedStates(h) /\ AskedBy(h, qs)
<1> DEFINE G == {s \in Seq(Asked(h)) : AskedBy(h, s)}
<1>1. <<>> \in G
  <2>1. AskedEnd(h, <<>>) = AskedStart /\ <<>> \in Seq(Asked(h)) /\ Len(<<>>) = 0
    BY AskedEndEmpty
  <2>2. AskedStart.asked = {} /\ AskedStart.six = FALSE
    BY DEF AskedStart
  <2>3. ~\E i \in 1 .. Len(<<>>) : TRUE
    BY <2>1
  <2>4. QED BY <2>1, <2>2, <2>3 DEF AskedBy
<1>2. ASSUME NEW s \in Seq(Asked(h)), NEW q \in Asked(h), s \in G PROVE Append(s, q) \in G
  <2> DEFINE t == Append(s, q)
             n == Len(s)
             st == AskedEnd(h, s)
             e == AskedEnd(h, t)
  <2>1. st \in AskedStates(h) /\ e = AskedStep(h, st, q)
    BY AskedEndAppend
  <2>2. t \in Seq(Asked(h)) /\ Len(t) = n + 1 /\ n \in Nat /\ t[n + 1] = q /\ \A i \in 1 .. n : t[i] = s[i]
    OBVIOUS
  <2>3. /\ \A j \in DOMAIN OwnNames(h) : j \in st.asked <=> \E i \in 1 .. n : Takes(h, j, s[i])
        /\ st.six = TRUE <=> \E i \in 1 .. n : TakesSix(h, s[i]) /\ \A k \in 1 .. i - 1 : ~Takes(h, 1, s[k])
    BY <1>2 DEF AskedBy
  <2>4. 1 \in DOMAIN OwnNames(h)
    <3>1. \E m \in Nat : DOMAIN OwnNames(h) = 1 .. m + 2
      BY OwnNamesAre
    <3>2. QED BY <3>1
  <2> HIDE DEF t, n, st, e
  <2>5. /\ \A j \in DOMAIN OwnNames(h) : j \in e.asked <=> j \in st.asked \/ Takes(h, j, q)
        /\ e.six = TRUE <=> st.six = TRUE \/ (1 \notin st.asked /\ TakesSix(h, q))
    BY <2>1, AskedStepIs
  <2>6. \A i \in 1 .. n + 1 : i \in 1 .. n \/ i = n + 1
    BY <2>2
  <2>7. (\A i \in 1 .. n : i \in 1 .. n + 1) /\ n + 1 \in 1 .. n + 1 /\ (n + 1) - 1 = n
    BY <2>2
  <2>8. ASSUME NEW j \in DOMAIN OwnNames(h)
        PROVE  j \in e.asked <=> \E i \in 1 .. n + 1 : Takes(h, j, t[i])
    BY <2>2, <2>3, <2>5, <2>6, <2>7
  <2>9. ASSUME NEW i \in 1 .. n
        PROVE  (TakesSix(h, t[i]) /\ \A k \in 1 .. i - 1 : ~Takes(h, 1, t[k])) <=>
               (TakesSix(h, s[i]) /\ \A k \in 1 .. i - 1 : ~Takes(h, 1, s[k]))
    <3>1. \A k \in 1 .. i - 1 : k \in 1 .. n
      BY <2>2
    <3>2. QED BY <2>2, <3>1
  <2>10. (TakesSix(h, t[n + 1]) /\ \A k \in 1 .. (n + 1) - 1 : ~Takes(h, 1, t[k])) <=>
         (TakesSix(h, q) /\ 1 \notin st.asked)
    BY <2>2, <2>3, <2>4, <2>7
  <2>11. e.six = TRUE <=>
           \E i \in 1 .. n + 1 : TakesSix(h, t[i]) /\ \A k \in 1 .. i - 1 : ~Takes(h, 1, t[k])
    BY <2>3, <2>5, <2>6, <2>7, <2>9, <2>10
  <2>12. AskedBy(h, t)
    BY <2>2, <2>8, <2>11 DEF AskedBy, e
  <2>13. QED BY <2>2, <2>12 DEF t
<1>3. \A s \in Seq(Asked(h)) : s \in G
  <2>1. \A s \in Seq(Asked(h)), q \in Asked(h) : s \in G => Append(s, q) \in G
    BY <1>2
  <2> HIDE DEF G
  <2>2. QED BY <1>1, <2>1, SequencesGrow
<1>4. AskedEnd(h, qs) \in AskedStates(h)
  <2>1. PICK run : AskedEndRun(h, qs, run)
    BY AskedEndRuns
  <2>2. Len(qs) \in 0 .. Len(qs)
    OBVIOUS
  <2>3. QED BY <2>1, <2>2 DEF AskedEndRun
<1>5. QED BY <1>3, <1>4

-----------------------------------------------------------------------------
(* The packets sent in return. *)

\* A sequence that goes on with something new.
LEMMA OneMoreOf ==
  ASSUME NEW S, NEW s \in Seq(S), NEW x \in S
  PROVE  /\ Append(s, x) \in Seq(S) /\ Range(Append(s, x)) = Range(s) \cup {x}
         /\ IsInjective(s) /\ x \notin Range(s) => IsInjective(Append(s, x))
<1> DEFINE t == Append(s, x)
           n == Len(s)
<1>1. t \in Seq(S) /\ Len(t) = n + 1 /\ n \in Nat /\ t[n + 1] = x /\ \A i \in 1 .. n : t[i] = s[i]
  OBVIOUS
<1>2. DOMAIN s = 1 .. n /\ DOMAIN t = 1 .. n + 1
  BY <1>1
<1> HIDE DEF t, n
<1>3. (\A i \in 1 .. n + 1 : i \in 1 .. n \/ i = n + 1) /\ (\A i \in 1 .. n : i \in 1 .. n + 1)
      /\ n + 1 \in 1 .. n + 1
  BY <1>1
<1>4. Range(t) = Range(s) \cup {x}
  <2>1. \A y \in Range(t) : y \in Range(s) \cup {x}
    BY <1>1, <1>2, <1>3 DEF Range
  <2>2. \A y \in Range(s) : y \in Range(t)
    BY <1>1, <1>2, <1>3 DEF Range
  <2>3. x \in Range(t)
    BY <1>1, <1>2, <1>3 DEF Range
  <2>4. QED BY <2>1, <2>2, <2>3
<1>5. ASSUME IsInjective(s), x \notin Range(s), NEW i \in DOMAIN t, NEW j \in DOMAIN t, t[i] = t[j]
      PROVE  i = j
  <2>1. \A k \in 1 .. n : s[k] # x
    BY <1>2, <1>5 DEF Range
  <2>2. \A k, l \in 1 .. n : s[k] = s[l] => k = l
    BY <1>2, <1>5 DEF IsInjective
  <2>3. (i \in 1 .. n \/ i = n + 1) /\ (j \in 1 .. n \/ j = n + 1)
    BY <1>2, <1>3, <1>5
  <2>4. QED BY ONLY <1>1, <1>5, <2>1, <2>2, <2>3
<1>6. QED BY <1>1, <1>4, <1>5 DEF t, IsInjective

\* Two sequences that have nothing in common.
LEMMA BothOf ==
  ASSUME NEW S, NEW s \in Seq(S), NEW t \in Seq(S)
  PROVE  /\ s \o t \in Seq(S) /\ Range(s \o t) = Range(s) \cup Range(t)
         /\ IsInjective(s) /\ IsInjective(t) /\ Range(s) \cap Range(t) = {} => IsInjective(s \o t)
<1> DEFINE u == s \o t
           m == Len(s)
           n == Len(t)
<1>1. /\ u \in Seq(S) /\ Len(u) = m + n
      /\ \A i \in 1 .. m : u[i] = s[i]
      /\ \A i \in 1 .. n : u[m + i] = t[i]
  BY Beside
<1>2. m \in Nat /\ n \in Nat /\ DOMAIN s = 1 .. m /\ DOMAIN t = 1 .. n
  OBVIOUS
<1> HIDE DEF u, m, n
<1>3. DOMAIN u = 1 .. m + n
  BY <1>1, <1>2
<1>4. /\ \A i \in 1 .. m + n : i \in 1 .. m \/ \E k \in 1 .. n : i = m + k
      /\ \A i \in 1 .. m : i \in 1 .. m + n
      /\ \A i \in 1 .. n : m + i \in 1 .. m + n
  <2>1. ASSUME NEW i \in 1 .. m + n, i \notin 1 .. m PROVE \E k \in 1 .. n : i = m + k
    <3>1. i - m \in 1 .. n /\ i = m + (i - m)
      BY <1>2, <2>1
    <3>2. QED BY <3>1
  <2>2. QED BY <1>2, <2>1
<1>5. Range(u) = Range(s) \cup Range(t)
  <2>1. ASSUME NEW y \in Range(u) PROVE y \in Range(s) \cup Range(t)
    <3>1. PICK i \in 1 .. m + n : y = u[i]
      BY <1>3, <2>1 DEF Range
    <3>2. CASE i \in 1 .. m
      BY <1>1, <1>2, <3>1, <3>2 DEF Range
    <3>3. CASE \E k \in 1 .. n : i = m + k
      BY <1>1, <1>2, <3>1, <3>3 DEF Range
    <3>4. QED BY <1>4, <3>2, <3>3
  <2>2. ASSUME NEW y \in Range(s) PROVE y \in Range(u)
    BY <1>1, <1>2, <1>3, <1>4 DEF Range
  <2>3. ASSUME NEW y \in Range(t) PROVE y \in Range(u)
    BY <1>1, <1>2, <1>3, <1>4 DEF Range
  <2>4. QED BY <2>1, <2>2, <2>3
<1>6. ASSUME IsInjective(s), IsInjective(t), Range(s) \cap Range(t) = {},
             NEW i \in DOMAIN u, NEW j \in DOMAIN u, u[i] = u[j]
      PROVE  i = j
  <2>1. \A k \in 1 .. m, l \in 1 .. n : s[k] # t[l]
    BY <1>2, <1>6 DEF Range
  <2>2. \A k, l \in 1 .. m : s[k] = s[l] => k = l
    BY <1>2, <1>6 DEF IsInjective
  <2>3. \A k, l \in 1 .. n : t[k] = t[l] => k = l
    BY <1>2, <1>6 DEF IsInjective
  <2>4. (i \in 1 .. m \/ \E k \in 1 .. n : i = m + k) /\ (j \in 1 .. m \/ \E k \in 1 .. n : j = m + k)
    BY <1>3, <1>4, <1>6
  <2>5. CASE i \in 1 .. m /\ j \in 1 .. m
    BY ONLY <1>1, <1>6, <2>2, <2>5
  <2>6. CASE i \in 1 .. m /\ \E k \in 1 .. n : j = m + k
    BY ONLY <1>1, <1>6, <2>1, <2>6
  <2>7. CASE j \in 1 .. m /\ \E k \in 1 .. n : i = m + k
    BY ONLY <1>1, <1>6, <2>1, <2>7
  <2>8. CASE (\E k \in 1 .. n : i = m + k) /\ \E k \in 1 .. n : j = m + k
    <3>1. PICK k \in 1 .. n, l \in 1 .. n : i = m + k /\ j = m + l
      BY <2>8
    <3>2. k = l
      BY ONLY <1>1, <1>6, <2>3, <3>1
    <3>3. QED BY <3>1, <3>2
  <2>9. QED BY ONLY <2>4, <2>5, <2>6, <2>7, <2>8
<1>7. QED BY <1>1, <1>5, <1>6 DEF u, IsInjective

LEMMA AtMostOne ==
  ASSUME NEW S, NEW x \in S, NEW c \in BOOLEAN
  PROVE  LET s == IF c THEN <<x>> ELSE <<>> IN
         s \in Seq(S) /\ IsInjective(s) /\ Range(s) = IF c THEN {x} ELSE {}
BY DEF IsInjective, Range

\* The service records that are sent.
RecordOf(h, k) == ServiceRecord(h, h.services[k])
RecordsOf(h) == {RecordOf(h, k) : k \in DOMAIN h.services}
SendStep(h, W, sent, k) == IF k \in W THEN Append(sent, RecordOf(h, k)) ELSE sent
SendEnd(h, W, ks) == FoldLeft(LAMBDA sent, k : SendStep(h, W, sent, k), <<>>, ks)

LEMMA SendEndType ==
  ASSUME NEW h, NEW W
  PROVE  /\ <<>> \in Seq(RecordsOf(h))
         /\ \A sent \in Seq(RecordsOf(h)), k \in DOMAIN h.services :
              SendStep(h, W, sent, k) \in Seq(RecordsOf(h))
<1>1. \A k \in DOMAIN h.services : RecordOf(h, k) \in RecordsOf(h)
  BY DEF RecordsOf
<1> DEFINE S == RecordsOf(h)
<1> HIDE DEF S
<1>2. <<>> \in Seq(S) /\ \A sent \in Seq(S), x \in S : Append(sent, x) \in Seq(S)
  OBVIOUS
<1>3. QED BY <1>1, <1>2 DEF SendStep, S

SendEndRun(h, W, s, run) ==
  /\ run \in [0 .. Len(s) -> Seq(RecordsOf(h))] /\ run[0] = <<>> /\ run[Len(s)] = SendEnd(h, W, s)
  /\ \A k \in 1 .. Len(s) : run[k] = SendStep(h, W, run[k - 1], s[k])

LEMMA SendEndRuns ==
  ASSUME NEW h, NEW W, NEW s \in Seq(DOMAIN h.services)
  PROVE  \E run : SendEndRun(h, W, s, run)
<1> DEFINE n == Len(s)
           St == Seq(RecordsOf(h))
           base == <<>>
           step == [x \in St \X (1 .. n) |-> SendStep(h, W, x[1], s[x[2]])]
           Eq(f) == f = [T \in SUBSET DOMAIN s |->
                      IF T = {} THEN base ELSE SendStep(h, W, f[T \ {Max(T)}], s[Max(T)])]
           f == CHOOSE g : Eq(g)
<1>1. SendEnd(h, W, s) = f[DOMAIN s]
  BY DEF SendEnd, FoldLeft, MapThenFoldSet
<1>2. n \in Nat /\ DOMAIN s = 1 .. n
  OBVIOUS
<1>0. base \in St /\ \A st \in St, c \in DOMAIN h.services : SendStep(h, W, st, c) \in St
  BY SendEndType
<1>3. base \in St
  BY <1>0
<1>4. step \in [St \X (1 .. n) -> St]
  <2>1. \A k \in 1 .. n : s[k] \in DOMAIN h.services
    OBVIOUS
  <2> HIDE DEF n, St, base
  <2>2. \A x \in St \X (1 .. n) : SendStep(h, W, x[1], s[x[2]]) \in St
    BY <1>0, <2>1
  <2>3. QED BY <2>2
<1>5. \A st \in St, k \in 1 .. n : step[<<st, k>>] = SendStep(h, W, st, s[k])
  OBVIOUS
<1> HIDE DEF n, St, base, step, f
<1>6. PICK g \in [SUBSET (1 .. n) -> St] : FoldOf(n, base, step, g)
  BY <1>2, <1>3, <1>4, FoldExists
<1>7. Eq(g)
  <2>1. ASSUME NEW T \in SUBSET (1 .. n), T # {}
        PROVE  step[<<g[T \ {Max(T)}], Max(T)>>] = SendStep(h, W, g[T \ {Max(T)}], s[Max(T)])
    <3>1. Max(T) \in 1 .. n
      BY <1>2, <2>1, MaxIs
    <3>2. g[T \ {Max(T)}] \in St
      OBVIOUS
    <3>3. QED BY <1>5, <3>1, <3>2
  <2>2. QED BY ONLY <1>2, <1>6, <2>1 DEF FoldOf
<1>8. Eq(f)
  BY <1>7 DEF f
<1>9. f[{}] = base
  BY <1>8
<1>10. ASSUME NEW k \in 1 .. n, f[1 .. (k - 1)] \in St
       PROVE  f[1 .. k] = step[<<f[1 .. (k - 1)], k>>]
  <2>1. 1 .. k \in SUBSET DOMAIN s /\ 1 .. k # {} /\ k \in Nat \ {0}
    BY <1>2, UpTo
  <2>2. f[1 .. k] = SendStep(h, W, f[(1 .. k) \ {Max(1 .. k)}], s[Max(1 .. k)])
    BY <1>8, <2>1
  <2>3. Max(1 .. k) = k /\ (1 .. k) \ {Max(1 .. k)} = 1 .. (k - 1)
    BY <2>1, LessTheLast
  <2>4. f[1 .. k] = SendStep(h, W, f[1 .. (k - 1)], s[k])
    BY ONLY <2>2, <2>3
  <2>5. QED BY ONLY <1>5, <1>10, <2>4
<1>11. PICK run \in [0 .. n -> St] : RunOf(n, base, step, f[1 .. n], run)
  BY <1>2, <1>3, <1>4, <1>9, <1>10, FoldRuns
<1>12. \A k \in 1 .. n : run[k] = SendStep(h, W, run[k - 1], s[k])
  <2>1. \A k \in 1 .. n : run[k - 1] \in St
    BY <1>2
  <2>2. QED BY <1>5, <1>11, <2>1 DEF RunOf
<1>13. SendEndRun(h, W, s, run)
  BY <1>1, <1>2, <1>11, <1>12 DEF n, St, base, RunOf, SendEndRun
<1>14. QED BY <1>13

LEMMA SendEndAppend ==
  ASSUME NEW h, NEW W, NEW s \in Seq(DOMAIN h.services), NEW c \in DOMAIN h.services
  PROVE  /\ SendEnd(h, W, s) \in Seq(RecordsOf(h))
         /\ SendEnd(h, W, Append(s, c)) = SendStep(h, W, SendEnd(h, W, s), c)
<1> DEFINE t == Append(s, c)
           n == Len(s)
<1>1. /\ t \in Seq(DOMAIN h.services) /\ Len(t) = n + 1 /\ n \in Nat /\ t[n + 1] = c
      /\ \A k \in 1 .. n : t[k] = s[k]
  OBVIOUS
<1>2. n + 1 \in 1 .. n + 1 /\ (n + 1) - 1 = n
  OBVIOUS
<1>3. PICK r : SendEndRun(h, W, s, r)
  BY SendEndRuns
<1>10. /\ r \in [0 .. n -> Seq(RecordsOf(h))] /\ r[0] = <<>> /\ r[n] = SendEnd(h, W, s)
      /\ \A k \in 1 .. n : r[k] = SendStep(h, W, r[k - 1], s[k])
  BY <1>3 DEF SendEndRun
<1> HIDE DEF t, n
<1>4. PICK q : SendEndRun(h, W, t, q)
  BY <1>1, SendEndRuns
<1>11. /\ q \in [0 .. Len(t) -> Seq(RecordsOf(h))] /\ q[0] = <<>> /\ q[Len(t)] = SendEnd(h, W, t)
      /\ \A k \in 1 .. Len(t) : q[k] = SendStep(h, W, q[k - 1], t[k])
  BY <1>4 DEF SendEndRun
<1>5. r[n] = q[n]
  <2>1. \A k \in 1 .. n : k \in 1 .. Len(t)
    BY <1>1
  <2>2. \A k \in 1 .. n : r[k - 1] = q[k - 1] => r[k] = q[k]
    BY ONLY <1>1, <1>10, <1>11, <2>1
  <2>3. r[0] = q[0] /\ n \in Nat
    BY <1>1, <1>10, <1>11
  <2>4. QED BY ONLY <2>2, <2>3, SameRuns
<1>6. q[n + 1] = SendStep(h, W, q[n], c)
  <2>1. n + 1 \in 1 .. Len(t)
    BY <1>1, <1>2
  <2>2. QED BY ONLY <1>1, <1>2, <1>11, <2>1
<1>7. SendEnd(h, W, s) \in Seq(RecordsOf(h))
  BY <1>1, <1>10
<1>8. SendEnd(h, W, t) = SendStep(h, W, SendEnd(h, W, s), c)
  BY <1>1, <1>10, <1>11, <1>5, <1>6
<1>9. QED BY <1>7, <1>8 DEF t

LEMMA SendEndEmpty ==
  ASSUME NEW h, NEW W
  PROVE  SendEnd(h, W, <<>>) = <<>>
<1>1. <<>> \in Seq(DOMAIN h.services) /\ Len(<<>>) = 0
  OBVIOUS
<1>2. PICK run : SendEndRun(h, W, <<>>, run)
  BY <1>1, SendEndRuns
<1>3. run[0] = <<>> /\ run[Len(<<>>)] = SendEnd(h, W, <<>>)
  BY <1>2 DEF SendEndRun
<1>4. QED BY <1>1, <1>3

\* Different services have different records, and none is one of the other answers.
LEMMA RecordFields ==
  ASSUME NEW h, NEW r
  PROVE  LET p == ServiceRecord(h, r) IN
         /\ p.a = 4 /\ p.records[1].labels = InstanceLabels(r) /\ p.records[1].data.port = r.port
         /\ p.records[3].data.labels = ServiceLabels(r)
BY DEF ServiceRecord, Packet, Record

LEMMA SameFront ==
  ASSUME NEW S, NEW a \in Seq(S), NEW b \in Seq(S), NEW v \in Seq(S), a \o v = b \o v
  PROVE  a = b
<1>1. /\ Len(a \o v) = Len(a) + Len(v) /\ \A i \in 1 .. Len(a) : (a \o v)[i] = a[i]
      /\ Len(b \o v) = Len(b) + Len(v) /\ \A i \in 1 .. Len(b) : (b \o v)[i] = b[i]
  BY Beside
<1>2. Len(a) \in Nat /\ Len(b) \in Nat /\ Len(v) \in Nat
  OBVIOUS
<1>3. Len(a) = Len(b)
  BY <1>1, <1>2
<1>4. \A i \in 1 .. Len(a) : a[i] = b[i]
  BY <1>1, <1>3
<1>5. QED BY <1>3, <1>4, SeqEqual

LEMMA RecordsDiffer ==
  ASSUME NEW h \in Hosts, NEW j \in UsedBy(h), NEW k \in UsedBy(h), RecordOf(h, j) = RecordOf(h, k)
  PROVE  j = k
<1> DEFINE r == h.services[j]
           s == h.services[k]
<1>1. /\ InstanceLabels(r) = InstanceLabels(s) /\ r.port = s.port /\ ServiceLabels(r) = ServiceLabels(s)
  <2>1. ServiceRecord(h, r) = ServiceRecord(h, s)
    BY DEF RecordOf
  <2>2. QED BY <2>1, RecordFields
<1>2. /\ IsName(Labels(r.name)) /\ IsName(Labels(s.name))
      /\ Joined(Labels(r.name)) = r.name /\ Joined(Labels(s.name)) = s.name
      /\ r.proto \in {"TCP", "UDP"} /\ s.proto \in {"TCP", "UDP"}
      /\ ServiceLabels(r)[2] = (IF r.proto = "TCP" THEN TcpLabel ELSE UdpLabel)
      /\ ServiceLabels(s)[2] = (IF s.proto = "TCP" THEN TcpLabel ELSE UdpLabel)
  BY ServiceOf
<1> HIDE DEF r, s
<1>3. TcpLabel # UdpLabel
  <2>1. TcpLabel[2] = 116 /\ UdpLabel[2] = 117
    BY DEF TcpLabel, UdpLabel
  <2>2. QED BY <2>1
<1>4. r.proto = s.proto
  BY <1>1, <1>2, <1>3
<1>5. r.name = s.name
  <2> DEFINE N == Labels(postfixForProtocol(r.proto))
             T == Seq(Int)
             x == Labels(r.name)
             y == Labels(s.name)
  <2>1. x \o N = y \o N
    BY <1>1, <1>4 DEF InstanceLabels
  <2>2. N \in Seq(T)
    <3>1. PICK M : IsName(M) /\ postfixForProtocol(r.proto) = <<Dot>> \o Joined(M)
      BY <1>2, ProtocolNames
    <3>2. N = M
      BY <3>1, LabelsOfName
    <3>3. QED BY <3>1, <3>2 DEF IsName
  <2>3. x \in Seq(T) /\ y \in Seq(T)
    BY <1>2 DEF IsName
  <2> HIDE DEF N, T, x, y
  <2>4. x = y
    BY <2>1, <2>2, <2>3, SameFront
  <2>5. QED BY <1>2, <2>4 DEF x, y
<1>6. QED BY <1>1, <1>4, <1>5, ServicesAssumption DEF UsedBy, r, s

LEMMA OtherAnswers ==
  ASSUME NEW h, NEW k
  PROVE  RecordOf(h, k) # MyIPAnswer(h) /\ RecordOf(h, k) # NoIPv6AddrAvailable(h)
         /\ MyIPAnswer(h) # NoIPv6AddrAvailable(h)
<1>1. RecordOf(h, k).a = 4
  BY RecordFields DEF RecordOf
<1>2. MyIPAnswer(h).a = 1 /\ NoIPv6AddrAvailable(h).a = 0
  BY DEF MyIPAnswer, NoIPv6AddrAvailable, Packet
<1>3. QED BY <1>1, <1>2

\* The records of a set of services are sent, each once.
LEMMA RecordsSent ==
  ASSUME NEW h \in Hosts, NEW W \in SUBSET UsedBy(h)
  PROVE  LET s == SendEnd(h, W, [k \in DOMAIN h.services |-> k]) IN
         s \in Seq(RecordsOf(h)) /\ IsInjective(s) /\ Range(s) = {RecordOf(h, k) : k \in W}
<1> DEFINE n == Len(h.services)
           ks == [k \in DOMAIN h.services |-> k]
           R(m) == {RecordOf(h, k) : k \in W \cap (1 .. m)}
<1>1. n \in Nat /\ DOMAIN h.services = 1 .. n
  BY OwnNamesAre
<1>2. ks \in Seq(DOMAIN h.services) /\ Len(ks) = n /\ \A k \in 1 .. n : ks[k] = k
  BY <1>1
<1>3. PICK run : SendEndRun(h, W, ks, run)
  BY <1>2, SendEndRuns
<1> HIDE DEF n, ks
<1>4. /\ run \in [0 .. n -> Seq(RecordsOf(h))] /\ run[0] = <<>> /\ run[n] = SendEnd(h, W, ks)
      /\ \A k \in 1 .. n : run[k] = SendStep(h, W, run[k - 1], k)
  BY <1>2, <1>3 DEF SendEndRun
<1> DEFINE G == {m \in 0 .. n : IsInjective(run[m]) /\ Range(run[m]) = R(m)}
<1>5. 0 \in G
  <2>1. IsInjective(<<>>) /\ Range(<<>>) = {}
    BY DEF IsInjective, Range
  <2>2. R(0) = {}
    OBVIOUS
  <2>3. QED BY <1>1, <1>4, <2>1, <2>2
<1>6. ASSUME NEW m \in 0 .. n - 1, m \in G PROVE m + 1 \in G
  <2>1. m + 1 \in 1 .. n /\ (m + 1) - 1 = m /\ m + 1 \in 0 .. n /\ m \in 0 .. n /\ m \in Nat
    BY <1>1
  <2>2. run[m + 1] = SendStep(h, W, run[m], m + 1) /\ run[m] \in Seq(RecordsOf(h))
    BY <1>4, <2>1
  <2>3. IsInjective(run[m]) /\ Range(run[m]) = R(m)
    BY <1>6
  <2>4. CASE m + 1 \in W
    <3>1. RecordOf(h, m + 1) \in RecordsOf(h)
      BY <1>1, <2>1 DEF RecordsOf
    <3>2. RecordOf(h, m + 1) \notin R(m)
      <4>1. ASSUME NEW k \in W \cap (1 .. m), RecordOf(h, m + 1) = RecordOf(h, k) PROVE FALSE
        <5>1. k = m + 1
          BY <2>4, <4>1, RecordsDiffer
        <5>2. QED BY <2>1, <5>1
      <4>2. QED BY <4>1
    <3>3. R(m + 1) = R(m) \cup {RecordOf(h, m + 1)}
      <4>1. W \cap (1 .. m + 1) = (W \cap (1 .. m)) \cup {m + 1}
        BY <2>1, <2>4
      <4>2. QED BY <4>1
    <3> HIDE DEF R
    <3>4. run[m + 1] = Append(run[m], RecordOf(h, m + 1))
      BY <2>2, <2>4 DEF SendStep
    <3>5. /\ Range(Append(run[m], RecordOf(h, m + 1))) = R(m) \cup {RecordOf(h, m + 1)}
          /\ IsInjective(Append(run[m], RecordOf(h, m + 1)))
      BY <2>2, <2>3, <3>1, <3>2, OneMoreOf
    <3>6. QED BY <2>1, <3>3, <3>4, <3>5
  <2>5. CASE m + 1 \notin W
    <3>1. R(m + 1) = R(m)
      <4>1. W \cap (1 .. m + 1) = W \cap (1 .. m)
        BY <2>1, <2>5
      <4>2. QED BY <4>1
    <3> HIDE DEF R
    <3>2. run[m + 1] = run[m]
      BY <2>2, <2>5 DEF SendStep
    <3>3. QED BY <2>1, <2>3, <3>1, <3>2
  <2>6. QED BY <2>4, <2>5
<1>7. n \in G
  <2>1. \A m \in 0 .. n - 1 : m \in G => m + 1 \in G
    BY <1>6
  <2> HIDE DEF G
  <2>2. \A m \in 0 .. n : m \in G
    BY <1>1, <1>5, <2>1, Positions
  <2>3. QED BY <1>1, <2>2
<1>8. R(n) = {RecordOf(h, k) : k \in W}
  <2>1. W \cap (1 .. n) = W
    BY <1>1 DEF UsedBy
  <2>2. QED BY <2>1
<1>9. run[n] \in Seq(RecordsOf(h))
  BY <1>1, <1>4
<1> HIDE DEF R
<1>10. QED BY <1>4, <1>7, <1>8, <1>9 DEF ks

\* The packets sent for what questions ask for, r, and for a set of services.
SentFor(h, r, W) ==
  (IF 1 \in r.asked THEN <<MyIPAnswer(h)>> ELSE <<>>)
    \o SendEnd(h, W, [k \in DOMAIN h.services |-> k])
    \o (IF r.six THEN <<NoIPv6AddrAvailable(h)>> ELSE <<>>)
WantedBy(h, r) ==
  {k \in DOMAIN h.services : h.services[k] # None /\ (k + 2 \in r.asked \/ 2 \in r.asked)}

LEMMA AnswersAreSent ==
  ASSUME NEW h, NEW packet
  PROVE  LET r == readQuestions(h, SubSeq(packet.records, 1, packet.q)) IN
         answers(h, packet) = SentFor(h, r, WantedBy(h, r))
BY DEF answers, SentFor, WantedBy, SendEnd, SendStep, RecordOf

\* What is sent then: each packet once.
SentAre(h, sent, r, W) ==
  /\ IsInjective(sent)
  /\ \A p : (\E n \in 1 .. Len(sent) : sent[n] = p) <=> p \in Range(sent)
  /\ Range(sent) = (IF 1 \in r.asked THEN {MyIPAnswer(h)} ELSE {})
                     \cup {RecordOf(h, k) : k \in W}
                     \cup (IF r.six = TRUE THEN {NoIPv6AddrAvailable(h)} ELSE {})
  /\ 1 \in r.asked /\ W = {} /\ r.six # TRUE => sent = <<MyIPAnswer(h)>>

LEMMA AnswersSent ==
  ASSUME NEW h \in Hosts, NEW qs \in Seq(Asked(h)), NEW packet, packet.records = qs, packet.q = Len(qs)
  PROVE  SentAre(h, answers(h, packet), AskedEnd(h, qs), WantedBy(h, AskedEnd(h, qs)))
<1> DEFINE st == AskedEnd(h, qs)
           W == WantedBy(h, st)
           S == RecordsOf(h) \cup {MyIPAnswer(h), NoIPv6AddrAvailable(h)}
           a == IF 1 \in st.asked THEN <<MyIPAnswer(h)>> ELSE <<>>
           b == SendEnd(h, W, [k \in DOMAIN h.services |-> k])
           c == IF st.six = TRUE THEN <<NoIPv6AddrAvailable(h)>> ELSE <<>>
           sent == (a \o b) \o c
<1>1. st \in AskedStates(h) /\ (st.six = TRUE \/ st.six = FALSE)
  BY AskedAll DEF AskedStates
<1>2. answers(h, packet) = sent
  <2>1. SubSeq(packet.records, 1, packet.q) = qs
    BY EmptyPrefix
  <2>2. readQuestions(h, SubSeq(packet.records, 1, packet.q)) = st
    BY <2>1, QuestionsRead
  <2>4. answers(h, packet) = SentFor(h, st, W)
    BY <2>2, AnswersAreSent
  <2>5. (IF st.six THEN <<NoIPv6AddrAvailable(h)>> ELSE <<>>) = c
    BY <1>1
  <2> HIDE DEF st, W, c
  <2>6. SentFor(h, st, W) = (a \o b) \o c
    BY <2>5 DEF SentFor
  <2>7. QED BY <2>4, <2>6 DEF c
<1>3. a \in Seq(S) /\ IsInjective(a) /\ Range(a) = IF 1 \in st.asked THEN {MyIPAnswer(h)} ELSE {}
  BY AtMostOne
<1>4. c \in Seq(S) /\ IsInjective(c) /\ Range(c) = IF st.six = TRUE THEN {NoIPv6AddrAvailable(h)} ELSE {}
  BY AtMostOne
<1>5. b \in Seq(S) /\ IsInjective(b) /\ Range(b) = {RecordOf(h, k) : k \in W}
  <2>1. b \in Seq(RecordsOf(h)) /\ IsInjective(b) /\ Range(b) = {RecordOf(h, k) : k \in W}
    <3>1. W \in SUBSET UsedBy(h)
      BY DEF UsedBy, WantedBy
    <3>2. QED BY <3>1, RecordsSent
  <2>2. RecordsOf(h) \subseteq S
    OBVIOUS
  <2> HIDE DEF b, S
  <2>3. b \in Seq(S)
    BY <2>1, <2>2, SeqMonotonic
  <2>4. QED BY <2>1, <2>3
<1>6. a = IF 1 \in st.asked THEN <<MyIPAnswer(h)>> ELSE <<>>
  OBVIOUS
<1>7. c = IF st.six = TRUE THEN <<NoIPv6AddrAvailable(h)>> ELSE <<>>
  OBVIOUS
<1>8. W \subseteq UsedBy(h)
  BY DEF UsedBy, WantedBy
<1> HIDE DEF a, b, c, S, st, W
<1>9. Range(a) \cap Range(b) = {} /\ (Range(a) \cup Range(b)) \cap Range(c) = {}
  BY <1>3, <1>4, <1>5, OtherAnswers
<1>10. /\ a \o b \in Seq(S) /\ Range(a \o b) = Range(a) \cup Range(b) /\ IsInjective(a \o b)
  BY <1>3, <1>5, <1>9, BothOf
<1>11. /\ sent \in Seq(S) /\ Range(sent) = Range(a \o b) \cup Range(c) /\ IsInjective(sent)
  <2> DEFINE d == a \o b
  <2>1. d \in Seq(S) /\ Range(d) \cap Range(c) = {} /\ IsInjective(d)
    BY <1>9, <1>10
  <2> HIDE DEF d
  <2>2. d \o c \in Seq(S) /\ Range(d \o c) = Range(d) \cup Range(c) /\ IsInjective(d \o c)
    BY <1>4, <2>1, BothOf
  <2>3. QED BY <2>2 DEF d
<1>12. Range(sent) = (IF 1 \in st.asked THEN {MyIPAnswer(h)} ELSE {})
                       \cup {RecordOf(h, k) : k \in W}
                       \cup (IF st.six = TRUE THEN {NoIPv6AddrAvailable(h)} ELSE {})
  BY <1>3, <1>4, <1>5, <1>10, <1>11
<1>13. ASSUME 1 \in st.asked, W = {}, st.six # TRUE PROVE sent = <<MyIPAnswer(h)>>
  <2>1. b = <<>>
    <3>1. Range(b) = {}
      BY <1>5, <1>13
    <3>2. ASSUME NEW s \in Seq(S), s # <<>> PROVE Range(s) # {}
      <4>1. 1 \in DOMAIN s
        BY <3>2
      <4>2. QED BY <4>1 DEF Range
    <3>3. QED BY <1>5, <3>1, <3>2
  <2>2. a = <<MyIPAnswer(h)>> /\ c = <<>>
    BY <1>6, <1>7, <1>13
  <2>3. a \o <<>> = a
    BY <1>3, ConcatEmptySeq
  <2>4. QED BY <2>1, <2>2, <2>3
<1>14. \A p : (\E n \in 1 .. Len(sent) : sent[n] = p) <=> p \in Range(sent)
  <2> HIDE DEF sent
  <2>1. DOMAIN sent = 1 .. Len(sent)
    BY <1>11
  <2>2. QED BY <2>1 DEF Range
<1> HIDE DEF sent
<1>15. SentAre(h, sent, st, W)
  BY <1>11, <1>12, <1>13, <1>14 DEF SentAre
<1>16. QED BY <1>2, <1>15 DEF st, W

\* What a question stands for.
StandsFor(q, labels, types) == q.labels = labels /\ q.type \in types

LEMMA QuestionStands ==
  ASSUME NEW h \in Hosts, NEW q \in Asked(h)
  PROVE  /\ Takes(h, 1, q) <=> StandsFor(q, Labels(h.name), {"A"})
         /\ TakesSix(h, q) <=> StandsFor(q, Labels(h.name), {"AAAA"})
         /\ Takes(h, 2, q) <=> StandsFor(q, Labels(DNS_SD_SERVICE), {"PTR", "SRV"})
         /\ \A k \in UsedBy(h) :
              Takes(h, k + 2, q) <=> StandsFor(q, ServiceLabels(h.services[k]), {"PTR", "SRV"})
<1> DEFINE names == OwnNames(h)
           n == Len(h.services)
<1>1. /\ n \in Nat /\ DOMAIN h.services = 1 .. n /\ DOMAIN names = 1 .. n + 2
      /\ names[1] = h.name /\ names[2] = DNS_SD_SERVICE
      /\ \A k \in 1 .. n : names[k + 2] = IF k \in UsedBy(h)
                                          THEN servNameOf(h.services[k].name, h.services[k].proto)
                                          ELSE None
      /\ \A j \in DOMAIN names : names[j] # None =>
           /\ IsName(Labels(names[j])) /\ Joined(Labels(names[j])) = names[j]
           /\ Labels(names[j]) \in AnsweredFor(h)
      /\ names[1] # None /\ names[2] # None
  BY OwnNamesAre
<1>2. q.type \in {"A", "AAAA", "PTR", "SRV"}
  <2>1. PICK l \in AskedFor(h), ptr \in {0, 1}, type \in {"A", "AAAA", "PTR", "SRV"} :
          q = Record(l, ptr, type, None) \/ q = Record(Front(l), 1, type, None)
    BY DEF Asked
  <2>2. QED BY <2>1 DEF Record
<1>3. ASSUME NEW j \in DOMAIN names, names[j] # None
      PROVE  Spelled(names[j], q) <=> q.labels = Labels(names[j])
  BY <1>1, <1>3, SpelledIs
<1>4. /\ Asks(1, q.type) <=> q.type \in {"A"}
      /\ Asks(2, q.type) <=> q.type \in {"PTR", "SRV"}
      /\ \A k \in 1 .. n : Asks(k + 2, q.type) <=> q.type \in {"PTR", "SRV"}
  <2>1. \A k \in 1 .. n : k + 2 > 1 /\ k + 2 # 1
    BY <1>1
  <2>2. QED BY <1>2, <2>1 DEF Asks
<1>5. 1 \in DOMAIN names /\ 2 \in DOMAIN names /\ \A k \in 1 .. n : k + 2 \in DOMAIN names
  BY <1>1
<1>6. ASSUME NEW k \in UsedBy(h)
      PROVE  Takes(h, k + 2, q) <=> StandsFor(q, ServiceLabels(h.services[k]), {"PTR", "SRV"})
  <2>1. k \in 1 .. n
    BY <1>1 DEF UsedBy
  <2>2. names[k + 2] = servNameOf(h.services[k].name, h.services[k].proto)
    BY <1>1, <2>1
  <2>3. names[k + 2] # None
    <3>1. IsName(ServiceLabels(h.services[k])) /\ Joined(ServiceLabels(h.services[k])) = names[k + 2]
      BY <2>2, ServiceOf
    <3>2. Len(names[k + 2]) \in Nat \ {0} /\ Len(<<>>) = 0
      BY <3>1, WireLength
    <3>3. QED BY <3>2 DEF None
  <2>4. Spelled(names[k + 2], q) <=> q.labels = ServiceLabels(h.services[k])
    BY <1>3, <1>5, <2>1, <2>2, <2>3 DEF ServiceLabels
  <2>5. QED BY <1>4, <2>1, <2>4 DEF Takes, StandsFor
<1>7. Takes(h, 1, q) <=> StandsFor(q, Labels(h.name), {"A"})
  BY <1>1, <1>3, <1>4, <1>5 DEF Takes, StandsFor
<1>8. TakesSix(h, q) <=> StandsFor(q, Labels(h.name), {"AAAA"})
  BY <1>1, <1>3, <1>5 DEF TakesSix, StandsFor
<1>9. Takes(h, 2, q) <=> StandsFor(q, Labels(DNS_SD_SERVICE), {"PTR", "SRV"})
  BY <1>1, <1>3, <1>4, <1>5 DEF Takes, StandsFor
<1>10. QED BY <1>6, <1>7, <1>8, <1>9

\* Questions of a packet, and the packets they lead to.
LEMMA PacketAnswered ==
  ASSUME NEW h \in Hosts, NEW qs \in Seq(Asked(h)), NEW packet, packet.records = qs, packet.q = Len(qs)
  PROVE  LET For(i, labels, types) == StandsFor(qs[i], labels, types)
             Asks4 == {i \in DOMAIN qs : For(i, Labels(h.name), {"A"})}
             Asks6 == {i \in DOMAIN qs : For(i, Labels(h.name), {"AAAA"})}
             Wanted == {k \in UsedBy(h) :
                          \E i \in DOMAIN qs, l \in {Labels(DNS_SD_SERVICE), ServiceLabels(h.services[k])} :
                            For(i, l, {"PTR", "SRV"})}
             sent == answers(h, packet)
         IN  /\ IsInjective(sent)
             /\ \A p : (\E n \in 1 .. Len(sent) : sent[n] = p) <=> p \in Range(sent)
             /\ Range(sent) = (IF Asks4 = {} THEN {} ELSE {MyIPAnswer(h)})
                  \cup {RecordOf(h, k) : k \in Wanted}
                  \cup (IF \E i \in Asks6 : \A k \in Asks4 : i < k THEN {NoIPv6AddrAvailable(h)} ELSE {})
             /\ Asks4 # {} /\ Wanted = {} /\ Asks6 = {} => sent = <<MyIPAnswer(h)>>
<1> DEFINE For(i, labels, types) == StandsFor(qs[i], labels, types)
           Asks4 == {i \in DOMAIN qs : For(i, Labels(h.name), {"A"})}
           Asks6 == {i \in DOMAIN qs : For(i, Labels(h.name), {"AAAA"})}
           Wanted == {k \in UsedBy(h) :
                        \E i \in DOMAIN qs, l \in {Labels(DNS_SD_SERVICE), ServiceLabels(h.services[k])} :
                          For(i, l, {"PTR", "SRV"})}
           st == AskedEnd(h, qs)
           W == WantedBy(h, st)
           sent == answers(h, packet)
           n == Len(qs)
           Sent4 == {MyIPAnswer(h)}
           Sent6 == {NoIPv6AddrAvailable(h)}
           Records(K) == {RecordOf(h, k) : k \in K}
<1>1. n \in Nat /\ DOMAIN qs = 1 .. n /\ \A i \in 1 .. n : qs[i] \in Asked(h)
  OBVIOUS
<1>2. /\ \A j \in DOMAIN OwnNames(h) : j \in st.asked <=> \E i \in 1 .. n : Takes(h, j, qs[i])
      /\ st.six = TRUE <=> \E i \in 1 .. n : TakesSix(h, qs[i]) /\ \A k \in 1 .. i - 1 : ~Takes(h, 1, qs[k])
  BY AskedAll DEF AskedBy
<1>3. ASSUME NEW i \in 1 .. n
      PROVE  /\ Takes(h, 1, qs[i]) <=> For(i, Labels(h.name), {"A"})
             /\ TakesSix(h, qs[i]) <=> For(i, Labels(h.name), {"AAAA"})
             /\ Takes(h, 2, qs[i]) <=> For(i, Labels(DNS_SD_SERVICE), {"PTR", "SRV"})
             /\ \A k \in UsedBy(h) :
                  Takes(h, k + 2, qs[i]) <=> For(i, ServiceLabels(h.services[k]), {"PTR", "SRV"})
  BY <1>1, QuestionStands
<1>4. 1 \in DOMAIN OwnNames(h) /\ 2 \in DOMAIN OwnNames(h) /\ \A k \in UsedBy(h) : k + 2 \in DOMAIN OwnNames(h)
  <2>1. LET m == Len(h.services) IN
        m \in Nat /\ DOMAIN OwnNames(h) = 1 .. m + 2 /\ DOMAIN h.services = 1 .. m
    BY OwnNamesAre
  <2>2. QED BY <2>1 DEF UsedBy
<1>5. /\ IsInjective(sent)
      /\ \A p : (\E k \in 1 .. Len(sent) : sent[k] = p) <=> p \in Range(sent)
      /\ Range(sent) = (IF 1 \in st.asked THEN Sent4 ELSE {}) \cup Records(W)
                         \cup (IF st.six = TRUE THEN Sent6 ELSE {})
      /\ 1 \in st.asked /\ W = {} /\ st.six # TRUE => sent = <<MyIPAnswer(h)>>
  <2>1. SentAre(h, sent, st, W)
    BY AnswersSent
  <2> HIDE DEF sent, st, W
  <2>2. QED BY <2>1 DEF SentAre
<1>12. W = {k \in UsedBy(h) : k + 2 \in st.asked \/ 2 \in st.asked}
  BY DEF UsedBy, WantedBy
<1> HIDE DEF st, W
<1>6. 1 \in st.asked <=> Asks4 # {}
  <2>1. 1 \in st.asked <=> \E i \in 1 .. n : Takes(h, 1, qs[i])
    BY <1>2, <1>4
  <2>2. (\E i \in 1 .. n : Takes(h, 1, qs[i])) <=> \E i \in 1 .. n : For(i, Labels(h.name), {"A"})
    BY <1>3
  <2> HIDE DEF For
  <2>3. QED BY <1>1, <2>1, <2>2
<1>7. W = Wanted
  <2>1. ASSUME NEW k \in UsedBy(h)
        PROVE  (k + 2 \in st.asked \/ 2 \in st.asked) <=>
               \E i \in DOMAIN qs, l \in {Labels(DNS_SD_SERVICE), ServiceLabels(h.services[k])} :
                 For(i, l, {"PTR", "SRV"})
    <3>1. k + 2 \in st.asked <=> \E i \in 1 .. n : Takes(h, k + 2, qs[i])
      BY <1>2, <1>4
    <3>2. 2 \in st.asked <=> \E i \in 1 .. n : Takes(h, 2, qs[i])
      BY <1>2, <1>4
    <3>3. \A i \in 1 .. n : (Takes(h, k + 2, qs[i]) \/ Takes(h, 2, qs[i])) <=>
            \E l \in {Labels(DNS_SD_SERVICE), ServiceLabels(h.services[k])} : For(i, l, {"PTR", "SRV"})
      <4>1. \A i \in 1 .. n : (Takes(h, k + 2, qs[i]) \/ Takes(h, 2, qs[i])) <=>
              (For(i, ServiceLabels(h.services[k]), {"PTR", "SRV"})
                 \/ For(i, Labels(DNS_SD_SERVICE), {"PTR", "SRV"}))
        BY <1>3
      <4> HIDE DEF For
      <4>2. QED BY <4>1
    <3> HIDE DEF For
    <3>4. QED BY <1>1, <3>1, <3>2, <3>3
  <2> HIDE DEF For
  <2>2. QED BY <1>12, <2>1
<1>8. st.six = TRUE <=> \E i \in Asks6 : \A k \in Asks4 : i < k
  <2>1. ASSUME NEW i \in 1 .. n, TakesSix(h, qs[i])
        PROVE  (\A k \in 1 .. i - 1 : ~Takes(h, 1, qs[k])) <=> \A k \in Asks4 : i < k
    <3>1. ~Takes(h, 1, qs[i])
      <4>1. qs[i].type = "AAAA"
        BY <2>1 DEF TakesSix
      <4>2. QED BY <1>3, <4>1 DEF StandsFor
    <3>2. \A k \in 1 .. n : k \in Asks4 <=> Takes(h, 1, qs[k])
      BY <1>1, <1>3
    <3>3. Asks4 \subseteq 1 .. n
      BY <1>1
    <3> HIDE DEF Asks4, For
    <3>4. ASSUME \A k \in 1 .. i - 1 : ~Takes(h, 1, qs[k]), NEW k \in Asks4 PROVE i < k
      <4>1. k \in 1 .. n /\ k # i /\ k \notin 1 .. i - 1
        BY <3>1, <3>2, <3>3, <3>4
      <4>2. QED BY ONLY <1>1, <4>1, i \in 1 .. n
    <3>5. ASSUME \A k \in Asks4 : i < k, NEW k \in 1 .. i - 1 PROVE ~Takes(h, 1, qs[k])
      <4>1. k \in 1 .. n /\ ~(i < k)
        BY ONLY <1>1, k \in 1 .. i - 1, i \in 1 .. n
      <4>2. QED BY <3>2, <3>5, <4>1
    <3>6. QED BY <3>4, <3>5
  <2>2. \A i \in 1 .. n : i \in Asks6 <=> TakesSix(h, qs[i])
    BY <1>1, <1>3
  <2>3. Asks6 \subseteq 1 .. n
    BY <1>1
  <2> HIDE DEF Asks4, Asks6, For
  <2>4. QED BY <1>2, <2>1, <2>2, <2>3
<1>9. Asks6 = {} => st.six # TRUE
  BY <1>8
<1> HIDE DEF Asks4, Asks6, Wanted, sent, Sent4, Sent6, Records
<1>10. /\ IsInjective(sent)
       /\ \A p : (\E k \in 1 .. Len(sent) : sent[k] = p) <=> p \in Range(sent)
       /\ Range(sent) = (IF Asks4 = {} THEN {} ELSE Sent4) \cup Records(Wanted)
                          \cup (IF \E i \in Asks6 : \A k \in Asks4 : i < k THEN Sent6 ELSE {})
       /\ Asks4 # {} /\ Wanted = {} /\ Asks6 = {} => sent = <<MyIPAnswer(h)>>
  BY <1>5, <1>6, <1>7, <1>8, <1>9
<1>11. QED BY <1>10 DEF Asks4, Asks6, Wanted, sent, Sent4, Sent6, Records, For

\* The queries this code sends.
LEMMA OneQuestion ==
  ASSUME NEW h \in Hosts, NEW labels \in AnsweredFor(h), NEW type \in {"A", "PTR"}
  PROVE  LET q == Record(labels, 0, type, None)
             packet == Packet(0, 1, 0, 0, 0, <<q>>)
         IN  /\ <<q>> \in Seq(Asked(h)) /\ Len(<<q>>) = 1 /\ <<q>>[1] = q /\ DOMAIN <<q>> = {1}
             /\ packet.records = <<q>> /\ packet.q = 1
             /\ q.labels = labels /\ q.type = type
<1> DEFINE q == Record(labels, 0, type, None)
<1>1. q \in Asked(h)
  BY DEF Asked, AskedFor
<1>2. q.labels = labels /\ q.type = type
  BY DEF Record
<1> HIDE DEF q
<1>3. <<q>> \in Seq(Asked(h)) /\ Len(<<q>>) = 1 /\ <<q>>[1] = q /\ DOMAIN <<q>> = {1}
  BY <1>1
<1>4. Packet(0, 1, 0, 0, 0, <<q>>).records = <<q>> /\ Packet(0, 1, 0, 0, 0, <<q>>).q = 1
  BY DEF Packet
<1>5. QED BY <1>2, <1>3, <1>4 DEF q

LEMMA NameIsAnswered ==
  ASSUME NEW h \in Hosts
  PROVE  answers(h, NameQuery(h.name)) = <<MyIPAnswer(h)>>
<1> DEFINE L == Labels(h.name)
           q == Record(L, 0, "A", None)
           qs == <<q>>
           packet == Packet(0, 1, 0, 0, 0, qs)
           For(i, labels, types) == StandsFor(qs[i], labels, types)
           Asks4 == {i \in DOMAIN qs : For(i, Labels(h.name), {"A"})}
           Asks6 == {i \in DOMAIN qs : For(i, Labels(h.name), {"AAAA"})}
           Wanted == {k \in UsedBy(h) :
                        \E i \in DOMAIN qs, l \in {Labels(DNS_SD_SERVICE), ServiceLabels(h.services[k])} :
                          For(i, l, {"PTR", "SRV"})}
<1>1. NameQuery(h.name) = packet
  BY DEF NameQuery, Query
<1>2. /\ qs \in Seq(Asked(h)) /\ Len(qs) = 1 /\ qs[1] = q /\ DOMAIN qs = {1}
      /\ packet.records = qs /\ packet.q = 1
      /\ q.labels = L /\ q.type = "A"
  <2>1. L \in AnsweredFor(h)
    BY DEF AnsweredFor
  <2> HIDE DEF L
  <2>2. QED BY <2>1, OneQuestion
<1>3. Asks4 # {} /\ Asks6 = {} /\ Wanted = {} => answers(h, packet) = <<MyIPAnswer(h)>>
  <2> HIDE DEF q, packet, qs
  <2>1. packet.q = Len(qs)
    BY <1>2
  <2>2. packet.records = qs /\ qs \in Seq(Asked(h))
    BY <1>2
  <2>3. /\ IsInjective(answers(h, packet))
        /\ Asks4 # {} /\ Asks6 = {} /\ Wanted = {} => answers(h, packet) = <<MyIPAnswer(h)>>
    BY <2>1, <2>2, PacketAnswered
  <2>4. QED BY <2>3
<1> HIDE DEF q, qs, packet
<1>4. 1 \in Asks4
  BY <1>2 DEF StandsFor
<1>5. Asks6 = {}
  BY <1>2 DEF StandsFor
<1>6. Wanted = {}
  BY <1>2 DEF StandsFor
<1>7. QED BY <1>1, <1>3, <1>4, <1>5, <1>6

LEMMA ServiceIsAnswered ==
  ASSUME NEW h \in Hosts, NEW k \in UsedBy(h)
  PROVE  LET r == h.services[k] IN
         Contains(answers(h, ServiceQuery(servNameOf(r.name, r.proto))), ServiceRecord(h, r))
<1> DEFINE r == h.services[k]
           L == ServiceLabels(r)
           q == Record(L, 0, "PTR", None)
           qs == <<q>>
           packet == Packet(0, 1, 0, 0, 0, qs)
           For(i, labels, types) == StandsFor(qs[i], labels, types)
           Asks4 == {i \in DOMAIN qs : For(i, Labels(h.name), {"A"})}
           Asks6 == {i \in DOMAIN qs : For(i, Labels(h.name), {"AAAA"})}
           Wanted == {j \in UsedBy(h) :
                        \E i \in DOMAIN qs, l \in {Labels(DNS_SD_SERVICE), ServiceLabels(h.services[j])} :
                          For(i, l, {"PTR", "SRV"})}
           sent == answers(h, packet)
<1>1. ServiceQuery(servNameOf(r.name, r.proto)) = packet
  BY DEF ServiceQuery, Query, ServiceLabels
<1>2. /\ qs \in Seq(Asked(h)) /\ Len(qs) = 1 /\ qs[1] = q /\ DOMAIN qs = {1}
      /\ packet.records = qs /\ packet.q = 1
      /\ q.labels = L /\ q.type = "PTR"
  <2>1. L \in AnsweredFor(h)
    BY ServiceOf
  <2> HIDE DEF L
  <2>2. QED BY <2>1, OneQuestion
<1>3. /\ \A p : (\E n \in 1 .. Len(sent) : sent[n] = p) <=> p \in Range(sent)
      /\ Range(sent) = (IF Asks4 = {} THEN {} ELSE {MyIPAnswer(h)})
           \cup {RecordOf(h, j) : j \in Wanted}
           \cup (IF \E i \in Asks6 : \A j \in Asks4 : i < j THEN {NoIPv6AddrAvailable(h)} ELSE {})
  <2> HIDE DEF q, packet, qs
  <2>1. packet.q = Len(qs)
    BY <1>2
  <2>2. QED BY <1>2, <2>1, PacketAnswered, ZenonT(60)
<1> HIDE DEF q, qs, packet, sent
<1>4. For(1, L, {"PTR", "SRV"})
  BY <1>2 DEF StandsFor
<1>5. k \in Wanted
  <2> HIDE DEF For
  <2>1. QED BY <1>2, <1>4
<1> HIDE DEF Asks4, Asks6, Wanted
<1>6. RecordOf(h, k) \in Range(sent)
  BY <1>3, <1>5
<1>7. \E n \in 1 .. Len(sent) : sent[n] = RecordOf(h, k)
  BY <1>3, <1>6
<1>8. Contains(sent, ServiceRecord(h, r))
  BY <1>7 DEF Contains, RecordOf
<1>9. QED BY <1>1, <1>8 DEF sent

\* All of what AnswersWhatIsAsked says.
LEMMA QuestionsAnswered ==
  ASSUME NEW h \in Hosts, NEW qs \in Seq(Asked(h)), input.f = "questions", input.host = h,
         input.packet = Packet(0, Len(qs), 0, 0, 0, qs)
  PROVE  AnswersWhatIsAsked
<1>1. input.packet.records = qs /\ input.packet.q = Len(qs)
  BY DEF Packet
<1> DEFINE For(i, labels, types) == StandsFor(qs[i], labels, types)
           Asks4 == {i \in DOMAIN qs : For(i, Labels(h.name), {"A"})}
           Asks6 == {i \in DOMAIN qs : For(i, Labels(h.name), {"AAAA"})}
           Wanted == {k \in UsedBy(h) :
                        \E i \in DOMAIN qs, l \in {Labels(DNS_SD_SERVICE), ServiceLabels(h.services[k])} :
                          For(i, l, {"PTR", "SRV"})}
           sent == answers(h, input.packet)
<1>2. /\ IsInjective(sent)
      /\ Range(sent) = (IF Asks4 = {} THEN {} ELSE {MyIPAnswer(h)})
           \cup {RecordOf(h, k) : k \in Wanted}
           \cup (IF \E i \in Asks6 : \A k \in Asks4 : i < k THEN {NoIPv6AddrAvailable(h)} ELSE {})
  BY <1>1, PacketAnswered
<1>3. answers(h, NameQuery(h.name)) = <<MyIPAnswer(h)>>
  BY NameIsAnswered
<1>4. \A k \in DOMAIN h.services : h.services[k] # None =>
        LET r == h.services[k] IN
        Contains(answers(h, ServiceQuery(servNameOf(r.name, r.proto))), ServiceRecord(h, r))
  <2>1. ASSUME NEW k \in DOMAIN h.services, h.services[k] # None PROVE k \in UsedBy(h)
    BY <2>1 DEF UsedBy
  <2>2. QED BY <2>1, ServiceIsAnswered
<1> DEFINE none == NoIPv6AddrAvailable(h)
           first == \E i \in Asks6 : \A k \in Asks4 : i < k
<1>5. none # MyIPAnswer(h) /\ \A k : RecordOf(h, k) # none
  BY OtherAnswers
<1>6. first => Asks6 # {}
  OBVIOUS
<1>7. /\ Range(sent) \ {none} = (IF Asks4 = {} THEN {} ELSE {MyIPAnswer(h)})
           \cup {RecordOf(h, k) : k \in Wanted}
      /\ none \in Range(sent) => Asks6 # {}
      /\ first => none \in Range(sent)
  <2> DEFINE A == IF Asks4 = {} THEN {} ELSE {MyIPAnswer(h)}
             R == {RecordOf(h, k) : k \in Wanted}
  <2>1. none \notin A /\ none \notin R
    BY <1>5
  <2>2. Range(sent) = A \cup R \cup (IF first THEN {none} ELSE {})
    BY <1>2
  <2> HIDE DEF A, R, first, none, sent, Asks4, Asks6, Wanted
  <2>3. Range(sent) \ {none} = A \cup R
    BY <2>1, <2>2
  <2>4. none \in Range(sent) <=> first
    BY <2>1, <2>2
  <2>5. QED BY <1>6, <2>3, <2>4 DEF A, R
<1>8. QED BY <1>1, <1>2, <1>3, <1>4, <1>7 DEF AnswersWhatIsAsked, StandsFor, UsedBy, RecordOf

-----------------------------------------------------------------------------
(* Theorems. *)

LEMMA Constants ==
  /\ LongBits \in 8 .. 32 /\ IntBits \in 10 .. 32 /\ Short
  /\ Streams \subseteq Seq(Int) /\ Words \subseteq Seq(Int) /\ Lines \subseteq Seq(Int)
  /\ Texts \subseteq Seq(0 .. 255) /\ Texts \subseteq Seq(Int) /\ AddressBytes \subseteq 0 .. 255 /\ Numbers \subseteq Long
  /\ \A junk \in Junk : InFront(junk)
  /\ \A tail \in Tails : Behind(tail)
  /\ \A label \in LabelSet : IsLabel(label)
  /\ MaxLabels \in Nat /\ MaxAsked \in Nat /\ MaxQuestions \in Nat /\ WordBytes \subseteq 0 .. 255
<1>1. PICK bytes : bytes = 0 .. 255
  OBVIOUS
<1>2. bytes \subseteq Int /\ Texts \subseteq Seq(bytes)
  BY <1>1, InputsAssumption
<1>3. Texts \subseteq Seq(Int)
  BY <1>2, SeqMonotonic
<1>4. ASSUME NEW label \in LabelSet PROVE IsLabel(label)
  <2>1. /\ label \in Seq(Int) /\ Len(label) \in 1 .. 128
        /\ \A i \in 1 .. Len(label) : label[i] # Dot
    BY InputsAssumption
  <2>2. label # <<>>
    <3>1. Len(label) \in 1 .. 128
      BY <2>1
    <3>2. \A n \in 1 .. 128 : n # 0
      OBVIOUS
    <3>3. Len(label) # 0
      BY ONLY <3>1, <3>2
    <3>4. Len(<<>>) = 0
      OBVIOUS
    <3>5. QED BY ONLY <3>3, <3>4
  <2>3. QED BY <2>1, <2>2 DEF IsLabel
<1>5. QED BY <1>3, <1>4, InputsAssumption DEF Long, InFront, Behind, Short

\* The names a behaviour picks.
LEMMA PickedName ==
  ASSUME NEW max \in Nat, NEW labels \in UNION {[1 .. n -> LabelSet] : n \in 1 .. max}
  PROVE  IsName(labels)
<1>1. PICK n \in 1 .. max : labels \in [1 .. n -> LabelSet]
  OBVIOUS
<1>2. \A label \in LabelSet : IsLabel(label) /\ label \in Seq(Int)
  BY Constants DEF IsLabel
<1>3. n \in Nat \ {0} /\ \A k \in 1 .. n : IsLabel(labels[k]) /\ labels[k] \in Seq(Int)
  BY <1>1, <1>2
<1>4. labels \in [1 .. n -> Seq(Int)]
  BY <1>1, <1>3
<1>5. labels \in Seq(Seq(Int)) /\ Len(labels) = n
  BY <1>3, <1>4
<1>6. labels # <<>>
  BY <1>3, <1>5
<1>7. QED BY <1>3, <1>5, <1>6 DEF IsName

\* What the inputs of the properties that are proved may be.
SaidByHost(in) ==
  \E asker, h \in Hosts : in.name = asker.name /\ in.by = h /\ in.packet \in Said(h)
AnswersAbout(in) ==
  \E asker, first, second \in Hosts : \E form :
    /\ FormOf(first, second, form) /\ in.form = form
    /\ in.name = asker.name /\ in.of = <<first, second>>
    /\ in.packet = AnswerPacket(first, second, in.types, form)
AskedOfHost(in) ==
  \E h \in Hosts : \E qs \in Seq(Asked(h)) :
    in.host = h /\ in.packet = Packet(0, Len(qs), 0, 0, 0, qs)
Picked ==
  /\ input.f = "search" =>
       input.s \in Streams /\ input.target \in Words /\ input.terminator \in Words
  /\ input.f = "number" =>
       input.n \in Numbers /\ input.junk \in Junk /\ input.tail \in Tails /\ input.comma \in 1 .. 3
  /\ input.f = "decimal" =>
       input.n \in Numbers /\ input.d \in 0 .. 3 /\ input.tail \in Tails /\ input.comma \in 1 .. 5
  /\ input.f = "line" => input.s \in Lines /\ input.length \in 1 .. 3
  /\ input.f = "text" => input.s \in Texts
  /\ input.f = "address" => input.ip \in [1 .. 4 -> AddressBytes]
  /\ input.f = "name" => IsName(input.labels) /\ IsName(input.asked)
  /\ input.f = "word" => input.bytes \in [1 .. 4 -> WordBytes]
  /\ input.f = "questions" => AskedOfHost(input)
  /\ input.f = "said" => SaidByHost(input)
  /\ input.f = "answers" => AnswersAbout(input)

LEMMA NextPicked == Picked /\ [Next]_input => Picked'
<1>1. SUFFICES ASSUME Picked, Next PROVE Picked'
  BY DEF Picked
<1>2. CASE PickSearch BY <1>2 DEF PickSearch, Picked
<1>3. CASE PickNumber BY <1>3 DEF PickNumber, Picked
<1>4. CASE PickDecimal BY <1>4 DEF PickDecimal, Picked
<1>5. CASE PickLine BY <1>5 DEF PickLine, Picked
<1>6. CASE PickText BY <1>6 DEF PickText, Picked
<1>7. CASE PickAddress
  <2>1. PICK a \in AddressBytes, b \in AddressBytes, c \in AddressBytes, d \in AddressBytes :
          input' = [f |-> "address", ip |-> <<a, b, c, d>>]
    BY <1>7 DEF PickAddress
  <2>2. <<a, b, c, d>> \in [1 .. 4 -> AddressBytes]
    OBVIOUS
  <2>3. QED BY <2>1, <2>2 DEF Picked
<1>8. CASE PickName
  <2>1. PICK labels \in UNION {[1 .. n -> LabelSet] : n \in 1 .. MaxLabels},
             asked \in UNION {[1 .. n -> LabelSet] : n \in 1 .. MaxAsked} :
          input' = [f |-> "name", labels |-> labels, asked |-> asked]
    BY <1>8 DEF PickName
  <2>2. IsName(labels) /\ IsName(asked)
    BY Constants, PickedName
  <2>3. QED BY <2>1, <2>2 DEF Picked
<1>9. CASE PickWord
  <2>1. PICK a \in WordBytes, b \in WordBytes, c \in WordBytes, d \in WordBytes :
          input' = [f |-> "word", bytes |-> <<a, b, c, d>>]
    BY <1>9 DEF PickWord
  <2>2. <<a, b, c, d>> \in [1 .. 4 -> WordBytes]
    OBVIOUS
  <2>3. QED BY <2>1, <2>2 DEF Picked
<1>10. CASE PickQuestions
  <2>1. PICK h \in Hosts : \E qs \in BoundedSeq(Asked(h), MaxQuestions) :
          input' = [f |-> "questions", host |-> h, packet |-> Packet(0, Len(qs), 0, 0, 0, qs)]
    BY <1>10 DEF PickQuestions
  <2>2. PICK qs \in BoundedSeq(Asked(h), MaxQuestions) :
          input' = [f |-> "questions", host |-> h, packet |-> Packet(0, Len(qs), 0, 0, 0, qs)]
    BY <2>1
  <2>3. qs \in Seq(Asked(h))
    <3>1. PICK n \in 0 .. MaxQuestions : qs \in [1 .. n -> Asked(h)]
      BY DEF BoundedSeq, SeqOf
    <3>2. n \in Nat
      BY <3>1, Constants
    <3>3. QED BY <3>1, <3>2
  <2>4. /\ input'.f = "questions" /\ input'.host = h
        /\ input'.packet = Packet(0, Len(qs), 0, 0, 0, qs)
    BY <2>2
  <2>5. AskedOfHost(input')
    BY <2>3, <2>4 DEF AskedOfHost
  <2>6. QED BY <2>4, <2>5 DEF Picked
<1>11. CASE PickSaid
  <2>1. PICK asker \in Hosts, h \in Hosts : \E packet \in Said(h), junk \in Junk8 :
          input' = [f |-> "said", name |-> asker.name, by |-> h, packet |-> packet, junk |-> junk]
    BY <1>11 DEF PickSaid
  <2>2. PICK packet \in Said(h), junk \in Junk8 :
          input' = [f |-> "said", name |-> asker.name, by |-> h, packet |-> packet, junk |-> junk]
    BY <2>1
  <2>3. SaidByHost(input')
    BY <2>2 DEF SaidByHost
  <2>4. input'.f = "said"
    BY <2>2
  <2>5. QED BY <2>3, <2>4 DEF Picked
<1>12. CASE PickAnswers
  <2>1. PICK asker \in Hosts, first \in Hosts, second \in Hosts,
             types \in [1 .. 2 -> {"A", "TXT"}], form \in {"spelled", "label", "pointer"} :
          /\ form = "pointer" => second = first
          /\ input' = [f |-> "answers", name |-> asker.name, form |-> form,
                       of |-> <<first, second>>, types |-> types,
                       packet |-> AnswerPacket(first, second, types, form)]
    BY <1>12 DEF PickAnswers
  <2>2. /\ input'.f = "answers" /\ input'.name = asker.name /\ input'.of = <<first, second>>
        /\ input'.types = types /\ input'.packet = AnswerPacket(first, second, types, form)
        /\ input'.form = form
    BY <2>1
  <2>3. AnswersAbout(input')
    BY <2>1, <2>2 DEF AnswersAbout, FormOf
  <2>4. QED BY <2>2, <2>3 DEF Picked
<1>13. CASE PickLayout BY <1>13 DEF PickLayout, Picked
<1>14. CASE input' = Nothing BY <1>14 DEF Nothing, Picked
<1>15. QED
  BY <1>1, <1>2, <1>3, <1>4, <1>5, <1>6, <1>7, <1>8, <1>9, <1>10, <1>11, <1>12, <1>13, <1>14 DEF Next

LEMMA AlwaysPicked == Spec => []Picked
<1>1. Init => Picked
  BY DEF Init, Nothing, Picked
<1>2. QED BY <1>1, NextPicked, PTL DEF Spec

\* In every stream and for every two words, findUntil stops at the end of the earliest
\* occurrence of either, also when it begins inside a match that fails; find does the same.
THEOREM FirstOccurrence == Spec => []FindsFirst
<1>1. Picked => FindsFirst
  <2> SUFFICES ASSUME Picked, input.f = "search" PROVE FindsFirst
    BY DEF FindsFirst
  <2>1. input.s \in Seq(Int) /\ input.target \in Seq(Int) /\ input.terminator \in Seq(Int)
    BY Constants DEF Picked
  <2>2. QED BY <2>1, FindsFirstOf DEF FindsFirst
<1>2. QED BY <1>1, AlwaysPicked, PTL

\* Every number of a long of any width is printed so that it denotes its value, and parseInt
\* reads it back, the extreme one among them, whatever stands before and behind it.
THEOREM NumbersRoundTrip == Spec => []NumbersReadBack
<1>1. Picked => NumbersReadBack
  <2> SUFFICES ASSUME Picked, input.f = "number" PROVE NumbersReadBack
    BY DEF NumbersReadBack
  <2>1. /\ input.n \in Long /\ InFront(input.junk) /\ Behind(input.tail)
        /\ input.comma \in Nat \ {0} /\ LongBits \in 8 .. 32
    BY Constants DEF Picked
  <2>2. QED BY <2>1, NumbersAre DEF NumbersReadBack
<1>2. QED BY <1>1, AlwaysPicked, PTL

\* What parseFloat reads of a printed number with a fraction is its digits, with its sign and
\* modulo the width of a long, and the number of them behind the point, grouped or not.
THEOREM DecimalsRoundTrip == Spec => []DecimalsReadBack
<1>1. Picked => DecimalsReadBack
  <2> SUFFICES ASSUME Picked, input.f = "decimal" PROVE DecimalsReadBack
    BY DEF DecimalsReadBack
  <2>1. /\ input.n \in Long /\ Behind(input.tail) /\ input.d \in 0 .. 3
        /\ input.comma \in Nat \ {0} /\ LongBits \in 8 .. 32
    BY Constants DEF Picked
  <2>2. DecimalIsRead(input.n, input.d, input.tail, input.comma)
    BY <2>1, DecimalsRead
  <2>3. QED BY <2>2 DEF DecimalIsRead, DecimalsReadBack
<1>2. QED BY <1>1, AlwaysPicked, PTL

\* readBytes and readBytesUntil return what the stream brought, and go on right behind it
\* or behind the terminator, for every stream: no character is lost.
THEOREM LinesRoundTrip == Spec => []LinesReadBack
<1>1. Picked => LinesReadBack
  <2> SUFFICES ASSUME Picked, input.f = "line"
      PROVE  /\ Exact(input.s, input.length, {Timeout}, readBytes(input.s, input.length))
             /\ Exact(input.s, input.length, {Timeout, NewLine},
                      readBytesUntil(input.s, NewLine, input.length))
    BY DEF LinesReadBack, Exact
  <2>1. input.s \in Seq(Int) /\ input.length \in Nat \ {0} /\ NewLine \in Int
    BY Constants DEF Picked, NewLine
  <2>2. QED BY <2>1, ReadBytesExact, ReadBytesUntilExact
<1>2. QED BY <1>1, AlwaysPicked, PTL

\* Both parsers read a printed address back; fromString takes the dotted addresses and nothing
\* else, of all texts, and inet_aton agrees on them. On an int of any width, inet_aton takes no
\* name whose last label begins with two letters and is too short to overflow that int; longer
\* ones, localhost among them, it does take.
THEOREM AddressesRoundTrip == Spec => []AddressesReadBack
<1>1. Picked => AddressesReadBack
  <2> SUFFICES ASSUME Picked PROVE AddressesReadBack
    OBVIOUS
  <2>1. ASSUME input.f = "address"
        PROVE  /\ fromString(toString(input.ip)) = [ok |-> 1, bytes |-> input.ip]
               /\ inet_aton(toString(input.ip)) = [ok |-> 1, bytes |-> input.ip]
    <3>1. input.ip \in [1 .. 4 -> AddressBytes]
      BY <2>1 DEF Picked
    <3>2. \A bytes : AddressBytes \subseteq bytes => input.ip \in [1 .. 4 -> bytes]
      BY ONLY <3>1
    <3>3. AddressBytes \subseteq 0 .. 255 /\ LongBits \in 8 .. 32 /\ IntBits \in 10 .. 32
      BY Constants
    <3>4. input.ip \in [1 .. 4 -> 0 .. 255]
      BY ONLY <3>2, <3>3
    <3>5. LongBits \in Nat /\ LongBits >= 8
      BY ONLY <3>3
    <3>6. QED BY <3>3, <3>4, <3>5, PrintedAddresses
  <2>2. ASSUME input.f = "text"
        PROVE  /\ fromString(input.s).ok = 1 <=> IsAddress(input.s)
               /\ IsAddress(input.s) => inet_aton(input.s) = fromString(input.s)
               /\ LET top == Last(Fields(input.s))
                  IN  (Len(top) \in 2 .. ShortLabel /\ IsLetter(top[1]) /\ IsLetter(top[2]))
                        => inet_aton(input.s).ok = 0
    <3>1. input.s \in Texts
      BY <2>2 DEF Picked
    <3>2. input.s \in Seq(0 .. 255) /\ IntBits \in 10 .. 32 /\ Short
      BY <3>1, Constants
    <3>3. input.s \in Seq(Int)
      BY <3>1, Constants
    <3>4. QED BY <3>2, <3>3, FromStringTakes, AtonTakesAddresses, AtonTakesNoName
  <2>3. QED BY <2>1, <2>2 DEF AddressesReadBack
<1>2. QED BY <1>1, AlwaysPicked, PTL

\* Names of any labels are written as their labels, in writes of a buffer at most, and take
\* the lengths computed from their text; every 16 and 32-bit word is turned into network order.
THEOREM NamesAreOnTheWire == Spec => []NamesOnTheWire
<1>1. Picked => NamesOnTheWire
  <2> SUFFICES ASSUME Picked PROVE NamesOnTheWire
    OBVIOUS
  <2>1. ASSUME input.f = "word"
        PROVE  LET b == input.bytes IN
               /\ InMemory(swaps(b[1] * 256 + b[2]), 2) = <<b[1], b[2]>>
               /\ InMemory(swapl(((b[1] * 256 + b[2]) * 256 + b[3]) * 256 + b[4]), 4) = b
    <3>1. input.bytes \in [1 .. 4 -> WordBytes]
      BY <2>1 DEF Picked
    <3>2. WordBytes \subseteq 0 .. 255
      BY Constants
    <3>3. PICK a, b, c, d : /\ input.bytes = <<a, b, c, d>>
                            /\ IsByte(a) /\ IsByte(b) /\ IsByte(c) /\ IsByte(d)
      <4> DEFINE w == input.bytes
      <4>1. w = <<w[1], w[2], w[3], w[4]>>
        BY <3>1
      <4>2. w[1] \in WordBytes /\ w[2] \in WordBytes /\ w[3] \in WordBytes /\ w[4] \in WordBytes
        BY <3>1
      <4>3. IsByte(w[1]) /\ IsByte(w[2]) /\ IsByte(w[3]) /\ IsByte(w[4])
        BY <3>2, <4>2 DEF IsByte
      <4>4. QED BY <4>1, <4>3
    <3> DEFINE x == <<a, b, c, d>>
    <3>4. x[1] = a /\ x[2] = b /\ x[3] = c /\ x[4] = d
      OBVIOUS
    <3> HIDE DEF x
    <3>5. /\ InMemory(swaps(x[1] * 256 + x[2]), 2) = <<x[1], x[2]>>
          /\ InMemory(swapl(((x[1] * 256 + x[2]) * 256 + x[3]) * 256 + x[4]), 4) = x
      BY <3>3, <3>4, ShortSwapped, LongSwapped DEF x
    <3>6. QED BY <3>3, <3>5 DEF x
  <2>2. ASSUME input.f = "name" PROVE NameIsWritten(input.labels)
    BY <2>2, NamesAreWritten DEF Picked
  <2>3. QED BY <2>1, <2>2 DEF NamesOnTheWire, NameIsWritten
<1>2. QED BY <1>1, AlwaysPicked, PTL

\* A question for a name of any labels is recognised however they fall into pieces, and one
\* that is taken for it differs from it in dots at most.
THEOREM QuestionsAreMatched == Spec => []QuestionsMatch
<1>1. Picked => QuestionsMatch
  <2> SUFFICES ASSUME Picked, input.f = "name" PROVE QuestionsMatch
    BY DEF QuestionsMatch
  <2>1. IsName(input.labels) /\ IsName(input.asked)
    BY DEF Picked
  <2>2. QED BY <2>1, QuestionsOf DEF QuestionsMatch
<1>2. QED BY <1>1, AlwaysPicked, PTL

\* Of two answers with any names, spelled out or ending with a pointer, the callback gets the
\* address of the first that passes: every answer about the host does, and one about another
\* host exactly when its first piece begins the name asked for and a pointer follows, or when
\* it is nothing but a pointer to the name of the first answer. A host running this code is
\* found by its own answer, and only by that.
THEOREM AddressesBelong == Spec => []AddressBelongs
<1>1. Picked => AddressBelongs
  <2> SUFFICES ASSUME Picked PROVE AddressBelongs
    OBVIOUS
  <2>1. ASSUME NEW names, NEW packet, NEW junk
        PROVE  processResponse(names, packet, junk).address = readRecords(names, packet).address
    BY DEF processResponse
  <2>2. ASSUME input.f = "said"
        PROVE  processResponse(<<input.name, None>>, input.packet, input.junk).address =
                 IF input.by.name = input.name /\ input.packet = MyIPAnswer(input.by)
                 THEN input.by.ip ELSE None
    <3>1. PICK asker \in Hosts, h \in Hosts :
            input.name = asker.name /\ input.by = h /\ input.packet \in Said(h)
      BY <2>2 DEF Picked, SaidByHost
    <3>2. readRecords(<<asker.name, None>>, input.packet).address =
            IF h.name = asker.name /\ input.packet = MyIPAnswer(h) THEN h.ip ELSE None
      BY <3>1, SaidIs
    <3>3. QED BY <2>1, <3>1, <3>2
  <2>3. ASSUME input.f = "answers"
        PROVE  LET Passing == {k \in 1 .. 2 : /\ input.types[k] = "A"
                                              /\ PassesAs(k, [name |-> input.name], input.form, input.of)}
               IN  processResponse(<<input.name, None>>, input.packet, [ip |-> 0, port |-> 0]).address =
                     IF Passing = {} THEN None ELSE input.of[Min(Passing)].ip
    <3> DEFINE Passing == {k \in 1 .. 2 : /\ input.types[k] = "A"
                                          /\ PassesAs(k, [name |-> input.name], input.form, input.of)}
    <3>1. PICK asker \in Hosts, first \in Hosts, second \in Hosts : \E form :
            /\ FormOf(first, second, form) /\ input.form = form
            /\ input.name = asker.name /\ input.of = <<first, second>>
            /\ input.packet = AnswerPacket(first, second, input.types, form)
      BY <2>3 DEF Picked, AnswersAbout
    <3>2. PICK form : /\ FormOf(first, second, form) /\ input.form = form
                      /\ input.name = asker.name /\ input.of = <<first, second>>
                      /\ input.packet = AnswerPacket(first, second, input.types, form)
      BY <3>1
    <3>3. Passing = {k \in 1 .. 2 : input.types[k] = "A" /\ PassesAs(k, asker, form, input.of)}
      <4>1. ASSUME NEW k \in 1 .. 2
            PROVE  PassesAs(k, [name |-> input.name], input.form, input.of)
                     <=> PassesAs(k, asker, form, input.of)
        BY <3>2 DEF PassesAs
      <4>2. QED BY <4>1
    <3> HIDE DEF Passing
    <3>4. readRecords(<<asker.name, None>>, AnswerPacket(first, second, input.types, form)).address =
            IF Passing = {} THEN None ELSE input.of[Min(Passing)].ip
      <4>1. PICK of, types : of = input.of /\ types = input.types
        OBVIOUS
      <4>2. PassingOf(asker, first, second, types, form, of, Passing)
        BY <3>2, <3>3, <4>1 DEF PassingOf
      <4>3. readRecords(<<asker.name, None>>, AnswerPacket(first, second, types, form)).address =
              IF Passing = {} THEN None ELSE of[Min(Passing)].ip
        BY <3>2, <4>2, AnswersOf
      <4>4. QED BY <4>1, <4>3
    <3>5. QED BY <2>1, <3>2, <3>4 DEF Passing
  <2>4. QED BY <2>2, <2>3 DEF AddressBelongs, PassesAs
<1>2. QED BY <1>1, AlwaysPicked, PTL

\* A host answers exactly what any number of questions for A, PTR and SRV records spell out
\* about it, once each and with its own records, whether a pointer stands behind the name or
\* not. That it has no IPv6 address it says only when asked for it, and always when asked
\* before an A record; asked behind one, it may be silent. It answers the queries this code
\* sends for its name and for each of its services.
THEOREM QuestionsAreAnswered == Spec => []AnswersWhatIsAsked
<1>1. Picked => AnswersWhatIsAsked
  <2> SUFFICES ASSUME Picked, input.f = "questions" PROVE AnswersWhatIsAsked
    BY DEF AnswersWhatIsAsked
  <2>1. PICK h \in Hosts : \E qs \in Seq(Asked(h)) :
          input.host = h /\ input.packet = Packet(0, Len(qs), 0, 0, 0, qs)
    BY DEF Picked, AskedOfHost
  <2>2. PICK qs \in Seq(Asked(h)) :
          input.host = h /\ input.packet = Packet(0, Len(qs), 0, 0, 0, qs)
    BY <2>1
  <2>3. QED BY <2>2, QuestionsAnswered
<1>2. QED BY <1>1, AlwaysPicked, PTL
=============================================================================
