--------------------------- MODULE DNSClient_proofs ---------------------------
(***************************************************************************)
(* Proofs about the DNS client, for every set of names, identifications    *)
(* and ports and every bound: type correctness, and that a lookup that     *)
(* succeeds has the address of its own name. For this the reader has to    *)
(* stay in step with the message until it ends, and the questions that     *)
(* servers may still answer have to differ in their identification from    *)
(* the one that waits.                                                     *)
(***************************************************************************)
EXTENDS DNSClient, TLAPS, SequenceTheorems

\* What may come to the port: an answer to something that was asked from it, whole or
\* cut off, or noise.
Sent(d) ==
  \/ d \in Noise
  \/ \E q \in asked : q.port = port /\ d \in Answers(q.id, q.name) \cup Cuts(q.id, q.name)

InboxOK ==
  /\ inbox \in Seq([from : Peers, data : Datagrams]) /\ Len(inbox) <= MaxInbox
  /\ \A i \in 1 .. Len(inbox) : Sent(inbox[i].data)
  /\ current \in Seq(Nat) /\ Len(current) <= 30
  /\ pc \in {"source", "header"} => Sent(current) /\ (current \in CutOff => cut = 1)
  /\ pc = "header" => HEADER <= Len(current)

\* The question that waits is the only one with its identification.
AskedOK ==
  /\ asked \subseteq [id : Ids, port : Ports, name : Names]
  /\ pc \in {"commit", "end"} => \A q \in asked : q.id # iRequestId
  /\ pc \in {"wait", "source", "header"} =>
       \A q \in asked : q.id = iRequestId => q.name = aHostname
  /\ pc \in {"commit", "end"} => iRequestId \in Ids

\* The cells of an answer with the address of n that the header does not rule out:
\* an address; an alias and an address; an alias; and one with a wrong length.
Whole(d, n) ==
  /\ d \in Seq(Nat) /\ 14 <= Len(d) /\ Len(d) <= 30
  /\ d[3] = 1 /\ d[4] \in {1, 2} /\ d[5] = 1 /\ d[7] = 0
  /\ d[9] = POINTER /\ d[11] \in {ADDRESS, ALIAS}
  /\ d[11] = ADDRESS => d[4] = 1 /\ (d[13] = 1 => d[14] = Address(n))
  /\ d[11] = ALIAS => Len(d) >= 15 /\ d[13] = 2
  /\ d[4] = 2 =>
       /\ Len(d) = 22 /\ d[16] = 1 /\ d[18] = 0 /\ d[19] = ADDRESS
       /\ d[21] = 1 /\ d[22] = Address(n)

\* An accepted message goes as far as the reader does.
Complete(d) == 14 <= Len(d) /\ (d[11] = ALIAS => 15 <= Len(d)) /\ (d[4] = 2 => 22 <= Len(d))

\* The same of a message that may be cut off, as far as it goes.
Accepted(d, n) ==
  /\ d \in Seq(Nat) /\ 4 <= Len(d) /\ Len(d) <= 30 /\ d[3] = 1 /\ d[4] \in {1, 2}
  /\ 5 <= Len(d) => d[5] = 1
  /\ 7 <= Len(d) => d[7] = 0
  /\ 9 <= Len(d) => d[9] = POINTER
  /\ 11 <= Len(d) => d[11] \in {ADDRESS, ALIAS} /\ (d[11] = ADDRESS => d[4] = 1)
  /\ 13 <= Len(d) /\ d[11] = ALIAS => d[13] = 2
  /\ 14 <= Len(d) /\ d[11] = ADDRESS /\ d[13] = 1 => d[14] = Address(n)
  /\ d[4] = 2 => /\ Len(d) <= 22 /\ (16 <= Len(d) => d[16] = 1) /\ (18 <= Len(d) => d[18] = 0)
                 /\ 19 <= Len(d) => d[19] = ADDRESS
                 /\ 21 <= Len(d) => d[21] = 1
                 /\ 22 <= Len(d) => d[22] = Address(n)
  /\ cut = 0 => Complete(d)

Suffix(d, k) == SubSeq(d, k + 1, Len(d))

\* Where the reader is when it has read k cells of d.
Place(d, k) ==
  \/ pc = "q_name" /\ k = 4 /\ questions = 1 /\ answers = d[4]
  \/ pc = "q_label" /\ k = 5 /\ questions = 1 /\ answers = d[4]
  \/ pc = "q_more" /\ k = 6 /\ questions = 1 /\ answers = d[4]
  \/ pc = "q_type" /\ k = 7 /\ questions = 1 /\ answers = d[4]
  \/ pc \in {"q_name", "a_name"} /\ k = 8 /\ questions = 0 /\ answers = d[4]
  \/ pc = "a_pointer" /\ k = 9 /\ answers = d[4]
  \/ pc = "a_type" /\ k = 10 /\ answers = d[4]
  \/ pc = "a_name" /\ k = 15 /\ d[11] = ALIAS /\ answers = d[4] - 1
  \/ d[4] = 2 /\ answers = 1 /\ \/ pc = "a_label" /\ k = 16
                                \/ pc = "a_more" /\ k = 17
                                \/ pc = "a_type" /\ k = 18
  \/ /\ pc = "a_data"
     /\ (k = 13 /\ d[11] = ADDRESS /\ d[13] = 1) \/ (k = 21 /\ d[4] = 2)
  \/ pc = "a_size" /\ k = 13

Parsing == {"q_name", "q_label", "q_more", "q_type", "a_name", "a_label", "a_more", "a_pointer",
            "a_type", "a_data", "a_size"}

\* How many cells it has read at one of its steps.
Cells == {4, 5, 6, 7, 8, 9, 10, 13, 15, 16, 17, 18, 21}

\* The reader has come to the end of a message that is cut off. It may be anywhere.
Off == cut = 1 /\ current = <<>>

ReaderOK ==
  pc \in Parsing =>
    \/ Off
    \/ \E d \in Seq(Nat), k \in Cells :
         Accepted(d, aHostname) /\ current = Suffix(d, k) /\ k <= Len(d) /\ Place(d, k)

CountsOK ==
  /\ questions \in 0 .. 1 /\ answers \in 0 .. 2
  /\ pc \in {"q_label", "q_more", "q_type"} => questions = 1
  /\ pc \in {"a_label", "a_more", "a_pointer", "a_type"} => answers \in 1 .. 2

StateOK ==
  /\ remote \in Peers /\ packet \in {<<>>} \cup Datagrams
  /\ port \in Ports \cup {0} /\ iRequestId \in Ids \cup {0}
  /\ pc \in {"idle", "begin", "build", "commit", "end", "wait", "source", "header", "none", "stop"}
            \cup Parsing
  /\ aHostname \in Names /\ aAddress \in {0} \cup {Address(n) : n \in Names}
  /\ ret \in Codes
  /\ wait_retries \in 0 .. 3 /\ elapsed \in 0 .. Timeout + 1
  /\ pc \notin {"idle", "stop"} => wait_retries < 3
  /\ CountsOK /\ cut \in {0, 1}
  /\ pc = "idle" <=> port = 0
  /\ port = 0 => inbox = <<>>
  /\ pc \notin {"idle", "stop"} => aAddress = 0
  /\ pc \in {"idle", "stop"} /\ ret = SUCCESS =>
       aAddress = Address(aHostname) \/ (cut = 1 /\ aAddress = 0)

NInv == InboxOK /\ AskedOK /\ ReaderOK /\ StateOK

-----------------------------------------------------------------------------
(* Constants, codes and messages. *)

LEMMA Constants ==
  /\ Names \subseteq Nat \ {0} /\ Ids \subseteq Nat /\ Ports \subseteq Nat \ {0}
  /\ Timeout \in Nat /\ MaxInbox \in Nat
BY DnsAssumption

Wrongs == {-1, -2, -3, -4, -5, -6, -9, -10}

\* As uint16_t, no code of an error is negative any more.
LEMMA CodesAre ==
  /\ \A c \in Wrongs : uint16(c) \in Codes /\ uint16(c) # SUCCESS /\ uint16(c) # TIMED_OUT
  /\ uint16(SUCCESS) = SUCCESS /\ SUCCESS # TIMED_OUT
  /\ {0, SUCCESS, INVALID_SERVER, TIMED_OUT} \subseteq Codes
<1>1. ASSUME NEW c \in Wrongs PROVE uint16(c) = 65536 + c
  <2>1. c \in -10 .. -1
    BY DEF Wrongs
  <2>2. c % 65536 = 65536 + c
    BY <2>1
  <2>3. QED BY <2>2 DEF uint16
<1>2. \A c \in Wrongs : 65536 + c # 1 /\ 65536 + c # -1
  BY DEF Wrongs
<1>3. 1 % 65536 = 1
  OBVIOUS
<1>4. \A c \in Wrongs : uint16(c) \in Codes
  BY DEF Codes, Wrongs
<1>5. QED BY <1>1, <1>2, <1>3, <1>4 DEF SUCCESS, TIMED_OUT, uint16, Codes

\* The six forms an answer takes.
LEMMA AnswerForms ==
  ASSUME NEW id, NEW n, NEW d \in Answers(id, n)
  PROVE  \/ d = <<id, OK, 1>> \o (<<1>> \o Question(n) \o Record(Pointer, ADDRESS, <<Address(n)>>))
         \/ d = <<id, OK, 1>> \o (<<2>> \o Question(n) \o Record(Pointer, ALIAS, <<1, 99>>)
                                                 \o Record(Label(99), ADDRESS, <<Address(n)>>))
         \/ d = <<id, OK, 1>> \o (<<1>> \o Question(n) \o Record(Pointer, ALIAS, <<1, 99>>))
         \/ d = <<id, OK, 1>> \o (<<1>> \o Question(n) \o Record(Pointer, ADDRESS, <<Address(n), 0>>))
         \/ d = <<id, OK, 1>> \o (<<0>> \o Question(n))
         \/ d = <<id, ERROR, 1, 0>> \o Question(n)
<1>1. CASE d = <<id, ERROR, 1, 0>> \o Question(n)
  BY <1>1, Zenon
<1>2. CASE \E s \in Sections(n) : d = <<id, OK, 1>> \o s
  <2>1. PICK s \in Sections(n) : d = <<id, OK, 1>> \o s
    BY <1>2, Zenon
  <2>2. \/ s = <<1>> \o Question(n) \o Record(Pointer, ADDRESS, <<Address(n)>>)
        \/ s = <<2>> \o Question(n) \o Record(Pointer, ALIAS, <<1, 99>>)
                     \o Record(Label(99), ADDRESS, <<Address(n)>>)
        \/ s = <<1>> \o Question(n) \o Record(Pointer, ALIAS, <<1, 99>>)
        \/ s = <<1>> \o Question(n) \o Record(Pointer, ADDRESS, <<Address(n), 0>>)
        \/ s = <<0>> \o Question(n)
    BY Zenon DEF Sections
  <2>3. QED BY ONLY <2>1, <2>2, ZenonT(60)
<1>3. QED BY <1>1, <1>2, Zenon DEF Answers

\* Every answer has the identification of its question; what the header does not
\* rule out can be read to the end.
LEMMA AnswersAre ==
  ASSUME NEW id \in Nat, NEW n \in Nat, NEW d \in Answers(id, n)
  PROVE  /\ d \in Seq(Nat) /\ Len(d) <= 30 /\ d[1] = id
         /\ d[2] = ERROR \/ d[4] = 0 \/ (d[2] = OK /\ Whole(d, n))
<1>1. \/ d = <<id, OK, 1>> \o (<<1>> \o Question(n) \o Record(Pointer, ADDRESS, <<Address(n)>>))
      \/ d = <<id, OK, 1>> \o (<<2>> \o Question(n) \o Record(Pointer, ALIAS, <<1, 99>>)
                                              \o Record(Label(99), ADDRESS, <<Address(n)>>))
      \/ d = <<id, OK, 1>> \o (<<1>> \o Question(n) \o Record(Pointer, ALIAS, <<1, 99>>))
      \/ d = <<id, OK, 1>> \o (<<1>> \o Question(n) \o Record(Pointer, ADDRESS, <<Address(n), 0>>))
      \/ d = <<id, OK, 1>> \o (<<0>> \o Question(n))
      \/ d = <<id, ERROR, 1, 0>> \o Question(n)
  BY AnswerForms, ZenonT(60)
<1> USE DEF Question, Record, Pointer, Label, Address, OK, ERROR, POINTER, HEADER, ADDRESS, ALIAS
<1>2. CASE d = <<id, ERROR, 1, 0>> \o Question(n)
  BY <1>2
<1>3. CASE d = <<id, OK, 1>> \o (<<0>> \o Question(n))
  BY <1>3
<1>4. CASE d = <<id, OK, 1>> \o (<<1>> \o Question(n)
                                        \o Record(Pointer, ADDRESS, <<Address(n), 0>>))
  <2>1. d \in Seq(Nat) /\ Len(d) = 15 /\ d[1] = id
    BY <1>4
  <2>2. d[2] = OK /\ d[3] = 1 /\ d[4] = 1 /\ d[5] = 1 /\ d[7] = 0
    BY <1>4
  <2>3. d[9] = POINTER /\ d[11] = ADDRESS /\ d[13] = 2
    BY <1>4
  <2>4. QED BY <2>1, <2>2, <2>3 DEF Whole
<1>5. CASE d = <<id, OK, 1>> \o (<<1>> \o Question(n) \o Record(Pointer, ALIAS, <<1, 99>>))
  <2>1. d \in Seq(Nat) /\ Len(d) = 15 /\ d[1] = id
    BY <1>5
  <2>2. d[2] = OK /\ d[3] = 1 /\ d[4] = 1 /\ d[5] = 1 /\ d[7] = 0
    BY <1>5
  <2>3. d[9] = POINTER /\ d[11] = ALIAS /\ d[13] = 2
    BY <1>5
  <2>4. QED BY <2>1, <2>2, <2>3 DEF Whole
<1>6. CASE d = <<id, OK, 1>> \o (<<1>> \o Question(n) \o Record(Pointer, ADDRESS, <<Address(n)>>))
  <2>1. d \in Seq(Nat) /\ Len(d) = 14 /\ d[1] = id
    BY <1>6
  <2>2. d[2] = OK /\ d[3] = 1 /\ d[4] = 1 /\ d[5] = 1 /\ d[7] = 0
    BY <1>6
  <2>3. d[9] = POINTER /\ d[11] = ADDRESS /\ d[13] = 1 /\ d[14] = Address(n)
    BY <1>6
  <2>4. QED BY <2>1, <2>2, <2>3 DEF Whole
<1>7. CASE d = <<id, OK, 1>> \o (<<2>> \o Question(n) \o Record(Pointer, ALIAS, <<1, 99>>)
                                                  \o Record(Label(99), ADDRESS, <<Address(n)>>))
  <2>1. d \in Seq(Nat) /\ Len(d) = 22 /\ d[1] = id
    BY <1>7
  <2>2. d[2] = OK /\ d[3] = 1 /\ d[4] = 2 /\ d[5] = 1 /\ d[7] = 0
    BY <1>7
  <2>3. d[9] = POINTER /\ d[11] = ALIAS /\ d[13] = 2
    BY <1>7
  <2>4. d[16] = 1 /\ d[18] = 0 /\ d[19] = ADDRESS /\ d[21] = 1 /\ d[22] = Address(n)
    BY <1>7
  <2>5. QED BY <2>1, <2>2, <2>3, <2>4 DEF Whole
<1>8. QED BY <1>1, <1>2, <1>3, <1>4, <1>5, <1>6, <1>7

\* What holds of an answer holds of it cut off, as far as it goes.
LEMMA CutsAre ==
  ASSUME NEW id \in Nat, NEW n \in Nat, NEW d \in Cuts(id, n)
  PROVE  /\ d \in Seq(Nat) /\ HEADER <= Len(d) /\ Len(d) <= 30 /\ d[1] = id
         /\ d[2] = ERROR \/ d[4] = 0 \/ (cut = 1 => Accepted(d, n))
<1>0. PICK w \in Answers(id, n) :
        d \in {SubSeq(w, 1, k) : k \in {i \in HEADER .. Len(w) - 1 : Len(w) - i \in Lost}}
  BY DEF Cuts
<1>1. PICK k \in HEADER .. Len(w) - 1 : d = SubSeq(w, 1, k)
  BY <1>0
<1>2. /\ w \in Seq(Nat) /\ Len(w) <= 30 /\ w[1] = id
      /\ w[2] = ERROR \/ w[4] = 0 \/ (w[2] = OK /\ Whole(w, n))
  BY AnswersAre
<1>3. Len(w) \in Nat /\ k \in Nat /\ 4 <= k /\ k < Len(w)
  BY <1>1, <1>2, LenProperties DEF HEADER
<1>4. \A i \in 1 .. k : w[i] \in Nat
  <2>1. ASSUME NEW i \in 1 .. k PROVE w[i] \in Nat
    <3>1. i \in 1 .. Len(w)
      BY <1>3
    <3>2. QED BY <1>2, <3>1, ElementOfSeq
  <2>2. QED BY <2>1
<1>5. /\ d \in Seq(Nat) /\ Len(d) = k
      /\ \A i \in 1 .. k : d[i] = w[i]
  <2>1. /\ SubSeq(w, 1, k) \in Seq(Nat)
        /\ Len(SubSeq(w, 1, k)) = IF 1 <= k THEN k - 1 + 1 ELSE 0
        /\ \A i \in 1 .. k - 1 + 1 : SubSeq(w, 1, k)[i] = w[1 + i - 1]
    BY <1>3, <1>4, SubSeqProperties
  <2>2. QED BY <1>1, <1>3, <2>1
<1>6. d[1] = w[1] /\ d[2] = w[2] /\ d[3] = w[3] /\ d[4] = w[4]
  BY <1>3, <1>5
<1>7. ASSUME Whole(w, n), cut = 1 PROVE Accepted(d, n)
  <2>1. /\ w[3] = 1 /\ w[4] \in {1, 2} /\ w[5] = 1 /\ w[7] = 0
        /\ w[9] = POINTER /\ w[11] \in {ADDRESS, ALIAS}
        /\ w[11] = ADDRESS => w[4] = 1 /\ (w[13] = 1 => w[14] = Address(n))
        /\ w[11] = ALIAS => w[13] = 2
        /\ w[4] = 2 => /\ Len(w) = 22 /\ w[16] = 1 /\ w[18] = 0 /\ w[19] = ADDRESS
                       /\ w[21] = 1 /\ w[22] = Address(n)
    BY <1>7, Zenon DEF Whole
  <2>2. \A i \in {5, 7, 9, 11, 13, 14, 16, 18, 19, 21, 22} : i <= Len(d) => d[i] = w[i]
    BY <1>3, <1>5
  <2>3. /\ d \in Seq(Nat) /\ 4 <= Len(d) /\ Len(d) <= 30 /\ d[3] = 1 /\ d[4] \in {1, 2}
        /\ Len(d) \in Nat
    BY <1>2, <1>3, <1>5, <1>6, <2>1
  <2>4. /\ 5 <= Len(d) => d[5] = 1
        /\ 7 <= Len(d) => d[7] = 0
        /\ 9 <= Len(d) => d[9] = POINTER
    BY <2>1, <2>2
  <2>5. /\ 11 <= Len(d) => d[11] \in {ADDRESS, ALIAS} /\ (d[11] = ADDRESS => d[4] = 1)
        /\ 13 <= Len(d) /\ d[11] = ALIAS => d[13] = 2
        /\ 14 <= Len(d) /\ d[11] = ADDRESS /\ d[13] = 1 => d[14] = Address(n)
    <3>1. 11 <= Len(d) => d[11] = w[11]
      BY <2>2
    <3>2. 13 <= Len(d) => d[13] = w[13] /\ 11 <= Len(d)
      BY <2>2, <2>3
    <3>3. 14 <= Len(d) => d[14] = w[14] /\ 13 <= Len(d) /\ 11 <= Len(d)
      BY <2>2, <2>3, SMTT(60)
    <3>4. QED BY <1>6, <2>1, <3>1, <3>2, <3>3, Zenon
  <2>6. ASSUME d[4] = 2
        PROVE  /\ Len(d) <= 22 /\ (16 <= Len(d) => d[16] = 1) /\ (18 <= Len(d) => d[18] = 0)
               /\ 19 <= Len(d) => d[19] = ADDRESS
               /\ 21 <= Len(d) => d[21] = 1
               /\ 22 <= Len(d) => d[22] = Address(n)
    <3>1. /\ Len(w) = 22 /\ w[16] = 1 /\ w[18] = 0 /\ w[19] = ADDRESS
          /\ w[21] = 1 /\ w[22] = Address(n)
      BY <1>6, <2>1, <2>6, Zenon
    <3>2. Len(d) <= 22
      <4>1. Len(w) <= 22
        BY <3>1
      <4>2. QED BY <1>3, <1>5, <4>1
    <3>3. QED BY <2>2, <3>1, <3>2
  <2>7. cut = 0 => Complete(d)
    BY <1>7
  <2> HIDE DEF Complete
  <2>8. QED BY ONLY <2>3, <2>4, <2>5, <2>6, <2>7 DEF Accepted
<1>8. QED BY <1>2, <1>3, <1>5, <1>6, <1>7 DEF HEADER

LEMMA WholeIsAccepted ==
  ASSUME NEW d, NEW n, Whole(d, n)
  PROVE  Accepted(d, n)
<1>1. Len(d) \in Nat
  BY LenProperties DEF Whole
<1>2. Complete(d)
  BY <1>1 DEF Whole, Complete
<1>3. /\ d \in Seq(Nat) /\ 4 <= Len(d) /\ Len(d) <= 30 /\ d[3] = 1 /\ d[4] \in {1, 2}
      /\ d[5] = 1 /\ d[7] = 0 /\ d[9] = POINTER
      /\ d[11] \in {ADDRESS, ALIAS} /\ (d[11] = ADDRESS => d[4] = 1)
  BY <1>1 DEF Whole
<1>4. /\ d[11] = ALIAS => d[13] = 2
      /\ d[11] = ADDRESS /\ d[13] = 1 => d[14] = Address(n)
  BY Zenon DEF Whole
<1>5. ASSUME d[4] = 2
      PROVE  /\ Len(d) <= 22 /\ d[16] = 1 /\ d[18] = 0 /\ d[19] = ADDRESS
             /\ d[21] = 1 /\ d[22] = Address(n)
  <2>1. /\ Len(d) = 22 /\ d[16] = 1 /\ d[18] = 0 /\ d[19] = ADDRESS
        /\ d[21] = 1 /\ d[22] = Address(n)
    BY <1>5, Zenon DEF Whole
  <2>2. QED BY <2>1
<1>6. QED BY <1>2, <1>3, <1>4, <1>5, Zenon DEF Accepted

LEMMA NoiseIs ==
  ASSUME NEW d \in Noise
  PROVE  d \in Seq(Nat) /\ Len(d) <= 30 /\ (Len(d) < HEADER \/ d[2] = QUERY)
<1>1. CASE d = <<0>>
  BY <1>1 DEF HEADER
<1>2. CASE \E id \in Ids : d = <<id, QUERY, 0, 0>>
  <2>1. PICK id \in Ids : d = <<id, QUERY, 0, 0>>
    BY <1>2
  <2>2. id \in Nat
    BY Constants
  <2>3. QED BY <2>1, <2>2 DEF QUERY
<1>3. QED BY <1>1, <1>2 DEF Noise

\* A datagram that may come to the port is one, and of numbers.
LEMMA SentIs ==
  ASSUME AskedOK, NEW d, Sent(d)
  PROVE  d \in Datagrams /\ d \in Seq(Nat) /\ Len(d) <= 30
<1>1. CASE d \in Noise
  BY <1>1, NoiseIs DEF Datagrams
<1>2. CASE \E q \in asked : q.port = port /\ d \in Answers(q.id, q.name) \cup Cuts(q.id, q.name)
  <2>1. PICK q \in asked : d \in Answers(q.id, q.name) \/ d \in Cuts(q.id, q.name)
    BY <1>2
  <2>2. q.id \in Ids /\ q.name \in Names /\ q.id \in Nat /\ q.name \in Nat
    BY <2>1, Constants DEF AskedOK
  <2>3. d \in Seq(Nat) /\ Len(d) <= 30
    BY <2>1, <2>2, AnswersAre, CutsAre
  <2>4. CASE d \in Answers(q.id, q.name)
    <3> DEFINE all == {Answers(id, n) : id \in Ids, n \in Names}
    <3>1. Answers(q.id, q.name) \in all
      BY <2>2
    <3> HIDE DEF all
    <3>2. d \in UNION all
      BY <2>4, <3>1
    <3>3. QED BY <2>3, <3>2 DEF Datagrams, all
  <2>5. CASE d \in Cuts(q.id, q.name)
    <3> DEFINE all == {Cuts(id, n) : id \in Ids, n \in Names}
    <3>1. Cuts(q.id, q.name) \in all
      BY <2>2
    <3> HIDE DEF all
    <3>2. d \in UNION all
      BY <2>5, <3>1
    <3>3. d \in CutOff
      BY <3>2 DEF CutOff, all
    <3>4. d \in CutOff => d \in Datagrams
      <4> HIDE <3>3
      <4> DEFINE C == CutOff
                 N == Noise
                 Q == {Query(id, n) : id \in Ids, n \in Names}
                 U == UNION {Answers(id, n) : id \in Ids, n \in Names}
      <4>1. Datagrams = Q \cup N \cup C \cup U
        BY DEF Datagrams
      <4> HIDE DEF C, N, Q, U
      <4>2. d \in C => d \in Datagrams
        BY <4>1
      <4>3. QED BY <4>2 DEF C
    <3>5. QED BY <2>3, <3>3, <3>4
  <2>6. QED BY <2>1, <2>4, <2>5
<1>3. QED BY <1>1, <1>2 DEF Sent

-----------------------------------------------------------------------------
(* The reader: a read of m cells moves it on by m. *)

LEMMA SuffixIs ==
  ASSUME NEW d \in Seq(Nat), NEW k \in Nat, k <= Len(d)
  PROVE  /\ Suffix(d, k) \in Seq(Nat) /\ Len(Suffix(d, k)) = Len(d) - k
         /\ \A i \in 1 .. Len(d) - k : Suffix(d, k)[i] = d[k + i]
<1>1. Len(d) \in Nat /\ k + 1 \in Int /\ \A i \in k + 1 .. Len(d) : d[i] \in Nat
  BY LenProperties, ElementOfSeq
<1>2. /\ SubSeq(d, k + 1, Len(d)) \in Seq(Nat)
      /\ Len(SubSeq(d, k + 1, Len(d))) = IF k + 1 <= Len(d) THEN Len(d) - (k + 1) + 1 ELSE 0
      /\ \A i \in 1 .. Len(d) - (k + 1) + 1 : SubSeq(d, k + 1, Len(d))[i] = d[(k + 1) + i - 1]
  BY <1>1, SubSeqProperties
<1>3. QED BY <1>1, <1>2 DEF Suffix

LEMMA CellIs ==
  ASSUME NEW d \in Seq(Nat), NEW k \in Nat, NEW i \in Nat \ {0}, NEW j \in Nat,
         j = k + i, j <= Len(d)
  PROVE  Suffix(d, k)[i] = d[j]
<1>1. Len(d) \in Nat /\ k <= Len(d) /\ i \in 1 .. Len(d) - k
  BY LenProperties
<1>2. QED BY <1>1, SuffixIs

LEMMA SuffixOfSuffix ==
  ASSUME NEW d \in Seq(Nat), NEW k \in Nat, NEW m \in Nat, NEW j \in Nat, j = k + m, j <= Len(d)
  PROVE  SubSeq(Suffix(d, k), m + 1, Len(Suffix(d, k))) = Suffix(d, j)
<1> DEFINE s == Suffix(d, k)
           t == Suffix(s, m)
<1>0. Len(d) \in Nat /\ k <= Len(d)
  BY LenProperties
<1>1. /\ Len(d) \in Nat /\ s \in Seq(Nat) /\ Len(s) = Len(d) - k
      /\ \A i \in 1 .. Len(d) - k : s[i] = d[k + i]
  BY <1>0, SuffixIs
<1> HIDE DEF s
<1>2. m <= Len(s)
  BY <1>1
<1>3. /\ t \in Seq(Nat) /\ Len(t) = Len(s) - m
      /\ \A i \in 1 .. Len(s) - m : t[i] = s[m + i]
  BY <1>1, <1>2, SuffixIs
<1> HIDE DEF t
<1>4. /\ Suffix(d, j) \in Seq(Nat) /\ Len(Suffix(d, j)) = Len(d) - j
      /\ \A i \in 1 .. Len(d) - j : Suffix(d, j)[i] = d[j + i]
  BY SuffixIs
<1>5. Len(t) = Len(Suffix(d, j))
  <2>1. Len(t) = (Len(d) - k) - m
    BY <1>1, <1>3
  <2>2. (Len(d) - k) - m = Len(d) - j
    BY <1>1
  <2>3. QED BY <1>4, <2>1, <2>2
<1>6. ASSUME NEW i \in 1 .. Len(t) PROVE t[i] = Suffix(d, j)[i]
  <2>1. m + i \in 1 .. Len(d) - k /\ k + (m + i) = j + i /\ i \in 1 .. Len(d) - j
    BY <1>1, <1>3
  <2>2. t[i] = s[m + i] /\ s[m + i] = d[k + (m + i)] /\ Suffix(d, j)[i] = d[j + i]
    BY <1>1, <1>3, <1>4, <2>1
  <2>3. QED BY <2>1, <2>2
<1>7. t = Suffix(d, j)
  BY <1>3, <1>4, <1>5, <1>6, SeqEqual
<1>8. QED BY <1>7 DEF t, s, Suffix

LEMMA ReadsCells ==
  ASSUME NEW d \in Seq(Nat), NEW k \in Nat, NEW m \in Nat \ {0}, NEW j \in Nat, j = k + m,
         j <= Len(d), current = Suffix(d, k), ReadBuf(m)
  PROVE  /\ current' = Suffix(d, j) /\ UNCHANGED <<inbox, remote, packet>>
         /\ \A i \in 1 .. m : result'.data[i] = d[k + i]
<1>0. Len(d) \in Nat /\ k <= Len(d)
  BY LenProperties
<1>1. /\ current \in Seq(Nat) /\ Len(current) = Len(d) - k /\ Len(d) \in Nat
      /\ \A i \in 1 .. Len(d) - k : current[i] = d[k + i]
  BY <1>0, SuffixIs
<1>2. result'.n = m /\ m >= 1
  <2>1. Len(current) >= m /\ current # <<>>
    BY <1>0, <1>1
  <2>2. QED BY <1>1, <2>1 DEF ReadBuf
<1>3. UNCHANGED <<inbox, remote, packet>>
  BY DEF ReadBuf, UDP!Read
<1>4. PICK n \in 1 .. Len(current) :
        /\ result' = [n |-> n, data |-> SubSeq(current, 1, n)]
        /\ current' = SubSeq(current, n + 1, Len(current))
  BY <1>2 DEF ReadBuf, UDP!Read, UDP!Returns
<1>5. n = m
  BY <1>2, <1>4
<1>6. current' = Suffix(d, j)
  BY <1>4, <1>5, SuffixOfSuffix
<1>7. \A i \in 1 .. m : SubSeq(current, 1, m)[i] = d[k + i]
  <2>0. ASSUME NEW i \in 1 .. m PROVE current[i] \in Nat
    <3>1. current \in Seq(Nat) /\ i \in 1 .. Len(current)
      BY <1>0, <1>1
    <3>2. QED BY ONLY <3>1, ElementOfSeq
  <2>1. 1 \in Int /\ m \in Int /\ \A i \in 1 .. m : current[i] \in Nat
    BY <2>0
  <2>2. \A i \in 1 .. m - 1 + 1 : SubSeq(current, 1, m)[i] = current[1 + i - 1]
    BY <2>1, SubSeqProperties
  <2>3. ASSUME NEW i \in 1 .. m PROVE SubSeq(current, 1, m)[i] = d[k + i]
    <3>1. i \in 1 .. m - 1 + 1 /\ 1 + i - 1 = i /\ i \in 1 .. Len(d) - k
      BY <1>1
    <3>2. SubSeq(current, 1, m)[i] = current[1 + i - 1]
      BY <2>2, <3>1
    <3>3. current[i] = d[k + i]
      BY <1>1, <3>1
    <3>4. QED BY <3>1, <3>2, <3>3
  <2>4. QED BY <2>3
<1>8. QED BY <1>3, <1>4, <1>5, <1>6, <1>7

\* A read of more than there is gets the rest.
LEMMA ReadsAll ==
  ASSUME current \in Seq(Nat), NEW m \in Nat, Len(current) < m, ReadBuf(m)
  PROVE  current' = <<>> /\ UNCHANGED <<inbox, remote, packet>>
<1>0. Len(current) \in Nat
  BY LenProperties
<1>1. UNCHANGED <<inbox, remote, packet>>
  BY DEF ReadBuf, UDP!Read
<1>2. CASE current = <<>>
  <2>1. Len(current) = 0
    BY <1>2
  <2>2. current' = current
    BY <2>1 DEF ReadBuf, UDP!Read
  <2>3. QED BY <1>1, <1>2, <2>2
<1>3. CASE current # <<>>
  <2>1. result'.n = Len(current) /\ Len(current) >= 1
    <3>1. Len(current) # 0
      BY <1>3, EmptySeq
    <3>2. QED BY <1>0, <1>3, <3>1 DEF ReadBuf
  <2>2. PICK n \in 1 .. Len(current) :
          /\ result' = [n |-> n, data |-> SubSeq(current, 1, n)]
          /\ current' = SubSeq(current, n + 1, Len(current))
    BY <1>3 DEF ReadBuf, UDP!Read, UDP!Returns
  <2>3. n = Len(current)
    BY <2>1, <2>2
  <2>4. SubSeq(current, Len(current) + 1, Len(current)) = <<>>
    BY <1>0, SubSeqProperties, EmptySeq, LenProperties
  <2>5. QED BY <1>1, <2>2, <2>3, <2>4
<1>4. QED BY <1>2, <1>3

\* What the variable of cell i holds, with k cells read before.
LEMMA CellsAre ==
  ASSUME NEW d \in Seq(Nat), NEW k \in Nat, k <= Len(d), current = Suffix(d, k),
         NEW i \in Nat \ {0}, NEW j \in Nat, j = k + i, NEW before
  PROVE  Cell(i, before) = IF j <= Len(d) THEN {d[j]} ELSE before
<1>1. Len(current) = Len(d) - k /\ Len(d) \in Nat
  BY SuffixIs, LenProperties
<1>2. CASE j <= Len(d)
  <2>1. current[i] = d[j] /\ i <= Len(current)
    BY <1>1, <1>2, CellIs
  <2>2. QED BY <1>2, <2>1 DEF Cell
<1>3. CASE ~(j <= Len(d))
  <2>1. ~(i <= Len(current))
    BY <1>1, <1>3
  <2>2. QED BY <1>3, <2>1 DEF Cell
<1>4. QED BY <1>2, <1>3

-----------------------------------------------------------------------------
(* The end of ProcessResponse. *)

LEMMA ProcessedOK ==
  ASSUME NInv, pc \notin {"idle", "stop"},
         NEW c \in Wrongs \cup {SUCCESS}, Processed(c)
  PROVE  /\ pc' = "stop" /\ ret' \in Codes /\ (ret' = SUCCESS => c = SUCCESS)
         /\ wait_retries' \in 0 .. 3 /\ elapsed' \in 0 .. Timeout + 1
<1>1. uint16(c) \in Codes /\ uint16(c) # TIMED_OUT /\ (uint16(c) = SUCCESS => c = SUCCESS)
  BY CodesAre, Zenon
<1>2. wait_retries \in 0 .. 2 /\ Timeout \in Nat
  BY Constants DEF NInv, StateOK
<1>3. QED BY <1>1, <1>2 DEF Processed, Goto

\* A response has been dealt with: what is left to do is to stop.
LEMMA Stops ==
  ASSUME NInv, pc \notin {"idle", "stop"}, UNCHANGED <<inbox, remote, packet, lookup, counts>>,
         current' \in Seq(Nat), Len(current') <= 30, cut' \in {0, 1},
         NEW c \in Wrongs \cup {SUCCESS}, Processed(c),
         aAddress' \in {0} \cup {Address(n) : n \in Names},
         c = SUCCESS => aAddress' = Address(aHostname) \/ (cut' = 1 /\ aAddress' = 0)
  PROVE  NInv'
<1>1. /\ pc' = "stop" /\ ret' \in Codes /\ (ret' = SUCCESS => c = SUCCESS)
      /\ wait_retries' \in 0 .. 3 /\ elapsed' \in 0 .. Timeout + 1
  BY ProcessedOK
<1>2. InboxOK'
  BY <1>1 DEF NInv, InboxOK, Sent, lookup
<1>3. AskedOK' /\ ReaderOK'
  BY <1>1 DEF NInv, AskedOK, ReaderOK, Parsing, lookup
<1>4. StateOK'
  BY <1>1 DEF NInv, StateOK, CountsOK, lookup, counts
<1>5. QED BY <1>2, <1>3, <1>4 DEF NInv

LEMMA SourceOK ==
  ASSUME NInv, Source
  PROVE  NInv'
<1>1. /\ pc = "source" /\ result' = [n |-> Len(current), data |-> <<>>]
      /\ UNCHANGED <<remote, current, inbox, packet, lookup, aAddress, counts, cut>>
  BY DEF Source, UDP!Available, UDP!Returns, UDP!receiver
<1>2. current \in Seq(Nat) /\ Len(current) <= 30 /\ Sent(current)
      /\ aAddress \in {0} \cup {Address(n) : n \in Names} /\ cut' \in {0, 1}
  BY <1>1 DEF NInv, InboxOK, StateOK
<1>3. CASE \E c \in {INVALID_SERVER, TRUNCATED} : Processed(c)
  <2>1. PICK c \in {INVALID_SERVER, TRUNCATED} : Processed(c)
    BY <1>3
  <2>2. c \in Wrongs /\ c # SUCCESS
    BY DEF INVALID_SERVER, TRUNCATED, Wrongs, SUCCESS
  <2>3. QED BY <1>1, <1>2, <2>1, <2>2, Stops
<1>4. CASE result'.n >= HEADER /\ Continue("header")
  <2>1. /\ pc' = "header" /\ UNCHANGED <<ret, wait_retries, elapsed>>
        /\ HEADER <= Len(current)
    BY <1>1, <1>2, <1>4, LenProperties DEF Continue, Goto, HEADER
  <2>2. InboxOK'
    BY <1>1, <1>2, <2>1 DEF NInv, InboxOK, Sent, lookup
  <2>3. AskedOK' /\ ReaderOK'
    BY <1>1, <2>1 DEF NInv, AskedOK, ReaderOK, Parsing, lookup
  <2>4. StateOK'
    BY <1>1, <2>1 DEF NInv, StateOK, CountsOK, lookup, counts
  <2>5. QED BY <2>2, <2>3, <2>4 DEF NInv
<1>5. result'.n \in Nat
  BY <1>1, <1>2, LenProperties
<1>6. QED BY <1>3, <1>4, <1>5 DEF Source, HEADER

LEMMA NoAnswerOK ==
  ASSUME NInv, NoAnswer
  PROVE  NInv'
<1>1. /\ pc = "none" /\ current' = <<>> /\ Processed(-10)
      /\ UNCHANGED <<inbox, remote, packet, lookup, aAddress, counts, cut>>
  BY DEF NoAnswer, UDP!Flush
<1>2. -10 \in Wrongs /\ -10 # SUCCESS /\ current' \in Seq(Nat) /\ Len(current') <= 30
  BY <1>1 DEF Wrongs, SUCCESS
<1>3. aAddress \in {0} \cup {Address(n) : n \in Names} /\ cut' \in {0, 1}
  BY <1>1 DEF NInv, StateOK
<1>4. QED BY <1>1, <1>2, <1>3, Stops

LEMMA WrongSizeOK ==
  ASSUME NInv, WrongSize
  PROVE  NInv'
<1>1. /\ pc = "a_size" /\ current' = <<>> /\ Processed(-9)
      /\ UNCHANGED <<inbox, remote, packet, lookup, aAddress, counts, cut>>
  BY DEF WrongSize, UDP!Flush
<1>2. -9 \in Wrongs /\ -9 # SUCCESS /\ current' \in Seq(Nat) /\ Len(current') <= 30
  BY <1>1 DEF Wrongs, SUCCESS
<1>3. aAddress \in {0} \cup {Address(n) : n \in Names} /\ cut' \in {0, 1}
  BY <1>1 DEF NInv, StateOK
<1>4. QED BY <1>1, <1>2, <1>3, Stops

-----------------------------------------------------------------------------
(* The records of a message. *)

\* What the steps of the reader leave alone.
SameLookup == UNCHANGED <<lookup, aAddress, ret, wait_retries, elapsed, cut>>

\* A step of the reader to a place it should be at, or off the end of the message.
LEMMA MovesOn ==
  ASSUME NInv, pc \in Parsing \cup {"header"}, pc' \in Parsing,
         UNCHANGED <<inbox, remote, packet>>, SameLookup,
         NEW d, NEW k \in Cells, Accepted(d, aHostname),
         current' = Suffix(d, k), Place(d, k)', k <= Len(d), CountsOK'
  PROVE  NInv'
<1>1. d \in Seq(Nat) /\ Len(d) <= 30 /\ k \in Nat /\ Len(d) \in Nat
  BY LenProperties DEF Accepted, Cells
<1>2. current' \in Seq(Nat) /\ Len(current') <= 30
  BY <1>1, SuffixIs
<1>3. InboxOK'
  BY <1>2 DEF NInv, InboxOK, Sent, Parsing, lookup, SameLookup
<1>4. AskedOK'
  BY DEF NInv, AskedOK, Parsing, lookup, SameLookup
<1>5. Accepted(d, aHostname)'
  BY DEF Accepted, lookup, SameLookup
<1>6. ReaderOK'
  BY <1>1, <1>5 DEF ReaderOK, Cells
<1>7. StateOK'
  BY DEF NInv, StateOK, lookup, Parsing, SameLookup
<1>8. QED BY <1>3, <1>4, <1>6, <1>7 DEF NInv

LEMMA MovesOff ==
  ASSUME NInv, pc \in Parsing, pc' \in Parsing, UNCHANGED <<inbox, remote, packet>>, SameLookup,
         cut = 1, current' = <<>>, CountsOK'
  PROVE  NInv'
<1>1. current' \in Seq(Nat) /\ Len(current') <= 30
  OBVIOUS
<1>2. InboxOK'
  BY <1>1 DEF NInv, InboxOK, Sent, Parsing, lookup, SameLookup
<1>3. AskedOK'
  BY DEF NInv, AskedOK, Parsing, lookup, SameLookup
<1>4. ReaderOK'
  BY DEF ReaderOK, Off, SameLookup
<1>5. StateOK'
  BY DEF NInv, StateOK, lookup, Parsing, SameLookup
<1>6. QED BY <1>2, <1>3, <1>4, <1>5 DEF NInv

\* d is the message and k the number of its cells that have been read.
At(d, k) ==
  /\ d \in Seq(Nat) /\ Len(d) \in Nat /\ k \in Nat /\ k <= Len(d)
  /\ Accepted(d, aHostname) /\ current = Suffix(d, k) /\ Place(d, k)

LEMMA WhereTheReaderIs ==
  ASSUME NInv, pc \in Parsing
  PROVE  Off \/ \E d, k : At(d, k)
<1>1. CASE ~Off
  <2>1. PICK d \in Seq(Nat), k \in Cells :
          Accepted(d, aHostname) /\ current = Suffix(d, k) /\ k <= Len(d) /\ Place(d, k)
    BY <1>1 DEF NInv, ReaderOK
  <2>2. k \in Nat /\ Len(d) \in Nat
    BY LenProperties DEF Cells
  <2>3. At(d, k)
    BY <2>1, <2>2 DEF At
  <2>4. QED BY <2>3
<1>2. QED BY <1>1

LEMMA CountsAre ==
  ASSUME NInv
  PROVE  CountsOK /\ cut \in {0, 1} /\ current \in Seq(Nat)
BY DEF NInv, StateOK, InboxOK

\* One more cell is read, or there is none any more.
LEMMA ReadsOne ==
  ASSUME NEW d, NEW k, NEW j, At(d, k), j = k + 1, ReadBuf(1)
  PROVE  /\ UNCHANGED <<inbox, remote, packet>>
         /\ \/ j <= Len(d) /\ current' = Suffix(d, j)
            \/ k = Len(d) /\ current' = <<>>
<1>1. /\ d \in Seq(Nat) /\ Len(d) \in Nat /\ k \in Nat /\ k <= Len(d) /\ current = Suffix(d, k)
      /\ j \in Nat
  BY DEF At
<1>2. CASE j <= Len(d)
  BY <1>1, <1>2, ReadsCells
<1>3. CASE ~(j <= Len(d))
  <2>1. k = Len(d)
    BY <1>1, <1>3
  <2>2. current \in Seq(Nat) /\ Len(current) = 0
    BY <1>1, <2>1, SuffixIs
  <2>3. QED BY <2>1, <2>2, ReadsAll
<1>4. QED BY <1>2, <1>3

\* A step that reads one cell and goes to the place behind it.
LEMMA OneCell ==
  ASSUME NInv, pc \in Parsing, pc' \in Parsing, SameLookup, ReadBuf(1), CountsOK',
         NEW d, NEW k, NEW j \in Cells, At(d, k), j = k + 1,
         j <= Len(d) => Place(d, j)', k = Len(d) => cut = 1
  PROVE  NInv'
<1>1. /\ UNCHANGED <<inbox, remote, packet>>
      /\ \/ j <= Len(d) /\ current' = Suffix(d, j)
         \/ k = Len(d) /\ current' = <<>>
  BY ReadsOne
<1>2. CASE j <= Len(d) /\ current' = Suffix(d, j)
  BY <1>1, <1>2, MovesOn DEF At
<1>3. CASE k = Len(d) /\ current' = <<>>
  BY <1>1, <1>3, MovesOff
<1>4. QED BY <1>1, <1>2, <1>3

\* Off the end, no cell is read.
LEMMA NoCell ==
  ASSUME NInv, pc \in Parsing, pc' \in Parsing, SameLookup, CountsOK', Off,
         NEW m \in Nat \ {0}, ReadBuf(m)
  PROVE  NInv'
<1>1. current \in Seq(Nat) /\ Len(current) < m
  BY DEF Off
<1>2. QED BY <1>1, ReadsAll, MovesOff DEF Off

\* A message that ends too early is cut off.
LEMMA Contents ==
  ASSUME NInv, NEW d, NEW k, At(d, k)
  PROVE  /\ d[4] \in {1, 2} /\ (k < 14 /\ k = Len(d) => cut = 1)
         /\ k < 22 /\ k = Len(d) /\ d[4] = 2 => cut = 1
         /\ k \in Nat /\ Len(d) \in Nat
<1>1. cut \in {0, 1} /\ d[4] \in {1, 2} /\ (cut = 0 => Complete(d)) /\ k \in Nat /\ Len(d) \in Nat
  BY CountsAre, Zenon DEF At, Accepted
<1>2. QED BY <1>1 DEF Complete

LEMMA CutWhenShort ==
  ASSUME NEW d, NEW k, At(d, k), cut \in {0, 1},
         Len(d) < 14 \/ (d[11] = ALIAS /\ Len(d) < 15) \/ (d[4] = 2 /\ Len(d) < 22)
  PROVE  cut = 1
<1>1. (cut = 0 => Complete(d)) /\ Len(d) \in Nat
  BY Zenon DEF At, Accepted
<1>2. QED BY <1>1 DEF Complete

LEMMA SkipQuestionOK ==
  ASSUME NInv, SkipQuestion
  PROVE  NInv'
<1>1. pc \in Parsing /\ pc' \in Parsing /\ SameLookup /\ cut \in {0, 1} /\ CountsOK
  BY CountsAre DEF SkipQuestion, Continue, Goto, Parsing, SameLookup
<1>2. CountsOK'
  <2>1. CASE pc \in {"q_name", "q_more"} /\ questions > 0
    BY <1>1, <2>1 DEF SkipQuestion, Continue, Goto, CountsOK, counts
  <2>2. CASE pc \in {"q_label", "q_type"} \/ (pc = "q_name" /\ questions = 0)
    BY <1>1, <2>2 DEF SkipQuestion, Continue, Goto, CountsOK, counts
  <2>3. QED BY <2>1, <2>2 DEF SkipQuestion
<1>3. CASE Off
  <2>1. CASE ReadBuf(1)
    BY <1>1, <1>2, <1>3, <2>1, NoCell
  <2>2. CASE UNCHANGED udp
    BY <1>1, <1>2, <1>3, <2>2, MovesOff DEF Off, udp
  <2>3. QED BY <2>1, <2>2 DEF SkipQuestion
<1>4. ASSUME NEW d, NEW k, At(d, k) PROVE NInv'
  <2>0. /\ d[4] \in {1, 2} /\ (k < 14 /\ k = Len(d) => cut = 1)
        /\ d \in Seq(Nat) /\ Len(d) \in Nat /\ k \in Nat /\ k <= Len(d) /\ Place(d, k)
        /\ current = Suffix(d, k)
    BY <1>4, Contents DEF At
  <2>1. CASE pc \in {"q_name", "q_more"} /\ questions > 0
    <3> DEFINE before == IF pc = "q_name" THEN {0, 1} ELSE {255}
               j == k + 1
    <3>1. PICK len \in Cell(1, before) :
            ReadBuf(1) /\ pc' = (IF len = 0 THEN "q_type" ELSE "q_label") /\ UNCHANGED counts
      BY <1>1, <2>1 DEF SkipQuestion, Continue, Goto, CountsOK
    <3>2. k \in {4, 6} /\ questions = 1 /\ answers = d[4]
      BY <1>1, <2>0, <2>1 DEF Place, CountsOK
    <3>3. j <= Len(d) => len = d[j]
      BY <2>0, <3>1, CellsAre
    <3>4. j <= Len(d) => d[j] = IF k = 4 THEN 1 ELSE 0
      BY <1>4, <3>2 DEF At, Accepted
    <3>5. j <= Len(d) => Place(d, j)'
      BY <3>1, <3>2, <3>3, <3>4 DEF Place, counts
    <3>6. j \in Cells
      BY <3>2 DEF Cells
    <3> HIDE DEF j, before
    <3>7. QED BY <1>1, <1>2, <1>4, <2>0, <3>1, <3>2, <3>5, <3>6, OneCell DEF j
  <2>2. CASE pc = "q_label"
    <3>1. ReadBuf(1) /\ pc' = "q_more" /\ UNCHANGED counts
      BY <2>2 DEF SkipQuestion, Continue, Goto
    <3>2. k = 5 /\ questions = 1 /\ answers = d[4]
      BY <2>0, <2>2 DEF Place
    <3> DEFINE j == k + 1
    <3>3. Place(d, j)' /\ j \in Cells /\ (k = Len(d) => cut = 1)
      BY <2>0, <3>1, <3>2 DEF Place, counts, Cells
    <3> HIDE DEF j
    <3>4. QED BY <1>1, <1>2, <1>4, <2>0, <3>1, <3>2, <3>3, OneCell DEF j
  <2>3. CASE pc = "q_type"
    <3>1. ReadBuf(1) /\ pc' = "q_name" /\ questions' = questions - 1 /\ UNCHANGED answers
      BY <2>3 DEF SkipQuestion, Continue, Goto
    <3>2. k = 7 /\ questions = 1 /\ answers = d[4]
      BY <2>0, <2>3 DEF Place
    <3> DEFINE j == k + 1
    <3>3. Place(d, j)' /\ j \in Cells /\ (k = Len(d) => cut = 1)
      BY <2>0, <3>1, <3>2 DEF Place, Cells
    <3> HIDE DEF j
    <3>4. QED BY <1>1, <1>2, <1>4, <2>0, <3>1, <3>2, <3>3, OneCell DEF j
  <2>4. CASE pc = "q_name" /\ questions = 0
    <3>1. pc' = "a_name" /\ UNCHANGED <<udp, counts>>
      BY <2>4 DEF SkipQuestion, Continue, Goto
    <3>2. k = 8 /\ answers = d[4]
      BY <2>0, <2>4 DEF Place
    <3>3. Place(d, 8)' /\ 8 \in Cells
      BY <2>4, <3>1, <3>2 DEF Place, counts, Cells
    <3>4. current' = Suffix(d, 8) /\ 8 <= Len(d) /\ Accepted(d, aHostname)
          /\ UNCHANGED <<inbox, remote, packet>>
      BY <1>4, <2>0, <3>1, <3>2 DEF udp, At
    <3>5. QED BY <1>1, <1>2, <3>3, <3>4, MovesOn
  <2>5. QED BY <2>1, <2>2, <2>3, <2>4 DEF SkipQuestion
<1>5. QED BY <1>1, <1>3, <1>4, WhereTheReaderIs

LEMMA SkipNameOK ==
  ASSUME NInv, SkipName
  PROVE  NInv'
<1>1. pc \in Parsing /\ SameLookup /\ UNCHANGED counts /\ cut \in {0, 1} /\ CountsOK
  BY CountsAre DEF SkipName, Continue, Goto, Parsing, SameLookup
<1>2. CASE pc = "a_name" /\ answers = 0
  <2>1. pc' = "none" /\ UNCHANGED <<udp, counts>>
    BY <1>1, <1>2 DEF SkipName, Continue, Goto, CountsOK
  <2>2. InboxOK' /\ AskedOK' /\ ReaderOK'
    BY <1>1, <2>1 DEF NInv, InboxOK, Sent, AskedOK, ReaderOK, Parsing, udp, lookup, SameLookup
  <2>3. StateOK'
    BY <1>1, <2>1 DEF NInv, StateOK, CountsOK, udp, lookup, counts, Parsing, SameLookup
  <2>4. QED BY <2>2, <2>3 DEF NInv
<1>3. CASE ~(pc = "a_name" /\ answers = 0)
  <2>1. pc' \in Parsing /\ ReadBuf(1)
    BY <1>3 DEF SkipName, Continue, Goto, Parsing
  <2>2. CountsOK'
    <3>1. pc \in {"a_name", "a_more", "a_label", "a_pointer"} /\ answers \in 1 .. 2
      BY <1>1, <1>3 DEF SkipName, CountsOK
    <3>2. pc' \notin {"q_label", "q_more", "q_type"}
      BY <1>3 DEF SkipName, Continue, Goto
    <3>3. QED BY <1>1, <3>1, <3>2 DEF CountsOK, counts
  <2>3. CASE Off
    BY <1>1, <2>1, <2>2, <2>3, NoCell
  <2>4. ASSUME NEW d, NEW k, At(d, k) PROVE NInv'
    <3>0. /\ d[4] \in {1, 2} /\ (k < 14 /\ k = Len(d) => cut = 1)
          /\ (k < 22 /\ k = Len(d) /\ d[4] = 2 => cut = 1)
          /\ d \in Seq(Nat) /\ Len(d) \in Nat /\ k \in Nat /\ k <= Len(d) /\ Place(d, k)
          /\ current = Suffix(d, k)
      BY <2>4, Contents DEF At
    <3>1. CASE pc \in {"a_name", "a_more"} /\ answers > 0
      <4> DEFINE before == IF pc = "a_name" THEN {0, 1, POINTER} ELSE {255}
                 j == k + 1
      <4>1. PICK len \in Cell(1, before) :
              pc' = (CASE len >= POINTER -> "a_pointer" [] len = 0 -> "a_type"
                       [] OTHER -> "a_label")
        BY <1>1, <1>3, <3>1 DEF SkipName, Continue, Goto, CountsOK
      <4>2. \/ k = 8 /\ answers = d[4]
            \/ k \in {15, 17} /\ answers = 1 /\ d[4] = 2
        BY <1>1, <3>0, <3>1 DEF Place, CountsOK
      <4>3. j <= Len(d) => len = d[j]
        BY <3>0, <4>1, CellsAre
      <4>4. j <= Len(d) => d[j] = IF k = 8 THEN POINTER ELSE IF k = 15 THEN 1 ELSE 0
        BY <2>4, <4>2, SMTT(60) DEF At, Accepted
      <4>5. j <= Len(d) => Place(d, j)'
        BY <1>1, <4>1, <4>2, <4>3, <4>4 DEF Place, counts, POINTER
      <4>6. j \in Cells /\ (k = Len(d) => cut = 1)
        BY <3>0, <4>2 DEF Cells
      <4> HIDE DEF j, before
      <4>7. QED BY <1>1, <2>1, <2>2, <2>4, <3>0, <4>5, <4>6, OneCell DEF j
    <3>2. CASE pc = "a_label"
      <4>1. pc' = "a_more"
        BY <3>2 DEF SkipName, Continue, Goto
      <4>2. k = 16 /\ answers = 1 /\ d[4] = 2
        BY <3>0, <3>2 DEF Place
      <4> DEFINE j == k + 1
      <4>3. Place(d, j)' /\ j \in Cells /\ (k = Len(d) => cut = 1)
        BY <3>0, <1>1, <4>1, <4>2 DEF Place, counts, Cells
      <4> HIDE DEF j
      <4>4. QED BY <1>1, <2>1, <2>2, <2>4, <3>0, <4>2, <4>3, OneCell DEF j
    <3>3. CASE pc = "a_pointer"
      <4>1. pc' = "a_type"
        BY <3>3 DEF SkipName, Continue, Goto
      <4>2. k = 9 /\ answers = d[4]
        BY <3>0, <3>3 DEF Place
      <4> DEFINE j == k + 1
      <4>3. Place(d, j)' /\ j \in Cells /\ (k = Len(d) => cut = 1)
        BY <3>0, <1>1, <4>1, <4>2 DEF Place, counts, Cells
      <4> HIDE DEF j
      <4>4. QED BY <1>1, <2>1, <2>2, <2>4, <3>0, <4>2, <4>3, OneCell DEF j
    <3>4. QED BY <1>3, <3>1, <3>2, <3>3 DEF SkipName
  <2>5. QED BY <1>1, <2>3, <2>4, WhereTheReaderIs
<1>4. QED BY <1>2, <1>3

\* The record of an address is read up to its data, the other one to its end, and
\* each as far as it goes.
LEMMA ReadRecordOK ==
  ASSUME NInv, ReadRecord
  PROVE  NInv'
<1>1. /\ pc = "a_type" /\ pc \in Parsing /\ pc' \in Parsing /\ SameLookup /\ UNCHANGED questions
      /\ answers' = answers - 1 /\ cut \in {0, 1} /\ CountsOK /\ current \in Seq(Nat)
      /\ pc' \in {"a_name", "a_data", "a_size"}
  BY CountsAre DEF ReadRecord, Continue, Goto, Parsing, SameLookup
<1>2. CountsOK'
  BY <1>1 DEF CountsOK
<1>3. PICK type \in Cell(1, {ADDRESS, ALIAS}), length \in Cell(3, 0 .. 2) :
        /\ ReadBuf(IF type = ADDRESS THEN 3 ELSE 3 + length)
        /\ pc' = CASE type # ADDRESS -> "a_name" [] length = 1 -> "a_data" [] OTHER -> "a_size"
  BY DEF ReadRecord, Continue, Goto
<1>4. length \in Nat
  <2>1. Cell(3, 0 .. 2) \subseteq Nat
    <3>1. CASE 3 <= Len(current)
      <4>1. 3 \in 1 .. Len(current)
        BY <1>1, <3>1, LenProperties
      <4>2. current[3] \in Nat
        BY <1>1, <4>1, ElementOfSeq
      <4>3. QED BY <3>1, <4>2 DEF Cell
    <3>2. CASE ~(3 <= Len(current))
      BY <3>2 DEF Cell
    <3>3. QED BY <3>1, <3>2
  <2>2. QED BY <1>3, <2>1
<1>5. PICK m \in Nat : m = (IF type = ADDRESS THEN 3 ELSE 3 + length) /\ m >= 3 /\ ReadBuf(m)
  BY <1>3, <1>4
<1>6. CASE Off
  BY <1>1, <1>2, <1>5, <1>6, NoCell
<1>7. ASSUME NEW d, NEW k, At(d, k) PROVE NInv'
  <2>1. /\ d \in Seq(Nat) /\ Len(d) \in Nat /\ k \in Nat /\ k <= Len(d) /\ Place(d, k)
        /\ current = Suffix(d, k) /\ Accepted(d, aHostname) /\ Len(current) = Len(d) - k
    BY <1>7, SuffixIs DEF At
  <2>2. \/ k = 10 /\ answers = d[4]
        \/ k = 18 /\ d[4] = 2 /\ answers = 1
    BY <1>1, <2>1 DEF Place
  <2>3. CASE Len(current) < m
    <3>1. current' = <<>> /\ UNCHANGED <<inbox, remote, packet>>
      BY <1>1, <1>5, <2>3, ReadsAll
    <3>2. cut = 1
      <4>1. CASE Len(d) < 13 \/ (k = 18 /\ Len(d) < 21)
        <5>1. Len(d) < 14 \/ (d[4] = 2 /\ Len(d) < 22)
          BY <2>1, <2>2, <4>1
        <5>2. QED BY <1>1, <1>7, <5>1, CutWhenShort
      <4>2. CASE 13 <= Len(d) /\ (k = 18 => 21 <= Len(d))
        <5> DEFINE i == k + 1
                   j == k + 3
        <5>1. type = d[i] /\ length = d[j]
          <6>1. /\ i <= Len(d) /\ j <= Len(d) /\ i \in Nat /\ j \in Nat /\ 1 \in Nat \ {0}
                /\ 3 \in Nat \ {0}
            BY <2>1, <2>2, <4>2
          <6>2. Cell(1, {ADDRESS, ALIAS}) = {d[i]} /\ Cell(3, 0 .. 2) = {d[j]}
            BY <2>1, <6>1, CellsAre
          <6>3. QED BY <1>3, <6>2
        <5>2. CASE k = 18
          BY <1>5, <2>1, <2>2, <2>3, <4>2, <5>1, <5>2, SMTT(60) DEF Accepted
        <5>3. CASE k = 10 /\ d[11] = ADDRESS
          BY <1>5, <2>1, <2>3, <4>2, <5>1, <5>3
        <5>4. CASE k = 10 /\ d[11] # ADDRESS
          <6>1. d[11] = ALIAS /\ d[13] = 2 /\ m = 5
            BY <1>5, <2>1, <4>2, <5>1, <5>4, SMTT(60) DEF Accepted
          <6>2. Len(d) < 15
            BY <2>1, <2>3, <5>4, <6>1
          <6>3. QED BY <1>1, <1>7, <6>1, <6>2, CutWhenShort
        <5>5. QED BY <2>2, <5>2, <5>3, <5>4
      <4>3. QED BY <2>1, <4>1, <4>2
    <3>3. QED BY <1>1, <1>2, <3>1, <3>2, MovesOff
  <2>4. CASE ~(Len(current) < m)
    <3> DEFINE i == k + 1
               j == k + 3
               e == k + m
    <3>1. e <= Len(d) /\ e \in Nat /\ i <= Len(d) /\ j <= Len(d) /\ i \in Nat /\ j \in Nat
      BY <1>5, <2>1, <2>4
    <3>2. type = d[i] /\ length = d[j]
      <4>1. 1 \in Nat \ {0} /\ 3 \in Nat \ {0}
        OBVIOUS
      <4>2. Cell(1, {ADDRESS, ALIAS}) = {d[i]} /\ Cell(3, 0 .. 2) = {d[j]}
        BY <2>1, <3>1, <4>1, CellsAre
      <4>3. QED BY <1>3, <4>2
    <3>3. current' = Suffix(d, e) /\ UNCHANGED <<inbox, remote, packet>>
      BY <1>5, <2>1, <3>1, ReadsCells
    <3>4. Place(d, e)' /\ e \in Cells
      <4>1. CASE k = 18
        <5>1. type = ADDRESS /\ length = 1
          BY <2>1, <2>2, <3>1, <3>2, <4>1 DEF Accepted
        <5>2. m = 3 /\ pc' = "a_data"
          BY <1>3, <1>5, <5>1
        <5>3. QED BY <2>2, <4>1, <5>2 DEF Place, Cells
      <4>2. CASE k = 10 /\ d[11] = ADDRESS
        <5>1. type = ADDRESS /\ m = 3 /\ pc' = (IF d[13] = 1 THEN "a_data" ELSE "a_size")
          BY <1>3, <1>5, <3>2, <4>2
        <5>2. QED BY <4>2, <5>1 DEF Place, Cells
      <4>3. CASE k = 10 /\ d[11] # ADDRESS
        <5>1. d[11] = ALIAS /\ d[13] = 2
          BY <2>1, <3>1, <4>3, SMTT(60) DEF Accepted
        <5>2. m = 5 /\ pc' = "a_name"
          BY <1>3, <1>5, <3>2, <4>3, <5>1
        <5>3. QED BY <1>1, <2>2, <4>3, <5>1, <5>2 DEF Place, Cells
      <4>4. QED BY <2>2, <4>1, <4>2, <4>3
    <3> HIDE DEF i, j, e
    <3>5. QED BY <1>1, <1>2, <2>1, <3>1, <3>3, <3>4, MovesOn
  <2>5. QED BY <2>3, <2>4
<1>8. QED BY <1>1, <1>6, <1>7, WhereTheReaderIs

\* The address that is believed is the one of the name, or there is none.
LEMMA ReadAddressOK ==
  ASSUME NInv, ReadAddress
  PROVE  NInv'
<1>1. /\ pc = "a_data" /\ pc \in Parsing /\ UNCHANGED <<lookup, counts, cut>> /\ ReadBuf(1)
      /\ aAddress' \in Cell(1, {aAddress}) /\ Processed(SUCCESS)
  BY DEF ReadAddress, Parsing
<1>2. aAddress = 0 /\ aHostname \in Names /\ cut \in {0, 1} /\ current \in Seq(Nat)
  BY <1>1, CountsAre DEF NInv, StateOK
<1>3. CASE current = <<>> /\ cut = 1
  <2>1. Len(current) < 1 /\ 1 \in Nat
    BY <1>3
  <2>2. current' = <<>> /\ UNCHANGED <<inbox, remote, packet>>
    BY <1>1, <1>2, <2>1, ReadsAll
  <2>3. aAddress' = 0
    BY <1>1, <1>2, <2>1 DEF Cell
  <2>4. current' \in Seq(Nat) /\ Len(current') <= 30
    BY <2>2
  <2>5. QED BY <1>1, <1>2, <1>3, <2>2, <2>3, <2>4, Stops
<1>4. ASSUME NEW d, NEW k, At(d, k) PROVE NInv'
  <2> DEFINE j == k + 1
  <2>1. /\ d \in Seq(Nat) /\ Len(d) \in Nat /\ k \in Nat /\ k <= Len(d) /\ Place(d, k)
        /\ current = Suffix(d, k) /\ Accepted(d, aHostname) /\ Len(d) <= 30
    BY <1>4, SuffixIs DEF At, Accepted
  <2>2. \/ k = 13 /\ d[11] = ADDRESS /\ d[13] = 1
        \/ k = 21 /\ d[4] = 2
    BY <1>1, <2>1 DEF Place
  <2>3. CASE k = Len(d)
    <3>1. cut = 1
      <4>1. Len(d) < 14 \/ (d[4] = 2 /\ Len(d) < 22)
        <5>1. (k = 13 => k < 14) /\ (k = 21 => k < 22)
          OBVIOUS
        <5>2. k < 14 \/ (d[4] = 2 /\ k < 22)
          BY <2>2, <5>1, Zenon
        <5>3. QED BY <2>3, <5>2
      <4>2. QED BY <1>2, <1>4, <4>1, CutWhenShort
    <3>2. Len(current) = 0
      BY <2>1, <2>3, SuffixIs
    <3>3. current = <<>>
      BY <1>2, <3>2, EmptySeq
    <3>4. QED BY <1>3, <3>1, <3>3
  <2>4. CASE k # Len(d)
    <3>1. j <= Len(d) /\ j \in Nat /\ 1 \in Nat \ {0}
      BY <2>1, <2>4
    <3>2. d[j] = Address(aHostname)
      <4>1. CASE k = 13 /\ d[11] = ADDRESS /\ d[13] = 1
        BY <2>1, <3>1, <4>1 DEF Accepted
      <4>2. CASE k = 21 /\ d[4] = 2
        BY <2>1, <3>1, <4>2 DEF Accepted
      <4>3. QED BY <2>2, <4>1, <4>2
    <3>3. aAddress' = Address(aHostname)
      <4>1. Cell(1, {aAddress}) = {d[j]}
        BY <2>1, <3>1, CellsAre
      <4>2. QED BY <1>1, <3>2, <4>1
    <3>4. current' = Suffix(d, j) /\ UNCHANGED <<inbox, remote, packet>>
      BY <1>1, <2>1, <3>1, ReadsCells
    <3>5. current' \in Seq(Nat) /\ Len(current') <= 30
      BY <2>1, <3>1, <3>4, SuffixIs
    <3>6. aAddress' \in {0} \cup {Address(n) : n \in Names}
      BY <1>2, <3>3
    <3> HIDE DEF j
    <3>7. QED BY <1>1, <1>2, <3>3, <3>4, <3>5, <3>6, Stops
  <2>5. QED BY <2>3, <2>4
<1>5. CASE Off
  BY <1>3, <1>5 DEF Off
<1>6. QED BY <1>1, <1>4, <1>5, WhereTheReaderIs

\* A header that is not refused is that of an answer to the question that waits.
LEMMA HeaderOK ==
  ASSUME NInv, Header
  PROVE  NInv'
<1>1. pc = "header" /\ pc \in Parsing \cup {"header"} /\ UNCHANGED <<lookup, aAddress, cut>>
  BY DEF Header
<1>2. /\ current \in Seq(Nat) /\ Len(current) <= 30 /\ Sent(current) /\ HEADER <= Len(current)
      /\ aAddress \in {0} \cup {Address(n) : n \in Names}
      /\ \A q \in asked : q.id = iRequestId => q.name = aHostname
      /\ asked \subseteq [id : Ids, port : Ports, name : Names]
      /\ cut \in {0, 1} /\ (current \in CutOff => cut = 1)
  BY <1>1 DEF NInv, InboxOK, AskedOK, StateOK
<1>3. CASE Wrong(current) # 0
  <2>1. current' = <<>> /\ Processed(Wrong(current)) /\ UNCHANGED <<inbox, remote, packet, counts>>
    BY <1>3 DEF Header, UDP!Flush
  <2>2. Wrong(current) \in Wrongs /\ Wrong(current) # SUCCESS
    BY <1>3 DEF Wrong, Wrongs, SUCCESS, INVALID_RESPONSE
  <2>3. current' \in Seq(Nat) /\ Len(current') <= 30
    BY <2>1
  <2>4. QED BY <1>1, <1>2, <2>1, <2>2, <2>3, Stops
<1>4. CASE Wrong(current) = 0
  <2>1. /\ ReadBuf(HEADER) /\ pc' = "q_name" /\ pc' \in Parsing
        /\ UNCHANGED <<ret, wait_retries, elapsed>>
        /\ questions' = result'.data[3] /\ answers' = result'.data[4]
    BY <1>4 DEF Header, Continue, Goto, Counts, Parsing
  <2>2. /\ current[1] = iRequestId /\ current[2] # QUERY /\ current[2] # ERROR
        /\ current[4] # 0
    BY <1>4 DEF Wrong, INVALID_RESPONSE
  <2>3. PICK q \in asked : current \in Answers(q.id, q.name) \/ current \in Cuts(q.id, q.name)
    BY <1>2, <2>2, NoiseIs, LenProperties DEF Sent, HEADER
  <2>4. q.id \in Nat /\ q.name \in Nat /\ q.id \in Ids /\ q.name \in Names
    BY <1>2, <2>3, Constants
  <2>5. current[1] = q.id /\ (current[2] = ERROR \/ current[4] = 0 \/ Accepted(current, q.name))
    <3>1. CASE current \in Answers(q.id, q.name)
      BY <2>4, <3>1, AnswersAre, WholeIsAccepted
    <3>2. CASE current \in Cuts(q.id, q.name)
      <4> DEFINE all == {Cuts(id, n) : id \in Ids, n \in Names}
      <4>1. Cuts(q.id, q.name) \in all
        BY <2>4
      <4> HIDE DEF all
      <4>2. current \in UNION all
        BY <3>2, <4>1
      <4>3. cut = 1
        BY <1>2, <4>2 DEF CutOff, all
      <4>4. QED BY <2>4, <3>2, <4>3, CutsAre
    <3>3. QED BY <2>3, <3>1, <3>2
  <2>6. Accepted(current, aHostname)
    BY <1>2, <2>2, <2>3, <2>5
  <2>7. /\ 4 <= Len(current) /\ current[3] = 1 /\ current[4] \in {1, 2} /\ Len(current) \in Nat
    BY <2>6, LenProperties DEF Accepted
  <2>8. /\ 0 \in Nat /\ 4 \in Nat \ {0} /\ 4 \in Nat /\ 4 = 0 + 4 /\ 4 <= Len(current)
        /\ ReadBuf(4)
    BY <2>1, <2>7 DEF HEADER
  <2>9. current = Suffix(current, 0)
    BY <1>2, SubSeqFull DEF Suffix
  <2>10. /\ current' = Suffix(current, 4) /\ UNCHANGED <<inbox, remote, packet>>
         /\ \A i \in 1 .. 4 : result'.data[i] = current[0 + i]
    <3> DEFINE d == current
    <3>1. d \in Seq(Nat) /\ current = Suffix(d, 0) /\ 4 <= Len(d)
      BY <1>2, <2>8, <2>9
    <3> HIDE DEF d
    <3>2. /\ current' = Suffix(d, 4) /\ UNCHANGED <<inbox, remote, packet>>
          /\ \A i \in 1 .. 4 : result'.data[i] = d[0 + i]
      BY <2>8, <3>1, ReadsCells
    <3>3. QED BY <3>2 DEF d
  <2>11. questions' = 1 /\ answers' = current[4]
    BY <2>1, <2>7, <2>10
  <2>12. PICK d : d = current
    OBVIOUS
  <2>13. Place(d, 4)' /\ 4 \in Cells /\ 4 <= Len(d) /\ Accepted(d, aHostname)
         /\ current' = Suffix(d, 4) /\ CountsOK' /\ SameLookup
    BY <1>1, <2>1, <2>6, <2>7, <2>10, <2>11, <2>12 DEF Place, Cells, CountsOK, SameLookup
  <2>14. QED BY <1>1, <2>1, <2>10, <2>13, MovesOn
<1>5. QED BY <1>3, <1>4

-----------------------------------------------------------------------------
(* The question. *)

LEMMA LookupOK ==
  ASSUME NInv, Lookup
  PROVE  NInv'
<1>1. /\ pc = "idle" /\ iRequestId' = 0 /\ aHostname' \in Names /\ wait_retries' = 0
      /\ elapsed' = 0 /\ aAddress' = 0 /\ asked' \subseteq asked /\ UNCHANGED counts /\ cut' = 0
  BY DEF Lookup, Forget
<1>2. /\ port = 0 /\ inbox = <<>> /\ Timeout \in Nat
      /\ asked \subseteq [id : Ids, port : Ports, name : Names]
  BY <1>1, Constants DEF NInv, StateOK, AskedOK
<1>3. CASE /\ pc' = "begin" /\ ret' = 0 /\ port' \in Ports
           /\ inbox' = <<>> /\ current' = <<>> /\ packet' = <<>> /\ UNCHANGED remote
  <2>1. port' # 0 /\ MaxInbox \in Nat
    BY <1>3, Constants
  <2>2. InboxOK'
    BY <1>3, <2>1 DEF InboxOK
  <2>3. AskedOK' /\ ReaderOK'
    BY <1>1, <1>2, <1>3 DEF AskedOK, ReaderOK, Parsing
  <2>4. StateOK'
    BY <1>1, <1>2, <1>3, <2>1, CodesAre DEF NInv, StateOK, CountsOK, counts
  <2>5. QED BY <2>2, <2>3, <2>4 DEF NInv
<1>4. CASE pc' = "idle" /\ ret' \in {INVALID_SERVER, 0} /\ UNCHANGED <<udp, port>>
  <2>1. InboxOK'
    BY <1>2, <1>4 DEF NInv, InboxOK, udp
  <2>2. AskedOK' /\ ReaderOK'
    BY <1>1, <1>2, <1>4 DEF AskedOK, ReaderOK, Parsing
  <2>3. ret' \in Codes /\ ret' # SUCCESS
    BY <1>4 DEF INVALID_SERVER, SUCCESS, Codes
  <2>4. StateOK'
    BY <1>1, <1>2, <1>4, <2>3 DEF NInv, StateOK, CountsOK, counts, udp
  <2>5. QED BY <2>1, <2>2, <2>4 DEF NInv
<1>5. QED BY <1>3, <1>4 DEF Lookup, Goto, UDP!Reset

LEMMA BeginPacketOK ==
  ASSUME NInv, BeginPacket
  PROVE  NInv'
<1>1. /\ pc = "begin" /\ packet' = <<>> /\ result'.n \in {0, 1}
      /\ pc' = (IF result'.n = 0 THEN "stop" ELSE "build") /\ ret' = result'.n
      /\ UNCHANGED <<remote, current, inbox, lookup, aAddress, wait_retries, elapsed, counts, cut>>
  BY DEF BeginPacket, Goto, UDP!BeginPacket, UDP!Returns, UDP!receiver
<1>2. InboxOK' /\ AskedOK' /\ ReaderOK'
  BY <1>1 DEF NInv, InboxOK, Sent, AskedOK, ReaderOK, Parsing, lookup
<1>3. ret' \in Codes /\ (pc' = "stop" => ret' # SUCCESS)
  BY <1>1 DEF Codes, SUCCESS
<1>4. StateOK'
  BY <1>1, <1>3 DEF NInv, StateOK, CountsOK, lookup, counts
<1>5. QED BY <1>2, <1>4 DEF NInv

LEMMA BuildRequestOK ==
  ASSUME NInv, BuildRequest
  PROVE  NInv'
<1>1. /\ pc = "build" /\ iRequestId' \in Ids /\ (\A q \in asked : q.id # iRequestId')
      /\ packet' = Query(iRequestId', aHostname) /\ pc' = "commit" /\ ret' = 1
      /\ UNCHANGED <<remote, current, inbox, port, aHostname, asked, aAddress, wait_retries,
                     elapsed, counts, cut>>
  BY DEF BuildRequest, Goto, UDP!Write, UDP!receiver
<1>2. packet' \in Datagrams
  BY <1>1 DEF NInv, StateOK, Datagrams
<1>3. InboxOK' /\ AskedOK' /\ ReaderOK'
  BY <1>1 DEF NInv, InboxOK, Sent, AskedOK, ReaderOK, Parsing
<1>4. ret' \in Codes
  BY <1>1 DEF Codes, SUCCESS
<1>5. StateOK'
  BY <1>1, <1>2, <1>4 DEF NInv, StateOK, CountsOK, counts
<1>6. QED BY <1>3, <1>5 DEF NInv

LEMMA CommitOK ==
  ASSUME NInv, Commit
  PROVE  NInv'
<1>1. /\ pc = "commit" /\ pc' = "end"
      /\ UNCHANGED <<remote, current, inbox, packet, lookup, aAddress, ret, wait_retries, elapsed,
                     counts, cut>>
  BY DEF Commit, Goto, UDP!Commit, UDP!receiver
<1>2. InboxOK' /\ AskedOK' /\ ReaderOK'
  BY <1>1 DEF NInv, InboxOK, Sent, AskedOK, ReaderOK, Parsing, lookup
<1>3. StateOK'
  BY <1>1 DEF NInv, StateOK, CountsOK, lookup, counts
<1>4. QED BY <1>2, <1>3 DEF NInv

\* Nobody else waits for this identification, so the new question is the only one.
LEMMA EndPacketOK ==
  ASSUME NInv, EndPacket
  PROVE  NInv'
<1>1. /\ pc = "end" /\ packet' = <<>>
      /\ UNCHANGED <<remote, current, inbox, port, iRequestId, aHostname, aAddress, wait_retries,
                     elapsed, counts, cut>>
  BY DEF EndPacket, UDP!EndPacket, UDP!receiver
<1>2. /\ iRequestId \in Ids /\ port \in Ports /\ aHostname \in Names
      /\ \A q \in asked : q.id # iRequestId
  BY <1>1 DEF NInv, AskedOK, StateOK
<1>3. CASE pc' = "stop" /\ ret' = 0 /\ UNCHANGED asked
  <2>1. InboxOK' /\ AskedOK' /\ ReaderOK'
    BY <1>1, <1>3 DEF NInv, InboxOK, Sent, AskedOK, ReaderOK, Parsing
  <2>2. ret' \in Codes /\ ret' # SUCCESS
    BY <1>3 DEF Codes, SUCCESS
  <2>3. StateOK'
    BY <1>1, <1>3, <2>2 DEF NInv, StateOK, CountsOK, counts
  <2>4. QED BY <2>1, <2>3 DEF NInv
<1>4. CASE /\ pc' = "wait" /\ ret' = TIMED_OUT
           /\ asked' = asked \cup {[id |-> iRequestId, port |-> port, name |-> aHostname]}
  <2>1. asked \subseteq asked'
    BY <1>4
  <2>2. \A d : Sent(d) => Sent(d)'
    BY <1>1, <2>1 DEF Sent
  <2>3. InboxOK'
    BY <1>1, <1>4, <2>2 DEF NInv, InboxOK
  <2>4. AskedOK' /\ ReaderOK'
    BY <1>1, <1>2, <1>4 DEF NInv, AskedOK, ReaderOK, Parsing
  <2>5. StateOK'
    BY <1>1, <1>4, CodesAre DEF NInv, StateOK, CountsOK, counts
  <2>6. QED BY <2>3, <2>4, <2>5 DEF NInv
<1>5. QED BY <1>3, <1>4 DEF EndPacket, Goto

-----------------------------------------------------------------------------
(* Waiting, and the end. *)

LEMMA PollOK ==
  ASSUME NInv, Poll
  PROVE  NInv'
<1>1. pc = "wait" /\ UNCHANGED <<packet, lookup, aAddress, counts>> /\ current = <<>>
      /\ cut' \in {0, 1} /\ aAddress = 0 /\ Taken
  BY DEF Poll, UDP!ParsePacket, Taken, NInv, StateOK
<1>2. /\ inbox \in Seq([from : Peers, data : Datagrams]) /\ Len(inbox) <= MaxInbox
      /\ \A i \in 1 .. Len(inbox) : Sent(inbox[i].data)
      /\ aAddress \in {0} \cup {Address(n) : n \in Names}
      /\ elapsed \in 0 .. Timeout + 1 /\ Timeout \in Nat
      /\ current \in Seq(Nat) /\ Len(current) <= 30 /\ AskedOK
  BY Constants DEF NInv, InboxOK, StateOK
<1>3. CASE inbox # <<>>
  <2>1. /\ inbox' = Tail(inbox) /\ current' = Head(inbox).data /\ remote' = Head(inbox).from
        /\ result'.n = Len(Head(inbox).data)
    BY <1>3 DEF Poll, UDP!ParsePacket, UDP!Returns
  <2>2. /\ inbox' \in Seq([from : Peers, data : Datagrams]) /\ Len(inbox) \in Nat
        /\ Len(inbox') = Len(inbox) - 1 /\ \A i \in 1 .. Len(inbox') : inbox'[i] = inbox[i + 1]
        /\ Head(inbox) = inbox[1] /\ 1 \in 1 .. Len(inbox)
        /\ Head(inbox) \in [from : Peers, data : Datagrams]
    <3>1. Len(inbox) \in Nat /\ Len(inbox) # 0
      BY <1>2, <1>3, LenProperties, EmptySeq
    <3>2. 1 \in 1 .. Len(inbox)
      BY <3>1
    <3>3. /\ Head(inbox) \in [from : Peers, data : Datagrams]
          /\ Tail(inbox) \in Seq([from : Peers, data : Datagrams])
          /\ Len(Tail(inbox)) = Len(inbox) - 1
          /\ \A i \in 1 .. Len(Tail(inbox)) : Tail(inbox)[i] = inbox[i + 1]
      BY <1>2, <1>3, HeadTailProperties
    <3>4. Head(inbox) = inbox[1]
      BY <1>2, <1>3
    <3>5. QED BY <2>1, <3>1, <3>2, <3>3, <3>4
  <2>3. /\ Sent(current') /\ current' \in Seq(Nat) /\ Len(current') <= 30
        /\ remote' \in Peers /\ (current' \in CutOff => cut' = 1)
    <3>1. Sent(Head(inbox).data)
      BY <1>2, <2>2
    <3>2. Head(inbox).data \in Seq(Nat) /\ Len(Head(inbox).data) <= 30
      BY <1>2, <3>1, SentIs
    <3>3. current' \in CutOff => cut' = 1
      BY <1>1, <1>3, <2>1 DEF Taken
    <3>4. QED BY <2>1, <2>2, <3>1, <3>2, <3>3
  <2>4. Len(current') \in Nat
    BY <2>3, LenProperties
  <2>5. \/ pc' = "source" /\ UNCHANGED <<ret, wait_retries, elapsed>>
        \/ Processed(TIMED_OUT)
        \/ elapsed < Timeout + 1 /\ elapsed' = elapsed + 1 /\ UNCHANGED <<pc, ret, wait_retries>>
    BY <1>2 DEF Poll, Continue, Goto
  <2>6. Sent(current)' /\ (current \in CutOff => cut = 1)'
    BY <1>1, <2>3 DEF Sent, lookup
  <2>7. /\ inbox' \in Seq([from : Peers, data : Datagrams]) /\ Len(inbox') <= MaxInbox
        /\ (\A i \in 1 .. Len(inbox) : Sent(inbox[i].data))'
    <3>1. MaxInbox \in Nat
      BY Constants
    <3>2. ASSUME NEW i \in 1 .. Len(inbox') PROVE Sent(inbox'[i].data)
      BY <1>2, <2>2, SMTT(60)
    <3>3. (\A i \in 1 .. Len(inbox) : Sent(inbox[i].data))'
      BY <1>1, <3>2 DEF Sent, lookup
    <3>4. Len(inbox') <= MaxInbox
      BY <1>2, <2>2, <3>1
    <3>5. QED BY <2>2, <3>3, <3>4
  <2>8. \/ pc' \in {"source", "wait"} /\ UNCHANGED <<ret, wait_retries>>
           /\ elapsed' \in 0 .. Timeout + 1
        \/ Processed(TIMED_OUT)
    BY <1>1, <1>2, <2>5
  <2>9. \/ pc' \in {"source", "wait"} /\ UNCHANGED <<ret, wait_retries>>
           /\ elapsed' \in 0 .. Timeout + 1
        \/ /\ pc' = "stop" /\ ret' \in Codes /\ ret' # SUCCESS /\ wait_retries' \in 0 .. 3
           /\ elapsed' \in 0 .. Timeout + 1
    <3>1. TIMED_OUT \in Wrongs /\ TIMED_OUT # SUCCESS
      BY DEF TIMED_OUT, Wrongs, SUCCESS
    <3>2. QED BY <1>1, <2>8, <3>1, ProcessedOK
  <2>10. InboxOK'
    BY <2>3, <2>6, <2>7, <2>9 DEF InboxOK
  <2>11. AskedOK' /\ ReaderOK'
    BY <1>1, <1>2, <2>9 DEF AskedOK, ReaderOK, Parsing, lookup
  <2>12. StateOK'
    BY <1>1, <2>3, <2>9 DEF NInv, StateOK, CountsOK, lookup, counts
  <2>13. QED BY <2>10, <2>11, <2>12 DEF NInv
<1>4. CASE inbox = <<>>
  <2>1. UNCHANGED <<inbox, current, remote>> /\ result'.n = 0
    BY <1>4 DEF Poll, UDP!ParsePacket, UDP!Returns, UDP!receiver
  <2>2. CASE Processed(TIMED_OUT)
    <3>1. TIMED_OUT \in Wrongs /\ TIMED_OUT # SUCCESS
      BY DEF TIMED_OUT, Wrongs, SUCCESS
    <3>2. QED BY <1>1, <1>2, <2>1, <2>2, <3>1, Stops
  <2>3. CASE ~(elapsed > Timeout) /\ elapsed' = elapsed + 1 /\ UNCHANGED <<pc, ret, wait_retries>>
    <3>1. elapsed' \in 0 .. Timeout + 1
      BY <1>2, <2>3
    <3>2. InboxOK' /\ AskedOK' /\ ReaderOK'
      BY <1>1, <2>1, <2>3 DEF NInv, InboxOK, Sent, AskedOK, ReaderOK, Parsing, lookup
    <3>3. StateOK'
      BY <1>1, <2>1, <2>3, <3>1 DEF NInv, StateOK, CountsOK, lookup, counts
    <3>4. QED BY <3>2, <3>3 DEF NInv
  <2>4. QED BY <2>1, <2>2, <2>3 DEF Poll
<1>5. QED BY <1>3, <1>4

LEMMA StopOK ==
  ASSUME NInv, Stop
  PROVE  NInv'
<1>1. /\ pc = "stop" /\ port' = 0 /\ pc' = "idle" /\ inbox' = <<>> /\ current' = <<>>
      /\ packet' = <<>>
      /\ questions' = 0 /\ answers' = 0 /\ wait_retries' = 0
      /\ UNCHANGED <<remote, iRequestId, aHostname, asked, aAddress, ret, elapsed, cut>>
  BY DEF Stop, Goto, UDP!Reset
<1>2. InboxOK'
  BY <1>1, Constants DEF InboxOK
<1>3. AskedOK' /\ ReaderOK'
  BY <1>1 DEF NInv, AskedOK, ReaderOK, Parsing
<1>4. StateOK'
  BY <1>1 DEF NInv, StateOK, CountsOK, counts
<1>5. QED BY <1>2, <1>3, <1>4 DEF NInv

\* What arrives is something the servers or others may send.
LEMMA ArriveOK ==
  ASSUME NInv, Arrive
  PROVE  NInv'
<1>1. /\ port # 0 /\ Len(inbox) < MaxInbox /\ inbox'[Len(inbox')] \in Arriving
      /\ UNCHANGED <<current, remote, packet, lookup, pc, aAddress, ret, wait_retries, elapsed,
                     counts, cut>>
  BY DEF Arrive, UDP!Arrive
<1>2. PICK d \in Datagrams, p \in Peers : inbox' = Append(inbox, [from |-> p, data |-> d])
  BY DEF Arrive, UDP!Arrive
<1>3. /\ inbox \in Seq([from : Peers, data : Datagrams]) /\ Len(inbox) \in Nat /\ MaxInbox \in Nat
      /\ \A i \in 1 .. Len(inbox) : Sent(inbox[i].data)
  BY Constants, LenProperties DEF NInv, InboxOK
<1>4. /\ inbox' \in Seq([from : Peers, data : Datagrams]) /\ Len(inbox') = Len(inbox) + 1
      /\ inbox'[Len(inbox) + 1] = [from |-> p, data |-> d]
      /\ \A i \in 1 .. Len(inbox) : inbox'[i] = inbox[i]
  <2> DEFINE e == [from |-> p, data |-> d]
  <2>1. e \in [from : Peers, data : Datagrams]
    BY <1>2
  <2> HIDE DEF e
  <2>2. QED BY <1>2, <1>3, <2>1, AppendProperties DEF e
<1>5. Sent(d)
  <2>1. [from |-> p, data |-> d] \in Arriving
    BY <1>1, <1>4
  <2>2. CASE d \in Noise
    BY <2>2 DEF Sent
  <2>3. ASSUME NEW q \in asked, q.port = port,
               d \in Answers(q.id, q.name) \/ d \in Cuts(q.id, q.name)
        PROVE  Sent(d)
    BY <2>3, Zenon DEF Sent
  <2>4. QED
    <3> DEFINE Own == {a \in asked : a.port = port}
               all == {Answers(q.id, q.name) \cup Cuts(q.id, q.name) : q \in Own}
               A == UNION all
    <3>1. Arriving = {[from |-> iDNSServer, data |-> x] : x \in A}
                     \cup {[from |-> s, data |-> x] : s \in Peers, x \in Noise}
      BY DEF Arriving
    <3>2. A \subseteq {x \in A : \E q \in Own : x \in Answers(q.id, q.name) \/ x \in Cuts(q.id, q.name)}
      OBVIOUS
    <3>3. \A q \in Own : q \in asked /\ q.port = port
      OBVIOUS
    <3> HIDE DEF A, all, Own
    <3>4. PICK e : e \in Arriving /\ e.data = d
      BY <2>1
    <3>5. e.data \in A \/ e.data \in Noise
      BY <3>1, <3>4
    <3>6. QED BY <2>2, <2>3, <3>2, <3>3, <3>4, <3>5
<1>6. (Sent(current) => Sent(current)') /\ UNCHANGED cut
  BY <1>1 DEF Sent, lookup
<1>7. (\A i \in 1 .. Len(inbox) : Sent(inbox[i].data))'
  <2>1. ASSUME NEW i \in 1 .. Len(inbox') PROVE Sent(inbox'[i].data)
    <3>1. CASE i \in 1 .. Len(inbox)
      BY <1>3, <1>4, <3>1
    <3>2. CASE i = Len(inbox) + 1
      BY <1>4, <1>5, <3>2
    <3>3. QED BY <1>3, <1>4, <3>1, <3>2
  <2>2. QED BY <1>1, <2>1 DEF Sent, lookup
<1>8. InboxOK'
  BY <1>1, <1>3, <1>4, <1>6, <1>7 DEF NInv, InboxOK
<1>9. AskedOK' /\ ReaderOK'
  <2>1. \A x : Accepted(x, aHostname) => Accepted(x, aHostname)'
    BY <1>1, <1>6 DEF Accepted, lookup
  <2>2. \A x, k : Place(x, k) => Place(x, k)'
    BY <1>1 DEF Place, counts
  <2>3. ReaderOK'
    BY <1>1, <1>6, <2>1, <2>2 DEF NInv, ReaderOK, Off
  <2>4. AskedOK'
    BY <1>1 DEF NInv, AskedOK, lookup
  <2>5. QED BY <2>3, <2>4
<1>10. StateOK'
  BY <1>1 DEF NInv, StateOK, CountsOK, lookup, counts
<1>11. QED BY <1>8, <1>9, <1>10 DEF NInv

-----------------------------------------------------------------------------
(* The invariant. *)

LEMMA InitInv == Init => NInv
<1>1. SUFFICES ASSUME Init PROVE NInv
  OBVIOUS
<1>2. InboxOK
  BY <1>1, Constants DEF Init, UDP!Init, InboxOK
<1>3. AskedOK /\ ReaderOK
  BY <1>1 DEF Init, AskedOK, ReaderOK, Parsing
<1>4. StateOK
  BY <1>1, Constants, CodesAre DEF Init, UDP!Init, StateOK, CountsOK, SUCCESS
<1>5. QED BY <1>2, <1>3, <1>4 DEF NInv

LEMMA NextInv == NInv /\ [Next]_vars => NInv'
<1>1. SUFFICES ASSUME NInv, [Next]_vars PROVE NInv'
  OBVIOUS
<1>2. CASE UNCHANGED vars
  <2>1. InboxOK' /\ AskedOK' /\ ReaderOK'
    BY <1>1, <1>2 DEF vars, udp, lookup, counts, NInv, InboxOK, Sent, AskedOK, ReaderOK, Off, Accepted,
                          Place
  <2>2. StateOK'
    BY <1>1, <1>2 DEF vars, udp, lookup, counts, NInv, StateOK, CountsOK
  <2>3. QED BY <2>1, <2>2 DEF NInv
<1>3. CASE Lookup BY <1>1, <1>3, LookupOK
<1>4. CASE BeginPacket BY <1>1, <1>4, BeginPacketOK
<1>5. CASE BuildRequest BY <1>1, <1>5, BuildRequestOK
<1>6. CASE Commit BY <1>1, <1>6, CommitOK
<1>7. CASE EndPacket BY <1>1, <1>7, EndPacketOK
<1>8. CASE Poll BY <1>1, <1>8, PollOK
<1>9. CASE Source BY <1>1, <1>9, SourceOK
<1>10. CASE Header BY <1>1, <1>10, HeaderOK
<1>11. CASE SkipQuestion BY <1>1, <1>11, SkipQuestionOK
<1>12. CASE SkipName BY <1>1, <1>12, SkipNameOK
<1>13. CASE ReadRecord BY <1>1, <1>13, ReadRecordOK
<1>14. CASE ReadAddress BY <1>1, <1>14, ReadAddressOK
<1>15. CASE NoAnswer BY <1>1, <1>15, NoAnswerOK
<1>16. CASE Stop BY <1>1, <1>16, StopOK
<1>17. CASE Arrive BY <1>1, <1>17, ArriveOK
<1>18. CASE WrongSize BY <1>1, <1>18, WrongSizeOK
<1>19. QED
  BY <1>1, <1>2, <1>3, <1>4, <1>5, <1>6, <1>7, <1>8, <1>9, <1>10, <1>11, <1>12, <1>13, <1>14,
     <1>15, <1>16, <1>17, <1>18 DEF Next, Thread

LEMMA InvAlways == Spec => []NInv
<1>1. QED BY InitInv, NextInv, PTL DEF Spec

\* The client and its UDP object keep their types, whatever arrives and in whatever state
\* the reader is; getHostByName returns none but the codes of Dns.c.
THEOREM TypeCorrect == Spec => []TypeOK
<1>1. NInv => TypeOK
  BY DEF NInv, InboxOK, AskedOK, StateOK, CountsOK, TypeOK, Parsing
<1>2. QED BY <1>1, InvAlways, PTL

\* getHostByName never reports success with the address of another name, be it the
\* answer of an earlier lookup that comes late to the same port or the data of an
\* alias, and wherever a message is cut off, whatever the number of names, ports,
\* identifications and late answers.
THEOREM OwnAnswers == Spec => []AnswerBelongs
<1>1. NInv => AnswerBelongs
  BY DEF NInv, StateOK, AnswerBelongs
<1>2. QED BY <1>1, InvAlways, PTL
=============================================================================
