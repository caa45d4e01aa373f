---------------------------- MODULE Bonjour_proofs ----------------------------
(***************************************************************************)
(* Proofs about the multicast DNS session, for every clock, lifetime,      *)
(* number of slots and set of services: type correctness, that each query  *)
(* has exactly one final callback, and that peers know the services, if    *)
(* run is called often enough for the time to live.                        *)
(***************************************************************************)
EXTENDS Bonjour, TLAPS

LEMMA Positive == Word \in Nat \ {0} /\ Gap \in Nat \ {0} /\ TTL \in Nat \ {0}
<1>1. \A n \in {Word, Gap, NQueryResend, SQueryResend, TTL, NumRecords} : n \in Nat \ {0}
  BY BonjourAssumption
<1>2. QED BY ONLY <1>1

LEMMA SettledType == Settled \in Instants /\ 0 \in Instants
BY Positive, BonjourAssumption DEF Instants

-----------------------------------------------------------------------------
(* Queries. *)

\* A pair of queries and what they owe, in which each query owes a callback, except those
\* in done: these are about to be freed and owe nothing any more.
Query == [deadline : Instants, lastSend : Instants]
Keeps(st, done) ==
  /\ st \in [query : [Queries -> {None} \cup Query], owed : [Queries -> {0, 1}]]
  /\ \A i \in Queries : st.owed[i] = IF st.query[i] = None \/ i \in done THEN 0 ELSE 1

LEMMA QueryIsSomething == ASSUME NEW q \in Query PROVE q # None
BY DEF Query, None

LEMMA Remainder == ASSUME NEW n \in Nat PROVE n % Word \in Instants
BY Positive DEF Instants

LEMMA CancelKeeps ==
  ASSUME NEW st, NEW done, Keeps(st, done), NEW i \in Queries
  PROVE  Keeps(cancelQuery(st, i), done)
BY DEF Keeps, cancelQuery

LEMMA InitQueryKeeps ==
  ASSUME NEW st, NEW done, Keeps(st, done), NEW i \in Queries, NEW timeout \in Timeouts,
         clock \in Instants
  PROVE  Keeps(initQuery(st, i, timeout, IF i \in done THEN 0 ELSE 1), done)
<1> DEFINE promise == IF i \in done THEN 0 ELSE 1
           new == [deadline |-> IF timeout = 0 THEN 0 ELSE (clock + timeout) % Word,
                   lastSend |-> clock]
<1>1. timeout \in Nat /\ clock \in Nat /\ 0 \in Instants
  BY Positive, BonjourAssumption DEF Instants
<1>2. (clock + timeout) % Word \in Instants
  BY <1>1, Remainder
<1>3. new \in Query /\ new # None
  BY <1>1, <1>2, QueryIsSomething DEF Query
<1>4. CASE callback[i] = 0
  BY <1>4 DEF initQuery
<1>5. CASE callback[i] # 0
  <2>1. initQuery(st, i, timeout, promise)
          = [query |-> [st.query EXCEPT ![i] = new], owed |-> [st.owed EXCEPT ![i] = promise]]
    BY <1>5 DEF initQuery
  <2> HIDE DEF new
  <2>2. QED BY <1>3, <2>1 DEF Keeps
<1>6. QED BY <1>4, <1>5

LEMMA AskedKeeps ==
  ASSUME NEW st, NEW done, Keeps(st, done), NEW i \in Queries, clock \in Instants,
         NEW c \in Asked(st, i, IF i \in done THEN 0 ELSE 1)
  PROVE  Keeps(c, done)
BY CancelKeeps, InitQueryKeeps DEF Asked

\* A callback of query j, after which it is freed.
LEMMA CallsKeep ==
  ASSUME NEW st, NEW j \in Queries, Keeps(st, {j}), clock \in Instants, NEW c \in Calls(st, j)
  PROVE  Keeps(c, {j})
<1>1. ASSUME NEW i \in app \cap Queries, c \in Asked(st, i, IF i = j THEN 0 ELSE 1)
      PROVE  Keeps(c, {j})
  <2>1. c \in Asked(st, i, IF i \in {j} THEN 0 ELSE 1)
    BY <1>1
  <2>2. QED BY <2>1, AskedKeeps
<1>2. ASSUME NEW i \in app \cap Queries, c = cancelQuery(st, i)
      PROVE  Keeps(c, {j})
  BY <1>2, CancelKeeps
<1> DEFINE asked == UNION {Asked(st, i, IF i = j THEN 0 ELSE 1) : i \in app \cap Queries}
           cancelled == {cancelQuery(st, i) : i \in app \cap Queries}
<1>3. c = st \/ c \in asked \/ c \in cancelled
  <2>1. Calls(st, j) = {st} \cup cancelled \cup asked
    BY DEF Calls
  <2> HIDE DEF asked, cancelled
  <2>2. QED BY <2>1
<1>4. c \in asked => Keeps(c, {j})
  BY <1>1
<1>5. c \in cancelled => Keeps(c, {j})
  BY <1>2
<1>6. QED BY <1>3, <1>4, <1>5

LEMMA DueKeeps ==
  ASSUME NEW st, NEW i \in Queries, Keeps(st, {}), st.query[i] # None
  PROVE  Keeps(Due(st, i), {i})
BY DEF Keeps, Due

LEMMA WaivedKeeps ==
  ASSUME NEW st, NEW i \in Queries, Keeps(st, {}), st.query[i] # None
  PROVE  Keeps(Waived(st, i), {i})
BY DEF Keeps, Waived

LEMMA ReleasedKeeps ==
  ASSUME NEW st, NEW i \in Queries, Keeps(st, {i})
  PROVE  Keeps(Released(st, i), {})
BY DEF Keeps, Released

LEMMA FinishedKeeps ==
  ASSUME NEW st, NEW i \in Queries, Keeps(st, {}), st.query[i] # None, clock \in Instants,
         NEW c \in finished(st, i)
  PROVE  Keeps(c, {})
<1>1. PICK d \in {Waived(st, i)} \cup Calls(Due(st, i), i) : c = Released(d, i)
  BY DEF finished
<1>2. Keeps(d, {i})
  BY DueKeeps, WaivedKeeps, CallsKeep
<1>3. QED BY <1>1, <1>2, ReleasedKeeps

LEMMA ServicesFoundKeep ==
  ASSUME NEW st, Keeps(st, {}), clock \in Instants, NEW c \in servicesFound(st)
  PROVE  Keeps(c, {})
<1>1. 0 \in Queries
  BY DEF Queries
<1>2. ASSUME c \in Asked(st, 0, 1) PROVE Keeps(c, {})
  <2>1. c \in Asked(st, 0, IF 0 \in {} THEN 0 ELSE 1)
    BY <1>2
  <2>2. QED BY <1>1, <2>1, AskedKeeps
<1>3. QED BY <1>1, <1>2, CancelKeeps DEF servicesFound

-----------------------------------------------------------------------------
(* Type correctness, and a callback for each query. *)

QueriesOK == Keeps(St, {})
RunType == {[at |-> "idle"]} \cup [at : Steps, now : Instants]
RestOK ==
  /\ app \in Applications
  /\ clock \in Instants /\ sinceRun \in 0 .. Gap
  /\ run \in RunType
  /\ callback \in [Queries -> {0, 1}]
  /\ serviceRecords \in [Slots -> {None} \cup Services]
  /\ lastAnnounce \in Instants
  /\ heard \in [Services -> Never .. TTL + 1]

BInv == QueriesOK /\ RestOK

LEMMA Meaning == BInv => TypeOK /\ QueriesAreAnswered
BY DEF BInv, QueriesOK, RestOK, RunType, Keeps, St, Query, TypeOK, QueriesAreAnswered

LEMMA Installs ==
  ASSUME NEW st, Keeps(st, {}), Install(st)
  PROVE  QueriesOK'
<1>1. St' = st
  BY DEF Keeps, Install, St
<1>2. QED BY <1>1 DEF QueriesOK, Keeps

LEMMA QuietQueries == QueriesOK /\ UNCHANGED <<query, owed>> => QueriesOK'
BY DEF QueriesOK, Keeps, St

LEMMA QuietRest ==
  RestOK /\ UNCHANGED <<app, clock, sinceRun, run, callback, serviceRecords, lastAnnounce, heard>>
    => RestOK'
BY DEF RestOK

LEMMA Ages ==
  ASSUME RestOK, NEW ss
  PROVE  /\ Announced(ss) \in [Services -> Never .. TTL + 1]
         /\ Ended(ss) \in [Services -> Never .. TTL + 1]
<1>1. 0 \in Never .. TTL + 1 /\ Never \in Never .. TTL + 1
  BY Positive DEF Never
<1>2. QED BY <1>1 DEF RestOK, Announced, Ended

\* A step of run keeps the value of now.
LEMMA GotoType ==
  ASSUME RestOK, ~Idle, NEW step \in Steps, Goto(step)
  PROVE  /\ run' \in RunType /\ run'.at = step /\ run'.now = run.now
         /\ run.now \in Instants
<1>1. run \in [at : Steps, now : Instants]
  BY DEF RestOK, RunType, Idle
<1>2. run' = [run EXCEPT !.at = step]
  BY DEF Goto
<1>3. run' \in [at : Steps, now : Instants]
  BY <1>1, <1>2
<1>4. QED BY <1>1, <1>2, <1>3 DEF RunType

LEMMA AskInv ==
  ASSUME BInv, NEW i \in Queries, Ask(i) \/ Cancel(i)
  PROVE  BInv'
<1>1. PICK st : Install(st) /\ (st \in Asked(St, i, 1) \/ st = cancelQuery(St, i)) /\ OnlyQueries
  BY DEF Ask, Cancel
<1>2. Keeps(st, {})
  <2>1. CASE st \in Asked(St, i, 1)
    <3>1. st \in Asked(St, i, IF i \in {} THEN 0 ELSE 1)
      BY <2>1
    <3>2. QED BY <3>1, AskedKeeps DEF BInv, QueriesOK, RestOK
  <2>2. QED BY <1>1, <2>1, CancelKeeps DEF BInv, QueriesOK
<1>3. QED BY <1>1, <1>2, Installs, QuietRest DEF BInv, OnlyQueries

LEMMA SetCallbackInv ==
  ASSUME BInv, NEW i \in Queries, SetCallback(i)
  PROVE  BInv'
BY QuietQueries DEF BInv, SetCallback, RestOK

LEMMA RecordsInv ==
  ASSUME BInv, NEW s \in Services,
         AddServiceRecord(s) \/ RemoveServiceRecordByName(s)
  PROVE  BInv'
<1>1. OnlyRecords
  BY DEF AddServiceRecord, RemoveServiceRecordByName
<1>2. /\ serviceRecords' \in [Slots -> {None} \cup Services]
      /\ heard' \in [Services -> Never .. TTL + 1]
  <2>1. CASE AddServiceRecord(s)
    BY <2>1, Ages DEF AddServiceRecord, BInv, RestOK
  <2>2. ASSUME NEW ks, Without(ks)
        PROVE  /\ serviceRecords' \in [Slots -> {None} \cup Services]
               /\ heard' \in [Services -> Never .. TTL + 1]
    BY <2>2, Ages DEF Without, BInv, RestOK
  <2>3. QED BY <2>1, <2>2 DEF RemoveServiceRecordByName
<1>3. QED BY <1>1, <1>2, QuietQueries DEF BInv, RestOK, OnlyRecords

LEMMA StartRunInv == BInv /\ StartRun => BInv'
<1> SUFFICES ASSUME BInv, StartRun PROVE BInv'
  OBVIOUS
<1>1. run' \in RunType
  BY DEF StartRun, BInv, RestOK, RunType, Steps
<1>2. sinceRun' \in 0 .. Gap
  BY Positive DEF StartRun
<1>3. QED BY <1>1, <1>2, QuietQueries DEF BInv, RestOK, StartRun

\* A step of run that changes no queries.
LEMMA PacketInv == BInv /\ (NoPacket \/ AnswerQuery) => BInv'
<1> SUFFICES ASSUME BInv, NoPacket \/ AnswerQuery PROVE BInv'
  OBVIOUS
<1>1. At("packet") /\ Goto("query 0") /\ InRun
      /\ UNCHANGED <<query, owed, serviceRecords, lastAnnounce>>
  BY DEF NoPacket, AnswerQuery
<1>2. run' \in RunType
  BY <1>1, GotoType DEF BInv, At, Idle, Steps
<1>3. heard' \in [Services -> Never .. TTL + 1]
  BY Ages DEF NoPacket, AnswerQuery, BInv, RestOK
<1>4. QED BY <1>1, <1>2, <1>3, QuietQueries DEF BInv, RestOK, InRun

LEMMA TakeResponseInv == BInv /\ TakeResponse => BInv'
<1> SUFFICES ASSUME BInv, TakeResponse PROVE BInv'
  OBVIOUS
<1>1. PICK named \in (IF query[0] = None THEN {St} ELSE {St} \cup finished(St, 0)) :
        \E st \in (IF named.query[1] = None \/ callback[1] = 0 THEN {named}
                  ELSE {named} \cup servicesFound(named)) : Install(st)
  BY DEF TakeResponse
<1>2. 0 \in Queries /\ clock \in Instants /\ Keeps(St, {})
  BY DEF Queries, BInv, RestOK, QueriesOK
<1>3. Keeps(named, {})
  BY <1>1, <1>2, FinishedKeeps DEF St
<1>4. PICK st \in {named} \cup servicesFound(named) : Install(st)
  BY <1>1
<1>5. Keeps(st, {})
  BY <1>2, <1>3, <1>4, ServicesFoundKeep
<1>6. QueriesOK'
  BY <1>4, <1>5, Installs
<1>7. run' \in RunType
  BY GotoType DEF BInv, TakeResponse, At, Idle, Steps
<1>8. QED BY <1>6, <1>7 DEF BInv, RestOK, TakeResponse, InRun

LEMMA CheckQueryInv ==
  ASSUME BInv, NEW i \in Queries, NEW step \in Steps, NEW next \in Steps,
         CheckQuery(i, step, next)
  PROVE  BInv'
<1>1. At(step) /\ Goto(next) /\ InRun /\ UNCHANGED <<serviceRecords, lastAnnounce, heard>>
  BY DEF CheckQuery
<1>2. RestOK'
  <2>1. run' \in RunType
    BY <1>1, GotoType DEF BInv, At, Idle, Steps
  <2>2. QED BY <1>1, <2>1 DEF BInv, RestOK, InRun
<1>3. CASE query[i] = None
  BY <1>2, <1>3, QuietQueries DEF CheckQuery, BInv
<1>4. CASE query[i] # None
  <2> DEFINE again == Since(run.now, query[i].lastSend) > Resend(i)
             st == [St EXCEPT !.query[i].lastSend = IF again THEN clock ELSE @]
  <2>1. PICK end \in (IF Overdue(i) THEN finished(st, i) ELSE {st}) : Install(end)
    BY <1>4 DEF CheckQuery
  <2>2. Keeps(st, {}) /\ st.query[i] # None
    <3>1. query[i] \in Query /\ clock \in Instants /\ Keeps(St, {})
      BY <1>4 DEF BInv, QueriesOK, RestOK, Keeps, St
    <3>2. PICK t \in Instants : st = [St EXCEPT !.query[i].lastSend = t]
      BY <3>1 DEF Query, St
    <3>3. PICK q \in Query : st = [St EXCEPT !.query[i] = q]
      BY <3>1, <3>2 DEF Query, St
    <3>4. q # None
      BY QueryIsSomething
    <3>5. QED BY <1>4, <3>1, <3>3, <3>4 DEF Keeps, St
  <2>3. Keeps(end, {})
    BY <2>1, <2>2, FinishedKeeps DEF BInv, RestOK
  <2>4. QED BY <1>2, <2>1, <2>3, Installs DEF BInv
<1>5. QED BY <1>3, <1>4

LEMMA AnnounceInv == BInv /\ Announce => BInv'
<1> SUFFICES ASSUME BInv, Announce PROVE BInv'
  OBVIOUS
<1>1. At("announce") /\ run' = [at |-> "idle"] /\ InRun
      /\ UNCHANGED <<query, owed, serviceRecords>>
  BY DEF Announce
<1>2. run' \in RunType
  BY <1>1 DEF RunType
<1>3. lastAnnounce' \in Instants
  BY DEF Announce, BInv, RestOK, RunType, At
<1>4. heard' \in [Services -> Never .. TTL + 1]
  BY Ages DEF Announce, BInv, RestOK
<1>5. QED BY <1>1, <1>2, <1>3, <1>4, QuietQueries DEF BInv, RestOK, InRun

LEMMA TickInv == BInv /\ Tick => BInv'
<1> SUFFICES ASSUME BInv, Tick PROVE BInv'
  OBVIOUS
<1>1. clock' \in Instants
  <2>1. clock + 1 \in Nat
    BY Positive DEF BInv, RestOK, Instants
  <2>2. QED BY <2>1, Remainder DEF Tick
<1>2. sinceRun' \in 0 .. Gap
  BY Positive DEF Tick, BInv, RestOK
<1>3. heard' \in [Services -> Never .. TTL + 1]
  <2>1. ASSUME NEW age \in Never .. TTL + 1
        PROVE  (IF age \in 0 .. TTL THEN age + 1 ELSE age) \in Never .. TTL + 1
    BY Positive DEF Never
  <2>2. QED BY <2>1 DEF Tick, BInv, RestOK
<1>4. QED BY <1>1, <1>2, <1>3, QuietQueries DEF BInv, RestOK, Tick

LEMMA InitInv == Init => BInv
<1> SUFFICES ASSUME Init PROVE BInv
  OBVIOUS
<1>1. QueriesOK
  BY DEF Init, QueriesOK, Keeps, St
<1>2. Settled \in Instants /\ 0 \in Instants /\ 0 \in 0 .. Gap /\ Never \in Never .. TTL + 1
  BY SettledType, Positive DEF Never
<1>3. RestOK
  BY <1>2 DEF Init, RestOK, RunType
<1>4. QED BY <1>1, <1>3 DEF BInv

LEMMA NextInv == BInv /\ [Next]_vars => BInv'
<1> SUFFICES ASSUME BInv, [Next]_vars PROVE BInv'
  OBVIOUS
<1>1. ASSUME NEW i \in Queries, SetCallback(i) \/ Ask(i) \/ Cancel(i)
      PROVE  BInv'
  BY <1>1, SetCallbackInv, AskInv
<1>2. CASE UNCHANGED vars
  BY <1>2, QuietQueries, QuietRest DEF BInv, vars
<1>3. ASSUME NEW s \in Services, \/ AddServiceRecord(s) \/ AddServiceRecordFails(s)
                                 \/ RemoveServiceRecordByName(s)
      PROVE  BInv'
  BY <1>2, <1>3, RecordsInv DEF AddServiceRecordFails
<1>4. CASE RemoveAllServiceRecords
  <2>1. OnlyRecords /\ QueriesOK'
    BY <1>4, QuietQueries DEF RemoveAllServiceRecords, OnlyRecords, BInv
  <2>2. RestOK'
    BY <1>4, <2>1, Ages DEF RemoveAllServiceRecords, Without, OnlyRecords, BInv, RestOK
  <2>3. QED BY <2>1, <2>2 DEF BInv
<1>5. CASE RunStep
  <2>1. 0 \in Queries /\ 1 \in Queries /\ {"query 0", "query 1", "announce"} \subseteq Steps
    BY DEF Queries, Steps
  <2>2. QED BY <1>5, <2>1, PacketInv, TakeResponseInv, CheckQueryInv, AnnounceInv DEF RunStep
<1>6. QED BY <1>1, <1>2, <1>3, <1>4, <1>5, StartRunInv, TickInv DEF Next

LEMMA Invariant == Spec => []BInv
<1>1. QED BY InitInv, NextInv, PTL DEF Spec

\* The clock and the times kept are instants, also after the clock has wrapped around,
\* and the slots hold services or nothing.
THEOREM TypeCorrect == Spec => []TypeOK
<1>1. QED BY Invariant, Meaning, PTL

\* A query in hand owes its caller exactly one final callback and one that is gone owes
\* none, for answers, time-outs and the application's calls in any order (run,
\* finishedResolvingName).
THEOREM OneCallback == Spec => []QueriesAreAnswered
<1>1. QED BY Invariant, Meaning, PTL

-----------------------------------------------------------------------------
(* The clock, which wraps around. *)

LEMMA SinceIs ==
  ASSUME NEW now \in Instants, NEW t \in Instants
  PROVE  /\ Since(now, t) = IF now >= t THEN now - t ELSE now - t + Word
         /\ Since(now, t) \in Instants
<1>1. CASE now >= t
  <2>1. now - t \in 0 .. Word - 1
    BY <1>1, Positive DEF Instants
  <2>2. QED BY <1>1, <2>1, Positive DEF Since, Instants
<1>2. CASE now < t
  <2>1. now - t \in 1 - Word .. -1
    BY <1>2, Positive DEF Instants
  <2>2. QED BY <1>2, <2>1, Positive DEF Since, Instants
<1>3. QED BY <1>1, <1>2, Positive DEF Instants

LEMMA NextInstant ==
  ASSUME NEW now \in Instants
  PROVE  (now + 1) % Word = IF now + 1 = Word THEN 0 ELSE now + 1
<1>1. CASE now + 1 = Word
  BY <1>1, Positive DEF Instants
<1>2. CASE now + 1 # Word
  <2>1. now + 1 \in 0 .. Word - 1
    BY <1>2, Positive DEF Instants
  <2>2. QED BY <1>2, <2>1, Positive
<1>3. QED BY <1>1, <1>2

\* A tick makes every age one more, as long as it is no whole turn of the clock.
LEMMA OlderByOne ==
  ASSUME NEW now \in Instants, NEW t \in Instants, Since(now, t) + 1 < Word
  PROVE  /\ (now + 1) % Word \in Instants
         /\ Since((now + 1) % Word, t) = Since(now, t) + 1
<1>1. PICK next \in Instants : /\ next = (now + 1) % Word
                              /\ next = IF now + 1 = Word THEN 0 ELSE now + 1
  BY NextInstant, Positive DEF Instants
<1>2. Since(next, t) = IF next >= t THEN next - t ELSE next - t + Word
  BY SinceIs
<1>3. Since(now, t) = IF now >= t THEN now - t ELSE now - t + Word
  BY SinceIs
<1>4. Since(next, t) = Since(now, t) + 1
  BY <1>1, <1>2, <1>3, Positive DEF Instants
<1>5. QED BY <1>1, <1>4

\* The age that something had at an earlier instant.
LEMMA Earlier ==
  ASSUME NEW now \in Instants, NEW then \in Instants, NEW t \in Instants,
         Since(now, then) <= Since(now, t)
  PROVE  Since(then, t) = Since(now, t) - Since(now, then)
<1>1. /\ Since(now, then) = IF now >= then THEN now - then ELSE now - then + Word
      /\ Since(now, t) = IF now >= t THEN now - t ELSE now - t + Word
      /\ Since(then, t) = IF then >= t THEN then - t ELSE then - t + Word
  BY SinceIs
<1>2. QED BY <1>1, Positive DEF Instants

LEMMA SinceItself == ASSUME NEW t \in Instants PROVE Since(t, t) = 0
BY SinceIs, Positive DEF Instants

-----------------------------------------------------------------------------
(* What peers know. The announcements keep up with the time to live if run is called so
   often that two gaps between calls fit into the quarter of it that is left. *)

Prompt == announceTimeOut + 2 * Gap <= TTL /\ Settled <= announceTimeOut

\* The last announcement is no older than its time-out and the gaps allow: up to one
\* until the run that makes the next, and one more until that run is done.
Age == Since(clock, lastAnnounce)
AgeOK ==
  /\ Idle => Age <= announceTimeOut + sinceRun
  /\ ~Idle => /\ Since(clock, run.now) = sinceRun
              /\ sinceRun <= Age /\ Age <= announceTimeOut + Gap + sinceRun

\* Each service has at most one slot, and what the peer has heard of it is no older than
\* the last announcement.
OneSlotEach == \A j, k \in Used : serviceRecords[j] = serviceRecords[k] => j = k
HeardOK == \A s \in Services : IF s \in Registered THEN heard[s] \in 0 .. Age
                                                  ELSE heard[s] = Never

PInv == BInv /\ AgeOK /\ OneSlotEach /\ HeardOK

LEMMA AnnounceTimeOutType == announceTimeOut \in Nat
<1>1. TTL \div 2 \in Nat /\ TTL \div 4 \in Nat
  BY Positive
<1>2. QED BY <1>1 DEF announceTimeOut

LEMMA AgeType == BInv => Age \in Nat /\ sinceRun \in 0 .. Gap
BY SinceIs, Positive DEF BInv, RestOK, Age, Instants

LEMMA AgeBound == Prompt /\ PInv => Age \in 0 .. TTL /\ Age + Gap < Word + sinceRun
<1> SUFFICES ASSUME Prompt, PInv PROVE Age \in 0 .. TTL /\ Age + Gap < Word + sinceRun
  OBVIOUS
<1>1. Age <= announceTimeOut + Gap + sinceRun
  BY AgeType, AnnounceTimeOutType, Positive DEF PInv, AgeOK
<1>2. TTL + Gap < Word
  BY BonjourAssumption
<1>3. QED BY <1>1, <1>2, AgeType, AnnounceTimeOutType, Positive DEF Prompt, PInv

LEMMA PeersKnow == Prompt /\ PInv => PeerKnowsServices
BY AgeBound, AgeType, Positive DEF PInv, HeardOK, PeerKnowsServices

\* A step that leaves the clock, the records and the announcements as they are.
LEMMA Quiet ==
  ASSUME PInv, UNCHANGED <<clock, sinceRun, run, serviceRecords, lastAnnounce, heard>>
  PROVE  AgeOK' /\ OneSlotEach' /\ HeardOK'
BY DEF PInv, AgeOK, OneSlotEach, HeardOK, Age, Idle, Used, Registered

LEMMA SameRecords ==
  UNCHANGED serviceRecords => Used' = Used /\ Registered' = Registered
BY DEF Used, Registered

LEMMA SlotType ==
  ASSUME BInv, NEW k \in Used
  PROVE  k \in Slots /\ serviceRecords[k] \in Registered /\ serviceRecords[k] \in Services
BY DEF BInv, RestOK, Used, Registered

LEMMA AddPeers ==
  ASSUME PInv, NEW s \in Services, AddServiceRecord(s)
  PROVE  OneSlotEach' /\ HeardOK'
<1>1. PICK k \in Slots \ Used : serviceRecords' = [serviceRecords EXCEPT ![k] = s]
  BY DEF AddServiceRecord
<1>2. s # None /\ s \notin Registered /\ heard' = Announced({s}) /\ OnlyRecords
  BY BonjourAssumption DEF AddServiceRecord
<1>3. serviceRecords' = [j \in Slots |-> IF j = k THEN s ELSE serviceRecords[j]]
  BY <1>1 DEF PInv, BInv, RestOK
<1>4. Used' = Used \cup {k}
  BY <1>2, <1>3 DEF Used
<1>5. \A j \in Used : j # k /\ serviceRecords'[j] = serviceRecords[j]
  BY <1>3 DEF Used
<1>6. serviceRecords'[k] = s
  BY <1>3
<1>7. Registered' = Registered \cup {s}
  BY <1>4, <1>5, <1>6 DEF Registered
<1>8. OneSlotEach'
  BY <1>2, <1>4, <1>5, <1>6 DEF PInv, OneSlotEach, Registered
<1>9. Age' = Age /\ Age \in Nat
  BY <1>2, AgeType DEF Age, OnlyRecords, PInv
<1>10. HeardOK'
  BY <1>2, <1>7, <1>9 DEF HeardOK, PInv, Announced
<1>11. QED BY <1>8, <1>10

LEMMA WithoutPeers ==
  ASSUME PInv, NEW ks, Without(ks), OnlyRecords
  PROVE  OneSlotEach' /\ HeardOK'
<1>1. serviceRecords' = [k \in Slots |-> IF k \in ks THEN None ELSE serviceRecords[k]]
  BY DEF Without
<1>2. Used' = Used \ ks
  BY <1>1 DEF Used
<1>3. \A k \in Used' : k \in Used /\ serviceRecords'[k] = serviceRecords[k]
  BY <1>1, <1>2 DEF Used
<1>4. OneSlotEach'
  BY <1>3 DEF PInv, OneSlotEach
<1> DEFINE gone == {serviceRecords[k] : k \in ks \cap Used}
<1>5. Registered' = Registered \ gone
  <2>1. Registered' \subseteq Registered
    BY <1>3 DEF Registered
  <2>2. ASSUME NEW k \in Used', NEW j \in ks \cap Used, serviceRecords[k] = serviceRecords[j]
        PROVE  FALSE
    BY <1>2, <1>3, <2>2 DEF PInv, OneSlotEach
  <2>3. Registered' \cap gone = {}
    BY <1>3, <2>2 DEF Registered
  <2>4. ASSUME NEW k \in Used, serviceRecords[k] \notin gone
        PROVE  serviceRecords[k] \in Registered'
    <3>1. k \in Used'
      BY <1>2, <2>4
    <3>2. QED BY <1>3, <3>1 DEF Registered
  <2>5. QED BY <2>1, <2>3, <2>4 DEF Registered
<1>6. gone \subseteq Registered
  BY DEF Registered
<1>7. heard' = Ended(gone) /\ Age' = Age
  BY DEF Without, Age, OnlyRecords
<1> HIDE DEF gone
<1>8. HeardOK'
  BY <1>5, <1>6, <1>7 DEF HeardOK, PInv, Ended
<1>9. QED BY <1>4, <1>8

\* The steps of run before the last, which may announce services that are registered.
LEMMA RunPeers ==
  ASSUME PInv, ~Idle, NEW step \in Steps, Goto(step), UNCHANGED <<clock, sinceRun>>,
         UNCHANGED <<serviceRecords, lastAnnounce>>,
         UNCHANGED heard \/ \E ss \in SUBSET Registered : heard' = Announced(ss)
  PROVE  AgeOK' /\ OneSlotEach' /\ HeardOK'
<1>1. run'.now = run.now /\ run'.at = step
  BY GotoType DEF PInv, BInv
<1>2. AgeOK'
  BY <1>1 DEF PInv, AgeOK, Age, Idle, Steps
<1>3. OneSlotEach'
  BY DEF PInv, OneSlotEach, Used
<1>4. Age' = Age /\ Age \in Nat /\ Registered' = Registered
  BY AgeType, SameRecords DEF Age, PInv
<1>5. HeardOK'
  BY <1>4 DEF PInv, HeardOK, Announced
<1>6. QED BY <1>2, <1>3, <1>5

LEMMA AnnouncePeers ==
  ASSUME PInv, Announce
  PROVE  AgeOK' /\ OneSlotEach' /\ HeardOK'
<1>1. /\ ~Idle /\ Idle' /\ run' = [at |-> "idle"]
      /\ UNCHANGED <<clock, sinceRun, serviceRecords>>
  BY DEF Announce, At, Idle, InRun
<1>2. run.now \in Instants /\ clock \in Instants /\ lastAnnounce \in Instants
  BY <1>1 DEF PInv, BInv, RestOK, RunType, Idle
<1>3. Since(clock, run.now) = sinceRun /\ sinceRun <= Age /\ Age \in Nat /\ sinceRun \in Nat
  BY <1>1, AgeType DEF PInv, AgeOK
<1>4. OneSlotEach' /\ Registered' = Registered
  BY <1>1, SameRecords DEF PInv, OneSlotEach
<1>5. CASE Since(run.now, lastAnnounce) > announceTimeOut
  <2>1. heard' = Announced(Registered) /\ lastAnnounce' = run.now
    BY <1>5 DEF Announce
  <2>2. Age' = sinceRun
    BY <1>1, <1>3, <2>1 DEF Age
  <2>3. AgeOK'
    BY <1>1, <1>3, <2>2, AnnounceTimeOutType DEF AgeOK
  <2>4. HeardOK'
    BY <1>3, <1>4, <2>1, <2>2 DEF PInv, HeardOK, Announced
  <2>5. QED BY <1>4, <2>3, <2>4
<1>6. CASE ~(Since(run.now, lastAnnounce) > announceTimeOut)
  <2>1. UNCHANGED <<heard, lastAnnounce>> /\ Age' = Age
    BY <1>1, <1>6 DEF Announce, Age
  <2>2. Since(run.now, lastAnnounce) = Age - sinceRun
    BY <1>2, <1>3, Earlier DEF Age
  <2>3. Age <= announceTimeOut + sinceRun
    BY <1>3, <1>6, <2>2, AnnounceTimeOutType
  <2>4. AgeOK'
    BY <1>1, <2>1, <2>3 DEF AgeOK
  <2>5. HeardOK'
    BY <1>4, <2>1 DEF PInv, HeardOK
  <2>6. QED BY <1>4, <2>4, <2>5
<1>7. QED BY <1>5, <1>6

LEMMA StartRunPeers ==
  ASSUME PInv, StartRun
  PROVE  AgeOK' /\ OneSlotEach' /\ HeardOK'
<1>1. /\ Idle /\ ~Idle' /\ run'.now = clock /\ sinceRun' = 0
      /\ UNCHANGED <<clock, serviceRecords, lastAnnounce, heard>>
  BY DEF StartRun, Idle
<1>2. OneSlotEach' /\ HeardOK'
  BY <1>1, SameRecords DEF PInv, OneSlotEach, HeardOK, Age
<1>3. Since(clock, clock) = 0
  BY SinceItself DEF PInv, BInv, RestOK
<1>4. Age' = Age /\ Age \in Nat /\ sinceRun \in 0 .. Gap
  BY <1>1, AgeType DEF PInv, Age
<1>5. 0 <= Age /\ Age <= announceTimeOut + Gap + 0
  BY <1>1, <1>4, AnnounceTimeOutType, Positive DEF PInv, AgeOK
<1>6. QED BY <1>1, <1>2, <1>3, <1>4, <1>5 DEF AgeOK

LEMMA TickPeers ==
  ASSUME Prompt, PInv, Tick
  PROVE  AgeOK' /\ OneSlotEach' /\ HeardOK'
<1>1. /\ sinceRun < Gap /\ clock' = (clock + 1) % Word /\ sinceRun' = sinceRun + 1
      /\ heard' = [s \in Services |-> IF heard[s] \in 0 .. TTL THEN heard[s] + 1 ELSE heard[s]]
      /\ UNCHANGED <<run, serviceRecords, lastAnnounce>>
  BY DEF Tick
<1>2. /\ clock \in Instants /\ lastAnnounce \in Instants
      /\ ~Idle => run.now \in Instants
  BY DEF PInv, BInv, RestOK, RunType, Idle
<1>3. Age \in 0 .. TTL /\ Age + 1 < Word /\ sinceRun \in 0 .. Gap
  BY <1>1, AgeBound, AgeType, Positive DEF PInv
<1>4. Age' = Age + 1
  BY <1>1, <1>2, <1>3, OlderByOne DEF Age
<1>5. ~Idle => Since(clock', run.now) = sinceRun + 1
  <2>1. SUFFICES ASSUME ~Idle PROVE Since(clock', run.now) = sinceRun + 1
    OBVIOUS
  <2>2. Since(clock, run.now) = sinceRun /\ sinceRun + 1 < Word
    BY <1>1, <1>3, <2>1, BonjourAssumption, Positive DEF PInv, AgeOK
  <2>3. QED BY <1>1, <1>2, <2>1, <2>2, OlderByOne
<1>6. AgeOK'
  <2>1. Idle' = Idle /\ run'.now = run.now
    BY <1>1 DEF Idle
  <2>2. CASE Idle
    <3>1. Age + 1 <= announceTimeOut + (sinceRun + 1)
      BY <1>3, <2>2, AnnounceTimeOutType, Positive DEF PInv, AgeOK
    <3>2. QED BY <1>1, <1>4, <2>1, <2>2, <3>1 DEF AgeOK
  <2>3. CASE ~Idle
    <3>1. sinceRun + 1 <= Age + 1 /\ Age + 1 <= announceTimeOut + Gap + (sinceRun + 1)
      BY <1>3, <2>3, AnnounceTimeOutType, Positive DEF PInv, AgeOK
    <3>2. QED BY <1>1, <1>4, <1>5, <2>1, <2>3, <3>1 DEF AgeOK
  <2>4. QED BY <2>2, <2>3
<1>7. OneSlotEach' /\ Registered' = Registered
  BY <1>1, SameRecords DEF PInv, OneSlotEach
<1>8. HeardOK'
  <2>1. ASSUME NEW s \in Services, s \in Registered
        PROVE  heard'[s] \in 0 .. Age + 1
    BY <1>1, <1>3, <2>1, Positive DEF PInv, HeardOK
  <2>2. ASSUME NEW s \in Services, s \notin Registered
        PROVE  heard'[s] = Never
    BY <1>1, <2>2, Positive DEF PInv, HeardOK, Never
  <2>3. QED BY <1>4, <1>7, <2>1, <2>2 DEF HeardOK
<1>9. QED BY <1>6, <1>7, <1>8

LEMMA InitPeers == Prompt /\ Init => PInv
<1> SUFFICES ASSUME Prompt, Init PROVE PInv
  OBVIOUS
<1>1. Used = {} /\ Registered = {}
  BY DEF Init, Used, Registered
<1>2. Age = Settled
  BY SinceIs, SettledType DEF Init, Age, Instants
<1>3. AgeOK
  BY <1>2, AnnounceTimeOutType, Positive, SettledType DEF Prompt, Init, AgeOK, Idle, Instants
<1>4. OneSlotEach /\ HeardOK
  BY <1>1 DEF Init, OneSlotEach, HeardOK
<1>5. QED BY <1>3, <1>4, InitInv DEF PInv

LEMMA RunStepPeers ==
  ASSUME PInv, RunStep
  PROVE  AgeOK' /\ OneSlotEach' /\ HeardOK'
<1>1. CASE Announce
  BY <1>1, AnnouncePeers
<1>2. CASE ~Announce
  <2>1. PICK step \in Steps : Goto(step)
    BY <1>2 DEF RunStep, NoPacket, AnswerQuery, TakeResponse, CheckQuery, Steps
  <2>2. ~Idle /\ UNCHANGED <<clock, sinceRun, serviceRecords, lastAnnounce>>
    BY <1>2 DEF RunStep, NoPacket, AnswerQuery, TakeResponse, CheckQuery, At, Idle, InRun
  <2>3. UNCHANGED heard \/ \E ss \in SUBSET Registered : heard' = Announced(ss)
    <3>1. CASE AnswerQuery
      <4>1. PICK ks \in SUBSET Used : heard' = Announced({serviceRecords[k] : k \in ks})
        BY <3>1 DEF AnswerQuery
      <4>2. {serviceRecords[k] : k \in ks} \subseteq Registered
        BY DEF Registered
      <4>3. QED BY <4>1, <4>2
    <3>2. QED BY <1>2, <3>1 DEF RunStep, NoPacket, TakeResponse, CheckQuery
  <2>4. QED BY <2>1, <2>2, <2>3, RunPeers
<1>3. QED BY <1>1, <1>2

LEMMA NextPeers == Prompt /\ PInv /\ [Next]_vars => PInv'
<1> SUFFICES ASSUME Prompt, PInv, [Next]_vars PROVE AgeOK' /\ OneSlotEach' /\ HeardOK'
  BY NextInv DEF PInv
<1>1. ASSUME NEW i \in Queries, SetCallback(i) \/ Ask(i) \/ Cancel(i)
      PROVE  AgeOK' /\ OneSlotEach' /\ HeardOK'
  BY <1>1, Quiet DEF SetCallback, Ask, Cancel, OnlyQueries
<1>2. CASE UNCHANGED vars
  BY <1>2, Quiet DEF vars
<1>3. ASSUME OnlyRecords PROVE AgeOK'
  BY <1>3 DEF PInv, AgeOK, Age, Idle, OnlyRecords
<1>4. ASSUME NEW s \in Services, AddServiceRecord(s)
      PROVE  AgeOK' /\ OneSlotEach' /\ HeardOK'
  BY <1>3, <1>4, AddPeers DEF AddServiceRecord
<1>5. ASSUME NEW ks, Without(ks), OnlyRecords
      PROVE  AgeOK' /\ OneSlotEach' /\ HeardOK'
  BY <1>3, <1>5, WithoutPeers
<1>6. ASSUME NEW s \in Services, \/ AddServiceRecord(s) \/ AddServiceRecordFails(s)
                                 \/ RemoveServiceRecordByName(s)
      PROVE  AgeOK' /\ OneSlotEach' /\ HeardOK'
  <2>1. CASE RemoveServiceRecordByName(s)
    BY <1>5, <2>1 DEF RemoveServiceRecordByName
  <2>2. QED BY <1>2, <1>4, <1>6, <2>1 DEF AddServiceRecordFails
<1>7. CASE RemoveAllServiceRecords
  BY <1>5, <1>7 DEF RemoveAllServiceRecords
<1>8. QED BY <1>1, <1>2, <1>6, <1>7, StartRunPeers, RunStepPeers, TickPeers DEF Next

\* Peers that drop what they were told when its time to live is over know the registered
\* services and no other, over any number of turns of the clock, if run is called so
\* promptly that two gaps between calls fit into the last quarter of the time to live.
THEOREM PromptRunsKeepPeersInformed == ASSUME Prompt PROVE Spec => []PeerKnowsServices
<1>1. Init => PInv
  BY InitPeers
<1>2. PInv /\ [Next]_vars => PInv'
  BY NextPeers
<1>3. PInv => PeerKnowsServices
  BY PeersKnow
<1>4. QED BY <1>1, <1>2, <1>3, PTL DEF Spec
=============================================================================
