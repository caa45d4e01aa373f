------------------------------- MODULE Bonjour -------------------------------
(***************************************************************************)
(* The multicast DNS session of EthernetBonjour.c over time: the queries   *)
(* for a name and for a service, the service records, and run, which the   *)
(* application calls again and again.                                      *)
(*                                                                         *)
(* millis() is clock, which wraps around at Word; it goes on between the   *)
(* steps of run, whose now is read once. A run begins at least every Gap   *)
(* ticks. What the packets say and how they are matched is the subject of  *)
(* BonjourMessages; here a packet answers a query or asks for records.     *)
(* No packet is lost between the device and the peer.                      *)
(***************************************************************************)
EXTENDS Integers

CONSTANTS
  Word,              \* 2^32: millis() wraps around
  Settled,           \* begin waits until millis() is at least this
  Gap,               \* a run begins within this many ticks of the last one
  NQueryResend,      \* MDNS_NQUERY_RESEND_TIME
  SQueryResend,      \* MDNS_SQUERY_RESEND_TIME
  TTL,               \* MDNS_RESPONSE_TTL
  Timeouts,          \* timeouts queries are given; 0 is none
  NumRecords,        \* NumMDNSServiceRecords
  Services,          \* what the application registers, each at most once
  Applications       \* what applications use, each a subset of {0, 1, 2}

None == <<>>         \* an empty slot, and no query

ASSUME BonjourAssumption ==
  /\ \A n \in {Word, Gap, NQueryResend, SQueryResend, TTL, NumRecords} : n \in Nat \ {0}
  /\ Settled \in 0 .. Word - 1 /\ TTL + Gap < Word
  /\ Timeouts \subseteq 0 .. Word - 1 /\ None \notin Services

Never == -1          \* the peer has not heard of a service, or that it ended

VARIABLES
  app,               \* what the application uses
  clock,             \* millis()
  sinceRun,          \* ticks since the last run began
  run,               \* where run is, and its now
  callback,          \* callback[i] = 1: _nameFoundCallback (0), _serviceFoundCallback (1) is set
  query,             \* query[i]: _resolveNames[i] # NULL, with its deadline and last send
  owed,              \* callbacks a query still owes its caller
  serviceRecords,    \* _serviceRecords
  lastAnnounce,      \* _lastAnnounceMillis
  heard              \* age of what the peer last heard of each service

vars == <<app, clock, sinceRun, run, callback, query, owed, serviceRecords, lastAnnounce, heard>>

Queries == {0, 1}    \* of a host's name, of a service
Records == 2         \* in app: service records
Slots == 1 .. NumRecords

\* now - t of unsigned longs.
Since(now, t) == (now - t) % Word

\* begin returns once millis() has come to Settled.
Init ==
  /\ app \in Applications
  /\ clock = Settled /\ sinceRun = 0
  /\ run = [at |-> "idle"]
  /\ callback = [i \in Queries |-> 0]
  /\ query = [i \in Queries |-> None]
  /\ owed = [i \in Queries |-> 0]
  /\ serviceRecords = [k \in Slots |-> None]
  /\ lastAnnounce = 0
  /\ heard = [s \in Services |-> Never]

-----------------------------------------------------------------------------
(* Queries: functions of st, the queries and what they owe. *)

St == [query |-> query, owed |-> owed]
Install(st) == query' = st.query /\ owed' = st.owed

cancelQuery(st, i) ==
  [query |-> [st.query EXCEPT ![i] = None],
   owed |-> IF st.query[i] = None THEN st.owed ELSE [st.owed EXCEPT ![i] = 0]]

\* Mutant of initQuery: the deadline does not wrap around.
initQueryWide(st, i, timeout, promise) ==
  IF callback[i] = 0 THEN st
  ELSE [query |-> [st.query EXCEPT ![i] =
                     [deadline |-> IF timeout = 0 THEN 0 ELSE clock + timeout,
                      lastSend |-> clock]],
        owed |-> [st.owed EXCEPT ![i] = promise]]

\* The query is sent at once. Without a callback it is refused.
initQuery(st, i, timeout, promise) ==
  IF callback[i] = 0 THEN st
  ELSE [query |-> [st.query EXCEPT ![i] =
                     [deadline |-> IF timeout = 0 THEN 0 ELSE (clock + timeout) % Word,
                      lastSend |-> clock]],
        owed |-> [st.owed EXCEPT ![i] = promise]]

\* What resolveName (i = 0) or startDiscoveringService (i = 1) makes of st: the old
\* query goes first, and without memory for the name no new one comes.
Asked(st, i, promise) ==
  LET c == cancelQuery(st, i)
  IN  {c} \cup {initQuery(c, i, timeout, promise) : timeout \in Timeouts}

\* What a callback of query j makes of st. A query of its own kind that it asks for is
\* freed when it returns: nothing is promised of that one.
Calls(st, j) ==
  {st} \cup {cancelQuery(st, i) : i \in app \cap Queries}
       \cup UNION {Asked(st, i, IF i = j THEN 0 ELSE 1) : i \in app \cap Queries}

\* The callback is due once.
Due(st, i) == [st EXCEPT !.owed[i] = @ - 1]

\* A callback that has been unset since the query was made is not called, and the
\* program that unset it is owed none.
Waived(st, i) == [st EXCEPT !.owed[i] = 0]

\* Mutant of Released: the name is kept after the callback.
ReleasedNot(st, i) == st

\* After a callback the name is freed, whatever it was set to in the callback.
Released(st, i) == [st EXCEPT !.query[i] = None]

\* finishedResolvingName, and what run does when a service query times out.
finished(st, i) ==
  {Released(c, i) : c \in IF callback[i] = 1 THEN Calls(Due(st, i), i) ELSE {Waived(st, i)}}

\* Callbacks for services of a packet end no query. Stopping or restarting the
\* discovery in one writes to freed memory, and is not done.
servicesFound(st) ==
  {st} \cup (IF 0 \in app THEN Asked(st, 0, 1) \cup {cancelQuery(st, 0)} ELSE {})

-----------------------------------------------------------------------------
(* The application, outside run. *)

Idle == run.at = "idle"
OnlyQueries == UNCHANGED <<app, clock, sinceRun, run, callback, serviceRecords, lastAnnounce, heard>>
OnlyRecords == UNCHANGED <<app, clock, sinceRun, run, callback, query, owed, lastAnnounce>>

\* setNameResolvedCallback, setServiceFoundCallback
SetCallback(i) ==
  /\ Idle /\ i \in app
  /\ \E c \in {0, 1} : callback' = [callback EXCEPT ![i] = c]
  /\ UNCHANGED <<app, clock, sinceRun, run, query, owed, serviceRecords, lastAnnounce, heard>>

\* resolveName, startDiscoveringService
Ask(i) ==
  /\ Idle /\ i \in app
  /\ \E st \in Asked(St, i, 1) : Install(st)
  /\ OnlyQueries

\* cancelResolveName, stopDiscoveringService
Cancel(i) ==
  /\ Idle /\ i \in app
  /\ Install(cancelQuery(St, i))
  /\ OnlyQueries

Used == {k \in Slots : serviceRecords[k] # None}
Registered == {serviceRecords[k] : k \in Used}

\* sendMDNSMessage of ServiceRecord and ServiceRecordRelease, at the peer.
Announced(ss) == [s \in Services |-> IF s \in ss THEN 0 ELSE heard[s]]
Ended(ss) == [s \in Services |-> IF s \in ss THEN Never ELSE heard[s]]

\* Where malloc fails for a free slot, the next one is tried.
AddServiceRecord(s) ==
  /\ Idle /\ Records \in app /\ s \notin Registered
  /\ \E k \in Slots \ Used : serviceRecords' = [serviceRecords EXCEPT ![k] = s]
  /\ heard' = Announced({s})
  /\ OnlyRecords

\* No slot is free, or there is no memory: nothing changes.
AddServiceRecordFails(s) ==
  /\ Idle /\ Records \in app /\ s \notin Registered
  /\ UNCHANGED vars

\* removeServiceRecordByID of the slots ks.
Without(ks) ==
  /\ serviceRecords' = [k \in Slots |-> IF k \in ks THEN None ELSE serviceRecords[k]]
  /\ heard' = Ended({serviceRecords[k] : k \in ks \cap Used})

\* A free slot before the one that matches is read through NULL; what lies there may
\* pass for a match, and then nothing is removed.
RemoveServiceRecordByName(s) ==
  /\ Idle /\ Records \in app
  /\ LET Match == {k \in Used : serviceRecords[k] = s}
         Free == {k \in Slots \ Used : \A m \in Match : k < m}
     IN  \E ks \in {Match} \cup (IF Free = {} THEN {} ELSE {{}}) : Without(ks)
  /\ OnlyRecords

RemoveAllServiceRecords ==
  /\ Idle /\ Records \in app
  /\ Without(Slots)
  /\ OnlyRecords

-----------------------------------------------------------------------------
(* run, in its steps. *)

At(step) == run.at = step
Goto(step) == run' = [run EXCEPT !.at = step]
InRun == UNCHANGED <<app, clock, sinceRun, callback>>

StartRun ==
  /\ Idle
  /\ run' = [at |-> "packet", now |-> clock]
  /\ sinceRun' = 0
  /\ UNCHANGED <<app, clock, callback, query, owed, serviceRecords, lastAnnounce, heard>>

\* processMDNSQuery without a packet, or with one there is no memory for or that is
\* about nothing of ours.
NoPacket ==
  /\ At("packet") /\ Goto("query 0")
  /\ InRun /\ UNCHANGED <<query, owed, serviceRecords, lastAnnounce, heard>>

\* A query of a peer for some of the service records, or for all.
AnswerQuery ==
  /\ At("packet") /\ Goto("query 0")
  /\ \E ks \in SUBSET Used : heard' = Announced({serviceRecords[k] : k \in ks})
  /\ InRun /\ UNCHANGED <<query, owed, serviceRecords, lastAnnounce>>

\* A response with the address asked for, or services, or both.
TakeResponse ==
  /\ At("packet") /\ Goto("query 0")
  /\ query[0] # None \/ query[1] # None
  /\ \E named \in (IF query[0] = None THEN {St} ELSE {St} \cup finished(St, 0)) :
       \E st \in (IF named.query[1] = None \/ callback[1] = 0 THEN {named}
                  ELSE {named} \cup servicesFound(named)) : Install(st)
  /\ InRun /\ UNCHANGED <<serviceRecords, lastAnnounce, heard>>

Resend(i) == IF i = 0 THEN NQueryResend ELSE SQueryResend

\* Mutant of Overdue: only the query for a name times out.
OverdueName(i) == i = 0 /\ query[i].deadline > 0 /\ run.now > query[i].deadline

\* The deadline has passed, unless the addition that made it wrapped around.
Overdue(i) == query[i].deadline > 0 /\ run.now > query[i].deadline

\* One round of run's loop: an unanswered query is sent again, then may time out.
CheckQuery(i, step, next) ==
  /\ At(step) /\ Goto(next)
  /\ IF query[i] = None THEN UNCHANGED <<query, owed>>
     ELSE LET again == Since(run.now, query[i].lastSend) > Resend(i)
              st == [St EXCEPT !.query[i].lastSend = IF again THEN clock ELSE @]
          IN  \E end \in (IF Overdue(i) THEN finished(st, i) ELSE {st}) : Install(end)
  /\ InRun /\ UNCHANGED <<serviceRecords, lastAnnounce, heard>>

\* Mutant of announceTimeOut: the lifetime itself.
announceTimeOutWhole == TTL

announceTimeOut == TTL \div 2 + TTL \div 4

Announce ==
  /\ At("announce") /\ run' = [at |-> "idle"]
  /\ IF Since(run.now, lastAnnounce) > announceTimeOut
     THEN heard' = Announced(Registered) /\ lastAnnounce' = run.now
     ELSE UNCHANGED <<heard, lastAnnounce>>
  /\ InRun /\ UNCHANGED <<query, owed, serviceRecords>>

-----------------------------------------------------------------------------
\* Time passes, but not so long that the next run is late.
Tick ==
  /\ sinceRun < Gap
  /\ clock' = (clock + 1) % Word
  /\ sinceRun' = sinceRun + 1
  /\ heard' = [s \in Services |-> IF heard[s] \in 0 .. TTL THEN heard[s] + 1 ELSE heard[s]]
  /\ UNCHANGED <<app, run, callback, query, owed, serviceRecords, lastAnnounce>>

RunStep ==
  \/ NoPacket \/ AnswerQuery \/ TakeResponse
  \/ CheckQuery(0, "query 0", "query 1") \/ CheckQuery(1, "query 1", "announce")
  \/ Announce

Next ==
  \/ \E i \in Queries : SetCallback(i) \/ Ask(i) \/ Cancel(i)
  \/ \E s \in Services : \/ AddServiceRecord(s) \/ AddServiceRecordFails(s)
                         \/ RemoveServiceRecordByName(s)
  \/ RemoveAllServiceRecords
  \/ StartRun \/ RunStep \/ Tick

\* The application's main loop calls run for ever, and time passes.
Fairness == WF_vars(StartRun) /\ WF_vars(RunStep) /\ WF_vars(Tick)

Spec == Init /\ [][Next]_vars /\ Fairness

-----------------------------------------------------------------------------
(* Properties. *)

Steps == {"packet", "query 0", "query 1", "announce"}
Instants == 0 .. Word - 1

TypeOK ==
  /\ app \in Applications
  /\ clock \in Instants /\ sinceRun \in 0 .. Gap
  /\ run \in {[at |-> "idle"]} \cup [at : Steps, now : Instants]
  /\ callback \in [Queries -> {0, 1}]
  /\ query \in [Queries -> {None} \cup [deadline : Instants, lastSend : Instants]]
  /\ owed \in [Queries -> {-1, 0, 1}]
  /\ serviceRecords \in [Slots -> {None} \cup Services]
  /\ lastAnnounce \in Instants
  /\ heard \in [Services -> Never .. TTL + 1]

(* Every query that was accepted outside a callback of its own kind leads to exactly
   one final callback unless it is cancelled, replaced or its callback unset: while it is in hand one is
   owed, and once it is gone none is, whichever of an answer, the timeout and the
   application's calls in callbacks came first (EthernetBonjour.c run,
   finishedResolvingName). *)
QueriesAreAnswered == \A i \in Queries : owed[i] = IF query[i] = None THEN 0 ELSE 1

(* A peer that drops what it was told when its time to live is over always knows the
   services that are registered and no other: records are announced when they are
   added and again before they expire, also over the wrap of the clock, as long as
   run is called often enough (run's last part, addServiceRecord, removeServiceRecord). *)
PeerKnowsServices ==
  \A s \in Services : IF s \in Registered THEN heard[s] \in 0 .. TTL ELSE heard[s] = Never

(* A query with a timeout does not stay for ever: it is answered, cancelled or times
   out, unless it is replaced for ever. Deadlines that the wrap of the clock has made 0
   ("no timeout"), or that are later than the last run before the next wrap, are left
   out. *)
Bounded(i) == query[i] # None /\ query[i].deadline \in 1 .. Word - 1 - Gap
Replaced(i) == /\ query[i] # None /\ query'[i] # None
               /\ query'[i].deadline # query[i].deadline
QueryEnds == \A i \in Queries : []<>~Bounded(i) \/ []<><<Replaced(i)>>_vars

=============================================================================
