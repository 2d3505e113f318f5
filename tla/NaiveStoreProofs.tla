--------------------------- MODULE NaiveStoreProofs ---------------------------
(***************************************************************************)
(* Invariants of the naive store, for any retention policy whose Kafka age *)
(* does not exceed its ClickHouse age, any calls, replays and events.      *)
(***************************************************************************)
EXTENDS NaiveStore, TLAPS

LEMMA CutoffTypes ==
    ASSUME NEW t \in Nat
    PROVE  /\ KafkaCutoff(t) \in Int /\ ClickHouseCutoff(t) \in Int
           /\ ClickHouseCutoff(t) <= KafkaCutoff(t)
           /\ \A u \in Nat : u >= t => ClickHouseCutoff(u) >= ClickHouseCutoff(t)
  BY NaiveAssumption DEF KafkaCutoff, ClickHouseCutoff, Month, Day

LEMMA RangeTypes ==
    ASSUME NEW start \in Nat, NEW end \in Nat, NEW t \in Nat
    PROVE  /\ FromKafka(start, end, t) \in Int \X Int
           /\ FromClickHouse(start, end, t) \in Int \X Int
           /\ FromColdStorage(start, end, t) \in Int \X Int
  BY CutoffTypes DEF FromKafka, FromClickHouse, AsksClickHouse, FromColdStorage, Nothing,
                     Later, Earlier

LEMMA FinishType ==
    ASSUME NEW x \in ReplayRecord, NEW total \in Nat
    PROVE  Finish(x, total) \in ReplayRecord
  BY RangeTypes DEF Finish, ReplayRecord

\* Changing one value of a function.
LEMMA Updated ==
    ASSUME NEW S, NEW T, NEW f \in [S -> T], NEW s \in S, NEW y \in T
    PROVE  [f EXCEPT ![s] = y] \in [S -> T]
  OBVIOUS

LEMMA CallUpdates ==
    ASSUME NEW x \in CallRecord, NEW e \in Nat, NEW b \in BOOLEAN
    PROVE  /\ [x EXCEPT !.pc = "kafka", !.event = e] \in CallRecord
           /\ [x EXCEPT !.pc = "cold", !.kafka = b] \in CallRecord
           /\ [x EXCEPT !.pc = "returned", !.cold = b] \in CallRecord
           /\ [x EXCEPT !.pc = "killed"] \in CallRecord
  BY DEF CallRecord

LEMMA BeginUpdate ==
    ASSUME NEW x \in ReplayRecord, NEW start \in Nat, NEW end \in Nat, NEW begun \in Nat,
           NEW had \in SUBSET Events, NEW kafka \in Int \X Int, NEW clickhouse \in Int \X Int
    PROVE  [x EXCEPT !.pc = "query", !.start = start, !.end = end,
                     !.begun = begun, !.had = had,
                     !.kafka = kafka, !.clickhouse = clickhouse] \in ReplayRecord
  BY DEF ReplayRecord

LEMMA QueryUpdate ==
    ASSUME NEW x \in ReplayRecord, NEW rows \in SUBSET Events, NEW b \in BOOLEAN
    PROVE  [x EXCEPT !.pc = "send", !.rows = rows, !.answered = b] \in ReplayRecord
  BY DEF ReplayRecord

LEMMA TriedUpdate ==
    ASSUME NEW x \in ReplayRecord, NEW tried \in SUBSET Events, NEW count \in Nat
    PROVE  [x EXCEPT !.tried = tried, !.count = count] \in ReplayRecord
  BY DEF ReplayRecord

LEMMA KillUpdate ==
    ASSUME NEW x \in ReplayRecord
    PROVE  [x EXCEPT !.pc = "killed"] \in ReplayRecord
  BY DEF ReplayRecord

LEMMA ReplayFields ==
    ASSUME NEW x \in ReplayRecord
    PROVE  /\ x.start \in Nat /\ x.end \in Nat /\ x.begun \in Nat
           /\ x.rows \in SUBSET Events /\ x.tried \in SUBSET Events
           /\ x.count \in Nat
  BY DEF ReplayRecord

LEMMA ReplayStepType ==
    ASSUME NaiveTypeOK, ReplayNext
    PROVE  replay' \in [Replays -> ReplayRecord]
<1> USE DEF NaiveTypeOK
<1>1. ASSUME NEW r \in Replays, NEW start \in Dates, NEW end \in Dates,
             BeginReplay(r, start, end)
      PROVE  replay' \in [Replays -> ReplayRecord]
  <2> DEFINE x == [replay[r] EXCEPT !.pc = "query", !.start = start, !.end = end,
                      !.begun = now, !.had = everWarm,
                      !.kafka = FromKafka(start, end, now),
                      !.clickhouse = FromClickHouse(start, end, now)]
             y == IF "warm" \in Tiers /\ AsksClickHouse(start, end, now)
                  THEN x ELSE Finish(x, 0)
  <2>1. start \in Nat /\ end \in Nat /\ everWarm \in SUBSET Events
    BY NaiveAssumption
  <2>2. x \in ReplayRecord
    <3>1. FromKafka(start, end, now) \in Int \X Int
          /\ FromClickHouse(start, end, now) \in Int \X Int
      BY <2>1, RangeTypes
    <3> QED
      BY <2>1, <3>1, BeginUpdate, Zenon
  <2>3. y \in ReplayRecord
    BY <2>2, FinishType
  <2>4. replay' = [replay EXCEPT ![r] = y]
    BY <1>1, Zenon DEF BeginReplay
  <2> HIDE DEF y
  <2> QED
    BY <2>3, <2>4, Updated
<1>2. ASSUME NEW r \in Replays, QueryClickHouse(r)
      PROVE  replay' \in [Replays -> ReplayRecord]
  <2> DEFINE rows(b) == ExecuteQuery(replay[r].clickhouse, b)
             x(b) == [replay[r] EXCEPT !.pc = "send", !.rows = rows(b), !.answered = b]
             y(b) == IF rows(b) = {} \/ "kafka" \notin Tiers THEN Finish(x(b), 0) ELSE x(b)
  <2>1. PICK b \in BOOLEAN : replay' = [replay EXCEPT ![r] = y(b)]
    BY <1>2, Zenon DEF QueryClickHouse
  <2>2. rows(b) \in SUBSET Events
    BY DEF ExecuteQuery
  <2>3. x(b) \in ReplayRecord
    <3> HIDE DEF rows
    <3> QED
      BY <2>2, QueryUpdate, Zenon
  <2>4. y(b) \in ReplayRecord
    <3> HIDE DEF x
    <3> QED
      BY <2>3, FinishType
  <2> HIDE DEF y
  <2> QED
    BY <2>1, <2>4, Updated
<1>3. ASSUME NEW r \in Replays, SendRow(r)
      PROVE  replay' \in [Replays -> ReplayRecord]
  <2> DEFINE x(e) == [replay[r] EXCEPT !.tried = @ \cup {e}, !.count = @ + 1]
             y(e) == IF x(e).tried = x(e).rows THEN Finish(x(e), x(e).count) ELSE x(e)
  <2>1. PICK e \in replay[r].rows \ replay[r].tried : replay' = [replay EXCEPT ![r] = y(e)]
    BY <1>3, Zenon DEF SendRow
  <2>2. replay[r].tried \cup {e} \in SUBSET Events /\ replay[r].count + 1 \in Nat
    BY ReplayFields
  <2>3. x(e) \in ReplayRecord
    BY <2>2, TriedUpdate, Zenon
  <2>4. y(e) \in ReplayRecord
    <3> HIDE DEF x
    <3> QED
      BY <2>3, ReplayFields, FinishType
  <2> HIDE DEF y
  <2> QED
    BY <2>1, <2>4, Updated
<1>4. ASSUME NEW r \in Replays, SendRaises(r)
      PROVE  replay' \in [Replays -> ReplayRecord]
  <2>1. Finish(replay[r], 0) \in ReplayRecord
    BY FinishType
  <2> QED
    BY <1>4, <2>1, Updated DEF SendRaises
<1> QED
  BY <1>1, <1>2, <1>3, <1>4 DEF ReplayNext

LEMMA OutcomeTypes ==
    ASSUME NEW tier, NEW o \in Outcomes(tier)
    PROVE  o.success \in BOOLEAN /\ o.stored \in BOOLEAN /\ (o.success => o.stored)
<1>1. CASE tier \in Tiers
  <2>1. o \in [success : BOOLEAN, stored : BOOLEAN] /\ (o.success => o.stored)
    BY <1>1, Zenon DEF Outcomes
  <2> QED
    BY <2>1, Zenon
<1>2. CASE tier \notin Tiers
  <2>1. o = [success |-> FALSE, stored |-> FALSE]
    BY <1>2, Zenon DEF Outcomes
  <2> QED
    BY <2>1
<1> QED
  BY <1>1, <1>2

LEMMA StoreStepType ==
    ASSUME NaiveTypeOK, StoreNext
    PROVE  NaiveTypeOK'
<1> USE DEF NaiveTypeOK
<1>0. UNCHANGED <<now, warm, everWarm, deletes, replay>>
  BY DEF StoreNext
<1>1. ASSUME NEW c \in Calls, NEW e \in Events, StoreEvent(c, e) PROVE NaiveTypeOK'
  <2> DEFINE y == [call[c] EXCEPT !.pc = "kafka", !.event = e]
  <2>1. y \in CallRecord /\ y.event = e
    <3>1. y \in CallRecord
      BY NaiveAssumption, CallUpdates
    <3>2. y.event = e
      BY DEF CallRecord
    <3> QED
      BY <3>1, <3>2
  <2>2. call' = [call EXCEPT ![c] = y]
    BY <1>1, Zenon DEF StoreEvent
  <2> HIDE DEF y
  <2>3. call' \in [Calls -> CallRecord]
    BY <2>1, <2>2, Updated
  <2> QED
    BY <1>0, <1>1, <2>1, <2>2, <2>3 DEF StoreEvent
<1>2. ASSUME NEW c \in Calls, StoreToKafka(c) PROVE NaiveTypeOK'
  <2> DEFINE y(o) == [call[c] EXCEPT !.pc = "cold", !.kafka = o.success]
  <2>1. PICK o \in Outcomes("kafka") :
          /\ written' = IF o.stored THEN written \cup {call[c].event} ELSE written
          /\ call' = [call EXCEPT ![c] = y(o)]
    BY <1>2, Zenon DEF StoreToKafka
  <2>2. call[c].pc = "kafka" /\ objects' = objects
    BY <1>2 DEF StoreToKafka
  <2>3. y(o) \in CallRecord /\ y(o).event = call[c].event
    BY OutcomeTypes DEF CallRecord
  <2> HIDE DEF y
  <2>4. call' \in [Calls -> CallRecord]
    BY <2>1, <2>3, Updated
  <2> QED
    BY <1>0, <2>1, <2>2, <2>3, <2>4
<1>3. ASSUME NEW c \in Calls, StoreToColdStorage(c) PROVE NaiveTypeOK'
  <2> DEFINE y(o) == [call[c] EXCEPT !.pc = "returned", !.cold = o.success]
  <2>1. PICK o \in Outcomes("cold") :
          /\ objects' = IF o.stored THEN objects \cup {ObjectKey(call[c].event)} ELSE objects
          /\ call' = [call EXCEPT ![c] = y(o)]
    BY <1>3, Zenon DEF StoreToColdStorage
  <2>2. call[c].pc = "cold" /\ written' = written
    BY <1>3 DEF StoreToColdStorage
  <2>3. y(o) \in CallRecord /\ y(o).event = call[c].event
    BY OutcomeTypes DEF CallRecord
  <2> HIDE DEF y
  <2>4. call' \in [Calls -> CallRecord]
    BY <2>1, <2>3, Updated
  <2>5. ObjectKey(call[c].event) \in (0 .. Day - 1) \X Events
    BY <2>2 DEF ObjectKey, Day
  <2> QED
    BY <1>0, <2>1, <2>2, <2>3, <2>4, <2>5
<1> QED
  BY <1>1, <1>2, <1>3 DEF StoreNext

LEMMA KillType ==
    ASSUME NaiveTypeOK, Kill
    PROVE  NaiveTypeOK'
<1> USE DEF NaiveTypeOK
<1>1. call' \in [Calls -> CallRecord]
      /\ \A c \in Calls : call'[c].pc # "idle" => call'[c].event \in Events
  BY DEF Kill, CallRecord
<1>2. replay' \in [Replays -> ReplayRecord]
  BY KillUpdate, Zenon DEF Kill
<1> QED
  BY <1>1, <1>2 DEF Kill

\* Every variable keeps its type; in particular cold storage's keys and ClickHouse's
\* rows come from events that were written.
THEOREM NaiveTypeCorrect == NaiveSpec => []NaiveTypeOK
<1>1. NaiveInit => NaiveTypeOK
  <2> SUFFICES ASSUME NaiveInit PROVE NaiveTypeOK
    OBVIOUS
  <2>1. objects \subseteq (0 .. Day - 1) \X Events
    <3>1. \A e \in Events : <<e % Day, e>> \in (0 .. Day - 1) \X Events
      BY NaiveAssumption DEF Day
    <3>2. objects = {<<e % Day, e>> : e \in warm} /\ warm \subseteq Events
      BY DEF NaiveInit
    <3> QED
      BY <3>1, <3>2, Zenon
  <2>2. replay \in [Replays -> ReplayRecord]
    BY NaiveAssumption DEF NaiveInit, ReplayRecord, Nothing
  <2>3. call \in [Calls -> CallRecord] /\ \A c \in Calls : call[c].pc = "idle"
    BY DEF NaiveInit, CallRecord
  <2> QED
    BY <2>1, <2>2, <2>3, NaiveAssumption DEF NaiveInit, NaiveTypeOK
<1>2. NaiveTypeOK /\ [NaiveNext]_naiveVars => NaiveTypeOK'
  <2> SUFFICES ASSUME NaiveTypeOK, [NaiveNext]_naiveVars
               PROVE  NaiveTypeOK'
    OBVIOUS
  <2>1. CASE StoreNext
    BY <2>1, StoreStepType
  <2>2. CASE ClickHouseNext
    <3>1. \A t \in Nat : ClickHouseCutoff(t) \in Int
      BY CutoffTypes
    <3> QED
      BY <2>2, <3>1 DEF NaiveTypeOK, ClickHouseNext, StreamProcessors, CleanupExpiredData,
                        ExecuteDelete
  <2>3. CASE ReplayNext
    <3>1. UNCHANGED <<now, written, objects, warm, everWarm, deletes, call>>
      BY <2>3 DEF ReplayNext
    <3> QED
      BY <2>3, <3>1, ReplayStepType DEF NaiveTypeOK
  <2>4. CASE Tick
    BY <2>4 DEF NaiveTypeOK, Tick
  <2>5. CASE Kill
    BY <2>5, KillType
  <2>6. CASE UNCHANGED naiveVars
    BY <2>6 DEF NaiveTypeOK, naiveVars
  <2> QED
    BY <2>1, <2>2, <2>3, <2>4, <2>5, <2>6 DEF NaiveNext
<1> QED
  BY <1>1, <1>2, PTL DEF NaiveSpec

------------------------------------------------------------------------------
\* What is known of a call before its answer is complete.
AnswerInv ==
    \A c \in Calls :
        /\ call[c].pc \in {"idle", "kafka"} => ~call[c].kafka /\ ~call[c].cold
        /\ call[c].pc = "cold" => ~call[c].cold
        /\ call[c].kafka => call[c].event \in written
        /\ call[c].cold => Archived(call[c].event)

LEMMA StoreStepAnswers ==
    ASSUME NaiveTypeOK, AnswerInv, StoreNext
    PROVE  AnswerInv'
<1>1. call \in [Calls -> CallRecord]
  BY DEF NaiveTypeOK
<1>2. ASSUME NEW c \in Calls, NEW e \in Events, StoreEvent(c, e) PROVE AnswerInv'
  <2> DEFINE y == [call[c] EXCEPT !.pc = "kafka", !.event = e]
  <2>1. y.pc = "kafka" /\ y.event = e /\ y.kafka = call[c].kafka /\ y.cold = call[c].cold
    BY <1>1 DEF CallRecord
  <2>2. call' = [call EXCEPT ![c] = y] /\ call[c].pc = "idle"
    BY <1>2, Zenon DEF StoreEvent
  <2>3. written' = written /\ objects' = objects
    BY <1>2 DEF StoreEvent
  <2> HIDE DEF y
  <2>4. \A d \in Calls : call'[d] = IF d = c THEN y ELSE call[d]
    BY <1>1, <2>2
  <2> QED
    BY <2>1, <2>2, <2>3, <2>4 DEF AnswerInv, Archived
<1>3. ASSUME NEW c \in Calls, StoreToKafka(c) PROVE AnswerInv'
  <2> DEFINE y(o) == [call[c] EXCEPT !.pc = "cold", !.kafka = o.success]
  <2>1. PICK o \in Outcomes("kafka") :
          /\ written' = IF o.stored THEN written \cup {call[c].event} ELSE written
          /\ call' = [call EXCEPT ![c] = y(o)]
    BY <1>3, Zenon DEF StoreToKafka
  <2>2. call[c].pc = "kafka" /\ objects' = objects
    BY <1>3 DEF StoreToKafka
  <2>3. /\ y(o).pc = "cold" /\ y(o).event = call[c].event
        /\ y(o).kafka = o.success /\ y(o).cold = call[c].cold
    BY <1>1 DEF CallRecord
  <2>4. o.success => call[c].event \in written'
    BY <2>1, OutcomeTypes, Zenon
  <2>5. written \subseteq written'
    BY <2>1
  <2> HIDE DEF y
  <2>6. \A d \in Calls : call'[d] = IF d = c THEN y(o) ELSE call[d]
    BY <1>1, <2>1
  <2> QED
    BY <2>2, <2>3, <2>4, <2>5, <2>6, Zenon DEF AnswerInv, Archived
<1>4. ASSUME NEW c \in Calls, StoreToColdStorage(c) PROVE AnswerInv'
  <2> DEFINE y(o) == [call[c] EXCEPT !.pc = "returned", !.cold = o.success]
  <2>1. PICK o \in Outcomes("cold") :
          /\ objects' = IF o.stored THEN objects \cup {ObjectKey(call[c].event)} ELSE objects
          /\ call' = [call EXCEPT ![c] = y(o)]
    BY <1>4, Zenon DEF StoreToColdStorage
  <2>2. call[c].pc = "cold" /\ written' = written
    BY <1>4 DEF StoreToColdStorage
  <2>3. /\ y(o).pc = "returned" /\ y(o).event = call[c].event
        /\ y(o).kafka = call[c].kafka /\ y(o).cold = o.success
    BY <1>1 DEF CallRecord
  <2>4. o.success => Archived(call[c].event)'
    <3>1. now % Day \in 0 .. Day - 1
      BY DEF NaiveTypeOK, Day
    <3>2. o.success => <<now % Day, call[c].event>> \in objects'
      BY <2>1, OutcomeTypes, Zenon DEF ObjectKey
    <3>3. call'[c].event = call[c].event
      BY <1>1, <2>1, <2>3
    <3> QED
      BY <3>1, <3>2, <3>3, Zenon DEF Archived
  <2>5. objects \subseteq objects'
    BY <2>1
  <2> HIDE DEF y
  <2>6. \A d \in Calls : call'[d] = IF d = c THEN y(o) ELSE call[d]
    BY <1>1, <2>1
  <2> QED
    BY <2>2, <2>3, <2>4, <2>5, <2>6, Zenon DEF AnswerInv, Archived
<1> QED
  BY <1>2, <1>3, <1>4 DEF StoreNext

LEMMA KillKeepsCalls ==
    ASSUME NaiveTypeOK, Kill, NEW c \in Calls
    PROVE  /\ call'[c].event = call[c].event
           /\ call'[c].kafka = call[c].kafka /\ call'[c].cold = call[c].cold
           /\ call'[c].pc \in {call[c].pc, "killed"}
  BY DEF NaiveTypeOK, CallRecord, Kill

\* No answer of store_event_with_durability is wrong about a tier it reports True for,
\* whatever failed, timed out or was killed on the way.
THEOREM AnswersCorrect == NaiveSpec => []AnswersAreTrue
<1>1. ASSUME NaiveInit PROVE AnswerInv
  <2>1. call = [c \in Calls |-> [pc |-> "idle", event |-> 0,
                                 kafka |-> FALSE, cold |-> FALSE]]
    BY <1>1, Zenon DEF NaiveInit
  <2>2. \A c \in Calls : call[c].pc = "idle" /\ call[c].kafka = FALSE
                          /\ call[c].cold = FALSE
    BY <2>1
  <2> QED
    BY <2>2 DEF AnswerInv
<1>2. NaiveTypeOK /\ AnswerInv /\ [NaiveNext]_naiveVars => AnswerInv'
  <2> SUFFICES ASSUME NaiveTypeOK, AnswerInv, [NaiveNext]_naiveVars
               PROVE  AnswerInv'
    OBVIOUS
  <2>1. CASE StoreNext
    BY <2>1, StoreStepAnswers
  <2>2. CASE Kill
    <3>1. written' = written /\ objects' = objects
      BY <2>2 DEF Kill
    <3> QED
      BY <2>2, <3>1, KillKeepsCalls DEF AnswerInv, Archived
  <2>3. CASE UNCHANGED <<written, objects, call>>
    BY <2>3 DEF AnswerInv, Archived
  <2> QED
    BY <2>1, <2>2, <2>3
    DEF NaiveNext, ClickHouseNext, ReplayNext, Tick, naiveVars
<1>3. AnswerInv => AnswersAreTrue
  BY DEF AnswerInv, AnswersAreTrue, StreamProcessing
<1> QED
  BY <1>1, <1>2, <1>3, NaiveTypeCorrect, PTL DEF NaiveSpec

------------------------------------------------------------------------------
\* A range and two cutoffs in the right order cut the time line into three pieces.
LEMMA RangesPartition ==
    ASSUME NEW x \in ReplayRecord, NEW t \in Nat,
           x.kafka = FromKafka(x.start, x.end, x.begun),
           x.clickhouse = FromClickHouse(x.start, x.end, x.begun),
           x.cold = FromColdStorage(x.start, x.end, x.begun)
    PROVE  IF Within(t, <<x.start, x.end>>)
           THEN \E source \in {"kafka", "clickhouse", "cold"} : AskedOf(x, t) = {source}
           ELSE AskedOf(x, t) = {}
<1> DEFINE kc == KafkaCutoff(x.begun)
           cc == ClickHouseCutoff(x.begun)
           recent == x.start <= t /\ kc <= t /\ t < x.end
           medium == x.start <= t /\ cc <= t /\ t < kc /\ t < x.end
           old == x.start <= t /\ t < cc /\ t < x.end
<1>1. x.start \in Nat /\ x.end \in Nat /\ x.begun \in Nat
  BY ReplayFields
<1>2. kc \in Int /\ cc \in Int /\ cc <= kc
  BY <1>1, CutoffTypes
<1> HIDE DEF kc, cc
<1>3. Within(t, x.kafka) <=> recent
  <2>1. x.kafka = IF x.end > kc THEN <<Later(x.start, kc), x.end>> ELSE Nothing
    BY DEF FromKafka, kc
  <2> QED
    BY <1>1, <1>2, <2>1 DEF Within, Later, Nothing
<1>4. Within(t, x.clickhouse) <=> medium
  <2>1. x.clickhouse = IF x.start < kc /\ x.end > cc
                       THEN <<Later(x.start, cc), Earlier(x.end, kc)>> ELSE Nothing
    BY DEF FromClickHouse, AsksClickHouse, kc, cc
  <2> QED
    BY <1>1, <1>2, <2>1 DEF Within, Later, Earlier, Nothing
<1>5. ColdReads(x.cold, t) <=> old
  <2>1. x.cold = IF x.start < cc THEN <<x.start, Earlier(x.end, cc)>> ELSE Nothing
    BY DEF FromColdStorage, cc
  <2>2. Within(t, x.cold) <=> old
    BY <1>1, <1>2, <2>1 DEF Within, Earlier, Nothing
  <2>3. Within(t, x.cold) => t \div Day \in x.cold[1] \div Day .. x.cold[2] \div Day
    <3>1. x.cold[1] \in Int /\ x.cold[2] \in Int
      BY <1>1, <1>2, <2>1 DEF Earlier, Nothing
    <3>2. ASSUME NEW a \in Int, NEW b \in Int, a <= b PROVE a \div 24 <= b \div 24
      BY <3>2
    <3> QED
      BY <3>1, <3>2 DEF Within, Day
  <2> QED
    BY <2>2, <2>3 DEF ColdReads
<1>6. AskedOf(x, t) = {source \in {"kafka", "clickhouse", "cold"} :
                         \/ source = "kafka" /\ recent
                         \/ source = "clickhouse" /\ medium
                         \/ source = "cold" /\ old}
  <2> HIDE DEF recent, medium, old
  <2> QED
    BY <1>3, <1>4, <1>5 DEF AskedOf
<1>7. Within(t, <<x.start, x.end>>) <=> recent \/ medium \/ old
  BY <1>1, <1>2 DEF Within
<1>8. ~(recent /\ medium) /\ ~(recent /\ old) /\ ~(medium /\ old)
  BY <1>1, <1>2
<1> HIDE DEF recent, medium, old
<1> QED
  BY <1>6, <1>7, <1>8

------------------------------------------------------------------------------
\* A row ClickHouse once had is gone only if a cutoff, taken then or earlier, passed it.
DeletesAreOld ==
    /\ \A cutoff \in deletes : cutoff <= ClickHouseCutoff(now)
    /\ \A e \in everWarm \ warm : e < ClickHouseCutoff(now)

\* The rows a replay did not find.
MissedAged(x) ==
    \A e \in x.had : Within(e, x.clickhouse) /\ e \notin x.rows =>
        ClickHouseCutoff(x.begun) <= e /\ e < ClickHouseCutoff(now)

\* A replay keeps asking with the cutoffs it began with.
ReplaySound(x) ==
    /\ x.pc \in {"idle", "query"} => ~x.answered
    /\ x.pc # "idle" => /\ x.begun <= now
                        /\ x.had \subseteq everWarm
                        /\ x.kafka = FromKafka(x.start, x.end, x.begun)
                        /\ x.clickhouse = FromClickHouse(x.start, x.end, x.begun)
    /\ x.pc = "done" => x.cold = FromColdStorage(x.start, x.end, x.begun)
    /\ x.answered => MissedAged(x)

ReplayInv == DeletesAreOld /\ \A r \in Replays : ReplaySound(replay[r])

\* Time and new rows do no harm to what a replay knows.
LEMMA SoundLasts ==
    ASSUME NaiveTypeOK, NaiveTypeOK', now <= now', everWarm \subseteq everWarm',
           NEW x \in ReplayRecord, ReplaySound(x)
    PROVE  ReplaySound(x)'
<1>1. now \in Nat /\ now' \in Nat /\ x.begun \in Nat
  BY ReplayFields DEF NaiveTypeOK
<1>2. ClickHouseCutoff(now) <= ClickHouseCutoff(now') /\ ClickHouseCutoff(now) \in Int
      /\ ClickHouseCutoff(now') \in Int
  BY <1>1, CutoffTypes
<1>3. ASSUME x.answered PROVE MissedAged(x)'
  <2> SUFFICES ASSUME NEW e \in x.had, Within(e, x.clickhouse), e \notin x.rows
               PROVE  ClickHouseCutoff(x.begun) <= e /\ e < ClickHouseCutoff(now')
    BY DEF MissedAged
  <2>1. ClickHouseCutoff(x.begun) <= e /\ e < ClickHouseCutoff(now)
    BY <1>3 DEF ReplaySound, MissedAged
  <2>2. e \in Int
    BY NaiveAssumption DEF ReplayRecord
  <2> QED
    BY <1>2, <2>1, <2>2
<1>4. x.pc # "idle" => x.begun <= now' /\ x.had \subseteq everWarm'
  BY <1>1 DEF ReplaySound
<1> QED
  BY <1>3, <1>4, Zenon DEF ReplaySound

LEMMA FinishFields ==
    ASSUME NEW x \in ReplayRecord, NEW total \in Nat
    PROVE  LET y == Finish(x, total) IN
           /\ y.pc = "done"
           /\ y.cold = FromColdStorage(x.start, x.end, x.begun)
           /\ y.start = x.start /\ y.end = x.end /\ y.begun = x.begun
           /\ y.kafka = x.kafka /\ y.clickhouse = x.clickhouse /\ y.had = x.had
           /\ y.answered = x.answered /\ y.rows = x.rows
  BY DEF Finish, ReplayRecord

\* Finishing is sound, whatever is counted: the ranges and the rows are as they were.
LEMMA FinishSound ==
    ASSUME NEW x \in ReplayRecord, x.pc # "idle", ReplaySound(x), NEW total \in Nat
    PROVE  ReplaySound(Finish(x, total))
<1> DEFINE y == Finish(x, total)
<1>1. /\ y.pc = "done"
      /\ y.cold = FromColdStorage(x.start, x.end, x.begun)
      /\ y.start = x.start /\ y.end = x.end /\ y.begun = x.begun
      /\ y.kafka = x.kafka /\ y.clickhouse = x.clickhouse /\ y.had = x.had
      /\ y.answered = x.answered /\ y.rows = x.rows
  BY FinishFields
<1> HIDE DEF y
<1>2. y.answered => MissedAged(y)
  BY <1>1 DEF ReplaySound, MissedAged
<1>3. ReplaySound(y)
  BY <1>1, <1>2 DEF ReplaySound
<1> QED
  BY <1>3 DEF y

\* A step of one replay leaves the others as they were.
LEMMA OneReplaySteps ==
    ASSUME NaiveTypeOK, ReplayInv, NEW r \in Replays, NEW y, ReplaySound(y),
           replay' = [replay EXCEPT ![r] = y],
           UNCHANGED <<now, warm, everWarm, deletes>>
    PROVE  ReplayInv'
<1>1. \A s \in Replays : replay'[s] = IF s = r THEN y ELSE replay[s]
  BY DEF NaiveTypeOK
<1>2. \A s \in Replays : ReplaySound(replay'[s])
  BY <1>1 DEF ReplayInv
<1>3. \A s \in Replays : ReplaySound(replay[s])'
  BY <1>2 DEF ReplaySound, MissedAged
<1> QED
  BY <1>3 DEF ReplayInv, DeletesAreOld

LEMMA ReplayStepSound ==
    ASSUME NaiveTypeOK, ReplayInv, ReplayNext
    PROVE  ReplayInv'
<1>0. /\ UNCHANGED <<now, warm, everWarm, deletes>>
      /\ \A r \in Replays : replay[r] \in ReplayRecord /\ ReplaySound(replay[r])
      /\ now \in Nat /\ everWarm \in SUBSET Events
  BY DEF ReplayNext, NaiveTypeOK, ReplayInv
<1>1. ASSUME NEW r \in Replays, NEW start \in Dates, NEW end \in Dates,
             BeginReplay(r, start, end)
      PROVE  ReplayInv'
  <2> DEFINE x == [replay[r] EXCEPT !.pc = "query", !.start = start, !.end = end,
                      !.begun = now, !.had = everWarm,
                      !.kafka = FromKafka(start, end, now),
                      !.clickhouse = FromClickHouse(start, end, now)]
             y == IF "warm" \in Tiers /\ AsksClickHouse(start, end, now)
                  THEN x ELSE Finish(x, 0)
  <2>1. replay' = [replay EXCEPT ![r] = y] /\ replay[r].pc = "idle"
    BY <1>1, Zenon DEF BeginReplay
  <2>2. start \in Nat /\ end \in Nat
    BY NaiveAssumption
  <2>3. x \in ReplayRecord
    <3>1. FromKafka(start, end, now) \in Int \X Int
          /\ FromClickHouse(start, end, now) \in Int \X Int
      BY <1>0, <2>2, RangeTypes
    <3> QED
      BY <1>0, <2>2, <3>1, BeginUpdate, Zenon
  <2>4. /\ x.pc = "query" /\ x.start = start /\ x.end = end /\ x.begun = now
        /\ x.had = everWarm /\ x.kafka = FromKafka(start, end, now)
        /\ x.clickhouse = FromClickHouse(start, end, now)
        /\ x.answered = replay[r].answered
    BY <1>0 DEF ReplayRecord
  <2> HIDE DEF x
  <2>5. ReplaySound(x)
    BY <1>0, <2>1, <2>4 DEF ReplaySound
  <2>6. ReplaySound(y)
    BY <2>3, <2>4, <2>5, FinishSound
  <2> HIDE DEF y
  <2> QED
    BY <1>0, <2>1, <2>6, OneReplaySteps
<1>2. ASSUME NEW r \in Replays, QueryClickHouse(r)
      PROVE  ReplayInv'
  <2> DEFINE rows(b) == ExecuteQuery(replay[r].clickhouse, b)
             x(b) == [replay[r] EXCEPT !.pc = "send", !.rows = rows(b), !.answered = b]
             y(b) == IF rows(b) = {} \/ "kafka" \notin Tiers THEN Finish(x(b), 0) ELSE x(b)
  <2>1. PICK b \in BOOLEAN : replay' = [replay EXCEPT ![r] = y(b)]
    BY <1>2, Zenon DEF QueryClickHouse
  <2>2. rows(b) \in SUBSET Events
    BY DEF NaiveTypeOK, ExecuteQuery
  <2>3. replay[r].pc = "query" /\ replay[r] \in ReplayRecord /\ ReplaySound(replay[r])
    BY <1>0, <1>2 DEF QueryClickHouse
  <2>4. x(b) \in ReplayRecord
    <3> HIDE DEF rows
    <3> QED
      BY <2>2, <2>3, QueryUpdate, Zenon
  <2>5. /\ x(b).pc = "send" /\ x(b).rows = rows(b) /\ x(b).answered = b
        /\ x(b).start = replay[r].start /\ x(b).end = replay[r].end
        /\ x(b).begun = replay[r].begun /\ x(b).had = replay[r].had
        /\ x(b).kafka = replay[r].kafka /\ x(b).clickhouse = replay[r].clickhouse
    <3> HIDE DEF rows
    <3> QED
      BY <2>3 DEF ReplayRecord
  <2> HIDE DEF x
  <2>6. ASSUME b PROVE MissedAged(x(b))
    <3> SUFFICES ASSUME NEW e \in replay[r].had, Within(e, replay[r].clickhouse),
                        e \notin rows(b)
                 PROVE  /\ ClickHouseCutoff(replay[r].begun) <= e
                        /\ e < ClickHouseCutoff(now)
      BY <2>5 DEF MissedAged
    <3>1. e \in everWarm \ warm
      BY <2>3, <2>6 DEF ReplaySound, ExecuteQuery
    <3>2. e < ClickHouseCutoff(now)
      BY <3>1 DEF ReplayInv, DeletesAreOld
    <3>3. replay[r].clickhouse =
            FromClickHouse(replay[r].start, replay[r].end, replay[r].begun)
      BY <2>3 DEF ReplaySound
    <3>4. ClickHouseCutoff(replay[r].begun) <= e
      <4>1. /\ replay[r].begun \in Nat /\ replay[r].start \in Nat /\ replay[r].end \in Nat
            /\ e \in Nat
        BY <1>0, <2>3, <3>1, NaiveAssumption, ReplayFields
      <4>2. ClickHouseCutoff(replay[r].begun) \in Int /\ KafkaCutoff(replay[r].begun) \in Int
        BY <4>1, CutoffTypes
      <4> QED
        BY <3>3, <4>1, <4>2 DEF FromClickHouse, Within, Later, Nothing
    <3> QED
      BY <3>2, <3>4
  <2>7. ReplaySound(x(b))
    BY <2>3, <2>5, <2>6 DEF ReplaySound
  <2>8. ReplaySound(y(b))
    BY <2>4, <2>5, <2>7, FinishSound
  <2> HIDE DEF y
  <2> QED
    BY <1>0, <2>1, <2>8, OneReplaySteps
<1>3. ASSUME NEW r \in Replays, SendRow(r)
      PROVE  ReplayInv'
  <2> DEFINE x(e) == [replay[r] EXCEPT !.tried = @ \cup {e}, !.count = @ + 1]
             y(e) == IF x(e).tried = x(e).rows THEN Finish(x(e), x(e).count) ELSE x(e)
  <2>1. PICK e \in replay[r].rows \ replay[r].tried : replay' = [replay EXCEPT ![r] = y(e)]
    BY <1>3, Zenon DEF SendRow
  <2>2. replay[r].pc = "send" /\ replay[r] \in ReplayRecord /\ ReplaySound(replay[r])
    BY <1>0, <1>3 DEF SendRow
  <2>3. x(e) \in ReplayRecord
    <3>1. replay[r].tried \cup {e} \in SUBSET Events /\ replay[r].count + 1 \in Nat
      BY <2>2, ReplayFields
    <3> QED
      BY <2>2, <3>1, TriedUpdate, Zenon
  <2>4. /\ x(e).pc = "send"
        /\ x(e).start = replay[r].start /\ x(e).end = replay[r].end
        /\ x(e).begun = replay[r].begun /\ x(e).had = replay[r].had
        /\ x(e).kafka = replay[r].kafka /\ x(e).clickhouse = replay[r].clickhouse
        /\ x(e).answered = replay[r].answered /\ x(e).rows = replay[r].rows
    BY <2>2 DEF ReplayRecord
  <2> HIDE DEF x
  <2>5. ReplaySound(x(e))
    BY <2>2, <2>4 DEF ReplaySound, MissedAged
  <2>6. x(e).count \in Nat
    BY <2>3, ReplayFields
  <2>7. ReplaySound(y(e))
    BY <2>3, <2>4, <2>5, <2>6, FinishSound
  <2> HIDE DEF y
  <2> QED
    BY <1>0, <2>1, <2>7, OneReplaySteps
<1>4. ASSUME NEW r \in Replays, SendRaises(r)
      PROVE  ReplayInv'
  <2>1. replay' = [replay EXCEPT ![r] = Finish(replay[r], 0)] /\ replay[r].pc = "send"
    BY <1>4, Zenon DEF SendRaises
  <2>2. ReplaySound(Finish(replay[r], 0))
    BY <1>0, <2>1, FinishSound
  <2> QED
    BY <1>0, <2>1, <2>2, OneReplaySteps
<1> QED
  BY <1>1, <1>2, <1>3, <1>4 DEF ReplayNext

LEMMA ClickHouseStepSound ==
    ASSUME NaiveTypeOK, NaiveTypeOK', ReplayInv, ClickHouseNext
    PROVE  ReplayInv'
<1>0. now' = now /\ replay' = replay /\ now \in Nat /\ warm \subseteq everWarm
      /\ ClickHouseCutoff(now) \in Int /\ everWarm \subseteq Nat /\ deletes \subseteq Int
  BY NaiveAssumption, CutoffTypes DEF ClickHouseNext, NaiveTypeOK
<1>1. everWarm \subseteq everWarm'
  BY DEF ClickHouseNext, StreamProcessors, CleanupExpiredData, ExecuteDelete
<1>2. DeletesAreOld'
  <2>1. CASE StreamProcessors
    BY <1>0, <2>1 DEF StreamProcessors, ReplayInv, DeletesAreOld
  <2>2. CASE CleanupExpiredData
    BY <1>0, <2>2 DEF CleanupExpiredData, ReplayInv, DeletesAreOld
  <2>3. CASE ExecuteDelete
    <3>1. PICK cutoff \in deletes :
            /\ deletes' = deletes \ {cutoff}
            /\ warm' = {e \in warm : e >= cutoff} \/ warm' = warm
      BY <2>3 DEF ExecuteDelete
    <3>2. cutoff <= ClickHouseCutoff(now) /\ cutoff \in Int
      BY <1>0 DEF ReplayInv, DeletesAreOld
    <3>3. \A e \in everWarm \ warm' : e < ClickHouseCutoff(now)
      BY <1>0, <3>1, <3>2 DEF ReplayInv, DeletesAreOld
    <3> QED
      BY <1>0, <2>3, <3>1, <3>3 DEF ExecuteDelete, ReplayInv, DeletesAreOld
  <2> QED
    BY <2>1, <2>2, <2>3 DEF ClickHouseNext
<1>3. \A r \in Replays : ReplaySound(replay[r])'
  <2> SUFFICES ASSUME NEW r \in Replays PROVE ReplaySound(replay[r])'
    OBVIOUS
  <2>1. replay[r] \in ReplayRecord /\ ReplaySound(replay[r]) /\ replay'[r] = replay[r]
    BY <1>0 DEF NaiveTypeOK, ReplayInv
  <2>2. now <= now'
    BY <1>0
  <2> QED
    BY <1>1, <2>1, <2>2, SoundLasts
<1> QED
  BY <1>2, <1>3 DEF ReplayInv

LEMMA KillSound ==
    ASSUME NaiveTypeOK, ReplayInv, Kill
    PROVE  ReplayInv'
<1>1. UNCHANGED <<now, warm, everWarm, deletes>>
  BY DEF Kill
<1>2. ASSUME NEW r \in Replays PROVE ReplaySound(replay'[r])
  <2> DEFINE y == [replay[r] EXCEPT !.pc = "killed"]
  <2>1. replay'[r] = IF replay[r].pc \in {"query", "send"} THEN y ELSE replay[r]
    BY DEF Kill
  <2>2. replay[r] \in ReplayRecord /\ ReplaySound(replay[r])
    BY DEF NaiveTypeOK, ReplayInv
  <2>3. /\ y.pc = "killed"
        /\ y.start = replay[r].start /\ y.end = replay[r].end
        /\ y.begun = replay[r].begun /\ y.had = replay[r].had
        /\ y.kafka = replay[r].kafka /\ y.clickhouse = replay[r].clickhouse
        /\ y.answered = replay[r].answered /\ y.rows = replay[r].rows
    BY <2>2 DEF ReplayRecord
  <2> HIDE DEF y
  <2>4. replay[r].pc \in {"query", "send"} => ReplaySound(y)
    BY <2>2, <2>3 DEF ReplaySound, MissedAged
  <2> QED
    BY <2>1, <2>2, <2>4
<1>3. \A r \in Replays : ReplaySound(replay[r])'
  BY <1>1, <1>2 DEF ReplaySound, MissedAged
<1> QED
  BY <1>1, <1>3 DEF ReplayInv, DeletesAreOld

LEMMA ReplayInvariance == NaiveSpec => []ReplayInv
<1>1. NaiveInit => ReplayInv
  BY DEF NaiveInit, ReplayInv, DeletesAreOld, ReplaySound, MissedAged
<1>2. NaiveTypeOK /\ NaiveTypeOK' /\ ReplayInv /\ [NaiveNext]_naiveVars => ReplayInv'
  <2> SUFFICES ASSUME NaiveTypeOK, NaiveTypeOK', ReplayInv, [NaiveNext]_naiveVars
               PROVE  ReplayInv'
    OBVIOUS
  <2>1. CASE ClickHouseNext
    BY <2>1, ClickHouseStepSound
  <2>2. CASE ReplayNext
    BY <2>2, ReplayStepSound
  <2>3. CASE Kill
    BY <2>3, KillSound
  <2>4. CASE Tick
    <3>1. /\ UNCHANGED <<warm, everWarm, deletes, replay>>
          /\ now <= now' /\ now \in Nat /\ now' \in Nat
      BY <2>4 DEF Tick, NaiveTypeOK
    <3>2. ClickHouseCutoff(now) <= ClickHouseCutoff(now')
          /\ ClickHouseCutoff(now) \in Int /\ ClickHouseCutoff(now') \in Int
      BY <3>1, CutoffTypes
    <3>3. everWarm \subseteq Nat /\ deletes \subseteq Int
      BY NaiveAssumption DEF NaiveTypeOK
    <3>4. DeletesAreOld'
      BY <3>1, <3>2, <3>3 DEF ReplayInv, DeletesAreOld
    <3>5. ASSUME NEW r \in Replays PROVE ReplaySound(replay[r])'
      <4>1. replay[r] \in ReplayRecord /\ ReplaySound(replay[r]) /\ replay'[r] = replay[r]
        BY <3>1 DEF NaiveTypeOK, ReplayInv
      <4>2. everWarm \subseteq everWarm'
        BY <3>1
      <4> QED
        BY <3>1, <4>1, <4>2, SoundLasts
    <3> QED
      BY <3>4, <3>5 DEF ReplayInv
  <2>5. CASE UNCHANGED <<now, warm, everWarm, deletes, replay>>
    BY <2>5 DEF ReplayInv, DeletesAreOld, ReplaySound, MissedAged
  <2> QED
    BY <2>1, <2>2, <2>3, <2>4, <2>5 DEF NaiveNext, StoreNext, naiveVars
<1> QED
  BY <1>1, <1>2, NaiveTypeCorrect, PTL DEF NaiveSpec

\* The three sources of a replay partition its range, for every policy whose Kafka age
\* does not exceed its ClickHouse age and however time went on in between.
THEOREM ReplayPartitions == NaiveSpec => []ReplayAsksEachInstantOnce
<1>1. NaiveTypeOK /\ ReplayInv => ReplayAsksEachInstantOnce
  <2> SUFFICES ASSUME NaiveTypeOK, ReplayInv,
                      NEW r \in Replays, replay[r].pc = "done", NEW t \in Events
               PROVE  IF Within(t, <<replay[r].start, replay[r].end>>)
                      THEN \E source \in {"kafka", "clickhouse", "cold"} :
                              AskedOf(replay[r], t) = {source}
                      ELSE AskedOf(replay[r], t) = {}
    BY DEF ReplayAsksEachInstantOnce
  <2>1. replay[r] \in ReplayRecord /\ t \in Nat
    BY NaiveAssumption DEF NaiveTypeOK
  <2>2. ReplaySound(replay[r])
    BY DEF ReplayInv
  <2> QED
    BY <2>1, <2>2, RangesPartition DEF ReplaySound
<1> QED
  BY <1>1, NaiveTypeCorrect, ReplayInvariance, PTL

\* Whenever cleanup ran, what a replay's query misses went over the cutoff while that
\* replay was running.
THEOREM MissedRowsCorrect == NaiveSpec => []MissedRowsAgedMeanwhile
<1>1. ReplayInv => MissedRowsAgedMeanwhile
  BY DEF ReplayInv, ReplaySound, MissedAged, MissedRowsAgedMeanwhile
<1> QED
  BY <1>1, ReplayInvariance, PTL
==============================================================================
