------------------------------ MODULE NaiveStore ------------------------------
(***************************************************************************)
(* naive_mode/hybrid_source_of_truth.py: an event is written to Kafka and  *)
(* then to cold storage, stream processors take it on to ClickHouse, and a *)
(* replay divides its date range among the three by age.  Cleanup deletes  *)
(* old rows from ClickHouse while all this goes on.                        *)
(*                                                                         *)
(* Time is in hours.  An event is named by its timestamp: nothing here     *)
(* tells two events of one hour apart.  Kafka's own retention is left out  *)
(* (no method reads the topic back), and so is what a replayed row looks   *)
(* like: _clickhouse_row_to_event is a placeholder.                        *)
(***************************************************************************)
EXTENDS Integers

CONSTANTS
    Calls,              \* calls of store_event_with_durability
    Replays,            \* calls of replay_events_from_source
    Events,             \* the timestamps events have
    Dates,              \* what start_date and end_date may be
    Tiers,              \* which of "kafka", "cold", "warm" the storage has
    KafkaDays,          \* kafka_days
    ClickHouseMonths,   \* clickhouse_months
    StartNow,           \* the hour in which the behaviour begins
    MaxNow              \* bound: the last hour looked at

Day == 24
Month == 30 * Day

\* DataRetentionPolicy does not compare its two ages; its defaults, 7 days and
\* 12 months, are in this order.
ASSUME NaiveAssumption ==
    /\ Events \subseteq Nat /\ Dates \subseteq Nat
    /\ KafkaDays \in Nat /\ ClickHouseMonths \in Nat
    /\ StartNow \in Nat /\ MaxNow \in Nat
    /\ KafkaDays * Day <= ClickHouseMonths * Month

VARIABLES
    now,        \* datetime.utcnow()
    written,    \* events in the topic raw-events
    objects,    \* keys in cold storage: <<hour of the day, event>>
    warm,       \* rows of ClickHouse's table events
    everWarm,   \* history: rows the table ever had
    deletes,    \* cutoffs of the DELETE mutations not yet executed
    call,       \* the stores in progress and their answers
    replay      \* the replays in progress and their results; had: everWarm at the start

naiveVars == <<now, written, objects, warm, everWarm, deletes, call, replay>>

Nothing == <<0, 0>>     \* an interval without instants
Within(t, range) == range[1] <= t /\ t < range[2]
Later(a, b) == IF a >= b THEN a ELSE b
Earlier(a, b) == IF a <= b THEN a ELSE b

CallRecord ==
    [pc : {"idle", "kafka", "cold", "returned", "killed"},
     event : Nat, kafka : BOOLEAN, cold : BOOLEAN]

ReplayRecord ==
    [pc : {"idle", "query", "send", "done", "killed"},
     start : Nat, end : Nat, begun : Nat,
     kafka : Int \X Int, clickhouse : Int \X Int, cold : Int \X Int,
     had : SUBSET Events, answered : BOOLEAN,
     rows : SUBSET Events, tried : SUBSET Events, count : Nat, total : Nat]

NaiveTypeOK ==
    /\ now \in Nat
    /\ written \subseteq Events
    /\ objects \subseteq (0 .. Day - 1) \X Events
    /\ everWarm \subseteq written
    /\ warm \subseteq everWarm
    /\ deletes \subseteq Int
    /\ call \in [Calls -> CallRecord]
    /\ \A c \in Calls : call[c].pc # "idle" => call[c].event \in Events
    /\ replay \in [Replays -> ReplayRecord]

\* What was stored before the behaviour begins is in all three tiers.
NaiveInit ==
    /\ now = StartNow
    /\ warm \in SUBSET {e \in Events : e <= now}
    /\ everWarm = warm
    /\ written = warm
    /\ objects = {<<e % Day, e>> : e \in warm}
    /\ deletes = {}
    /\ call = [c \in Calls |-> [pc |-> "idle", event |-> 0, kafka |-> FALSE, cold |-> FALSE]]
    /\ replay = [r \in Replays |->
                    [pc |-> "idle", start |-> 0, end |-> 0, begun |-> 0,
                     kafka |-> Nothing, clickhouse |-> Nothing, cold |-> Nothing,
                     had |-> {}, answered |-> FALSE,
                     rows |-> {}, tried |-> {}, count |-> 0, total |-> 0]]

------------------------------------------------------------------------------
\* The dual write.

StoreEvent(c, e) ==
    /\ call[c].pc = "idle"
    /\ e <= now
    /\ call' = [call EXCEPT ![c] = [@ EXCEPT !.pc = "kafka", !.event = e]]
    /\ UNCHANGED <<written, objects>>

\* What a write to a tier may come to: a tier says True only when it has the event;
\* a write it says False for, or raises for, may have been made.
Outcomes(tier) ==
    IF tier \in Tiers
    THEN {o \in [success : BOOLEAN, stored : BOOLEAN] : o.success => o.stored}
    ELSE {[success |-> FALSE, stored |-> FALSE]}

StoreToKafka(c) ==
    /\ call[c].pc = "kafka"
    /\ \E o \in Outcomes("kafka") :
        /\ written' = IF o.stored THEN written \cup {call[c].event} ELSE written
        /\ call' = [call EXCEPT ![c] = [@ EXCEPT !.pc = "cold", !.kafka = o.success]]
    /\ UNCHANGED objects

\* Mutant of ObjectKey: hours counted from 1.
ObjectKeyFromOne(e) == <<(now % Day) + 1, e>>

\* The object is named by the event and the hour in which it is archived, so a
\* retry in the same hour overwrites it and a later one adds a second object.
ObjectKey(e) == <<now % Day, e>>

\* Mutant of StoreToColdStorage: the second write reports the first one's success.
StoreToColdReportsKafka(c) ==
    /\ call[c].pc = "cold"
    /\ \E o \in Outcomes("cold") :
        /\ objects' = IF o.stored THEN objects \cup {ObjectKey(call[c].event)} ELSE objects
        /\ call' = [call EXCEPT ![c] = [@ EXCEPT !.pc = "returned", !.cold = call[c].kafka]]
    /\ UNCHANGED written

StoreToColdStorage(c) ==
    /\ call[c].pc = "cold"
    /\ \E o \in Outcomes("cold") :
        /\ objects' = IF o.stored THEN objects \cup {ObjectKey(call[c].event)} ELSE objects
        /\ call' = [call EXCEPT ![c] = [@ EXCEPT !.pc = "returned", !.cold = o.success]]
    /\ UNCHANGED written

\* results['stream_processing'] = kafka_success
StreamProcessing(c) == call[c].kafka

StoreNext ==
    /\ \E c \in Calls :
        (\E e \in Events : StoreEvent(c, e)) \/ StoreToKafka(c) \/ StoreToColdStorage(c)
    /\ UNCHANGED <<now, warm, everWarm, deletes, replay>>

------------------------------------------------------------------------------
\* ClickHouse: the stream processors insert, cleanup_expired_data deletes.

KafkaCutoff(t) == t - KafkaDays * Day
ClickHouseCutoff(t) == t - ClickHouseMonths * Month

StreamProcessors ==
    /\ \E e \in written :
        /\ warm' = warm \cup {e}
        /\ everWarm' = everWarm \cup {e}
    /\ UNCHANGED deletes

\* Mutant of CleanupExpiredData: the cutoff is a date, and the rest of its day goes too.
CleanupByDay ==
    /\ "warm" \in Tiers
    /\ deletes' = deletes \cup {ClickHouseCutoff(now - (now % Day)) + Day}
    /\ UNCHANGED <<warm, everWarm>>

\* The cutoff is taken when the call is made; ClickHouse executes the mutation
\* later, if at all.
CleanupExpiredData ==
    /\ "warm" \in Tiers
    /\ deletes' = deletes \cup {ClickHouseCutoff(now)}
    /\ UNCHANGED <<warm, everWarm>>

ExecuteDelete ==
    /\ \E cutoff \in deletes :
        /\ deletes' = deletes \ {cutoff}
        /\ warm' = {e \in warm : e >= cutoff} \/ warm' = warm
    /\ UNCHANGED everWarm

ClickHouseNext ==
    /\ StreamProcessors \/ CleanupExpiredData \/ ExecuteDelete
    /\ UNCHANGED <<now, written, objects, call, replay>>

------------------------------------------------------------------------------
\* The replay.

FromKafka(start, end, t) ==
    IF end > KafkaCutoff(t) THEN <<Later(start, KafkaCutoff(t)), end>> ELSE Nothing

AsksClickHouse(start, end, t) == start < KafkaCutoff(t) /\ end > ClickHouseCutoff(t)

\* Mutant of FromClickHouse: the end of the range is not cut at Kafka's days.
FromClickHouseUncut(start, end, t) ==
    IF AsksClickHouse(start, end, t) THEN <<Later(start, ClickHouseCutoff(t)), end>>
    ELSE Nothing

FromClickHouse(start, end, t) ==
    IF AsksClickHouse(start, end, t)
    THEN <<Later(start, ClickHouseCutoff(t)), Earlier(end, KafkaCutoff(t))>>
    ELSE Nothing

FromColdStorage(start, end, t) ==
    IF start < ClickHouseCutoff(t) THEN <<start, Earlier(end, ClickHouseCutoff(t))>>
    ELSE Nothing

\* The last day is listed too: its events up to the end of the range are wanted.
ColdReads(range, t) ==
    /\ t \div Day \in range[1] \div Day .. range[2] \div Day
    /\ Within(t, range)

\* What replay x does after ClickHouse: the cutoffs are those it began with.
Finish(x, total) ==
    [x EXCEPT !.pc = "done", !.total = total,
              !.cold = FromColdStorage(x.start, x.end, x.begun)]

\* Kafka's part is a placeholder that reads nothing, and nothing is awaited before
\* the query.
BeginReplay(r, start, end) ==
    /\ replay[r].pc = "idle"
    /\ LET x == [replay[r] EXCEPT !.pc = "query", !.start = start, !.end = end,
                    !.begun = now, !.had = everWarm,
                    !.kafka = FromKafka(start, end, now),
                    !.clickhouse = FromClickHouse(start, end, now)]
       IN  replay' = [replay EXCEPT ![r] =
                        IF "warm" \in Tiers /\ AsksClickHouse(start, end, now)
                        THEN x ELSE Finish(x, 0)]

\* An error of ClickHouse is an empty list to the caller.
ExecuteQuery(range, answered) ==
    IF answered THEN {e \in warm : Within(e, range)} ELSE {}

QueryClickHouse(r) ==
    /\ replay[r].pc = "query"
    /\ \E answered \in BOOLEAN :
        LET rows == ExecuteQuery(replay[r].clickhouse, answered)
            x == [replay[r] EXCEPT !.pc = "send", !.rows = rows, !.answered = answered]
        IN  replay' = [replay EXCEPT ![r] =
                        IF rows = {} \/ "kafka" \notin Tiers THEN Finish(x, 0) ELSE x]

\* send_event is called for the oldest row not yet tried.  event_count goes up also
\* when it answers False, as with an open breaker: how many of the rows counted have
\* reached the replay topic is not known, here as in the code.
SendRow(r) ==
    /\ replay[r].pc = "send"
    /\ \E e \in replay[r].rows \ replay[r].tried :
        /\ \A f \in replay[r].rows \ replay[r].tried : e <= f
        /\ LET x == [replay[r] EXCEPT !.tried = @ \cup {e}, !.count = @ + 1]
           IN  replay' = [replay EXCEPT ![r] =
                            IF x.tried = x.rows THEN Finish(x, x.count) ELSE x]

\* send_event raises: 0 is reported, and the replay goes on.
SendRaises(r) ==
    /\ replay[r].pc = "send"
    /\ replay' = [replay EXCEPT ![r] = Finish(@, 0)]

ReplayNext ==
    /\ \E r \in Replays :
        \/ \E start, end \in Dates : BeginReplay(r, start, end)
        \/ QueryClickHouse(r) \/ SendRow(r) \/ SendRaises(r)
    /\ UNCHANGED <<now, written, objects, warm, everWarm, deletes, call>>

------------------------------------------------------------------------------
Tick ==
    /\ now < MaxNow
    /\ now' = now + 1
    /\ UNCHANGED <<written, objects, warm, everWarm, deletes, call, replay>>

\* The process dies with everything it was doing.
Kill ==
    /\ call' = [c \in Calls |->
                  IF call[c].pc \in {"kafka", "cold"} THEN [call[c] EXCEPT !.pc = "killed"]
                  ELSE call[c]]
    /\ replay' = [r \in Replays |->
                    IF replay[r].pc \in {"query", "send"} THEN [replay[r] EXCEPT !.pc = "killed"]
                    ELSE replay[r]]
    /\ UNCHANGED <<now, written, objects, warm, everWarm, deletes>>

NaiveNext == StoreNext \/ ClickHouseNext \/ ReplayNext \/ Tick \/ Kill

NaiveSpec == NaiveInit /\ [][NaiveNext]_naiveVars

------------------------------------------------------------------------------
Archived(e) == \E h \in 0 .. Day - 1 : <<h, e>> \in objects

\* A tier that an answer reports True for has the event, and ClickHouse is promised
\* ("stream_processing") only what the stream processors can read from Kafka.
AnswersAreTrue ==
    \A c \in Calls : call[c].pc = "returned" =>
        /\ call[c].kafka \/ StreamProcessing(c) => call[c].event \in written
        /\ call[c].cold => Archived(call[c].event)

\* A replay that was not killed asks for every instant of its range from exactly
\* one source, and for nothing outside it, however long it took between them.
AskedOf(x, t) ==
    {source \in {"kafka", "clickhouse", "cold"} :
        CASE source = "kafka" -> Within(t, x.kafka)
          [] source = "clickhouse" -> Within(t, x.clickhouse)
          [] source = "cold" -> ColdReads(x.cold, t)}

ReplayAsksEachInstantOnce ==
    \A r \in Replays : replay[r].pc = "done" =>
        \A t \in Events :
            IF Within(t, <<replay[r].start, replay[r].end>>)
            THEN \E source \in {"kafka", "clickhouse", "cold"} : AskedOf(replay[r], t) = {source}
            ELSE AskedOf(replay[r], t) = {}

\* Cleanup spares what replays ask ClickHouse for: a row the table had at any time
\* before a replay and its query did not find went over the cutoff while it ran.
MissedRowsAgedMeanwhile ==
    \A r \in Replays : replay[r].answered =>
        \A e \in replay[r].had : Within(e, replay[r].clickhouse) /\ e \notin replay[r].rows =>
            ClickHouseCutoff(replay[r].begun) <= e /\ e < ClickHouseCutoff(now)
==============================================================================
