----------------------------- MODULE ProducerPool -----------------------------
(***************************************************************************)
(* gateway/async_kafka_producer.py: a pool of Kafka producers shared by    *)
(* the tasks of one asyncio loop.  A task runs alone between two awaits,   *)
(* so an action is what a task does from one await to the next.            *)
(*                                                                         *)
(* The producers are external (aiokafka) and interchangeable: send() is a  *)
(* coroutine that raises or takes the event and returns a future, and the  *)
(* future resolves later, to metadata or to an error.  After an error the  *)
(* broker may have written the event all the same.                         *)
(***************************************************************************)
EXTENDS Integers, Sequences, FiniteSets, Functions

CONSTANTS
    Events,             \* events handed to the pool, each once
    Requests,           \* tasks that call the pool, each once
    Topics,             \* topics of send_async_batch
    Worker,             \* the task of _batch_worker
    PoolSize,           \* pool_size
    FailureThreshold,   \* failure_threshold
    BatchSize,          \* batch_size
    QueueMax,           \* maxsize of batch_queue
    MayStop             \* TRUE when the pool may be stopped

ASSUME PoolAssumption ==
    /\ Worker \notin Requests
    /\ {PoolSize, FailureThreshold, BatchSize, QueueMax} \subseteq Nat \ {0}
    /\ MayStop \in BOOLEAN

VARIABLES
    lifecycle,      \* "starting", "up", "stopping" or "stopped"
    producers,      \* len(self.producers)
    failureCount,   \* failure_count
    circuitOpen,    \* circuit_open
    expired,        \* circuit_timeout has passed since last_failure_time
    queue,          \* batch_queue: sequence of [topic, event]
    held,           \* the worker's `batch`
    toSend,         \* the worker's items whose topic it has not sent yet
    pc,             \* task -> where it waits
    payload,        \* task -> events of its call
    returned,       \* task -> what its call returned
    future,         \* event -> what its producer.send has come to
    written,        \* events in Kafka
    dropped         \* history: events the worker took and did not send

breakerVars == <<failureCount, circuitOpen, expired>>
workerVars == <<queue, held, toSend>>
callVars == <<pc, payload, returned>>
poolVars == <<lifecycle, producers, breakerVars, workerVars, callVars, future,
              written, dropped>>

Callers == Requests \cup {Worker}
Items == [topic : Topics, event : Events]
EventsOf(items) == {i.event : i \in items}

PoolTypeOK ==
    /\ lifecycle \in {"starting", "up", "stopping", "stopped"}
    /\ producers \in 0 .. PoolSize
    /\ failureCount \in Nat
    /\ circuitOpen \in BOOLEAN /\ expired \in BOOLEAN
    /\ queue \in Seq(Items) /\ Len(queue) <= QueueMax
    /\ held \in Seq(Items) /\ toSend \subseteq Range(held)
    /\ pc \in [Callers -> {"idle", "sending", "awaiting", "gathering", "putting",
                           "getting", "flushing", "done"}]
    /\ payload \in [Callers -> SUBSET Events]
    /\ returned \in [Callers -> {"none", "True", "False", "0", "queued"}]
    /\ future \in [Events -> {"none", "pending", "ok", "error", "raised"}]
    /\ written \subseteq Events
    /\ dropped \subseteq Events

PoolInit ==
    /\ lifecycle = "starting"
    /\ producers = 0
    /\ failureCount = 0 /\ circuitOpen = FALSE /\ expired = TRUE
    /\ queue = <<>> /\ held = <<>> /\ toSend = {}
    /\ pc = [c \in Callers |-> "idle"]
    /\ payload = [c \in Callers |-> {}]
    /\ returned = [c \in Callers |-> "none"]
    /\ future = [e \in Events |-> "none"]
    /\ written = {}
    /\ dropped = {}

\* The events the worker has taken from the queue and not given to send_batch yet.
InHand ==
    EventsOf(IF pc[Worker] = "getting" THEN Range(held) ELSE toSend) \ payload[Worker]

\* An event no call has been given yet.
Fresh(e) == \A c \in Callers : e \notin payload[c]

Return(c, value) ==
    /\ pc' = [pc EXCEPT ![c] = "done"]
    /\ returned' = [returned EXCEPT ![c] = value]

------------------------------------------------------------------------------
(* Start and stop *)

\* One producer more; the worker's task is created after the last one.
StartProducer ==
    /\ lifecycle = "starting"
    /\ producers' = producers + 1
    /\ IF producers' = PoolSize
       THEN lifecycle' = "up" /\ pc' = [pc EXCEPT ![Worker] = "getting"]
       ELSE UNCHANGED <<lifecycle, pc>>
    /\ UNCHANGED <<breakerVars, workerVars, payload, returned, future, written, dropped>>

\* A producer does not start: start() calls stop() and raises.
StartFails ==
    /\ lifecycle = "starting"
    /\ lifecycle' = "stopping"
    /\ UNCHANGED <<producers, breakerVars, workerVars, callVars, future, written, dropped>>

\* stop() cancels the worker, and with it the sends it is gathering: what it has
\* not sent is gone.  What is still queued stays there; nobody reads it any more.
StopWorker ==
    /\ MayStop
    /\ lifecycle = "up"
    /\ lifecycle' = "stopping"
    /\ pc' = [pc EXCEPT ![Worker] = "done"]
    /\ held' = <<>>
    /\ toSend' = {}
    /\ payload' = [payload EXCEPT ![Worker] = {}]
    /\ dropped' = dropped \cup {e \in InHand \cup payload[Worker] : future[e] = "none"}
    /\ UNCHANGED <<producers, breakerVars, queue, returned, future, written>>

\* Each producer's stop() waits for what it has taken; then the list is cleared.
StopProducers ==
    /\ lifecycle = "stopping"
    /\ \A e \in Events : future[e] # "pending"
    /\ lifecycle' = "stopped"
    /\ producers' = 0
    /\ UNCHANGED <<breakerVars, workerVars, callVars, future, written, dropped>>

------------------------------------------------------------------------------
(* The circuit breaker *)

Open == circuitOpen /\ ~expired

\* _is_circuit_open resets an expired breaker as it answers.
ConsultBreaker ==
    IF circuitOpen /\ expired
    THEN circuitOpen' = FALSE /\ failureCount' = 0 /\ UNCHANGED expired
    ELSE UNCHANGED breakerVars

HandleKafkaError ==
    /\ failureCount' = failureCount + 1
    /\ circuitOpen' = (circuitOpen \/ failureCount' >= FailureThreshold)
    /\ expired' = FALSE

\* Mutant: the success closes the breaker and leaves its count.
ResetFlagOnly ==
    /\ circuitOpen' = FALSE
    /\ UNCHANGED <<failureCount, expired>>

ResetOnSuccess ==
    /\ failureCount' = 0
    /\ circuitOpen' = FALSE
    /\ UNCHANGED expired

\* circuit_timeout passes.
Elapse ==
    /\ Open
    /\ expired' = TRUE
    /\ UNCHANGED <<lifecycle, producers, failureCount, circuitOpen, workerVars,
                   callVars, future, written, dropped>>

------------------------------------------------------------------------------
(* send_event *)

\* Up to the first await.  With no producer in the list _get_producer divides by
\* zero, which is caught as an unexpected error.
SendEvent(r, e) ==
    /\ pc[r] = "idle"
    /\ Fresh(e)
    /\ payload' = [payload EXCEPT ![r] = {e}]
    /\ ConsultBreaker
    /\ IF Open \/ producers = 0
       THEN Return(r, "False")
       ELSE pc' = [pc EXCEPT ![r] = "sending"] /\ UNCHANGED returned
    /\ UNCHANGED <<lifecycle, producers, workerVars, future, written, dropped>>

\* Mutant: the call returns without awaiting its future.
SendTakenUnawaited(r) ==
    /\ pc[r] = "sending"
    /\ producers > 0
    /\ future' = [e \in Events |-> IF e \in payload[r] THEN "pending" ELSE future[e]]
    /\ ResetOnSuccess
    /\ Return(r, "True")
    /\ UNCHANGED <<lifecycle, producers, workerVars, payload, written, dropped>>

\* send() takes the event and the call awaits its future ...
SendTaken(r) ==
    /\ pc[r] = "sending"
    /\ producers > 0
    /\ future' = [e \in Events |-> IF e \in payload[r] THEN "pending" ELSE future[e]]
    /\ pc' = [pc EXCEPT ![r] = "awaiting"]
    /\ UNCHANGED <<lifecycle, producers, breakerVars, workerVars, payload, returned,
                   written, dropped>>

\* ... or raises; the breaker counts Kafka's errors only.
SendRaises(r) ==
    /\ pc[r] = "sending"
    /\ future' = [e \in Events |-> IF e \in payload[r] THEN "raised" ELSE future[e]]
    /\ HandleKafkaError \/ UNCHANGED breakerVars
    /\ Return(r, "False")
    /\ UNCHANGED <<lifecycle, producers, workerVars, payload, written, dropped>>

\* The future has resolved.
SendReturns(r) ==
    /\ pc[r] = "awaiting"
    /\ \/ /\ \A e \in payload[r] : future[e] = "ok"
          /\ ResetOnSuccess
          /\ Return(r, "True")
       \/ /\ \E e \in payload[r] : future[e] = "error"
          /\ HandleKafkaError
          /\ Return(r, "False")
    /\ UNCHANGED <<lifecycle, producers, workerVars, payload, future, written, dropped>>

------------------------------------------------------------------------------
(* send_batch *)

\* What send_batch returns when gather is done.  An item's result is an exception
\* or the future that send() returned: with none of the latter the count is 0, and
\* the first future has no `topic`, so AttributeError is raised and 0 returned.
\* The futures themselves are awaited by nobody.
SuccessfulSends(events) == "0"

\* A request calls send_batch: up to the first await.
SendBatch(r, events) ==
    /\ pc[r] = "idle"
    /\ events # {} /\ \A e \in events : Fresh(e)
    /\ payload' = [payload EXCEPT ![r] = events]
    /\ ConsultBreaker
    /\ IF Open \/ producers = 0
       THEN Return(r, "0")
       ELSE pc' = [pc EXCEPT ![r] = "gathering"] /\ UNCHANGED returned
    /\ UNCHANGED <<lifecycle, producers, workerVars, future, written, dropped>>

\* One of the gathered send() coroutines ends; its exception is kept as a result
\* and does not reach the breaker.
GatherItem(c, e) ==
    /\ pc[c] = "gathering"
    /\ e \in payload[c]
    /\ future[e] = "none"
    /\ \/ producers > 0 /\ future' = [future EXCEPT ![e] = "pending"]
       \/ future' = [future EXCEPT ![e] = "raised"]
    /\ UNCHANGED <<lifecycle, producers, breakerVars, workerVars, callVars, written,
                   dropped>>

Gathered(c) == pc[c] = "gathering" /\ \A e \in payload[c] : future[e] # "none"

BatchReturns(r) ==
    /\ Gathered(r)
    /\ Return(r, SuccessfulSends(payload[r]))
    /\ UNCHANGED <<lifecycle, producers, breakerVars, workerVars, payload, future,
                   written, dropped>>

------------------------------------------------------------------------------
(* send_async_batch and _batch_worker *)

\* Mutant: the queue takes one item more than its maxsize.
QueueFullLate == Len(queue) > QueueMax

\* put() waits while the queue is full; it never raises QueueFull.
QueueFull == Len(queue) >= QueueMax

PutEvent(r, e) ==
    /\ pc[r] = "idle"
    /\ Fresh(e)
    /\ payload' = [payload EXCEPT ![r] = {e}]
    /\ IF ~QueueFull
       THEN /\ \E t \in Topics : queue' = Append(queue, [topic |-> t, event |-> e])
            /\ Return(r, "queued")
       ELSE /\ pc' = [pc EXCEPT ![r] = "putting"]
            /\ UNCHANGED <<queue, returned>>
    /\ UNCHANGED <<lifecycle, producers, breakerVars, held, toSend, future, written,
                   dropped>>

PutWakes(r) ==
    /\ pc[r] = "putting"
    /\ ~QueueFull
    /\ \E t \in Topics, e \in payload[r] :
        queue' = Append(queue, [topic |-> t, event |-> e])
    /\ Return(r, "queued")
    /\ UNCHANGED <<lifecycle, producers, breakerVars, held, toSend, payload, future,
                   written, dropped>>

\* The batch is sent when it is full, or when linger_ms have passed.
WorkerGets ==
    /\ pc[Worker] = "getting"
    /\ queue # <<>>
    /\ held' = Append(held, Head(queue))
    /\ queue' = Tail(queue)
    /\ \/ pc' = [pc EXCEPT ![Worker] = "flushing"] /\ toSend' = Range(held')
       \/ Len(held') < BatchSize /\ UNCHANGED <<pc, toSend>>
    /\ UNCHANGED <<lifecycle, producers, breakerVars, payload, returned, future,
                   written, dropped>>

\* Mutant: only a full batch is sent.
WorkerWaitsForFull ==
    /\ FALSE
    /\ UNCHANGED poolVars

WorkerTimesOut ==
    /\ pc[Worker] = "getting"
    /\ queue = <<>> /\ held # <<>>
    /\ pc' = [pc EXCEPT ![Worker] = "flushing"]
    /\ toSend' = Range(held)
    /\ UNCHANGED <<lifecycle, producers, breakerVars, queue, held, payload, returned,
                   future, written, dropped>>

\* Mutant: the batch is not cleared when its last topic is sent.
AfterTopicKeepsBatch(items) ==
    /\ toSend' = toSend \ items
    /\ UNCHANGED held
    /\ pc' = [pc EXCEPT ![Worker] = IF toSend' = {} THEN "getting" ELSE "flushing"]

\* After one topic's send_batch: the next topic, or batch.clear() and get again.
AfterTopic(items) ==
    /\ toSend' = toSend \ items
    /\ IF toSend' = {}
       THEN held' = <<>> /\ pc' = [pc EXCEPT ![Worker] = "getting"]
       ELSE UNCHANGED held /\ pc' = [pc EXCEPT ![Worker] = "flushing"]

\* The worker calls send_batch for one topic and ignores what it returns.
WorkerSends(t) ==
    LET items == {i \in toSend : i.topic = t}
    IN  /\ pc[Worker] = "flushing"
        /\ items # {}
        /\ ConsultBreaker
        /\ IF Open \/ producers = 0
           THEN /\ AfterTopic(items)
                /\ dropped' = dropped \cup EventsOf(items)
                /\ UNCHANGED payload
           ELSE /\ pc' = [pc EXCEPT ![Worker] = "gathering"]
                /\ payload' = [payload EXCEPT ![Worker] = EventsOf(items)]
                /\ UNCHANGED <<held, toSend, dropped>>
        /\ UNCHANGED <<lifecycle, producers, queue, returned, future, written>>

WorkerGathered ==
    /\ Gathered(Worker)
    /\ AfterTopic({i \in toSend : i.event \in payload[Worker]})
    /\ payload' = [payload EXCEPT ![Worker] = {}]
    /\ UNCHANGED <<lifecycle, producers, breakerVars, queue, returned, future, written,
                   dropped>>

------------------------------------------------------------------------------
(* Kafka *)

Acknowledge(e) ==
    /\ future[e] = "pending"
    /\ future' = [future EXCEPT ![e] = "ok"]
    /\ written' = written \cup {e}
    /\ UNCHANGED <<lifecycle, producers, breakerVars, workerVars, callVars, dropped>>

\* A timeout or an error, before or after the broker wrote the event.
DeliveryFails(e) ==
    /\ future[e] = "pending"
    /\ future' = [future EXCEPT ![e] = "error"]
    /\ written' \in {written, written \cup {e}}
    /\ UNCHANGED <<lifecycle, producers, breakerVars, workerVars, callVars, dropped>>

------------------------------------------------------------------------------
(* Specification *)

StartStop == StartProducer \/ StartFails \/ StopWorker \/ StopProducers

Sends(r) ==
    \/ \E e \in Events : SendEvent(r, e)
    \/ \E events \in SUBSET Events : SendBatch(r, events)
    \/ SendTaken(r) \/ SendRaises(r) \/ SendReturns(r)
    \/ \E e \in Events : GatherItem(r, e)
    \/ BatchReturns(r)

WorkerStep ==
    \/ WorkerGets \/ WorkerTimesOut
    \/ \E t \in Topics : WorkerSends(t)
    \/ \E e \in Events : GatherItem(Worker, e)
    \/ WorkerGathered

Kafka == \E e \in Events : Acknowledge(e) \/ DeliveryFails(e)

PoolNext ==
    \/ StartStop
    \/ Elapse
    \/ \E r \in Requests : Sends(r) \/ PutWakes(r) \/ \E e \in Events : PutEvent(r, e)
    \/ WorkerStep
    \/ Kafka

PoolSpec == PoolInit /\ [][PoolNext]_poolVars

\* The loop runs every task that can run, and a waiting put() is woken; aiokafka
\* resolves every future, with a timeout if need be.  A pool that is started comes
\* up; nothing obliges a task to call it.
PoolFairness ==
    /\ WF_poolVars(StartProducer)
    /\ WF_poolVars(WorkerStep)
    /\ WF_poolVars(Kafka)
    /\ \A r \in Requests : SF_poolVars(PutWakes(r))

------------------------------------------------------------------------------
(* Properties *)

\* send_event returns True only for an event that Kafka has (lines 147-172),
\* whatever other sends do in between.
TrueMeansWritten ==
    \A r \in Requests : returned[r] = "True" => payload[r] \subseteq written

\* The breaker's flag and its count never contradict each other, in whatever order
\* the results of concurrent sends, early and late, reach them: a closed breaker is
\* always short of the threshold (lines 169-170, 333-337, 353-355).
BreakerAgrees == circuitOpen <=> failureCount >= FailureThreshold

\* An event given to send_async_batch is in one place only, and in no place twice:
\* queued, in the worker's hand, being gathered, given to a producer, or dropped with
\* the breaker open or by stop().  The worker sends no event twice and forgets none
\* (lines 271-292), wherever stop() cuts it off.
QueuedOnce ==
    LET gone == {e \in Events : future[e] # "none"} \cup dropped
        places(e) == {p \in 1 .. 4 :
                        \/ p = 1 /\ e \in EventsOf(Range(queue))
                        \/ p = 2 /\ e \in InHand
                        \/ p = 3 /\ e \in payload[Worker]
                        \/ p = 4 /\ e \in gone \ payload[Worker]}
    IN  /\ \A r \in Requests : returned[r] = "queued" =>
                \A e \in payload[r] : Cardinality(places(e)) = 1
        /\ Cardinality(Range(queue)) = Len(queue)
        /\ Cardinality(Range(held)) = Len(held)

\* As long as the pool runs, an event given to send_async_batch is sent, or dropped
\* with the breaker open, also when put() found the queue full: the worker outlives
\* every batch and error, and a batch too small to fill goes out when linger_ms have
\* passed (lines 247-304).
QueuedSettles ==
    \A r \in Requests :
        (lifecycle = "up" /\ (pc[r] = "putting" \/ returned[r] = "queued"))
            ~> \/ lifecycle # "up"
               \/ \A e \in payload[r] : future[e] # "none" \/ e \in dropped
==============================================================================
