-------------------------- MODULE ProducerPoolProofs --------------------------
(***************************************************************************)
(* Invariants of the producer pool, for any number of tasks, events and    *)
(* producers and any threshold.                                            *)
(***************************************************************************)
EXTENDS ProducerPool, FiniteSetTheorems, SequenceTheorems, TLAPS

\* The breaker is changed in three ways only, and by every step in one of them.
BreakerStep == ConsultBreaker \/ HandleKafkaError \/ ResetOnSuccess
               \/ UNCHANGED <<failureCount, circuitOpen>>

BreakerTypes == failureCount \in Nat /\ circuitOpen \in BOOLEAN /\ expired \in BOOLEAN
BreakerInv == BreakerTypes /\ BreakerAgrees

\* Whatever a call or a task does, it does one of these four things to the breaker.
LEMMA StepsTheBreaker ==
    ASSUME [PoolNext]_poolVars
    PROVE  BreakerStep /\ (expired' = expired \/ expired' = TRUE \/ expired' = FALSE)
<1> USE DEF BreakerStep, breakerVars, ConsultBreaker, HandleKafkaError, ResetOnSuccess
<1>1. CASE StartStop
  BY <1>1 DEF StartStop, StartProducer, StartFails, StopWorker, StopProducers
<1>2. CASE Elapse
  BY <1>2 DEF Elapse
<1>3. CASE \E r \in Requests : Sends(r)
  BY <1>3 DEF Sends, SendEvent, SendBatch, SendTaken, SendRaises, SendReturns,
              GatherItem, BatchReturns
<1>4. CASE \E r \in Requests : PutWakes(r) \/ \E e \in Events : PutEvent(r, e)
  BY <1>4 DEF PutWakes, PutEvent
<1>5. CASE WorkerStep
  BY <1>5 DEF WorkerStep, WorkerGets, WorkerTimesOut, WorkerSends, GatherItem,
              WorkerGathered
<1>6. CASE Kafka
  BY <1>6 DEF Kafka, Acknowledge, DeliveryFails
<1>7. CASE UNCHANGED poolVars
  BY <1>7 DEF poolVars
<1> QED
  BY <1>1, <1>2, <1>3, <1>4, <1>5, <1>6, <1>7 DEF PoolNext

\* The breaker's flag and its count agree in every reachable state, whatever the
\* order in which late successes and failures arrive.
LEMMA BreakerKept ==
    ASSUME BreakerInv, [PoolNext]_poolVars
    PROVE  BreakerInv'
<1>1. FailureThreshold \in Nat \ {0}
  BY PoolAssumption
<1>2. BreakerStep
  BY StepsTheBreaker
<1>3. expired' \in BOOLEAN
  BY StepsTheBreaker, Zenon DEF BreakerInv, BreakerTypes
<1>4. CASE HandleKafkaError
  <2>1. failureCount' \in Nat /\ failureCount' = failureCount + 1
    BY <1>4 DEF HandleKafkaError, BreakerInv, BreakerTypes
  <2>2. failureCount >= FailureThreshold => failureCount' >= FailureThreshold
    BY <2>1, <1>1 DEF BreakerInv, BreakerTypes
  <2>3. circuitOpen' = (circuitOpen \/ failureCount' >= FailureThreshold)
    BY <1>4 DEF HandleKafkaError
  <2>4. circuitOpen' <=> failureCount' >= FailureThreshold
    BY <2>2, <2>3, Zenon DEF BreakerInv, BreakerTypes, BreakerAgrees
  <2>5. circuitOpen' \in BOOLEAN
    BY <2>3, Zenon
  <2> QED
    BY <1>3, <2>1, <2>4, <2>5, Zenon DEF BreakerInv, BreakerTypes, BreakerAgrees
<1>5. CASE failureCount' = 0 /\ circuitOpen' = FALSE
  <2>1. ~(0 >= FailureThreshold) /\ 0 \in Nat
    BY <1>1
  <2> QED
    BY <1>3, <2>1, <1>5, Zenon DEF BreakerInv, BreakerTypes, BreakerAgrees
<1>6. CASE UNCHANGED <<failureCount, circuitOpen>>
  BY <1>3, <1>6, Zenon DEF BreakerInv, BreakerTypes, BreakerAgrees
<1> QED
  BY <1>2, <1>4, <1>5, <1>6 DEF BreakerStep, ConsultBreaker, ResetOnSuccess, breakerVars

LEMMA BreakerStarts == PoolInit => BreakerInv
<1>1. 0 \in Nat /\ ~(0 >= FailureThreshold)
  BY PoolAssumption
<1> QED
  BY <1>1, Zenon DEF PoolInit, BreakerInv, BreakerTypes, BreakerAgrees

THEOREM BreakerCorrect == PoolSpec => []BreakerAgrees
<1>1. BreakerInv => BreakerAgrees
  BY DEF BreakerInv
<1> QED
  BY <1>1, BreakerStarts, BreakerKept, PTL DEF PoolSpec

------------------------------------------------------------------------------

CallTypes ==
    /\ pc \in [Callers -> {"idle", "sending", "awaiting", "gathering", "putting",
                           "getting", "flushing", "done"}]
    /\ payload = [c \in Callers |-> payload[c]]
    /\ \A r \in Requests : payload[r] \subseteq Events
    /\ returned \in [Callers -> {"none", "True", "False", "0", "queued"}]
    /\ future \in [Events -> {"none", "pending", "ok", "error", "raised"}]

\* A future that resolved well is an event in Kafka; a call that returned is over.
ConfirmedIsWritten == \A e \in Events : future[e] = "ok" => e \in written
ReturnedIsDone == \A r \in Requests : returned[r] # "none" => pc[r] = "done"

WrittenInv == CallTypes /\ ConfirmedIsWritten /\ ReturnedIsDone /\ TrueMeansWritten

\* What a step may do without ever making a wrong promise: Kafka forgets nothing, a
\* finished call stays as it is, and a call returns True on confirmed events only.
Honest ==
    /\ written \subseteq written'
    /\ \A e \in Events : future'[e] = "ok" => future[e] = "ok" \/ e \in written'
    /\ \A r \in Requests :
        \/ pc'[r] = pc[r] /\ payload'[r] = payload[r] /\ returned'[r] = returned[r]
        \/ /\ pc[r] # "done"
           /\ returned'[r] # "none" => pc'[r] = "done"
           /\ returned'[r] = "True" => \A e \in payload'[r] : future[e] = "ok"

LEMMA HonestIsEnough ==
    ASSUME WrittenInv, CallTypes', Honest
    PROVE  WrittenInv'
<1>1. ConfirmedIsWritten'
  BY DEF WrittenInv, ConfirmedIsWritten, Honest
<1>2. ReturnedIsDone'
  BY DEF WrittenInv, ReturnedIsDone, Honest
<1>3. TrueMeansWritten'
  <2> SUFFICES ASSUME NEW r \in Requests, returned'[r] = "True",
                      NEW e \in payload'[r]
               PROVE  e \in written'
    BY DEF TrueMeansWritten
  <2>1. e \in Events
    BY DEF CallTypes, Callers
  <2> QED
    BY <2>1 DEF Honest, WrittenInv, ConfirmedIsWritten, TrueMeansWritten
<1> QED
  BY <1>1, <1>2, <1>3 DEF WrittenInv

LEMMA StepsAreHonest ==
    ASSUME WrittenInv, [PoolNext]_poolVars
    PROVE  CallTypes' /\ Honest
<1> USE DEF WrittenInv, CallTypes, Callers, callVars, Honest, ReturnedIsDone
<1>0. Worker \notin Requests
  BY PoolAssumption
<1>1. CASE StartStop
  BY <1>0, <1>1 DEF StartStop, StartProducer, StartFails, StopWorker, StopProducers
<1>2. CASE Elapse
  BY <1>2 DEF Elapse
<1>3. ASSUME NEW r \in Requests, Sends(r)
      PROVE  CallTypes' /\ Honest
  <2> USE DEF Return
  <2>1. ASSUME NEW e \in Events, SendEvent(r, e) PROVE CallTypes' /\ Honest
    BY <2>1 DEF SendEvent
  <2>2. ASSUME NEW events \in SUBSET Events, SendBatch(r, events)
        PROVE  CallTypes' /\ Honest
    BY <2>2 DEF SendBatch
  <2>3. CASE SendTaken(r)
    BY <2>3 DEF SendTaken
  <2>4. CASE SendRaises(r)
    BY <2>4 DEF SendRaises
  <2>5. CASE SendReturns(r)
    BY <2>5 DEF SendReturns
  <2>6. ASSUME NEW e \in Events, GatherItem(r, e) PROVE CallTypes' /\ Honest
    BY <2>6 DEF GatherItem
  <2>7. CASE BatchReturns(r)
    BY <2>7 DEF BatchReturns, Gathered, SuccessfulSends
  <2> QED
    BY <1>3, <2>1, <2>2, <2>3, <2>4, <2>5, <2>6, <2>7 DEF Sends
<1>4. ASSUME NEW r \in Requests, PutWakes(r) \/ \E e \in Events : PutEvent(r, e)
      PROVE  CallTypes' /\ Honest
  <2> USE DEF Return
  <2>1. CASE PutWakes(r)
    BY <2>1 DEF PutWakes
  <2>2. ASSUME NEW e \in Events, PutEvent(r, e) PROVE CallTypes' /\ Honest
    <3> DEFINE accepted == pc' = [pc EXCEPT ![r] = "done"]
                           /\ returned' = [returned EXCEPT ![r] = "queued"]
               waiting == pc' = [pc EXCEPT ![r] = "putting"] /\ returned' = returned
    <3>1. /\ pc[r] = "idle"
          /\ payload' = [payload EXCEPT ![r] = {e}]
          /\ accepted \/ waiting
          /\ future' = future /\ written' = written
      BY <2>2 DEF PutEvent
    <3> QED
      BY <3>1
  <2> QED
    BY <1>4, <2>1, <2>2
<1>5. CASE WorkerStep
  <2>1. CASE WorkerGets \/ WorkerTimesOut
    BY <1>0, <2>1 DEF WorkerGets, WorkerTimesOut
  <2>2. ASSUME NEW t \in Topics, WorkerSends(t) PROVE CallTypes' /\ Honest
    BY <1>0, <2>2 DEF WorkerSends, AfterTopic, EventsOf
  <2>3. ASSUME NEW e \in Events, GatherItem(Worker, e) PROVE CallTypes' /\ Honest
    BY <2>3 DEF GatherItem
  <2>4. CASE WorkerGathered
    BY <1>0, <2>4 DEF WorkerGathered, AfterTopic
  <2> QED
    BY <1>5, <2>1, <2>2, <2>3, <2>4 DEF WorkerStep
<1>6. CASE Kafka
  BY <1>6 DEF Kafka, Acknowledge, DeliveryFails
<1>7. CASE UNCHANGED poolVars
  BY <1>7 DEF poolVars
<1> QED
  BY <1>1, <1>2, <1>3, <1>4, <1>5, <1>6, <1>7 DEF PoolNext

\* send_event never returns True for an event that Kafka does not have.
THEOREM TrueIsWritten == PoolSpec => []TrueMeansWritten
<1>1. PoolInit => WrittenInv
  BY DEF PoolInit, WrittenInv, CallTypes, ConfirmedIsWritten, ReturnedIsDone,
         TrueMeansWritten, Callers
<1>2. WrittenInv /\ [PoolNext]_poolVars => WrittenInv'
  BY StepsAreHonest, HonestIsEnough
<1>3. WrittenInv => TrueMeansWritten
  BY DEF WrittenInv
<1> QED
  BY <1>1, <1>2, <1>3, PTL DEF PoolSpec

------------------------------------------------------------------------------
(* Types *)

LEMMA RangeOfAppend ==
    ASSUME NEW S, NEW s \in Seq(S), NEW x \in S
    PROVE  /\ Append(s, x) \in Seq(S) /\ Len(Append(s, x)) = Len(s) + 1
           /\ Range(Append(s, x)) = Range(s) \cup {x}
<1>1. /\ Append(s, x) \in Seq(S) /\ Len(s) \in Nat
      /\ Len(Append(s, x)) = Len(s) + 1
      /\ \A i \in 1 .. Len(s) : Append(s, x)[i] = s[i]
      /\ Append(s, x)[Len(s) + 1] = x
  BY AppendProperties, LenProperties
<1>2. Range(s) = {s[i] : i \in 1 .. Len(s)}
  BY RangeEquality
<1>3. Range(Append(s, x)) = {Append(s, x)[i] : i \in 1 .. (Len(s) + 1)}
  BY <1>1, RangeEquality
<1> DEFINE t == Append(s, x)
           n == Len(s)
<1>4. 1 .. (n + 1) = (1 .. n) \cup {n + 1}
  BY <1>1
<1> HIDE DEF t, n
<1>5. {t[i] : i \in 1 .. (n + 1)} = {t[i] : i \in 1 .. n} \cup {t[n + 1]}
  BY <1>4
<1>6. {t[i] : i \in 1 .. n} = {s[i] : i \in 1 .. n}
  BY <1>1 DEF t, n
<1> QED BY <1>1, <1>2, <1>3, <1>5, <1>6 DEF t, n

LEMMA RangeOfTail ==
    ASSUME NEW S, NEW s \in Seq(S), s # <<>>
    PROVE  /\ Tail(s) \in Seq(S) /\ Head(s) \in S
           /\ Len(Tail(s)) = Len(s) - 1 /\ Len(s) >= 1
           /\ \A i \in 1 .. (Len(s) - 1) : Tail(s)[i] = s[i + 1]
           /\ Range(s) = Range(Tail(s)) \cup {Head(s)}
<1>1. /\ Tail(s) \in Seq(S) /\ Head(s) \in S /\ Len(Tail(s)) = Len(s) - 1
      /\ Len(s) \in Nat
  BY HeadTailProperties, LenProperties
<1>2. Len(s) >= 1
  <2>1. Len(s) # 0
    BY EmptySeq
  <2> QED BY <1>1, <2>1
<1>3. Head(s) = s[1] /\ \A i \in 1 .. (Len(s) - 1) : Tail(s)[i] = s[i + 1]
  BY <1>1, <1>2
<1>4. Range(s) = {s[i] : i \in 1 .. Len(s)}
      /\ Range(Tail(s)) = {Tail(s)[i] : i \in 1 .. (Len(s) - 1)}
  BY <1>1, RangeEquality
<1>5. ASSUME NEW y \in Range(s) PROVE y \in Range(Tail(s)) \cup {Head(s)}
  <2>1. PICK i \in 1 .. Len(s) : y = s[i]
    BY <1>4
  <2>2. CASE i = 1
    BY <1>3, <2>1, <2>2
  <2>3. CASE i # 1
    <3>1. i - 1 \in 1 .. (Len(s) - 1) /\ (i - 1) + 1 = i
      BY <1>1, <2>3
    <3>2. y = Tail(s)[i - 1]
      BY <1>3, <2>1, <3>1
    <3> QED BY <1>4, <3>1, <3>2
  <2> QED BY <2>2, <2>3
<1>6. ASSUME NEW y \in Range(Tail(s)) PROVE y \in Range(s)
  <2>1. PICK i \in 1 .. (Len(s) - 1) : y = Tail(s)[i]
    BY <1>4
  <2>2. i + 1 \in 1 .. Len(s)
    BY <1>1, <2>1
  <2> QED BY <1>3, <1>4, <2>1, <2>2
<1>7. Head(s) \in Range(s)
  BY <1>1, <1>2, <1>3, <1>4
<1> QED BY <1>1, <1>2, <1>3, <1>5, <1>6, <1>7

LEMMA EmptyRange == Range(<<>>) = {}
BY DEF Range

\* The two halves of the type invariant: the queue with the worker's batch, and the
\* rest.  The pool has its last producer when it leaves "starting".
QueueTypes ==
    /\ queue \in Seq(Items) /\ Len(queue) <= QueueMax
    /\ held \in Seq(Items) /\ toSend \subseteq Range(held)

RestTypes ==
    /\ lifecycle \in {"starting", "up", "stopping", "stopped"}
    /\ producers \in 0 .. PoolSize
    /\ lifecycle = "starting" => producers < PoolSize
    /\ pc \in [Callers -> {"idle", "sending", "awaiting", "gathering", "putting",
                           "getting", "flushing", "done"}]
    /\ payload \in [Callers -> SUBSET Events]
    /\ returned \in [Callers -> {"none", "True", "False", "0", "queued"}]
    /\ future \in [Events -> {"none", "pending", "ok", "error", "raised"}]
    /\ written \subseteq Events
    /\ dropped \subseteq Events

TypeInv == QueueTypes /\ RestTypes /\ BreakerInv

LEMMA RangeIsIn ==
    ASSUME NEW S, NEW s \in Seq(S)
    PROVE  Range(s) \subseteq S
BY RangeEquality, ElementOfSeq

LEMMA HeldEvents ==
    ASSUME QueueTypes, NEW items \in SUBSET toSend
    PROVE  items \subseteq Items /\ EventsOf(items) \subseteq Events
<1>1. Range(held) \subseteq Items
  BY RangeIsIn DEF QueueTypes
<1> QED BY <1>1 DEF QueueTypes, EventsOf, Items

\* The queue holds QueueMax items at most, and what the worker has yet to send is in
\* its batch.
LEMMA QueueTypesKept ==
    ASSUME TypeInv, [PoolNext]_poolVars
    PROVE  QueueTypes'
<1> USE DEF TypeInv, QueueTypes, workerVars
<1>0. /\ PoolSize \in Nat \ {0} /\ BatchSize \in Nat \ {0} /\ QueueMax \in Nat \ {0}
      /\ Worker \notin Requests /\ Len(queue) \in Nat /\ <<>> \in Seq(Items)
  BY PoolAssumption, LenProperties, EmptySeq
<1>s. UNCHANGED workerVars => QueueTypes'
  OBVIOUS
<1>1. CASE StartStop
  <2>1. CASE StopWorker
    BY <1>0, <2>1, EmptyRange DEF StopWorker
  <2> QED
    BY <1>1, <1>s, <2>1 DEF StartStop, StartProducer, StartFails, StopProducers
<1>2. CASE Elapse
  BY <1>2, <1>s DEF Elapse
<1>3. CASE \E r \in Requests : Sends(r)
  BY <1>3, <1>s DEF Sends, SendEvent, SendBatch, SendTaken, SendRaises, SendReturns,
                    GatherItem, BatchReturns
<1>4. ASSUME NEW r \in Requests, PutWakes(r) \/ \E e \in Events : PutEvent(r, e)
      PROVE  QueueTypes'
  <2>1. ASSUME NEW t \in Topics, NEW e \in Events, Len(queue) < QueueMax,
               queue' = Append(queue, [topic |-> t, event |-> e]),
               UNCHANGED <<held, toSend>>
        PROVE  QueueTypes'
    <3> DEFINE x == [topic |-> t, event |-> e]
    <3>1. x \in Items
      BY DEF Items
    <3> HIDE DEF x
    <3>2. Append(queue, x) \in Seq(Items) /\ Len(Append(queue, x)) = Len(queue) + 1
      BY <3>1, AppendProperties
    <3>3. queue' = Append(queue, x)
      BY <2>1 DEF x
    <3>4. Len(queue') <= QueueMax
      BY <1>0, <2>1, <3>2, <3>3
    <3> QED BY <2>1, <3>2, <3>3, <3>4
  <2>2. r \in Callers /\ payload[r] \subseteq Events
    BY DEF RestTypes, Callers
  <2>3. ~QueueFull => Len(queue) < QueueMax
    BY <1>0 DEF QueueFull
  <2>4. CASE PutWakes(r)
    BY <2>1, <2>2, <2>3, <2>4 DEF PutWakes
  <2>5. ASSUME NEW e \in Events, PutEvent(r, e) PROVE QueueTypes'
    <3>1. CASE ~QueueFull
      BY <2>1, <2>3, <2>5, <3>1 DEF PutEvent
    <3>2. CASE QueueFull
      <4>1. UNCHANGED workerVars
        BY <2>5, <3>2 DEF PutEvent
      <4> QED BY <4>1, <1>s
    <3> QED BY <3>1, <3>2
  <2> QED BY <1>4, <2>4, <2>5
<1>5. CASE WorkerStep
  <2>1. CASE WorkerGets
    <3>1. /\ queue # <<>> /\ queue' = Tail(queue) /\ held' = Append(held, Head(queue))
          /\ toSend' = Range(held') \/ toSend' = toSend
      BY <2>1 DEF WorkerGets
    <3>2. /\ Tail(queue) \in Seq(Items) /\ Head(queue) \in Items
          /\ Len(Tail(queue)) = Len(queue) - 1
      BY <3>1, RangeOfTail
    <3>3. Append(held, Head(queue)) \in Seq(Items)
          /\ Range(Append(held, Head(queue))) = Range(held) \cup {Head(queue)}
      BY <3>2, RangeOfAppend
    <3>4. queue' \in Seq(Items) /\ Len(queue') <= QueueMax
      BY <1>0, <3>1, <3>2
    <3> QED BY <3>1, <3>3, <3>4
  <2>2. CASE WorkerTimesOut
    BY <2>2 DEF WorkerTimesOut
  <2>3. ASSUME NEW items, AfterTopic(items), UNCHANGED queue PROVE QueueTypes'
    BY <1>0, <2>3, EmptyRange DEF AfterTopic
  <2>4. CASE \E t \in Topics : WorkerSends(t)
    BY <2>4, <2>3 DEF WorkerSends
  <2>5. CASE \E e \in Events : GatherItem(Worker, e)
    BY <2>5, <1>s DEF GatherItem
  <2>6. CASE WorkerGathered
    BY <2>6, <2>3 DEF WorkerGathered
  <2> QED BY <1>5, <2>1, <2>2, <2>4, <2>5, <2>6 DEF WorkerStep
<1>6. CASE Kafka
  BY <1>6, <1>s DEF Kafka, Acknowledge, DeliveryFails
<1>7. CASE UNCHANGED poolVars
  BY <1>7, <1>s DEF poolVars
<1> QED
  BY <1>1, <1>2, <1>3, <1>4, <1>5, <1>6, <1>7 DEF PoolNext

LEMMA RestTypesKept ==
    ASSUME TypeInv, [PoolNext]_poolVars
    PROVE  RestTypes'
<1> USE DEF TypeInv, RestTypes, Callers, callVars
<1>0. PoolSize \in Nat \ {0}
  BY PoolAssumption
<1>1. CASE StartStop
  <2>1. CASE StartProducer
    BY <1>0, <2>1 DEF StartProducer
  <2>2. CASE StartFails \/ StopProducers
    BY <1>0, <2>2 DEF StartFails, StopProducers
  <2>3. CASE StopWorker
    <3>1. InHand \subseteq Events
      <4>1. Range(held) \subseteq Items
        BY RangeIsIn DEF QueueTypes
      <4>2. EventsOf(Range(held)) \subseteq Events /\ EventsOf(toSend) \subseteq Events
        BY <4>1, HeldEvents DEF EventsOf, Items
      <4> QED BY <4>2 DEF InHand
    <3> QED
      BY <2>3, <3>1 DEF StopWorker
  <2> QED BY <1>1, <2>1, <2>2, <2>3 DEF StartStop
<1>2. CASE Elapse
  BY <1>2 DEF Elapse
<1>3. ASSUME NEW r \in Requests, Sends(r) PROVE RestTypes'
  <2> USE DEF Return
  <2>1. ASSUME NEW e \in Events, SendEvent(r, e) PROVE RestTypes'
    BY <2>1 DEF SendEvent
  <2>2. ASSUME NEW events \in SUBSET Events, SendBatch(r, events) PROVE RestTypes'
    BY <2>2 DEF SendBatch
  <2>3. CASE SendTaken(r)
    BY <2>3 DEF SendTaken
  <2>4. CASE SendRaises(r)
    BY <2>4 DEF SendRaises
  <2>5. CASE SendReturns(r)
    BY <2>5 DEF SendReturns
  <2>6. ASSUME NEW e \in Events, GatherItem(r, e) PROVE RestTypes'
    BY <2>6 DEF GatherItem
  <2>7. CASE BatchReturns(r)
    BY <2>7 DEF BatchReturns, Gathered, SuccessfulSends
  <2> QED
    BY <1>3, <2>1, <2>2, <2>3, <2>4, <2>5, <2>6, <2>7 DEF Sends
<1>4. ASSUME NEW r \in Requests, PutWakes(r) \/ \E e \in Events : PutEvent(r, e)
      PROVE  RestTypes'
  <2> USE DEF Return
  <2>1. CASE PutWakes(r)
    BY <2>1 DEF PutWakes
  <2>2. ASSUME NEW e \in Events, PutEvent(r, e) PROVE RestTypes'
    <3> DEFINE accepted == pc' = [pc EXCEPT ![r] = "done"]
                           /\ returned' = [returned EXCEPT ![r] = "queued"]
               waiting == pc' = [pc EXCEPT ![r] = "putting"] /\ returned' = returned
    <3>1. /\ payload' = [payload EXCEPT ![r] = {e}]
          /\ accepted \/ waiting
          /\ UNCHANGED <<lifecycle, producers, future, written, dropped>>
      BY <2>2 DEF PutEvent
    <3> QED
      BY <3>1
  <2> QED
    BY <1>4, <2>1, <2>2
<1>5. CASE WorkerStep
  <2>1. CASE WorkerGets \/ WorkerTimesOut
    BY <2>1 DEF WorkerGets, WorkerTimesOut
  <2>2. ASSUME NEW t \in Topics, WorkerSends(t) PROVE RestTypes'
    <3> DEFINE items == {i \in toSend : i.topic = t}
    <3>1. EventsOf(items) \subseteq Events
      BY HeldEvents
    <3> HIDE DEF items
    <3>2. /\ \/ AfterTopic(items) /\ dropped' = dropped \cup EventsOf(items)
                /\ payload' = payload
             \/ /\ pc' = [pc EXCEPT ![Worker] = "gathering"]
                /\ payload' = [payload EXCEPT ![Worker] = EventsOf(items)]
                /\ dropped' = dropped
          /\ UNCHANGED <<lifecycle, producers, returned, future, written>>
      BY <2>2 DEF WorkerSends, items
    <3> QED BY <3>1, <3>2 DEF AfterTopic
  <2>3. ASSUME NEW e \in Events, GatherItem(Worker, e) PROVE RestTypes'
    BY <2>3 DEF GatherItem
  <2>4. CASE WorkerGathered
    BY <2>4 DEF WorkerGathered, AfterTopic
  <2> QED
    BY <1>5, <2>1, <2>2, <2>3, <2>4 DEF WorkerStep
<1>6. CASE Kafka
  BY <1>6 DEF Kafka, Acknowledge, DeliveryFails
<1>7. CASE UNCHANGED poolVars
  BY <1>7 DEF poolVars
<1> QED
  BY <1>1, <1>2, <1>3, <1>4, <1>5, <1>6, <1>7 DEF PoolNext

LEMMA TypesStart == PoolInit => TypeInv
<1>1. PoolInit => QueueTypes
  BY PoolAssumption, EmptyRange, EmptySeq DEF PoolInit, QueueTypes
<1>2. PoolInit => RestTypes
  BY PoolAssumption DEF PoolInit, RestTypes, Callers
<1> QED BY <1>1, <1>2, BreakerStarts DEF TypeInv

LEMMA TypesKept == TypeInv /\ [PoolNext]_poolVars => TypeInv'
BY QueueTypesKept, RestTypesKept, BreakerKept DEF TypeInv

LEMMA TypesImply == TypeInv => PoolTypeOK
BY Zenon DEF TypeInv, QueueTypes, RestTypes, BreakerInv, BreakerTypes, PoolTypeOK

\* Every variable keeps its type: in particular the queue never exceeds its maxsize,
\* however many calls of put() wait for room, and the list of producers never grows
\* past pool_size.
THEOREM PoolTypeCorrect == PoolSpec => []PoolTypeOK
<1> QED
  BY TypesImply, TypesStart, TypesKept, PTL DEF PoolSpec

------------------------------------------------------------------------------
(* One place at a time *)

Distinct(s) == \A i, j \in 1 .. Len(s) : s[i].event = s[j].event => i = j

LEMMA DistinctItems ==
    ASSUME NEW s \in Seq(Items), Distinct(s),
           NEW x \in Range(s), NEW y \in Range(s), x.event = y.event
    PROVE  x = y
BY RangeEquality DEF Distinct

LEMMA DistinctAppend ==
    ASSUME NEW s \in Seq(Items), Distinct(s), NEW x \in Items,
           x.event \notin EventsOf(Range(s))
    PROVE  Distinct(Append(s, x))
<1>1. /\ Len(s) \in Nat /\ Len(Append(s, x)) = Len(s) + 1
      /\ \A i \in 1 .. Len(s) : Append(s, x)[i] = s[i]
      /\ Append(s, x)[Len(s) + 1] = x
  BY AppendProperties, LenProperties
<1>2. \A i \in 1 .. Len(s) : s[i].event # x.event
  BY RangeEquality DEF EventsOf
<1>3. \A i \in 1 .. (Len(s) + 1) : i \in 1 .. Len(s) \/ i = Len(s) + 1
  BY <1>1
<1> QED BY <1>1, <1>2, <1>3 DEF Distinct

LEMMA DistinctTail ==
    ASSUME NEW s \in Seq(Items), Distinct(s), s # <<>>
    PROVE  Distinct(Tail(s)) /\ Head(s).event \notin EventsOf(Range(Tail(s)))
<1>1. /\ Tail(s) \in Seq(Items) /\ Len(s) \in Nat /\ Len(s) >= 1
      /\ Len(Tail(s)) = Len(s) - 1
      /\ \A i \in 1 .. (Len(s) - 1) : Tail(s)[i] = s[i + 1]
  BY RangeOfTail, LenProperties
<1>2. Head(s) = s[1]
  BY HeadTailProperties, <1>1
<1>3. \A i \in 1 .. (Len(s) - 1) : i + 1 \in 1 .. Len(s) /\ i + 1 # 1
  BY <1>1
<1>4. Distinct(Tail(s))
  BY <1>1, <1>3 DEF Distinct
<1>5. \A i \in 1 .. (Len(s) - 1) : Tail(s)[i].event # Head(s).event
  BY <1>1, <1>2, <1>3 DEF Distinct
<1>6. Range(Tail(s)) = {Tail(s)[i] : i \in 1 .. (Len(s) - 1)}
  BY <1>1, RangeEquality
<1> QED BY <1>4, <1>5, <1>6 DEF EventsOf

LEMMA DistinctCardinality ==
    ASSUME NEW s \in Seq(Items), Distinct(s)
    PROVE  Cardinality(Range(s)) = Len(s)
<1>1. Len(s) \in Nat /\ s \in [1 .. Len(s) -> Items] /\ DOMAIN s = 1 .. Len(s)
  BY LenProperties
<1>2. s \in Bijection(1 .. Len(s), Range(s))
  <2>1. \A i, j \in 1 .. Len(s) : s[i] = s[j] => i = j
    BY DEF Distinct
  <2>2. s \in [1 .. Len(s) -> Range(s)]
    BY <1>1, RangeEquality
  <2> QED
    BY <2>1, <2>2, RangeEquality DEF Bijection, Injection, Surjection, IsInjective
<1>3. IsFiniteSet(1 .. Len(s)) /\ Cardinality(1 .. Len(s)) = Len(s)
  BY <1>1, FS_Interval
<1> QED
  BY <1>2, <1>3, FS_Bijection DEF ExistsBijection

\* Where an event may be.
Queued == EventsOf(Range(queue))
Taken == EventsOf(Range(held))
Batch == IF pc[Worker] = "getting" THEN Taken ELSE EventsOf(toSend)
Sent == {e \in Events : future[e] # "none"}
Accepted == {e \in Events : \E r \in Requests : returned[r] = "queued" /\ e \in payload[r]}

\* An event belongs to one call; only a call that has begun has sent anything.
Owned ==
    /\ \A r1, r2 \in Requests : r1 # r2 => payload[r1] \cap payload[r2] = {}
    /\ \A r \in Requests :
        /\ pc[r] = "idle" => payload[r] = {}
        /\ pc[r] = "putting" => \E e \in Events : payload[r] = {e}
        /\ returned[r] # "none" => pc[r] = "done"
    /\ \A e \in Sent : \E r \in Requests : e \in payload[r] /\ pc[r] \notin {"idle", "putting"}
    /\ Queued \cup Taken \cup dropped \subseteq Accepted

\* The worker's hand is empty when its task is not there.
Tidy ==
    /\ lifecycle = "starting" => pc[Worker] = "idle"
    /\ pc[Worker] # "gathering" => payload[Worker] = {}
    /\ pc[Worker] \notin {"getting", "flushing", "gathering"} => held = <<>>
    /\ Distinct(queue) /\ Distinct(held)

OnePlace ==
    /\ Queued \cap (Taken \cup Sent \cup dropped) = {}
    /\ payload[Worker] \subseteq EventsOf(toSend)
    /\ (Batch \ payload[Worker]) \cap (Sent \cup dropped) = {}
    /\ Accepted \subseteq Queued \cup Batch \cup Sent \cup dropped

OnceInv == Owned /\ Tidy /\ OnePlace

LEMMA BatchIsTaken ==
    ASSUME QueueTypes
    PROVE  EventsOf(toSend) \subseteq Taken /\ Batch \subseteq Taken
BY DEF QueueTypes, EventsOf, Taken, Batch

\* What the places make of QueuedOnce.
LEMMA OnceImplies ==
    ASSUME TypeInv, OnceInv
    PROVE  QueuedOnce
<1> USE DEF TypeInv
<1>1. Cardinality(Range(queue)) = Len(queue) /\ Cardinality(Range(held)) = Len(held)
  BY DistinctCardinality DEF QueueTypes, OnceInv, Tidy
<1>2. ASSUME NEW r \in Requests, returned[r] = "queued", NEW e \in payload[r]
      PROVE  Cardinality({p \in 1 .. 4 :
                        \/ p = 1 /\ e \in EventsOf(Range(queue))
                        \/ p = 2 /\ e \in InHand
                        \/ p = 3 /\ e \in payload[Worker]
                        \/ p = 4 /\ e \in ({f \in Events : future[f] # "none"} \cup dropped)
                                          \ payload[Worker]}) = 1
  <2> DEFINE P == {p \in 1 .. 4 :
                        \/ p = 1 /\ e \in EventsOf(Range(queue))
                        \/ p = 2 /\ e \in InHand
                        \/ p = 3 /\ e \in payload[Worker]
                        \/ p = 4 /\ e \in ({f \in Events : future[f] # "none"} \cup dropped)
                                          \ payload[Worker]}
             hand == Batch \ payload[Worker]
             away == (Sent \cup dropped) \ payload[Worker]
  <2>1. e \in Accepted
    BY <1>2 DEF Accepted, RestTypes, Callers
  <2>2. InHand = hand
    BY DEF InHand, Batch, Taken, EventsOf
  <2>3. P = {p \in 1 .. 4 : \/ p = 1 /\ e \in Queued
                            \/ p = 2 /\ e \in hand
                            \/ p = 3 /\ e \in payload[Worker]
                            \/ p = 4 /\ e \in away}
    BY <2>2 DEF Queued, Sent
  <2>4. e \in Queued => e \notin hand /\ e \notin payload[Worker] /\ e \notin away
    BY BatchIsTaken DEF OnceInv, OnePlace
  <2>5. e \in hand => e \notin payload[Worker] /\ e \notin away
    BY DEF OnceInv, OnePlace
  <2>6. e \in Queued \/ e \in hand \/ e \in payload[Worker] \/ e \in away
    BY <2>1 DEF OnceInv, OnePlace
  <2> HIDE DEF P, hand, away
  <2>7. P = {1} \/ P = {2} \/ P = {3} \/ P = {4}
    <3>1. e \in away => e \notin payload[Worker]
      BY DEF away
    <3>2. CASE e \in Queued
      BY <2>3, <2>4, <3>2
    <3>3. CASE e \in hand
      BY <2>3, <2>4, <2>5, <3>3
    <3>4. CASE e \in payload[Worker]
      BY <2>3, <2>4, <2>5, <3>1, <3>4
    <3>5. CASE e \in away
      BY <2>3, <2>4, <2>5, <3>1, <3>5
    <3> QED BY <2>6, <3>2, <3>3, <3>4, <3>5
  <2>8. Cardinality(P) = 1
    BY <2>7, FS_Singleton
  <2> QED BY <2>8 DEF P
<1> QED
  BY <1>1, <1>2 DEF QueuedOnce

\* What a call of send_event or send_batch does: it touches its own events only, and
\* those are in no place of the queue's.
DirectCall(r) ==
    /\ UNCHANGED <<lifecycle, workerVars, dropped>>
    /\ \A c \in Callers \ {r} :
        pc'[c] = pc[c] /\ payload'[c] = payload[c] /\ returned'[c] = returned[c]
    /\ pc[r] \notin {"done", "putting"} /\ pc'[r] \notin {"idle", "putting"}
    /\ returned'[r] # "queued" /\ (returned'[r] # "none" => pc'[r] = "done")
    /\ \/ payload'[r] = payload[r]
       \/ pc[r] = "idle" /\ payload'[r] \subseteq Events /\ \A e \in payload'[r] : Fresh(e)
    /\ \A e \in Events : future'[e] # future[e] => e \in payload'[r]

LEMMA SendsAreDirect ==
    ASSUME TypeInv, OnceInv, NEW r \in Requests, Sends(r)
    PROVE  DirectCall(r)
<1> USE DEF TypeInv, RestTypes, OnceInv, Owned, DirectCall, Callers, workerVars, callVars
<1>1. ASSUME NEW e \in Events, SendEvent(r, e) PROVE DirectCall(r)
  BY <1>1 DEF SendEvent, Return
<1>2. ASSUME NEW events \in SUBSET Events, SendBatch(r, events) PROVE DirectCall(r)
  BY <1>2 DEF SendBatch, Return
<1>3. CASE SendTaken(r)
  BY <1>3 DEF SendTaken
<1>4. CASE SendRaises(r)
  BY <1>4 DEF SendRaises, Return
<1>5. CASE SendReturns(r)
  BY <1>5 DEF SendReturns, Return
<1>6. ASSUME NEW e \in Events, GatherItem(r, e) PROVE DirectCall(r)
  BY <1>6 DEF GatherItem
<1>7. CASE BatchReturns(r)
  BY <1>7 DEF BatchReturns, Gathered, SuccessfulSends, Return
<1> QED
  BY <1>1, <1>2, <1>3, <1>4, <1>5, <1>6, <1>7 DEF Sends

LEMMA DirectKeepsOnce ==
    ASSUME TypeInv, OnceInv, NEW r \in Requests, DirectCall(r)
    PROVE  OnceInv'
<1>0. Worker \in Callers /\ r # Worker /\ r \in Callers /\ Requests \subseteq Callers
  BY PoolAssumption DEF Callers
<1>1. /\ Queued' = Queued /\ Taken' = Taken /\ Batch' = Batch /\ dropped' = dropped
      /\ EventsOf(toSend)' = EventsOf(toSend)
      /\ payload'[Worker] = payload[Worker] /\ pc'[Worker] = pc[Worker]
  BY <1>0 DEF DirectCall, workerVars, Queued, Taken, Batch, EventsOf
<1>2. \A s \in Requests : s # r => pc'[s] = pc[s] /\ payload'[s] = payload[s]
                                   /\ returned'[s] = returned[s]
  BY <1>0 DEF DirectCall
<1>3. returned[r] # "queued" /\ returned'[r] # "queued"
  BY DEF DirectCall, OnceInv, Owned
<1>4. Accepted' = Accepted
  BY <1>2, <1>3 DEF Accepted
<1>5. \A e \in payload'[r] : \A s \in Requests : s # r => e \notin payload[s]
  BY <1>0 DEF DirectCall, Fresh, OnceInv, Owned
<1>6. payload'[r] \cap Accepted = {}
  BY <1>3, <1>5 DEF Accepted
<1>7. Sent' \subseteq Sent \cup payload'[r] /\ Sent \subseteq Sent' \cup payload'[r]
  BY DEF Sent, DirectCall
<1>8. Owned'
  <2>1. \A s \in Requests : pc'[s] = "idle" => payload'[s] = {}
    BY <1>2 DEF DirectCall, OnceInv, Owned
  <2>2. \A s \in Requests : pc'[s] = "putting" => \E e \in Events : payload'[s] = {e}
    BY <1>2 DEF DirectCall, OnceInv, Owned
  <2>3. \A s \in Requests : returned'[s] # "none" => pc'[s] = "done"
    BY <1>2 DEF DirectCall, OnceInv, Owned
  <2>4. \A r1, r2 \in Requests : r1 # r2 => payload'[r1] \cap payload'[r2] = {}
    BY <1>2, <1>5 DEF OnceInv, Owned
  <2>5. ASSUME NEW e \in Sent'
        PROVE  \E s \in Requests : e \in payload'[s] /\ pc'[s] \notin {"idle", "putting"}
    <3>1. CASE e \in payload'[r]
      BY <3>1 DEF DirectCall
    <3>2. CASE e \notin payload'[r]
      <4>1. e \in Sent
        BY <1>7, <2>5, <3>2
      <4>2. PICK s \in Requests : e \in payload[s] /\ pc[s] \notin {"idle", "putting"}
        BY <4>1 DEF OnceInv, Owned
      <4>3. s # r
        BY <3>2, <4>2 DEF DirectCall
      <4> QED BY <1>2, <4>2, <4>3
    <3> QED BY <3>1, <3>2
  <2>6. (Queued \cup Taken \cup dropped)' \subseteq Accepted'
    BY <1>1, <1>4 DEF OnceInv, Owned
  <2> QED BY <2>1, <2>2, <2>3, <2>4, <2>5, <2>6 DEF Owned
<1>9. Tidy'
  BY <1>1 DEF Tidy, OnceInv, DirectCall, workerVars, Distinct
<1>10. OnePlace'
  <2>1. \A e \in Accepted : e \in Sent' <=> e \in Sent
    BY <1>6, <1>7
  <2>2. Batch \subseteq Taken /\ Queued \cup Taken \subseteq Accepted
    BY BatchIsTaken DEF TypeInv, OnceInv, Owned
  <2> QED
    BY <1>1, <1>4, <2>1, <2>2 DEF OnePlace, OnceInv
<1> QED BY <1>8, <1>9, <1>10 DEF OnceInv

\* put() at a full queue: the task waits with its event.
LEMMA WaitKeepsOnce ==
    ASSUME TypeInv, OnceInv, NEW r \in Requests, NEW e \in Events, pc[r] = "idle", Fresh(e),
           payload' = [payload EXCEPT ![r] = {e}], pc' = [pc EXCEPT ![r] = "putting"],
           UNCHANGED <<lifecycle, workerVars, returned, future, dropped>>
    PROVE  OnceInv'
<1>0. Worker \in Callers /\ r # Worker /\ r \in Callers /\ Requests \subseteq Callers
  BY PoolAssumption DEF Callers
<1>1. /\ Queued' = Queued /\ Taken' = Taken /\ Batch' = Batch /\ dropped' = dropped
      /\ EventsOf(toSend)' = EventsOf(toSend) /\ Sent' = Sent
      /\ payload'[Worker] = payload[Worker] /\ pc'[Worker] = pc[Worker]
  BY <1>0 DEF TypeInv, RestTypes, workerVars, Queued, Taken, Batch, EventsOf, Sent
<1>2. payload'[r] = {e} /\ pc'[r] = "putting"
      /\ \A s \in Requests : s # r => pc'[s] = pc[s] /\ payload'[s] = payload[s]
  BY <1>0 DEF TypeInv, RestTypes
<1>3. returned[r] = "none"
  BY DEF OnceInv, Owned
<1>4. Accepted' = Accepted
  BY <1>2, <1>3 DEF Accepted
<1>5. \A s \in Requests : s # r => e \notin payload[s]
  BY <1>0 DEF Fresh
<1>6. Owned'
  BY <1>1, <1>2, <1>3, <1>4, <1>5 DEF Owned, OnceInv
<1> QED
  BY <1>1, <1>4, <1>6 DEF OnceInv, Tidy, OnePlace, workerVars, Distinct

\* put() with room: the event goes to the queue's end, and to no other place.
LEMMA PutKeepsOnce ==
    ASSUME TypeInv, OnceInv, NEW r \in Requests, NEW e \in Events, NEW t \in Topics,
           \/ pc[r] = "idle" /\ Fresh(e)
           \/ pc[r] = "putting" /\ payload[r] = {e},
           payload' = [payload EXCEPT ![r] = {e}], pc' = [pc EXCEPT ![r] = "done"],
           returned' = [returned EXCEPT ![r] = "queued"],
           queue' = Append(queue, [topic |-> t, event |-> e]),
           UNCHANGED <<lifecycle, held, toSend, future, dropped>>
    PROVE  OnceInv'
<1>0. Worker \in Callers /\ r # Worker /\ r \in Callers /\ Requests \subseteq Callers
  BY PoolAssumption DEF Callers
<1> DEFINE x == [topic |-> t, event |-> e]
<1>a. x \in Items /\ x.event = e
  BY DEF Items
<1> HIDE DEF x
<1>b. queue' = Append(queue, x)
  BY DEF x
<1>c. Range(queue') = Range(queue) \cup {x}
  BY <1>a, <1>b, RangeOfAppend DEF TypeInv, QueueTypes
<1>1. /\ Queued' = Queued \cup {e} /\ Taken' = Taken /\ Batch' = Batch /\ dropped' = dropped
      /\ EventsOf(toSend)' = EventsOf(toSend) /\ Sent' = Sent
      /\ payload'[Worker] = payload[Worker] /\ pc'[Worker] = pc[Worker]
  BY <1>0, <1>a, <1>c DEF TypeInv, RestTypes, Queued, Taken, Batch, EventsOf, Sent
<1>2. /\ payload'[r] = {e} /\ pc'[r] = "done" /\ returned'[r] = "queued"
      /\ \A s \in Requests : s # r => pc'[s] = pc[s] /\ payload'[s] = payload[s]
                                      /\ returned'[s] = returned[s]
  BY <1>0 DEF TypeInv, RestTypes
<1>3. returned[r] = "none"
  BY DEF OnceInv, Owned
<1>4. Accepted' = Accepted \cup {e}
  BY <1>2, <1>3 DEF Accepted
<1>5. \A s \in Requests : s # r => e \notin payload[s]
  BY <1>0 DEF Fresh, OnceInv, Owned
<1>6. e \notin Accepted /\ e \notin Sent
  BY <1>3, <1>5, <1>0 DEF Accepted, OnceInv, Owned, Fresh
<1>7. e \notin Queued /\ e \notin Taken /\ e \notin dropped
  BY <1>6 DEF OnceInv, Owned
<1>8. Owned'
  BY <1>1, <1>2, <1>3, <1>4, <1>5 DEF Owned, OnceInv
<1>9. Tidy'
  <2>1. Distinct(queue')
    BY <1>a, <1>b, <1>7, DistinctAppend DEF TypeInv, QueueTypes, OnceInv, Tidy, Queued
  <2> QED BY <1>1, <2>1 DEF OnceInv, Tidy, Distinct
<1>10. OnePlace'
  BY <1>1, <1>4, <1>6, <1>7, BatchIsTaken DEF TypeInv, OnceInv, OnePlace
<1> QED BY <1>8, <1>9, <1>10 DEF OnceInv

\* The worker leaves the calls alone, and moves accepted events only.
WorkersOwn ==
    /\ \A r \in Requests :
        pc'[r] = pc[r] /\ payload'[r] = payload[r] /\ returned'[r] = returned[r]
    /\ Sent' \subseteq Sent \cup Accepted
    /\ (Queued \cup Taken \cup dropped)' \subseteq Accepted

LEMMA WorkersKeepOwned ==
    ASSUME TypeInv, OnceInv, WorkersOwn
    PROVE  Owned' /\ Accepted' = Accepted
<1>1. Accepted' = Accepted
  BY DEF WorkersOwn, Accepted
<1>2. ASSUME NEW e \in Sent'
      PROVE  \E r \in Requests : e \in payload'[r] /\ pc'[r] \notin {"idle", "putting"}
  <2>1. CASE e \in Sent
    BY <2>1 DEF WorkersOwn, OnceInv, Owned
  <2>2. CASE e \in Accepted
    BY <2>2 DEF WorkersOwn, OnceInv, Owned, Accepted
  <2> QED BY <1>2, <2>1, <2>2 DEF WorkersOwn
<1> QED BY <1>1, <1>2 DEF WorkersOwn, OnceInv, Owned

LEMMA GetKeepsOnce ==
    ASSUME TypeInv, OnceInv, WorkerGets
    PROVE  OnceInv'
<1>0. Worker \in Callers /\ Worker \notin Requests /\ Requests \subseteq Callers
  BY PoolAssumption DEF Callers
<1> DEFINE x == Head(queue)
<1>1. /\ queue # <<>> /\ queue' = Tail(queue) /\ held' = Append(held, x)
      /\ pc[Worker] = "getting"
      /\ \/ pc' = [pc EXCEPT ![Worker] = "flushing"] /\ toSend' = Range(held')
         \/ UNCHANGED <<pc, toSend>>
      /\ UNCHANGED <<lifecycle, payload, returned, future, dropped>>
  BY DEF WorkerGets
<1>2. /\ x \in Items /\ Range(queue) = Range(Tail(queue)) \cup {x}
      /\ x.event \notin EventsOf(Range(Tail(queue)))
      /\ Distinct(Tail(queue))
  BY <1>1, RangeOfTail, DistinctTail DEF TypeInv, QueueTypes, OnceInv, Tidy
<1> HIDE DEF x
<1>3. /\ Queued = Queued' \cup {x.event} /\ x.event \notin Queued'
  BY <1>1, <1>2 DEF Queued, EventsOf
<1>4. x.event \in Accepted /\ x.event \notin Taken /\ x.event \notin Sent
      /\ x.event \notin dropped
  BY <1>3 DEF OnceInv, Owned, OnePlace
<1>5. Range(held') = Range(held) \cup {x}
  BY <1>1, <1>2, RangeOfAppend DEF TypeInv, QueueTypes
<1>6. Taken' = Taken \cup {x.event}
  BY <1>5 DEF Taken, EventsOf
<1>7. pc'[Worker] \in {"getting", "flushing"}
      /\ (pc'[Worker] = "flushing" => toSend' = Range(held'))
  BY <1>0, <1>1 DEF TypeInv, RestTypes
<1>8. Batch = Taken /\ Batch' = Taken'
  BY <1>1, <1>7 DEF Batch, Taken
<1>9. payload[Worker] = {} /\ payload'[Worker] = {} /\ Sent' = Sent /\ dropped' = dropped
  BY <1>1 DEF OnceInv, Tidy, Sent
<1>10. WorkersOwn
  <2>1. (Queued \cup Taken \cup dropped)' \subseteq Accepted
    BY <1>3, <1>4, <1>6, <1>9 DEF OnceInv, Owned
  <2> QED BY <1>0, <1>1, <1>9, <2>1 DEF WorkersOwn, TypeInv, RestTypes
<1>11. Owned' /\ Accepted' = Accepted
  BY <1>10, WorkersKeepOwned
<1>12. Distinct(held')
  BY <1>1, <1>2, <1>4, DistinctAppend DEF TypeInv, QueueTypes, OnceInv, Tidy, Taken
<1>13. Tidy'
  <2>1. lifecycle' # "starting"
    BY <1>1 DEF OnceInv, Tidy
  <2> QED BY <1>1, <1>2, <1>7, <1>9, <1>12, <2>1 DEF Tidy
<1>14. OnePlace'
  <2>1. Queued' \cap (Taken \cup Sent \cup dropped)' = {}
    BY <1>3, <1>6, <1>9 DEF OnceInv, OnePlace
  <2>2. Batch' \cap (Sent \cup dropped) = {}
    BY <1>4, <1>6, <1>8, <1>9 DEF OnceInv, OnePlace
  <2>3. Accepted \subseteq Queued' \cup Batch' \cup Sent \cup dropped
    BY <1>3, <1>6, <1>8 DEF OnceInv, OnePlace
  <2> QED BY <1>9, <1>11, <2>1, <2>2, <2>3 DEF OnePlace
<1> QED BY <1>11, <1>13, <1>14 DEF OnceInv

LEMMA TimeOutKeepsOnce ==
    ASSUME TypeInv, OnceInv, WorkerTimesOut
    PROVE  OnceInv'
<1>0. Worker \in Callers /\ Worker \notin Requests /\ Requests \subseteq Callers
  BY PoolAssumption DEF Callers
<1>1. /\ pc[Worker] = "getting" /\ toSend' = Range(held)
      /\ pc' = [pc EXCEPT ![Worker] = "flushing"] /\ pc'[Worker] = "flushing"
      /\ UNCHANGED <<lifecycle, queue, held, payload, returned, future, dropped>>
  BY <1>0 DEF WorkerTimesOut, TypeInv, RestTypes
<1>2. /\ Queued' = Queued /\ Taken' = Taken /\ Sent' = Sent /\ Batch = Taken
      /\ Batch' = Taken /\ payload[Worker] = {}
  BY <1>1 DEF Queued, Taken, Sent, Batch, EventsOf, OnceInv, Tidy
<1>3. WorkersOwn
  BY <1>0, <1>1, <1>2 DEF WorkersOwn, TypeInv, RestTypes, OnceInv, Owned
<1>4. Owned' /\ Accepted' = Accepted
  BY <1>3, WorkersKeepOwned
<1>5. Tidy'
  BY <1>1, <1>2 DEF OnceInv, Tidy, Distinct
<1>6. OnePlace'
  BY <1>1, <1>2, <1>4 DEF OnceInv, OnePlace
<1> QED BY <1>4, <1>5, <1>6 DEF OnceInv

\* The rest of the batch, after one topic's items.
LEMMA AfterTopicLeaves ==
    ASSUME TypeInv, OnceInv, NEW items \in SUBSET toSend, AfterTopic(items),
           pc[Worker] \in {"flushing", "gathering"}
    PROVE  /\ Batch = EventsOf(toSend) /\ Batch' = Batch \ EventsOf(items)
           /\ Taken' \subseteq Taken /\ Distinct(held')
           /\ pc'[Worker] \in {"getting", "flushing"}
           /\ \A r \in Requests : pc'[r] = pc[r]
<1>0. Worker \in Callers /\ Worker \notin Requests /\ Requests \subseteq Callers
  BY PoolAssumption DEF Callers
<1>1. EventsOf(toSend \ items) = EventsOf(toSend) \ EventsOf(items)
  <2>1. \A i, j \in toSend : i.event = j.event => i = j
    BY DistinctItems DEF TypeInv, QueueTypes, OnceInv, Tidy
  <2> QED BY <2>1 DEF EventsOf
<1>2. Batch = EventsOf(toSend)
  BY DEF Batch
<1>3. pc'[Worker] \in {"getting", "flushing"} /\ \A r \in Requests : pc'[r] = pc[r]
  BY <1>0 DEF AfterTopic, TypeInv, RestTypes
<1>4. toSend' = toSend \ items
  BY DEF AfterTopic
<1>5. CASE toSend' = {}
  <2>1. held' = <<>> /\ pc'[Worker] = "getting"
    BY <1>0, <1>5 DEF AfterTopic, TypeInv, RestTypes
  <2>2. Taken' = {} /\ Distinct(held')
    BY <2>1, EmptyRange DEF Taken, EventsOf, Distinct
  <2>3. EventsOf(toSend \ items) = {}
    BY <1>4, <1>5 DEF EventsOf
  <2>4. Batch' = {}
    BY <2>1, <2>2 DEF Batch
  <2> QED BY <1>1, <1>2, <1>3, <2>2, <2>3, <2>4
<1>6. CASE toSend' # {}
  <2>1. held' = held /\ pc'[Worker] = "flushing"
    BY <1>0, <1>6 DEF AfterTopic, TypeInv, RestTypes
  <2>2. Batch' = EventsOf(toSend \ items)
    BY <1>4, <2>1 DEF Batch, EventsOf
  <2> QED BY <1>1, <1>2, <1>3, <2>1, <2>2 DEF Taken, OnceInv, Tidy
<1> QED BY <1>5, <1>6

LEMMA WorkerSendsKeepsOnce ==
    ASSUME TypeInv, OnceInv, NEW t \in Topics, WorkerSends(t)
    PROVE  OnceInv'
<1>0. Worker \in Callers /\ Worker \notin Requests /\ Requests \subseteq Callers
  BY PoolAssumption DEF Callers
<1> DEFINE items == {i \in toSend : i.topic = t}
<1>1. /\ pc[Worker] = "flushing"
      /\ \/ /\ AfterTopic(items) /\ dropped' = dropped \cup EventsOf(items)
            /\ payload' = payload
         \/ /\ pc' = [pc EXCEPT ![Worker] = "gathering"]
            /\ payload' = [payload EXCEPT ![Worker] = EventsOf(items)]
            /\ UNCHANGED <<held, toSend, dropped>>
      /\ UNCHANGED <<lifecycle, queue, returned, future>>
  BY DEF WorkerSends
<1>2. items \in SUBSET toSend /\ EventsOf(items) \subseteq EventsOf(toSend)
  BY DEF EventsOf
<1> HIDE DEF items
<1>3. Queued' = Queued /\ Sent' = Sent /\ payload[Worker] = {} /\ lifecycle' # "starting"
      /\ Batch = EventsOf(toSend) /\ Batch \subseteq Taken
  BY <1>1, BatchIsTaken DEF Queued, Sent, OnceInv, Tidy, Batch, TypeInv
<1>4. CASE /\ AfterTopic(items) /\ dropped' = dropped \cup EventsOf(items)
           /\ payload' = payload
  <2>1. /\ Batch = EventsOf(toSend) /\ Batch' = Batch \ EventsOf(items)
        /\ Taken' \subseteq Taken /\ Distinct(held')
        /\ pc'[Worker] \in {"getting", "flushing"}
        /\ \A r \in Requests : pc'[r] = pc[r]
    BY <1>1, <1>2, <1>4, AfterTopicLeaves
  <2>2. WorkersOwn
    <3>1. EventsOf(items) \subseteq Taken
      BY <1>2, <1>3
    <3>2. (Queued \cup Taken \cup dropped)' \subseteq Accepted
      BY <1>3, <1>4, <2>1, <3>1 DEF OnceInv, Owned
    <3> QED BY <1>1, <1>3, <1>4, <2>1, <3>2 DEF WorkersOwn
  <2>3. Owned' /\ Accepted' = Accepted
    BY <2>2, WorkersKeepOwned
  <2>4. Tidy'
    BY <1>1, <1>3, <1>4, <2>1 DEF OnceInv, Tidy, Distinct
  <2>5. OnePlace'
    <3>1. Queued' \cap (Taken \cup Sent \cup dropped)' = {}
      BY <1>2, <1>3, <1>4, <2>1 DEF OnceInv, OnePlace
    <3>2. Batch' \cap (Sent \cup dropped)' = {}
      BY <1>3, <1>4, <2>1 DEF OnceInv, OnePlace
    <3>3. Accepted \subseteq (Queued \cup Batch \cup Sent \cup dropped)'
      BY <1>3, <1>4, <2>1 DEF OnceInv, OnePlace
    <3> QED BY <1>3, <1>4, <2>3, <3>1, <3>2, <3>3 DEF OnePlace
  <2> QED BY <2>3, <2>4, <2>5 DEF OnceInv
<1>5. CASE /\ pc' = [pc EXCEPT ![Worker] = "gathering"]
           /\ payload' = [payload EXCEPT ![Worker] = EventsOf(items)]
           /\ UNCHANGED <<held, toSend, dropped>>
  <2>1. /\ pc'[Worker] = "gathering" /\ payload'[Worker] = EventsOf(items)
        /\ \A r \in Requests : pc'[r] = pc[r] /\ payload'[r] = payload[r]
    BY <1>0, <1>5 DEF TypeInv, RestTypes
  <2>2. Taken' = Taken /\ Batch' = Batch /\ EventsOf(toSend)' = EventsOf(toSend)
    BY <1>1, <1>5, <2>1 DEF Taken, Batch, EventsOf
  <2>3. WorkersOwn
    BY <1>1, <1>3, <1>5, <2>1, <2>2 DEF WorkersOwn, OnceInv, Owned
  <2>4. Owned' /\ Accepted' = Accepted
    BY <2>3, WorkersKeepOwned
  <2>5. Tidy'
    BY <1>1, <1>3, <1>5, <2>1 DEF OnceInv, Tidy, Distinct
  <2>6. OnePlace'
    BY <1>2, <1>3, <1>5, <2>1, <2>2, <2>4 DEF OnceInv, OnePlace
  <2> QED BY <2>4, <2>5, <2>6 DEF OnceInv
<1> QED BY <1>1, <1>4, <1>5

LEMMA WorkerGathersKeepsOnce ==
    ASSUME TypeInv, OnceInv, NEW e \in Events, GatherItem(Worker, e)
    PROVE  OnceInv'
<1>1. /\ pc[Worker] = "gathering" /\ e \in payload[Worker] /\ future[e] = "none"
      /\ \E v \in {"pending", "raised"} : future' = [future EXCEPT ![e] = v]
      /\ UNCHANGED <<lifecycle, workerVars, callVars, dropped>>
  BY DEF GatherItem
<1>2. Sent' = Sent \cup {e}
  BY <1>1 DEF Sent, TypeInv, RestTypes
<1>3. Queued' = Queued /\ Taken' = Taken /\ Batch' = Batch
      /\ EventsOf(toSend)' = EventsOf(toSend) /\ payload' = payload /\ dropped' = dropped
  BY <1>1 DEF Queued, Taken, Batch, EventsOf, workerVars, callVars
<1>4. e \in Taken /\ e \in Accepted
  BY <1>1, BatchIsTaken DEF OnceInv, OnePlace, Owned, TypeInv
<1>5. WorkersOwn
  BY <1>1, <1>2, <1>3, <1>4 DEF WorkersOwn, OnceInv, Owned, callVars
<1>6. Owned' /\ Accepted' = Accepted
  BY <1>5, WorkersKeepOwned
<1>7. Tidy'
  BY <1>1 DEF OnceInv, Tidy, Distinct, workerVars, callVars
<1>8. OnePlace'
  BY <1>1, <1>2, <1>3, <1>4, <1>6 DEF OnceInv, OnePlace
<1> QED BY <1>6, <1>7, <1>8 DEF OnceInv

LEMMA GatheredKeepsOnce ==
    ASSUME TypeInv, OnceInv, WorkerGathered
    PROVE  OnceInv'
<1>0. Worker \in Callers /\ Worker \notin Requests /\ Requests \subseteq Callers
  BY PoolAssumption DEF Callers
<1> DEFINE items == {i \in toSend : i.event \in payload[Worker]}
<1>1. /\ pc[Worker] = "gathering" /\ AfterTopic(items)
      /\ \A e \in payload[Worker] : future[e] # "none"
      /\ payload' = [payload EXCEPT ![Worker] = {}]
      /\ UNCHANGED <<lifecycle, queue, returned, future, dropped>>
  BY DEF WorkerGathered, Gathered
<1>2. items \in SUBSET toSend /\ EventsOf(items) = payload[Worker]
  BY DEF EventsOf, OnceInv, OnePlace
<1> HIDE DEF items
<1>3. /\ Batch = EventsOf(toSend) /\ Batch' = Batch \ payload[Worker]
      /\ Taken' \subseteq Taken /\ Distinct(held')
      /\ pc'[Worker] \in {"getting", "flushing"}
      /\ \A r \in Requests : pc'[r] = pc[r]
  BY <1>1, <1>2, AfterTopicLeaves
<1>4. /\ Queued' = Queued /\ Sent' = Sent /\ payload'[Worker] = {}
      /\ \A r \in Requests : payload'[r] = payload[r]
      /\ payload[Worker] \subseteq Sent /\ lifecycle' # "starting"
  BY <1>0, <1>1 DEF Queued, Sent, TypeInv, RestTypes, OnceInv, Tidy
<1>5. WorkersOwn
  BY <1>1, <1>3, <1>4 DEF WorkersOwn, OnceInv, Owned
<1>6. Owned' /\ Accepted' = Accepted
  BY <1>5, WorkersKeepOwned
<1>7. Tidy'
  BY <1>1, <1>3, <1>4 DEF OnceInv, Tidy, Distinct
<1>8. OnePlace'
  BY <1>1, <1>3, <1>4, <1>6 DEF OnceInv, OnePlace
<1> QED BY <1>6, <1>7, <1>8 DEF OnceInv

\* stop() in the middle of anything the worker does.
LEMMA StopKeepsOnce ==
    ASSUME TypeInv, OnceInv, StopWorker
    PROVE  OnceInv'
<1>0. Worker \in Callers /\ Worker \notin Requests /\ Requests \subseteq Callers
  BY PoolAssumption DEF Callers
<1>1. /\ lifecycle' = "stopping" /\ pc' = [pc EXCEPT ![Worker] = "done"]
      /\ held' = <<>> /\ toSend' = {} /\ payload' = [payload EXCEPT ![Worker] = {}]
      /\ dropped' = dropped \cup {e \in InHand \cup payload[Worker] : future[e] = "none"}
      /\ UNCHANGED <<queue, returned, future>>
  BY DEF StopWorker
<1>2. /\ pc'[Worker] = "done" /\ payload'[Worker] = {}
      /\ \A r \in Requests : pc'[r] = pc[r] /\ payload'[r] = payload[r]
  BY <1>0, <1>1 DEF TypeInv, RestTypes
<1>3. InHand = Batch \ payload[Worker]
  BY DEF InHand, Batch, Taken, EventsOf
<1>4. /\ Queued' = Queued /\ Sent' = Sent /\ Taken' = {} /\ Batch' = {}
  BY <1>1, <1>2, EmptyRange DEF Queued, Sent, Taken, Batch, EventsOf
<1>5. Batch \cup payload[Worker] \subseteq Taken
  BY BatchIsTaken DEF OnceInv, OnePlace, TypeInv
<1>6. Batch \subseteq dropped' \cup Sent
  BY <1>1, <1>3, <1>5 DEF Sent, OnceInv, Owned, Accepted
<1>7. dropped \subseteq dropped' /\ dropped' \subseteq dropped \cup Taken
  BY <1>1, <1>3, <1>5
<1>8. WorkersOwn
  BY <1>1, <1>2, <1>4, <1>7 DEF WorkersOwn, OnceInv, Owned
<1>9. Owned' /\ Accepted' = Accepted
  BY <1>8, WorkersKeepOwned
<1>10. Tidy'
  <2>1. Distinct(<<>>)
    BY DEF Distinct
  <2> QED BY <1>1, <1>2, <2>1 DEF OnceInv, Tidy, Distinct
<1>11. OnePlace'
  BY <1>1, <1>2, <1>4, <1>6, <1>7, <1>9 DEF OnceInv, OnePlace
<1> QED BY <1>9, <1>10, <1>11 DEF OnceInv

\* The producers starting or stopping, the breaker's clock and Kafka's answers move no
\* event from one place to another.
LEMMA OthersKeepOnce ==
    ASSUME TypeInv, OnceInv,
           \/ StartProducer \/ StartFails \/ StopProducers
           \/ Elapse \/ Kafka \/ UNCHANGED poolVars
    PROVE  OnceInv'
<1>0. Worker \in Callers /\ Worker \notin Requests /\ Requests \subseteq Callers
  BY PoolAssumption DEF Callers
<1>1. /\ UNCHANGED <<queue, held, toSend, payload, returned, dropped>>
      /\ \A r \in Requests : pc'[r] = pc[r]
      /\ \/ pc'[Worker] = pc[Worker] /\ (lifecycle' = "starting" => lifecycle = "starting")
         \/ lifecycle = "starting" /\ lifecycle' = "up" /\ pc'[Worker] = "getting"
  <2> USE DEF workerVars, callVars
  <2>1. CASE StartProducer
    BY <1>0, <2>1 DEF StartProducer, TypeInv, RestTypes
  <2>2. CASE StartFails \/ StopProducers \/ Elapse
    BY <2>2 DEF StartFails, StopProducers, Elapse
  <2>3. CASE Kafka
    BY <2>3 DEF Kafka, Acknowledge, DeliveryFails
  <2>4. CASE UNCHANGED poolVars
    BY <2>4 DEF poolVars
  <2> QED BY <2>1, <2>2, <2>3, <2>4
<1>2. Sent' = Sent
  <2>1. CASE Kafka
    BY <2>1 DEF Kafka, Acknowledge, DeliveryFails, Sent, TypeInv, RestTypes
  <2>2. CASE UNCHANGED future
    BY <2>2 DEF Sent
  <2> QED
    BY <2>1, <2>2 DEF StartProducer, StartFails, StopProducers, Elapse, poolVars
<1>3. Queued' = Queued /\ Taken' = Taken /\ EventsOf(toSend)' = EventsOf(toSend)
  BY <1>1 DEF Queued, Taken, EventsOf
<1>4. Batch' = Batch
  <2>1. CASE pc'[Worker] = pc[Worker]
    BY <1>3, <2>1 DEF Batch, EventsOf
  <2>2. CASE lifecycle = "starting" /\ pc'[Worker] = "getting"
    <3>1. held = <<>> /\ toSend = {} /\ pc[Worker] = "idle"
      BY <2>2, EmptyRange DEF OnceInv, Tidy, TypeInv, QueueTypes
    <3>2. Taken = {} /\ Batch = {}
      BY <3>1, EmptyRange DEF Taken, Batch, EventsOf
    <3> QED BY <1>3, <2>2, <3>2 DEF Batch
  <2> QED BY <1>1, <2>1, <2>2
<1>5. WorkersOwn
  BY <1>1, <1>2, <1>3 DEF WorkersOwn, OnceInv, Owned
<1>6. Owned' /\ Accepted' = Accepted
  BY <1>5, WorkersKeepOwned
<1>7. Tidy'
  BY <1>1 DEF OnceInv, Tidy, Distinct
<1>8. OnePlace'
  BY <1>1, <1>2, <1>3, <1>4, <1>6 DEF OnceInv, OnePlace
<1> QED BY <1>6, <1>7, <1>8 DEF OnceInv

LEMMA OnceKept ==
    ASSUME TypeInv, OnceInv, [PoolNext]_poolVars
    PROVE  OnceInv'
<1>1. CASE \/ StartStop \/ Elapse \/ Kafka \/ UNCHANGED poolVars
  BY <1>1, StopKeepsOnce, OthersKeepOnce DEF StartStop
<1>2. CASE \E r \in Requests : Sends(r)
  BY <1>2, SendsAreDirect, DirectKeepsOnce
<1>3. ASSUME NEW r \in Requests, PutWakes(r) PROVE OnceInv'
  <2>1. PICK e \in payload[r], t \in Topics :
            queue' = Append(queue, [topic |-> t, event |-> e])
    BY <1>3 DEF PutWakes
  <2>2. e \in Events /\ payload[r] = {e}
    BY <1>3 DEF PutWakes, OnceInv, Owned, TypeInv, RestTypes, Callers
  <2>3. payload' = [payload EXCEPT ![r] = {e}]
    BY <1>3, <2>2 DEF PutWakes, TypeInv, RestTypes, Callers
  <2> QED
    BY <1>3, <2>1, <2>2, <2>3, PutKeepsOnce DEF PutWakes, Return
<1>4. ASSUME NEW r \in Requests, NEW e \in Events, PutEvent(r, e) PROVE OnceInv'
  <2>1. CASE ~QueueFull
    BY <1>4, <2>1, PutKeepsOnce DEF PutEvent, Return
  <2>2. CASE QueueFull
    BY <1>4, <2>2, WaitKeepsOnce DEF PutEvent, workerVars
  <2> QED BY <2>1, <2>2
<1>5. CASE WorkerStep
  BY <1>5, GetKeepsOnce, TimeOutKeepsOnce, WorkerSendsKeepsOnce, WorkerGathersKeepsOnce,
     GatheredKeepsOnce DEF WorkerStep
<1> QED
  BY <1>1, <1>2, <1>3, <1>4, <1>5 DEF PoolNext

LEMMA OnceStarts == PoolInit => TypeInv /\ OnceInv
<1> SUFFICES ASSUME PoolInit PROVE OnceInv
  BY TypesStart
<1>1. queue = <<>> /\ held = <<>> /\ toSend = {} /\ dropped = {} /\ pc[Worker] = "idle"
      /\ payload[Worker] = {}
  BY DEF PoolInit, Callers
<1>2. Queued = {} /\ Taken = {} /\ EventsOf(toSend) = {} /\ Batch = {}
  BY <1>1, EmptyRange DEF Queued, Taken, Batch, EventsOf
<1>3. Sent = {} /\ Accepted = {}
  BY DEF PoolInit, Sent, Accepted, Callers
<1>4. Owned
  BY <1>1, <1>2, <1>3 DEF Owned, PoolInit, Callers
<1>5. Tidy /\ OnePlace
  BY <1>1, <1>2, <1>3 DEF Tidy, OnePlace, Distinct
<1> QED BY <1>4, <1>5 DEF OnceInv

\* An event that send_async_batch accepted is in exactly one place until it is sent or
\* dropped, for any queue and batch size, any number of tasks and wherever stop() cuts
\* the worker off: no interleaving of puts, direct sends and the worker's batches makes
\* two of it or loses it.
THEOREM QueuedOnceCorrect == PoolSpec => []QueuedOnce
<1>1. TypeInv /\ OnceInv /\ [PoolNext]_poolVars => (TypeInv /\ OnceInv)'
  BY TypesKept, OnceKept
<1>2. TypeInv /\ OnceInv => QueuedOnce
  BY OnceImplies
<1> QED
  BY OnceStarts, <1>1, <1>2, PTL DEF PoolSpec
==============================================================================
