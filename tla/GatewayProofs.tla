---------------------------- MODULE GatewayProofs ----------------------------
(***************************************************************************)
(* Invariants of the gateway's request path, for any number of requests    *)
(* and events.  What is proved of the pool holds of it inside the gateway: *)
(* every step of the gateway is a step of the pool or leaves it alone.     *)
(***************************************************************************)
EXTENDS Gateway, ProducerPoolProofs

LEMMA StepsThePool ==
    ASSUME [GatewayNext]_gatewayVars
    PROVE  [PoolNext]_poolVars
<1>1. CASE Lifespan
  BY <1>1 DEF Lifespan, PoolNext
<1>2. CASE PoolMoves
  BY <1>2 DEF PoolMoves, PoolNext
<1>3. CASE \E r \in Requests : Ingest(r)
  BY <1>3 DEF Ingest, PoolNext
<1>4. CASE \E e \in Events : Background(e)
  BY <1>4 DEF Background, StoreHot, Count, Insert, Index
<1>5. CASE UNCHANGED gatewayVars
  BY <1>5 DEF gatewayVars
<1> QED
  BY <1>1, <1>2, <1>3, <1>4, <1>5 DEF GatewayNext

\* The gateway drives its pool as the pool's specification allows.
THEOREM GatewayUsesPool == GatewaySpec => PoolSpec
<1>1. GatewayInit => PoolInit
  BY DEF GatewayInit
<1> QED
  BY <1>1, StepsThePool, PTL DEF GatewaySpec, PoolSpec

\* What the handlers take from the pool: True from send_event is an event in Kafka,
\* and the breaker is open exactly at the threshold, whatever requests, failures and
\* background fallbacks run beside each other.
THEOREM GatewayInherits == GatewaySpec => [](TrueMeansWritten /\ BreakerAgrees)
BY GatewayUsesPool, TrueIsWritten, BreakerCorrect, PTL

------------------------------------------------------------------------------

\* An event is stored for a call that has returned, and not returned True.
StoredForCall ==
    \A e \in Events : stage[e] # "none" =>
        \E r \in Requests : e \in payload[r] /\ returned[r] \in {"False", "0"}

\* send_event has one event in its hands, and a send that failed never turns out well.
FailedStays ==
    /\ \A r \in Requests : pc[r] \in {"sending", "awaiting"} =>
            \E e \in Events : payload[r] = {e}
    /\ \A r \in Requests : returned[r] = "False" =>
            \A e \in payload[r] : future[e] \in {"none", "raised", "error"}

\* The events whose store_event has passed its counter.
Counted == {e \in Events : stage[e] \in {"inserting", "indexing", "stored", "failed"}}

TierTypes ==
    /\ stage \in [Events -> Stages]
    /\ hot \subseteq Events /\ warm \subseteq Events /\ search \subseteq Events
    /\ faulty \subseteq Events
    /\ counts \in Nat /\ counts <= RedisTries * Cardinality(Counted)

GatewayInv ==
    TypeInv /\ OnceInv /\ TierTypes /\ StoredForCall /\ FailedStays

LEMMA CountedIsFinite ==
    /\ IsFiniteSet(Counted) /\ Cardinality(Counted) \in Nat
    /\ Cardinality(Counted) <= Cardinality(Events) /\ Cardinality(Events) \in Nat
<1>1. Counted \subseteq Events
  BY DEF Counted
<1> QED BY <1>1, EventsAssumption, FS_Subset, FS_CardinalityType

\* A product with the number of tries, for one event more and for more events.
LEMMA TriesTimes ==
    ASSUME NEW m \in Nat, NEW n \in Nat
    PROVE  /\ RedisTries * m \in Nat
           /\ RedisTries * (m + 1) = RedisTries * m + RedisTries
           /\ m <= n => RedisTries * m <= RedisTries * n
<1>1. RedisTries \in Nat
  BY RetryAssumption
<1>2. RedisTries * m \in Nat /\ RedisTries * (m + 1) = RedisTries * m + RedisTries
  BY <1>1
<1>3. ASSUME m <= n PROVE RedisTries * m <= RedisTries * n
  <2>1. n - m \in Nat /\ n = m + (n - m)
    BY <1>3
  <2>2. RedisTries * n = RedisTries * m + RedisTries * (n - m)
    BY <1>1, <2>1
  <2>3. RedisTries * (n - m) \in Nat
    BY <1>1, <2>1
  <2> QED BY <1>2, <2>2, <2>3
<1> QED BY <1>2, <1>3

LEMMA GatewayStarts == GatewayInit => GatewayInv
<1> SUFFICES ASSUME GatewayInit PROVE GatewayInv
  OBVIOUS
<1>1. TypeInv /\ OnceInv
  BY OnceStarts DEF GatewayInit
<1>2. Counted = {} /\ Cardinality({}) = 0
  BY FS_EmptySet DEF GatewayInit, Counted
<1>3. TierTypes
  BY <1>2, RetryAssumption DEF GatewayInit, TierTypes, Stages
<1>4. StoredForCall /\ FailedStays
  BY DEF GatewayInit, PoolInit, StoredForCall, FailedStays, Callers
<1> QED BY <1>1, <1>3, <1>4 DEF GatewayInv

\* What a call that fails leaves behind.
LEMMA CallsKeepFailed ==
    ASSUME TypeInv, OnceInv, FailedStays, NEW r \in Requests, Sends(r)
    PROVE  FailedStays'
<1>0. Worker \in Callers /\ r # Worker /\ r \in Callers /\ Requests \subseteq Callers
  BY PoolAssumption DEF Callers
<1>1. DirectCall(r)
  BY SendsAreDirect
<1>2. \A s \in Requests : s # r => pc'[s] = pc[s] /\ payload'[s] = payload[s]
                                   /\ returned'[s] = returned[s]
  BY <1>0, <1>1 DEF DirectCall
<1>3. \A s \in Requests : s # r => \A e \in payload[s] : e \in Events /\ e \notin payload'[r]
  BY <1>0, <1>1 DEF DirectCall, Fresh, OnceInv, Owned, TypeInv, RestTypes
<1>4. \A s \in Requests : s # r => \A e \in payload[s] : future'[e] = future[e]
  BY <1>1, <1>3 DEF DirectCall
<1> DEFINE FailsForGood ==
      /\ pc'[r] \in {"sending", "awaiting"} => \E e \in Events : payload'[r] = {e}
      /\ returned'[r] = "False" =>
            \A e \in payload'[r] : future'[e] \in {"none", "raised", "error"}
<1>5. FailsForGood
  <2> USE DEF TypeInv, RestTypes, FailedStays
  <2>0. returned[r] = "none"
    BY <1>1 DEF DirectCall, OnceInv, Owned
  <2>1. ASSUME NEW e \in Events, SendEvent(r, e) PROVE FailsForGood
    <3>1. Fresh(e) /\ payload'[r] = {e} /\ future' = future
      BY <1>0, <2>1 DEF SendEvent
    <3>2. future[e] = "none"
      BY <1>0, <3>1 DEF Fresh, OnceInv, Owned, Sent
    <3> QED BY <3>1, <3>2
  <2>2. ASSUME NEW events \in SUBSET Events, SendBatch(r, events) PROVE FailsForGood
    BY <1>0, <2>0, <2>2 DEF SendBatch, Return
  <2>3. CASE SendTaken(r)
    BY <1>0, <2>0, <2>3 DEF SendTaken
  <2>4. CASE SendRaises(r)
    BY <1>0, <2>4 DEF SendRaises, Return
  <2>5. CASE SendReturns(r)
    <3>1. /\ pc[r] = "awaiting" /\ pc'[r] = "done" /\ payload' = payload /\ future' = future
          /\ \/ returned'[r] = "True"
             \/ \E e \in payload[r] : future[e] = "error"
      BY <1>0, <2>5 DEF SendReturns, Return
    <3>2. PICK e \in Events : payload[r] = {e}
      BY <3>1
    <3> QED BY <3>1, <3>2
  <2>6. ASSUME NEW e \in Events, GatherItem(r, e) PROVE FailsForGood
    BY <2>0, <2>6 DEF GatherItem, callVars
  <2>7. CASE BatchReturns(r)
    BY <1>0, <2>7 DEF BatchReturns, Return, SuccessfulSends
  <2> QED
    BY <2>1, <2>2, <2>3, <2>4, <2>5, <2>6, <2>7 DEF Sends
<1> QED
  BY <1>2, <1>4, <1>5 DEF FailedStays

\* A call that returns hands its own events to the background, once.
LEMMA IngestQueues ==
    ASSUME GatewayInv, NEW r \in Requests, Ingest(r)
    PROVE  /\ DirectCall(r) /\ returned[r] = "none"
           /\ \A s \in Requests : s # r =>
                    payload'[s] = payload[s] /\ returned'[s] = returned[s]
           /\ stage' \in [Events -> Stages]
           /\ \A e \in Events :
                \/ stage'[e] = stage[e]
                \/ stage'[e] = "queued" /\ stage[e] = "none" /\ e \in payload'[r]
                   /\ returned'[r] \in {"False", "0"}
           /\ returned'[r] \in {"False", "0"} =>
                    \A e \in payload'[r] : e \in Events /\ stage'[e] = "queued"
<1>0. Worker \in Callers /\ r # Worker /\ r \in Callers /\ Requests \subseteq Callers
  BY PoolAssumption DEF Callers
<1>1. Sends(r) /\ Answers
  BY DEF Ingest
<1>2. DirectCall(r)
  BY <1>1, SendsAreDirect DEF GatewayInv
<1>3. \A s \in Requests : s # r => payload'[s] = payload[s] /\ returned'[s] = returned[s]
  BY <1>0, <1>2 DEF DirectCall
<1>4. returned[r] = "none"
  BY <1>2 DEF DirectCall, GatewayInv, OnceInv, Owned
<1>5. \A e \in payload'[r] : e \in Events /\ \A s \in Requests : s # r => e \notin payload[s]
  BY <1>0, <1>2 DEF DirectCall, Fresh, GatewayInv, OnceInv, Owned, TypeInv, RestTypes
<1>6. \A e \in payload'[r] : stage[e] = "none"
  BY <1>4, <1>5 DEF GatewayInv, StoredForCall
<1>7. \A e \in Events :
        \/ stage'[e] = stage[e]
        \/ stage'[e] = "queued" /\ stage[e] = "none" /\ e \in payload'[r]
           /\ returned'[r] \in {"False", "0"}
  BY <1>1, <1>3, <1>6 DEF Answers, Unsent
<1>8. stage' \in [Events -> Stages]
  BY <1>1 DEF Answers, GatewayInv, TierTypes, Stages
<1>9. returned'[r] \in {"False", "0"} =>
            \A e \in payload'[r] : e \in Events /\ stage'[e] = "queued"
  BY <1>1, <1>4, <1>5 DEF Answers, Unsent
<1> QED BY <1>2, <1>3, <1>4, <1>7, <1>8, <1>9

LEMMA IngestKeeps ==
    ASSUME GatewayInv, NEW r \in Requests, Ingest(r)
    PROVE  TierTypes' /\ StoredForCall' /\ FailedStays'
<1>1. Sends(r) /\ UNCHANGED <<hot, counts, warm, search, faulty>>
  BY DEF Ingest, tierVars
<1>2. Counted' = Counted
  BY IngestQueues DEF Counted
<1>3. TierTypes'
  BY <1>1, <1>2, IngestQueues DEF GatewayInv, TierTypes
<1>4. StoredForCall'
  BY IngestQueues DEF GatewayInv, StoredForCall
<1>5. FailedStays'
  BY <1>1, CallsKeepFailed DEF GatewayInv
<1> QED BY <1>3, <1>4, <1>5

\* A step of the background leaves the pool alone and counts one event more, at most
\* as often as the client sends the command.
LEMMA BackgroundKeeps ==
    ASSUME GatewayInv, NEW e \in Events, Background(e)
    PROVE  TierTypes' /\ StoredForCall' /\ FailedStays'
<1>1. UNCHANGED <<pc, payload, returned, future>>
  BY DEF Background, StoreHot, Count, Insert, Index, poolVars, callVars
<1>2. stage[e] # "none"
  BY DEF Background, StoreHot, Count, Insert, Index
<1>3. /\ stage' \in [Events -> Stages] /\ \A f \in Events : f # e => stage'[f] = stage[f]
  BY DEF Background, StoreHot, Count, Insert, Index, Proceed, Stages, GatewayInv, TierTypes
<1>4. /\ (hot \subseteq Events /\ warm \subseteq Events /\ search \subseteq Events)'
      /\ faulty' \subseteq Events
  BY DEF Background, StoreHot, Count, Insert, Index, Effect, GatewayInv, TierTypes
<1>5. counts' \in Nat /\ counts' <= RedisTries * Cardinality(Counted')
  <2> USE DEF GatewayInv, TierTypes, Counted, Proceed
  <2>1. CASE StoreHot(e)
    <3>1. Counted' = Counted /\ counts' = counts
      BY <2>1 DEF StoreHot
    <3> HIDE DEF Counted
    <3> QED BY <3>1
  <2>2. CASE Count(e)
    <3>1. Counted' = Counted \cup {e} /\ e \notin Counted
      BY <2>2 DEF Count
    <3>2. counts' \in Nat /\ counts' <= counts + RedisTries
      BY <2>2, RetryAssumption DEF Count
    <3> HIDE DEF Counted
    <3>3. Cardinality(Counted') = Cardinality(Counted) + 1
      BY <3>1, CountedIsFinite, FS_AddElement
    <3>4. /\ RedisTries * Cardinality(Counted) \in Nat /\ RedisTries \in Nat
          /\ RedisTries * Cardinality(Counted') = RedisTries * Cardinality(Counted) + RedisTries
      BY <3>3, CountedIsFinite, TriesTimes, RetryAssumption
    <3> HIDE DEF TierTypes
    <3>5. counts \in Nat /\ counts <= RedisTries * Cardinality(Counted)
      BY DEF TierTypes
    <3> QED BY <3>2, <3>4, <3>5
  <2>3. CASE Insert(e)
    <3>1. Counted' = Counted /\ counts' = counts
      BY <2>3 DEF Insert
    <3> HIDE DEF Counted
    <3> QED BY <3>1
  <2>4. CASE Index(e)
    <3>1. Counted' = Counted /\ counts' = counts
      BY <2>4 DEF Index
    <3> HIDE DEF Counted
    <3> QED BY <3>1
  <2> QED BY <2>1, <2>2, <2>3, <2>4 DEF Background
<1>6. StoredForCall'
  BY <1>1, <1>2, <1>3 DEF GatewayInv, StoredForCall
<1> QED
  BY <1>1, <1>3, <1>4, <1>5, <1>6 DEF GatewayInv, TierTypes, FailedStays

\* The rest moves no call and no stage; Kafka resolves only futures that are pending.
LEMMA OthersCall ==
    ASSUME GatewayInv, Lifespan \/ PoolMoves \/ UNCHANGED gatewayVars
    PROVE  /\ \A r \in Requests : pc'[r] = pc[r] /\ payload'[r] = payload[r]
                                  /\ returned'[r] = returned[r]
           /\ \A e \in Events : future'[e] = future[e] \/ future[e] = "pending"
<1>0. Worker \in Callers /\ Worker \notin Requests /\ Requests \subseteq Callers
  BY PoolAssumption DEF Callers
<1> USE DEF callVars
<1>1. CASE StartStop
  BY <1>0, <1>1 DEF StartStop, StartProducer, StartFails, StopWorker, StopProducers,
                    GatewayInv, TypeInv, RestTypes
<1>2. CASE Elapse
  BY <1>2 DEF Elapse
<1>3. CASE Kafka
  BY <1>3 DEF Kafka, Acknowledge, DeliveryFails, GatewayInv, TypeInv, RestTypes
<1>4. CASE UNCHANGED gatewayVars
  BY <1>4 DEF gatewayVars, poolVars
<1> QED BY <1>1, <1>2, <1>3, <1>4 DEF Lifespan, PoolMoves

LEMMA OthersKeep ==
    ASSUME GatewayInv, Lifespan \/ PoolMoves \/ UNCHANGED gatewayVars
    PROVE  TierTypes' /\ StoredForCall' /\ FailedStays'
<1>0. Worker \in Callers /\ Worker \notin Requests /\ Requests \subseteq Callers
  BY PoolAssumption DEF Callers
<1>1. UNCHANGED <<stage, hot, counts, warm, search, faulty>>
  BY DEF Lifespan, PoolMoves, gatewayVars, tierVars
<1>2. TierTypes'
  BY <1>1 DEF GatewayInv, TierTypes, Counted
<1>3. StoredForCall'
  BY <1>1, OthersCall DEF GatewayInv, StoredForCall
<1>4. \A r \in Requests : payload[r] \subseteq Events
  BY <1>0 DEF GatewayInv, TypeInv, RestTypes
<1>5. FailedStays'
  BY <1>4, OthersCall DEF GatewayInv, FailedStays
<1> QED BY <1>2, <1>3, <1>5

LEMMA GatewaySteps == GatewayInv /\ [GatewayNext]_gatewayVars => GatewayInv'
<1> SUFFICES ASSUME GatewayInv, [GatewayNext]_gatewayVars PROVE GatewayInv'
  OBVIOUS
<1>1. TypeInv' /\ OnceInv'
  BY StepsThePool, TypesKept, OnceKept DEF GatewayInv
<1>2. TierTypes' /\ StoredForCall' /\ FailedStays'
  BY IngestKeeps, BackgroundKeeps, OthersKeep DEF GatewayNext
<1> QED BY <1>1, <1>2 DEF GatewayInv

\* Every variable keeps its type, and the counter is raised for one event by no more
\* than the client's tries at one INCR, whatever call to a tier fails where.
THEOREM GatewayTypeCorrect == GatewaySpec => []GatewayTypeOK
<1>1. GatewayInv => GatewayTypeOK
  <2> SUFFICES ASSUME GatewayInv PROVE GatewayTypeOK
    OBVIOUS
  <2>1. PoolTypeOK
    BY TypesImply DEF GatewayInv
  <2>2. counts \in 0 .. RedisTries * Cardinality(Events)
    <3>1. counts \in Nat /\ counts <= RedisTries * Cardinality(Counted)
      BY DEF GatewayInv, TierTypes
    <3> QED BY <3>1, CountedIsFinite, TriesTimes
  <2> QED BY <2>1, <2>2, Zenon DEF GatewayInv, TierTypes, GatewayTypeOK
<1> QED
  BY <1>1, GatewayStarts, GatewaySteps, PTL DEF GatewaySpec

\* A single event is stored in the tiers only when its send failed: the event is never
\* one that Kafka has confirmed, now or later, however the requests interleave.
THEOREM SinglesCorrect == GatewaySpec => []SinglesStoredOnlyIfFailed
<1>1. GatewayInv => SinglesStoredOnlyIfFailed
  <2> SUFFICES ASSUME GatewayInv,
                      NEW r \in Requests, NEW e \in Events,
                      returned[r] \in {"True", "False"}, e \in payload[r], stage[e] # "none"
               PROVE  future[e] # "ok"
    BY DEF SinglesStoredOnlyIfFailed
  <2>1. PICK s \in Requests : e \in payload[s] /\ returned[s] \in {"False", "0"}
    BY DEF GatewayInv, StoredForCall
  <2>2. s = r
    BY <2>1 DEF GatewayInv, OnceInv, Owned
  <2> QED BY <2>1, <2>2 DEF GatewayInv, FailedStays
<1> QED
  BY <1>1, GatewayStarts, GatewaySteps, PTL DEF GatewaySpec

------------------------------------------------------------------------------

\* How far store_event has brought an event, unless a tier has failed for it.
Reached(e) ==
    \/ e \in faulty
    \/ stage[e] \in {"none", "queued"}
    \/ stage[e] \in {"counting", "inserting"} /\ e \in hot
    \/ stage[e] = "indexing" /\ e \in hot \cap warm
    \/ stage[e] = "stored" /\ e \in hot \cap warm \cap search

\* An event is handed over as its call returns, and the background gives up on none.
HandedOver ==
    /\ \A e \in Events : Reached(e)
    /\ \A r \in Requests :
        /\ returned[r] # "queued"
        /\ returned[r] \in {"False", "0"} => \A e \in payload[r] : stage[e] # "none"

LEMMA HandedOverKept ==
    ASSUME GatewayInv, HandedOver, [GatewayNext]_gatewayVars
    PROVE  HandedOver'
<1>0. \A r \in Requests : payload[r] \subseteq Events
  BY DEF GatewayInv, TypeInv, RestTypes, Callers
<1>1. ASSUME NEW r \in Requests, Ingest(r) PROVE HandedOver'
  <2>1. UNCHANGED <<hot, counts, warm, search, faulty>>
    BY <1>1 DEF Ingest, tierVars
  <2>2. \A e \in Events : Reached(e)'
    BY <1>1, <2>1, IngestQueues DEF Reached, HandedOver
  <2>3. ASSUME NEW s \in Requests
        PROVE  /\ returned'[s] # "queued"
               /\ returned'[s] \in {"False", "0"} => \A e \in payload'[s] : stage'[e] # "none"
    <3>1. CASE s = r
      BY <1>1, <3>1, IngestQueues DEF DirectCall
    <3>2. CASE s # r
      BY <1>0, <1>1, <3>2, IngestQueues DEF HandedOver
    <3> QED BY <3>1, <3>2
  <2> QED BY <2>2, <2>3 DEF HandedOver
<1>2. ASSUME NEW e \in Events, Background(e) PROVE HandedOver'
  <2>1. UNCHANGED <<payload, returned>>
    BY <1>2 DEF Background, StoreHot, Count, Insert, Index, poolVars, callVars
  <2>2. /\ stage' \in [Events -> Stages] /\ \A f \in Events : f # e => stage'[f] = stage[f]
        /\ hot \subseteq hot' /\ warm \subseteq warm' /\ search \subseteq search'
        /\ faulty \subseteq faulty' /\ stage'[e] # "none"
    BY <1>2 DEF Background, StoreHot, Count, Insert, Index, Effect, Proceed, Stages,
                GatewayInv, TierTypes
  <2>3. Reached(e)'
    <3> USE DEF Effect, Proceed, GatewayInv, TierTypes, HandedOver, Reached
    <3>1. CASE StoreHot(e)
      BY <3>1 DEF StoreHot
    <3>2. CASE Count(e)
      BY <3>2 DEF Count
    <3>3. CASE Insert(e)
      BY <3>3 DEF Insert
    <3>4. CASE Index(e)
      BY <3>4 DEF Index
    <3> QED BY <1>2, <3>1, <3>2, <3>3, <3>4 DEF Background
  <2>4. ASSUME NEW f \in Events PROVE Reached(f)'
    <3>1. CASE f = e
      BY <2>3, <3>1
    <3>2. CASE f # e
      BY <2>2, <3>2 DEF Reached, HandedOver
    <3> QED BY <3>1, <3>2
  <2> QED BY <1>0, <2>1, <2>2, <2>4 DEF HandedOver
<1>3. CASE Lifespan \/ PoolMoves \/ UNCHANGED gatewayVars
  <2>1. UNCHANGED <<stage, hot, warm, search, faulty>>
    BY <1>3 DEF Lifespan, PoolMoves, gatewayVars, tierVars
  <2>2. \A r \in Requests : payload'[r] = payload[r] /\ returned'[r] = returned[r]
    BY <1>3, OthersCall
  <2> QED BY <1>0, <2>1, <2>2 DEF HandedOver, Reached
<1> QED BY <1>1, <1>2, <1>3 DEF GatewayNext

\* An accepted event is never nowhere: in every state, also the one a kill leaves
\* behind, it is in Kafka, in all tiers, given up by a failing tier, or still with a
\* background task.
THEOREM LostCorrect == GatewaySpec => []LostOnlyInBackground
<1>1. GatewayInit => HandedOver
  BY DEF GatewayInit, PoolInit, HandedOver, Reached, Callers
<1>2. GatewayInv /\ HandedOver /\ TrueMeansWritten => LostOnlyInBackground
  <2> SUFFICES ASSUME GatewayInv, HandedOver, TrueMeansWritten,
                      NEW r \in Requests, returned[r] # "none", NEW e \in payload[r]
               PROVE  Kept(e) \/ InBackground(e)
    BY DEF LostOnlyInBackground
  <2>1. e \in Events /\ returned[r] \in {"True", "False", "0"}
    BY DEF GatewayInv, TypeInv, RestTypes, Callers, HandedOver
  <2>2. CASE returned[r] = "True"
    BY <2>2 DEF TrueMeansWritten, Kept
  <2>3. CASE returned[r] \in {"False", "0"}
    <3>1. stage[e] # "none" /\ stage[e] \in Stages /\ Reached(e)
      BY <2>1, <2>3 DEF HandedOver, GatewayInv, TierTypes
    <3> QED BY <3>1 DEF Reached, Kept, InBackground, Running, Stages
  <2> QED BY <2>1, <2>2, <2>3
<1> QED
  BY <1>1, <1>2, GatewayStarts, GatewaySteps, HandedOverKept, GatewayUsesPool,
     TrueIsWritten, PTL DEF GatewaySpec
==============================================================================
