------------------------------- MODULE Gateway -------------------------------
(***************************************************************************)
(* gateway/events_api_original.py over the producer pool: a request sends  *)
(* its events to Kafka and answers "accepted" whatever came of it; the     *)
(* events the pool did not report as sent are stored by background tasks,  *)
(* with MultiTierStorage.store_event.                                      *)
(*                                                                         *)
(* The storage tiers are external: any of their calls may fail, before or  *)
(* after taking effect.                                                    *)
(***************************************************************************)
EXTENDS ProducerPool

CONSTANTS
    RedisTries      \* how often the Redis client may send a command that times out

ASSUME EventsAssumption == IsFiniteSet(Events)

\* retry_on_timeout=True: twice or more.
ASSUME RetryAssumption == RedisTries \in Nat \ {0}

VARIABLES
    stage,      \* event -> where its store_event stands
    hot,        \* events put in Redis
    counts,     \* what the counter of events (events:count) has been raised to
    warm,       \* events inserted in ClickHouse
    search,     \* events indexed in Elasticsearch
    faulty      \* history: events a call to a tier has failed for

tierVars == <<hot, counts, warm, search, faulty>>
gatewayVars == <<poolVars, stage, tierVars>>

Stages == {"none", "queued", "counting", "inserting", "indexing", "stored", "failed"}
Running == {"counting", "inserting", "indexing"}
Settled == {"none", "stored", "failed"}

GatewayTypeOK ==
    /\ PoolTypeOK
    /\ stage \in [Events -> Stages]
    /\ hot \subseteq Events /\ warm \subseteq Events /\ search \subseteq Events
    /\ faulty \subseteq Events
    /\ counts \in 0 .. RedisTries * Cardinality(Events)

GatewayInit ==
    /\ PoolInit
    /\ stage = [e \in Events |-> "none"]
    /\ hot = {} /\ warm = {} /\ search = {} /\ faulty = {}
    /\ counts = 0

------------------------------------------------------------------------------
(* The API *)

\* Mutant: a batch's events are taken for sent once send() has returned a future.
UnsentTrustsFutures(r) ==
    IF returned'[r] = "0" THEN {e \in payload'[r] : future'[e] \in {"none", "raised"}}
    ELSE IF returned'[r] = "False" THEN payload'[r] ELSE {}

\* Mutant: a single event is stored whatever send_event returned.
UnsentIgnoresResult(r) ==
    IF returned'[r] = "none" THEN {} ELSE payload'[r]

\* Mutant: a batch counts as sent once send_batch has returned.
UnsentSinglesOnly(r) ==
    IF returned'[r] = "False" THEN payload'[r] ELSE {}

\* The events a request hands to the background when its call has returned: a single
\* event that send_event returned False for, enriched_events[0:] of a batch.
Unsent(r) ==
    IF returned'[r] \in {"False", "0"} THEN payload'[r] ELSE {}

\* A request goes on without an await from the pool's return to its own answer.
Answers ==
    stage' = [e \in Events |->
                IF \E r \in Requests : returned'[r] # returned[r] /\ e \in Unsent(r)
                THEN "queued" ELSE stage[e]]

\* POST /events and POST /events/batch, served once the pool has started.
Ingest(r) ==
    /\ lifecycle = "up"
    /\ Sends(r)
    /\ Answers
    /\ UNCHANGED tierVars

\* The pool is started before the first request and stopped after the last one and
\* its background tasks.
Lifespan ==
    /\ StartStop
    /\ lifecycle = "up" => /\ \A r \in Requests : pc[r] \in {"idle", "done"}
                           /\ \A e \in Events : stage[e] \in Settled
    /\ UNCHANGED <<stage, tierVars>>

PoolMoves == (Elapse \/ Kafka) /\ UNCHANGED <<stage, tierVars>>

------------------------------------------------------------------------------
(* store_event *)

\* A call to a tier: it takes effect, or fails before or after that.
Effect(tier, e) ==
    \/ tier' = tier \cup {e} /\ UNCHANGED faulty
    \/ tier' \in {tier, tier \cup {e}} /\ faulty' = faulty \cup {e}

Proceed(e, next) == stage' = [stage EXCEPT ![e] = next]

\* One request's background tasks run one after the other.  put() swallows all errors.
StoreHot(e) ==
    /\ stage[e] = "queued"
    /\ \A r \in Requests, f \in Events : {e, f} \subseteq payload[r] => stage[f] \notin Running
    /\ Effect(hot, e)
    /\ Proceed(e, "counting")
    /\ UNCHANGED <<poolVars, counts, warm, search>>

\* INCR is sent again when it timed out, also when it took effect, so one call may
\* raise the counter several times.  increment_counter swallows Redis's errors only:
\* any other, there or in the user's counter after it, ends store_event here.
Count(e) ==
    /\ stage[e] = "counting"
    /\ \/ /\ counts' \in counts + 1 .. counts + RedisTries
          /\ Proceed(e, "inserting")
          /\ UNCHANGED faulty
       \/ /\ counts' \in counts .. counts + RedisTries
          /\ Proceed(e, "inserting") \/ Proceed(e, "failed")
          /\ faulty' = faulty \cup {e}
    /\ UNCHANGED <<poolVars, hot, warm, search>>

\* insert_events swallows all errors.
Insert(e) ==
    /\ stage[e] = "inserting"
    /\ Effect(warm, e)
    /\ Proceed(e, "indexing")
    /\ UNCHANGED <<poolVars, hot, counts, search>>

\* Mutant of Index: a background task that failed is run again from the start.
IndexRequeues(e) ==
    /\ stage[e] = "indexing"
    /\ Effect(search, e)
    /\ Proceed(e, "stored") \/ (e \in faulty' /\ Proceed(e, "queued"))
    /\ UNCHANGED <<poolVars, hot, counts, warm>>

\* index_events swallows Elasticsearch's errors only; store_event ends all the same.
Index(e) ==
    /\ stage[e] = "indexing"
    /\ Effect(search, e)
    /\ Proceed(e, "stored") \/ (e \in faulty' /\ Proceed(e, "failed"))
    /\ UNCHANGED <<poolVars, hot, counts, warm>>

Background(e) == StoreHot(e) \/ Count(e) \/ Insert(e) \/ Index(e)

------------------------------------------------------------------------------
(* Specification *)

GatewayNext ==
    \/ Lifespan
    \/ PoolMoves
    \/ \E r \in Requests : Ingest(r)
    \/ \E e \in Events : Background(e)

GatewaySpec == GatewayInit /\ [][GatewayNext]_gatewayVars

\* The loop runs every task that can run, and Kafka resolves every future; nothing
\* obliges a client to call.
GatewayFairness ==
    /\ \A r \in Requests : WF_gatewayVars(pc[r] # "idle" /\ Ingest(r))
    /\ WF_gatewayVars(PoolMoves /\ ~UNCHANGED future)
    /\ WF_gatewayVars(\E e \in Events : Background(e))

------------------------------------------------------------------------------
(* Properties *)

\* A single event stored directly is one whose send failed, as far as its producer
\* told: Kafka has not confirmed it, then or later (events_api_original.py:203-206).
SinglesStoredOnlyIfFailed ==
    \A r \in Requests, e \in Events :
        returned[r] \in {"True", "False"} /\ e \in payload[r] /\ stage[e] # "none"
            => future[e] # "ok"

\* Whatever was answered "accepted" is in Kafka or in every tier in the end, unless a
\* tier fails for it: with the breaker open, with sends that raise, and with futures
\* of a batch that fail after it was answered (lines 197-215 and 269-292).
Kept(e) == e \in written \/ e \in faulty \/ e \in hot \cap warm \cap search
AcceptedIsKept ==
    \A r \in Requests : (returned[r] # "none") ~> (\A e \in payload[r] : Kept(e))

\* At no moment between the pool's answer and the last tier is an accepted event out
\* of Kafka, out of the tiers and out of the background too: if the process dies, in
\* this state or any other, the events lost are those whose store_event has not ended
\* (lines 203-206, 274-281; multi_tier_storage.py:560-589).
InBackground(e) == stage[e] \in {"queued"} \cup Running
LostOnlyInBackground ==
    \A r \in Requests : returned[r] # "none" =>
        \A e \in payload[r] : Kept(e) \/ InBackground(e)

\* "Store failed events directly" (events_api_original.py:280): an event of a batch
\* that Kafka confirmed is not stored.
BatchStoresOnlyFailed ==
    \A r \in Requests : returned[r] = "0" =>
        \A e \in payload[r] : stage[e] # "none" => future[e] # "ok"
==============================================================================
