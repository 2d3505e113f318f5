# Verification of streaming-lab

TLA+ models of streaming-lab, TLC configurations that check them on small
instances, and TLAPS proofs of all the safety properties they hold to, for every size of
the system. Paths of the form `landing_job.py:159` are lines of the repository; its package
is `src/streaming_lab/`.

## 1. The system

streaming-lab sends order events from a generator through a Kafka-compatible
topic into two stores and answers queries from both.

| part | state it keeps | operations | talks to |
|---|---|---|---|
| event generator (`events/generator.py`) | index, pool of created orders, ground-truth file | build events with jitter, write the file, produce | topic |
| orders topic (Redpanda) | a log per partition, acknowledged high-water marks | append, fetch from an offset | generator, both consumers |
| landing job (`lake/landing_job.py`) | table handle, resume state, consumer positions, batch | load, assign, poll, flush, commit, exit | topic, Iceberg table |
| safe watermark (`lake/watermark.py`) | none | `compute_watermark` | landing job |
| Iceberg table (`lake/catalog.py`, pyiceberg) | snapshots with rows and a summary; one pointer | load, append (compare-and-swap of the pointer) | landing job, seam |
| ClickHouse (`realtime/clickhouse.py`, `docker/clickhouse/init.sql`) | MergeTree rows, consumer-group offsets | insert a block, commit offsets, count | topic, seam |
| seam query (`query/seam.py`) | T, lake side | read T, read the lake below T, read ClickHouse from T | table, ClickHouse |
| gateway producer pool (`gateway/async_kafka_producer.py`) | producers, circuit breaker, background queue | start, stop, send, send a batch, background batches | Kafka |
| gateway API (`gateway/events_api_original.py`) | the pool and the storage | ingest one event, ingest a batch | pool, storage tiers |
| naive store (`naive_mode/hybrid_source_of_truth.py`, `multi_tier_storage.py`) | topic, cold-storage objects, ClickHouse rows and pending DELETEs | dual write, replay, cleanup | Kafka, cold storage, ClickHouse |
| Flink reference jobs (`_materials/`) | session state, timers | windows, sessions; cannot run (section 6) | Kafka |

What is hard. The landing job keeps its progress inside the data (offsets, maxima
and T in the snapshot summary), so correctness is a relation between the table's
history, the process's memory and the log, at every point where the process may be
killed, and while a second process may be alive. T is computed incrementally from
partitions that are consumed at different speeds. The seam reads two systems in
three requests while both move. ClickHouse delivers at least once. The generator
may be run again on the same topic.

What makes each part correct: the generator's disorder within a partition is less
than W; the table holds every event below its offsets, once; every event below T is
in the table, and T never goes back; a job loses nothing when killed and leaves
nothing behind when it exits; an answer of the seam counts each event once, for as
long as ClickHouse does not redeliver, and exactly once below T even then.
The gateway keeps whatever it answers "accepted" in Kafka or in the tiers, its breaker
is consistent, and no queued event is sent twice or stuck. The naive store reports True
only for what it stored, its replay asks one source for each instant, and what a cleanup
takes from a replay had reached its age.
`PROJECT.json` lists the hazards line by line.

## 2. Modules

| module | models | notes |
|---|---|---|
| `OrderStream` | generator, ground-truth file, topic | an event's identity is `<<partition, offset>>`; `log` holds what was built, `hw` what the broker acknowledged |
| `Watermark` | `compute_watermark` | a Python dict is a function with `None` for a missing key |
| `LandingJob` | landing job and Iceberg table | extends the two above; one action per step of `__init__` and `run` |
| `LakeRows` | what a set of rows says by itself: partitions, extent, T | shared by the abstract lake and the jobs' refinement |
| `ExactlyOnceLake` | abstract: what readers may assume of the lake | rows are a growing set of prefixes, T is a function of the rows alone |
| `Realtime` | ClickHouse pipeline | external behaviour, from `create_pipeline` and `init.sql` |
| `Seam` | seam query over `ExactlyOnceLake` and `Realtime` | three reads, each an action |
| `Lab` | the whole pipeline: `LandingJob`, `Realtime` and the seam query over the jobs' own table | the query is an instance of `Seam` |
| `ProducerPool` | the gateway's Kafka producer pool | one action per stretch between two awaits |
| `Gateway` | ingest handlers and `store_event` over `ProducerPool` | storage tiers external |
| `NaiveStore` | dual write, replay and cleanup of the naive store | time in hours; tiers external |
| `MCLandingJob`, `MCSeam`, `MCLab`, `MCPool`, `MCGateway`, `MCNaiveStore` | model values, symmetry, the order of alike requests, smaller instances | |
| `LandingJobProofs`, `StreamProofs`, `LakeProofs`, `SeamProofs`, `LabProofs`, `ProducerPoolProofs`, `GatewayProofs`, `NaiveStoreProofs` | theorems | section 5 |

`LandingJob` implements `ExactlyOnceLake` (`ImplementsLake`), and `Seam` is built
on `ExactlyOnceLake`, so the seam's checks do not carry the jobs' states. `Lab` puts the
two together: the jobs' own table under the seam's queries, where a job may be killed or
commit between a query's reads. It implements `Seam` (`ImplementsSeam`).

State and actions of `LandingJob`. `snapshots` is the table's history; `base[j]` is
the version of `self.tbl`; `state[j]` is `self.state`; `pos[j]` is the consumer's
position; `batch[j]` is the local variable of `run`. `LoadTable` is line 105,
`ReadResumeState` lines 107-123 and the first lines of `run`; they are two actions
because they are two loads. `Poll` is one message; the choice to flush below the
batch size is `batch_max_seconds` having passed. `FlushOnTimeout` and `IdleExit` are
the two branches of `msg is None`. `SwapPointer` is `tbl.append`; it succeeds only if
the table is still at the handle's version (pyiceberg's optimistic commit), and
`CommitConflict` is the exception otherwise, which nothing catches. `Advance` is lines
161-165 and what `run` does after `_commit_batch`. `Crash` is a SIGKILL between any
two steps.

State and actions of `ProducerPool`. The pool lives in one asyncio loop, so a task runs
alone from one await to the next: `SendEvent` is the call up to `producer.send`,
`SendTaken` its return with a future, `SendReturns` what follows the future's result;
`GatherItem` is one of the coroutines of `send_batch`. `pc[c]` says at which await a
task is. aiokafka is external: `send()` takes the event or raises, the future is
confirmed or fails, and a failed one may have been written. The breaker's clock is the
flag `expired`. The order in which the worker takes the topics of its batch is left
open. In `Gateway` a request goes on from the pool's return to its answer without an
await, so `Ingest` is the pool's step together with `Answers`, and the background
tasks of one request run one after the other (`StoreHot`, `Count`, `Insert`, `Index`).
The Redis client repeats a call that timed out (`multi_tier_storage.py:82`), also one that
took effect; `RedisTries` is how often it sends one `INCR`, and `Count` raises the counter
by 1 to `RedisTries`, or from 0 when the call fails in the end.
Keyword arguments of external clients are taken as valid.

State and actions of `NaiveStore`. `call[c]` is one `store_event_with_durability`:
`StoreToKafka` and `StoreToColdStorage` are its two awaited writes, each of which may
succeed, fail, or fail after it was made. `replay[r]` is one
`replay_events_from_source`: `BeginReplay` takes the cutoffs and the range of Kafka,
`QueryClickHouse` is the query, `SendRow` one `send_event` of the loop, `SendRaises` the
exception that makes the count 0, and `Finish` the range of cold storage. The loop counts
a row whatever `send_event` answers, and a count of 0 may follow rows that were sent, so
the reported count is in the model and no property is about it.
`CleanupExpiredData` posts a DELETE with the cutoff of that moment; ClickHouse executes
it later (`ExecuteDelete`), or fails to. `Kill` ends the process. What the code does
not do is not in the model: `_replay_from_kafka` reads nothing, the daily listing of
cold storage returns nothing, a row is converted to an empty event. `MultiTierStorage`
gets its clients from its caller and in this repository never a `kafka_producer`, so
which tiers exist is the constant `Tiers`. Timestamps without a zone are taken as UTC,
as `utcnow()` gives them. `DataRetentionPolicy` does not compare its two ages;
`NaiveAssumption` says that they are in the order of its defaults. `put_object` passes
a dictionary where boto3 wants keyword arguments, so its write ends in the branch that
returns False; `Outcomes` keeps the success too, which only a client with another
signature would give.

Abstractions. Amounts, users and ids are left out: no property is about them except
through the pairing of creations and cancellations. A second run of the generator
draws other order ids than the first (another seed); with the same seed it repeats
them, so `OrdersCountOnce`, the one property that would tell, is proved for one run only. Outside `NaiveStore` time is not modelled:
a timeout is a choice that may be taken whenever the code would look at the clock. A
record that does not decode ends its job as a kill does, and ends the next one too:
`Crash` is that job, and nothing later in the partition lands. A topic that is deleted,
and a pipeline that is created again under the same group, are hazards left uncovered
(section 6).

## 3. Runs

Every configuration turns deadlock checking off: a finite stream ends, and so does
the system.

| run | question | bounds |
|---|---|---|
| `landing_disorder` | is T safe, backed by rows, in agreement with the ground truth, and the T of the whole table; does each order count once; does an idle exit leave nothing | 2 partitions, 4 events, W = 3, batches of 2, no kill |
| `landing_two` | are rows and offsets one, does each event land once, do offsets, maxima and T only go forward, does every version pair its cancellations, does the table refine the abstract lake, with two racing jobs, a kill and the generator run twice | 2 partitions, 2 runs of 2 events, `max_batches` 2, one kill |
| `landing_live` | does everything delivered land | 2 jobs, 3 events, one kill |
| `lab` | does the pipeline count each event once, and agree with the ground-truth file once ClickHouse has caught up; is it the seam over the abstract lake | 1 partition, 3 events, W = 3, one job and a kill, 1 query, no restart of ClickHouse |
| `lab_pairs` | does an answer subtract only orders it adds, when ClickHouse was not behind the table | 1 partition filled before it is read, 4 events, W = 3, one job, no kill, 1 query |
| `seam_redelivery` | is an answer exact until ClickHouse redelivers, what survives it, does a later query keep what an earlier one counted, can `wait_for_count` be trusted until then | 1 partition, 3 creations, W = 3, 2 queries, one restart |
| `pool` | is a reported success in Kafka, is the breaker consistent, is no queued event held twice, does each queued event and each waiting caller go on | 3 calls, 2 topics, batches of 2, a queue of 1, threshold 2, a stop |
| `gateway` | is a single event stored only when its send failed; is everything accepted kept in the end, and at every moment either kept or with a background task; is no event counted more often than one `INCR` is sent | 2 requests, 2 events, threshold 1, faulty tiers, an `INCR` sent twice at most |
| `naive_store` | are answers true, do the sources partition a replay's range, what can cleanup take from a replay | one store and one replay, 4 timestamps, an hour before midnight, ages of 1 day and 1 month |
| `rerun_is_unsafe` | violated: T after a second run of the generator | 1 partition, 2 runs of 3 events |
| `cancelled_without_created` | violated: a cancellation subtracted alone | W = 3, ClickHouse behind |
| `batch_stored_twice` | violated: "Store failed events directly" | 1 batch |

Two partitions are the fewest with a fast and a slow one. Event times advance by 1, so
W = 3 is the least with which a later event of a partition can be older than an earlier
one; with four events each partition can be unseen, in disorder, in a partial batch and
in a full one, and T can pass an event. Two jobs and one kill give every race for the
pointer; the proofs cover any number. `StartMs` is 5 so that T > 0 once it moves, as in
the code, where event times are about 1.7e12 and W about 1000. Kills are in
`landing_two` and `landing_live`; where a run has none, the theorems of section 5 cover
them. In `seam_redelivery` every event creates an order (`CreationsSpec`): the properties it
checks do not tell the types apart. In `lab` an event's jitter is 0 or W - 1
(`ExtremesSpec`), with which a later event can be older than an earlier one, T can pass one
of two events of an order and not the other, and an event can be exactly at T. Three
events are too few for a cancellation to lie below T: T is then at most
`StartMs` + 1, and a cancellation at least that. With four, in `lab_pairs`, a cancellation
can be below T, on the lake's side, and its creation at T, on ClickHouse's, which is what
`LabAnswersPair` is about and what its mutant takes away. To stay small that run fills
the topic first (`FilledSpec`), which costs no answer, since each reader takes its records
when it likes, and never commits the consumer group's offsets, which only a restart of
ClickHouse would read. These runs
have one partition, because what several add, a T held back by the slowest, is the
lake's and is checked in `landing_disorder`; racing jobs are in `landing_two`.

`naive_store` begins at hour 1007. Kafka then keeps what is not older than hour 983 and
ClickHouse what is not older than 287; the four timestamps are the hour before
ClickHouse's cutoff, the two cutoffs and one between them, and a range may begin or end
before both cutoffs, just after either, or now. One tick is enough to move both cutoffs
past an event while a replay runs, and to change the day.

`LostOnlyInBackground` is the safety side of `AcceptedIsKept`: it says at every state
what a kill at that state would lose.

For the gateway a queue of 1 is full as soon as one event waits, a batch of 2 can be
full or partial, a threshold of 2 tells one failure from a row of them, and three calls
give a send that succeeds late among sends that fail. `MCPool` and `MCGateway` fix who
calls first and with which event: requests are alike and so are events, and symmetry
sets cannot be used with liveness. For the API one failure or a row of them makes no
difference beyond the breaker, which `pool` checks.

Fairness (`landing_live`). `WF_vars(JobStep(j))` for each job: a running process takes
its steps, its poll loop sees the clock go on, and a job that ended is started again,
as the README's recovery story and `docker compose` assume. No fairness for the
generator (what is delivered must land, what is not need not), none for kills, idle
exits or ClickHouse. Kills are bounded: with a kill after every load nothing lands.

Fairness (`pool`, `gateway`). The event loop runs every task that can run
(weak fairness of the worker, of a request that has begun and of the background tasks),
a task waiting in `put()` is woken in turn (strong fairness, since asyncio's queue keeps
its waiters in order) and aiokafka resolves every future, with a timeout if need be. No
fairness for new calls, for `circuit_timeout` passing or for a stop.

## 4. Findings

The violated runs show where a document and the code disagree; `PROJECT.json` quotes
the lines.

- `rerun_is_unsafe`: a second `make demo-pipeline` on the same topic starts again at the
  same time and puts events below a T the lake has already published.
- `cancelled_without_created`: an answer taken while ClickHouse lags behind the lake can
  subtract an order it never added.
- `batch_stored_twice`: `send_batch` returns 0 whatever was sent, so every event of a
  batch is stored directly besides being in Kafka. A side effect is that a future that
  fails after the answer loses nothing: a count taken from the futures without awaiting
  them would break `AcceptedIsKept`.

That the two writes of the naive store come apart when one fails is no finding: it is the
bug the repository says the naive mode exists to show.

## 5. Proofs

The theorems hold for all finite sets of partitions, any jobs, queries, calls and
events, and any bounds. What they assume of the constants is named in the modules
(`StreamAssumption`, `PoolAssumption`, `NaiveAssumption`, ...) or in the theorem.

`LandingJobProofs`:

- `TypeCorrect`: `Spec => []TypeOK`
- `ConsumedCorrect`: the inductive invariant `ConsumedIsLandedOrBatched`
- `OffsetsCorrect`: `RowsMatchOffsets`
- `ExactlyOnce`: `NoDuplicateRows`

`RowsMatchOffsets` is not inductive: it does not say what a job is about to commit.
The strengthening says that a job whose handle is current resumed from the current
snapshot and holds in its batch exactly what lies between the resume offsets and its
positions; a job whose handle is stale may hold anything, because the compare-and-swap
will refuse it. The only step that uses the strengthening is `SwapPointer`; the lemma
`OffsetsArePositions` is its core: the offsets computed from such a batch are the
consumer's positions.

`StreamProofs` holds the lemmas about the topic that the others share: minima and
maxima of sets of integers, that what was delivered never changes, how many events there
are after so many emissions (`SizeInv`), that an order is created and cancelled by one
event each (`OnceInv`) and the first before the second (`PairInv`), the disorder the
generator keeps within one run, and `SafeT`, the T of a set of rows: it is backed by a
row of every partition and grows with the rows.

`LakeProofs` proves, with `MaxRuns = 1` (the run `rerun_is_unsafe` shows why),

- `DisorderIsBounded`: the generator's promise about the log
- `MarksCorrect`: every stored maximum is the event time of a landed row, and T is W or
  more below a landed row of every partition
- `WatermarkCorrect`: `WatermarkSafe`

The argument: an event below T that is not landed would lie after the landed row that
backs T in its partition, and be W or more older than it.

and, for any number of runs of the generator,

- `Implements`: `Spec => ImplementsLake`. The invariant `CurrentMarks` says that the
  stored maxima are those of all rows, so that the T a commit keeps incrementally is
  `SafeT` of the rows; a commit is then a step of the abstract lake, and every other
  step a stutter or a step of the stream
- `HistoryCorrect`: `HistoryIsMonotone`. A commit by a job whose handle is current starts
  from the newest summary, and `MergedMaxIsMax` says that merging a batch lowers no
  partition's maximum, also where a second run of the generator is older
- `CleanExitCorrect`: `CleanExitLandsEverything`, for both clean exits; the run has the idle
  exit only
- `CancellationsPaired`: `NoCancellationWithoutCreation`. The log puts a creation before
  its cancellation in the same partition (`PairInv`), and the rows are prefixes

and with `MaxRuns = 1` again

- `GroundTruthCorrect`: `LakeMatchesGroundTruth`
- `OrdersCorrect`: `OrdersCountOnce`. Two rows with one order and type are one event by
  `OnceInv`, and by `NoDuplicateRows` one row. `OnceInv` is not only about the log: an
  order in the pool must have no cancellation yet, and an order of this run a number
  below `index`

`SeamProofs` works on the abstract lake:

- `SeamTypeCorrect`: `SeamTypeOK`
- `BelowTCorrect`, `AtLeastOnceCorrect`, `LaterAnswersCorrect` (`MaxRuns = 1`):
  `ExactlyOnceBelowT`, `SeamAtLeastOnce`, `LaterAnswersKeepEvents`
- `ExactlyOnceCorrect` (`MaxRuns = 1`): `SeamExactlyOnce`, which speaks of the time until
  ClickHouse is first restarted
- `PairsCorrect` (`MaxRuns = 1`): `CaughtUpAnswersPair`
- `CountCorrect`, for any number of runs: `CountMeansCaughtUp`

The argument: every event below T, present or to come, is a row, so the lake's side does
not change after T was read, and the two sides are divided by T, which each query reads
once. For `CaughtUpAnswersPair` the invariant also says that ClickHouse's side of an
answer has no gap: with an event it holds every earlier one of the partition that is not
below T. So a cancellation counted by ClickHouse has its creation counted too, by
ClickHouse or, below T, by the lake; one counted by the lake has it below T, or else in
ClickHouse since before the query, which is what `WasAhead` asks for.
`CountMeansCaughtUp` needs no
sum over the partitions: until a restart each row of the table is another event, so the
rows are no more than the events in it (an injection), these are among the
`NumEvents * runs` built (`SizeInv`), and a subset of the same size is the whole set.

`LabProofs` carries all of this to the pipeline:

- `LabImplements`: `LabSpec => ImplementsSeam`. A step of a job is a step of the abstract
  lake (the lemmas of `Implements`), a step of ClickHouse or of a query is itself
- `LabOnce`, `LabGroundTruth`, `LabPairs` (`MaxRuns = 1`): `LabExactlyOnce`,
  `LabMatchesGroundTruth`, `LabAnswersPair`
- `LabAnswers` (`MaxRuns = 1`): the seam's other properties

The theorems of `SeamProofs` are used as those of an instance, with the table's rows for
`rows`; an instance gives every definition another name, and the lemmas `SameLake`,
`SameRealtime`, `SameSeam` and `SameProperties` say that the names stand for the same.
`LabExactlyOnce` includes `NoDuplicateRows`: `lake_count` is a number of rows, which only
then is the number of events.

`ProducerPoolProofs` proves, for any tasks, events and threshold,

- `BreakerCorrect`: `BreakerAgrees`. Every step changes the breaker in one of three ways
  (`StepsTheBreaker`), and each keeps flag and count together
- `TrueIsWritten`: `TrueMeansWritten`. The invariant adds that a confirmed future is an
  event in Kafka and that a call that returned is over; `Honest` is what a step may do
  to these, and every action is shown to be honest
- `PoolTypeCorrect`: `PoolTypeOK`
- `QueuedOnceCorrect`: `QueuedOnce`. The invariant: an event belongs to one call
  (`Owned`), the worker holds a batch only between taking it and sending its last topic
  (`Tidy`), and what is queued, what is held and not yet sent, and what is sent or
  dropped are disjoint (`OnePlace`)

`GatewayProofs` proves that the gateway's steps are the pool's (`GatewayUsesPool`), so
what the handlers take from it, `TrueMeansWritten` and `BreakerAgrees`, holds in the gateway
(`GatewayInherits`), and

- `GatewayTypeCorrect`: `GatewayTypeOK`, with the counter bounded by `RedisTries` times the
  background tasks that have passed it, for any `RedisTries`
- `SinglesCorrect`: `SinglesStoredOnlyIfFailed`: an event is stored for a call that
  answered False or 0, and a send that failed stays failed
- `LostCorrect`: `LostOnlyInBackground`

`NaiveStoreProofs` proves `NaiveTypeOK`, `AnswersAreTrue`, `ReplayAsksEachInstantOnce` and
`MissedRowsAgedMeanwhile`, for any ages with Kafka's the shorter.
`MissedRowsAgedMeanwhile` rests on every pending DELETE having the cutoff of an earlier
moment.

Left to TLC: `EverythingLands`, `QueuedSettles` and `AcceptedIsKept`, which are liveness and
out of the prover's reach. Every other property of a passing run is a theorem, with the
number of runs of the generator it needs; the violated properties are not theorems.

## 6. Not modelled

- The Flink reference jobs (`_materials/flink-reference/`) cannot run: each `main()`
  uses `CheckpointingMode` without importing it, they import modules the repository does
  not have, and their session trackers raise `UnboundLocalError` on the first event of a
  key. There is no behaviour to be faithful to.
- `delete_topic` and `create_topic` on a topic whose offsets a table keeps, and
  `create_pipeline` over a used consumer group: only tests do either, each with fresh
  names. What follows depends on Redpanda's and ClickHouse's answers to an offset past
  the end of a log, of which the repository says nothing.
- `flush()` of the generator returning with messages left: the properties are about the
  events that were delivered, and the ground-truth file is compared when all were.
- `INCR` and `EXPIRE` of the rate counter as two requests: a kill between them leaves a
  counter without an age, and only the current minute's counter is read.
- Query, health and metrics endpoints and the reads of the tiers, which change nothing, and
  the writes nothing calls (`delete`, `batch_put`, `add_to_sorted_set`).
- Creation of the catalog and of the schema, configuration, containers and CI.

What could be added: the tiers' reads against their writes, once the code reads them.
