----------------------------- MODULE OrderStream -----------------------------
(***************************************************************************)
(* The source of the lab: events/generator.py builds a stream of order     *)
(* events with bounded disorder, writes it to the ground-truth file, and   *)
(* only then produces it to the partitions of the `orders` topic.          *)
(*                                                                         *)
(* A partition is an immutable sequence `log[p]` of every event built for  *)
(* it, and `hw[p]` is how many of them the broker has acknowledged, which  *)
(* is what a consumer can see.  The producer keeps the order within a      *)
(* partition (idempotence, acks=all) and none across partitions, so each   *)
(* partition's high-water mark moves on its own.  Offsets count from 0, as *)
(* in Kafka: the event at offset o is log[p][o + 1].                       *)
(***************************************************************************)
EXTENDS Integers, Sequences, FiniteSets

CONSTANTS
    Partitions,     \* partitions of the topic
    W,              \* cfg.lateness_window_ms
    StartMs,        \* event time of emission 0
    NumEvents,      \* n: events one run of the generator builds
    MaxRuns         \* how many times the generator is run on the same topic

ASSUME PartitionsAssumption == IsFiniteSet(Partitions) /\ Partitions # {}
ASSUME LatenessAssumption == W \in Nat \ {0}
ASSUME StartAssumption == StartMs \in Nat
ASSUME RunsAssumption == NumEvents \in Nat \ {0} /\ MaxRuns \in Nat \ {0}

VARIABLES
    log,            \* partition -> sequence of the events built for it
    hw,             \* partition -> number of them acknowledged by the broker
    groundTruth,    \* <<partition, offset>> of the events in the JSONL file
    index,          \* i: emissions built so far in this run
    createdPool,    \* created_pool: created orders not cancelled, and their partition
    phase,          \* "building" (build_events) or "producing" (produce)
    runs            \* the generator's run number

streamVars == <<log, hw, groundTruth, index, createdPool, phase, runs>>

STEP_MS == 1
EventTypes == {"order_created", "order_cancelled"}
OrderIds == Nat \X Nat
Events == [order : OrderIds, type : EventTypes, et : Nat]
Jitter == 0 .. (W - 1)

\* An event's identity is its place in the topic, <<partition, offset>>.
Prefix(cut) == UNION {{p} \X (0 .. cut[p] - 1) : p \in Partitions}
Coordinates == Prefix([p \in Partitions |-> Len(log[p])])
EventAt(c) == log[c[1]][c[2] + 1]
EventTime(c) == EventAt(c).et
Delivered == Prefix(hw)

StreamTypeOK ==
    /\ log \in [Partitions -> Seq(Events)]
    /\ hw \in [Partitions -> Nat]
    /\ \A p \in Partitions : hw[p] <= Len(log[p])
    /\ groundTruth \subseteq Partitions \X Nat
    /\ index \in Nat
    /\ createdPool \subseteq [order : OrderIds, partition : Partitions]
    /\ phase \in {"building", "producing"}
    /\ runs \in Nat

StreamInit ==
    /\ log = [p \in Partitions |-> <<>>]
    /\ hw = [p \in Partitions |-> 0]
    /\ groundTruth = {}
    /\ index = 0
    /\ createdPool = {}
    /\ phase = "building"
    /\ runs = 1

------------------------------------------------------------------------------
\* One iteration of build_events' loop appends one event; the key is the order
\* id, so an order's events share a partition.
Emit(order, type, p, jitter) ==
    /\ phase = "building"
    /\ index < NumEvents
    /\ log' = [log EXCEPT ![p] =
                  Append(@, [order |-> order, type |-> type,
                             et |-> StartMs + index * STEP_MS + jitter])]
    /\ index' = index + 1
    /\ UNCHANGED <<hw, groundTruth, phase, runs>>

CreateOrder(p, jitter) ==
    LET order == <<runs, index>>
    IN  /\ Emit(order, "order_created", p, jitter)
        /\ createdPool' = createdPool \cup {[order |-> order, partition |-> p]}

\* Mutant of CancelOrder: the event is keyed by its own id, not by its order's.
CancelOrderAnywhere(c, jitter) ==
    /\ \E p \in Partitions : Emit(c.order, "order_cancelled", p, jitter)
    /\ createdPool' = createdPool \ {c}

\* Mutant of CancelOrder: the order can be cancelled again.
CancelOrderKeepsPool(c, jitter) ==
    /\ Emit(c.order, "order_cancelled", c.partition, jitter)
    /\ UNCHANGED createdPool

\* A cancellation takes a created order out of the pool and repeats its id.
CancelOrder(c, jitter) ==
    /\ Emit(c.order, "order_cancelled", c.partition, jitter)
    /\ createdPool' = createdPool \ {c}

\* The file is opened for writing, so it holds this run's events and no others.
WriteGroundTruth ==
    /\ phase = "building"
    /\ index = NumEvents
    /\ groundTruth' = Coordinates \ Delivered
    /\ phase' = "producing"
    /\ UNCHANGED <<log, hw, index, createdPool, runs>>

\* The broker acknowledges the producer's next message for p.
Deliver(p) ==
    /\ phase = "producing"
    /\ hw[p] < Len(log[p])
    /\ hw' = [hw EXCEPT ![p] = @ + 1]
    /\ UNCHANGED <<log, groundTruth, index, createdPool, phase, runs>>

\* The generator is run again on the same topic: i and start_ms start over.
NewRun ==
    /\ phase = "producing"
    /\ Delivered = Coordinates
    /\ runs < MaxRuns
    /\ runs' = runs + 1
    /\ index' = 0
    /\ createdPool' = {}
    /\ phase' = "building"
    /\ UNCHANGED <<log, hw, groundTruth>>

StreamNext ==
    \/ \E p \in Partitions, jitter \in Jitter : CreateOrder(p, jitter)
    \/ \E c \in createdPool, jitter \in Jitter : CancelOrder(c, jitter)
    \/ WriteGroundTruth
    \/ \E p \in Partitions : Deliver(p)
    \/ NewRun

------------------------------------------------------------------------------
\* Rows of the file that GroundTruth.compute puts below t.
GroundTruthBelow(t) == {c \in groundTruth : EventTime(c) < t}

\* How late an event can be, however often the generator is run.
StreamInv ==
    /\ index <= NumEvents
    /\ \A p \in Partitions : \A a \in DOMAIN log[p] :
        log[p][a].et < StartMs + NumEvents + W

\* The generator's promise (its docstring, and the premise of the watermark):
\* within a partition no event is W or more older than one before it.
BoundedDisorder ==
    \A p \in Partitions : \A a, b \in DOMAIN log[p] :
        a < b => log[p][a].et - W < log[p][b].et
==============================================================================
