------------------------------- MODULE Realtime -------------------------------
(***************************************************************************)
(* The real-time layer: realtime/clickhouse.py creates a Kafka-engine      *)
(* table, a materialized view and a MergeTree table, and ClickHouse then   *)
(* consumes the topic in a consumer group of its own, independently of the *)
(* landing job.  ClickHouse itself is external: it inserts a block of      *)
(* messages, then commits their offsets to the group, and a restart        *)
(* between the two reads the block again (FINDINGS L2: at-least-once).     *)
(***************************************************************************)
EXTENDS OrderStream, FiniteSetsExt

CONSTANTS
    MaxChRestarts   \* bound: restarts of the ClickHouse consumer

ASSUME RestartsAssumption == MaxChRestarts \in Nat

VARIABLES
    chCopies,       \* partition -> sequence: rows of each offset in the table
    chPos,          \* partition -> next offset the Kafka engine polls
    chGroup,        \* partition -> offset committed to the consumer group
    chRestarts

chVars == <<chCopies, chPos, chGroup, chRestarts>>

Copies(copies, c) ==
    IF c[2] < Len(copies[c[1]]) THEN copies[c[1]][c[2] + 1] ELSE 0

InClickHouse == {c \in Delivered : Copies(chCopies, c) > 0}

RealtimeTypeOK ==
    /\ chCopies \in [Partitions -> Seq(Nat)]
    /\ chPos \in [Partitions -> Nat]
    /\ chGroup \in [Partitions -> Nat]
    /\ \A p \in Partitions : chGroup[p] <= chPos[p] /\ chPos[p] <= hw[p]
    /\ chRestarts \in 0 .. MaxChRestarts

\* create_pipeline on a topic: an empty table and a group with no offsets,
\* which starts at the beginning.
CreatePipeline ==
    /\ chCopies = [p \in Partitions |-> <<>>]
    /\ chPos = [p \in Partitions |-> 0]
    /\ chGroup = [p \in Partitions |-> 0]
    /\ chRestarts = 0

\* Mutant of InsertRange: the block overlaps the one before it.
InsertOverlap(copies, from, to) ==
    [i \in 1 .. Max({Len(copies), to}) |->
        (IF i <= Len(copies) THEN copies[i] ELSE 0)
        + (IF from <= i /\ i <= to THEN 1 ELSE 0)]

\* One more row for each offset from `from` up to, not including, `to`.
InsertRange(copies, from, to) ==
    [i \in 1 .. Max({Len(copies), to}) |->
        (IF i <= Len(copies) THEN copies[i] ELSE 0)
        + (IF from < i /\ i <= to THEN 1 ELSE 0)]

\* The materialized view pushes one block of polled messages into the table.
ChInsertBlock ==
    \E next \in [Partitions -> 0 .. NumEvents * MaxRuns] :
        /\ \A p \in Partitions : chPos[p] <= next[p] /\ next[p] <= hw[p]
        /\ next # chPos
        /\ chCopies' = [p \in Partitions |->
                            InsertRange(chCopies[p], chPos[p], next[p])]
        /\ chPos' = next
        /\ UNCHANGED <<chGroup, chRestarts>>

\* The block's offsets are committed to the group after the insert.
ChCommitOffsets ==
    /\ chGroup # chPos
    /\ chGroup' = chPos
    /\ UNCHANGED <<chCopies, chPos, chRestarts>>

\* Mutant of ChRestart: the group's offsets are ignored.
ChRestartFromBeginning ==
    /\ chRestarts < MaxChRestarts
    /\ chRestarts' = chRestarts + 1
    /\ chPos' = [p \in Partitions |-> 0]
    /\ UNCHANGED <<chCopies, chGroup>>

\* A restart resumes from the group's offsets.
ChRestart ==
    /\ chRestarts < MaxChRestarts
    /\ chRestarts' = chRestarts + 1
    /\ chPos' = chGroup
    /\ UNCHANGED <<chCopies, chGroup>>

ChNext == ChInsertBlock \/ ChCommitOffsets \/ ChRestart

\* The table's rows: each copy of each event.
ChRows == UNION {{c} \X (1 .. Copies(chCopies, c)) : c \in Delivered}

\* SELECT count() FROM target
TotalCount == Cardinality(ChRows)

\* wait_for_count returns before its timeout once this holds.
CountReached(expected) == TotalCount >= expected

\* Mutants of SeamSide: event_time > t, and no WHERE clause.
SeamSideAbove(t) ==
    [p \in Partitions |-> [i \in DOMAIN chCopies[p] |->
        IF log[p][i].et > t THEN chCopies[p][i] ELSE 0]]

SeamSideWhole(t) == chCopies

\* SELECT ... WHERE event_time >= t
SeamSide(t) ==
    [p \in Partitions |-> [i \in DOMAIN chCopies[p] |->
        IF log[p][i].et >= t THEN chCopies[p][i] ELSE 0]]
==============================================================================
