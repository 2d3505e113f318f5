------------------------------ MODULE LandingJob ------------------------------
(***************************************************************************)
(* lake/landing_job.py: consumers of the `orders` topic that append micro- *)
(* batches to an Iceberg table.  A commit puts the rows, the next offsets, *)
(* the per-partition maxima and the watermark T into ONE snapshot, and the *)
(* next process resumes from whatever the current snapshot says.           *)
(*                                                                         *)
(* `snapshots` is the table's history; a reader of version n sees the rows *)
(* of snapshots 1..n.  A job is a process of that module: it may be killed *)
(* between any two steps, and several of them may run at once, each with   *)
(* the table handle it loaded (`base`) and the state it read (`state`).    *)
(***************************************************************************)
EXTENDS OrderStream, Watermark

CONSTANTS
    Jobs,           \* landing-job processes
    BatchMax,       \* cfg.batch_max_events
    IdleExits,      \* TRUE when the job is run with --idle-exit-ms
    MaxBatches,     \* --max-batches, 0 for no limit
    MaxCrashes      \* bound: processes killed in one behaviour

ASSUME JobAssumption ==
    /\ BatchMax \in Nat \ {0} /\ MaxBatches \in Nat /\ MaxCrashes \in Nat
    /\ IdleExits \in BOOLEAN

VARIABLES
    snapshots,      \* the table: sequence of [rows, summary]
    pc,             \* job -> where its control is
    base,           \* job -> version of its table handle self.tbl
    state,          \* job -> self.state, the ResumeState
    pos,            \* job -> partition -> next offset its consumer fetches
    batch,          \* job -> coordinates of the records in `batch`
    committed,      \* job -> batches committed, counted when MaxBatches > 0
    leaving,        \* job -> TRUE once run() will break after this commit
    crashes

jobVars == <<pc, base, state, pos, batch, committed, leaving>>
vars == <<streamVars, snapshots, jobVars, crashes>>

Dicts == [Partitions -> Nat \cup {None}]
EmptyDict == [p \in Partitions |-> None]
Summaries == [offsets : Dicts, partMax : Dicts, wm : Nat, seq : Nat]
EmptySummary == [offsets |-> EmptyDict, partMax |-> EmptyDict, wm |-> 0, seq |-> 0]
Snapshots == [rows : SUBSET (Partitions \X Nat), summary : Summaries]

Version == Len(snapshots)
Summary(n) == IF n = 0 THEN EmptySummary ELSE snapshots[n].summary
TableRows(n) == UNION {snapshots[m].rows : m \in 1 .. n}
Landed == TableRows(Version)
CurrentT == Summary(Version).wm

\* Mutant of Resume: a partition with no stored offset is assigned -1.
ResumeBeforeBeginning(s) == [p \in Partitions |-> Get(s.offsets, p, -1)]

\* Where a consumer assigned from summary s starts: OFFSET_BEGINNING is 0.
Resume(s) == [p \in Partitions |-> Get(s.offsets, p, 0)]

On(b, p) == {c \in b : c[1] = p}

\* Mutant of NextOffsets: the largest offset of the batch, not the one after it.
LastOffsets(s, b) ==
    [p \in Partitions |->
        IF On(b, p) = {} THEN s.offsets[p]
        ELSE Max({Get(s.offsets, p, 0)} \cup {c[2] : c \in On(b, p)})]

NextOffsets(s, b) ==
    [p \in Partitions |->
        IF On(b, p) = {} THEN s.offsets[p]
        ELSE Max({Get(s.offsets, p, -1)} \cup {c[2] + 1 : c \in On(b, p)})]

\* Mutant of MergedMax: the batch's maximum replaces the stored one.
BatchMaxima(s, b) ==
    [p \in Partitions |->
        IF On(b, p) = {} THEN s.partMax[p]
        ELSE Max({EventTime(c) : c \in On(b, p)})]

MergedMax(s, b) ==
    [p \in Partitions |->
        IF On(b, p) = {} THEN s.partMax[p]
        ELSE Max({Get(s.partMax, p, 0)} \cup {EventTime(c) : c \in On(b, p)})]

\* The snapshot properties _commit_batch computes for batch b on top of s.
NewSummary(s, b) ==
    [offsets |-> NextOffsets(s, b),
     partMax |-> MergedMax(s, b),
     wm |-> ComputeWatermark(MergedMax(s, b), W, s.wm, Cardinality(Partitions)),
     seq |-> s.seq + 1]

------------------------------------------------------------------------------
TypeOK ==
    /\ StreamTypeOK
    /\ snapshots \in Seq(Snapshots)
    /\ pc \in [Jobs -> {"down", "loaded", "poll", "append", "swapped", "closed"}]
    /\ base \in [Jobs -> Nat]
    /\ state \in [Jobs -> Summaries]
    /\ pos \in [Jobs -> [Partitions -> Nat]]
    /\ batch \in [Jobs -> SUBSET (Partitions \X Nat)]
    /\ committed \in [Jobs -> Nat]
    /\ leaving \in [Jobs -> BOOLEAN]
    /\ crashes \in Nat

Origin == [p \in Partitions |-> 0]

Init ==
    /\ StreamInit
    /\ snapshots = <<>>
    /\ pc = [j \in Jobs |-> "down"]
    /\ base = [j \in Jobs |-> 0]
    /\ state = [j \in Jobs |-> EmptySummary]
    /\ pos = [j \in Jobs |-> Origin]
    /\ batch = [j \in Jobs |-> {}]
    /\ committed = [j \in Jobs |-> 0]
    /\ leaving = [j \in Jobs |-> FALSE]
    /\ crashes = 0

------------------------------------------------------------------------------
\* The process is gone, and what it held in memory with it.
Forget(j) ==
    /\ pc' = [pc EXCEPT ![j] = "down"]
    /\ base' = [base EXCEPT ![j] = 0]
    /\ state' = [state EXCEPT ![j] = EmptySummary]
    /\ pos' = [pos EXCEPT ![j] = Origin]
    /\ batch' = [batch EXCEPT ![j] = {}]
    /\ committed' = [committed EXCEPT ![j] = 0]
    /\ leaving' = [leaving EXCEPT ![j] = FALSE]

\* __init__ loads the table handle it will append to ...
LoadTable(j) ==
    /\ pc[j] \in {"down", "closed"}
    /\ pc' = [pc EXCEPT ![j] = "loaded"]
    /\ base' = [base EXCEPT ![j] = Version]
    /\ UNCHANGED <<streamVars, snapshots, state, pos, batch, committed, leaving,
                   crashes>>

\* ... and only then loads it again to read the resume state and to assign the
\* consumer; run() starts with an empty batch.  Another job may commit between
\* the two loads.
ReadResumeState(j) ==
    /\ pc[j] = "loaded"
    /\ pc' = [pc EXCEPT ![j] = "poll"]
    /\ state' = [state EXCEPT ![j] = Summary(Version)]
    /\ pos' = [pos EXCEPT ![j] = Resume(Summary(Version))]
    /\ batch' = [batch EXCEPT ![j] = {}]
    /\ committed' = [committed EXCEPT ![j] = 0]
    /\ leaving' = [leaving EXCEPT ![j] = FALSE]
    /\ UNCHANGED <<streamVars, snapshots, base, crashes>>

\* poll() returns the next record of p.  The batch is flushed when it is full
\* and, on any message, when batch_max_seconds have passed since the last flush.
Poll(j, p) ==
    /\ pc[j] = "poll"
    /\ pos[j][p] < hw[p]
    /\ batch' = [batch EXCEPT ![j] = @ \cup {<<p, pos[j][p]>>}]
    /\ pos' = [pos EXCEPT ![j][p] = @ + 1]
    /\ \/ pc' = [pc EXCEPT ![j] = "append"]
       \/ Cardinality(batch'[j]) < BatchMax /\ pc' = pc
    /\ UNCHANGED <<streamVars, snapshots, base, state, committed, leaving, crashes>>

\* Mutant of FlushOnTimeout: a batch that is not full waits for more messages.
FlushWhenFull(j) ==
    /\ pc[j] = "poll"
    /\ Cardinality(batch[j]) >= BatchMax
    /\ pc' = [pc EXCEPT ![j] = "append"]
    /\ UNCHANGED <<streamVars, snapshots, base, state, pos, batch, committed,
                   leaving, crashes>>

\* poll() returns None and batch_max_seconds have passed since the last flush.
FlushOnTimeout(j) ==
    /\ pc[j] = "poll"
    /\ batch[j] # {}
    /\ pc' = [pc EXCEPT ![j] = "append"]
    /\ UNCHANGED <<streamVars, snapshots, base, state, pos, batch, committed,
                   leaving, crashes>>

\* Mutant of IdleExit: the last batch is not flushed.
IdleExitAtOnce(j) ==
    /\ IdleExits
    /\ pc[j] = "poll"
    /\ pc' = [pc EXCEPT ![j] = "closed"]
    /\ UNCHANGED <<streamVars, snapshots, base, state, pos, batch, committed,
                   leaving, crashes>>

\* poll() returns None and idle_exit_ms have passed since the last message.
IdleExit(j) ==
    /\ IdleExits
    /\ pc[j] = "poll"
    /\ IF batch[j] # {}
       THEN /\ pc' = [pc EXCEPT ![j] = "append"]
            /\ leaving' = [leaving EXCEPT ![j] = TRUE]
       ELSE /\ pc' = [pc EXCEPT ![j] = "closed"]
            /\ UNCHANGED leaving
    /\ UNCHANGED <<streamVars, snapshots, base, state, pos, batch, committed, crashes>>

\* Mutant of SwapPointer: the pointer is set whatever version the table is at.
SwapPointerBlindly(j) ==
    /\ pc[j] = "append"
    /\ snapshots' = Append(snapshots,
                        [rows |-> batch[j], summary |-> NewSummary(state[j], batch[j])])
    /\ base' = [base EXCEPT ![j] = Version + 1]
    /\ pc' = [pc EXCEPT ![j] = "swapped"]
    /\ UNCHANGED <<streamVars, state, pos, batch, committed, leaving, crashes>>

\* tbl.append: the data file is written, then the catalog pointer is swapped if
\* the table is still at the handle's version.  A kill before the swap leaves a
\* file no snapshot names.
SwapPointer(j) ==
    /\ pc[j] = "append"
    /\ base[j] = Version
    /\ snapshots' = Append(snapshots,
                        [rows |-> batch[j], summary |-> NewSummary(state[j], batch[j])])
    /\ base' = [base EXCEPT ![j] = Version + 1]
    /\ pc' = [pc EXCEPT ![j] = "swapped"]
    /\ UNCHANGED <<streamVars, state, pos, batch, committed, leaving, crashes>>

\* CommitFailedException: nobody catches it, run() closes the consumer and dies.
CommitConflict(j) ==
    /\ pc[j] = "append"
    /\ base[j] # Version
    /\ Forget(j)
    /\ UNCHANGED <<streamVars, snapshots, crashes>>

\* Mutant of Advance: the batch is not emptied.
AdvanceKeepingBatch(j) ==
    /\ pc[j] = "swapped"
    /\ state' = [state EXCEPT ![j] = Summary(base[j])]
    /\ pc' = [pc EXCEPT ![j] = IF leaving[j] THEN "closed" ELSE "poll"]
    /\ UNCHANGED <<streamVars, snapshots, base, pos, batch, committed, leaving,
                   crashes>>

\* append() returned: only now does the in-memory state move on, to the values
\* the commit has just written.
Advance(j) ==
    LET n == IF MaxBatches > 0 THEN committed[j] + 1 ELSE 0
    IN  /\ pc[j] = "swapped"
        /\ state' = [state EXCEPT ![j] = Summary(base[j])]
        /\ batch' = [batch EXCEPT ![j] = {}]
        /\ committed' = [committed EXCEPT ![j] = n]
        /\ pc' = [pc EXCEPT ![j] =
                     IF leaving[j] \/ (MaxBatches > 0 /\ n >= MaxBatches)
                     THEN "closed" ELSE "poll"]
        /\ UNCHANGED <<streamVars, snapshots, base, pos, leaving, crashes>>

\* The process is killed.
Crash(j) ==
    /\ pc[j] \notin {"down", "closed"}
    /\ crashes < MaxCrashes
    /\ crashes' = crashes + 1
    /\ Forget(j)
    /\ UNCHANGED <<streamVars, snapshots>>

\* What a running job does by itself, and what an operator does: start it.
JobStep(j) ==
    \/ LoadTable(j)
    \/ ReadResumeState(j)
    \/ \E p \in Partitions : Poll(j, p)
    \/ FlushOnTimeout(j)
    \/ SwapPointer(j)
    \/ CommitConflict(j)
    \/ Advance(j)

Next ==
    \/ StreamNext /\ UNCHANGED <<snapshots, jobVars, crashes>>
    \/ \E j \in Jobs : JobStep(j) \/ IdleExit(j) \/ Crash(j)

Spec == Init /\ [][Next]_vars

\* Killed jobs are restarted, and a job that can take a step takes one.
FairSpec == Spec /\ \A j \in Jobs : WF_vars(JobStep(j))

------------------------------------------------------------------------------
(* Safety *)

\* No event is in two snapshots: across crashes, restarts on the stored offsets
\* and two jobs racing for the same offsets, a row is appended once.
NoDuplicateRows ==
    \A m, n \in 1 .. Version : m < n => snapshots[m].rows \cap snapshots[n].rows = {}

\* "Offsets + data commit together": in every version of the table the rows are
\* exactly the events below the offsets the same snapshot stores.  One row more
\* is a duplicate after the next restart, one less is lost for good.
RowsMatchOffsets ==
    \A n \in 0 .. Version : TableRows(n) = Prefix(Resume(Summary(n)))

\* "Every event with event_time < T is guaranteed already in the lake": for the
\* T of every version, and for every event built, the ones not yet produced or
\* still ahead of every consumer included.
WatermarkSafe ==
    \A n \in 0 .. Version : \A c \in Coordinates :
        EventTime(c) < Summary(n).wm => c \in TableRows(n)

\* test_watermark_safety's comparison, at every moment of the run: below T the
\* lake and the ground-truth file hold the same events.
LakeMatchesGroundTruth ==
    phase = "producing" =>
        {c \in Landed : EventTime(c) < CurrentT} = GroundTruthBelow(CurrentT)

\* Along the table's history T, the offsets and the largest event time of each
\* partition never go back and commit_seq counts the commits without a gap,
\* whichever processes made them and however often start_ms is started over.
HistoryIsMonotone ==
    /\ \A n \in 0 .. Version : Summary(n).seq = n
    /\ \A m, n \in 0 .. Version : m < n =>
        /\ Summary(m).wm <= Summary(n).wm
        /\ \A p \in Partitions :
            /\ Resume(Summary(m))[p] <= Resume(Summary(n))[p]
            /\ Summary(m).partMax[p] <= Summary(n).partMax[p]
        /\ Summary(m).offsets # Summary(n).offsets

\* The gmv of a version of the table is never negative: it holds no order's
\* cancellation without the order's creation (gmv_delta is +amount, -amount).
NoCancellationWithoutCreation ==
    \A n \in 1 .. Version : \A c \in TableRows(n) :
        EventAt(c).type = "order_cancelled" =>
            \E d \in TableRows(n) : /\ EventAt(d).order = EventAt(c).order
                                    /\ EventAt(d).type = "order_created"

\* With the property above, the gmv of the table is the amount of the orders
\* created and not cancelled: no order is added or subtracted by two rows,
\* whatever the batches, the jobs and the restarts that brought them there.
OrdersCountOnce ==
    \A m, n \in 1 .. Version : \A c \in snapshots[m].rows, d \in snapshots[n].rows :
        EventAt(c).order = EventAt(d).order /\ EventAt(c).type = EventAt(d).type =>
            m = n /\ c = d

\* run() returns only after its last batch: a job that exits cleanly, by idle
\* time or by max_batches, leaves nothing it consumed outside the table.
CleanExitLandsEverything ==
    \A j \in Jobs : pc[j] = "closed" => Prefix(pos[j]) \subseteq Landed

(* The inductive invariant behind the safety properties *)

\* The table's side: each commit starts where the previous one stopped.
TableInv ==
    /\ \A n \in 0 .. Version : \A p \in Partitions : Resume(Summary(n))[p] <= hw[p]
    /\ RowsMatchOffsets
    /\ \A n \in 1 .. Version : snapshots[n].rows \cap TableRows(n - 1) = {}

\* The job's side.  A job has consumed its resume offsets up to its positions and
\* holds exactly that in its batch; one whose handle is current resumed from the
\* current snapshot, so it neither skips an event nor reads one twice.  A job
\* whose handle is stale may hold anything, but can no longer commit.
JobInv(j) ==
    /\ base[j] <= Version
    /\ pc[j] \in {"poll", "append"} =>
        /\ base[j] = Version => state[j] = Summary(Version)
        /\ \A p \in Partitions : /\ Resume(state[j])[p] <= pos[j][p]
                                 /\ pos[j][p] <= hw[p]
        /\ batch[j] = Prefix(pos[j]) \ Prefix(Resume(state[j]))
    /\ pc[j] = "append" => batch[j] # {}
    /\ pc[j] = "swapped" => base[j] >= 1 /\ pos[j] = Resume(Summary(base[j]))

\* What a job consumed is what has landed and what is in its batch, across
\* restarts and races (landing_job.py: consume from the snapshot's offsets).
ConsumedIsLandedOrBatched ==
    /\ StreamInv
    /\ TableInv
    /\ \A j \in Jobs : JobInv(j)

\* Why T is safe: in every version of the table each partition's maximum is the
\* event time of one of its rows, and T, once it has moved, is a lateness window
\* or more below a row of every partition.
MarksAreLanded ==
    \A n \in 0 .. Version : \A p \in Partitions :
        LET landed == 0 .. (Resume(Summary(n))[p] - 1)
        IN  /\ \/ Summary(n).partMax[p] = None
               \/ \E o \in landed : Summary(n).partMax[p] = EventTime(<<p, o>>)
            /\ \/ Summary(n).wm = 0
               \/ \E o \in landed : Summary(n).wm + W <= EventTime(<<p, o>>)

(* Refinement *)

\* The table, seen as its rows and its current T, is an exactly-once lake: each
\* commit lands the next events of some partitions, everything else stutters,
\* and the T kept incrementally across batches, crashes and writers is the T
\* one would recompute from the whole table.
Lake == INSTANCE ExactlyOnceLake WITH rows <- Landed, watermark <- CurrentT
ImplementsLake == Lake!LakeSpec

(* Liveness *)

\* Every event the broker holds is landed in the end, if killed jobs are
\* restarted and are not killed for ever.
EverythingLands ==
    \A p \in Partitions : \A o \in 0 .. (NumEvents * MaxRuns - 1) :
        <<p, o>> \in Delivered ~> <<p, o>> \in Landed
==============================================================================
