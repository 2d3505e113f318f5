---------------------------------- MODULE Lab ----------------------------------
(***************************************************************************)
(* The pipeline that `make demo-pipeline` and the tests run: generator,    *)
(* topic, landing jobs, Iceberg table, ClickHouse and seam queries, each   *)
(* moving by itself.  Seam puts its queries to an abstract lake; here they *)
(* read the table that the jobs write, are killed over and race for.       *)
(***************************************************************************)
EXTENDS LandingJob, Realtime

CONSTANTS
    MaxQueries      \* bound: seam queries run one after the other

ASSUME LabAssumption == MaxQueries \in Nat

VARIABLES
    step, t, lakeSide, atStart, answers     \* the running query, as in Seam

queryVars == <<step, t, lakeSide, atStart, answers>>
labVars == <<vars, chVars, queryVars>>

\* Seam's query: its reads are of the rows and the T of the current snapshot.
Query == INSTANCE Seam WITH rows <- Landed, watermark <- CurrentT

LabInit ==
    /\ Init
    /\ CreatePipeline
    /\ step = "t"
    /\ t = 0
    /\ lakeSide = {}
    /\ atStart = {}
    /\ answers = <<>>

LabNext ==
    \/ Next /\ UNCHANGED <<chVars, queryVars>>
    \/ ChNext /\ UNCHANGED <<vars, queryVars>>
    \/ Query!QueryNext /\ UNCHANGED <<vars, chVars>>

LabSpec == LabInit /\ [][LabNext]_labVars

------------------------------------------------------------------------------
\* "Every event is counted exactly once" (seam.py), of the pipeline as it is: for
\* as long as ClickHouse is not restarted, whatever the jobs commit, lose and redo
\* between the three reads of a query.  lake_count is a number of rows, which is the
\* number of events because no event is two rows.
LabExactlyOnce == NoDuplicateRows /\ Query!SeamExactlyOnce

\* test_no_dup_no_loss, whatever else is going on: a query that began once
\* ClickHouse had every event of the ground-truth file counts the events of the
\* file, each once, and no others, and so has the file's count and gmv.
LabMatchesGroundTruth ==
    phase = "producing" /\ chRestarts = 0 =>
        \A a \in Query!Answers : groundTruth \subseteq a.atStart =>
            \A c \in Coordinates :
                Query!Counted(a, c) = IF c \in groundTruth THEN 1 ELSE 0

\* wait_for_count's promise: an answer given while ClickHouse was not behind the
\* table subtracts no cancelled order that it does not also add.
LabAnswersPair == Query!CaughtUpAnswersPair

\* The pipeline implements the seam over the abstract lake: each of its steps is
\* one of the seam's, or invisible to every query.
ImplementsSeam == Query!SeamSpec
==============================================================================
