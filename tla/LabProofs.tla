------------------------------- MODULE LabProofs -------------------------------
(***************************************************************************)
(* The whole pipeline implements the seam over the abstract lake, and what *)
(* SeamProofs proves of the seam's answers holds of the pipeline's, for    *)
(* any number of partitions, events, jobs, kills, queries and restarts of  *)
(* ClickHouse.                                                             *)
(***************************************************************************)
EXTENDS Lab, LakeProofs

------------------------------------------------------------------------------
(* The names of the seam's specification *)

\* An instance gives every definition a name of its own; the two that a lemma names
\* have the same text.
LEMMA SameLake ==
    /\ Lake!LakeNext <=> Query!LakeNext
    /\ UNCHANGED Lake!streamVars <=> UNCHANGED Query!streamVars
BY DEF Lake!LakeNext, Query!LakeNext, Lake!Land, Query!Land, Lake!PrefixClosed,
       Query!PrefixClosed, Lake!SafeT, Query!SafeT, Lake!LargestIn, Query!LargestIn,
       Lake!SeenIn, Query!SeenIn, Lake!Max, Query!Max, Lake!Min, Query!Min,
       Lake!EventTime, Query!EventTime, Lake!EventAt, Query!EventAt,
       Lake!StreamNext, Query!StreamNext, Lake!CreateOrder, Query!CreateOrder,
       Lake!CancelOrder, Query!CancelOrder, Lake!WriteGroundTruth,
       Query!WriteGroundTruth, Lake!Deliver, Query!Deliver, Lake!NewRun,
       Query!NewRun, Lake!Emit, Query!Emit, Lake!STEP_MS, Query!STEP_MS,
       Lake!Jitter, Query!Jitter, Lake!Delivered, Query!Delivered, Lake!Coordinates,
       Query!Coordinates, Lake!Prefix, Query!Prefix, Lake!streamVars,
       Query!streamVars

LEMMA SameRealtime == ChNext <=> Query!ChNext
BY DEF ChNext, Query!ChNext, ChInsertBlock, Query!ChInsertBlock, ChCommitOffsets,
       Query!ChCommitOffsets, ChRestart, Query!ChRestart, InsertRange,
       Query!InsertRange, Max, Query!Max

------------------------------------------------------------------------------
(* Every step of the pipeline is the seam's *)

LEMMA LabStarts == ASSUME LabInit PROVE Init /\ CurrentMarks /\ Query!SeamInit
<1>1. Init /\ CurrentMarks /\ Lake!StreamInit /\ Lake!LakeInit
  BY InitMaps DEF LabInit
<1>2. Query!StreamInit
  BY <1>1 DEF Lake!StreamInit, Query!StreamInit
<1>3. Query!LakeInit
  BY <1>1 DEF Lake!LakeInit, Query!LakeInit
<1>4. Query!CreatePipeline
  BY DEF LabInit, CreatePipeline, Query!CreatePipeline
<1> QED BY <1>1, <1>2, <1>3, <1>4 DEF LabInit, Query!SeamInit

LEMMA LabSteps ==
    Inv /\ CurrentMarks /\ [LabNext]_labVars =>
        [Next]_vars /\ CurrentMarks' /\ [Query!SeamNext]_(Query!seamVars)
<1> SUFFICES ASSUME Inv, CurrentMarks, [LabNext]_labVars
             PROVE  /\ [Next]_vars /\ CurrentMarks'
                    /\ Query!SeamNext \/ UNCHANGED Query!seamVars
  OBVIOUS
<1>1. [Next]_vars
  BY DEF LabNext, labVars
<1>2. CurrentMarks' /\ [Lake!LakeNext]_<<Lake!streamVars, Landed, CurrentT>>
  BY <1>1, NextMaps
<1> SUFFICES Query!SeamNext \/ UNCHANGED Query!seamVars
  BY <1>1, <1>2
<1>3. UNCHANGED vars => UNCHANGED <<Query!streamVars, Landed, CurrentT>>
  BY DEF vars, streamVars, Query!streamVars, Landed, CurrentT, TableRows, Summary, Version
<1>4. CASE Next /\ UNCHANGED <<chVars, queryVars>>
  <2>1. UNCHANGED <<Query!chVars, Query!queryVars>>
    BY <1>4 DEF chVars, Query!chVars, queryVars, Query!queryVars
  <2>2. CASE Lake!LakeNext
    BY <2>1, <2>2, SameLake DEF Query!SeamNext
  <2>3. CASE UNCHANGED <<Lake!streamVars, Landed, CurrentT>>
    BY <2>1, <2>3, SameLake DEF Query!seamVars
  <2> QED BY <1>2, <2>2, <2>3
<1>5. CASE ChNext /\ UNCHANGED <<vars, queryVars>>
  <2>1. Query!ChNext /\ UNCHANGED Query!queryVars
    BY <1>5, SameRealtime DEF queryVars, Query!queryVars
  <2> QED BY <1>3, <1>5, <2>1 DEF Query!SeamNext
<1>6. CASE Query!QueryNext /\ UNCHANGED <<vars, chVars>>
  <2>1. UNCHANGED Query!chVars
    BY <1>6 DEF chVars, Query!chVars
  <2> QED BY <1>3, <1>6, <2>1 DEF Query!SeamNext
<1>7. CASE UNCHANGED labVars
  <2>1. UNCHANGED <<vars, chVars, queryVars>>
    BY <1>7 DEF labVars
  <2>2. UNCHANGED <<Query!chVars, Query!queryVars>>
    BY <2>1 DEF chVars, Query!chVars, queryVars, Query!queryVars
  <2> QED BY <1>3, <2>1, <2>2 DEF Query!seamVars
<1> QED BY <1>4, <1>5, <1>6, <1>7 DEF LabNext

\* The refinement of the whole: seen through the table's rows and its T, the
\* pipeline is the seam over the abstract lake.
THEOREM LabImplements == LabSpec => ImplementsSeam
<1>1. LabInit => Init /\ CurrentMarks /\ Query!SeamInit
  BY LabStarts
<1>2. Inv /\ CurrentMarks /\ [LabNext]_labVars =>
          [Next]_vars /\ CurrentMarks' /\ [Query!SeamNext]_(Query!seamVars)
  BY LabSteps
<1> QED BY <1>1, <1>2, InitInv, NextKeepsInv, PTL
        DEF LabSpec, ImplementsSeam, Query!SeamSpec

------------------------------------------------------------------------------
(* What is proved of the seam's answers *)

Proved == INSTANCE SeamProofs WITH rows <- Landed, watermark <- CurrentT

LEMMA SameSeam ==
    /\ Query!SeamInit <=> Proved!SeamInit
    /\ Query!SeamNext <=> Proved!SeamNext
    /\ UNCHANGED Query!seamVars <=> UNCHANGED Proved!seamVars
<1>1. Query!SeamInit <=> Proved!SeamInit
  BY DEF Query!SeamInit, Proved!SeamInit, Query!StreamInit, Proved!StreamInit,
       Query!LakeInit, Proved!LakeInit, Query!CreatePipeline, Proved!CreatePipeline
<1>2. Query!SeamNext <=> Proved!SeamNext
  BY DEF Query!SeamNext, Proved!SeamNext, Query!LakeNext, Proved!LakeNext, Query!Land,
       Proved!Land, Query!PrefixClosed, Proved!PrefixClosed, Query!SafeT,
       Proved!SafeT, Query!LargestIn, Proved!LargestIn, Query!SeenIn, Proved!SeenIn,
       Query!Max, Proved!Max, Query!Min, Proved!Min, Query!EventTime,
       Proved!EventTime, Query!EventAt, Proved!EventAt, Query!StreamNext,
       Proved!StreamNext, Query!CreateOrder, Proved!CreateOrder, Query!CancelOrder,
       Proved!CancelOrder, Query!WriteGroundTruth, Proved!WriteGroundTruth,
       Query!Deliver, Proved!Deliver, Query!NewRun, Proved!NewRun, Query!Emit,
       Proved!Emit, Query!STEP_MS, Proved!STEP_MS, Query!Jitter, Proved!Jitter,
       Query!Delivered, Proved!Delivered, Query!Coordinates, Proved!Coordinates,
       Query!Prefix, Proved!Prefix, Query!streamVars, Proved!streamVars,
       Query!ChNext, Proved!ChNext, Query!ChInsertBlock, Proved!ChInsertBlock,
       Query!ChCommitOffsets, Proved!ChCommitOffsets, Query!ChRestart,
       Proved!ChRestart, Query!InsertRange, Proved!InsertRange, Query!chVars,
       Proved!chVars, Query!queryVars, Proved!queryVars, Query!QueryNext,
       Proved!QueryNext, Query!ReadWatermarkT, Proved!ReadWatermarkT,
       Query!LakeSide, Proved!LakeSide, Query!ChSide, Proved!ChSide,
       Query!InClickHouse, Proved!InClickHouse, Query!Copies, Proved!Copies,
       Query!SeamSide, Proved!SeamSide
<1>3. UNCHANGED Query!seamVars <=> UNCHANGED Proved!seamVars
  BY DEF Query!seamVars, Proved!seamVars, Query!streamVars, Proved!streamVars,
       Query!chVars, Proved!chVars, Query!queryVars, Proved!queryVars
<1> QED BY <1>1, <1>2, <1>3

LEMMA SameProperties ==
    /\ Query!SeamExactlyOnce <=> Proved!SeamExactlyOnce
    /\ Query!ExactlyOnceBelowT <=> Proved!ExactlyOnceBelowT
    /\ Query!SeamAtLeastOnce <=> Proved!SeamAtLeastOnce
    /\ Query!LaterAnswersKeepEvents <=> Proved!LaterAnswersKeepEvents
    /\ Query!CaughtUpAnswersPair <=> Proved!CaughtUpAnswersPair
    /\ Query!CountMeansCaughtUp <=> Proved!CountMeansCaughtUp
<1>1. /\ Query!SeamExactlyOnce <=> Proved!SeamExactlyOnce
      /\ Query!ExactlyOnceBelowT <=> Proved!ExactlyOnceBelowT
      /\ Query!SeamAtLeastOnce <=> Proved!SeamAtLeastOnce
      /\ Query!LaterAnswersKeepEvents <=> Proved!LaterAnswersKeepEvents
      /\ Query!CaughtUpAnswersPair <=> Proved!CaughtUpAnswersPair
  BY DEF Query!SeamExactlyOnce, Proved!SeamExactlyOnce, Query!ExactlyOnceBelowT,
       Proved!ExactlyOnceBelowT, Query!SeamAtLeastOnce, Proved!SeamAtLeastOnce,
       Query!LaterAnswersKeepEvents, Proved!LaterAnswersKeepEvents,
       Query!CaughtUpAnswersPair, Proved!CaughtUpAnswersPair, Query!Answers,
       Proved!Answers, Query!Counted, Proved!Counted, Query!Copies, Proved!Copies,
       Query!PairsCancellations, Proved!PairsCancellations, Query!WasAhead,
       Proved!WasAhead, Query!Coordinates, Proved!Coordinates, Query!Prefix,
       Proved!Prefix, Query!EventAt, Proved!EventAt, Query!EventTime,
       Proved!EventTime
<1>2. Query!CountMeansCaughtUp <=> Proved!CountMeansCaughtUp
  BY DEF Query!CountMeansCaughtUp, Proved!CountMeansCaughtUp, Query!CountReached,
       Proved!CountReached, Query!TotalCount, Proved!TotalCount, Query!Cardinality,
       Proved!Cardinality, Query!IsFiniteSet, Proved!IsFiniteSet, Query!ChRows,
       Proved!ChRows, Query!InClickHouse, Proved!InClickHouse, Query!Delivered,
       Proved!Delivered, Query!Copies, Proved!Copies, Query!Coordinates,
       Proved!Coordinates, Query!Prefix, Proved!Prefix
<1> QED BY <1>1, <1>2

\* The assumptions of SeamProofs on the constants.
LEMMA SameFinite == Proved!IsFiniteSet(Partitions) <=> IsFiniteSet(Partitions)
BY DEF IsFiniteSet, Proved!IsFiniteSet

LEMMA LabIsSeam == LabSpec => Proved!SeamSpec
<1>1. Query!SeamInit => Proved!SeamInit
  BY SameSeam
<1>2. [Query!SeamNext]_(Query!seamVars) => [Proved!SeamNext]_(Proved!seamVars)
  BY SameSeam
<1> QED BY <1>1, <1>2, LabImplements, PTL
        DEF ImplementsSeam, Query!SeamSpec, Proved!SeamSpec

\* What is true of a job by itself stays true with queries and ClickHouse around it.
LEMMA LabUsesJobs == LabSpec => Spec
<1>1. LabInit => Init
  BY DEF LabInit
<1>2. [LabNext]_labVars => [Next]_vars
  BY DEF LabNext, labVars
<1> QED BY <1>1, <1>2, PTL DEF LabSpec, Spec

\* Every answer of the pipeline counts every event once, although jobs are killed,
\* race and commit between its reads, as long as ClickHouse has not been restarted.
THEOREM LabOnce == ASSUME MaxRuns = 1 PROVE LabSpec => []LabExactlyOnce
<1>1. Proved!SeamSpec => []Proved!SeamExactlyOnce
  BY Proved!ExactlyOnceCorrect, SameFinite, PartitionsAssumption, LatenessAssumption,
     StartAssumption, RunsAssumption, RestartsAssumption, LabAssumption
<1>2. NoDuplicateRows /\ Proved!SeamExactlyOnce => LabExactlyOnce
  BY SameProperties DEF LabExactlyOnce
<1> QED BY <1>1, <1>2, LabIsSeam, LabUsesJobs, ExactlyOnce, PTL

\* A query that began once ClickHouse had every event of the ground-truth file
\* answers with the events of the file.
THEOREM LabGroundTruth ==
    ASSUME MaxRuns = 1 PROVE LabSpec => []LabMatchesGroundTruth
<1>1. Init => FileInv
  BY DEF Init, StreamInit, FileInv
<1>2. FileInv /\ LabExactlyOnce => LabMatchesGroundTruth
  <2> SUFFICES ASSUME FileInv, LabExactlyOnce, phase = "producing", chRestarts = 0,
                      NEW a \in Query!Answers, groundTruth \subseteq a.atStart,
                      NEW c \in Coordinates
               PROVE  Query!Counted(a, c) = IF c \in groundTruth THEN 1 ELSE 0
    BY DEF LabMatchesGroundTruth
  <2>1. groundTruth = Coordinates
    BY DEF FileInv
  <2>2. \A d \in a.atStart : Query!Counted(a, d) = 1
    BY DEF LabExactlyOnce, Query!SeamExactlyOnce
  <2> QED BY <2>1, <2>2
<1> QED BY <1>1, <1>2, LabOnce, LabUsesJobs, InitInv, NextKeepsInv, NextKeepsFile, PTL
        DEF Spec

\* An answer of a ClickHouse that is not behind the table pairs its cancellations.
THEOREM LabPairs == ASSUME MaxRuns = 1 PROVE LabSpec => []LabAnswersPair
<1>1. Proved!SeamSpec => []Proved!CaughtUpAnswersPair
  BY Proved!PairsCorrect, SameFinite, PartitionsAssumption, LatenessAssumption,
     StartAssumption, RunsAssumption, RestartsAssumption, LabAssumption
<1>2. Proved!CaughtUpAnswersPair => LabAnswersPair
  BY SameProperties DEF LabAnswersPair
<1> QED BY <1>1, <1>2, LabIsSeam, PTL

\* Whatever ClickHouse redelivers, the pipeline's answers are exact below their T,
\* miss nothing and lose nothing an earlier answer counted, and wait_for_count is
\* to be trusted until ClickHouse is restarted.
THEOREM LabAnswers ==
    ASSUME MaxRuns = 1
    PROVE  LabSpec => [](/\ Query!ExactlyOnceBelowT
                         /\ Query!SeamAtLeastOnce
                         /\ Query!LaterAnswersKeepEvents
                         /\ Query!CountMeansCaughtUp)
<1> DEFINE Q == /\ Query!ExactlyOnceBelowT
                /\ Query!SeamAtLeastOnce
                /\ Query!LaterAnswersKeepEvents
                /\ Query!CountMeansCaughtUp
           P == /\ Proved!ExactlyOnceBelowT
                /\ Proved!SeamAtLeastOnce
                /\ Proved!LaterAnswersKeepEvents
                /\ Proved!CountMeansCaughtUp
<1>1. Proved!SeamSpec => []Proved!ExactlyOnceBelowT
  BY Proved!BelowTCorrect, SameFinite, PartitionsAssumption, LatenessAssumption,
     StartAssumption, RunsAssumption, RestartsAssumption, LabAssumption
<1>2. Proved!SeamSpec => []Proved!SeamAtLeastOnce
  BY Proved!AtLeastOnceCorrect, SameFinite, PartitionsAssumption, LatenessAssumption,
     StartAssumption, RunsAssumption, RestartsAssumption, LabAssumption
<1>3. Proved!SeamSpec => []Proved!LaterAnswersKeepEvents
  BY Proved!LaterAnswersCorrect, SameFinite, PartitionsAssumption, LatenessAssumption,
     StartAssumption, RunsAssumption, RestartsAssumption, LabAssumption
<1>4. Proved!SeamSpec => []Proved!CountMeansCaughtUp
  BY Proved!CountCorrect, SameFinite, PartitionsAssumption, LatenessAssumption,
     StartAssumption, RunsAssumption, RestartsAssumption, LabAssumption
<1>5. P => Q
  BY SameProperties
<1> HIDE DEF Q
<1>6. Proved!SeamSpec => []P
  BY <1>1, <1>2, <1>3, <1>4, PTL
<1>7. LabSpec => []Q
  BY <1>5, <1>6, LabIsSeam, PTL
<1> QED BY <1>7 DEF Q
==============================================================================
