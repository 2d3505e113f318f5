--------------------------------- MODULE Seam ---------------------------------
(***************************************************************************)
(* query/seam.py: the seam query reads T from the lake once, counts the    *)
(* lake below T and ClickHouse at and above T.  The three reads are three  *)
(* requests to two systems that go on moving between them: the lake may    *)
(* commit, ClickHouse may insert, restart and insert again.                *)
(*                                                                         *)
(* The lake is the ExactlyOnceLake that LandingJob implements.             *)
(***************************************************************************)
EXTENDS ExactlyOnceLake, Realtime

CONSTANTS
    MaxQueries      \* bound: seam queries run one after the other

ASSUME QueriesAssumption == MaxQueries \in Nat

VARIABLES
    step,           \* the next read of the running query: "t", "lake" or "ch"
    t,              \* t_ms
    lakeSide,       \* rows counted by lake_side
    atStart,        \* history: what ClickHouse held when the query began
    answers         \* the results returned so far

queryVars == <<step, t, lakeSide, atStart, answers>>
seamVars == <<streamVars, rows, watermark, chVars, queryVars>>

SeamTypeOK ==
    /\ StreamTypeOK
    /\ RealtimeTypeOK
    /\ rows \subseteq Delivered
    /\ watermark \in Nat
    /\ step \in {"t", "lake", "ch"}
    /\ t \in Nat
    /\ lakeSide \subseteq rows
    /\ atStart \subseteq Delivered
    /\ Len(answers) <= MaxQueries

SeamInit ==
    /\ StreamInit /\ LakeInit /\ CreatePipeline
    /\ step = "t"
    /\ t = 0
    /\ lakeSide = {}
    /\ atStart = {}
    /\ answers = <<>>

ReadWatermarkT ==
    /\ step = "t"
    /\ Len(answers) < MaxQueries
    /\ t' = watermark
    /\ atStart' = InClickHouse
    /\ step' = "lake"
    /\ UNCHANGED <<lakeSide, answers>>

\* The table is loaded again: the rows are those of a later version than T.
LakeSide ==
    /\ step = "lake"
    /\ lakeSide' = {c \in rows : EventTime(c) < t}
    /\ step' = "ch"
    /\ UNCHANGED <<t, atStart, answers>>

\* Mutant of ChSide: T is read again for ClickHouse's side.
ChSideRereadsT ==
    /\ step = "ch"
    /\ answers' = Append(answers, [t |-> t, lake |-> lakeSide,
                                   ch |-> SeamSide(watermark), atStart |-> atStart])
    /\ step' = "t"
    /\ t' = 0
    /\ lakeSide' = {}
    /\ atStart' = {}

ChSide ==
    /\ step = "ch"
    /\ answers' = Append(answers, [t |-> t, lake |-> lakeSide,
                                   ch |-> SeamSide(t), atStart |-> atStart])
    /\ step' = "t"
    /\ t' = 0
    /\ lakeSide' = {}
    /\ atStart' = {}

QueryNext == ReadWatermarkT \/ LakeSide \/ ChSide

SeamNext ==
    \/ LakeNext /\ UNCHANGED <<chVars, queryVars>>
    \/ ChNext /\ UNCHANGED <<streamVars, rows, watermark, queryVars>>
    \/ QueryNext /\ UNCHANGED <<streamVars, rows, watermark, chVars>>

SeamSpec == SeamInit /\ [][SeamNext]_seamVars

------------------------------------------------------------------------------
\* How often answer a counts event c: lake_count + ch_count.
Counted(a, c) == (IF c \in a.lake THEN 1 ELSE 0) + Copies(a.ch, c)
Answers == {answers[n] : n \in DOMAIN answers}

\* Below its T an answer counts every event exactly once, the events that were
\* landed or delivered while the query ran and the ones ClickHouse holds twice
\* included.
ExactlyOnceBelowT ==
    \A a \in Answers : \A c \in Coordinates :
        EventTime(c) < a.t => Counted(a, c) = 1

\* "Every event is counted exactly once", for as long as ClickHouse has not been
\* restarted: what it held when the query began is counted once, on one side or
\* the other, and nothing is counted more than once.
SeamExactlyOnce ==
    chRestarts = 0 =>
        \A a \in Answers :
            /\ \A c \in a.atStart : Counted(a, c) = 1
            /\ \A c \in Coordinates : Counted(a, c) <= 1

\* At-least-once: what ClickHouse held when the query began is never dropped,
\* and a redelivered event is counted at most once more per restart.
SeamAtLeastOnce ==
    \A a \in Answers :
        /\ \A c \in a.atStart : Counted(a, c) >= 1
        /\ \A c \in Coordinates : Counted(a, c) <= 1 + chRestarts

\* A later query never loses an event an earlier one counted, although T has
\* moved and the event may have gone over from ClickHouse's side to the lake's.
LaterAnswersKeepEvents ==
    \A m, n \in DOMAIN answers : m < n =>
        \A c \in Coordinates : Counted(answers[m], c) > 0 => Counted(answers[n], c) > 0

\* "CH caught up": once the table has as many rows as the generator built, it
\* holds every event, for as long as ClickHouse has not been restarted.
CountMeansCaughtUp ==
    phase = "producing" /\ chRestarts = 0 /\ CountReached(NumEvents * runs) =>
        InClickHouse = Coordinates

PairsCancellations(a) ==
    \A c \in Coordinates :
        Counted(a, c) > 0 /\ EventAt(c).type = "order_cancelled" =>
            \E d \in Coordinates : /\ Counted(a, d) > 0
                                   /\ EventAt(d).order = EventAt(c).order
                                   /\ EventAt(d).type = "order_created"

\* GMV is the money of created-but-not-cancelled orders: no answer subtracts a
\* cancelled order it does not also add.
AnswersPairCancellations == \A a \in Answers : PairsCancellations(a)

\* ClickHouse was not behind the lake: when the query began it held what the
\* lake's side counts and, in the same partitions, everything before it.
WasAhead(a) ==
    {d \in Coordinates : \E c \in a.lake : c[1] = d[1] /\ d[2] <= c[2]} \subseteq a.atStart

\* What wait_for_count is there for: an answer given while ClickHouse was not
\* behind the lake subtracts no cancelled order that it does not also add,
\* although T may fall between the two events and they are then counted by
\* different systems.
CaughtUpAnswersPair ==
    \A a \in Answers : WasAhead(a) => PairsCancellations(a)
==============================================================================
