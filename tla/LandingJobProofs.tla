--------------------------- MODULE LandingJobProofs ---------------------------
(***************************************************************************)
(* What TLAPS proves of LandingJob, for every number of partitions, jobs,  *)
(* events and crashes.                                                     *)
(***************************************************************************)
EXTENDS LandingJob, StreamProofs

(* What one commit computes *)

LEMMA ResumeType ==
    ASSUME NEW s \in Summaries
    PROVE  Resume(s) \in [Partitions -> Nat]
BY DEF Summaries, Dicts, Resume, Get, None

\* The records a job consumed between its resume offsets and its positions.
Consumed(s, q) == Prefix(q) \ Prefix(Resume(s))

\* The records consumed of one partition are those between the two offsets.
LEMMA ConsumedOfPartition ==
    ASSUME NEW s \in Summaries, NEW q \in [Partitions -> Nat], NEW p \in Partitions
    PROVE  On(Consumed(s, q), p) = {<<p, o>> : o \in Resume(s)[p] .. (q[p] - 1)}
<1>1. Resume(s)[p] \in Nat /\ q[p] \in Nat
  BY ResumeType
<1>2. ASSUME NEW c \in On(Consumed(s, q), p)
      PROVE  c \in {<<p, o>> : o \in Resume(s)[p] .. (q[p] - 1)}
  <2>1. c \in Prefix(q) /\ c \notin Prefix(Resume(s)) /\ c[1] = p
    BY DEF On, Consumed
  <2>2. c = <<p, c[2]>> /\ c[2] \in 0 .. (q[p] - 1)
    BY <2>1, PrefixPair
  <2>3. c[2] \notin 0 .. (Resume(s)[p] - 1)
    BY <2>1, <2>2, InPrefix
  <2> QED BY <1>1, <2>2, <2>3
<1>3. ASSUME NEW o \in Resume(s)[p] .. (q[p] - 1)
      PROVE  <<p, o>> \in On(Consumed(s, q), p)
  <2>1. o \in 0 .. (q[p] - 1) /\ o \notin 0 .. (Resume(s)[p] - 1)
    BY <1>1
  <2> QED BY <2>1, InPrefix DEF On, Consumed
<1> QED BY <1>2, <1>3

\* The commit's offsets are the consumer's positions: _commit_batch's max over
\* the batch of offset + 1 loses no partition and skips no offset.
LEMMA OffsetsArePositions ==
    ASSUME NEW s \in Summaries, NEW q \in [Partitions -> Nat],
           \A p \in Partitions : Resume(s)[p] <= q[p]
    PROVE  /\ NextOffsets(s, Consumed(s, q)) \in Dicts
           /\ \A p \in Partitions :
                Get(NextOffsets(s, Consumed(s, q)), p, 0) = q[p]
<1> DEFINE b == Consumed(s, q)
<1>1. SUFFICES ASSUME NEW p \in Partitions
               PROVE  /\ NextOffsets(s, b)[p] \in Nat \cup {None}
                      /\ Get(NextOffsets(s, b), p, 0) = q[p]
  BY <1>1 DEF NextOffsets, Dicts
<1>2. Resume(s)[p] \in Nat /\ q[p] \in Nat /\ Resume(s)[p] <= q[p]
  BY ResumeType
<1>3. s.offsets[p] \in Nat \cup {None} /\ Get(s.offsets, p, 0) = Resume(s)[p]
  BY DEF Summaries, Dicts, Resume
<1>4. On(b, p) = {<<p, o>> : o \in Resume(s)[p] .. (q[p] - 1)}
  BY ConsumedOfPartition
<1>5. CASE On(b, p) = {}
  <2>1. ~ (Resume(s)[p] < q[p])
    <3> SUFFICES ASSUME Resume(s)[p] < q[p] PROVE FALSE
      OBVIOUS
    <3>1. Resume(s)[p] \in Resume(s)[p] .. (q[p] - 1)
      BY <1>2
    <3> QED BY <3>1, <1>4, <1>5
  <2>2. Resume(s)[p] = q[p]
    BY <1>2, <2>1
  <2>3. NextOffsets(s, b)[p] = s.offsets[p]
    BY <1>5 DEF NextOffsets
  <2> QED BY <1>3, <2>2, <2>3 DEF Get
<1>6. CASE On(b, p) # {}
  <2> DEFINE M == {Get(s.offsets, p, -1)} \cup {c[2] + 1 : c \in On(b, p)}
  <2>1. NextOffsets(s, b)[p] = Max(M)
    BY <1>6 DEF NextOffsets
  <2>2. Resume(s)[p] < q[p]
    BY <1>2, <1>4, <1>6
  <2>3. Get(s.offsets, p, -1) \in Int /\ Get(s.offsets, p, -1) <= q[p]
    BY <1>2, <1>3 DEF Get, None
  <2>4. \A c \in On(b, p) : c[2] + 1 \in Int /\ c[2] + 1 <= q[p]
    BY <1>2, <1>4
  <2>5. <<p, q[p] - 1>> \in On(b, p)
    BY <1>2, <1>4, <2>2
  <2>6. q[p] \in M
    <3>1. <<p, q[p] - 1>>[2] + 1 = q[p]
      BY <1>2
    <3> QED BY <2>5, <3>1
  <2>7. M \in SUBSET Int /\ \A x \in M : x <= q[p]
    BY <2>3, <2>4
  <2>8. Max(M) \in M /\ \A y \in M : y <= Max(M)
    <3> HIDE DEF M
    <3> QED BY <1>2, <2>6, <2>7, MaxOfSet
  <2>9. Max(M) = q[p]
    <3>1. Max(M) <= q[p] /\ q[p] <= Max(M) /\ Max(M) \in Int
      <4> HIDE DEF M
      <4> QED BY <2>6, <2>7, <2>8
    <3> HIDE DEF M
    <3> QED BY <1>2, <3>1
  <2> QED BY <1>2, <2>1, <2>9 DEF Get, None
<1> QED BY <1>5, <1>6

\* The merged maxima are maxima: each is the one merged into, or the event time
\* of a record below the commit's offsets, and no consumed record is above it.
LEMMA MergedMaxIsMax ==
    ASSUME StreamTypeOK, StreamInv,
           NEW s \in Summaries, NEW q \in [Partitions -> Nat],
           \A p \in Partitions : Resume(s)[p] <= q[p] /\ q[p] <= hw[p]
    PROVE  /\ MergedMax(s, Consumed(s, q)) \in Dicts
           /\ \A p \in Partitions :
                \/ MergedMax(s, Consumed(s, q))[p] = s.partMax[p]
                \/ \E o \in 0 .. (q[p] - 1) :
                      MergedMax(s, Consumed(s, q))[p] = EventTime(<<p, o>>)
           /\ \A p \in Partitions :
                /\ s.partMax[p] <= MergedMax(s, Consumed(s, q))[p]
                /\ \A o \in Resume(s)[p] .. (q[p] - 1) :
                      EventTime(<<p, o>>) <= MergedMax(s, Consumed(s, q))[p]
<1> DEFINE m == MergedMax(s, Consumed(s, q))
<1>1. SUFFICES
        ASSUME NEW p \in Partitions
        PROVE  /\ m[p] \in Nat \cup {None}
               /\ \/ m[p] = s.partMax[p]
                  \/ \E o \in 0 .. (q[p] - 1) : m[p] = EventTime(<<p, o>>)
               /\ s.partMax[p] <= m[p]
               /\ \A o \in Resume(s)[p] .. (q[p] - 1) : EventTime(<<p, o>>) <= m[p]
  BY <1>1 DEF MergedMax, Dicts
<1>2. /\ Resume(s)[p] \in Nat /\ q[p] \in Nat /\ Resume(s)[p] <= q[p]
      /\ hw[p] \in Nat /\ q[p] <= hw[p]
  BY ResumeType DEF StreamTypeOK
<1>3. s.partMax[p] \in Nat \cup {None}
  BY DEF Summaries, Dicts
<1>4. On(Consumed(s, q), p) = {<<p, o>> : o \in Resume(s)[p] .. (q[p] - 1)}
  BY ConsumedOfPartition
<1>5. CASE On(Consumed(s, q), p) = {}
  <2>1. m[p] = s.partMax[p]
    BY <1>5 DEF MergedMax
  <2>2. \A o \in Resume(s)[p] .. (q[p] - 1) : FALSE
    BY <1>4, <1>5
  <2> QED BY <1>3, <2>1, <2>2 DEF None
<1>6. CASE On(Consumed(s, q), p) # {}
  <2> DEFINE g == Get(s.partMax, p, 0)
             M == {g} \cup {EventTime(c) : c \in On(Consumed(s, q), p)}
             hi == g + StartMs + NumEvents + W
  <2>1. m[p] = Max(M)
    BY <1>6 DEF MergedMax
  <2>2. g \in Nat /\ s.partMax[p] <= g /\ (g = s.partMax[p] \/ g = 0)
    BY <1>3 DEF Get, None
  <2>3. \A o \in Resume(s)[p] .. (q[p] - 1) :
            o \in 0 .. (q[p] - 1) /\ o \in 0 .. (hw[p] - 1)
    BY <1>2
  <2>4. \A o \in Resume(s)[p] .. (q[p] - 1) :
            /\ EventTime(<<p, o>>) \in Nat
            /\ EventTime(<<p, o>>) <= StartMs + NumEvents + W
    BY <2>3, EventTimeType
  <2>5. M = {g} \cup {EventTime(<<p, o>>) : o \in Resume(s)[p] .. (q[p] - 1)}
    BY <1>4
  <2> HIDE DEF g
  <2>6. hi \in Int /\ M \in SUBSET Int /\ \A x \in M : x <= hi
    <3>1. StartMs \in Nat /\ NumEvents \in Nat /\ W \in Nat
      BY LatenessAssumption, StartAssumption, RunsAssumption
    <3>2. hi \in Int
      BY <2>2, <3>1
    <3>3. ASSUME NEW x \in M PROVE x \in Int /\ x <= hi
      <4>1. CASE x = g
        BY <2>2, <3>1, <4>1
      <4>2. CASE \E o \in Resume(s)[p] .. (q[p] - 1) : x = EventTime(<<p, o>>)
        <5>1. x \in Nat /\ x <= StartMs + NumEvents + W
          BY <2>4, <4>2
        <5> QED BY <2>2, <3>1, <5>1
      <4>3. x = g \/ \E o \in Resume(s)[p] .. (q[p] - 1) : x = EventTime(<<p, o>>)
        <5> HIDE DEF M
        <5> QED BY <2>5
      <4> QED BY <4>1, <4>2, <4>3
    <3> HIDE DEF M, hi
    <3> QED BY <3>2, <3>3
  <2>7. Max(M) \in M /\ \A y \in M : y <= Max(M)
    <3>1. M # {}
      OBVIOUS
    <3> HIDE DEF M, hi
    <3> QED BY <2>6, <3>1, MaxOfSet
  <2>8. \A o \in Resume(s)[p] .. (q[p] - 1) : EventTime(<<p, o>>) <= m[p]
    BY <2>1, <2>5, <2>7
  <2>9. m[p] \in Nat
    BY <2>1, <2>2, <2>4, <2>5, <2>7
  <2>10. g <= m[p]
    BY <2>1, <2>7
  <2>11. s.partMax[p] <= m[p]
    BY <1>3, <2>2, <2>9, <2>10 DEF None
  <2>12. CASE m[p] \in {EventTime(<<p, o>>) : o \in Resume(s)[p] .. (q[p] - 1)}
    BY <2>3, <2>8, <2>9, <2>11, <2>12
  <2>13. CASE m[p] = g /\ g = s.partMax[p]
    BY <2>8, <2>9, <2>11, <2>13
  <2>14. CASE m[p] = g /\ g = 0
    <3>1. Resume(s)[p] \in Resume(s)[p] .. (q[p] - 1)
      BY <1>2, <1>4, <1>6
    <3>2. /\ EventTime(<<p, Resume(s)[p]>>) \in Nat
          /\ EventTime(<<p, Resume(s)[p]>>) <= m[p]
      BY <2>4, <2>8, <3>1
    <3>3. m[p] = 0
      BY <2>14
    <3>4. EventTime(<<p, Resume(s)[p]>>) = m[p]
      <4> HIDE DEF m
      <4> QED BY <3>2, <3>3
    <3> QED BY <2>3, <2>8, <2>9, <2>11, <3>1, <3>4
  <2> QED BY <2>1, <2>2, <2>5, <2>7, <2>12, <2>13, <2>14
<1> QED BY <1>5, <1>6

\* compute_watermark never takes T back, and moves it only once every partition
\* has been seen, to at most the lateness window below each partition's maximum.
LEMMA WatermarkBound ==
    ASSUME NEW m \in Dicts, NEW previous \in Nat
    PROVE  LET t == ComputeWatermark(m, W, previous, Cardinality(Partitions))
           IN  /\ t \in Nat /\ previous <= t
               /\ \/ t = previous
                  \/ \A p \in Partitions : m[p] # None /\ t + W <= m[p]
<1> DEFINE t == ComputeWatermark(m, W, previous, Cardinality(Partitions))
           M == {m[p] : p \in Keys(m)}
<1>1. CASE Cardinality(Keys(m)) < Cardinality(Partitions) \/ Keys(m) = {}
  <2>1. t = previous
    BY <1>1 DEF ComputeWatermark
  <2> QED BY <2>1
<1>2. CASE ~ (Cardinality(Keys(m)) < Cardinality(Partitions) \/ Keys(m) = {})
  <2>1. Keys(m) \in SUBSET Partitions
    BY DEF Keys, Dicts
  <2>2. /\ Cardinality(Keys(m)) <= Cardinality(Partitions)
        /\ Cardinality(Partitions) = Cardinality(Keys(m)) => Partitions = Keys(m)
        /\ Cardinality(Keys(m)) \in Nat /\ Cardinality(Partitions) \in Nat
    BY <2>1, PartitionsAssumption, FS_Subset, FS_CardinalityType
  <2>3. Keys(m) = Partitions
    BY <1>2, <2>2
  <2>4. \A p \in Partitions : m[p] # None /\ m[p] \in Nat
    BY <2>3 DEF Keys, Dicts
  <2>5. M # {} /\ M \in SUBSET Int /\ \A x \in M : 0 <= x
    BY <2>3, <2>4, PartitionsAssumption
  <2>6. Min(M) \in M /\ \A y \in M : Min(M) <= y
    <3> HIDE DEF M
    <3> QED BY <2>5, MinOfSet
  <2>7. Min(M) \in Int /\ W \in Nat
    BY <2>5, <2>6, LatenessAssumption
  <2>8. t = Max({previous, Min(M) - W})
    BY <1>2 DEF ComputeWatermark
  <2> HIDE DEF M, t
  <2>9. t \in {previous, Min(M) - W} /\ previous <= t
    <3> DEFINE P == {previous, Min(M) - W}
    <3>1. P \in SUBSET Int /\ P # {}
      BY <2>7
    <3>2. \E hi \in Int : \A x \in P : x <= hi
      <4>1. CASE previous <= Min(M) - W
        BY <2>7, <4>1
      <4>2. CASE ~ (previous <= Min(M) - W)
        BY <2>7, <4>2
      <4> QED BY <4>1, <4>2
    <3>3. Max(P) \in P /\ \A y \in P : y <= Max(P)
      <4> HIDE DEF P
      <4> QED BY <3>1, <3>2, MaxOfSet
    <3> QED BY <2>8, <3>3
  <2>10. t \in Nat
    BY <2>7, <2>9
  <2>11. CASE t = previous
    BY <2>10, <2>11 DEF t
  <2>12. CASE t = Min(M) - W
    <3>1. \A p \in Partitions : t + W <= m[p]
      <4> SUFFICES ASSUME NEW p \in Partitions PROVE t + W <= m[p]
        OBVIOUS
      <4>1. m[p] \in M
        BY <2>3 DEF M
      <4>2. Min(M) <= m[p] /\ m[p] \in Int
        BY <4>1, <2>4, <2>6
      <4> QED BY <4>2, <2>7, <2>12
    <3> QED BY <2>4, <2>9, <2>10, <3>1 DEF t
  <2> QED BY <2>9, <2>11, <2>12
<1> QED BY <1>1, <1>2

------------------------------------------------------------------------------
(* The whole commit *)

LEMMA NewSummaryIsSummary ==
    ASSUME StreamTypeOK, StreamInv,
           NEW s \in Summaries, NEW q \in [Partitions -> Nat],
           \A p \in Partitions : Resume(s)[p] <= q[p] /\ q[p] <= hw[p]
    PROVE  /\ NewSummary(s, Consumed(s, q)) \in Summaries
           /\ Resume(NewSummary(s, Consumed(s, q))) = q
<1> DEFINE new == NewSummary(s, Consumed(s, q))
<1>1. \A p \in Partitions : Resume(s)[p] <= q[p]
  OBVIOUS
<1>2. new.offsets \in Dicts /\ \A p \in Partitions : Get(new.offsets, p, 0) = q[p]
  BY <1>1, OffsetsArePositions DEF NewSummary
<1>3. new.partMax \in Dicts
  BY MergedMaxIsMax DEF NewSummary
<1>4. s.wm \in Nat /\ s.seq \in Nat
  BY DEF Summaries
<1>5. new.wm \in Nat
  BY <1>3, <1>4, WatermarkBound DEF NewSummary
<1>6. new.seq \in Nat
  BY <1>4 DEF NewSummary
<1>7. new \in Summaries
  BY <1>2, <1>3, <1>5, <1>6 DEF NewSummary, Summaries
<1>8. Resume(new) = q
  BY <1>2 DEF Resume
<1> QED BY <1>7, <1>8

------------------------------------------------------------------------------
(* The table *)

Inv == TypeOK /\ ConsumedIsLandedOrBatched

LEMMA SummaryType ==
    ASSUME snapshots \in Seq(Snapshots)
    PROVE  /\ Version \in Nat
           /\ EmptySummary \in Summaries
           /\ \A n \in 0 .. Version : Summary(n) \in Summaries
<1>1. Version \in Nat
  BY LenProperties DEF Version
<1>2. EmptySummary \in Summaries
  BY DEF EmptySummary, EmptyDict, Summaries, Dicts, None
<1>3. \A n \in 1 .. Version : snapshots[n] \in Snapshots
  BY ElementOfSeq DEF Version
<1>4. ASSUME NEW n \in 0 .. Version PROVE Summary(n) \in Summaries
  BY <1>1, <1>2, <1>3 DEF Summary, Snapshots
<1> QED BY <1>1, <1>2, <1>4

\* A commit leaves every older version of the table as it was.
LEMMA AppendKeepsHistory ==
    ASSUME snapshots \in Seq(Snapshots), NEW x \in Snapshots,
           snapshots' = Append(snapshots, x)
    PROVE  /\ snapshots' \in Seq(Snapshots)
           /\ Version' = Version + 1
           /\ \A n \in 1 .. Version : snapshots'[n] = snapshots[n]
           /\ snapshots'[Version + 1] = x
           /\ \A n \in 0 .. Version : Summary(n)' = Summary(n)
           /\ \A n \in 0 .. Version : TableRows(n)' = TableRows(n)
           /\ Summary(Version)' = x.summary
           /\ Landed' = Landed \cup x.rows
<1>1. /\ snapshots' \in Seq(Snapshots)
      /\ Len(snapshots') = Len(snapshots) + 1 /\ Len(snapshots) \in Nat
      /\ \A n \in 1 .. Len(snapshots) : snapshots'[n] = snapshots[n]
      /\ snapshots'[Len(snapshots) + 1] = x
  BY AppendProperties, LenProperties
<1>2. Version' = Version + 1 /\ Version \in Nat
  BY <1>1 DEF Version
<1>3. ASSUME NEW n \in 0 .. Version PROVE Summary(n)' = Summary(n)
  <2>1. CASE n = 0
    BY <2>1 DEF Summary
  <2>2. CASE n # 0
    <3>1. n \in 1 .. Len(snapshots)
      BY <1>2, <2>2 DEF Version
    <3> QED BY <1>1, <2>2, <3>1 DEF Summary
  <2> QED BY <2>1, <2>2
<1>4. ASSUME NEW n \in 0 .. Version PROVE TableRows(n)' = TableRows(n)
  <2>1. \A m \in 1 .. n : snapshots'[m] = snapshots[m]
    BY <1>1, <1>2 DEF Version
  <2> QED BY <2>1 DEF TableRows
<1>5. Summary(Version)' = x.summary
  BY <1>1, <1>2 DEF Summary, Version
<1>6. Landed' = Landed \cup x.rows
  <2> DEFINE v == Len(snapshots)
  <2>1. Landed' = UNION {snapshots'[m].rows : m \in 1 .. (v + 1)}
    BY <1>1 DEF Landed, TableRows, Version
  <2>2. Landed = UNION {snapshots[m].rows : m \in 1 .. v}
    BY DEF Landed, TableRows, Version
  <2>3. 1 .. (v + 1) = (1 .. v) \cup {v + 1}
    BY <1>1
  <2>4. \A m \in 1 .. v : snapshots'[m].rows = snapshots[m].rows
    BY <1>1
  <2>5. snapshots'[v + 1].rows = x.rows
    BY <1>1
  <2> HIDE DEF v
  <2>6. ASSUME NEW c \in Landed' PROVE c \in Landed \cup x.rows
    <3>1. PICK m \in 1 .. (v + 1) : c \in snapshots'[m].rows
      BY <2>1
    <3>2. CASE m \in 1 .. v
      BY <2>2, <2>4, <3>1, <3>2
    <3>3. CASE m = v + 1
      BY <2>5, <3>1, <3>3
    <3> QED BY <2>3, <3>2, <3>3
  <2>7. ASSUME NEW c \in Landed PROVE c \in Landed'
    <3>1. PICK m \in 1 .. v : c \in snapshots[m].rows
      BY <2>2
    <3>2. c \in snapshots'[m].rows /\ m \in 1 .. (v + 1)
      BY <2>3, <2>4, <3>1
    <3> QED BY <2>1, <3>2
  <2>8. ASSUME NEW c \in x.rows PROVE c \in Landed'
    <3>1. v + 1 \in 1 .. (v + 1)
      BY <2>3
    <3> QED BY <2>1, <2>5, <3>1
  <2> QED BY <2>6, <2>7, <2>8
<1> QED BY <1>1, <1>2, <1>3, <1>4, <1>5, <1>6 DEF Version

LEMMA InitInv == Init => Inv
<1> SUFFICES ASSUME Init PROVE Inv
  OBVIOUS
<1> USE DEF Init, StreamInit
<1>1. /\ \A p \in Partitions : log[p] = <<>> /\ hw[p] = 0
      /\ <<>> \in Seq(Events) /\ Len(<<>>) = 0 /\ DOMAIN <<>> = {}
  BY EmptySeq
<1>2. snapshots \in Seq(Snapshots) /\ Version = 0
  BY EmptySeq DEF Version
<1>3. StreamTypeOK
  BY <1>1 DEF StreamTypeOK
<1>4. StreamInv
  BY <1>1, RunsAssumption DEF StreamInv
<1>5. /\ Summary(0) = EmptySummary /\ EmptySummary \in Summaries
      /\ Resume(EmptySummary) = Origin
  BY <1>2, SummaryType DEF Summary, Resume, Get, EmptySummary, EmptyDict, Origin, None
<1>6. TableInv
  <2>1. TableRows(0) = {}
    BY DEF TableRows
  <2>2. Prefix(Origin) = {}
    <3>1. \A c : c \notin Prefix(Origin)
      <4> SUFFICES ASSUME NEW c \in Prefix(Origin) PROVE FALSE
        OBVIOUS
      <4>1. c[1] \in Partitions /\ c[2] \in 0 .. (Origin[c[1]] - 1)
        BY PrefixPair
      <4> QED BY <4>1 DEF Origin
    <3> QED BY <3>1
  <2>3. \A p \in Partitions : Resume(Summary(0))[p] <= hw[p]
    BY <1>1, <1>5 DEF Origin
  <2>4. 0 .. Version = {0} /\ 1 .. Version = {}
    BY <1>2
  <2> QED BY <1>5, <2>1, <2>2, <2>3, <2>4 DEF TableInv, RowsMatchOffsets
<1>7. \A j \in Jobs : JobInv(j)
  BY <1>2 DEF JobInv
<1>8. TypeOK
  <2>1. Origin \in [Partitions -> Nat]
    BY DEF Origin
  <2> QED BY <1>2, <1>3, <1>5, <2>1 DEF TypeOK
<1> QED BY <1>4, <1>6, <1>7, <1>8 DEF Inv, ConsumedIsLandedOrBatched

\* The generator and the broker only move the high-water marks up.
LEMMA StreamKeepsInv ==
    ASSUME Inv, StreamNext, UNCHANGED <<snapshots, jobVars, crashes>>
    PROVE  Inv'
<1> USE DEF Inv, ConsumedIsLandedOrBatched
<1>1. /\ StreamTypeOK' /\ StreamInv'
      /\ \A p \in Partitions : hw[p] <= hw'[p] /\ hw[p] \in Nat /\ hw'[p] \in Nat
  BY StreamStep DEF TypeOK, StreamTypeOK
<1>2. TypeOK'
  BY <1>1 DEF TypeOK, jobVars
<1>3. Version' = Version /\ \A n : Summary(n)' = Summary(n) /\ TableRows(n)' = TableRows(n)
  BY DEF Version, Summary, TableRows
<1>4. /\ Version \in Nat
      /\ \A n \in 0 .. Version : Resume(Summary(n)) \in [Partitions -> Nat]
  BY SummaryType, ResumeType DEF TypeOK
<1>5. TableInv'
  <2>1. \A n \in 0 .. Version : \A p \in Partitions :
            Resume(Summary(n)')[p] <= hw'[p]
    BY <1>1, <1>3, <1>4 DEF TableInv
  <2> QED BY <1>3, <2>1 DEF TableInv, RowsMatchOffsets
<1>6. ASSUME NEW j \in Jobs PROVE JobInv(j)'
  <2>1. \A p \in Partitions : pos[j][p] \in Nat
    BY DEF TypeOK
  <2>2. \A p \in Partitions : pos[j][p] <= hw[p] => pos[j][p] <= hw'[p]
    BY <1>1, <2>1
  <2> QED BY <1>3, <2>2 DEF JobInv, jobVars
<1> QED BY <1>1, <1>2, <1>5, <1>6

------------------------------------------------------------------------------
(* The job's steps *)

LEMMA TableKept ==
    ASSUME Inv, UNCHANGED <<streamVars, snapshots>>
    PROVE  /\ StreamTypeOK' /\ StreamInv' /\ TableInv'
           /\ hw' = hw /\ Version' = Version
           /\ \A n \in 0 .. Version : Summary(n)' = Summary(n)
<1> USE DEF Inv, TypeOK, ConsumedIsLandedOrBatched
<1>1. StreamTypeOK' /\ StreamInv' /\ hw' = hw
  <2>1. Coordinates' = Coordinates
    BY DEF Coordinates, streamVars
  <2> QED BY DEF StreamTypeOK, StreamInv, streamVars
<1>2. Version' = Version /\ \A n : Summary(n)' = Summary(n) /\ TableRows(n)' = TableRows(n)
  BY DEF Version, Summary, TableRows
<1>3. TableInv'
  BY <1>1, <1>2 DEF TableInv, RowsMatchOffsets
<1> QED BY <1>1, <1>2, <1>3

\* A job that does not move keeps its part of the invariant while another one
\* commits: its handle only becomes stale.
LEMMA IdleJobKept ==
    ASSUME Inv, NEW k \in Jobs, hw' = hw,
           pc'[k] = pc[k], base'[k] = base[k], state'[k] = state[k],
           pos'[k] = pos[k], batch'[k] = batch[k],
           Version' \in {Version, Version + 1},
           \A n \in 0 .. Version : Summary(n)' = Summary(n)
    PROVE  JobInv(k)'
<1>1. JobInv(k) /\ Version \in Nat /\ base[k] \in Nat
  BY SummaryType DEF Inv, TypeOK, ConsumedIsLandedOrBatched
<1>2. base[k] <= Version /\ base[k] \in 0 .. Version /\ Version \in 0 .. Version
  BY <1>1 DEF JobInv
<1>3. base'[k] <= Version'
  BY <1>1, <1>2
<1>4. ASSUME base'[k] = Version'
      PROVE  base[k] = Version /\ Summary(Version)' = Summary(Version)
  <2>1. Version' = Version
    BY <1>1, <1>2, <1>4
  <2> QED BY <1>2, <1>4, <2>1 DEF Summary
<1>5. Summary(base[k])' = Summary(base[k])
  <2>1. base[k]' = base[k]
    OBVIOUS
  <2>2. \A n \in 0 .. Version : snapshots'[n] = snapshots[n] \/ n = 0
            \/ snapshots'[n].summary = snapshots[n].summary
    BY DEF Summary
  <2> QED BY <1>2, <2>1, <2>2 DEF Summary
<1> QED BY <1>1, <1>3, <1>4, <1>5 DEF JobInv

\* Polling one record moves the position past it and puts it into the batch.
LEMMA PollOne ==
    ASSUME NEW s \in Summaries, NEW q \in [Partitions -> Nat], NEW p \in Partitions,
           Resume(s)[p] <= q[p]
    PROVE  Consumed(s, [q EXCEPT ![p] = @ + 1]) = Consumed(s, q) \cup {<<p, q[p]>>}
<1> DEFINE r == [q EXCEPT ![p] = @ + 1]
<1>1. /\ q[p] \in Nat /\ Resume(s)[p] \in Nat /\ r[p] = q[p] + 1
      /\ \A o \in Partitions : o # p => r[o] = q[o]
      /\ \A o \in Partitions : q[o] \in Nat /\ r[o] \in Nat /\ q[o] <= r[o]
  BY ResumeType
<1>2. Prefix(r) = Prefix(q) \cup {<<p, q[p]>>}
  <2>1. ASSUME NEW c \in Prefix(r) PROVE c \in Prefix(q) \cup {<<p, q[p]>>}
    <3>1. c[1] \in Partitions /\ c[2] \in 0 .. (r[c[1]] - 1) /\ c = <<c[1], c[2]>>
      BY PrefixPair
    <3>2. CASE c[1] = p /\ c[2] = q[p]
      BY <3>1, <3>2
    <3>3. CASE ~ (c[1] = p /\ c[2] = q[p])
      <4>1. c[2] \in 0 .. (q[c[1]] - 1)
        BY <1>1, <3>1, <3>3
      <4> QED BY <3>1, <4>1, InPrefix
    <3> QED BY <3>2, <3>3
  <2>2. Prefix(q) \subseteq Prefix(r)
    <3>1. q \in [Partitions -> Int] /\ r \in [Partitions -> Int]
      OBVIOUS
    <3> HIDE DEF r
    <3> QED BY <1>1, <3>1, PrefixMonotone
  <2>3. <<p, q[p]>> \in Prefix(r)
    <3>1. q[p] \in 0 .. (r[p] - 1)
      BY <1>1
    <3> HIDE DEF r
    <3> QED BY <3>1, InPrefix
  <2> QED BY <2>1, <2>2, <2>3
<1>3. <<p, q[p]>> \notin Prefix(Resume(s))
  <2>1. q[p] \notin 0 .. (Resume(s)[p] - 1)
    BY <1>1
  <2> QED BY <2>1, InPrefix
<1> HIDE DEF r
<1>4. Consumed(s, r) = Consumed(s, q) \cup {<<p, q[p]>>}
  BY <1>2, <1>3 DEF Consumed
<1> QED BY <1>4 DEF r

LEMMA LoadTableKeepsInv ==
    ASSUME Inv, NEW j \in Jobs, LoadTable(j)
    PROVE  Inv'
<1> USE DEF LoadTable
<1>1. /\ StreamTypeOK' /\ StreamInv' /\ TableInv' /\ hw' = hw /\ Version' = Version
      /\ \A n \in 0 .. Version : Summary(n)' = Summary(n)
  BY TableKept
<1>2. Version \in Nat
  BY SummaryType DEF Inv, TypeOK
<1>3. TypeOK'
  BY <1>1, <1>2 DEF Inv, TypeOK
<1>4. ASSUME NEW k \in Jobs, k # j PROVE JobInv(k)'
  <2>1. pc'[k] = pc[k] /\ base'[k] = base[k]
    BY <1>4 DEF Inv, TypeOK
  <2> QED BY <1>1, <2>1, IdleJobKept
<1>5. JobInv(j)'
  <2>1. pc'[j] = "loaded" /\ base'[j] = Version
    BY DEF Inv, TypeOK
  <2> QED BY <1>1, <1>2, <2>1 DEF JobInv
<1> QED BY <1>1, <1>3, <1>4, <1>5 DEF Inv, ConsumedIsLandedOrBatched

LEMMA ReadResumeStateKeepsInv ==
    ASSUME Inv, NEW j \in Jobs, ReadResumeState(j)
    PROVE  Inv'
<1> USE DEF ReadResumeState
<1> DEFINE s == Summary(Version)
<1>1. /\ StreamTypeOK' /\ StreamInv' /\ TableInv' /\ hw' = hw /\ Version' = Version
      /\ \A n \in 0 .. Version : Summary(n)' = Summary(n)
  BY TableKept
<1>2. Version \in Nat /\ Version \in 0 .. Version /\ s \in Summaries
  BY SummaryType DEF Inv, TypeOK
<1>3. Resume(s) \in [Partitions -> Nat]
  BY <1>2, ResumeType
<1>4. TypeOK'
  BY <1>1, <1>2, <1>3 DEF Inv, TypeOK
<1>5. ASSUME NEW k \in Jobs, k # j PROVE JobInv(k)'
  <2>1. /\ pc'[k] = pc[k] /\ base'[k] = base[k] /\ state'[k] = state[k]
        /\ pos'[k] = pos[k] /\ batch'[k] = batch[k]
    BY <1>5 DEF Inv, TypeOK
  <2> QED BY <1>1, <2>1, IdleJobKept
<1>6. JobInv(j)'
  <2>1. /\ pc'[j] = "poll" /\ base'[j] = base[j] /\ state'[j] = s
        /\ pos'[j] = Resume(s) /\ batch'[j] = {}
    BY DEF Inv, TypeOK
  <2>2. base[j] <= Version
    BY DEF Inv, ConsumedIsLandedOrBatched, JobInv
  <2>3. \A p \in Partitions : Resume(s)[p] <= Resume(s)[p] /\ Resume(s)[p] <= hw[p]
    BY <1>2, <1>3 DEF Inv, ConsumedIsLandedOrBatched, TableInv
  <2>4. Summary(Version)' = s
    BY <1>1, <1>2 DEF Summary
  <2> QED BY <1>1, <2>1, <2>2, <2>3, <2>4 DEF JobInv
<1> QED BY <1>1, <1>4, <1>5, <1>6 DEF Inv, ConsumedIsLandedOrBatched

LEMMA PollKeepsInv ==
    ASSUME Inv, NEW j \in Jobs, NEW p \in Partitions, Poll(j, p)
    PROVE  Inv'
<1> USE DEF Poll
<1> DEFINE s == state[j]
           q == pos[j]
           r == [q EXCEPT ![p] = @ + 1]
<1>1. /\ StreamTypeOK' /\ StreamInv' /\ TableInv' /\ hw' = hw /\ Version' = Version
      /\ \A n \in 0 .. Version : Summary(n)' = Summary(n)
  BY TableKept
<1>2. /\ Version \in Nat /\ s \in Summaries /\ q \in [Partitions -> Nat]
      /\ Resume(s) \in [Partitions -> Nat] /\ hw \in [Partitions -> Nat]
  BY SummaryType, ResumeType DEF Inv, TypeOK, StreamTypeOK
<1>3. /\ pc'[j] \in {"poll", "append"} /\ base'[j] = base[j] /\ state'[j] = s
      /\ pos'[j] = r /\ batch'[j] = batch[j] \cup {<<p, q[p]>>}
  BY DEF Inv, TypeOK
<1>4. /\ base[j] <= Version
      /\ base[j] = Version => s = Summary(Version)
      /\ \A o \in Partitions : Resume(s)[o] <= q[o] /\ q[o] <= hw[o]
      /\ batch[j] = Consumed(s, q)
  BY DEF Inv, ConsumedIsLandedOrBatched, JobInv, Consumed
<1>5. r \in [Partitions -> Nat]
      /\ \A o \in Partitions : Resume(s)[o] <= r[o] /\ r[o] <= hw[o]
  <2>1. q[p] < hw[p]
    OBVIOUS
  <2>2. \A o \in Partitions : q[o] \in Nat /\ Resume(s)[o] \in Nat /\ hw[o] \in Nat
    BY <1>2
  <2>3. r[p] = q[p] + 1 /\ \A o \in Partitions : o # p => r[o] = q[o]
    BY <1>2
  <2>4. r \in [Partitions -> Nat]
    BY <1>2, <2>2
  <2> HIDE DEF q, s, r, Poll
  <2> QED BY <1>4, <2>1, <2>2, <2>3, <2>4
<1>6. batch'[j] = Prefix(r) \ Prefix(Resume(s)) /\ batch'[j] # {}
  <2>1. Resume(s)[p] <= q[p]
    BY <1>4
  <2>2. Consumed(s, r) = Consumed(s, q) \cup {<<p, q[p]>>}
    <3>1. s \in Summaries /\ q \in [Partitions -> Nat]
      BY <1>2
    <3> HIDE DEF s, q, Poll
    <3> QED BY <3>1, <2>1, PollOne
  <2> QED BY <1>3, <1>4, <2>2 DEF Consumed
<1>7. TypeOK'
  <2>1. batch' \in [Jobs -> SUBSET (Partitions \X Nat)]
    BY <1>2 DEF Inv, TypeOK
  <2>2. pos' \in [Jobs -> [Partitions -> Nat]]
    BY <1>5 DEF Inv, TypeOK
  <2>3. pc' \in [Jobs -> {"down", "loaded", "poll", "append", "swapped", "closed"}]
    BY DEF Inv, TypeOK
  <2> QED BY <1>1, <2>1, <2>2, <2>3 DEF Inv, TypeOK
<1>8. ASSUME NEW k \in Jobs, k # j PROVE JobInv(k)'
  <2>1. /\ pc'[k] = pc[k] /\ base'[k] = base[k] /\ state'[k] = state[k]
        /\ pos'[k] = pos[k] /\ batch'[k] = batch[k]
    BY <1>8 DEF Inv, TypeOK
  <2> QED BY <1>1, <2>1, IdleJobKept
<1>9. JobInv(j)'
  <2>1. base'[j] = Version' => state'[j] = Summary(Version)'
    <3>1. Version \in 0 .. Version
      BY <1>2
    <3>2. Summary(Version)' = Summary(Version)
      BY <1>1, <3>1 DEF Summary
    <3> QED BY <1>1, <1>3, <1>4, <3>2
  <2> HIDE DEF s, r, q
  <2> QED BY <1>1, <1>3, <1>4, <1>5, <1>6, <2>1 DEF JobInv
<1> QED BY <1>1, <1>7, <1>8, <1>9 DEF Inv, ConsumedIsLandedOrBatched

\* FlushOnTimeout and IdleExit move control alone.
LEMMA ControlKeepsInv ==
    ASSUME Inv, NEW j \in Jobs, FlushOnTimeout(j) \/ IdleExit(j)
    PROVE  Inv'
<1> USE DEF FlushOnTimeout, IdleExit
<1>1. /\ StreamTypeOK' /\ StreamInv' /\ TableInv' /\ hw' = hw /\ Version' = Version
      /\ \A n \in 0 .. Version : Summary(n)' = Summary(n)
  BY TableKept
<1>2. TypeOK'
  BY <1>1 DEF Inv, TypeOK
<1>3. UNCHANGED <<base, state, pos, batch>>
  OBVIOUS
<1>4. ASSUME NEW k \in Jobs, k # j PROVE JobInv(k)'
  <2>1. pc'[k] = pc[k]
    BY <1>4 DEF Inv, TypeOK
  <2> QED BY <1>1, <1>3, <2>1, IdleJobKept
<1>5. JobInv(j)'
  <2>1. /\ pc[j] = "poll" /\ pc'[j] \in {"append", "closed"}
        /\ pc'[j] = "append" => batch[j] # {}
    BY DEF Inv, TypeOK
  <2>2. Version \in 0 .. Version
    BY SummaryType DEF Inv, TypeOK
  <2>3. Summary(Version)' = Summary(Version)
    BY <1>1, <2>2 DEF Summary
  <2> QED BY <1>1, <1>3, <2>1, <2>3 DEF Inv, ConsumedIsLandedOrBatched, JobInv
<1> QED BY <1>1, <1>2, <1>4, <1>5 DEF Inv, ConsumedIsLandedOrBatched

LEMMA SwapPointerKeepsInv ==
    ASSUME Inv, NEW j \in Jobs, SwapPointer(j)
    PROVE  Inv'
<1> DEFINE s == state[j]
           q == pos[j]
           x == [rows |-> batch[j], summary |-> NewSummary(s, batch[j])]
<1>1. /\ pc[j] = "append" /\ base[j] = Version
      /\ snapshots' = Append(snapshots, x)
      /\ base' = [base EXCEPT ![j] = Version + 1]
      /\ pc' = [pc EXCEPT ![j] = "swapped"]
      /\ UNCHANGED <<streamVars, state, pos, batch, committed, leaving, crashes>>
  BY DEF SwapPointer
<1>2. /\ Version \in Nat /\ s \in Summaries /\ q \in [Partitions -> Nat]
      /\ Resume(s) \in [Partitions -> Nat] /\ hw \in [Partitions -> Nat]
      /\ snapshots \in Seq(Snapshots)
      /\ StreamTypeOK /\ StreamInv
      /\ batch[j] \subseteq Partitions \X Nat
  BY SummaryType, ResumeType
     DEF Inv, TypeOK, StreamTypeOK, ConsumedIsLandedOrBatched
<1>3. /\ s = Summary(Version)
      /\ \A p \in Partitions : Resume(s)[p] <= q[p] /\ q[p] <= hw[p]
      /\ batch[j] = Consumed(s, q)
  BY <1>1 DEF Inv, ConsumedIsLandedOrBatched, JobInv, Consumed
<1>4. x.summary \in Summaries /\ Resume(x.summary) = q
  <2> HIDE DEF s, q
  <2> QED BY <1>2, <1>3, NewSummaryIsSummary
<1>5. x \in Snapshots
  BY <1>2, <1>4 DEF Snapshots
<1> HIDE DEF s, q, x
<1>6. /\ snapshots' \in Seq(Snapshots) /\ Version' = Version + 1
      /\ \A n \in 1 .. Version : snapshots'[n] = snapshots[n]
      /\ snapshots'[Version + 1] = x
      /\ \A n \in 0 .. Version : Summary(n)' = Summary(n)
      /\ \A n \in 0 .. Version : TableRows(n)' = TableRows(n)
      /\ Summary(Version)' = x.summary /\ Landed' = Landed \cup x.rows
  BY <1>1, <1>2, <1>5, AppendKeepsHistory
<1>7. StreamTypeOK' /\ StreamInv' /\ hw' = hw
  <2>1. UNCHANGED streamVars
    BY <1>1
  <2> QED BY <1>2, <2>1 DEF StreamTypeOK, StreamInv, streamVars
<1>8. TypeOK'
  <2>1. /\ base' \in [Jobs -> Nat]
        /\ pc' \in [Jobs -> {"down", "loaded", "poll", "append", "swapped", "closed"}]
    BY <1>1, <1>2 DEF Inv, TypeOK
  <2> QED BY <1>1, <1>6, <1>7, <2>1 DEF Inv, TypeOK
<1>9. 0 .. Version' = (0 .. Version) \cup {Version'}
      /\ 1 .. Version' = (1 .. Version) \cup {Version'}
      /\ Version' \notin 0 .. Version
  BY <1>2, <1>6
<1>10. Landed = Prefix(Resume(s)) /\ x.rows = Prefix(q) \ Prefix(Resume(s))
  <2>1. Landed = TableRows(Version) /\ Version \in 0 .. Version
    BY <1>2 DEF Landed
  <2>2. x.rows = batch[j]
    BY DEF x
  <2> QED BY <1>3, <2>1, <2>2
      DEF Inv, ConsumedIsLandedOrBatched, TableInv, RowsMatchOffsets, Consumed
<1>11. Landed' = Prefix(q)
  <2>1. Prefix(Resume(s)) \subseteq Prefix(q)
    <3>1. Resume(s) \in [Partitions -> Int] /\ q \in [Partitions -> Int]
      BY <1>2
    <3> QED BY <1>3, <3>1, PrefixMonotone
  <2> QED BY <1>6, <1>10, <2>1
<1>12. TableInv'
  <2>1. ASSUME NEW n \in 0 .. Version', NEW p \in Partitions
        PROVE  Resume(Summary(n)')[p] <= hw'[p]
    <3>1. CASE n \in 0 .. Version
      BY <1>6, <1>7, <3>1 DEF Inv, ConsumedIsLandedOrBatched, TableInv
    <3>2. CASE n = Version'
      <4>1. Summary(n)' = x.summary
        BY <1>6, <3>2 DEF Summary
      <4> QED BY <1>3, <1>4, <1>7, <4>1
    <3> QED BY <1>9, <3>1, <3>2
  <2>2. ASSUME NEW n \in 0 .. Version'
        PROVE  TableRows(n)' = Prefix(Resume(Summary(n)'))
    <3>1. CASE n \in 0 .. Version
      BY <1>6, <3>1 DEF Inv, ConsumedIsLandedOrBatched, TableInv, RowsMatchOffsets
    <3>2. CASE n = Version'
      <4>1. Summary(n)' = x.summary
        BY <1>6, <3>2 DEF Summary
      <4>2. TableRows(n)' = Landed'
        BY <3>2 DEF Landed, TableRows
      <4> QED BY <1>4, <1>11, <4>1, <4>2
    <3> QED BY <1>9, <3>1, <3>2
  <2>3. ASSUME NEW n \in 1 .. Version'
        PROVE  snapshots'[n].rows \cap TableRows(n - 1)' = {}
    <3>1. CASE n \in 1 .. Version
      <4>1. n - 1 \in 0 .. Version
        BY <1>2, <3>1
      <4> QED BY <1>6, <3>1, <4>1 DEF Inv, ConsumedIsLandedOrBatched, TableInv
    <3>2. CASE n = Version'
      <4>1. n - 1 = Version /\ Version \in 0 .. Version
        BY <1>2, <1>6, <3>2
      <4>2. TableRows(n - 1)' = TableRows(Version)
        BY <1>6, <4>1 DEF TableRows
      <4>3. snapshots'[n].rows = x.rows
        BY <1>6, <3>2
      <4> QED BY <1>10, <4>2, <4>3 DEF Landed
    <3> QED BY <1>9, <3>1, <3>2
  <2> QED BY <2>1, <2>2, <2>3 DEF TableInv, RowsMatchOffsets
<1>13. ASSUME NEW k \in Jobs, k # j PROVE JobInv(k)'
  <2>1. /\ pc'[k] = pc[k] /\ base'[k] = base[k] /\ state'[k] = state[k]
        /\ pos'[k] = pos[k] /\ batch'[k] = batch[k]
    BY <1>1, <1>13 DEF Inv, TypeOK
  <2> QED BY <1>6, <1>7, <2>1, IdleJobKept
<1>14. JobInv(j)'
  <2>1. pc'[j] = "swapped" /\ base'[j] = Version' /\ pos'[j] = q
    BY <1>1, <1>6 DEF Inv, TypeOK, q
  <2>2. base'[j] >= 1
    BY <1>2, <1>6, <2>1
  <2>3. Summary(base[j])' = x.summary
    BY <1>6, <2>1 DEF Summary
  <2>4. base'[j] <= Version'
    BY <1>2, <1>6, <2>1
  <2> QED BY <1>4, <2>1, <2>2, <2>3, <2>4 DEF JobInv
<1> QED BY <1>7, <1>8, <1>12, <1>13, <1>14 DEF Inv, ConsumedIsLandedOrBatched

\* A conflict and a kill leave nothing of the process.
LEMMA DeathKeepsInv ==
    ASSUME Inv, NEW j \in Jobs, CommitConflict(j) \/ Crash(j)
    PROVE  Inv'
<1>1. UNCHANGED <<streamVars, snapshots>> /\ Forget(j) /\ crashes' \in Nat
  BY DEF CommitConflict, Crash, Inv, TypeOK
<1>2. /\ StreamTypeOK' /\ StreamInv' /\ TableInv' /\ hw' = hw /\ Version' = Version
      /\ \A n \in 0 .. Version : Summary(n)' = Summary(n)
  BY <1>1, TableKept
<1>3. Origin \in [Partitions -> Nat] /\ EmptySummary \in Summaries /\ Version \in Nat
  BY SummaryType DEF Origin, Inv, TypeOK
<1>4. TypeOK'
  BY <1>1, <1>2, <1>3 DEF Inv, TypeOK, Forget
<1>5. ASSUME NEW k \in Jobs, k # j PROVE JobInv(k)'
  <2>1. /\ pc'[k] = pc[k] /\ base'[k] = base[k] /\ state'[k] = state[k]
        /\ pos'[k] = pos[k] /\ batch'[k] = batch[k]
    BY <1>1, <1>5 DEF Inv, TypeOK, Forget
  <2> QED BY <1>2, <2>1, IdleJobKept
<1>6. JobInv(j)'
  <2>1. pc'[j] = "down" /\ base'[j] = 0
    BY <1>1 DEF Inv, TypeOK, Forget
  <2> QED BY <1>2, <1>3, <2>1 DEF JobInv
<1> QED BY <1>2, <1>4, <1>5, <1>6 DEF Inv, ConsumedIsLandedOrBatched

LEMMA AdvanceKeepsInv ==
    ASSUME Inv, NEW j \in Jobs, Advance(j)
    PROVE  Inv'
<1> DEFINE s == Summary(base[j])
<1>1. /\ pc[j] = "swapped"
      /\ state' = [state EXCEPT ![j] = s]
      /\ batch' = [batch EXCEPT ![j] = {}]
      /\ UNCHANGED <<streamVars, snapshots, base, pos, leaving, crashes>>
      /\ committed' \in [Jobs -> Nat]
      /\ pc' = [pc EXCEPT ![j] = pc'[j]] /\ pc'[j] \in {"closed", "poll"}
  <2> DEFINE n == IF MaxBatches > 0 THEN committed[j] + 1 ELSE 0
             l == IF leaving[j] \/ (MaxBatches > 0 /\ n >= MaxBatches)
                  THEN "closed" ELSE "poll"
  <2>1. n \in Nat /\ committed \in [Jobs -> Nat]
    BY JobAssumption DEF Inv, TypeOK
  <2>2. /\ pc[j] = "swapped"
        /\ state' = [state EXCEPT ![j] = s]
        /\ batch' = [batch EXCEPT ![j] = {}]
        /\ UNCHANGED <<streamVars, snapshots, base, pos, leaving, crashes>>
        /\ committed' = [committed EXCEPT ![j] = n]
        /\ pc' = [pc EXCEPT ![j] = l]
    BY DEF Advance
  <2>3. l \in {"closed", "poll"}
    OBVIOUS
  <2> HIDE DEF n, l, s
  <2>4. pc'[j] = l
    BY <2>2 DEF Inv, TypeOK
  <2> QED BY <2>1, <2>2, <2>3, <2>4
<1>2. /\ StreamTypeOK' /\ StreamInv' /\ TableInv' /\ hw' = hw /\ Version' = Version
      /\ \A n \in 0 .. Version : Summary(n)' = Summary(n)
  BY <1>1, TableKept
<1>3. /\ base[j] \in Nat /\ Version \in Nat /\ base[j] \in 0 .. Version
      /\ pos[j] = Resume(s) /\ s \in Summaries /\ Resume(s) \in [Partitions -> Nat]
  <2>1. base[j] \in Nat /\ Version \in Nat /\ base[j] <= Version /\ pos[j] = Resume(s)
    BY <1>1, SummaryType DEF Inv, TypeOK, ConsumedIsLandedOrBatched, JobInv
  <2>2. base[j] \in 0 .. Version
    BY <2>1
  <2>3. s \in Summaries
    BY <2>2, SummaryType DEF Inv, TypeOK
  <2> QED BY <2>1, <2>2, <2>3, ResumeType
<1>4. TypeOK'
  BY <1>1, <1>2, <1>3 DEF Inv, TypeOK
<1>5. ASSUME NEW k \in Jobs, k # j PROVE JobInv(k)'
  <2>1. /\ pc'[k] = pc[k] /\ base'[k] = base[k] /\ state'[k] = state[k]
        /\ pos'[k] = pos[k] /\ batch'[k] = batch[k]
    BY <1>1, <1>5 DEF Inv, TypeOK
  <2> QED BY <1>2, <2>1, IdleJobKept
<1>6. JobInv(j)'
  <2>1. /\ pc'[j] \in {"poll", "closed"} /\ state'[j] = s /\ batch'[j] = {}
        /\ base'[j] = base[j] /\ pos'[j] = Resume(s)
    BY <1>1, <1>3 DEF Inv, TypeOK
  <2>2. base[j] = Version => s = Summary(Version)'
    BY <1>2, <1>3 DEF Summary
  <2>3. \A p \in Partitions : Resume(s)[p] <= Resume(s)[p] /\ Resume(s)[p] <= hw[p]
    BY <1>3 DEF Inv, ConsumedIsLandedOrBatched, TableInv
  <2> HIDE DEF s
  <2> QED BY <1>2, <1>3, <2>1, <2>2, <2>3 DEF JobInv
<1> QED BY <1>2, <1>4, <1>5, <1>6 DEF Inv, ConsumedIsLandedOrBatched

------------------------------------------------------------------------------
(* The theorems *)

LEMMA NextKeepsInv == Inv /\ [Next]_vars => Inv'
<1> SUFFICES ASSUME Inv, [Next]_vars PROVE Inv'
  OBVIOUS
<1>1. CASE StreamNext /\ UNCHANGED <<snapshots, jobVars, crashes>>
  BY <1>1, StreamKeepsInv
<1>2. ASSUME NEW j \in Jobs, JobStep(j) PROVE Inv'
  BY <1>2, LoadTableKeepsInv, ReadResumeStateKeepsInv, PollKeepsInv,
     ControlKeepsInv, SwapPointerKeepsInv, DeathKeepsInv, AdvanceKeepsInv
     DEF JobStep
<1>3. ASSUME NEW j \in Jobs, IdleExit(j) \/ Crash(j) PROVE Inv'
  BY <1>3, ControlKeepsInv, DeathKeepsInv
<1>4. CASE UNCHANGED vars
  <2>1. UNCHANGED <<streamVars, snapshots>>
    BY <1>4 DEF vars
  <2>2. TypeOK'
    BY <1>4, <2>1, TableKept DEF vars, jobVars, Inv, TypeOK
  <2>3. ASSUME NEW k \in Jobs PROVE JobInv(k)'
    BY <1>4, <2>1, TableKept, IdleJobKept DEF vars, jobVars
  <2> QED BY <2>1, <2>2, <2>3, TableKept DEF Inv, ConsumedIsLandedOrBatched
<1> QED BY <1>1, <1>2, <1>3, <1>4 DEF Next

\* Every variable keeps its type, whatever the number of jobs and crashes: no
\* merge of offsets or maxima is taken over an empty or unbounded set.
THEOREM TypeCorrect == Spec => []TypeOK
<1>1. Inv => TypeOK
  BY DEF Inv
<1> QED BY <1>1, InitInv, NextKeepsInv, PTL DEF Spec

\* The inductive invariant: what a job with a current handle consumed is what
\* has landed and what is in its batch.
THEOREM ConsumedCorrect == Spec => []ConsumedIsLandedOrBatched
<1>1. Inv => ConsumedIsLandedOrBatched
  BY DEF Inv
<1> QED BY <1>1, InitInv, NextKeepsInv, PTL DEF Spec

\* Rows and offsets commit together: no version of the table ever holds a row
\* its own offsets would read again, or misses one they would skip.
THEOREM OffsetsCorrect == Spec => []RowsMatchOffsets
<1>1. Inv => RowsMatchOffsets
  BY DEF Inv, ConsumedIsLandedOrBatched, TableInv
<1> QED BY <1>1, InitInv, NextKeepsInv, PTL DEF Spec

\* No event is appended twice, by any number of jobs that crash, restart and
\* race for the same offsets.
THEOREM ExactlyOnce == Spec => []NoDuplicateRows
<1>1. Inv => NoDuplicateRows
  <2> SUFFICES ASSUME Inv, NEW m \in 1 .. Version, NEW n \in 1 .. Version, m < n
               PROVE  snapshots[m].rows \cap snapshots[n].rows = {}
    BY DEF NoDuplicateRows
  <2>1. Version \in Nat
    BY SummaryType DEF Inv, TypeOK
  <2>2. m \in 1 .. (n - 1)
    BY <2>1
  <2>3. snapshots[m].rows \subseteq TableRows(n - 1)
    BY <2>2 DEF TableRows
  <2>4. snapshots[n].rows \cap TableRows(n - 1) = {}
    BY DEF Inv, ConsumedIsLandedOrBatched, TableInv
  <2> QED BY <2>3, <2>4
<1> QED BY <1>1, InitInv, NextKeepsInv, PTL DEF Spec
==============================================================================
