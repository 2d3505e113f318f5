------------------------------ MODULE LakeProofs ------------------------------
(***************************************************************************)
(* What readers of the table may rely on.  T is safe: below the T of any   *)
(* version every event is in that version, as long as the generator is run *)
(* once on the topic (MaxRuns = 1: a second run starts i and start_ms      *)
(* over, and the run rerun_is_unsafe shows what happens then).  The        *)
(* landing job implements ExactlyOnceLake: offsets, batches, crashes and   *)
(* racing writers are gone from what can be seen of the table, and the T   *)
(* that each commit keeps incrementally is the T of the whole table.  And  *)
(* what that table holds: a history that only goes forward, each order     *)
(* once and no cancellation without its creation, all a job consumed       *)
(* before it exits, and below T the events of the ground-truth file.       *)
(***************************************************************************)
EXTENDS LandingJobProofs

------------------------------------------------------------------------------
(* The marks of every version *)

MarksOf(s, q) ==
    \A p \in Partitions :
        /\ \/ s.partMax[p] = None
           \/ \E o \in 0 .. (q[p] - 1) : s.partMax[p] = EventTime(<<p, o>>)
        /\ \/ s.wm = 0
           \/ \E o \in 0 .. (q[p] - 1) : s.wm + W <= EventTime(<<p, o>>)

\* One commit keeps the marks: the new maxima are event times of rows below the
\* new offsets, and the new T is the old one or below all of the maxima.
LEMMA CommitKeepsMarks ==
    ASSUME StreamTypeOK, StreamInv,
           NEW s \in Summaries, NEW q \in [Partitions -> Nat],
           \A p \in Partitions : Resume(s)[p] <= q[p] /\ q[p] <= hw[p],
           MarksOf(s, Resume(s))
    PROVE  MarksOf(NewSummary(s, Consumed(s, q)), q)
<1> DEFINE m == MergedMax(s, Consumed(s, q))
           t == ComputeWatermark(m, W, s.wm, Cardinality(Partitions))
           new == NewSummary(s, Consumed(s, q))
<1>1. new.partMax = m /\ new.wm = t
  BY DEF NewSummary
<1>2. \A p \in Partitions : \A o \in 0 .. (Resume(s)[p] - 1) : o \in 0 .. (q[p] - 1)
  BY ResumeType
<1>3. /\ m \in Dicts
      /\ \A p \in Partitions :
            m[p] = s.partMax[p] \/ \E o \in 0 .. (q[p] - 1) : m[p] = EventTime(<<p, o>>)
  BY MergedMaxIsMax
<1>4. s.wm \in Nat
  BY DEF Summaries
<1>5. t = s.wm \/ \A p \in Partitions : m[p] # None /\ t + W <= m[p]
  <2> HIDE DEF m
  <2> QED BY <1>3, <1>4, WatermarkBound
<1> HIDE DEF m, t, new
<1>6. ASSUME NEW p \in Partitions
      PROVE  m[p] = None \/ \E o \in 0 .. (q[p] - 1) : m[p] = EventTime(<<p, o>>)
  BY <1>2, <1>3 DEF MarksOf
<1>7. ASSUME NEW p \in Partitions
      PROVE  t = 0 \/ \E o \in 0 .. (q[p] - 1) : t + W <= EventTime(<<p, o>>)
  <2>1. CASE t = s.wm
    BY <1>2, <2>1 DEF MarksOf
  <2>2. CASE m[p] # None /\ t + W <= m[p]
    BY <1>6, <2>2
  <2> QED BY <1>5, <2>1, <2>2
<1> QED BY <1>1, <1>6, <1>7 DEF MarksOf, new

LEMMA MarksAreMarks ==
    MarksAreLanded <=> \A n \in 0 .. Version : MarksOf(Summary(n), Resume(Summary(n)))
BY DEF MarksAreLanded, MarksOf

SafeInv == Inv /\ DisorderInv /\ MarksAreLanded

LEMMA InitSafe == Init => SafeInv
<1> SUFFICES ASSUME Init PROVE SafeInv
  OBVIOUS
<1>1. Inv
  BY InitInv
<1>2. DisorderInv
  <2>1. \A p \in Partitions : log[p] = <<>> /\ DOMAIN log[p] = {}
    BY DEF Init, StreamInit
  <2>2. runs >= 1
    BY DEF Init, StreamInit
  <2> QED BY <2>1, <2>2 DEF DisorderInv, BoundedDisorder
<1>3. MarksAreLanded
  <2>1. Version = 0
    BY EmptySeq DEF Init, Version
  <2>2. \A n \in 0 .. Version : Summary(n) = EmptySummary
    BY <2>1 DEF Summary
  <2>3. EmptySummary.wm = 0 /\ \A p \in Partitions : EmptySummary.partMax[p] = None
    BY DEF EmptySummary, EmptyDict
  <2> QED BY <2>2, <2>3 DEF MarksAreLanded
<1> QED BY <1>1, <1>2, <1>3 DEF SafeInv

LEMMA NextKeepsSafe == ASSUME MaxRuns = 1 PROVE SafeInv /\ [Next]_vars => SafeInv'
<1> SUFFICES ASSUME SafeInv, [Next]_vars PROVE SafeInv'
  OBVIOUS
<1> USE DEF SafeInv
<1>1. Inv'
  BY NextKeepsInv
<1>2. /\ StreamTypeOK /\ StreamInv /\ snapshots \in Seq(Snapshots)
      /\ Version \in Nat
      /\ \A n \in 0 .. Version : Summary(n) \in Summaries
      /\ \A n \in 0 .. Version : Resume(Summary(n)) \in [Partitions -> Nat]
      /\ \A n \in 0 .. Version : \A p \in Partitions : Resume(Summary(n))[p] <= hw[p]
      /\ hw \in [Partitions -> Nat]
  BY SummaryType, ResumeType
     DEF Inv, TypeOK, ConsumedIsLandedOrBatched, TableInv, StreamTypeOK
<1>3. CASE StreamNext /\ UNCHANGED <<snapshots, jobVars, crashes>>
  <2>1. DisorderInv'
    BY <1>2, <1>3, DisorderKept
  <2>2. Version' = Version /\ \A n : Summary(n)' = Summary(n)
    BY <1>3 DEF Version, Summary
  <2>3. ASSUME NEW n \in 0 .. Version, NEW p \in Partitions,
               NEW o \in 0 .. (Resume(Summary(n))[p] - 1)
        PROVE  EventTime(<<p, o>>)' = EventTime(<<p, o>>)
    <3>1. Resume(Summary(n))[p] \in Nat /\ hw[p] \in Nat /\ Resume(Summary(n))[p] <= hw[p]
      BY <1>2
    <3>2. o \in 0 .. (hw[p] - 1)
      BY <3>1
    <3> QED BY <1>2, <1>3, <3>2, EventTimeKept
  <2>4. MarksAreLanded'
    <3> SUFFICES ASSUME NEW n \in 0 .. Version'
                 PROVE  MarksOf(Summary(n), Resume(Summary(n)))'
      BY DEF MarksAreLanded, MarksOf
    <3>1. n \in 0 .. Version /\ Summary(n)' = Summary(n)
      BY <2>2
    <3>2. MarksOf(Summary(n), Resume(Summary(n)))
      BY <3>1, MarksAreMarks
    <3>3. Resume(Summary(n))' = Resume(Summary(n))
      BY <3>1 DEF Resume
    <3> QED BY <2>3, <3>1, <3>2, <3>3 DEF MarksOf
  <2> QED BY <1>1, <2>1, <2>4
<1>4. ASSUME log' = log, index' = index, runs' = runs
      PROVE  DisorderInv' /\ \A c : EventTime(c)' = EventTime(c)
  BY <1>4 DEF DisorderInv, BoundedDisorder, EventTime, EventAt
<1>5. ASSUME NEW j \in Jobs, SwapPointer(j) PROVE SafeInv'
  <2> DEFINE s == state[j]
             q == pos[j]
             x == [rows |-> batch[j], summary |-> NewSummary(s, batch[j])]
  <2>1. /\ pc[j] = "append" /\ base[j] = Version
        /\ snapshots' = Append(snapshots, x)
        /\ log' = log /\ index' = index /\ runs' = runs
    BY <1>5 DEF SwapPointer, streamVars
  <2>2. /\ s = Summary(Version) /\ s \in Summaries /\ q \in [Partitions -> Nat]
        /\ \A p \in Partitions : Resume(s)[p] <= q[p] /\ q[p] <= hw[p]
        /\ batch[j] = Consumed(s, q) /\ batch[j] \subseteq Partitions \X Nat
    BY <2>1 DEF Inv, TypeOK, ConsumedIsLandedOrBatched, JobInv, Consumed
  <2>3. x.summary \in Summaries /\ Resume(x.summary) = q
    <3> HIDE DEF s, q
    <3> QED BY <1>2, <2>2, NewSummaryIsSummary
  <2>4. MarksOf(x.summary, q)
    <3>1. MarksOf(s, Resume(s))
      BY <1>2, <2>2, MarksAreMarks
    <3> HIDE DEF s, q
    <3> QED BY <1>2, <2>2, <3>1, CommitKeepsMarks
  <2>5. x \in Snapshots
    BY <2>2, <2>3 DEF Snapshots
  <2> HIDE DEF s, q, x
  <2>6. /\ Version' = Version + 1
        /\ \A n \in 0 .. Version : Summary(n)' = Summary(n)
        /\ Summary(Version)' = x.summary
    BY <1>2, <2>1, <2>5, AppendKeepsHistory
  <2>7. DisorderInv' /\ \A c : EventTime(c)' = EventTime(c)
    BY <1>4, <2>1
  <2>8. MarksAreLanded'
    <3> SUFFICES ASSUME NEW n \in 0 .. Version'
                 PROVE  MarksOf(Summary(n), Resume(Summary(n)))'
      BY DEF MarksAreLanded, MarksOf
    <3>1. CASE n \in 0 .. Version
      <4>1. Summary(n)' = Summary(n) /\ MarksOf(Summary(n), Resume(Summary(n)))
        BY <2>6, <3>1, MarksAreMarks
      <4> QED BY <2>7, <4>1 DEF MarksOf
    <3>2. CASE n = Version'
      <4>1. Summary(n)' = x.summary
        BY <2>6, <3>2 DEF Summary
      <4> QED BY <2>3, <2>4, <2>7, <4>1 DEF MarksOf
    <3>3. n \in 0 .. Version \/ n = Version'
      BY <1>2, <2>6
    <3> QED BY <3>1, <3>2, <3>3
  <2> QED BY <1>1, <2>7, <2>8
<1>6. ASSUME UNCHANGED <<streamVars, snapshots>> PROVE SafeInv'
  <2>1. log' = log /\ index' = index /\ runs' = runs
    BY <1>6 DEF streamVars
  <2>2. DisorderInv' /\ \A c : EventTime(c)' = EventTime(c)
    BY <1>4, <2>1
  <2>3. Version' = Version /\ \A n : Summary(n)' = Summary(n)
    BY <1>6 DEF Version, Summary
  <2>4. MarksAreLanded'
    BY <2>2, <2>3 DEF MarksAreLanded
  <2> QED BY <1>1, <2>2, <2>4
<1>7. ASSUME NEW j \in Jobs, JobStep(j) \/ IdleExit(j) \/ Crash(j) PROVE SafeInv'
  <2>1. SwapPointer(j) \/ UNCHANGED <<streamVars, snapshots>>
    BY <1>7 DEF JobStep, LoadTable, ReadResumeState, Poll, FlushOnTimeout,
                CommitConflict, Advance, IdleExit, Crash
  <2> QED BY <1>5, <1>6, <2>1
<1>8. CASE UNCHANGED vars
  BY <1>6, <1>8 DEF vars
<1> QED BY <1>3, <1>7, <1>8 DEF Next

------------------------------------------------------------------------------
(* The theorems *)

\* The generator keeps its promise on a topic it is run on once: within a
\* partition no event is W or more older than one before it.
THEOREM DisorderIsBounded == ASSUME MaxRuns = 1 PROVE Spec => []BoundedDisorder
<1>1. SafeInv => BoundedDisorder
  BY DEF SafeInv, DisorderInv
<1> QED BY <1>1, InitSafe, NextKeepsSafe, PTL DEF Spec

\* Every maximum and every T a snapshot stores is backed by rows of that version.
THEOREM MarksCorrect == ASSUME MaxRuns = 1 PROVE Spec => []MarksAreLanded
<1>1. SafeInv => MarksAreLanded
  BY DEF SafeInv
<1> QED BY <1>1, InitSafe, NextKeepsSafe, PTL DEF Spec

\* watermark.py's guarantee: every event below the T of any version of the table
\* is in that version, those not yet produced or not yet consumed included.
THEOREM WatermarkCorrect == ASSUME MaxRuns = 1 PROVE Spec => []WatermarkSafe
<1>1. SafeInv => WatermarkSafe
  <2> SUFFICES ASSUME SafeInv, NEW n \in 0 .. Version, NEW c \in Coordinates,
                      EventTime(c) < Summary(n).wm
               PROVE  c \in TableRows(n)
    BY DEF WatermarkSafe
  <2> DEFINE p == c[1]
             s == Summary(n)
  <2>1. p \in Partitions /\ c[2] \in 0 .. (Len(log[p]) - 1) /\ c = <<p, c[2]>>
    <3>1. c[1] \in Partitions /\ c = <<c[1], c[2]>>
          /\ c[2] \in 0 .. ([r \in Partitions |-> Len(log[r])][c[1]] - 1)
      BY PrefixPair DEF Coordinates
    <3> QED BY <3>1
  <2>2. /\ log[p] \in Seq(Events) /\ Len(log[p]) \in Nat
        /\ DOMAIN log[p] = 1 .. Len(log[p])
    BY <2>1, LenProperties DEF SafeInv, Inv, TypeOK, StreamTypeOK
  <2>3. /\ s \in Summaries /\ Resume(s) \in [Partitions -> Nat]
        /\ hw[p] \in Nat /\ hw[p] <= Len(log[p]) /\ Resume(s)[p] <= hw[p]
        /\ TableRows(n) = Prefix(Resume(s))
    BY <2>1, SummaryType, ResumeType
       DEF SafeInv, Inv, TypeOK, StreamTypeOK, ConsumedIsLandedOrBatched,
           TableInv, RowsMatchOffsets
  <2>4. \A a \in DOMAIN log[p] : log[p][a].et \in Nat
    <3>1. \A a \in DOMAIN log[p] : log[p][a] \in Events
      BY <2>2, ElementOfSeq
    <3> QED BY <3>1 DEF Events
  <2>5. c[2] + 1 \in DOMAIN log[p] /\ EventTime(c) = log[p][c[2] + 1].et
    BY <2>1, <2>2 DEF EventTime, EventAt
  <2>6. s.wm \in Nat /\ s.wm # 0
    BY <2>3, <2>4, <2>5 DEF Summaries
  <2>7. PICK o \in 0 .. (Resume(s)[p] - 1) : s.wm + W <= EventTime(<<p, o>>)
    BY <2>1, <2>6 DEF SafeInv, MarksAreLanded
  <2>8. o + 1 \in DOMAIN log[p] /\ EventTime(<<p, o>>) = log[p][o + 1].et
    <3>1. Resume(s)[p] \in Nat
      BY <2>1, <2>3
    <3>2. o + 1 \in 1 .. Len(log[p])
      BY <2>2, <2>3, <3>1
    <3> QED BY <2>2, <3>2 DEF EventTime, EventAt
  <2>9. ~ (o + 1 < c[2] + 1)
    <3> SUFFICES ASSUME o + 1 < c[2] + 1 PROVE FALSE
      OBVIOUS
    <3>1. log[p][o + 1].et - W < log[p][c[2] + 1].et
      BY <2>1, <2>5, <2>8 DEF SafeInv, DisorderInv, BoundedDisorder
    <3>2. W \in Nat /\ log[p][o + 1].et \in Nat /\ log[p][c[2] + 1].et \in Nat
      BY <2>4, <2>5, <2>8, LatenessAssumption
    <3> QED BY <2>5, <2>6, <2>7, <2>8, <3>1, <3>2
  <2>10. c[2] \in 0 .. (Resume(s)[p] - 1)
    <3>1. Resume(s)[p] \in Nat
      BY <2>1, <2>3
    <3> QED BY <2>1, <2>9, <3>1
  <2> QED BY <2>1, <2>3, <2>10, InPrefix
<1> QED BY <1>1, InitSafe, NextKeepsSafe, PTL DEF Spec


------------------------------------------------------------------------------
(* The names of the abstract specification *)

LEMMA LakeNames ==
    /\ Lake!streamVars = streamVars /\ Lake!Delivered = Delivered
    /\ Lake!StreamInit <=> StreamInit
    /\ \A r : Lake!SafeT(r) = SafeT(r)
    /\ \A r : Lake!PrefixClosed(r) <=> PrefixClosed(r)
<1>1. \A cut : Lake!Prefix(cut) = Prefix(cut)
  BY DEF Lake!Prefix, Prefix
<1>2. \A c : Lake!EventTime(c) = EventTime(c)
  BY DEF Lake!EventTime, Lake!EventAt, EventTime, EventAt
<1>3. \A r : Lake!Max(r) = Max(r) /\ Lake!Min(r) = Min(r)
  BY DEF Lake!Max, Max, Lake!Min, Min
<1>4. \A r, p : Lake!LargestIn(r, p) = LargestIn(r, p)
  BY <1>2, <1>3 DEF Lake!LargestIn, LargestIn
<1>5. ASSUME NEW r PROVE Lake!SafeT(r) = SafeT(r)
  <2>1. Lake!SeenIn(r) = SeenIn(r)
    BY DEF Lake!SeenIn, SeenIn
  <2>2. {Lake!LargestIn(r, p) : p \in Partitions} = {LargestIn(r, p) : p \in Partitions}
    BY <1>4
  <2> QED BY <1>3, <2>1, <2>2 DEF Lake!SafeT, SafeT
<1>6. ASSUME NEW r PROVE Lake!PrefixClosed(r) <=> PrefixClosed(r)
  BY DEF Lake!PrefixClosed, PrefixClosed
<1>7. Lake!StreamInit <=> StreamInit
  BY DEF Lake!StreamInit, StreamInit
<1>8. Lake!streamVars = streamVars /\ Lake!Delivered = Delivered
  BY <1>1 DEF Lake!streamVars, streamVars, Lake!Delivered, Delivered
<1> QED BY <1>5, <1>6, <1>7, <1>8

LEMMA LakeStreamNext == ASSUME StreamNext PROVE Lake!StreamNext
<1>1. /\ Lake!Jitter = Jitter /\ Lake!Delivered = Delivered
      /\ Lake!Coordinates = Coordinates
  BY DEF Lake!Jitter, Jitter, Lake!Delivered, Delivered, Lake!Coordinates,
         Coordinates, Lake!Prefix, Prefix
<1>2. \A order, type, p, jitter :
          Emit(order, type, p, jitter) => Lake!Emit(order, type, p, jitter)
  BY DEF Lake!Emit, Emit, Lake!STEP_MS, STEP_MS
<1>3. \A p, jitter : CreateOrder(p, jitter) => Lake!CreateOrder(p, jitter)
  BY <1>2 DEF Lake!CreateOrder, CreateOrder
<1>4. \A c, jitter : CancelOrder(c, jitter) => Lake!CancelOrder(c, jitter)
  BY <1>2 DEF Lake!CancelOrder, CancelOrder
<1>5. WriteGroundTruth => Lake!WriteGroundTruth
  BY <1>1 DEF Lake!WriteGroundTruth, WriteGroundTruth
<1>6. \A p : Deliver(p) => Lake!Deliver(p)
  BY DEF Lake!Deliver, Deliver
<1>7. NewRun => Lake!NewRun
  BY <1>1 DEF Lake!NewRun, NewRun
<1> QED BY <1>1, <1>3, <1>4, <1>5, <1>6, <1>7 DEF Lake!StreamNext, StreamNext

------------------------------------------------------------------------------
(* T of the current version *)

\* The stored maxima and T are those one would recompute from the rows.
CurrentMarks ==
    /\ \A p \in Partitions :
        Summary(Version).partMax[p] =
            IF p \in SeenIn(Landed) THEN LargestIn(Landed, p) ELSE None
    /\ CurrentT = SafeT(Landed)

LEMMA CurrentVersion ==
    ASSUME Inv
    PROVE  /\ Version \in Nat /\ Version \in 0 .. Version
           /\ Summary(Version) \in Summaries
           /\ Resume(Summary(Version)) \in [Partitions -> Nat]
           /\ Landed = Prefix(Resume(Summary(Version)))
           /\ Landed \in SUBSET Delivered
           /\ \A p \in Partitions : Resume(Summary(Version))[p] <= hw[p]
<1> DEFINE s == Summary(Version)
<1>1. Version \in Nat /\ Version \in 0 .. Version /\ s \in Summaries
  BY SummaryType DEF Inv, TypeOK
<1>2. Landed = Prefix(Resume(s)) /\ \A p \in Partitions : Resume(s)[p] <= hw[p]
  BY <1>1 DEF Inv, ConsumedIsLandedOrBatched, TableInv, RowsMatchOffsets, Landed
<1>3. Resume(s) \in [Partitions -> Nat] /\ hw \in [Partitions -> Nat]
  BY <1>1, ResumeType DEF Inv, TypeOK, StreamTypeOK
<1>4. Prefix(Resume(s)) \subseteq Prefix(hw)
  <2> DEFINE r == Resume(s)
  <2>1. r \in [Partitions -> Int] /\ hw \in [Partitions -> Int]
        /\ \A p \in Partitions : r[p] <= hw[p]
    BY <1>2, <1>3
  <2> HIDE DEF r
  <2>2. Prefix(r) \subseteq Prefix(hw)
    BY <2>1, PrefixMonotone
  <2> QED BY <2>2 DEF r
<1> QED BY <1>1, <1>2, <1>3, <1>4 DEF Delivered

\* The merge is incremental but exact: the merged maximum of a partition is the
\* largest event time among all of its rows.
LEMMA MergeIsExact ==
    ASSUME StreamTypeOK, StreamInv,
           NEW s \in Summaries, NEW q \in [Partitions -> Nat],
           \A p \in Partitions : Resume(s)[p] <= q[p] /\ q[p] <= hw[p],
           Prefix(Resume(s)) \in SUBSET Delivered, Prefix(q) \in SUBSET Delivered,
           NEW p \in Partitions,
           s.partMax[p] = IF p \in SeenIn(Prefix(Resume(s)))
                          THEN LargestIn(Prefix(Resume(s)), p) ELSE None
    PROVE  MergedMax(s, Consumed(s, q))[p] =
               IF p \in SeenIn(Prefix(q)) THEN LargestIn(Prefix(q), p) ELSE None
<1> DEFINE m == MergedMax(s, Consumed(s, q))
           old == Prefix(Resume(s))
           new == Prefix(q)
<1>1. /\ Resume(s)[p] \in Nat /\ q[p] \in Nat /\ Resume(s)[p] <= q[p]
      /\ old \subseteq new
  <2>1. Resume(s) \in [Partitions -> Nat]
    BY ResumeType
  <2> DEFINE r == Resume(s)
  <2>2. r \in [Partitions -> Int] /\ q \in [Partitions -> Int]
        /\ \A k \in Partitions : r[k] <= q[k]
    BY <2>1
  <2> HIDE DEF r
  <2>3. Prefix(r) \subseteq Prefix(q)
    BY <2>2, PrefixMonotone
  <2> QED BY <2>1, <2>3 DEF r
<1>2. /\ m[p] \in Nat \cup {None}
      /\ m[p] = s.partMax[p] \/ \E o \in 0 .. (q[p] - 1) : m[p] = EventTime(<<p, o>>)
      /\ s.partMax[p] <= m[p]
      /\ \A o \in Resume(s)[p] .. (q[p] - 1) : EventTime(<<p, o>>) <= m[p]
  <2>1. m \in Dicts /\ \A k \in Partitions :
            /\ m[k] = s.partMax[k] \/ \E o \in 0 .. (q[k] - 1) : m[k] = EventTime(<<k, o>>)
            /\ s.partMax[k] <= m[k]
            /\ \A o \in Resume(s)[k] .. (q[k] - 1) : EventTime(<<k, o>>) <= m[k]
    BY MergedMaxIsMax
  <2> HIDE DEF m
  <2> QED BY <2>1 DEF Dicts
<1>3. s.partMax[p] \in Nat \cup {None}
  BY DEF Summaries, Dicts
<1>4. CASE p \notin SeenIn(new)
  <2>1. p \notin SeenIn(old)
    BY <1>1, <1>4 DEF SeenIn
  <2>2. On(Consumed(s, q), p) = {}
    BY <1>4 DEF On, Consumed, SeenIn
  <2>3. m[p] = s.partMax[p]
    BY <2>2 DEF MergedMax
  <2> QED BY <1>4, <2>1, <2>3
<1>5. CASE p \in SeenIn(new)
  <2> DEFINE L == LargestIn(new, p)
  <2>1. /\ L \in Nat
        /\ \E c \in new : c[1] = p /\ L = EventTime(c)
        /\ \A c \in new : c[1] = p => EventTime(c) <= L
    BY <1>5, LargestInRows
  <2>2. \A c \in old : c[1] = p => EventTime(c) <= s.partMax[p] /\ p \in SeenIn(old)
    <3> SUFFICES ASSUME NEW c \in old, c[1] = p
                 PROVE  EventTime(c) <= s.partMax[p] /\ p \in SeenIn(old)
      OBVIOUS
    <3>1. p \in SeenIn(old)
      BY DEF SeenIn
    <3> QED BY <3>1, LargestInRows
  <2>3. PICK c \in new : c[1] = p /\ L = EventTime(c)
    BY <2>1
  <2>4. c = <<p, c[2]>> /\ c[2] \in 0 .. (q[p] - 1)
    BY <2>3, PrefixPair
  <2> HIDE DEF m, L
  <2>5. L <= m[p]
    <3>1. CASE c \in old
      <4>1. L <= s.partMax[p]
        BY <2>2, <2>3, <3>1
      <4> QED BY <1>2, <1>3, <2>1, <4>1 DEF None
    <3>2. CASE c \notin old
      <4>1. c[2] \notin 0 .. (Resume(s)[p] - 1)
        BY <2>4, <3>2, InPrefix
      <4>2. c[2] \in Resume(s)[p] .. (q[p] - 1)
        BY <1>1, <2>4, <4>1
      <4> QED BY <1>2, <2>3, <2>4, <4>2
    <3> QED BY <3>1, <3>2
  <2>6. m[p] <= L
    <3>1. CASE \E o \in 0 .. (q[p] - 1) : m[p] = EventTime(<<p, o>>)
      <4>1. PICK o \in 0 .. (q[p] - 1) : m[p] = EventTime(<<p, o>>)
        BY <3>1
      <4>2. <<p, o>> \in new /\ <<p, o>>[1] = p
        BY InPrefix
      <4> QED BY <2>1, <4>1, <4>2
    <3>2. CASE m[p] = s.partMax[p] /\ p \in SeenIn(old)
      <4>1. PICK d \in old : d[1] = p /\ LargestIn(old, p) = EventTime(d)
        BY <3>2, LargestInRows
      <4>2. d \in new
        BY <1>1
      <4> QED BY <2>1, <3>2, <4>1, <4>2
    <3>3. CASE m[p] = s.partMax[p] /\ p \notin SeenIn(old)
      BY <2>1, <3>3 DEF None
    <3> QED BY <1>2, <3>1, <3>2, <3>3
  <2>7. m[p] = L
    BY <1>2, <2>1, <2>5, <2>6 DEF None
  <2> QED BY <1>5, <2>7 DEF m, L
<1> QED BY <1>4, <1>5

\* So is T: raised from the previous T by the maxima, it is what the whole table
\* gives.
LEMMA WatermarkIsExact ==
    ASSUME StreamTypeOK, StreamInv,
           NEW new \in SUBSET Delivered, NEW old \in SUBSET new,
           NEW m \in Dicts,
           \A p \in Partitions :
               m[p] = IF p \in SeenIn(new) THEN LargestIn(new, p) ELSE None
    PROVE  ComputeWatermark(m, W, SafeT(old), Cardinality(Partitions)) = SafeT(new)
<1> DEFINE prev == SafeT(old)
<1>1. /\ old \in SUBSET Delivered
      /\ SeenIn(old) \subseteq SeenIn(new) /\ SeenIn(new) \subseteq Partitions
  BY DeliveredEvent DEF SeenIn
<1>2. prev \in Nat /\ SafeT(new) \in Nat /\ prev <= SafeT(new)
  BY <1>1, SafeTIsBacked, SafeTMonotone
<1>3. Keys(m) = SeenIn(new)
  <2>1. \A p \in SeenIn(new) : m[p] \in Nat
    BY <1>1, LargestInRows
  <2>2. \A p \in Partitions : m[p] # None <=> p \in SeenIn(new)
    BY <2>1 DEF None
  <2> QED BY <1>1, <2>2 DEF Keys, Dicts
<1>4. CASE SeenIn(new) # Partitions
  <2>1. SafeT(new) = 0 /\ prev = 0
    BY <1>1, <1>4 DEF SafeT
  <2>2. Cardinality(Keys(m)) < Cardinality(Partitions)
    <3>1. Keys(m) \in SUBSET Partitions
      BY <1>1, <1>3
    <3>2. /\ Cardinality(Keys(m)) <= Cardinality(Partitions)
          /\ Cardinality(Partitions) = Cardinality(Keys(m)) => Partitions = Keys(m)
          /\ Cardinality(Keys(m)) \in Nat /\ Cardinality(Partitions) \in Nat
      BY <3>1, PartitionsAssumption, FS_Subset, FS_CardinalityType
    <3> QED BY <1>3, <1>4, <3>2
  <2>3. ComputeWatermark(m, W, prev, Cardinality(Partitions)) = prev
    BY <2>2 DEF ComputeWatermark
  <2> QED BY <2>1, <2>3
<1>5. CASE SeenIn(new) = Partitions
  <2> DEFINE M == {LargestIn(new, p) : p \in Partitions}
             least == Min(M) - W
             t == ComputeWatermark(m, W, prev, Cardinality(Partitions))
  <2>1. {m[p] : p \in Keys(m)} = M
    BY <1>3, <1>5
  <2>2. /\ Keys(m) = Partitions /\ Keys(m) # {}
        /\ ~ (Cardinality(Keys(m)) < Cardinality(Partitions))
    <3>1. Cardinality(Partitions) \in Nat
      BY PartitionsAssumption, FS_CardinalityType
    <3> QED BY <1>3, <1>5, <3>1, PartitionsAssumption
  <2>3. t = Max({prev, least})
    BY <2>1, <2>2 DEF ComputeWatermark
  <2>4. SafeT(new) = Max({0, least})
    BY <1>5, SafeTIsBacked
  <2>5. least \in Int
    <3>1. M \in SUBSET Int /\ M # {} /\ \A x \in M : 0 <= x
      BY <1>5, LargestInRows, PartitionsAssumption
    <3>2. 0 \in Int
      OBVIOUS
    <3>3. Min(M) \in M
      <4> HIDE DEF M
      <4> QED BY <3>1, <3>2, MinOfSet
    <3>4. Min(M) \in Int
      <4> HIDE DEF M
      <4> QED BY <3>1, <3>3
    <3> QED BY <3>4, LatenessAssumption
  <2> HIDE DEF least, t, prev
  <2>6. /\ Max({prev, least}) \in {prev, least}
        /\ prev <= Max({prev, least}) /\ least <= Max({prev, least})
        /\ Max({0, least}) \in {0, least}
        /\ 0 <= Max({0, least}) /\ least <= Max({0, least})
    <3>1. prev \in Int /\ 0 \in Int
      BY <1>2
    <3> QED BY <2>5, <3>1, MaxOfTwo
  <2>7. Max({prev, least}) = Max({0, least})
    BY <1>2, <2>4, <2>5, <2>6
  <2> QED BY <2>3, <2>4, <2>7 DEF t, prev
<1> QED BY <1>4, <1>5

------------------------------------------------------------------------------
(* A commit is a Land step *)

LEMMA CommitLands ==
    ASSUME Inv, CurrentMarks, NEW j \in Jobs, SwapPointer(j)
    PROVE  CurrentMarks' /\ Lake!Land
<1> DEFINE s == state[j]
           q == pos[j]
           b == batch[j]
           x == [rows |-> b, summary |-> NewSummary(s, b)]
           old == Landed
           new == Prefix(q)
<1>1. /\ pc[j] = "append" /\ base[j] = Version
      /\ snapshots' = Append(snapshots, x)
      /\ UNCHANGED streamVars
  BY DEF SwapPointer
<1>2. /\ StreamTypeOK /\ StreamInv /\ snapshots \in Seq(Snapshots)
      /\ hw \in [Partitions -> Nat]
  BY DEF Inv, TypeOK, ConsumedIsLandedOrBatched, StreamTypeOK
<1>3. /\ s = Summary(Version) /\ s \in Summaries /\ q \in [Partitions -> Nat]
      /\ \A p \in Partitions : Resume(s)[p] <= q[p] /\ q[p] <= hw[p]
      /\ b = Consumed(s, q) /\ b \subseteq Partitions \X Nat /\ b # {}
  BY <1>1 DEF Inv, TypeOK, ConsumedIsLandedOrBatched, JobInv, Consumed
<1>4. old = Prefix(Resume(s)) /\ old \in SUBSET Delivered
  BY <1>3, CurrentVersion
<1>5. new \in SUBSET Delivered /\ b = new \ old
  <2>1. q \in [Partitions -> Int] /\ hw \in [Partitions -> Int]
        /\ \A p \in Partitions : q[p] <= hw[p]
    BY <1>2, <1>3
  <2>2. Prefix(q) \subseteq Prefix(hw)
    <3> HIDE DEF q
    <3> QED BY <2>1, PrefixMonotone
  <2> QED BY <1>3, <1>4, <2>2 DEF Consumed, Delivered
<1>6. old \in SUBSET new
  <2> DEFINE r == Resume(s)
  <2>1. r \in [Partitions -> Int] /\ q \in [Partitions -> Int]
        /\ \A p \in Partitions : r[p] <= q[p]
    BY <1>3, ResumeType
  <2>2. Prefix(r) \subseteq Prefix(q)
    <3> HIDE DEF r, q
    <3> QED BY <2>1, PrefixMonotone
  <2> QED BY <1>4, <2>2
<1>7. x.summary \in Summaries
  <2> HIDE DEF s, q
  <2> QED BY <1>2, <1>3, NewSummaryIsSummary
<1>8. x \in Snapshots
  BY <1>3, <1>7 DEF Snapshots
<1>9. /\ Summary(Version)' = x.summary
      /\ Landed' = Landed \cup b
  <2> HIDE DEF s, b
  <2> QED BY <1>1, <1>2, <1>8, AppendKeepsHistory
<1>10. Landed' = new
  BY <1>5, <1>6, <1>9
<1>11. \A p \in Partitions :
          x.summary.partMax[p] = IF p \in SeenIn(new) THEN LargestIn(new, p) ELSE None
  <2> SUFFICES ASSUME NEW p \in Partitions
               PROVE  MergedMax(s, Consumed(s, q))[p] =
                        IF p \in SeenIn(new) THEN LargestIn(new, p) ELSE None
    BY <1>3 DEF NewSummary
  <2>1. s.partMax[p] = IF p \in SeenIn(old) THEN LargestIn(old, p) ELSE None
    BY <1>3 DEF CurrentMarks
  <2>2. /\ Prefix(Resume(s)) \in SUBSET Delivered /\ Prefix(q) \in SUBSET Delivered
        /\ s.partMax[p] = IF p \in SeenIn(Prefix(Resume(s)))
                          THEN LargestIn(Prefix(Resume(s)), p) ELSE None
    BY <1>4, <1>5, <2>1
  <2> HIDE DEF s, q
  <2> QED BY <1>2, <1>3, <2>2, MergeIsExact
<1>12. x.summary.wm = SafeT(new)
  <2> DEFINE m == x.summary.partMax
  <2>1. m \in Dicts
    BY <1>7 DEF Summaries
  <2>2. s.wm = SafeT(old)
    BY <1>3 DEF CurrentMarks, CurrentT
  <2>3. x.summary.wm = ComputeWatermark(m, W, SafeT(old), Cardinality(Partitions))
    BY <2>2 DEF NewSummary
  <2>4. \A p \in Partitions : m[p] = IF p \in SeenIn(new) THEN LargestIn(new, p) ELSE None
    BY <1>11
  <2> HIDE DEF m, new, old
  <2>5. ComputeWatermark(m, W, SafeT(old), Cardinality(Partitions)) = SafeT(new)
    BY <1>2, <1>5, <1>6, <2>1, <2>4, WatermarkIsExact
  <2> QED BY <2>3, <2>5
<1> HIDE DEF x, new
<1>13. CurrentT' = SafeT(new)
  BY <1>9, <1>12 DEF CurrentT
<1>14. /\ \A p : LargestIn(Landed, p)' = LargestIn(new, p)
       /\ SeenIn(Landed)' = SeenIn(new)
       /\ SafeT(Landed)' = SafeT(new)
  <2>1. \A c : EventTime(c)' = EventTime(c)
    BY <1>1 DEF streamVars, EventTime, EventAt
  <2>2. \A p : LargestIn(Landed, p)' = LargestIn(new, p)
    BY <1>10, <2>1 DEF LargestIn
  <2>3. SeenIn(Landed)' = SeenIn(new)
    BY <1>10 DEF SeenIn
  <2> QED BY <2>2, <2>3 DEF SafeT
<1>15. CurrentMarks'
  <2>1. \A p \in Partitions : (Summary(Version)').partMax[p] =
            IF p \in SeenIn(new) THEN LargestIn(new, p) ELSE None
    BY <1>9, <1>11
  <2> QED BY <1>13, <1>14, <2>1 DEF CurrentMarks
<1>16. Lake!Land
  <2>1. PrefixClosed(new)
    <3> SUFFICES ASSUME NEW c \in Prefix(q), NEW o \in 0 .. (c[2] - 1)
                 PROVE  <<c[1], o>> \in Prefix(q)
      BY DEF PrefixClosed, new
    <3>1. c[1] \in Partitions /\ c[2] \in 0 .. (q[c[1]] - 1)
      BY PrefixPair
    <3>2. o \in 0 .. (q[c[1]] - 1)
      BY <1>3, <3>1
    <3> QED BY <3>1, <3>2, InPrefix
  <2>2. b \in SUBSET (Delivered \ Landed) /\ b # {} /\ Landed \cup b = new
        /\ Landed' = Landed \cup b
    BY <1>3, <1>5, <1>6, <1>9
  <2>3. Lake!PrefixClosed(Landed \cup b)
    BY <2>1, <2>2, LakeNames
  <2>4. CurrentT' = Lake!SafeT(Landed')
    BY <1>10, <1>13, LakeNames
  <2>5. UNCHANGED Lake!streamVars
    BY <1>1 DEF Lake!streamVars, streamVars
  <2>6. b \in SUBSET (Lake!Delivered \ Landed)
    BY <2>2, LakeNames
  <2> HIDE DEF b
  <2> QED BY <2>2, <2>3, <2>4, <2>5, <2>6 DEF Lake!Land
<1> QED BY <1>15, <1>16

\* While the table stays, so do its marks: the rows keep their event times.
LEMMA TableUnchanged ==
    ASSUME Inv, CurrentMarks, UNCHANGED snapshots,
           StreamNext \/ UNCHANGED streamVars
    PROVE  CurrentMarks' /\ Landed' = Landed /\ CurrentT' = CurrentT
<1>1. Version' = Version /\ \A n : Summary(n)' = Summary(n) /\ TableRows(n)' = TableRows(n)
  BY DEF Version, Summary, TableRows
<1>2. Landed' = Landed /\ CurrentT' = CurrentT /\ Summary(Version)' = Summary(Version)
  BY <1>1 DEF Landed, CurrentT, Summary, TableRows
<1>3. /\ \A p : {EventTime(c)' : c \in {d \in Landed : d[1] = p}}
                   = {EventTime(c) : c \in {d \in Landed : d[1] = p}}
  <2>1. CASE StreamNext
    <3>1. Landed \in SUBSET Delivered
      BY CurrentVersion
    <3>2. ASSUME NEW c \in Landed PROVE EventTime(c)' = EventTime(c)
      <4>1. /\ c[1] \in Partitions /\ c[2] \in 0 .. (hw[c[1]] - 1)
            /\ c = <<c[1], c[2]>>
        BY <3>1, DeliveredEvent DEF Inv, TypeOK, ConsumedIsLandedOrBatched
      <4>2. EventTime(<<c[1], c[2]>>)' = EventTime(<<c[1], c[2]>>)
        BY <2>1, <4>1, EventTimeKept DEF Inv, TypeOK
      <4> QED BY <4>1, <4>2
    <3> QED BY <3>2
  <2>2. CASE UNCHANGED streamVars
    <3>1. \A c : EventTime(c)' = EventTime(c)
      BY <2>2 DEF streamVars, EventTime, EventAt
    <3> QED BY <3>1
  <2> QED BY <2>1, <2>2
<1>4. \A p : LargestIn(Landed, p)' = LargestIn(Landed, p)
  BY <1>2, <1>3 DEF LargestIn
<1>5. SeenIn(Landed)' = SeenIn(Landed) /\ SafeT(Landed)' = SafeT(Landed)
  BY <1>2, <1>4 DEF SeenIn, SafeT
<1>6. CurrentMarks'
  <2>1. \A p \in Partitions : (Summary(Version)').partMax[p] =
            IF p \in SeenIn(Landed) THEN LargestIn(Landed, p) ELSE None
    BY <1>2 DEF CurrentMarks
  <2>2. CurrentT' = SafeT(Landed)
    BY <1>2 DEF CurrentMarks
  <2> QED BY <1>4, <1>5, <2>1, <2>2 DEF CurrentMarks
<1> QED BY <1>2, <1>6

LEMMA InitMaps == Init => CurrentMarks /\ Lake!StreamInit /\ Lake!LakeInit
<1> SUFFICES ASSUME Init PROVE CurrentMarks /\ Lake!StreamInit /\ Lake!LakeInit
  OBVIOUS
<1>1. Version = 0 /\ Summary(Version) = EmptySummary
  BY EmptySeq DEF Init, Version, Summary
<1>2. Landed = {}
  BY <1>1 DEF Landed, TableRows
<1>3. CurrentT = 0 /\ \A p \in Partitions : Summary(Version).partMax[p] = None
  BY <1>1 DEF CurrentT, EmptySummary, EmptyDict
<1>4. SeenIn(Landed) = {} /\ SafeT(Landed) = 0
  BY <1>2, PartitionsAssumption DEF SeenIn, SafeT
<1>5. CurrentMarks
  BY <1>3, <1>4 DEF CurrentMarks
<1>6. Lake!StreamInit
  BY LakeNames DEF Init
<1> QED BY <1>2, <1>3, <1>5, <1>6 DEF Lake!LakeInit

LEMMA NextMaps ==
    Inv /\ CurrentMarks /\ [Next]_vars =>
        /\ CurrentMarks'
        /\ [Lake!LakeNext]_<<Lake!streamVars, Landed, CurrentT>>
<1> SUFFICES ASSUME Inv, CurrentMarks, [Next]_vars
             PROVE  /\ CurrentMarks'
                    /\ \/ Lake!LakeNext
                       \/ UNCHANGED <<Lake!streamVars, Landed, CurrentT>>
  OBVIOUS
<1>1. CASE StreamNext /\ UNCHANGED <<snapshots, jobVars, crashes>>
  <2>1. CurrentMarks' /\ UNCHANGED <<Landed, CurrentT>>
    BY <1>1, TableUnchanged
  <2>2. Lake!StreamNext
    BY <1>1, LakeStreamNext
  <2> QED BY <2>1, <2>2 DEF Lake!LakeNext
<1>2. ASSUME NEW j \in Jobs, SwapPointer(j)
      PROVE  CurrentMarks' /\ Lake!LakeNext
  BY <1>2, CommitLands DEF Lake!LakeNext
<1>3. ASSUME UNCHANGED <<streamVars, snapshots>>
      PROVE  CurrentMarks' /\ UNCHANGED <<Lake!streamVars, Landed, CurrentT>>
  <2>1. UNCHANGED streamVars /\ UNCHANGED snapshots
    BY <1>3
  <2>2. CurrentMarks' /\ Landed' = Landed /\ CurrentT' = CurrentT
    BY <2>1, TableUnchanged
  <2>3. UNCHANGED Lake!streamVars
    BY <2>1 DEF Lake!streamVars, streamVars
  <2> QED BY <2>2, <2>3
<1>4. ASSUME NEW j \in Jobs, JobStep(j) \/ IdleExit(j) \/ Crash(j)
      PROVE  SwapPointer(j) \/ UNCHANGED <<streamVars, snapshots>>
  BY <1>4 DEF JobStep, LoadTable, ReadResumeState, Poll, FlushOnTimeout,
              CommitConflict, Advance, IdleExit, Crash
<1>5. CASE UNCHANGED vars
  BY <1>3, <1>5 DEF vars
<1> QED BY <1>1, <1>2, <1>3, <1>4, <1>5 DEF Next

\* The refinement: whatever the jobs do, a reader of the table sees rows landing
\* in the partitions' order, each once, and with them the T of the whole table.
THEOREM Implements == Spec => ImplementsLake
<1>1. Init => CurrentMarks /\ Lake!StreamInit /\ Lake!LakeInit
  BY InitMaps
<1>2. Inv /\ CurrentMarks /\ [Next]_vars =>
          CurrentMarks' /\ [Lake!LakeNext]_<<Lake!streamVars, Landed, CurrentT>>
  BY NextMaps
<1> QED BY <1>1, <1>2, InitInv, NextKeepsInv, PTL
        DEF Spec, ImplementsLake, Lake!LakeSpec

------------------------------------------------------------------------------
(* The table's history *)

\* A dictionary's values are integers, the -1 of a missing key among them.
LEMMA DictsAreInt == Dicts \subseteq [Partitions -> Int]
BY DEF Dicts, None

\* What every commit does to the summary it is built on.
LEMMA CommitMovesOn ==
    ASSUME Inv, NEW j \in Jobs, SwapPointer(j)
    PROVE  LET old == Summary(Version)
               new == NewSummary(state[j], batch[j])
           IN  /\ Version \in Nat /\ Version' = Version + 1
               /\ \A n \in 0 .. Version : Summary(n)' = Summary(n)
               /\ \A n \in 0 .. Version : TableRows(n)' = TableRows(n)
               /\ Summary(Version)' = new /\ Landed \subseteq Landed'
               /\ new \in Summaries /\ old \in Summaries
               /\ new.seq = old.seq + 1 /\ old.wm <= new.wm
               /\ Resume(new) = pos[j]
               /\ \A p \in Partitions : Resume(old)[p] <= Resume(new)[p]
               /\ \A p \in Partitions : old.partMax[p] <= new.partMax[p]
               /\ Resume(new) # Resume(old)
<1> DEFINE s == state[j]
           q == pos[j]
           b == batch[j]
           new == NewSummary(s, b)
           x == [rows |-> b, summary |-> new]
<1>1. /\ pc[j] = "append" /\ base[j] = Version
      /\ snapshots' = Append(snapshots, x)
  BY DEF SwapPointer
<1>2. /\ StreamTypeOK /\ StreamInv /\ snapshots \in Seq(Snapshots) /\ Version \in Nat
  BY SummaryType DEF Inv, TypeOK, ConsumedIsLandedOrBatched
<1>3. /\ s = Summary(Version) /\ s \in Summaries /\ q \in [Partitions -> Nat]
      /\ \A p \in Partitions : Resume(s)[p] <= q[p] /\ q[p] <= hw[p]
      /\ b = Consumed(s, q) /\ b \subseteq Partitions \X Nat /\ b # {}
  BY <1>1 DEF Inv, TypeOK, ConsumedIsLandedOrBatched, JobInv, Consumed
<1>4. new \in Summaries /\ Resume(new) = q
  <2> HIDE DEF s, q
  <2> QED BY <1>2, <1>3, NewSummaryIsSummary
<1>5. x \in Snapshots
  BY <1>3, <1>4 DEF Snapshots
<1>6. /\ Version' = Version + 1
      /\ \A n \in 0 .. Version : Summary(n)' = Summary(n)
      /\ \A n \in 0 .. Version : TableRows(n)' = TableRows(n)
      /\ Summary(Version)' = new /\ Landed \subseteq Landed'
  <2>1. x.summary = new
    OBVIOUS
  <2> HIDE DEF x, new
  <2> QED BY <1>1, <1>2, <1>5, <2>1, AppendKeepsHistory
<1>7. new.seq = s.seq + 1 /\ s.wm <= new.wm
  <2>1. s.wm \in Nat
    BY <1>3 DEF Summaries
  <2> DEFINE m == MergedMax(s, b)
  <2>2. m \in Dicts
    BY <1>4 DEF NewSummary, Summaries
  <2>3. new.wm = ComputeWatermark(m, W, s.wm, Cardinality(Partitions))
        /\ new.seq = s.seq + 1
    BY DEF NewSummary
  <2> HIDE DEF m, s, new
  <2> QED BY <2>1, <2>2, <2>3, WatermarkBound
<1>8. \A p \in Partitions : s.partMax[p] <= new.partMax[p]
  <2>1. new.partMax = MergedMax(s, b)
    BY DEF NewSummary
  <2> HIDE DEF s, q, b, new
  <2> QED BY <1>2, <1>3, <2>1, MergedMaxIsMax
<1>9. q # Resume(s)
  <2> SUFFICES ASSUME q = Resume(s) PROVE FALSE
    OBVIOUS
  <2>1. b = {}
    BY <1>3 DEF Consumed
  <2> QED BY <1>3, <2>1
<1> HIDE DEF new
<1> QED BY <1>2, <1>3, <1>4, <1>6, <1>7, <1>8, <1>9 DEF new

LEMMA HistoryKept == Inv /\ HistoryIsMonotone /\ [Next]_vars => HistoryIsMonotone'
<1> SUFFICES ASSUME Inv, HistoryIsMonotone, [Next]_vars PROVE HistoryIsMonotone'
  OBVIOUS
<1>1. ASSUME UNCHANGED snapshots PROVE HistoryIsMonotone'
  <2>1. Version' = Version /\ \A n : Summary(n)' = Summary(n)
    BY <1>1 DEF Version, Summary
  <2> QED BY <2>1 DEF HistoryIsMonotone, Resume
<1>2. ASSUME NEW j \in Jobs, SwapPointer(j) PROVE HistoryIsMonotone'
  <2> DEFINE v == Version
             old == Summary(Version)
             new == NewSummary(state[j], batch[j])
  <2>1. /\ v \in Nat /\ Version' = v + 1
        /\ \A n \in 0 .. v : Summary(n)' = Summary(n)
        /\ Summary(Version)' = new
        /\ new \in Summaries /\ old \in Summaries
        /\ new.seq = old.seq + 1 /\ old.wm <= new.wm
        /\ \A p \in Partitions : Resume(old)[p] <= Resume(new)[p]
        /\ \A p \in Partitions : old.partMax[p] <= new.partMax[p]
        /\ Resume(new) # Resume(old)
    BY <1>2, CommitMovesOn
  <2>2. \A n : n = v + 1 => Summary(n)' = new
    BY <2>1 DEF Summary
  <2>3. \A n \in 0 .. v : Summary(n) \in Summaries
    BY SummaryType DEF Inv, TypeOK
  <2>4. Summary(v) = old /\ v \in 0 .. v
    BY <2>1
  <2> HIDE DEF new, old, v
  <2>5. ASSUME NEW m \in 0 .. v
        PROVE  /\ Summary(m).wm <= new.wm
               /\ \A p \in Partitions : Resume(Summary(m))[p] <= Resume(new)[p]
               /\ \A p \in Partitions : Summary(m).partMax[p] <= new.partMax[p]
               /\ Summary(m).offsets # new.offsets
    <3> DEFINE s == Summary(m)
    <3>1. /\ s.wm <= old.wm
          /\ \A p \in Partitions : Resume(s)[p] <= Resume(old)[p]
          /\ \A p \in Partitions : s.partMax[p] <= old.partMax[p]
      <4>1. CASE m = v
        <5>1. /\ old.wm \in Nat /\ Resume(old) \in [Partitions -> Nat]
              /\ old.partMax \in [Partitions -> Int]
          BY <2>1, ResumeType, DictsAreInt DEF Summaries
        <5>2. s = old
          BY <2>4, <4>1
        <5> QED BY <5>1, <5>2
      <4>2. CASE m # v
        BY <2>1, <2>4, <4>2 DEF HistoryIsMonotone, v
      <4> QED BY <4>1, <4>2
    <3>2. /\ s.wm \in Nat /\ old.wm \in Nat /\ new.wm \in Nat
          /\ Resume(s) \in [Partitions -> Nat] /\ Resume(old) \in [Partitions -> Nat]
          /\ Resume(new) \in [Partitions -> Nat]
      BY <2>1, <2>3, ResumeType DEF Summaries
    <3>3. s.wm <= new.wm /\ \A p \in Partitions : Resume(s)[p] <= Resume(new)[p]
      <4> HIDE DEF s
      <4>1. s.wm <= new.wm
        BY <2>1, <3>1, <3>2
      <4>2. ASSUME NEW p \in Partitions PROVE Resume(s)[p] <= Resume(new)[p]
        <5>1. Resume(s)[p] \in Nat /\ Resume(old)[p] \in Nat /\ Resume(new)[p] \in Nat
          BY <3>2
        <5>2. Resume(s)[p] <= Resume(old)[p] /\ Resume(old)[p] <= Resume(new)[p]
          BY <2>1, <3>1
        <5> QED BY <5>1, <5>2
      <4> QED BY <4>1, <4>2
    <3>4. PICK p \in Partitions : Resume(old)[p] # Resume(new)[p]
      BY <2>1, <3>2
    <3>5. Resume(s)[p] # Resume(new)[p]
      <4>1. Resume(s)[p] \in Nat /\ Resume(old)[p] \in Nat /\ Resume(new)[p] \in Nat
        BY <3>2
      <4>2. Resume(s)[p] <= Resume(old)[p] /\ Resume(old)[p] <= Resume(new)[p]
        BY <2>1, <3>1
      <4> HIDE DEF s
      <4> QED BY <3>4, <4>1, <4>2
    <3>6. s.offsets # new.offsets
      BY <3>5 DEF Resume
    <3>7. ASSUME NEW r \in Partitions PROVE s.partMax[r] <= new.partMax[r]
      <4>1. s.partMax[r] \in Int /\ old.partMax[r] \in Int /\ new.partMax[r] \in Int
        BY <2>1, <2>3, DictsAreInt DEF Summaries
      <4>2. s.partMax[r] <= old.partMax[r] /\ old.partMax[r] <= new.partMax[r]
        BY <2>1, <3>1
      <4> HIDE DEF s
      <4> QED BY <4>1, <4>2
    <3> QED BY <3>3, <3>6, <3>7
  <2>6. ASSUME NEW n \in 0 .. Version' PROVE Summary(n)'.seq = n
    <3>1. CASE n \in 0 .. v
      BY <2>1, <3>1 DEF HistoryIsMonotone, v
    <3>2. CASE n = v + 1
      <4>1. old.seq = v
        BY <2>1, <2>4 DEF HistoryIsMonotone, v
      <4> QED BY <2>1, <2>2, <3>2, <4>1
    <3> QED BY <2>1, <3>1, <3>2
  <2>7. ASSUME NEW m \in 0 .. Version', NEW n \in 0 .. Version', m < n
        PROVE  /\ Summary(m)'.wm <= Summary(n)'.wm
               /\ \A p \in Partitions : Resume(Summary(m)')[p] <= Resume(Summary(n)')[p]
               /\ \A p \in Partitions : Summary(m)'.partMax[p] <= Summary(n)'.partMax[p]
               /\ Summary(m)'.offsets # Summary(n)'.offsets
    <3>1. m \in 0 .. v /\ Summary(m)' = Summary(m)
      BY <2>1, <2>7
    <3>2. CASE n \in 0 .. v
      <4>1. Summary(n)' = Summary(n)
        BY <2>1, <3>2
      <4> QED BY <2>7, <3>1, <3>2, <4>1 DEF HistoryIsMonotone, v
    <3>3. CASE n = v + 1
      BY <2>2, <2>5, <3>1, <3>3
    <3> QED BY <2>1, <3>2, <3>3
  <2> QED BY <2>6, <2>7 DEF HistoryIsMonotone, Resume
<1>3. ASSUME NEW j \in Jobs, JobStep(j) \/ IdleExit(j) \/ Crash(j)
      PROVE  SwapPointer(j) \/ UNCHANGED snapshots
  BY <1>3 DEF JobStep, LoadTable, ReadResumeState, Poll, FlushOnTimeout,
              CommitConflict, Advance, IdleExit, Crash
<1> QED BY <1>1, <1>2, <1>3 DEF Next, vars

\* Offsets, maxima and T never go back and commit_seq has no gap, although the
\* writers change: each summary is built on the one current when it is committed.
THEOREM HistoryCorrect == Spec => []HistoryIsMonotone
<1>1. Init => HistoryIsMonotone
  <2> SUFFICES ASSUME Init PROVE HistoryIsMonotone
    OBVIOUS
  <2>1. Version = 0 /\ Summary(0).seq = 0
    BY EmptySeq DEF Init, Version, Summary, EmptySummary
  <2> QED BY <2>1 DEF HistoryIsMonotone
<1> QED BY <1>1, HistoryKept, InitInv, NextKeepsInv, PTL DEF Spec

------------------------------------------------------------------------------
(* A clean exit *)

\* A job polls from the offsets of a version there is, so what lies below them
\* has landed, whether or not its handle is still current.
ExitInv ==
    \A j \in Jobs :
        /\ pc[j] \in {"poll", "append"} => Prefix(Resume(state[j])) \subseteq Landed
        /\ pc[j] = "closed" => Prefix(pos[j]) \subseteq Landed

LEMMA VersionLanded ==
    ASSUME Inv, NEW n \in 0 .. Version
    PROVE  Prefix(Resume(Summary(n))) \subseteq Landed
<1>1. TableRows(n) = Prefix(Resume(Summary(n)))
  BY DEF Inv, ConsumedIsLandedOrBatched, TableInv, RowsMatchOffsets
<1>2. Version \in Nat
  BY SummaryType DEF Inv, TypeOK
<1>3. 1 .. n \subseteq 1 .. Version
  BY <1>2
<1>4. TableRows(n) \subseteq Landed
  BY <1>3 DEF TableRows, Landed
<1> QED BY <1>1, <1>4

\* Job k's part is kept if the table only grew and its own variables stayed.
LEMMA ExitKept ==
    ASSUME ExitInv, NEW k \in Jobs, Landed \subseteq Landed',
           pc'[k] = pc[k] \/ pc'[k] \in {"down", "loaded", "swapped"},
           (state'[k] = state[k] /\ pos'[k] = pos[k])
               \/ pc'[k] \in {"down", "loaded", "swapped"}
    PROVE  /\ pc'[k] \in {"poll", "append"} => Prefix(Resume(state'[k])) \subseteq Landed'
           /\ pc'[k] = "closed" => Prefix(pos'[k]) \subseteq Landed'
BY DEF ExitInv

LEMMA NextKeepsExit == Inv /\ ExitInv /\ [Next]_vars => ExitInv'
<1> SUFFICES ASSUME Inv, ExitInv, [Next]_vars PROVE ExitInv'
  OBVIOUS
<1> DEFINE Part(k) ==
        /\ pc'[k] \in {"poll", "append"} => Prefix(Resume(state'[k])) \subseteq Landed'
        /\ pc'[k] = "closed" => Prefix(pos'[k]) \subseteq Landed'
<1>0. /\ pc \in [Jobs -> {"down", "loaded", "poll", "append", "swapped", "closed"}]
      /\ DOMAIN state = Jobs /\ DOMAIN pos = Jobs
  BY DEF Inv, TypeOK
<1>1. ASSUME UNCHANGED snapshots PROVE Landed' = Landed /\ Version' = Version
  BY <1>1 DEF Landed, TableRows, Version
<1>2. ASSUME NEW k \in Jobs, Landed \subseteq Landed',
             pc'[k] = pc[k] \/ pc'[k] \in {"down", "loaded", "swapped"},
             (state'[k] = state[k] /\ pos'[k] = pos[k])
                 \/ pc'[k] \in {"down", "loaded", "swapped"}
      PROVE  Part(k)
  BY <1>2, ExitKept
<1>3. ASSUME UNCHANGED <<snapshots, jobVars>> PROVE \A k \in Jobs : Part(k)
  BY <1>1, <1>2, <1>3 DEF jobVars
<1>4. ASSUME NEW j \in Jobs, NEW k \in Jobs, LoadTable(j) \/ Forget(j),
             UNCHANGED snapshots
      PROVE  Part(k)
  <2>1. pc'[k] = pc[k] \/ pc'[k] \in {"down", "loaded"}
    BY <1>0, <1>4 DEF LoadTable, Forget
  <2>2. (state'[k] = state[k] /\ pos'[k] = pos[k]) \/ pc'[k] \in {"down", "loaded"}
    BY <1>0, <1>4 DEF LoadTable, Forget
  <2> QED BY <1>1, <1>2, <1>4, <2>1, <2>2
<1>5. ASSUME NEW j \in Jobs, NEW k \in Jobs, ReadResumeState(j) PROVE Part(k)
  <2>1. CASE k # j
    BY <1>0, <1>1, <1>2, <1>5, <2>1 DEF ReadResumeState
  <2>2. CASE k = j
    <3>1. pc'[k] = "poll" /\ state'[k] = Summary(Version)
      BY <1>0, <1>5, <2>2 DEF ReadResumeState
    <3>2. Version \in 0 .. Version
      BY SummaryType DEF Inv, TypeOK
    <3>3. Prefix(Resume(Summary(Version))) \subseteq Landed
      BY <3>2, VersionLanded
    <3>4. Landed' = Landed
      BY <1>1, <1>5 DEF ReadResumeState
    <3> QED BY <3>1, <3>3, <3>4
  <2> QED BY <2>1, <2>2
<1>6. ASSUME NEW j \in Jobs, NEW k \in Jobs,
             (\E p \in Partitions : Poll(j, p)) \/ FlushOnTimeout(j) \/ IdleExit(j)
      PROVE  Part(k)
  <2>1. /\ UNCHANGED <<snapshots, state>> /\ pc[j] = "poll"
        /\ k # j => pc'[k] = pc[k] /\ pos'[k] = pos[k]
        /\ \/ pc'[j] \in {"poll", "append"}
           \/ pc'[j] = "closed" /\ batch[j] = {} /\ pos'[j] = pos[j]
    BY <1>0, <1>6 DEF Poll, FlushOnTimeout, IdleExit
  <2>2. Landed' = Landed
    BY <1>1, <2>1
  <2>3. CASE k # j
    BY <1>2, <2>1, <2>2, <2>3
  <2>4. CASE k = j /\ pc'[j] \in {"poll", "append"}
    BY <2>1, <2>2, <2>4 DEF ExitInv
  <2>5. CASE k = j /\ pc'[j] = "closed" /\ batch[j] = {} /\ pos'[j] = pos[j]
    <3>1. Prefix(pos[j]) \ Prefix(Resume(state[j])) = {}
      BY <2>1, <2>5 DEF Inv, ConsumedIsLandedOrBatched, JobInv
    <3>2. Prefix(Resume(state[j])) \subseteq Landed
      BY <2>1 DEF ExitInv
    <3> QED BY <2>2, <2>5, <3>1, <3>2
  <2> QED BY <2>1, <2>3, <2>4, <2>5
<1>7. ASSUME NEW j \in Jobs, NEW k \in Jobs, SwapPointer(j) PROVE Part(k)
  <2>1. Landed \subseteq Landed'
    BY <1>7, CommitMovesOn
  <2>2. /\ pc'[k] = pc[k] \/ pc'[k] = "swapped"
        /\ state'[k] = state[k] /\ pos'[k] = pos[k]
    BY <1>0, <1>7 DEF SwapPointer
  <2> QED BY <1>2, <2>1, <2>2
<1>8. ASSUME NEW j \in Jobs, NEW k \in Jobs, Advance(j) PROVE Part(k)
  <2>1. Landed' = Landed
    BY <1>1, <1>8 DEF Advance
  <2>2. CASE k # j
    BY <1>0, <1>2, <1>8, <2>1, <2>2 DEF Advance
  <2>3. CASE k = j
    <3>1. pc[j] = "swapped" /\ state'[k] = Summary(base[j]) /\ pos'[k] = pos[j]
      BY <1>0, <1>8, <2>3 DEF Advance
    <3>2. base[j] \in 0 .. Version /\ pos[j] = Resume(Summary(base[j]))
      <4>1. base[j] \in Nat /\ base[j] <= Version /\ pos[j] = Resume(Summary(base[j]))
        BY <3>1 DEF Inv, TypeOK, ConsumedIsLandedOrBatched, JobInv
      <4>2. Version \in Nat
        BY SummaryType DEF Inv, TypeOK
      <4> QED BY <4>1, <4>2
    <3>3. Prefix(Resume(Summary(base[j]))) \subseteq Landed
      BY <3>2, VersionLanded
    <3> QED BY <2>1, <3>1, <3>2, <3>3
  <2> QED BY <2>2, <2>3
<1> HIDE DEF Part
<1>9. ASSUME NEW j \in Jobs, JobStep(j) \/ IdleExit(j) \/ Crash(j), NEW k \in Jobs
      PROVE  Part(k)
  <2>1. CASE LoadTable(j) \/ CommitConflict(j) \/ Crash(j)
    <3>1. (LoadTable(j) \/ Forget(j)) /\ UNCHANGED snapshots
      BY <2>1 DEF LoadTable, CommitConflict, Crash
    <3> QED BY <1>4, <3>1
  <2> QED BY <1>5, <1>6, <1>7, <1>8, <1>9, <2>1 DEF JobStep
<1>10. ASSUME (StreamNext /\ UNCHANGED <<snapshots, jobVars, crashes>>)
                  \/ UNCHANGED vars
       PROVE  \A k \in Jobs : Part(k)
  BY <1>3, <1>10 DEF vars
<1>11. \A k \in Jobs : Part(k)
  BY <1>9, <1>10 DEF Next
<1> QED BY <1>11 DEF Part, ExitInv

\* A job that returns from run() has landed all that it consumed, even one whose
\* handle became stale while it waited for more.
THEOREM CleanExitCorrect == Spec => []CleanExitLandsEverything
<1>1. Init => ExitInv
  BY DEF Init, ExitInv
<1>2. ExitInv => CleanExitLandsEverything
  BY DEF ExitInv, CleanExitLandsEverything
<1> QED BY <1>1, <1>2, NextKeepsExit, InitInv, NextKeepsInv, PTL DEF Spec

------------------------------------------------------------------------------
(* What the rows say of the orders, and of the ground-truth file *)

LEMMA NextIsStreamStep ==
    [Next]_vars => StreamNext \/ UNCHANGED streamVars
<1>1. ASSUME NEW j \in Jobs, JobStep(j) \/ IdleExit(j) \/ Crash(j)
      PROVE  UNCHANGED streamVars
  BY <1>1 DEF JobStep, LoadTable, ReadResumeState, Poll, FlushOnTimeout, SwapPointer,
              CommitConflict, Advance, IdleExit, Crash
<1> QED BY <1>1 DEF Next, vars

\* Every version of the table is a prefix of each partition, so it never holds a
\* cancellation without the creation that went before it: gmv is never negative.
THEOREM CancellationsPaired == Spec => []NoCancellationWithoutCreation
<1>1. Init => PairInv
  <2> SUFFICES ASSUME Init PROVE PairInv
    OBVIOUS
  <2>1. createdPool = {} /\ \A p \in Partitions : Len(log[p]) = 0
    BY EmptySeq DEF Init, StreamInit
  <2> QED BY <2>1 DEF PairInv
<1>2. Inv /\ PairInv /\ [Next]_vars => PairInv'
  BY NextIsStreamStep, StreamKeepsPairs DEF Inv, TypeOK
<1>3. Inv /\ PairInv => NoCancellationWithoutCreation
  <2> SUFFICES ASSUME Inv, PairInv, NEW n \in 1 .. Version, NEW c \in TableRows(n),
                      EventAt(c).type = "order_cancelled"
               PROVE  \E d \in TableRows(n) : /\ EventAt(d).order = EventAt(c).order
                                              /\ EventAt(d).type = "order_created"
    BY DEF NoCancellationWithoutCreation
  <2> DEFINE p == c[1]
             cut == Resume(Summary(n))
             b == c[2] + 1
  <2>1. n \in 0 .. Version /\ Summary(n) \in Summaries
    BY SummaryType DEF Inv, TypeOK
  <2>2. cut \in [Partitions -> Nat] /\ TableRows(n) = Prefix(cut)
        /\ \A r \in Partitions : cut[r] <= hw[r]
    BY <2>1, ResumeType DEF Inv, ConsumedIsLandedOrBatched, TableInv, RowsMatchOffsets
  <2>3. p \in Partitions /\ c[2] \in 0 .. (cut[p] - 1) /\ c = <<p, c[2]>>
    BY <2>2, PrefixPair
  <2>4. /\ cut[p] \in Nat /\ cut[p] <= hw[p] /\ hw[p] \in Nat
        /\ hw[p] <= Len(log[p]) /\ Len(log[p]) \in Nat
    BY <2>2, <2>3, LenProperties DEF Inv, TypeOK, StreamTypeOK
  <2>5. b \in 1 .. Len(log[p]) /\ EventAt(c) = log[p][b]
    BY <2>3, <2>4 DEF EventAt
  <2>6. CreatedIn(log[p][b].order, p, b - 1)
    <3> HIDE DEF b, p
    <3> QED BY <2>3, <2>5 DEF PairInv
  <2>7. PICK a \in 1 .. (b - 1) :
            log[p][a].order = log[p][b].order /\ log[p][a].type = "order_created"
    BY <2>6 DEF CreatedIn
  <2> DEFINE d == <<p, a - 1>>
  <2>8. a - 1 \in 0 .. (cut[p] - 1) /\ (a - 1) + 1 = a
    BY <2>3, <2>4
  <2>9. d \in TableRows(n)
    <3> HIDE DEF p, cut
    <3> QED BY <2>2, <2>3, <2>8, InPrefix
  <2>10. EventAt(d) = log[p][a]
    BY <2>8 DEF EventAt
  <2> QED BY <2>5, <2>7, <2>9, <2>10
<1> QED BY <1>1, <1>2, <1>3, InitInv, NextKeepsInv, PTL DEF Spec

\* No order is added or subtracted by two rows: the generator takes an order out
\* of the pool when it cancels it, and every event lands once.  A second run of
\* the generator could repeat the ids of the first, hence MaxRuns = 1.
THEOREM OrdersCorrect == ASSUME MaxRuns = 1 PROVE Spec => []OrdersCountOnce
<1>1. Init => OnceInv
  <2> SUFFICES ASSUME Init PROVE OnceInv
    OBVIOUS
  <2>1. createdPool = {} /\ \A p \in Partitions : Len(log[p]) = 0
    BY EmptySeq DEF Init, StreamInit
  <2> QED BY <2>1 DEF OnceInv
<1>2. Inv /\ OnceInv /\ [Next]_vars => OnceInv'
  BY NextIsStreamStep, StreamKeepsOnce DEF Inv, TypeOK
<1>3. Inv /\ OnceInv /\ NoDuplicateRows => OrdersCountOnce
  <2> SUFFICES ASSUME Inv, OnceInv, NoDuplicateRows,
                      NEW m \in 1 .. Version, NEW n \in 1 .. Version,
                      NEW c \in snapshots[m].rows, NEW d \in snapshots[n].rows,
                      EventAt(c).order = EventAt(d).order,
                      EventAt(c).type = EventAt(d).type
               PROVE  m = n /\ c = d
    BY DEF OrdersCountOnce
  <2>1. c \in Coordinates /\ d \in Coordinates
    <3>1. c \in Landed /\ d \in Landed
      BY DEF Landed, TableRows
    <3> QED BY <3>1, CurrentVersion, DeliveredEvent
            DEF Inv, TypeOK, ConsumedIsLandedOrBatched
  <2>2. ASSUME NEW x \in Coordinates
        PROVE  /\ x[1] \in Partitions /\ x = <<x[1], x[2]>> /\ x[2] \in Int
               /\ x[2] + 1 \in 1 .. Len(log[x[1]])
               /\ EventAt(x) = log[x[1]][x[2] + 1]
    <3>1. x[1] \in Partitions /\ x = <<x[1], x[2]>> /\ x[2] \in 0 .. (Len(log[x[1]]) - 1)
      BY CoordinatesOf
    <3>2. Len(log[x[1]]) \in Nat
      BY <3>1, LenProperties DEF Inv, TypeOK, StreamTypeOK
    <3> QED BY <3>1, <3>2 DEF EventAt
  <2>3. c[1] = d[1] /\ c[2] + 1 = d[2] + 1
    <3>1. /\ c[1] \in Partitions /\ c[2] + 1 \in 1 .. Len(log[c[1]])
          /\ EventAt(c) = log[c[1]][c[2] + 1]
      BY <2>1, <2>2
    <3>2. /\ d[1] \in Partitions /\ d[2] + 1 \in 1 .. Len(log[d[1]])
          /\ EventAt(d) = log[d[1]][d[2] + 1]
      BY <2>1, <2>2
    <3>3. /\ log[c[1]][c[2] + 1].order = log[d[1]][d[2] + 1].order
          /\ log[c[1]][c[2] + 1].type = log[d[1]][d[2] + 1].type
      BY <3>1, <3>2
    <3> DEFINE Twice(p, q, i, j) == log[p][i].order = log[q][j].order
                                    /\ log[p][i].type = log[q][j].type
    <3>4. \A p, q \in Partitions : \A i \in 1 .. Len(log[p]), j \in 1 .. Len(log[q]) :
            Twice(p, q, i, j) => p = q /\ i = j
      BY DEF OnceInv
    <3>5. Twice(c[1], d[1], c[2] + 1, d[2] + 1)
      BY <3>3
    <3> HIDE DEF Twice
    <3>6. \A i \in 1 .. Len(log[c[1]]), j \in 1 .. Len(log[d[1]]) :
            Twice(c[1], d[1], i, j) => c[1] = d[1] /\ i = j
      BY <3>1, <3>2, <3>4
    <3> QED BY <3>1, <3>2, <3>5, <3>6
  <2>4. c = d
    BY <2>1, <2>2, <2>3
  <2>5. m = n
    <3>1. Version \in Nat
      BY SummaryType DEF Inv, TypeOK
    <3>2. ~ (m < n) /\ ~ (n < m)
      BY <2>4 DEF NoDuplicateRows
    <3> QED BY <3>1, <3>2
  <2> QED BY <2>4, <2>5
<1>4. Spec => []NoDuplicateRows
  BY ExactlyOnce
<1> QED BY <1>1, <1>2, <1>3, <1>4, InitInv, NextKeepsInv, PTL DEF Spec

\* The one run of the generator: nothing is produced before the file is written,
\* and the file holds everything built.
FileInv ==
    /\ runs >= 1
    /\ phase = "building" => \A p \in Partitions : hw[p] = 0
    /\ phase = "producing" => groundTruth = Coordinates

LEMMA NextKeepsFile ==
    ASSUME MaxRuns = 1 PROVE Inv /\ FileInv /\ [Next]_vars => FileInv'
<1> SUFFICES ASSUME Inv, FileInv, StreamNext \/ UNCHANGED streamVars PROVE FileInv'
  BY NextIsStreamStep
<1> USE DEF FileInv
<1>1. CASE UNCHANGED streamVars
  BY <1>1 DEF streamVars, Coordinates, Prefix
<1>2. ASSUME NEW order, NEW type, NEW p, NEW jitter, Emit(order, type, p, jitter)
      PROVE  FileInv'
  BY <1>2 DEF Emit
<1>3. CASE WriteGroundTruth
  <2>1. Delivered = {}
    <3> SUFFICES ASSUME NEW c \in Prefix(hw) PROVE FALSE
      BY DEF Delivered
    <3>1. c[1] \in Partitions /\ c[2] \in 0 .. (hw[c[1]] - 1)
      BY PrefixPair
    <3> QED BY <1>3, <3>1 DEF WriteGroundTruth
  <2>2. Coordinates' = Coordinates
    BY <1>3 DEF WriteGroundTruth, Coordinates, Prefix
  <2> QED BY <1>3, <2>1, <2>2 DEF WriteGroundTruth
<1>4. ASSUME NEW p \in Partitions, Deliver(p) PROVE FileInv'
  <2>1. Coordinates' = Coordinates
    BY <1>4 DEF Deliver, Coordinates, Prefix
  <2> QED BY <1>4, <2>1 DEF Deliver
<1>5. CASE NewRun
  <2>1. runs \in Nat
    BY DEF Inv, TypeOK, StreamTypeOK
  <2> QED BY <1>5, <2>1 DEF NewRun
<1> QED BY <1>1, <1>2, <1>3, <1>4, <1>5 DEF StreamNext, CreateOrder, CancelOrder

\* test_watermark_safety's comparison holds whenever it is made: below T the
\* table and the file have the same events.
THEOREM GroundTruthCorrect == ASSUME MaxRuns = 1 PROVE Spec => []LakeMatchesGroundTruth
<1>1. Init => FileInv
  BY DEF Init, StreamInit, FileInv
<1>2. Inv /\ FileInv /\ WatermarkSafe => LakeMatchesGroundTruth
  <2> SUFFICES ASSUME Inv, FileInv, WatermarkSafe, phase = "producing"
               PROVE  {c \in Landed : EventTime(c) < CurrentT}
                          = GroundTruthBelow(CurrentT)
    BY DEF LakeMatchesGroundTruth
  <2>1. groundTruth = Coordinates
    BY DEF FileInv
  <2>2. Landed \subseteq Coordinates
    BY CurrentVersion, DeliveredEvent DEF Inv, TypeOK, ConsumedIsLandedOrBatched
  <2>3. \A c \in Coordinates : EventTime(c) < CurrentT => c \in Landed
    BY CurrentVersion DEF WatermarkSafe, CurrentT, Landed
  <2> QED BY <2>1, <2>2, <2>3 DEF GroundTruthBelow
<1>3. Spec => []WatermarkSafe
  BY WatermarkCorrect
<1> QED BY <1>1, <1>2, <1>3, NextKeepsFile, InitInv, NextKeepsInv, PTL DEF Spec
==============================================================================
