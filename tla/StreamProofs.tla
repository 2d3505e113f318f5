----------------------------- MODULE StreamProofs -----------------------------
(***************************************************************************)
(* What TLAPS proves of the generator and the topic, for any partitions,   *)
(* numbers of events and runs, and any lateness window: the facts that     *)
(* the landing job's and the seam's proofs rest on.                        *)
(***************************************************************************)
EXTENDS LakeRows, FiniteSetTheorems, SequenceTheorems, WellFoundedInduction, TLAPS

(* Largest and smallest members *)

\* A non-empty set of integers bounded below has a least member, and Min is it.
LEMMA MinOfSet ==
    ASSUME NEW S \in SUBSET Int, S # {}, NEW lo \in Int, \A x \in S : lo <= x
    PROVE  Min(S) \in S /\ \A y \in S : Min(S) <= y
<1> DEFINE D == {x - lo : x \in S}
<1>0. \A x \in S : x - lo \in Nat
  <2> SUFFICES ASSUME NEW x \in S PROVE x - lo \in Nat
    OBVIOUS
  <2>1. x \in Int /\ lo <= x
    OBVIOUS
  <2> QED BY <2>1
<1>1. D \subseteq Nat /\ D # {}
  BY <1>0 DEF D
<1>2. PICK d \in D : \A e \in D : ~ (<<e, d>> \in OpToRel(<, Nat))
  <2> HIDE DEF D
  <2> QED BY <1>1, NatLessThanWellFounded, WFMin
<1>3. \A e \in D : d <= e
  <2> SUFFICES ASSUME NEW e \in D PROVE d <= e
    OBVIOUS
  <2>1. d \in Nat /\ e \in Nat
    BY <1>1
  <2>2. ~ (e < d)
    BY <1>2, <2>1 DEF OpToRel
  <2> QED BY <2>1, <2>2
<1>4. PICK x \in S : d = x - lo
  BY DEF D
<1>5. \A y \in S : x <= y
  <2> SUFFICES ASSUME NEW y \in S PROVE x <= y
    OBVIOUS
  <2>1. y - lo \in D
    BY DEF D
  <2>2. x - lo <= y - lo /\ x \in Int /\ y \in Int
    <3> HIDE DEF D
    <3> QED BY <2>1, <1>3, <1>4
  <2> QED BY <2>2
<1> HIDE DEF D
<1> QED BY <1>4, <1>5 DEF Min

\* A non-empty set of integers bounded above has a largest member: Max is it.
LEMMA MaxOfSet ==
    ASSUME NEW S \in SUBSET Int, S # {}, NEW hi \in Int, \A x \in S : x <= hi
    PROVE  Max(S) \in S /\ \A y \in S : y <= Max(S)
<1> DEFINE N == {-x : x \in S}
<1>1. N \in SUBSET Int /\ N # {} /\ \A z \in N : -hi <= z
  <2>1. \A x \in S : x \in Int /\ -x \in Int /\ -hi <= -x
    OBVIOUS
  <2> QED BY <2>1 DEF N
<1>2. -hi \in Int
  OBVIOUS
<1>3. Min(N) \in N /\ \A y \in N : Min(N) <= y
  <2> HIDE DEF N
  <2> QED BY <1>1, <1>2, MinOfSet
<1>4. PICK x \in S : Min(N) = -x
  BY <1>3 DEF N
<1>5. \A y \in S : y <= x
  <2> SUFFICES ASSUME NEW y \in S PROVE y <= x
    OBVIOUS
  <2>1. -y \in N
    BY DEF N
  <2>2. -x <= -y /\ x \in Int /\ y \in Int
    <3> HIDE DEF N
    <3> QED BY <2>1, <1>3, <1>4
  <2> QED BY <2>2
<1>6. \E z \in S : \A y \in S : z >= y
  BY <1>5
<1> QED BY <1>6 DEF Max

(* Prefixes of the partitions *)

LEMMA InPrefix ==
    ASSUME NEW cut, NEW p \in Partitions, NEW o
    PROVE  <<p, o>> \in Prefix(cut) <=> o \in 0 .. (cut[p] - 1)
BY DEF Prefix

LEMMA PrefixPair ==
    ASSUME NEW cut, NEW c \in Prefix(cut)
    PROVE  /\ c[1] \in Partitions /\ c[2] \in 0 .. (cut[c[1]] - 1)
           /\ c = <<c[1], c[2]>>
BY DEF Prefix

LEMMA PrefixMonotone ==
    ASSUME NEW low \in [Partitions -> Int], NEW high \in [Partitions -> Int],
           \A p \in Partitions : low[p] <= high[p]
    PROVE  Prefix(low) \subseteq Prefix(high)
<1> SUFFICES ASSUME NEW c \in Prefix(low) PROVE c \in Prefix(high)
  OBVIOUS
<1>1. c[1] \in Partitions /\ c[2] \in 0 .. (low[c[1]] - 1) /\ c = <<c[1], c[2]>>
  BY PrefixPair
<1>2. c[2] \in 0 .. (high[c[1]] - 1)
  BY <1>1
<1> QED BY <1>1, <1>2, InPrefix

LEMMA PrefixesAreCoordinates ==
    ASSUME NEW cut \in [Partitions -> Int]
    PROVE  Prefix(cut) \subseteq Partitions \X Nat
<1> SUFFICES ASSUME NEW c \in Prefix(cut) PROVE c \in Partitions \X Nat
  OBVIOUS
<1>1. c[1] \in Partitions /\ c[2] \in 0 .. (cut[c[1]] - 1) /\ c = <<c[1], c[2]>>
  BY PrefixPair
<1> QED BY <1>1

------------------------------------------------------------------------------
(* The generator's steps *)

LEMMA EmitStep ==
    ASSUME StreamTypeOK, StreamInv,
           NEW order \in OrderIds, NEW type \in EventTypes,
           NEW p \in Partitions, NEW jitter \in Jitter,
           Emit(order, type, p, jitter)
    PROVE  /\ log' \in [Partitions -> Seq(Events)]
           /\ index' \in Nat
           /\ \A r \in Partitions : hw'[r] <= Len(log'[r])
           /\ StreamInv'
<1> DEFINE e == [order |-> order, type |-> type,
                 et |-> StartMs + index * STEP_MS + jitter]
<1>1. /\ index \in Nat /\ index < NumEvents /\ index' = index + 1 /\ hw' = hw
      /\ log' = [log EXCEPT ![p] = Append(@, e)]
  BY DEF Emit, StreamTypeOK
<1>2. StartMs \in Nat /\ NumEvents \in Nat /\ W \in Nat \ {0}
  BY LatenessAssumption, StartAssumption, RunsAssumption
<1>3. e.et \in Nat /\ e.et < StartMs + NumEvents + W
  BY <1>1, <1>2 DEF STEP_MS, Jitter
<1>4. e \in Events
  BY <1>3 DEF Events
<1> HIDE DEF e
<1>5. log \in [Partitions -> Seq(Events)]
  BY DEF StreamTypeOK
<1>6. /\ Append(log[p], e) \in Seq(Events)
      /\ Len(Append(log[p], e)) = Len(log[p]) + 1 /\ Len(log[p]) \in Nat
      /\ \A i \in 1 .. Len(log[p]) : Append(log[p], e)[i] = log[p][i]
      /\ Append(log[p], e)[Len(log[p]) + 1] = e
  BY <1>4, <1>5, AppendProperties, LenProperties
<1>7. log' \in [Partitions -> Seq(Events)]
  BY <1>1, <1>5, <1>6
<1>8. \A r \in Partitions : hw'[r] <= Len(log'[r])
  <2> SUFFICES ASSUME NEW r \in Partitions PROVE hw'[r] <= Len(log'[r])
    OBVIOUS
  <2>1. hw[r] \in Nat /\ hw[r] <= Len(log[r]) /\ Len(log[r]) \in Nat
    BY <1>5, LenProperties DEF StreamTypeOK
  <2>2. CASE r = p
    BY <1>1, <1>5, <1>6, <2>1, <2>2
  <2>3. CASE r # p
    BY <1>1, <1>5, <2>1, <2>3
  <2> QED BY <2>2, <2>3
<1>9. ASSUME NEW r \in Partitions, NEW a \in DOMAIN log'[r]
      PROVE  log'[r][a].et < StartMs + NumEvents + W
  <2>1. CASE r = p
    <3>1. log'[r] = Append(log[p], e)
      BY <1>1, <1>5, <2>1
    <3>2. a \in 1 .. (Len(log[p]) + 1)
      BY <1>6, <3>1, LenProperties
    <3>3. CASE a \in 1 .. Len(log[p])
      <4>1. a \in DOMAIN log[p]
        BY <1>5, <3>3, LenProperties
      <4> QED BY <1>6, <2>1, <3>1, <3>3, <4>1 DEF StreamInv
    <3>4. CASE a = Len(log[p]) + 1
      BY <1>3, <1>6, <3>1, <3>4
    <3> QED BY <1>6, <3>2, <3>3, <3>4
  <2>2. CASE r # p
    <3>1. log'[r] = log[r]
      BY <1>1, <1>5, <2>2
    <3> QED BY <3>1 DEF StreamInv
  <2> QED BY <2>1, <2>2
<1>10. index' \in Nat /\ index' <= NumEvents
  BY <1>1, <1>2
<1> QED BY <1>7, <1>8, <1>9, <1>10 DEF StreamInv

\* No step of the generator makes an event older than the bound, and the broker
\* never takes back what it acknowledged.
LEMMA StreamStep ==
    ASSUME StreamTypeOK, StreamInv, StreamNext
    PROVE  StreamTypeOK' /\ StreamInv' /\ \A p \in Partitions : hw[p] <= hw'[p]
<1>0. /\ \A p \in Partitions : hw[p] \in Nat /\ hw[p] <= Len(log[p])
      /\ \A p \in Partitions : Len(log[p]) \in Nat
      /\ runs \in Nat /\ index \in Nat
  BY LenProperties DEF StreamTypeOK
<1>1. ASSUME NEW p \in Partitions, NEW jitter \in Jitter, CreateOrder(p, jitter)
      PROVE  StreamTypeOK' /\ StreamInv' /\ hw' = hw
  <2>1. <<runs, index>> \in OrderIds /\ "order_created" \in EventTypes
    BY <1>0 DEF OrderIds, EventTypes
  <2>2. Emit(<<runs, index>>, "order_created", p, jitter)
    BY <1>1 DEF CreateOrder
  <2>3. createdPool' \subseteq [order : OrderIds, partition : Partitions]
    <3>1. createdPool' = createdPool \cup {[order |-> <<runs, index>>, partition |-> p]}
      BY <1>1 DEF CreateOrder
    <3>2. [order |-> <<runs, index>>, partition |-> p]
              \in [order : OrderIds, partition : Partitions]
      BY <2>1
    <3> QED BY <3>1, <3>2 DEF StreamTypeOK
  <2>4. hw' = hw /\ groundTruth' = groundTruth /\ phase' = phase /\ runs' = runs
    BY <2>2 DEF Emit
  <2> QED BY <2>1, <2>2, <2>3, <2>4, EmitStep DEF StreamTypeOK
<1>2. ASSUME NEW c \in createdPool, NEW jitter \in Jitter, CancelOrder(c, jitter)
      PROVE  StreamTypeOK' /\ StreamInv' /\ hw' = hw
  <2>1. c.order \in OrderIds /\ c.partition \in Partitions
    BY DEF StreamTypeOK
  <2>2. "order_cancelled" \in EventTypes
    BY DEF EventTypes
  <2>3. Emit(c.order, "order_cancelled", c.partition, jitter)
    BY <1>2 DEF CancelOrder
  <2>4. createdPool' \subseteq [order : OrderIds, partition : Partitions]
    BY <1>2 DEF CancelOrder, StreamTypeOK
  <2>5. hw' = hw /\ groundTruth' = groundTruth /\ phase' = phase /\ runs' = runs
    BY <2>3 DEF Emit
  <2> QED BY <2>1, <2>2, <2>3, <2>4, <2>5, EmitStep DEF StreamTypeOK
<1>3. CASE WriteGroundTruth
  <2>1. Coordinates \subseteq Partitions \X Nat
    <3>1. [p \in Partitions |-> Len(log[p])] \in [Partitions -> Int]
      BY <1>0
    <3> QED BY <3>1, PrefixesAreCoordinates DEF Coordinates
  <2>2. groundTruth' \subseteq Partitions \X Nat
    BY <1>3, <2>1 DEF WriteGroundTruth
  <2> QED BY <1>0, <1>3, <2>2 DEF WriteGroundTruth, StreamTypeOK, StreamInv
<1>4. ASSUME NEW p \in Partitions, Deliver(p)
      PROVE  StreamTypeOK' /\ StreamInv' /\ \A r \in Partitions : hw[r] <= hw'[r]
  <2>1. hw \in [Partitions -> Nat] /\ hw' = [hw EXCEPT ![p] = hw[p] + 1]
        /\ hw[p] < Len(log[p])
    BY <1>4 DEF Deliver, StreamTypeOK
  <2>2. hw' \in [Partitions -> Nat]
    BY <2>1
  <2>3. \A r \in Partitions : hw'[r] <= Len(log[r]) /\ hw[r] <= hw'[r]
    BY <1>0, <2>1
  <2> QED BY <1>4, <2>2, <2>3 DEF Deliver, StreamTypeOK, StreamInv
<1>5. CASE NewRun
  <2>1. 0 <= NumEvents
    BY RunsAssumption
  <2> QED BY <1>0, <1>5, <2>1 DEF NewRun, StreamTypeOK, StreamInv
<1>6. QED BY <1>0, <1>1, <1>2, <1>3, <1>4, <1>5 DEF StreamNext

LEMMA EventTimeType ==
    ASSUME StreamTypeOK, StreamInv,
           NEW p \in Partitions, NEW o \in 0 .. (hw[p] - 1)
    PROVE  /\ EventTime(<<p, o>>) \in Nat
           /\ EventTime(<<p, o>>) <= StartMs + NumEvents + W
<1>1. /\ log[p] \in Seq(Events) /\ Len(log[p]) \in Nat
      /\ hw[p] \in Nat /\ hw[p] <= Len(log[p])
  BY LenProperties DEF StreamTypeOK
<1>2. o + 1 \in 1 .. Len(log[p]) /\ o \in Nat
  BY <1>1
<1>3. o + 1 \in DOMAIN log[p] /\ log[p][o + 1] \in Events
  BY <1>1, <1>2, ElementOfSeq, LenProperties
<1>4. log[p][o + 1].et \in Nat /\ log[p][o + 1].et < StartMs + NumEvents + W
  BY <1>3 DEF Events, StreamInv
<1>5. EventTime(<<p, o>>) = log[p][o + 1].et
  BY DEF EventTime, EventAt
<1> QED BY <1>4, <1>5, LatenessAssumption, StartAssumption, RunsAssumption

------------------------------------------------------------------------------
(* Bounded disorder *)

\* The generator's arithmetic: no event built so far is as late as index + W - 1.
DisorderInv ==
    /\ runs >= 1
    /\ \A p \in Partitions : \A a \in DOMAIN log[p] :
        log[p][a].et <= StartMs + index + W - 2
    /\ BoundedDisorder

LEMMA EmitKeepsDisorder ==
    ASSUME StreamTypeOK, DisorderInv,
           NEW order \in OrderIds, NEW type \in EventTypes,
           NEW p \in Partitions, NEW jitter \in Jitter,
           Emit(order, type, p, jitter)
    PROVE  DisorderInv'
<1> DEFINE e == [order |-> order, type |-> type,
                 et |-> StartMs + index * STEP_MS + jitter]
<1>1. /\ index \in Nat /\ index' = index + 1 /\ runs' = runs
      /\ log' = [log EXCEPT ![p] = Append(@, e)]
      /\ log \in [Partitions -> Seq(Events)]
  BY DEF Emit, StreamTypeOK
<1>2. StartMs \in Nat /\ W \in Nat \ {0}
  BY LatenessAssumption, StartAssumption
<1>3. e.et \in Nat /\ StartMs + index <= e.et /\ e.et <= StartMs + index + W - 1
  BY <1>1, <1>2 DEF STEP_MS, Jitter
<1>4. e \in Events
  BY <1>3 DEF Events
<1> HIDE DEF e
<1>5. /\ Len(log[p]) \in Nat
      /\ DOMAIN log[p] = 1 .. Len(log[p])
      /\ log'[p] = Append(log[p], e)
      /\ DOMAIN log'[p] = 1 .. (Len(log[p]) + 1)
      /\ \A a \in DOMAIN log[p] : log'[p][a] = log[p][a]
      /\ log'[p][Len(log[p]) + 1] = e
      /\ \A a \in DOMAIN log[p] : log[p][a].et \in Nat
  <2>1. log[p] \in Seq(Events) /\ log'[p] = Append(log[p], e)
    BY <1>1
  <2>2. \A a \in DOMAIN log[p] : log[p][a] \in Events
    BY <2>1, ElementOfSeq, LenProperties
  <2> QED BY <1>4, <2>1, <2>2, AppendProperties, LenProperties DEF Events
<1>6. \A r \in Partitions : r # p => log'[r] = log[r]
  BY <1>1
<1>7. ASSUME NEW r \in Partitions, NEW a \in DOMAIN log'[r]
      PROVE  log'[r][a].et <= StartMs + index' + W - 2
  <2>1. CASE r # p
    <3>1. log'[r] = log[r] /\ log[r][a].et <= StartMs + index + W - 2
      BY <1>6, <2>1 DEF DisorderInv
    <3>2. log[r][a] \in Events
      BY <1>1, <3>1, ElementOfSeq, LenProperties
    <3>3. log[r][a].et \in Nat
      BY <3>2 DEF Events
    <3> QED BY <1>1, <1>2, <3>1, <3>3
  <2>2. CASE r = p /\ a \in DOMAIN log[p]
    <3>1. log[p][a].et <= StartMs + index + W - 2
      BY <2>2 DEF DisorderInv
    <3> QED BY <1>1, <1>2, <1>5, <2>2, <3>1
  <2>3. CASE r = p /\ a = Len(log[p]) + 1
    BY <1>1, <1>2, <1>3, <1>5, <2>3
  <2> QED BY <1>5, <2>1, <2>2, <2>3
<1>8. ASSUME NEW r \in Partitions, NEW a \in DOMAIN log'[r], NEW b \in DOMAIN log'[r],
             a < b
      PROVE  log'[r][a].et - W < log'[r][b].et
  <2>1. CASE r # p
    BY <1>6, <1>8, <2>1 DEF DisorderInv, BoundedDisorder
  <2>2. CASE r = p /\ b \in DOMAIN log[p]
    <3>1. a \in DOMAIN log[p]
      BY <1>5, <1>8, <2>2
    <3>2. log[p][a].et - W < log[p][b].et
      BY <1>8, <2>2, <3>1 DEF DisorderInv, BoundedDisorder
    <3> QED BY <1>5, <2>2, <3>1, <3>2
  <2>3. CASE r = p /\ b = Len(log[p]) + 1
    <3>1. a \in DOMAIN log[p]
      BY <1>5, <1>8, <2>3
    <3>2. log[p][a].et <= StartMs + index + W - 2 /\ log[p][a].et \in Nat
      BY <1>5, <3>1 DEF DisorderInv
    <3>3. log'[r][a].et = log[p][a].et /\ log'[r][b].et = e.et
      BY <1>5, <2>3, <3>1
    <3>4. log[p][a].et - W < e.et
      <4>1. index \in Nat /\ W \in Nat
        BY <1>1, <1>2
      <4> QED BY <1>2, <1>3, <3>2, <4>1
    <3> QED BY <3>3, <3>4
  <2> QED BY <1>5, <2>1, <2>2, <2>3
<1> QED BY <1>1, <1>7, <1>8 DEF DisorderInv, BoundedDisorder

LEMMA DisorderKept ==
    ASSUME MaxRuns = 1, StreamTypeOK, DisorderInv, StreamNext
    PROVE  DisorderInv'
<1>0. runs \in Nat /\ index \in Nat
  BY DEF StreamTypeOK
<1>1. ASSUME NEW p \in Partitions, NEW jitter \in Jitter, CreateOrder(p, jitter)
      PROVE  DisorderInv'
  <2>1. <<runs, index>> \in OrderIds /\ "order_created" \in EventTypes
    BY <1>0 DEF OrderIds, EventTypes
  <2> QED BY <1>1, <2>1, EmitKeepsDisorder DEF CreateOrder
<1>2. ASSUME NEW c \in createdPool, NEW jitter \in Jitter, CancelOrder(c, jitter)
      PROVE  DisorderInv'
  <2>1. c.order \in OrderIds /\ c.partition \in Partitions
        /\ "order_cancelled" \in EventTypes
    BY DEF StreamTypeOK, EventTypes
  <2> QED BY <1>2, <2>1, EmitKeepsDisorder DEF CancelOrder
<1>3. CASE WriteGroundTruth \/ \E p \in Partitions : Deliver(p)
  <2>1. log' = log /\ index' = index /\ runs' = runs
    BY <1>3 DEF WriteGroundTruth, Deliver
  <2> QED BY <2>1 DEF DisorderInv, BoundedDisorder
<1>4. CASE NewRun
  <2>1. FALSE
    BY <1>0, <1>4 DEF NewRun, DisorderInv
  <2> QED BY <2>1
<1> QED BY <1>1, <1>2, <1>3, <1>4 DEF StreamNext

------------------------------------------------------------------------------
\* Events keep their event time: the log only grows.
LEMMA EventTimeKept ==
    ASSUME StreamTypeOK, StreamNext, NEW p \in Partitions, NEW o \in 0 .. (hw[p] - 1)
    PROVE  EventTime(<<p, o>>)' = EventTime(<<p, o>>)
<1>1. log[p] \in Seq(Events) /\ Len(log[p]) \in Nat /\ hw[p] \in Nat /\ hw[p] <= Len(log[p])
  BY LenProperties DEF StreamTypeOK
<1>2. o + 1 \in 1 .. Len(log[p])
  BY <1>1
<1>3. ASSUME NEW order, NEW type, NEW r \in Partitions, NEW jitter,
             Emit(order, type, r, jitter)
      PROVE  log'[p][o + 1] = log[p][o + 1]
  <2> DEFINE e == [order |-> order, type |-> type,
                   et |-> StartMs + index * STEP_MS + jitter]
  <2>1. log' = [log EXCEPT ![r] = Append(@, e)] /\ log \in [Partitions -> Seq(Events)]
    BY <1>3 DEF Emit, StreamTypeOK
  <2> HIDE DEF e
  <2>2. CASE r # p
    BY <2>1, <2>2
  <2>3. CASE r = p
    <3>1. log'[p] = Append(log[p], e)
      BY <2>1, <2>3
    <3>2. log[p] \in Seq(Events \cup {e}) /\ e \in Events \cup {e}
      BY <1>1, LenProperties, SeqDef
    <3>3. \A i \in 1 .. Len(log[p]) : Append(log[p], e)[i] = log[p][i]
      BY <3>2, AppendProperties
    <3> QED BY <1>2, <3>1, <3>3
  <2> QED BY <2>2, <2>3
<1>4. log' = log \/ log'[p][o + 1] = log[p][o + 1]
  BY <1>3 DEF StreamNext, CreateOrder, CancelOrder, WriteGroundTruth, Deliver,
              NewRun, StreamTypeOK
<1> QED BY <1>4 DEF EventTime, EventAt

------------------------------------------------------------------------------
(* T as a function of the rows *)

LEMMA DeliveredEvent ==
    ASSUME StreamTypeOK, StreamInv, NEW c \in Delivered
    PROVE  /\ c[1] \in Partitions /\ c[2] \in Nat /\ c = <<c[1], c[2]>>
           /\ c[2] \in 0 .. (hw[c[1]] - 1)
           /\ EventTime(c) \in Nat
           /\ EventTime(c) <= StartMs + NumEvents + W
           /\ c \in Coordinates
<1> DEFINE p == c[1]
           o == c[2]
           ends == [q \in Partitions |-> Len(log[q])]
<1>1. p \in Partitions /\ o \in 0 .. (hw[p] - 1) /\ c = <<p, o>>
  BY PrefixPair DEF Delivered
<1>2. hw[p] \in Nat /\ Len(log[p]) \in Nat /\ hw[p] <= Len(log[p])
  BY <1>1, LenProperties DEF StreamTypeOK
<1>3. EventTime(<<p, o>>) \in Nat /\ EventTime(<<p, o>>) <= StartMs + NumEvents + W
  BY <1>1, EventTimeType
<1>4. o \in 0 .. (ends[p] - 1)
  BY <1>1, <1>2
<1>5. <<p, o>> \in Prefix(ends)
  BY <1>1, <1>4, InPrefix
<1> QED BY <1>1, <1>2, <1>3, <1>5 DEF Coordinates

LEMMA LargestInRows ==
    ASSUME StreamTypeOK, StreamInv, NEW r \in SUBSET Delivered, NEW p \in SeenIn(r)
    PROVE  /\ p \in Partitions
           /\ LargestIn(r, p) \in Nat
           /\ \E c \in r : c[1] = p /\ LargestIn(r, p) = EventTime(c)
           /\ \A c \in r : c[1] = p => EventTime(c) <= LargestIn(r, p)
<1> DEFINE S == {EventTime(c) : c \in {d \in r : d[1] = p}}
           hi == StartMs + NumEvents + W
<1>1. PICK c \in r : c[1] = p
  BY DEF SeenIn
<1>2. \A d \in r : EventTime(d) \in Nat /\ EventTime(d) <= hi
  BY DeliveredEvent
<1>3. p \in Partitions
  BY <1>1, DeliveredEvent
<1>4. S \in SUBSET Int /\ \A x \in S : x \in Nat /\ x <= hi
  BY <1>2
<1>5. S # {}
  BY <1>1
<1>6. hi \in Int
  BY LatenessAssumption, StartAssumption, RunsAssumption
<1> HIDE DEF hi
<1>7. Max(S) \in S /\ \A y \in S : y <= Max(S)
  <2> HIDE DEF S
  <2> QED BY <1>4, <1>5, <1>6, MaxOfSet
<1>8. LargestIn(r, p) = Max(S)
  BY DEF LargestIn
<1> QED BY <1>3, <1>4, <1>7, <1>8

LEMMA MaxOfTwo ==
    ASSUME NEW a \in Int, NEW b \in Int
    PROVE  Max({a, b}) \in {a, b} /\ a <= Max({a, b}) /\ b <= Max({a, b})
<1> DEFINE S == {a, b}
           hi == IF a <= b THEN b ELSE a
<1>1. S \in SUBSET Int /\ S # {} /\ hi \in Int /\ \A x \in S : x <= hi
  OBVIOUS
<1>2. Max(S) \in S /\ \A y \in S : y <= Max(S)
  <2> HIDE DEF S, hi
  <2> QED BY <1>1, MaxOfSet
<1> QED BY <1>2

\* T is 0, or a lateness window or more below a row of every partition.
LEMMA SafeTIsBacked ==
    ASSUME StreamTypeOK, StreamInv, NEW r \in SUBSET Delivered
    PROVE  /\ SafeT(r) \in Nat
           /\ \/ SafeT(r) = 0
              \/ \A p \in Partitions : \E c \in r :
                    c[1] = p /\ SafeT(r) + W <= EventTime(c)
           /\ SeenIn(r) = Partitions =>
                SafeT(r) = Max({0, Min({LargestIn(r, p) : p \in Partitions}) - W})
<1>1. CASE SeenIn(r) # Partitions
  BY <1>1 DEF SafeT
<1>2. CASE SeenIn(r) = Partitions
  <2> DEFINE M == {LargestIn(r, p) : p \in Partitions}
             least == Min(M)
  <2>1. M \in SUBSET Int /\ M # {} /\ \A x \in M : x \in Nat /\ 0 <= x
    BY <1>2, LargestInRows, PartitionsAssumption
  <2>2. least \in M /\ \A x \in M : least <= x
    <3> HIDE DEF M
    <3> QED BY <2>1, MinOfSet
  <2>3. least \in Nat /\ W \in Nat
    BY <2>1, <2>2, LatenessAssumption
  <2>4. SafeT(r) = Max({0, least - W})
    BY <1>2 DEF SafeT
  <2>5. ASSUME NEW p \in Partitions
        PROVE  \E c \in r : c[1] = p /\ least <= EventTime(c)
    <3>1. p \in SeenIn(r) /\ LargestIn(r, p) \in M
      BY <1>2
    <3>2. PICK c \in r : c[1] = p /\ LargestIn(r, p) = EventTime(c)
      BY <3>1, LargestInRows
    <3> QED BY <2>2, <3>1, <3>2
  <2> HIDE DEF least, M
  <2>6. Max({0, least - W}) \in {0, least - W} /\ 0 <= Max({0, least - W})
    <3>1. 0 \in Int /\ least - W \in Int
      BY <2>3
    <3> QED BY <3>1, MaxOfTwo
  <2>7. SafeT(r) = 0 \/ SafeT(r) + W = least
    BY <2>3, <2>4, <2>6
  <2>8. SafeT(r) \in Nat
    BY <2>3, <2>4, <2>6
  <2> QED BY <2>4, <2>5, <2>7, <2>8 DEF least, M
<1> QED BY <1>1, <1>2

\* More rows never lower T.
LEMMA SafeTMonotone ==
    ASSUME StreamTypeOK, StreamInv,
           NEW s \in SUBSET Delivered, NEW r \in SUBSET s
    PROVE  SafeT(r) <= SafeT(s)
<1>0. r \in SUBSET Delivered
  OBVIOUS
<1>1. SafeT(r) \in Nat /\ SafeT(s) \in Nat
  BY <1>0, SafeTIsBacked
<1>2. CASE SeenIn(r) # Partitions
  BY <1>1, <1>2 DEF SafeT
<1>3. CASE SeenIn(r) = Partitions
  <2> DEFINE M == {LargestIn(r, p) : p \in Partitions}
             N == {LargestIn(s, p) : p \in Partitions}
  <2>1. SeenIn(s) = Partitions
    <3>1. SeenIn(r) \subseteq SeenIn(s) /\ SeenIn(s) \subseteq Partitions
      BY DeliveredEvent DEF SeenIn
    <3> QED BY <1>3, <3>1
  <2>2. /\ M \in SUBSET Int /\ M # {} /\ \A x \in M : 0 <= x
        /\ N \in SUBSET Int /\ N # {} /\ \A x \in N : 0 <= x
    BY <1>0, <1>3, <2>1, LargestInRows, PartitionsAssumption
  <2>3. /\ Min(M) \in M /\ \A x \in M : Min(M) <= x
        /\ Min(N) \in N /\ \A x \in N : Min(N) <= x
    <3> HIDE DEF M, N
    <3> QED BY <2>2, MinOfSet
  <2>4. PICK p \in Partitions : Min(N) = LargestIn(s, p)
    BY <2>3
  <2>5. LargestIn(r, p) <= LargestIn(s, p)
    <3>1. p \in SeenIn(r) /\ p \in SeenIn(s)
      BY <1>3, <2>1
    <3>2. PICK c \in r : c[1] = p /\ LargestIn(r, p) = EventTime(c)
      BY <1>0, <3>1, LargestInRows
    <3>3. c \in s /\ EventTime(c) <= LargestIn(s, p)
      BY <3>1, <3>2, LargestInRows
    <3> QED BY <3>2, <3>3
  <2>6. Min(M) <= LargestIn(r, p) /\ LargestIn(r, p) \in Int
    BY <2>2, <2>3
  <2>7. Min(M) \in Int /\ Min(N) \in Int /\ W \in Int
    BY <2>2, <2>3, LatenessAssumption
  <2>8. SafeT(r) = Max({0, Min(M) - W}) /\ SafeT(s) = Max({0, Min(N) - W})
    BY <1>3, <2>1 DEF SafeT
  <2> HIDE DEF M, N
  <2>9. Min(M) <= Min(N)
    BY <2>4, <2>5, <2>6, <2>7
  <2>10. DEFINE m == Min(M) - W
                n == Min(N) - W
  <2>11. m \in Int /\ n \in Int /\ m <= n
    BY <2>7, <2>9
  <2> HIDE DEF m, n
  <2>12. /\ Max({0, m}) \in {0, m} /\ 0 <= Max({0, m}) /\ m <= Max({0, m})
         /\ Max({0, n}) \in {0, n} /\ 0 <= Max({0, n}) /\ n <= Max({0, n})
    BY <2>11, MaxOfTwo
  <2>13. Max({0, m}) <= Max({0, n})
    BY <2>11, <2>12
  <2> QED BY <2>8, <2>13 DEF m, n
<1> QED BY <1>2, <1>3

\* The rows' event times, and so T, stay what they are while the log grows.
LEMMA StreamKeepsRows ==
    ASSUME StreamTypeOK, StreamInv, StreamNext,
           NEW r \in SUBSET Delivered
    PROVE  /\ r \subseteq Delivered'
           /\ \A c \in Delivered : c \in Delivered' /\ EventTime(c)' = EventTime(c)
           /\ \A p : LargestIn(r, p)' = LargestIn(r, p)
           /\ SafeT(r)' = SafeT(r)
<1>1. /\ hw \in [Partitions -> Nat] /\ hw' \in [Partitions -> Nat]
      /\ \A p \in Partitions : hw[p] <= hw'[p]
  BY StreamStep DEF StreamTypeOK
<1>2. Delivered \subseteq Delivered'
  <2>1. Prefix(hw) \subseteq Prefix(hw')
    BY <1>1, PrefixMonotone
  <2> QED BY <2>1 DEF Delivered, Prefix
<1>3. ASSUME NEW c \in Delivered PROVE EventTime(c)' = EventTime(c)
  <2>1. c[1] \in Partitions /\ c[2] \in 0 .. (hw[c[1]] - 1) /\ c = <<c[1], c[2]>>
    BY DeliveredEvent
  <2>2. EventTime(<<c[1], c[2]>>)' = EventTime(<<c[1], c[2]>>)
    BY <2>1, EventTimeKept
  <2> QED BY <2>1, <2>2
<1>4. \A p : {EventTime(c)' : c \in {d \in r : d[1] = p}}
               = {EventTime(c) : c \in {d \in r : d[1] = p}}
  BY <1>3
<1>5. \A p : LargestIn(r, p)' = LargestIn(r, p)
  BY <1>4 DEF LargestIn
<1>6. SafeT(r)' = SafeT(r)
  BY <1>5 DEF SafeT, SeenIn
<1> QED BY <1>2, <1>3, <1>5, <1>6

------------------------------------------------------------------------------
(* Cancellations follow creations *)

CreatedIn(order, p, b) ==
    \E a \in 1 .. b : log[p][a].order = order /\ log[p][a].type = "order_created"

\* A cancellation comes after its creation, in the same partition, and an order
\* waiting to be cancelled has been created there.
PairInv ==
    /\ \A p \in Partitions : \A b \in 1 .. Len(log[p]) :
        log[p][b].type = "order_cancelled" => CreatedIn(log[p][b].order, p, b - 1)
    /\ \A c \in createdPool : CreatedIn(c.order, c.partition, Len(log[c.partition]))

LEMMA EmitKeepsPairs ==
    ASSUME StreamTypeOK, PairInv,
           NEW order \in OrderIds, NEW type \in EventTypes,
           NEW p \in Partitions, NEW jitter \in Jitter,
           Emit(order, type, p, jitter),
           type = "order_cancelled" => CreatedIn(order, p, Len(log[p])),
           \A c \in createdPool' :
              \/ c \in createdPool
              \/ type = "order_created" /\ c.order = order /\ c.partition = p
    PROVE  PairInv'
<1> DEFINE e == [order |-> order, type |-> type,
                 et |-> StartMs + index * STEP_MS + jitter]
           last == Len(log[p]) + 1
<1>1. /\ log' = [log EXCEPT ![p] = Append(@, e)]
      /\ log \in [Partitions -> Seq(Events)]
  BY DEF Emit, StreamTypeOK
<1>2. e.order = order /\ e.type = type
  OBVIOUS
<1> HIDE DEF e
<1>3. /\ Len(log[p]) \in Nat /\ Len(log'[p]) = last
      /\ \A a \in 1 .. Len(log[p]) : log'[p][a] = log[p][a]
      /\ log'[p][last] = e
  <2>1. log[p] \in Seq(Events \cup {e}) /\ e \in Events \cup {e}
    BY <1>1, LenProperties, SeqDef
  <2>2. log'[p] = Append(log[p], e)
    BY <1>1
  <2> QED BY <2>1, <2>2, AppendProperties, LenProperties
<1>4. \A r \in Partitions : r # p => log'[r] = log[r]
  BY <1>1
<1>5. \A r \in Partitions : Len(log[r]) \in Nat
  BY <1>1, LenProperties
<1>6. ASSUME NEW o, NEW r \in Partitions, NEW b \in Int, b <= Len(log[r]),
             CreatedIn(o, r, b)
      PROVE  \E a \in 1 .. b : log'[r][a].order = o /\ log'[r][a].type = "order_created"
  <2>1. PICK a \in 1 .. b : log[r][a].order = o /\ log[r][a].type = "order_created"
    BY <1>6 DEF CreatedIn
  <2>2. log'[r][a] = log[r][a]
    <3>1. a \in 1 .. Len(log[r])
      BY <1>5, <1>6
    <3> QED BY <1>3, <1>4, <3>1
  <2> QED BY <2>1, <2>2
<1>7. ASSUME NEW r \in Partitions, NEW b \in 1 .. Len(log'[r]),
             log'[r][b].type = "order_cancelled"
      PROVE  \E a \in 1 .. (b - 1) :
                log'[r][a].order = log'[r][b].order /\ log'[r][a].type = "order_created"
  <2>1. CASE b \in 1 .. Len(log[r])
    <3>1. log'[r][b] = log[r][b]
      BY <1>3, <1>4, <2>1
    <3>2. CreatedIn(log[r][b].order, r, b - 1)
      BY <1>7, <2>1, <3>1 DEF PairInv
    <3>3. b - 1 \in Int /\ b - 1 <= Len(log[r])
      BY <1>5, <2>1
    <3> QED BY <1>6, <3>1, <3>2, <3>3
  <2>2. CASE r = p /\ b = last
    <3>1. log'[r][b] = e /\ b - 1 = Len(log[p])
      BY <1>3, <2>2
    <3>2. CreatedIn(order, p, Len(log[p]))
      BY <1>2, <1>7, <3>1
    <3>3. Len(log[p]) \in Int /\ Len(log[p]) <= Len(log[p])
      BY <1>3
    <3> QED BY <1>2, <1>6, <2>2, <3>1, <3>2, <3>3
  <2>3. b \in 1 .. Len(log[r]) \/ (r = p /\ b = last)
    BY <1>3, <1>4, <1>5
  <2> QED BY <2>1, <2>2, <2>3
<1>8. ASSUME NEW c \in createdPool'
      PROVE  \E a \in 1 .. Len(log'[c.partition]) :
                /\ log'[c.partition][a].order = c.order
                /\ log'[c.partition][a].type = "order_created"
  <2>1. CASE c \in createdPool
    <3> DEFINE r == c.partition
    <3>1. r \in Partitions
      BY <2>1 DEF StreamTypeOK
    <3>2. CreatedIn(c.order, r, Len(log[r])) /\ Len(log[r]) \in Int
          /\ Len(log[r]) <= Len(log[r])
      BY <1>5, <2>1, <3>1 DEF PairInv
    <3>3. \A a \in 1 .. Len(log[r]) : a \in 1 .. Len(log'[r])
      BY <1>3, <1>4, <1>5, <3>1
    <3> HIDE DEF r
    <3>4. \E a \in 1 .. Len(log[r]) : log'[r][a].order = c.order
                                      /\ log'[r][a].type = "order_created"
      BY <1>6, <3>1, <3>2
    <3>5. \E a \in 1 .. Len(log'[r]) : log'[r][a].order = c.order
                                       /\ log'[r][a].type = "order_created"
      BY <3>3, <3>4
    <3> QED BY <3>5 DEF r
  <2>2. CASE type = "order_created" /\ c.order = order /\ c.partition = p
    <3>1. last \in 1 .. Len(log'[p])
      BY <1>3
    <3> QED BY <1>2, <1>3, <2>2, <3>1
  <2> QED BY <2>1, <2>2
<1> QED BY <1>7, <1>8 DEF PairInv, CreatedIn

LEMMA StreamKeepsPairs ==
    ASSUME StreamTypeOK, PairInv, StreamNext \/ UNCHANGED streamVars
    PROVE  PairInv'
<1>1. ASSUME NEW p \in Partitions, NEW jitter \in Jitter, CreateOrder(p, jitter)
      PROVE  PairInv'
  <2>1. <<runs, index>> \in OrderIds /\ "order_created" \in EventTypes
    BY DEF OrderIds, EventTypes, StreamTypeOK
  <2>2. \A c \in createdPool' :
            c \in createdPool \/ (c.order = <<runs, index>> /\ c.partition = p)
    BY <1>1 DEF CreateOrder
  <2> QED BY <1>1, <2>1, <2>2, EmitKeepsPairs DEF CreateOrder
<1>2. ASSUME NEW c \in createdPool, NEW jitter \in Jitter, CancelOrder(c, jitter)
      PROVE  PairInv'
  <2>1. c.order \in OrderIds /\ c.partition \in Partitions
        /\ "order_cancelled" \in EventTypes
    BY DEF StreamTypeOK, EventTypes
  <2>2. CreatedIn(c.order, c.partition, Len(log[c.partition]))
    BY DEF PairInv
  <2>3. \A d \in createdPool' : d \in createdPool
    BY <1>2 DEF CancelOrder
  <2> QED BY <1>2, <2>1, <2>2, <2>3, EmitKeepsPairs DEF CancelOrder
<1>3. ASSUME log' = log, createdPool' \subseteq createdPool PROVE PairInv'
  BY <1>3 DEF PairInv, CreatedIn
<1>4. CASE UNCHANGED streamVars \/ WriteGroundTruth \/ (\E p \in Partitions : Deliver(p))
           \/ NewRun
  <2>1. log' = log /\ createdPool' \subseteq createdPool
    BY <1>4 DEF streamVars, WriteGroundTruth, Deliver, NewRun
  <2> QED BY <1>3, <2>1
<1> QED BY <1>1, <1>2, <1>4 DEF StreamNext
------------------------------------------------------------------------------
(* As many events as emissions *)

LEMMA CoordinatesOf ==
    ASSUME NEW c
    PROVE  c \in Coordinates <=>
               /\ c[1] \in Partitions /\ c = <<c[1], c[2]>>
               /\ c[2] \in 0 .. (Len(log[c[1]]) - 1)
<1> DEFINE ends == [p \in Partitions |-> Len(log[p])]
<1>1. ASSUME c \in Coordinates
      PROVE  /\ c[1] \in Partitions /\ c = <<c[1], c[2]>>
             /\ c[2] \in 0 .. (Len(log[c[1]]) - 1)
  <2>1. c[1] \in Partitions /\ c[2] \in 0 .. (ends[c[1]] - 1) /\ c = <<c[1], c[2]>>
    BY <1>1, PrefixPair DEF Coordinates
  <2> QED BY <2>1
<1>2. ASSUME c[1] \in Partitions, c = <<c[1], c[2]>>,
             c[2] \in 0 .. (Len(log[c[1]]) - 1)
      PROVE  c \in Coordinates
  <2>1. c[2] \in 0 .. (ends[c[1]] - 1)
    BY <1>2
  <2> HIDE DEF ends
  <2>2. <<c[1], c[2]>> \in Prefix(ends)
    BY <1>2, <2>1, InPrefix
  <2> QED BY <1>2, <2>2 DEF Coordinates, ends
<1> QED BY <1>1, <1>2

LEMMA EmitGrowsTopic ==
    ASSUME StreamTypeOK, NEW order \in OrderIds, NEW type \in EventTypes,
           NEW p \in Partitions, NEW jitter \in Jitter,
           Emit(order, type, p, jitter)
    PROVE  \E new : new \notin Coordinates /\ Coordinates' = Coordinates \cup {new}
<1> DEFINE e == [order |-> order, type |-> type,
                 et |-> StartMs + index * STEP_MS + jitter]
           new == <<p, Len(log[p])>>
<1>1. log \in [Partitions -> Seq(Events)] /\ log' = [log EXCEPT ![p] = Append(@, e)]
  BY DEF Emit, StreamTypeOK
<1> HIDE DEF e
<1>2. Len(log'[p]) = Len(log[p]) + 1 /\ Len(log[p]) \in Nat
  <2>1. log[p] \in Seq(Events \cup {e}) /\ e \in Events \cup {e}
    BY <1>1, LenProperties, SeqDef
  <2>2. log'[p] = Append(log[p], e)
    BY <1>1
  <2> QED BY <2>1, <2>2, AppendProperties, LenProperties
<1>3. \A q \in Partitions : Len(log[q]) \in Nat /\ (q # p => log'[q] = log[q])
  BY <1>1, LenProperties
<1>4. new \notin Coordinates
  BY <1>2, CoordinatesOf
<1>5. ASSUME NEW c
      PROVE  c \in Coordinates' <=>
                 /\ c[1] \in Partitions /\ c = <<c[1], c[2]>>
                 /\ c[2] \in 0 .. (Len(log'[c[1]]) - 1)
  <2> DEFINE ends == [q \in Partitions |-> Len(log'[q])]
  <2>1. Coordinates' = Prefix(ends)
    BY DEF Coordinates, Prefix
  <2>2. c \in Coordinates' => /\ c[1] \in Partitions /\ c[2] \in 0 .. (ends[c[1]] - 1)
                              /\ c = <<c[1], c[2]>>
    <3> HIDE DEF ends
    <3> QED BY <2>1, PrefixPair
  <2>3. ASSUME c[1] \in Partitions, c = <<c[1], c[2]>>, c[2] \in 0 .. (ends[c[1]] - 1)
        PROVE  c \in Coordinates'
    <3> HIDE DEF ends
    <3>1. <<c[1], c[2]>> \in Prefix(ends)
      BY <2>3, InPrefix
    <3> QED BY <2>1, <2>3, <3>1
  <2> QED BY <2>2, <2>3
<1>6. ASSUME NEW c PROVE c \in Coordinates' <=> c \in Coordinates \/ c = new
  <2>1. ASSUME c = <<p, c[2]>>
        PROVE  c[2] \in 0 .. (Len(log'[p]) - 1) <=>
                   c[2] \in 0 .. (Len(log[p]) - 1) \/ c[2] = Len(log[p])
    BY <1>2
  <2>2. CASE c[1] = p
    BY <1>5, <2>1, <2>2, CoordinatesOf
  <2>3. CASE c[1] # p
    BY <1>3, <1>5, <2>3, CoordinatesOf
  <2> QED BY <2>2, <2>3
<1>7. Coordinates' = Coordinates \cup {new}
  BY <1>6
<1> QED BY <1>4, <1>7

\* A run builds NumEvents events before it produces any.
SizeInv ==
    /\ runs >= 1
    /\ phase = "producing" => index = NumEvents
    /\ IsFiniteSet(Coordinates)
    /\ Cardinality(Coordinates) = (runs - 1) * NumEvents + index

LEMMA StreamKeepsSize ==
    ASSUME StreamTypeOK, SizeInv, StreamNext \/ UNCHANGED streamVars
    PROVE  SizeInv'
<1>0. /\ runs \in Nat /\ index \in Nat /\ NumEvents \in Nat
      /\ (runs - 1) * NumEvents \in Int
  BY RunsAssumption DEF StreamTypeOK
<1>1. ASSUME NEW order \in OrderIds, NEW type \in EventTypes,
             NEW p \in Partitions, NEW jitter \in Jitter,
             Emit(order, type, p, jitter)
      PROVE  SizeInv'
  <2>1. PICK new : new \notin Coordinates /\ Coordinates' = Coordinates \cup {new}
    BY <1>1, EmitGrowsTopic
  <2>2. IsFiniteSet(Coordinates') /\ Cardinality(Coordinates') = Cardinality(Coordinates) + 1
    BY <2>1, FS_AddElement DEF SizeInv
  <2>3. index' = index + 1 /\ runs' = runs /\ phase = "building" /\ phase' = phase
    BY <1>1 DEF Emit
  <2>4. (runs - 1) * NumEvents + (index + 1) = (runs - 1) * NumEvents + index + 1
    BY <1>0
  <2> QED BY <2>2, <2>3, <2>4 DEF SizeInv
<1>2. ASSUME NEW p \in Partitions, NEW jitter \in Jitter, CreateOrder(p, jitter)
      PROVE  SizeInv'
  <2>1. <<runs, index>> \in OrderIds /\ "order_created" \in EventTypes
    BY <1>0 DEF OrderIds, EventTypes
  <2> QED BY <1>1, <1>2, <2>1 DEF CreateOrder
<1>3. ASSUME NEW c \in createdPool, NEW jitter \in Jitter, CancelOrder(c, jitter)
      PROVE  SizeInv'
  <2>1. c.order \in OrderIds /\ c.partition \in Partitions
        /\ "order_cancelled" \in EventTypes
    BY DEF StreamTypeOK, EventTypes
  <2> QED BY <1>1, <1>3, <2>1 DEF CancelOrder
<1>4. ASSUME log' = log PROVE Coordinates' = Coordinates
  BY <1>4 DEF Coordinates, Prefix
<1>5. CASE UNCHANGED streamVars \/ WriteGroundTruth \/ \E p \in Partitions : Deliver(p)
  <2>1. /\ log' = log /\ runs' = runs /\ index' = index
        /\ phase' = "producing" => index = NumEvents
    BY <1>5 DEF streamVars, WriteGroundTruth, Deliver, SizeInv
  <2> QED BY <1>4, <2>1 DEF SizeInv
<1>6. CASE NewRun
  <2>1. /\ log' = log /\ runs' = runs + 1 /\ index' = 0
        /\ phase = "producing" /\ phase' = "building"
    BY <1>6 DEF NewRun
  <2>2. Cardinality(Coordinates) = (runs - 1) * NumEvents + NumEvents
    BY <2>1 DEF SizeInv
  <2>3. (runs - 1) * NumEvents + NumEvents = ((runs + 1) - 1) * NumEvents + 0
    BY <1>0
  <2> QED BY <1>0, <1>4, <2>1, <2>2, <2>3 DEF SizeInv
<1> QED BY <1>2, <1>3, <1>5, <1>6 DEF StreamNext
------------------------------------------------------------------------------
(* No order is created or cancelled twice *)

HasEvent(order, type) ==
    \E p \in Partitions : \E i \in 1 .. Len(log[p]) :
        log[p][i].order = order /\ log[p][i].type = type

\* Emission i is the only one that can create the order <<runs, i>>, and an order
\* leaves the pool when it is cancelled.
OnceInv ==
    /\ \A p \in Partitions : \A i \in 1 .. Len(log[p]) :
        log[p][i].order[1] = runs => log[p][i].order[2] < index
    /\ \A p \in Partitions : \A i \in 1 .. Len(log[p]) :
        log[p][i].order[1] <= runs
    /\ \A p, q \in Partitions : \A i \in 1 .. Len(log[p]), j \in 1 .. Len(log[q]) :
        log[p][i].order = log[q][j].order /\ log[p][i].type = log[q][j].type =>
            p = q /\ i = j
    /\ \A c \in createdPool :
        /\ ~ HasEvent(c.order, "order_cancelled")
        /\ c.order[1] = runs /\ c.order[2] < index
    /\ \A c, d \in createdPool : c.order = d.order => c = d

LEMMA EmitKeepsOnce ==
    ASSUME StreamTypeOK, OnceInv,
           NEW order \in OrderIds, NEW type \in EventTypes,
           NEW p \in Partitions, NEW jitter \in Jitter,
           Emit(order, type, p, jitter),
           order[1] = runs, order[2] <= index,
           ~ HasEvent(order, type),
           \A c \in createdPool' :
              /\ ~ HasEvent(c.order, "order_cancelled")
              /\ ~ (type = "order_cancelled" /\ c.order = order)
              /\ c.order \in OrderIds /\ c.order[1] = runs /\ c.order[2] <= index,
           \A c, d \in createdPool' : c.order = d.order => c = d
    PROVE  OnceInv'
<1> DEFINE e == [order |-> order, type |-> type,
                 et |-> StartMs + index * STEP_MS + jitter]
           last == Len(log[p]) + 1
<1>1. /\ log' = [log EXCEPT ![p] = Append(@, e)]
      /\ log \in [Partitions -> Seq(Events)]
      /\ index \in Nat /\ index' = index + 1 /\ runs \in Nat /\ runs' = runs
  BY DEF Emit, StreamTypeOK
<1>2. e.order = order /\ e.type = type /\ order[1] \in Nat /\ order[2] \in Nat
  BY DEF OrderIds
<1> HIDE DEF e
<1>3. /\ Len(log[p]) \in Nat /\ Len(log'[p]) = last
      /\ \A a \in 1 .. Len(log[p]) : log'[p][a] = log[p][a]
      /\ log'[p][last] = e
  <2>1. log[p] \in Seq(Events \cup {e}) /\ e \in Events \cup {e}
    BY <1>1, LenProperties, SeqDef
  <2>2. log'[p] = Append(log[p], e)
    BY <1>1
  <2> QED BY <2>1, <2>2, AppendProperties, LenProperties
<1>4. \A r \in Partitions : /\ r # p => log'[r] = log[r]
                            /\ Len(log[r]) \in Nat
  BY <1>1, LenProperties
\* An event of the new log is an old one or the one just built.
<1>5. ASSUME NEW r \in Partitions, NEW i \in 1 .. Len(log'[r])
      PROVE  \/ i \in 1 .. Len(log[r]) /\ log'[r][i] = log[r][i]
             \/ r = p /\ i = last /\ log'[r][i] = e
  BY <1>3, <1>4
<1> HIDE DEF last
<1>6. ASSUME NEW r \in Partitions, NEW i \in 1 .. Len(log[r])
      PROVE  /\ log[r][i].order[1] \in Nat /\ log[r][i].order[2] \in Nat
             /\ log[r][i].order[1] <= runs
             /\ log[r][i].order[1] = runs => log[r][i].order[2] < index
             /\ ~ (log[r][i].order = order /\ log[r][i].type = type)
  <2>1. log[r][i] \in Events
    BY <1>1, ElementOfSeq
  <2>2. log[r][i].order \in Nat \X Nat
    BY <2>1 DEF Events, OrderIds
  <2> QED BY <2>2 DEF OnceInv, HasEvent
<1>7. ASSUME NEW r \in Partitions, NEW i \in 1 .. Len(log'[r])
      PROVE  /\ log'[r][i].order[1] <= runs'
             /\ log'[r][i].order[1] = runs' => log'[r][i].order[2] < index'
  BY <1>1, <1>2, <1>5, <1>6
<1>8. ASSUME NEW r \in Partitions, NEW q \in Partitions,
             NEW i \in 1 .. Len(log'[r]), NEW j \in 1 .. Len(log'[q]),
             log'[r][i].order = log'[q][j].order, log'[r][i].type = log'[q][j].type
      PROVE  r = q /\ i = j
  <2>1. CASE i \in 1 .. Len(log[r]) /\ log'[r][i] = log[r][i]
             /\ j \in 1 .. Len(log[q]) /\ log'[q][j] = log[q][j]
    BY <1>8, <2>1 DEF OnceInv
  <2>2. CASE i \in 1 .. Len(log[r]) /\ log'[r][i] = log[r][i] /\ log'[q][j] = e
    BY <1>2, <1>6, <1>8, <2>2
  <2>3. CASE log'[r][i] = e /\ j \in 1 .. Len(log[q]) /\ log'[q][j] = log[q][j]
    BY <1>2, <1>6, <1>8, <2>3
  <2> QED BY <1>5, <2>1, <2>2, <2>3
<1>9. ASSUME NEW c \in createdPool'
      PROVE  /\ ~ HasEvent(c.order, "order_cancelled")'
             /\ c.order[1] = runs' /\ c.order[2] < index'
  <2>1. c.order[2] < index'
    BY <1>1 DEF OrderIds
  <2>2. ASSUME NEW r \in Partitions, NEW i \in 1 .. Len(log'[r]),
               log'[r][i].order = c.order, log'[r][i].type = "order_cancelled"
        PROVE  FALSE
    BY <1>2, <1>5, <2>2 DEF HasEvent
  <2> QED BY <1>1, <2>1, <2>2 DEF HasEvent
<1> QED BY <1>7, <1>8, <1>9 DEF OnceInv

LEMMA StreamKeepsOnce ==
    ASSUME StreamTypeOK, OnceInv, StreamNext \/ UNCHANGED streamVars
    PROVE  OnceInv'
<1>0. runs \in Nat /\ index \in Nat
  BY DEF StreamTypeOK
<1>1. ASSUME NEW p \in Partitions, NEW jitter \in Jitter, CreateOrder(p, jitter)
      PROVE  OnceInv'
  <2> DEFINE order == <<runs, index>>
  <2>1. /\ order \in OrderIds /\ "order_created" \in EventTypes
        /\ order[1] = runs /\ order[2] = index
    BY <1>0 DEF OrderIds, EventTypes
  <2>2. \A type : ~ HasEvent(order, type)
    <3> SUFFICES ASSUME NEW q \in Partitions, NEW i \in 1 .. Len(log[q]),
                        log[q][i].order = order
                 PROVE  FALSE
      BY DEF HasEvent
    <3> QED BY <1>0, <2>1 DEF OnceInv
  <2>3. /\ Emit(order, "order_created", p, jitter)
        /\ createdPool' = createdPool \cup {[order |-> order, partition |-> p]}
    BY <1>1 DEF CreateOrder
  <2> HIDE DEF order
  <2>4. ASSUME NEW c \in createdPool'
        PROVE  /\ ~ HasEvent(c.order, "order_cancelled")
               /\ c.order \in OrderIds /\ c.order[1] = runs /\ c.order[2] <= index
               /\ c \in createdPool => c.order # order
    <3>1. CASE c \in createdPool
      <4>1. c.order \in OrderIds
        BY <3>1 DEF StreamTypeOK
      <4> QED BY <1>0, <2>1, <3>1, <4>1 DEF OnceInv, OrderIds
    <3>2. CASE c \notin createdPool
      <4>1. c.order = order
        BY <2>3, <3>2
      <4> QED BY <1>0, <2>1, <2>2, <3>2, <4>1
    <3> QED BY <3>1, <3>2
  <2>5. \A c, d \in createdPool' : c.order = d.order => c = d
    <3>1. \A c \in createdPool' : c \in createdPool \/ c = [order |-> order, partition |-> p]
      BY <2>3
    <3>2. [order |-> order, partition |-> p].order = order
      OBVIOUS
    <3> QED BY <2>4, <3>1, <3>2 DEF OnceInv
  <2>6. index <= index
    BY <1>0
  <2> QED BY <2>1, <2>2, <2>3, <2>4, <2>5, <2>6, EmitKeepsOnce
<1>2. ASSUME NEW c \in createdPool, NEW jitter \in Jitter, CancelOrder(c, jitter)
      PROVE  OnceInv'
  <2>1. c.order \in OrderIds /\ c.partition \in Partitions
        /\ "order_cancelled" \in EventTypes
    BY DEF StreamTypeOK, EventTypes
  <2>2. /\ Emit(c.order, "order_cancelled", c.partition, jitter)
        /\ createdPool' = createdPool \ {c}
    BY <1>2 DEF CancelOrder
  <2>3. /\ c.order[1] = runs /\ c.order[2] <= index
        /\ ~ HasEvent(c.order, "order_cancelled")
    BY <1>0, <2>1 DEF OnceInv, OrderIds
  <2>4. ASSUME NEW d \in createdPool'
        PROVE  /\ ~ HasEvent(d.order, "order_cancelled")
               /\ d.order # c.order /\ d.order \in OrderIds
               /\ d.order[1] = runs /\ d.order[2] <= index
    <3>1. d \in createdPool /\ d # c /\ d.order \in OrderIds
      BY <2>2 DEF StreamTypeOK
    <3> QED BY <1>0, <3>1 DEF OnceInv, OrderIds
  <2>5. \A d, f \in createdPool' : d.order = f.order => d = f
    BY <2>2 DEF OnceInv
  <2> QED BY <2>1, <2>2, <2>3, <2>4, <2>5, EmitKeepsOnce
<1>3. ASSUME log' = log, createdPool' = createdPool, runs' = runs, index' = index
      PROVE  OnceInv'
  BY <1>3 DEF OnceInv, HasEvent
<1>4. CASE UNCHANGED streamVars \/ WriteGroundTruth \/ \E p \in Partitions : Deliver(p)
  BY <1>3, <1>4 DEF streamVars, WriteGroundTruth, Deliver
<1>5. CASE NewRun
  <2>1. log' = log /\ createdPool' = {} /\ runs' = runs + 1 /\ index' = 0
    BY <1>5 DEF NewRun
  <2>2. ASSUME NEW p \in Partitions, NEW i \in 1 .. Len(log[p])
        PROVE  log[p][i].order[1] \in Nat /\ log[p][i].order[1] <= runs
    <3>1. log[p] \in Seq(Events)
      BY DEF StreamTypeOK
    <3>2. log[p][i] \in Events
      BY <3>1, ElementOfSeq
    <3>3. log[p][i].order \in Nat \X Nat
      BY <3>2 DEF Events, OrderIds
    <3> QED BY <3>3 DEF OnceInv
  <2>3. \A p \in Partitions : \A i \in 1 .. Len(log[p]) :
           log[p][i].order[1] <= runs' /\ log[p][i].order[1] # runs'
    BY <1>0, <2>1, <2>2
  <2> QED BY <2>1, <2>3 DEF OnceInv
<1> QED BY <1>1, <1>2, <1>4, <1>5 DEF StreamNext
==============================================================================
