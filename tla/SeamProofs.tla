------------------------------ MODULE SeamProofs ------------------------------
(***************************************************************************)
(* What TLAPS proves of the seam query, for any partitions, lateness       *)
(* window, number of queries and of ClickHouse restarts.  The facts about  *)
(* T assume that the generator is run once on the topic (MaxRuns = 1), as  *)
(* in LakeProofs.                                                          *)
(***************************************************************************)
EXTENDS Seam, StreamProofs

(* The lake *)

\* The rows are a prefix of what was delivered, and T is the T of these rows.
LakeInv ==
    /\ rows \subseteq Delivered
    /\ PrefixClosed(rows)
    /\ watermark \in Nat
    /\ watermark = SafeT(rows)

\* Below T every event there is, and will be, is a row.
LEMMA BelowTIsLanded ==
    ASSUME StreamTypeOK, StreamInv, LakeInv, DisorderInv,
           NEW c \in Coordinates, EventTime(c) < watermark
    PROVE  c \in rows
<1> DEFINE p == c[1]
           o == c[2]
<1>1. p \in Partitions /\ o \in 0 .. (Len(log[p]) - 1) /\ c = <<p, o>>
  <2>1. p \in Partitions /\ c = <<p, o>>
        /\ o \in 0 .. ([q \in Partitions |-> Len(log[q])][p] - 1)
    BY PrefixPair DEF Coordinates
  <2> QED BY <2>1
<1>2. /\ log[p] \in Seq(Events) /\ Len(log[p]) \in Nat /\ DOMAIN log[p] = 1 .. Len(log[p])
      /\ \A i \in DOMAIN log[p] : log[p][i].et \in Nat
  <2>1. log[p] \in Seq(Events)
    BY <1>1 DEF StreamTypeOK
  <2>2. \A i \in DOMAIN log[p] : log[p][i] \in Events
    BY <2>1, ElementOfSeq, LenProperties
  <2> QED BY <2>1, <2>2, LenProperties DEF Events
<1>3. o + 1 \in DOMAIN log[p] /\ EventTime(c) = log[p][o + 1].et /\ EventTime(c) \in Nat
  BY <1>1, <1>2 DEF EventTime, EventAt
<1>4. watermark \in Nat /\ watermark # 0
  <2>1. rows \in SUBSET Delivered /\ watermark = SafeT(rows)
    BY DEF LakeInv
  <2>2. watermark \in Nat
    BY <2>1, SafeTIsBacked
  <2> QED BY <1>3, <2>2
<1>5. PICK d \in rows : d[1] = p /\ watermark + W <= EventTime(d)
  BY <1>1, <1>4, SafeTIsBacked DEF LakeInv
<1>6. /\ d = <<p, d[2]>> /\ d[2] \in Nat /\ d[2] \in 0 .. (hw[p] - 1)
      /\ EventTime(d) \in Nat
  BY <1>5, DeliveredEvent DEF LakeInv
<1>7. d[2] + 1 \in DOMAIN log[p] /\ EventTime(d) = log[p][d[2] + 1].et
  <2>1. hw[p] \in Nat /\ hw[p] <= Len(log[p])
    BY <1>1 DEF StreamTypeOK
  <2> QED BY <1>2, <1>5, <1>6, <2>1 DEF EventTime, EventAt
<1>8. ~ (d[2] + 1 < o + 1)
  <2> SUFFICES ASSUME d[2] + 1 < o + 1 PROVE FALSE
    OBVIOUS
  <2>1. log[p][d[2] + 1].et - W < log[p][o + 1].et
    BY <1>1, <1>3, <1>7 DEF DisorderInv, BoundedDisorder
  <2>2. W \in Nat
    BY LatenessAssumption
  <2> QED BY <1>3, <1>4, <1>5, <1>6, <1>7, <2>1, <2>2
<1>9. o = d[2] \/ o \in 0 .. (d[2] - 1)
  BY <1>1, <1>6, <1>8
<1> QED BY <1>1, <1>5, <1>6, <1>9 DEF LakeInv, PrefixClosed

LEMMA LandStep ==
    ASSUME StreamTypeOK, StreamInv, LakeInv, Land
    PROVE  LakeInv' /\ rows \subseteq rows' /\ watermark <= watermark'
<1>1. PICK new \in SUBSET (Delivered \ rows) :
          PrefixClosed(rows \cup new) /\ rows' = rows \cup new
  BY DEF Land
<1>2. watermark' = SafeT(rows')
  BY DEF Land
<1>3. UNCHANGED streamVars
  BY DEF Land
<1>4. Delivered' = Delivered /\ \A c : EventTime(c)' = EventTime(c)
  BY <1>3 DEF streamVars, Delivered, Prefix, EventTime, EventAt
<1>5. rows' \subseteq Delivered /\ rows \subseteq rows'
  BY <1>1 DEF LakeInv
<1>6. watermark' = SafeT(rows)'
  <2>1. \A p : {EventTime(c)' : c \in {d \in rows' : d[1] = p}}
                 = {EventTime(c) : c \in {d \in rows' : d[1] = p}}
    BY <1>4
  <2>2. \A p : LargestIn(rows, p)' = LargestIn(rows', p)
    BY <2>1 DEF LargestIn
  <2>3. SeenIn(rows)' = SeenIn(rows')
    BY DEF SeenIn
  <2>4. SafeT(rows)' = SafeT(rows')
    BY <2>2, <2>3 DEF SafeT
  <2> QED BY <1>2, <2>4
<1>7. SafeT(rows) <= SafeT(rows') /\ SafeT(rows') \in Nat
  <2> DEFINE s == rows'
  <2>1. s \in SUBSET Delivered /\ rows \in SUBSET s
    BY <1>5
  <2> HIDE DEF s
  <2>2. SafeT(rows) <= SafeT(s) /\ SafeT(s) \in Nat
    BY <2>1, SafeTMonotone, SafeTIsBacked
  <2> QED BY <2>2 DEF s
<1>8. PrefixClosed(rows)'
  BY <1>1 DEF PrefixClosed
<1>9. watermark' \in Nat
  BY <1>2, <1>7
<1> QED BY <1>2, <1>4, <1>5, <1>6, <1>7, <1>8, <1>9 DEF LakeInv
------------------------------------------------------------------------------
(* ClickHouse *)

Pairs == Partitions \X Nat

\* A row of each offset for every time its block was read: once, and once more
\* for every restart that went back behind it.  What was read of a partition is
\* a prefix of it that reaches at least to the position.
ChInv ==
    /\ RealtimeTypeOK
    /\ \A c \in Pairs :
        /\ Copies(chCopies, c) <= chRestarts + (IF c[2] < chPos[c[1]] THEN 1 ELSE 0)
        /\ Copies(chCopies, c) > 0 => c \in Delivered
        /\ c[2] < chPos[c[1]] => Copies(chCopies, c) > 0
        /\ Copies(chCopies, c) > 0 =>
             \A o \in 0 .. (c[2] - 1) : Copies(chCopies, <<c[1], o>>) > 0

LEMMA CopiesType ==
    ASSUME NEW copies \in [Partitions -> Seq(Nat)], NEW c \in Pairs
    PROVE  Copies(copies, c) \in Nat
<1>1. c[1] \in Partitions /\ c[2] \in Nat /\ copies[c[1]] \in Seq(Nat)
  BY DEF Pairs
<1>2. CASE c[2] < Len(copies[c[1]])
  <2>1. c[2] + 1 \in 1 .. Len(copies[c[1]])
    BY <1>1, <1>2, LenProperties
  <2>2. copies[c[1]][c[2] + 1] \in Nat
    BY <1>1, <2>1, ElementOfSeq
  <2> QED BY <1>2, <2>2 DEF Copies
<1>3. CASE ~ (c[2] < Len(copies[c[1]]))
  BY <1>3 DEF Copies
<1> QED BY <1>2, <1>3

LEMMA InsertedRange ==
    ASSUME NEW s \in Seq(Nat), NEW from \in Nat, NEW to \in Nat, NEW o \in Nat
    PROVE  LET f == InsertRange(s, from, to)
           IN  /\ f \in Seq(Nat)
               /\ (IF o < Len(f) THEN f[o + 1] ELSE 0)
                    = (IF o < Len(s) THEN s[o + 1] ELSE 0)
                      + (IF from <= o /\ o < to THEN 1 ELSE 0)
<1> DEFINE f == InsertRange(s, from, to)
           n == Max({Len(s), to})
<1>1. Len(s) \in Nat /\ \A i \in 1 .. Len(s) : s[i] \in Nat
  BY LenProperties, ElementOfSeq
<1>2. n \in {Len(s), to} /\ Len(s) <= n /\ to <= n
  <2> DEFINE len == Len(s)
  <2>1. len \in Int /\ to \in Int
    BY <1>1
  <2> HIDE DEF len
  <2>2. Max({len, to}) \in {len, to} /\ len <= Max({len, to}) /\ to <= Max({len, to})
    BY <2>1, MaxOfTwo
  <2> QED BY <2>2 DEF len
<1> HIDE DEF n
<1>3. f = [i \in 1 .. n |-> (IF i <= Len(s) THEN s[i] ELSE 0)
                            + (IF from < i /\ i <= to THEN 1 ELSE 0)]
  BY DEF InsertRange, n
<1>4. n \in Nat
  BY <1>1, <1>2
<1>5. ASSUME NEW i \in 1 .. n
      PROVE  (IF i <= Len(s) THEN s[i] ELSE 0)
             + (IF from < i /\ i <= to THEN 1 ELSE 0) \in Nat
  <2>1. i <= Len(s) => i \in 1 .. Len(s)
    BY <1>1, <1>4
  <2>2. (IF i <= Len(s) THEN s[i] ELSE 0) \in Nat
    BY <1>1, <2>1
  <2> QED BY <2>2
<1>6. f \in [1 .. n -> Nat]
  BY <1>3, <1>5
<1>7. f \in Seq(Nat) /\ Len(f) = n
  BY <1>4, <1>6, SeqDef, LenProperties
<1>8. CASE o < n
  <2>1. o + 1 \in 1 .. n
    BY <1>4, <1>8
  <2>2. f[o + 1] = (IF o + 1 <= Len(s) THEN s[o + 1] ELSE 0)
                   + (IF from < o + 1 /\ o + 1 <= to THEN 1 ELSE 0)
    BY <1>3, <2>1
  <2>3. (o + 1 <= Len(s) <=> o < Len(s)) /\ (from < o + 1 <=> from <= o)
        /\ (o + 1 <= to <=> o < to)
    BY <1>1
  <2> QED BY <1>7, <1>8, <2>2, <2>3
<1>9. CASE ~ (o < n)
  BY <1>1, <1>2, <1>4, <1>7, <1>9
<1> QED BY <1>7, <1>8, <1>9

\* What ClickHouse's steps do to the rows of one event.
LEMMA ChStep ==
    ASSUME StreamTypeOK, ChInv, ChNext, UNCHANGED streamVars
    PROVE  /\ ChInv'
           /\ \A c \in Pairs : Copies(chCopies, c) <= Copies(chCopies', c)
           /\ chRestarts <= chRestarts'
<1>1. /\ hw' = hw /\ hw \in [Partitions -> Nat] /\ Delivered' = Delivered
      /\ chCopies \in [Partitions -> Seq(Nat)]
      /\ chPos \in [Partitions -> Nat] /\ chGroup \in [Partitions -> Nat]
      /\ \A p \in Partitions : chGroup[p] <= chPos[p] /\ chPos[p] <= hw[p]
      /\ chRestarts \in Nat /\ chRestarts <= MaxChRestarts /\ MaxChRestarts \in Nat
  BY RestartsAssumption DEF ChInv, RealtimeTypeOK, StreamTypeOK, streamVars, Delivered, Prefix
<1>2. ASSUME NEW c \in Pairs
      PROVE  /\ c[1] \in Partitions /\ c[2] \in Nat /\ c = <<c[1], c[2]>>
             /\ Copies(chCopies, c) \in Nat
             /\ Copies(chCopies, c) <= chRestarts + (IF c[2] < chPos[c[1]] THEN 1 ELSE 0)
             /\ Copies(chCopies, c) > 0 => c \in Delivered
             /\ c[2] < chPos[c[1]] => Copies(chCopies, c) > 0
             /\ Copies(chCopies, c) > 0 =>
                  \A o \in 0 .. (c[2] - 1) : Copies(chCopies, <<c[1], o>>) > 0
  <2>1. c[1] \in Partitions /\ c[2] \in Nat /\ c = <<c[1], c[2]>>
    BY DEF Pairs
  <2>2. Copies(chCopies, c) \in Nat
    BY <1>1, CopiesType
  <2> QED BY <2>1, <2>2 DEF ChInv
<1>3. CASE ChInsertBlock
  <2>0. 0 .. NumEvents * MaxRuns \subseteq Int
    BY RunsAssumption
  <2>1. PICK next \in [Partitions -> 0 .. NumEvents * MaxRuns] :
            /\ \A p \in Partitions : chPos[p] <= next[p] /\ next[p] <= hw[p]
            /\ chCopies' = [p \in Partitions |->
                              InsertRange(chCopies[p], chPos[p], next[p])]
            /\ chPos' = next
            /\ UNCHANGED <<chGroup, chRestarts>>
    BY <1>3, Zenon DEF ChInsertBlock
  <2>2. next \in [Partitions -> Nat]
    BY <1>1, <2>0, <2>1
  <2>3. ASSUME NEW p \in Partitions, NEW o \in Nat
        PROVE  /\ InsertRange(chCopies[p], chPos[p], next[p]) \in Seq(Nat)
               /\ Copies(chCopies', <<p, o>>)
                    = Copies(chCopies, <<p, o>>)
                      + (IF chPos[p] <= o /\ o < next[p] THEN 1 ELSE 0)
    <3> DEFINE s == chCopies[p]
               f == InsertRange(s, chPos[p], next[p])
    <3>1. s \in Seq(Nat) /\ chPos[p] \in Nat /\ next[p] \in Nat
      BY <1>1, <2>2
    <3>2. chCopies'[p] = f
      BY <2>1
    <3> HIDE DEF s
    <3>3. /\ f \in Seq(Nat)
          /\ (IF o < Len(f) THEN f[o + 1] ELSE 0)
                = (IF o < Len(s) THEN s[o + 1] ELSE 0)
                  + (IF chPos[p] <= o /\ o < next[p] THEN 1 ELSE 0)
      BY <3>1, InsertedRange
    <3> HIDE DEF f
    <3>4. /\ Copies(chCopies', <<p, o>>) = (IF o < Len(f) THEN f[o + 1] ELSE 0)
          /\ Copies(chCopies, <<p, o>>) = (IF o < Len(s) THEN s[o + 1] ELSE 0)
      BY <3>2 DEF Copies, s
    <3> QED BY <3>3, <3>4 DEF f, s
  <2>4. chCopies' \in [Partitions -> Seq(Nat)]
    BY <2>1, <2>3
  <2>5. RealtimeTypeOK'
    BY <1>1, <2>1, <2>2, <2>4 DEF RealtimeTypeOK, ChInv
  <2>6. ASSUME NEW c \in Pairs
        PROVE  /\ Copies(chCopies', c)
                    <= chRestarts' + (IF c[2] < chPos'[c[1]] THEN 1 ELSE 0)
               /\ Copies(chCopies', c) > 0 => c \in Delivered
               /\ c[2] < chPos'[c[1]] => Copies(chCopies', c) > 0
               /\ Copies(chCopies, c) <= Copies(chCopies', c)
    <3> DEFINE p == c[1]
               o == c[2]
               k == Copies(chCopies, c)
    <3>1. /\ p \in Partitions /\ o \in Nat /\ c = <<p, o>> /\ k \in Nat
          /\ k <= chRestarts + (IF o < chPos[p] THEN 1 ELSE 0)
          /\ k > 0 => c \in Delivered
          /\ o < chPos[p] => k > 0
      BY <1>2
    <3>2. Copies(chCopies', c) = k + (IF chPos[p] <= o /\ o < next[p] THEN 1 ELSE 0)
      BY <2>3, <3>1
    <3>3. /\ chPos[p] \in Nat /\ next[p] \in Nat /\ hw[p] \in Nat
          /\ chPos[p] <= next[p] /\ next[p] <= hw[p]
          /\ chPos'[p] = next[p] /\ chRestarts' = chRestarts
      BY <1>1, <2>1, <2>2, <3>1
    <3>4. o < next[p] => c \in Delivered
      <4>1. o < next[p] => o \in 0 .. (hw[p] - 1)
        BY <3>1, <3>3
      <4> QED BY <3>1, <4>1, InPrefix DEF Delivered
    <3> HIDE DEF k, p, o
    <3>5. k <= k + (IF chPos[p] <= o /\ o < next[p] THEN 1 ELSE 0)
      BY <3>1
    <3>6. k + (IF chPos[p] <= o /\ o < next[p] THEN 1 ELSE 0)
            <= chRestarts + (IF o < next[p] THEN 1 ELSE 0)
      BY <1>1, <3>1, <3>3
    <3>7. Copies(chCopies', c) > 0 => c \in Delivered
      BY <3>1, <3>2, <3>4
    <3>8. o < next[p] => k + (IF chPos[p] <= o /\ o < next[p] THEN 1 ELSE 0) > 0
      BY <3>1, <3>3
    <3> QED BY <3>2, <3>3, <3>5, <3>6, <3>7, <3>8 DEF k, p, o
  <2>7. ASSUME NEW c \in Pairs, Copies(chCopies', c) > 0, NEW o \in 0 .. (c[2] - 1)
        PROVE  Copies(chCopies', <<c[1], o>>) > 0
    <3> DEFINE p == c[1]
               d == <<p, o>>
    <3>1. /\ p \in Partitions /\ c[2] \in Nat /\ c = <<p, c[2]>> /\ o \in Nat /\ o < c[2]
          /\ d \in Pairs /\ d[1] = p /\ d[2] = o
      BY <1>2 DEF Pairs
    <3>2. /\ Copies(chCopies, c) \in Nat /\ Copies(chCopies, d) \in Nat
          /\ o < chPos[p] => Copies(chCopies, d) > 0
          /\ Copies(chCopies, c) > 0 => Copies(chCopies, d) > 0
      BY <1>2, <3>1
    <3>3. /\ Copies(chCopies', c) = Copies(chCopies, c)
                + (IF chPos[p] <= c[2] /\ c[2] < next[p] THEN 1 ELSE 0)
          /\ Copies(chCopies', d) = Copies(chCopies, d)
                + (IF chPos[p] <= o /\ o < next[p] THEN 1 ELSE 0)
      BY <2>3, <3>1
    <3>4. chPos[p] \in Nat /\ next[p] \in Nat
      BY <1>1, <2>2, <3>1
    <3> HIDE DEF d, p
    <3>5. Copies(chCopies', d) > 0
      BY <2>7, <3>1, <3>2, <3>3, <3>4
    <3> QED BY <3>5 DEF d, p
  <2> QED BY <1>1, <2>1, <2>5, <2>6, <2>7 DEF ChInv
<1>4. CASE ChCommitOffsets
  <2>1. /\ chGroup' = chPos /\ chPos' = chPos /\ chCopies' = chCopies
        /\ chRestarts' = chRestarts
    BY <1>4 DEF ChCommitOffsets
  <2>2. RealtimeTypeOK'
    BY <1>1, <2>1 DEF RealtimeTypeOK, ChInv
  <2> QED BY <1>1, <1>2, <2>1, <2>2 DEF ChInv
<1>5. CASE ChRestart
  <2>1. /\ chPos' = chGroup /\ chGroup' = chGroup /\ chCopies' = chCopies
        /\ chRestarts' = chRestarts + 1 /\ chRestarts < MaxChRestarts
    BY <1>5 DEF ChRestart
  <2>2. RealtimeTypeOK'
    BY <1>1, <2>1 DEF RealtimeTypeOK, ChInv
  <2>3. ASSUME NEW c \in Pairs
        PROVE  /\ Copies(chCopies, c)
                    <= chRestarts' + (IF c[2] < chPos'[c[1]] THEN 1 ELSE 0)
               /\ c[2] < chPos'[c[1]] => Copies(chCopies, c) > 0
    BY <1>1, <1>2, <2>1
  <2> QED BY <1>1, <1>2, <2>1, <2>2, <2>3 DEF ChInv
<1> QED BY <1>3, <1>4, <1>5 DEF ChNext

\* ClickHouse's side of an answer: the rows at or above x, each as often as the
\* table holds it.
LEMMA SeamSideCopies ==
    ASSUME StreamTypeOK, ChInv, NEW x \in Nat
    PROVE  /\ SeamSide(x) \in [Partitions -> Seq(Nat)]
           /\ \A c \in Pairs :
                Copies(SeamSide(x), c)
                  = IF EventTime(c) >= x THEN Copies(chCopies, c) ELSE 0
<1>1. chCopies \in [Partitions -> Seq(Nat)]
  BY DEF ChInv, RealtimeTypeOK
<1>2. ASSUME NEW p \in Partitions
      PROVE  /\ SeamSide(x)[p] \in Seq(Nat)
             /\ Len(SeamSide(x)[p]) = Len(chCopies[p])
             /\ \A i \in 1 .. Len(chCopies[p]) :
                  SeamSide(x)[p][i] = IF log[p][i].et >= x THEN chCopies[p][i] ELSE 0
  <2> DEFINE s == chCopies[p]
             f == [i \in DOMAIN s |-> IF log[p][i].et >= x THEN s[i] ELSE 0]
  <2>1. s \in Seq(Nat) /\ Len(s) \in Nat /\ DOMAIN s = 1 .. Len(s)
        /\ \A i \in 1 .. Len(s) : s[i] \in Nat
    BY <1>1, LenProperties, ElementOfSeq
  <2>2. SeamSide(x)[p] = f
    BY DEF SeamSide
  <2> HIDE DEF s
  <2>3. f \in [1 .. Len(s) -> Nat]
    BY <2>1
  <2>4. f \in Seq(Nat) /\ Len(f) = Len(s)
    <3> HIDE DEF f
    <3> QED BY <2>1, <2>3, SeqDef, LenProperties
  <2>5. \A i \in 1 .. Len(s) : f[i] = IF log[p][i].et >= x THEN s[i] ELSE 0
    BY <2>1
  <2> QED BY <2>2, <2>4, <2>5 DEF s
<1>3. SeamSide(x) \in [Partitions -> Seq(Nat)]
  <2>1. SeamSide(x) = [p \in Partitions |-> SeamSide(x)[p]]
    BY DEF SeamSide
  <2> QED BY <1>2, <2>1
<1>4. ASSUME NEW c \in Pairs
      PROVE  Copies(SeamSide(x), c)
               = IF EventTime(c) >= x THEN Copies(chCopies, c) ELSE 0
  <2> DEFINE p == c[1]
             o == c[2]
  <2>1. p \in Partitions /\ o \in Nat
    BY DEF Pairs
  <2>2. EventTime(c) = log[p][o + 1].et
    BY DEF EventTime, EventAt
  <2>3. Len(chCopies[p]) \in Nat
    BY <1>1, <2>1, LenProperties
  <2>4. CASE o < Len(chCopies[p])
    <3>1. o + 1 \in 1 .. Len(chCopies[p])
      BY <2>1, <2>3, <2>4
    <3> QED BY <1>2, <2>1, <2>2, <2>4, <3>1 DEF Copies
  <2>5. CASE ~ (o < Len(chCopies[p]))
    BY <1>2, <2>1, <2>5 DEF Copies
  <2> QED BY <2>4, <2>5
<1> QED BY <1>3, <1>4
------------------------------------------------------------------------------
(* The two systems, whatever the query does *)

WorldInv == StreamTypeOK /\ StreamInv /\ LakeInv /\ ChInv

WorldStep ==
    \/ LakeNext /\ UNCHANGED chVars
    \/ ChNext /\ UNCHANGED <<streamVars, rows, watermark>>
    \/ UNCHANGED <<streamVars, rows, watermark, chVars>>

\* Nothing is taken back: rows, T, deliveries, event times, ClickHouse's rows.
Grows ==
    /\ rows \subseteq rows'
    /\ watermark <= watermark'
    /\ \A c \in Delivered : c \in Delivered' /\ EventTime(c)' = EventTime(c)
    /\ \A c \in Pairs : Copies(chCopies, c) <= Copies(chCopies', c)
    /\ chRestarts <= chRestarts'

LEMMA WorldTypes ==
    ASSUME WorldInv
    PROVE  /\ watermark \in Nat
           /\ rows \subseteq Delivered
           /\ chRestarts \in Nat
           /\ \A c \in Pairs : Copies(chCopies, c) \in Nat
<1>1. rows \in SUBSET Delivered /\ watermark = SafeT(rows) /\ StreamTypeOK /\ StreamInv
  BY DEF WorldInv, LakeInv
<1>2. watermark \in Nat
  BY <1>1, SafeTIsBacked
<1>3. chCopies \in [Partitions -> Seq(Nat)] /\ chRestarts \in Nat
  BY RestartsAssumption DEF WorldInv, ChInv, RealtimeTypeOK
<1> QED BY <1>1, <1>2, <1>3, CopiesType

LEMMA StreamKeepsClickHouse ==
    ASSUME StreamTypeOK, StreamInv, ChInv, StreamNext, UNCHANGED chVars
    PROVE  ChInv'
<1>1. /\ hw \in [Partitions -> Nat] /\ hw' \in [Partitions -> Nat]
      /\ \A p \in Partitions : hw[p] <= hw'[p]
  BY StreamStep DEF StreamTypeOK
<1>2. UNCHANGED <<chCopies, chPos, chGroup, chRestarts>>
  BY DEF chVars
<1>3. ASSUME NEW p \in Partitions PROVE chGroup'[p] <= chPos'[p] /\ chPos'[p] <= hw'[p]
  BY <1>1, <1>2 DEF ChInv, RealtimeTypeOK
<1>4. RealtimeTypeOK'
  BY <1>2, <1>3 DEF ChInv, RealtimeTypeOK
<1>5. \A c \in Delivered : c \in Delivered'
  BY StreamKeepsRows
<1> QED BY <1>2, <1>4, <1>5 DEF ChInv

LEMMA WorldGrows ==
    ASSUME WorldInv, WorldStep
    PROVE  WorldInv' /\ Grows
<1>1. /\ StreamTypeOK /\ StreamInv /\ LakeInv /\ ChInv
      /\ watermark \in Nat /\ chRestarts \in Nat
      /\ \A c \in Pairs : Copies(chCopies, c) \in Nat
  BY WorldTypes DEF WorldInv
<1>2. CASE StreamNext /\ UNCHANGED <<rows, watermark>> /\ UNCHANGED chVars
  <2>1. StreamTypeOK' /\ StreamInv'
    BY <1>1, <1>2, StreamStep
  <2>2. rows \in SUBSET Delivered
    BY <1>1 DEF LakeInv
  <2>3. /\ rows \subseteq Delivered'
        /\ \A c \in Delivered : c \in Delivered' /\ EventTime(c)' = EventTime(c)
        /\ SafeT(rows)' = SafeT(rows)
    BY <1>1, <1>2, <2>2, StreamKeepsRows
  <2>4. LakeInv'
    BY <1>1, <1>2, <2>3 DEF LakeInv, PrefixClosed
  <2>5. ChInv'
    BY <1>1, <1>2, StreamKeepsClickHouse
  <2>6. chCopies' = chCopies /\ chRestarts' = chRestarts
    BY <1>2 DEF chVars
  <2> QED BY <1>1, <1>2, <2>1, <2>3, <2>4, <2>5, <2>6 DEF WorldInv, Grows
<1>3. ASSUME UNCHANGED streamVars
      PROVE  /\ StreamTypeOK' /\ StreamInv' /\ Delivered' = Delivered /\ hw' = hw
             /\ \A c : EventTime(c)' = EventTime(c)
  BY <1>1, <1>3 DEF streamVars, StreamTypeOK, StreamInv, Delivered, Prefix, EventTime, EventAt
<1>4. CASE Land /\ UNCHANGED chVars
  <2>1. LakeInv' /\ rows \subseteq rows' /\ watermark <= watermark' /\ UNCHANGED streamVars
    BY <1>1, <1>4, LandStep DEF Land
  <2>2. UNCHANGED <<chCopies, chPos, chGroup, chRestarts>>
    BY <1>4 DEF chVars
  <2>3. ChInv'
    BY <1>1, <1>3, <2>1, <2>2 DEF ChInv, RealtimeTypeOK
  <2> QED BY <1>1, <1>3, <2>1, <2>2, <2>3 DEF WorldInv, Grows
<1>5. ASSUME UNCHANGED <<streamVars, rows, watermark>> PROVE LakeInv'
  <2>1. \A p : {EventTime(c)' : c \in {d \in rows' : d[1] = p}}
                 = {EventTime(c) : c \in {d \in rows : d[1] = p}}
    BY <1>3, <1>5
  <2>2. \A p : LargestIn(rows, p)' = LargestIn(rows, p)
    BY <2>1 DEF LargestIn
  <2>3. SafeT(rows)' = SafeT(rows)
    BY <1>5, <2>2 DEF SafeT, SeenIn
  <2> QED BY <1>1, <1>3, <1>5, <2>3 DEF LakeInv, PrefixClosed
<1>6. CASE ChNext /\ UNCHANGED <<streamVars, rows, watermark>>
  <2>1. /\ ChInv' /\ chRestarts <= chRestarts'
        /\ \A c \in Pairs : Copies(chCopies, c) <= Copies(chCopies', c)
    BY <1>1, <1>6, ChStep
  <2> QED BY <1>1, <1>3, <1>5, <1>6, <2>1 DEF WorldInv, Grows
<1>7. CASE UNCHANGED <<streamVars, rows, watermark, chVars>>
  <2>1. UNCHANGED <<chCopies, chPos, chGroup, chRestarts>>
    BY <1>7 DEF chVars
  <2>2. ChInv'
    BY <1>1, <1>3, <1>7, <2>1 DEF ChInv, RealtimeTypeOK
  <2> QED BY <1>1, <1>3, <1>5, <1>7, <2>1, <2>2 DEF WorldInv, Grows
<1> QED BY <1>2, <1>4, <1>6, <1>7 DEF WorldStep, LakeNext

\* A row that is new to the table is at or above the T before it.
LEMMA NewRowsAreAboveT ==
    ASSUME WorldInv, DisorderInv, WorldStep,
           NEW c \in rows', c \notin rows
    PROVE  c \in Delivered /\ watermark <= EventTime(c)
<1>1. Land
  BY DEF WorldStep, LakeNext
<1>2. c \in Delivered
  BY <1>1 DEF Land
<1>3. StreamTypeOK /\ StreamInv /\ LakeInv
  BY DEF WorldInv
<1>4. c \in Coordinates /\ EventTime(c) \in Nat
  BY <1>2, <1>3, DeliveredEvent
<1>5. ~ (EventTime(c) < watermark)
  BY <1>3, <1>4, BelowTIsLanded
<1>6. watermark \in Nat
  BY WorldTypes
<1> QED BY <1>2, <1>4, <1>5, <1>6
------------------------------------------------------------------------------
(* The query *)

Answer == [t : Nat, lake : SUBSET Pairs, ch : [Partitions -> Seq(Nat)],
           atStart : SUBSET Pairs]

QueryInv ==
    /\ step \in {"t", "lake", "ch"}
    /\ t \in Nat
    /\ lakeSide \subseteq rows
    /\ atStart \subseteq InClickHouse
    /\ answers \in Seq(Answer)
    /\ Len(answers) <= MaxQueries
    /\ step # "t" => Len(answers) < MaxQueries

SeamInv == WorldInv /\ QueryInv

LEMMA DeliveredPairs == ASSUME WorldInv PROVE Delivered \subseteq Pairs
BY DeliveredEvent DEF WorldInv, Pairs

LEMMA InClickHouseGrows ==
    ASSUME WorldInv, WorldInv', Grows
    PROVE  InClickHouse \subseteq InClickHouse'
<1> SUFFICES ASSUME NEW c \in InClickHouse PROVE c \in InClickHouse'
  OBVIOUS
<1>1. c \in Delivered /\ c \in Pairs /\ Copies(chCopies, c) > 0
  BY DeliveredPairs DEF InClickHouse
<1>2. c \in Delivered' /\ Copies(chCopies, c) <= Copies(chCopies', c)
  BY <1>1 DEF Grows
<1>3. Copies(chCopies, c) \in Nat /\ Copies(chCopies', c) \in Nat
  <2>1. chCopies \in [Partitions -> Seq(Nat)] /\ chCopies' \in [Partitions -> Seq(Nat)]
    BY DEF WorldInv, ChInv, RealtimeTypeOK
  <2> QED BY <1>1, <2>1, CopiesType
<1> QED BY <1>1, <1>2, <1>3 DEF InClickHouse

LEMMA InitSeam == SeamInit => SeamInv
<1> SUFFICES ASSUME SeamInit PROVE SeamInv
  OBVIOUS
<1> USE DEF SeamInit, StreamInit, LakeInit, CreatePipeline
<1>1. /\ \A p \in Partitions : log[p] = <<>> /\ hw[p] = 0
      /\ <<>> \in Seq(Events) /\ Len(<<>>) = 0 /\ DOMAIN <<>> = {}
  BY EmptySeq
<1>2. StreamTypeOK /\ StreamInv
  BY <1>1, RunsAssumption DEF StreamTypeOK, StreamInv
<1>3. LakeInv
  <2>1. SeenIn({}) = {}
    BY DEF SeenIn
  <2>2. SafeT({}) = 0
    BY <2>1, PartitionsAssumption DEF SafeT
  <2> QED BY <2>2 DEF LakeInv, PrefixClosed
<1>4. ChInv
  <2>1. <<>> \in Seq(Nat) /\ 0 \in 0 .. MaxChRestarts
    BY EmptySeq, RestartsAssumption
  <2>2. RealtimeTypeOK
    BY <1>1, <2>1 DEF RealtimeTypeOK
  <2>3. ASSUME NEW c \in Pairs PROVE Copies(chCopies, c) = 0
    <3>1. c[1] \in Partitions /\ c[2] \in Nat
      BY DEF Pairs
    <3>2. chCopies[c[1]] = <<>>
      BY <3>1
    <3> QED BY <1>1, <3>1, <3>2 DEF Copies
  <2> QED BY <2>2, <2>3 DEF ChInv, Pairs
<1>5. QueryInv
  <2>1. answers = <<>> /\ <<>> \in Seq(Answer) /\ Len(<<>>) = 0
    BY EmptySeq
  <2> QED BY <2>1, QueriesAssumption DEF QueryInv
<1> QED BY <1>2, <1>3, <1>4, <1>5 DEF SeamInv, WorldInv

LEMMA NextIsAWorldStep ==
    ASSUME [SeamNext]_seamVars
    PROVE  /\ WorldStep
           /\ \/ UNCHANGED queryVars
              \/ QueryNext /\ UNCHANGED <<streamVars, rows, watermark, chVars>>
BY DEF SeamNext, WorldStep, seamVars, LakeNext

\* An answer is appended with what its query has read.
LEMMA AppendedAnswer ==
    ASSUME SeamInv, ChSide
    PROVE  LET a == [t |-> t, lake |-> lakeSide, ch |-> SeamSide(t), atStart |-> atStart]
           IN  /\ a \in Answer
               /\ answers' = Append(answers, a)
               /\ answers' \in Seq(Answer)
               /\ Len(answers) \in Nat /\ Len(answers') = Len(answers) + 1
               /\ \A n \in 1 .. Len(answers) : answers'[n] = answers[n]
               /\ answers'[Len(answers) + 1] = a
<1> DEFINE a == [t |-> t, lake |-> lakeSide, ch |-> SeamSide(t), atStart |-> atStart]
<1>1. /\ t \in Nat /\ lakeSide \subseteq Pairs /\ atStart \subseteq Pairs
      /\ answers \in Seq(Answer)
  BY DeliveredPairs, WorldTypes DEF SeamInv, QueryInv, InClickHouse
<1>2. SeamSide(t) \in [Partitions -> Seq(Nat)]
  BY <1>1, SeamSideCopies DEF SeamInv, WorldInv
<1>3. a \in Answer
  BY <1>1, <1>2 DEF Answer
<1>4. answers' = Append(answers, a)
  BY DEF ChSide
<1> HIDE DEF a
<1> QED BY <1>1, <1>3, <1>4, AppendProperties, LenProperties DEF a

LEMMA NextKeepsSeam == SeamInv /\ [SeamNext]_seamVars => SeamInv'
<1> SUFFICES ASSUME SeamInv, [SeamNext]_seamVars PROVE SeamInv'
  OBVIOUS
<1>1. WorldInv' /\ Grows /\ WorldInv /\ QueryInv
  BY NextIsAWorldStep, WorldGrows DEF SeamInv
<1>2. rows \subseteq rows' /\ InClickHouse \subseteq InClickHouse'
  BY <1>1, InClickHouseGrows DEF Grows
<1>3. watermark \in Nat /\ Len(answers) \in Nat
  BY <1>1, WorldTypes, LenProperties DEF QueryInv
<1>4. CASE UNCHANGED queryVars
  <2>1. QueryInv'
    BY <1>1, <1>2, <1>4 DEF QueryInv, queryVars
  <2> QED BY <1>1, <2>1 DEF SeamInv
<1>5. CASE QueryNext /\ UNCHANGED <<streamVars, rows, watermark, chVars>>
  <2>1. rows' = rows /\ InClickHouse' = InClickHouse
    BY <1>5 DEF InClickHouse, chVars, streamVars, Delivered, Prefix
  <2>2. CASE ReadWatermarkT
    BY <1>1, <1>3, <2>1, <2>2 DEF ReadWatermarkT, QueryInv, SeamInv
  <2>3. CASE LakeSide
    BY <1>1, <1>3, <2>1, <2>3 DEF LakeSide, QueryInv, SeamInv
  <2>4. CASE ChSide
    <3>1. /\ answers' \in Seq(Answer) /\ Len(answers') = Len(answers) + 1
      BY <2>4, AppendedAnswer
    <3>2. step = "ch" /\ step' = "t" /\ t' = 0 /\ lakeSide' = {} /\ atStart' = {}
      BY <2>4 DEF ChSide
    <3>3. Len(answers') <= MaxQueries
      BY <1>1, <1>3, <3>1, <3>2, QueriesAssumption DEF QueryInv
    <3>4. QueryInv'
      BY <3>1, <3>2, <3>3 DEF QueryInv
    <3> QED BY <1>1, <3>4 DEF SeamInv
  <2> QED BY <1>5, <2>2, <2>3, <2>4 DEF QueryNext
<1> QED BY <1>4, <1>5, NextIsAWorldStep
------------------------------------------------------------------------------
(* The answers *)

RowsBelow(x) == {c \in rows : EventTime(c) < x}

\* What an answer holds, for as long as the systems go on: the rows below its T,
\* which no later row joins; of ClickHouse's rows those at or above its T, a
\* prefix of each partition but for what is below T, with the ones of every event
\* that ClickHouse had when the query began.
AnswerInv(a) ==
    /\ a.t <= watermark
    /\ a.lake = RowsBelow(a.t)
    /\ \A c \in Pairs :
        /\ Copies(a.ch, c) <= Copies(chCopies, c)
        /\ Copies(a.ch, c) > 0 => EventTime(c) >= a.t
        /\ Copies(a.ch, c) > 0 =>
             \A o \in 0 .. (c[2] - 1) :
                EventTime(<<c[1], o>>) >= a.t => Copies(a.ch, <<c[1], o>>) > 0
    /\ \A c \in a.atStart :
        c \in Delivered /\ (EventTime(c) >= a.t => Copies(a.ch, c) > 0)

\* A query that begins with the events of S in ClickHouse follows answer a.
Follows(S, x, a) ==
    a.t <= x /\ \A c \in Pairs : Copies(a.ch, c) > 0 => c \in S

AnswersInv ==
    /\ step # "t" =>
        /\ t <= watermark
        /\ \A n \in 1 .. Len(answers) : Follows(atStart, t, answers[n])
    /\ step = "ch" => lakeSide = RowsBelow(t)
    /\ \A n \in 1 .. Len(answers) : AnswerInv(answers[n])
    /\ \A m, n \in 1 .. Len(answers) :
        m < n => Follows(answers[n].atStart, answers[n].t, answers[m])

SeamSafe == SeamInv /\ DisorderInv /\ AnswersInv

LEMMA AnswerTypes ==
    ASSUME SeamInv
    PROVE  /\ Len(answers) \in Nat /\ DOMAIN answers = 1 .. Len(answers)
           /\ \A n \in 1 .. Len(answers) :
                /\ answers[n] \in Answer
                /\ answers[n].t \in Nat
                /\ \A c \in Pairs : Copies(answers[n].ch, c) \in Nat
<1>1. answers \in Seq(Answer)
  BY DEF SeamInv, QueryInv
<1>2. \A n \in 1 .. Len(answers) : answers[n] \in Answer
  BY <1>1, ElementOfSeq
<1> QED BY <1>1, <1>2, LenProperties, CopiesType DEF Answer

\* No row joins those below an x that T has reached.
LEMMA RowsBelowKept ==
    ASSUME WorldInv, DisorderInv, WorldStep, NEW x \in Nat, x <= watermark
    PROVE  RowsBelow(x)' = RowsBelow(x)
<1>1. rows \subseteq rows' /\ \A c \in Delivered : EventTime(c)' = EventTime(c)
  BY WorldGrows DEF Grows
<1>2. watermark \in Nat /\ rows \subseteq Delivered
  BY WorldTypes
<1>3. ASSUME NEW c \in rows', c \notin rows PROVE ~ (EventTime(c)' < x)
  <2>1. c \in Delivered /\ watermark <= EventTime(c)
    BY <1>3, NewRowsAreAboveT
  <2>2. EventTime(c) \in Nat /\ EventTime(c)' = EventTime(c)
    BY <1>1, <2>1, DeliveredEvent DEF WorldInv
  <2> QED BY <1>2, <2>1, <2>2
<1> QED BY <1>1, <1>2, <1>3 DEF RowsBelow

LEMMA EarlierDelivered ==
    ASSUME StreamTypeOK, StreamInv, NEW c \in Delivered, NEW o \in 0 .. (c[2] - 1)
    PROVE  <<c[1], o>> \in Delivered
<1>1. /\ c[1] \in Partitions /\ c[2] \in Nat /\ c[2] \in 0 .. (hw[c[1]] - 1)
      /\ hw[c[1]] \in Nat
  BY DeliveredEvent DEF StreamTypeOK
<1>2. o \in 0 .. (hw[c[1]] - 1)
  BY <1>1
<1> QED BY <1>1, <1>2, InPrefix DEF Delivered

LEMMA AnswerKept ==
    ASSUME WorldInv, DisorderInv, WorldStep, NEW a \in Answer, AnswerInv(a)
    PROVE  AnswerInv(a)'
<1>1. /\ WorldInv' /\ watermark <= watermark' /\ watermark \in Nat /\ watermark' \in Nat
      /\ \A c \in Delivered : c \in Delivered' /\ EventTime(c)' = EventTime(c)
      /\ \A c \in Pairs : Copies(chCopies, c) <= Copies(chCopies', c)
      /\ a.t \in Nat
  <2>1. WorldInv' /\ Grows
    BY WorldGrows
  <2>2. watermark \in Nat /\ watermark' \in Nat
    BY <2>1 DEF WorldInv, LakeInv
  <2> QED BY <2>1, <2>2 DEF Grows, Answer
<1>2. RowsBelow(a.t)' = RowsBelow(a.t)
  BY <1>1, RowsBelowKept DEF AnswerInv
<1>3. a.t <= watermark'
  BY <1>1 DEF AnswerInv
<1>4. ASSUME NEW c \in Pairs
      PROVE  /\ Copies(a.ch, c) <= Copies(chCopies', c)
             /\ Copies(a.ch, c) > 0 => EventTime(c)' >= a.t
             /\ Copies(a.ch, c) > 0 =>
                  \A o \in 0 .. (c[2] - 1) :
                     EventTime(<<c[1], o>>)' >= a.t => Copies(a.ch, <<c[1], o>>) > 0
  <2>1. /\ Copies(a.ch, c) \in Nat /\ Copies(chCopies, c) \in Nat
        /\ Copies(chCopies', c) \in Nat
    BY <1>1, CopiesType DEF Answer, WorldInv, ChInv, RealtimeTypeOK
  <2>2. Copies(a.ch, c) <= Copies(chCopies, c)
    BY DEF AnswerInv
  <2>3. Copies(a.ch, c) > 0 => c \in Delivered
    <3>1. Copies(a.ch, c) > 0 => Copies(chCopies, c) > 0
      BY <2>1, <2>2
    <3> QED BY <3>1 DEF WorldInv, ChInv
  <2>4. Copies(a.ch, c) > 0 => EventTime(c)' >= a.t
    BY <1>1, <2>3 DEF AnswerInv
  <2>5. ASSUME Copies(a.ch, c) > 0, NEW o \in 0 .. (c[2] - 1)
        PROVE  EventTime(<<c[1], o>>)' = EventTime(<<c[1], o>>)
    <3>1. c \in Delivered
      BY <2>3, <2>5
    <3>2. <<c[1], o>> \in Delivered
      BY <3>1, EarlierDelivered DEF WorldInv
    <3> QED BY <1>1, <3>2
  <2>6. Copies(a.ch, c) > 0 =>
          \A o \in 0 .. (c[2] - 1) :
             EventTime(<<c[1], o>>)' >= a.t => Copies(a.ch, <<c[1], o>>) > 0
    BY <2>5 DEF AnswerInv
  <2> QED BY <1>1, <2>1, <2>2, <2>4, <2>6
<1>5. \A c \in a.atStart :
        c \in Delivered' /\ (EventTime(c)' >= a.t => Copies(a.ch, c) > 0)
  BY <1>1 DEF AnswerInv
<1> QED BY <1>2, <1>3, <1>4, <1>5 DEF AnswerInv

LEMMA InitSafe == SeamInit => SeamSafe
<1> SUFFICES ASSUME SeamInit PROVE SeamSafe
  OBVIOUS
<1>1. SeamInv
  BY InitSeam
<1>2. DisorderInv
  <2>1. \A p \in Partitions : log[p] = <<>> /\ DOMAIN log[p] = {}
    BY DEF SeamInit, StreamInit
  <2>2. runs >= 1
    BY DEF SeamInit, StreamInit
  <2> QED BY <2>1, <2>2 DEF DisorderInv, BoundedDisorder
<1>3. AnswersInv
  <2>1. step = "t" /\ answers = <<>> /\ Len(answers) = 0 /\ 1 .. 0 = {}
    BY EmptySeq DEF SeamInit
  <2> QED BY <2>1 DEF AnswersInv
<1> QED BY <1>1, <1>2, <1>3 DEF SeamSafe

\* The answer a query gives, from what it read at its three moments.
LEMMA NewAnswer ==
    ASSUME SeamSafe, ChSide, NEW a \in Answer,
           a = [t |-> t, lake |-> lakeSide, ch |-> SeamSide(t), atStart |-> atStart]
    PROVE  AnswerInv(a)
<1>1. /\ a.t = t /\ a.lake = lakeSide /\ a.ch = SeamSide(t) /\ a.atStart = atStart
      /\ t \in Nat /\ t <= watermark /\ lakeSide = RowsBelow(t)
      /\ atStart \subseteq InClickHouse
  BY DEF SeamSafe, SeamInv, QueryInv, AnswersInv, ChSide
<1>2. ASSUME NEW c \in Pairs
      PROVE  /\ Copies(a.ch, c) = IF EventTime(c) >= t THEN Copies(chCopies, c) ELSE 0
             /\ Copies(chCopies, c) \in Nat
  BY <1>1, SeamSideCopies, WorldTypes DEF SeamSafe, SeamInv, WorldInv
<1>3. \A c \in Pairs : /\ Copies(a.ch, c) <= Copies(chCopies, c)
                       /\ Copies(a.ch, c) > 0 => EventTime(c) >= t
  BY <1>2
<1>6. ASSUME NEW c \in Pairs, Copies(a.ch, c) > 0, NEW o \in 0 .. (c[2] - 1),
             EventTime(<<c[1], o>>) >= t
      PROVE  Copies(a.ch, <<c[1], o>>) > 0
  <2>1. Copies(chCopies, c) > 0
    BY <1>2, <1>6
  <2>2. Copies(chCopies, <<c[1], o>>) > 0
    BY <1>6, <2>1 DEF SeamSafe, SeamInv, WorldInv, ChInv
  <2>3. <<c[1], o>> \in Pairs
    BY DEF Pairs
  <2> QED BY <1>2, <1>6, <2>2, <2>3
<1>4. \A c \in atStart : c \in Delivered /\ c \in Pairs /\ Copies(chCopies, c) > 0
  BY <1>1, DeliveredPairs DEF InClickHouse, SeamSafe, SeamInv
<1>5. \A c \in a.atStart : c \in Delivered /\ (EventTime(c) >= a.t => Copies(a.ch, c) > 0)
  BY <1>1, <1>2, <1>4
<1> QED BY <1>1, <1>3, <1>5, <1>6 DEF AnswerInv

LEMMA NextKeepsSafe == ASSUME MaxRuns = 1 PROVE SeamSafe /\ [SeamNext]_seamVars => SeamSafe'
<1> SUFFICES ASSUME SeamSafe, [SeamNext]_seamVars PROVE SeamSafe'
  OBVIOUS
<1>1. /\ SeamInv /\ WorldInv /\ DisorderInv /\ AnswersInv /\ WorldStep
      /\ SeamInv' /\ WorldInv'
  BY NextKeepsSeam, NextIsAWorldStep DEF SeamSafe, SeamInv
<1>2. DisorderInv'
  <2>1. CASE StreamNext
    BY <1>1, <2>1, DisorderKept DEF WorldInv
  <2>2. CASE UNCHANGED streamVars
    BY <1>1, <2>2 DEF DisorderInv, BoundedDisorder, streamVars
  <2> QED BY <1>1, <2>1, <2>2 DEF WorldStep, LakeNext, Land
<1>3. /\ Len(answers) \in Nat /\ t \in Nat /\ watermark \in Nat /\ watermark' \in Nat
      /\ watermark <= watermark'
      /\ \A n \in 1 .. Len(answers) : answers[n] \in Answer /\ answers[n].t \in Nat
  <2>1. watermark \in Nat /\ watermark' \in Nat
    BY <1>1 DEF WorldInv, LakeInv
  <2> QED BY <1>1, <2>1, AnswerTypes, WorldGrows DEF SeamInv, QueryInv, Grows
<1>4. \A n \in 1 .. Len(answers) : AnswerInv(answers[n])
  BY <1>1 DEF AnswersInv
<1>5. ASSUME NEW a \in Answer, AnswerInv(a) PROVE AnswerInv(a)'
  BY <1>1, <1>5, AnswerKept
<1>6. CASE UNCHANGED queryVars
  <2>1. step' = step /\ t' = t /\ lakeSide' = lakeSide /\ atStart' = atStart
        /\ answers' = answers
    BY <1>6 DEF queryVars
  <2>2. ASSUME NEW n \in 1 .. Len(answers) PROVE AnswerInv(answers[n])'
    <3> DEFINE a == answers[n]
    <3>1. a \in Answer /\ AnswerInv(a) /\ answers'[n] = a
      BY <1>3, <1>4, <2>1
    <3> HIDE DEF a
    <3>2. AnswerInv(answers[n])' = AnswerInv(a)'
      BY <3>1 DEF AnswerInv, a
    <3> QED BY <1>5, <3>1, <3>2
  <2>3. step = "ch" => RowsBelow(t)' = RowsBelow(t)
    BY <1>1, <1>3, RowsBelowKept, <2>1 DEF AnswersInv
  <2>4. step # "t" => t <= watermark'
    BY <1>1, <1>3 DEF AnswersInv
  <2>5. AnswersInv'
    BY <1>1, <2>1, <2>2, <2>3, <2>4 DEF AnswersInv, Follows
  <2> QED BY <1>1, <1>2, <2>5 DEF SeamSafe
<1>7. CASE QueryNext /\ UNCHANGED <<streamVars, rows, watermark, chVars>>
  <2>1. /\ watermark' = watermark /\ rows' = rows /\ chCopies' = chCopies
        /\ Delivered' = Delivered
        /\ \A c : EventTime(c)' = EventTime(c)
    BY <1>7 DEF streamVars, chVars, Delivered, Prefix, EventTime, EventAt
  <2>2. \A x : RowsBelow(x)' = RowsBelow(x)
    BY <2>1 DEF RowsBelow
  <2>3. \A a : AnswerInv(a)' = AnswerInv(a)
    BY <2>1, <2>2 DEF AnswerInv
  <2>4. CASE ReadWatermarkT
    <3>1. /\ step' = "lake" /\ t' = watermark /\ atStart' = InClickHouse
          /\ answers' = answers
      BY <2>4 DEF ReadWatermarkT
    <3>2. ASSUME NEW n \in 1 .. Len(answers)
          PROVE  Follows(InClickHouse, watermark, answers[n])
      <4> DEFINE a == answers[n]
      <4>1. a.t <= watermark /\ a \in Answer
        BY <1>3, <1>4 DEF AnswerInv
      <4>2. ASSUME NEW c \in Pairs, Copies(a.ch, c) > 0 PROVE c \in InClickHouse
        <5>1. Copies(a.ch, c) <= Copies(chCopies, c)
          BY <1>4 DEF AnswerInv
        <5>2. Copies(a.ch, c) \in Nat /\ Copies(chCopies, c) \in Nat
          BY <1>1, AnswerTypes, WorldTypes
        <5>3. Copies(chCopies, c) > 0
          BY <4>2, <5>1, <5>2
        <5> QED BY <1>1, <5>3 DEF InClickHouse, WorldInv, ChInv
      <4> QED BY <4>1, <4>2 DEF Follows
    <3>3. AnswersInv'
      BY <1>1, <1>3, <1>4, <2>1, <2>3, <3>1, <3>2 DEF AnswersInv
    <3> QED BY <1>1, <1>2, <3>3 DEF SeamSafe
  <2>5. CASE LakeSide
    <3>1. /\ step = "lake" /\ step' = "ch" /\ lakeSide' = RowsBelow(t)
          /\ t' = t /\ atStart' = atStart /\ answers' = answers
      BY <2>5 DEF LakeSide, RowsBelow
    <3>2. AnswersInv'
      BY <1>1, <2>1, <2>2, <2>3, <3>1 DEF AnswersInv
    <3> QED BY <1>1, <1>2, <3>2 DEF SeamSafe
  <2>6. CASE ChSide
    <3> DEFINE a == [t |-> t, lake |-> lakeSide, ch |-> SeamSide(t), atStart |-> atStart]
               k == Len(answers)
    <3>1. /\ a \in Answer
          /\ Len(answers') = k + 1
          /\ \A n \in 1 .. k : answers'[n] = answers[n]
          /\ answers'[k + 1] = a
      BY <1>1, <2>6, AppendedAnswer
    <3>2. AnswerInv(a)
      BY <2>6, <3>1, NewAnswer
    <3>3. step = "ch" /\ step' = "t" /\ a.t = t /\ a.atStart = atStart
      BY <2>6 DEF ChSide
    <3>4. \A n \in 1 .. k : Follows(a.atStart, a.t, answers[n])
      BY <1>1, <3>3 DEF AnswersInv
    <3> HIDE DEF a, k
    <3>5. ASSUME NEW n \in 1 .. k + 1
          PROVE  n \in 1 .. k \/ n = k + 1
      BY <1>3, <3>5 DEF k
    <3>6. \A n \in 1 .. k + 1 : AnswerInv(answers'[n])
      BY <1>4, <3>1, <3>2, <3>5 DEF k
    <3>7. ASSUME NEW m \in 1 .. k + 1, NEW n \in 1 .. k + 1, m < n
          PROVE  Follows(answers'[n].atStart, answers'[n].t, answers'[m])
      <4>1. m \in 1 .. k
        BY <1>3, <3>7 DEF k
      <4>2. CASE n \in 1 .. k
        BY <1>1, <3>1, <3>7, <4>1, <4>2 DEF AnswersInv, k
      <4>3. CASE n = k + 1
        BY <3>1, <3>4, <4>1, <4>3
      <4> QED BY <3>5, <4>2, <4>3
    <3>8. \A n \in 1 .. k + 1 : AnswerInv(answers[n])'
      BY <2>1, <2>2, <3>6 DEF AnswerInv
    <3>9. \A m, n \in 1 .. k + 1 :
            m < n => Follows(answers[n].atStart, answers[n].t, answers[m])'
      BY <3>7 DEF Follows
    <3>10. AnswersInv'
      BY <3>1, <3>3, <3>8, <3>9 DEF AnswersInv
    <3> QED BY <1>1, <1>2, <3>10 DEF SeamSafe
  <2> QED BY <1>7, <2>4, <2>5, <2>6 DEF QueryNext
<1> QED BY <1>6, <1>7, NextIsAWorldStep
------------------------------------------------------------------------------
(* What the answers count *)

LEMMA CoordinateTypes ==
    ASSUME StreamTypeOK, NEW c \in Coordinates
    PROVE  c \in Pairs /\ EventTime(c) \in Nat
<1> DEFINE p == c[1]
           o == c[2]
           ends == [q \in Partitions |-> Len(log[q])]
<1>1. p \in Partitions /\ c = <<p, o>> /\ o \in 0 .. (ends[p] - 1)
  BY PrefixPair DEF Coordinates
<1>2. log[p] \in Seq(Events) /\ Len(log[p]) \in Nat /\ DOMAIN log[p] = 1 .. Len(log[p])
  BY <1>1, LenProperties DEF StreamTypeOK
<1>3. o \in Nat /\ o + 1 \in 1 .. Len(log[p])
  BY <1>1, <1>2
<1>4. log[p][o + 1] \in Events
  BY <1>2, <1>3, ElementOfSeq
<1>5. EventTime(c) = log[p][o + 1].et
  BY DEF EventTime, EventAt
<1> QED BY <1>1, <1>3, <1>4, <1>5 DEF Events, Pairs

LEMMA AnswerCounts ==
    ASSUME SeamSafe, NEW n \in 1 .. Len(answers)
    PROVE  /\ \A c \in answers[n].atStart :
                c \in Coordinates /\ Counted(answers[n], c) >= 1
           /\ \A c \in Coordinates :
                /\ Counted(answers[n], c) \in Nat
                /\ EventTime(c) < answers[n].t => Counted(answers[n], c) = 1
                /\ Counted(answers[n], c) <= 1 + chRestarts
<1> DEFINE a == answers[n]
<1>1. /\ StreamTypeOK /\ StreamInv /\ LakeInv /\ DisorderInv /\ ChInv /\ WorldInv
      /\ AnswerInv(a)
      /\ a.t \in Nat /\ watermark \in Nat /\ chRestarts \in Nat
      /\ \A c \in Pairs : Copies(a.ch, c) \in Nat
      /\ \A c \in Pairs : Copies(chCopies, c) \in Nat
  BY AnswerTypes, WorldTypes DEF SeamSafe, SeamInv, WorldInv, AnswersInv
<1> HIDE DEF a
<1>2. ASSUME NEW c \in Coordinates
      PROVE  /\ c \in Pairs /\ Copies(a.ch, c) \in Nat
             /\ c \in a.lake <=> EventTime(c) < a.t
             /\ EventTime(c) < a.t => Copies(a.ch, c) = 0
             /\ Copies(a.ch, c) <= 1 + chRestarts
  <2>1. c \in Pairs /\ EventTime(c) \in Nat
    BY <1>1, CoordinateTypes
  <2>2. EventTime(c) < a.t => c \in rows
    <3> SUFFICES ASSUME EventTime(c) < a.t PROVE c \in rows
      OBVIOUS
    <3>1. EventTime(c) < watermark
      BY <1>1, <2>1 DEF AnswerInv
    <3> QED BY <1>1, <3>1, BelowTIsLanded
  <2>3. c \in a.lake <=> EventTime(c) < a.t
    BY <1>1, <2>2 DEF AnswerInv, RowsBelow
  <2>4. EventTime(c) < a.t => Copies(a.ch, c) = 0
    BY <1>1, <2>1 DEF AnswerInv
  <2>5. Copies(a.ch, c) <= 1 + chRestarts
    <3>1. /\ Copies(a.ch, c) <= Copies(chCopies, c)
          /\ Copies(chCopies, c) <= chRestarts + (IF c[2] < chPos[c[1]] THEN 1 ELSE 0)
      BY <1>1, <2>1 DEF AnswerInv, ChInv
    <3>2. Copies(chCopies, c) <= chRestarts + 1
      BY <1>1, <2>1, <3>1
    <3> QED BY <1>1, <2>1, <3>1, <3>2
  <2> QED BY <1>1, <2>1, <2>3, <2>4, <2>5
<1>3. ASSUME NEW c \in a.atStart PROVE c \in Coordinates /\ Counted(a, c) >= 1
  <2>1. c \in Delivered /\ (EventTime(c) >= a.t => Copies(a.ch, c) > 0)
    BY <1>1 DEF AnswerInv
  <2>2. c \in Coordinates /\ EventTime(c) \in Nat
    BY <1>1, <2>1, DeliveredEvent
  <2>3. Copies(a.ch, c) \in Nat /\ (c \in a.lake <=> EventTime(c) < a.t)
    BY <1>2, <2>2
  <2>4. CASE EventTime(c) < a.t
    BY <2>2, <2>3, <2>4 DEF Counted
  <2>5. CASE EventTime(c) >= a.t
    BY <2>1, <2>2, <2>3, <2>5 DEF Counted
  <2> QED BY <1>1, <2>2, <2>4, <2>5
<1>4. ASSUME NEW c \in Coordinates
      PROVE  /\ Counted(a, c) \in Nat
             /\ EventTime(c) < a.t => Counted(a, c) = 1
             /\ Counted(a, c) <= 1 + chRestarts
  <2>1. CASE EventTime(c) < a.t
    BY <1>1, <1>2, <2>1 DEF Counted
  <2>2. CASE ~ (EventTime(c) < a.t)
    BY <1>1, <1>2, <2>2 DEF Counted
  <2> QED BY <2>1, <2>2
<1> QED BY <1>3, <1>4 DEF a

LEMMA EveryAnswer ==
    ASSUME SeamInv
    PROVE  \A a \in Answers : \E n \in 1 .. Len(answers) : a = answers[n]
BY AnswerTypes DEF Answers

------------------------------------------------------------------------------
(* The theorems *)

\* Every variable keeps its type, whatever is redelivered and however often the
\* generator is run.
THEOREM SeamTypeCorrect == SeamSpec => []SeamTypeOK
<1>1. SeamInv => SeamTypeOK
  BY DEF SeamInv, WorldInv, LakeInv, ChInv, QueryInv, SeamTypeOK, InClickHouse
<1> QED BY <1>1, InitSeam, NextKeepsSeam, PTL DEF SeamSpec

\* Below its T an answer counts every event exactly once, for any number of
\* redeliveries, and the events built after the answer are never below its T.
THEOREM BelowTCorrect == ASSUME MaxRuns = 1 PROVE SeamSpec => []ExactlyOnceBelowT
<1>1. SeamSafe => ExactlyOnceBelowT
  <2> SUFFICES ASSUME SeamSafe, NEW a \in Answers
               PROVE  \A c \in Coordinates : EventTime(c) < a.t => Counted(a, c) = 1
    BY DEF ExactlyOnceBelowT
  <2>1. PICK n \in 1 .. Len(answers) : a = answers[n]
    BY EveryAnswer DEF SeamSafe
  <2> QED BY <2>1, AnswerCounts
<1> QED BY <1>1, InitSafe, NextKeepsSafe, PTL DEF SeamSpec

\* At-least-once: an event ClickHouse held when the query began is never dropped,
\* and none is counted more than once and once more for each restart.
THEOREM AtLeastOnceCorrect == ASSUME MaxRuns = 1 PROVE SeamSpec => []SeamAtLeastOnce
<1>1. SeamSafe => SeamAtLeastOnce
  <2> SUFFICES ASSUME SeamSafe, NEW a \in Answers
               PROVE  /\ \A c \in a.atStart : Counted(a, c) >= 1
                      /\ \A c \in Coordinates : Counted(a, c) <= 1 + chRestarts
    BY DEF SeamAtLeastOnce
  <2>1. PICK n \in 1 .. Len(answers) : a = answers[n]
    BY EveryAnswer DEF SeamSafe
  <2> QED BY <2>1, AnswerCounts
<1> QED BY <1>1, InitSafe, NextKeepsSafe, PTL DEF SeamSpec

\* "Every event is counted exactly once" for as long as ClickHouse has not been
\* restarted, whatever restarts may follow.
THEOREM ExactlyOnceCorrect == ASSUME MaxRuns = 1 PROVE SeamSpec => []SeamExactlyOnce
<1>1. SeamSafe => SeamExactlyOnce
  <2> SUFFICES ASSUME SeamSafe, chRestarts = 0, NEW a \in Answers
               PROVE  /\ \A c \in a.atStart : Counted(a, c) = 1
                      /\ \A c \in Coordinates : Counted(a, c) <= 1
    BY DEF SeamExactlyOnce
  <2>1. PICK n \in 1 .. Len(answers) : a = answers[n]
    BY EveryAnswer DEF SeamSafe
  <2>2. \A c \in Coordinates : Counted(a, c) <= 1 /\ Counted(a, c) \in Nat
    BY <2>1, AnswerCounts
  <2>3. \A c \in a.atStart : c \in Coordinates /\ Counted(a, c) >= 1
    BY <2>1, AnswerCounts
  <2>4. \A c \in a.atStart : Counted(a, c) = 1
    BY <2>2, <2>3
  <2> QED BY <2>2, <2>4
<1> QED BY <1>1, InitSafe, NextKeepsSafe, PTL DEF SeamSpec

\* No later answer loses an event of an earlier one: T never goes back, so what
\* was on the lake's side stays there, and what was on ClickHouse's side is in
\* ClickHouse when the later query begins.
THEOREM LaterAnswersCorrect == ASSUME MaxRuns = 1 PROVE SeamSpec => []LaterAnswersKeepEvents
<1>1. SeamSafe => LaterAnswersKeepEvents
  <2> SUFFICES ASSUME SeamSafe, NEW m \in 1 .. Len(answers), NEW n \in 1 .. Len(answers),
                      m < n, NEW c \in Coordinates, Counted(answers[m], c) > 0
               PROVE  Counted(answers[n], c) > 0
    BY AnswerTypes DEF LaterAnswersKeepEvents, SeamSafe
  <2> DEFINE a == answers[m]
             b == answers[n]
  <2>1. Follows(b.atStart, b.t, a) /\ AnswerInv(a) /\ AnswerInv(b)
    BY DEF SeamSafe, AnswersInv
  <2>2. c \in Pairs /\ EventTime(c) \in Nat
    BY CoordinateTypes DEF SeamSafe, SeamInv, WorldInv
  <2>3. /\ a.t \in Nat /\ b.t \in Nat
        /\ Copies(a.ch, c) \in Nat /\ Copies(b.ch, c) \in Nat
        /\ Counted(b, c) \in Nat
    BY <2>2, AnswerTypes, AnswerCounts DEF SeamSafe
  <2>4. CASE c \in a.lake
    <3>1. EventTime(c) < b.t
      BY <2>1, <2>2, <2>3, <2>4 DEF AnswerInv, RowsBelow, Follows
    <3>2. Counted(b, c) = 1
      BY <3>1, AnswerCounts
    <3> QED BY <3>2
  <2>5. CASE Copies(a.ch, c) > 0
    <3>1. c \in b.atStart
      BY <2>1, <2>2, <2>5 DEF Follows
    <3>2. Counted(b, c) >= 1
      BY <3>1, AnswerCounts
    <3> QED BY <2>3, <3>2
  <2>6. c \in a.lake \/ Copies(a.ch, c) > 0
    BY <2>3 DEF Counted
  <2> QED BY <2>4, <2>5, <2>6
<1> QED BY <1>1, InitSafe, NextKeepsSafe, PTL DEF SeamSpec

------------------------------------------------------------------------------
(* The count of ClickHouse's rows *)

LEMMA InitSize == StreamInit => SizeInv
<1> SUFFICES ASSUME StreamInit PROVE SizeInv
  OBVIOUS
<1>1. \A p \in Partitions : Len(log[p]) = 0
  BY EmptySeq DEF StreamInit
<1>2. Coordinates = {}
  BY <1>1, CoordinatesOf
<1>3. (1 - 1) * NumEvents + 0 = 0
  BY RunsAssumption
<1> QED BY <1>2, <1>3, FS_EmptySet DEF StreamInit, SizeInv

LEMMA NextKeepsSize ==
    ASSUME SeamInv, SizeInv, [SeamNext]_seamVars PROVE SizeInv'
<1>1. StreamNext \/ UNCHANGED streamVars
  BY NextIsAWorldStep DEF WorldStep, LakeNext, Land
<1> QED BY <1>1, StreamKeepsSize DEF SeamInv, WorldInv

\* While no event is there twice, there are no more rows than events.
LEMMA RowsAreEvents ==
    ASSUME WorldInv, SizeInv, chRestarts = 0
    PROVE  /\ InClickHouse \subseteq Coordinates
           /\ IsFiniteSet(InClickHouse)
           /\ TotalCount \in Nat
           /\ TotalCount <= Cardinality(InClickHouse)
<1>1. InClickHouse \subseteq Coordinates
  BY DeliveredEvent DEF InClickHouse, WorldInv
<1>2. IsFiniteSet(InClickHouse)
  BY <1>1, FS_Subset DEF SizeInv
<1>3. ASSUME NEW r \in ChRows PROVE r[1] \in InClickHouse /\ r = <<r[1], 1>>
  <2>1. PICK c \in Delivered : r \in {c} \X (1 .. Copies(chCopies, c))
    BY DEF ChRows
  <2>2. /\ c \in Pairs /\ c[1] \in Partitions /\ c[2] \in Nat
        /\ Copies(chCopies, c) \in Nat
        /\ Copies(chCopies, c) <= chRestarts + (IF c[2] < chPos[c[1]] THEN 1 ELSE 0)
    BY DeliveredPairs, WorldTypes DEF Pairs, WorldInv, ChInv
  <2>3. Copies(chCopies, c) \in {0, 1}
    BY <2>2
  <2>4. r[1] = c /\ r[2] = 1 /\ r = <<r[1], r[2]>> /\ Copies(chCopies, c) = 1
    BY <2>1, <2>3
  <2> QED BY <2>4 DEF InClickHouse
<1>4. /\ IsFiniteSet(ChRows)
      /\ Cardinality(ChRows) <= Cardinality(InClickHouse)
  <2> DEFINE f == [r \in ChRows |-> r[1]]
  <2>1. f \in Injection(ChRows, InClickHouse)
    <3>1. f \in [ChRows -> InClickHouse]
      BY <1>3
    <3>2. \A r, s \in ChRows : f[r] = f[s] => r = s
      BY <1>3
    <3> QED BY <3>1, <3>2 DEF Injection, IsInjective
  <2> QED BY <1>2, <2>1, FS_Injection
<1> QED BY <1>1, <1>2, <1>4, FS_CardinalityType DEF TotalCount

\* "CH caught up": as long as ClickHouse has not been restarted, as many rows as
\* the generator built are all of its events, however often it was run.
THEOREM CountCorrect == SeamSpec => []CountMeansCaughtUp
<1>1. SeamInv /\ SizeInv => CountMeansCaughtUp
  <2> SUFFICES ASSUME SeamInv, SizeInv, phase = "producing", chRestarts = 0,
                      CountReached(NumEvents * runs)
               PROVE  InClickHouse = Coordinates
    BY DEF CountMeansCaughtUp
  <2>1. /\ InClickHouse \subseteq Coordinates /\ IsFiniteSet(InClickHouse)
        /\ TotalCount \in Nat /\ TotalCount <= Cardinality(InClickHouse)
    BY RowsAreEvents DEF SeamInv
  <2>2. runs \in Nat /\ NumEvents \in Nat
    BY RunsAssumption DEF SeamInv, WorldInv, StreamTypeOK
  <2>3. Cardinality(Coordinates) = (runs - 1) * NumEvents + NumEvents
    BY DEF SizeInv
  <2>4. (runs - 1) * NumEvents + NumEvents = NumEvents * runs
    BY <2>2
  <2>5. Cardinality(Coordinates) <= TotalCount
    <3>1. NumEvents * runs <= TotalCount
      BY <2>1, <2>2 DEF CountReached
    <3> QED BY <2>3, <2>4, <3>1
  <2>6. /\ Cardinality(InClickHouse) <= Cardinality(Coordinates)
        /\ Cardinality(Coordinates) = Cardinality(InClickHouse) => Coordinates = InClickHouse
    BY <2>1, FS_Subset DEF SizeInv
  <2>7. Cardinality(InClickHouse) \in Nat /\ Cardinality(Coordinates) \in Nat
    BY <2>1, FS_CardinalityType DEF SizeInv
  <2>8. Cardinality(Coordinates) = Cardinality(InClickHouse)
    BY <2>1, <2>5, <2>6, <2>7
  <2> QED BY <2>6, <2>8
<1>2. SeamInit => SeamInv /\ SizeInv
  BY InitSeam, InitSize DEF SeamInit
<1>3. SeamInv /\ SizeInv /\ [SeamNext]_seamVars => SeamInv' /\ SizeInv'
  BY NextKeepsSeam, NextKeepsSize
<1> QED BY <1>1, <1>2, <1>3, PTL DEF SeamSpec
------------------------------------------------------------------------------
(* Cancellations and creations *)

\* An answer of a ClickHouse that was not behind the lake subtracts no cancelled
\* order that it does not add, although the two events may be on either side of
\* T in either order.
THEOREM PairsCorrect == ASSUME MaxRuns = 1 PROVE SeamSpec => []CaughtUpAnswersPair
<1>1. SeamSafe /\ PairInv => CaughtUpAnswersPair
  <2> SUFFICES ASSUME SeamSafe, PairInv, NEW n \in 1 .. Len(answers),
                      WasAhead(answers[n]),
                      NEW c \in Coordinates, Counted(answers[n], c) > 0,
                      EventAt(c).type = "order_cancelled"
               PROVE  \E d \in Coordinates : /\ Counted(answers[n], d) > 0
                                             /\ EventAt(d).order = EventAt(c).order
                                             /\ EventAt(d).type = "order_created"
    BY EveryAnswer DEF CaughtUpAnswersPair, PairsCancellations, SeamSafe
  <2> DEFINE a == answers[n]
             p == c[1]
  <2>1. /\ StreamTypeOK /\ AnswerInv(a) /\ a.t \in Nat
        /\ \A d \in Pairs : Copies(a.ch, d) \in Nat
    BY AnswerTypes DEF SeamSafe, SeamInv, WorldInv, AnswersInv
  <2>2. /\ p \in Partitions /\ c = <<p, c[2]>> /\ c[2] \in 0 .. (Len(log[p]) - 1)
        /\ Len(log[p]) \in Nat /\ c \in Pairs
    BY <2>1, CoordinatesOf, CoordinateTypes, LenProperties DEF StreamTypeOK
  <2>3. c[2] + 1 \in 1 .. Len(log[p]) /\ EventAt(c) = log[p][c[2] + 1]
    BY <2>2 DEF EventAt
  <2>4. PICK i \in 1 .. c[2] :
            log[p][i].order = EventAt(c).order /\ log[p][i].type = "order_created"
    <3>1. CreatedIn(EventAt(c).order, p, (c[2] + 1) - 1)
      BY <2>2, <2>3 DEF PairInv
    <3>2. (c[2] + 1) - 1 = c[2]
      BY <2>2
    <3> QED BY <3>1, <3>2 DEF CreatedIn
  <2> DEFINE d == <<p, i - 1>>
  <2>5. /\ i - 1 \in 0 .. (c[2] - 1) /\ i - 1 \in 0 .. (Len(log[p]) - 1)
        /\ (i - 1) + 1 = i
    BY <2>2
  <2>6. d \in Coordinates /\ d \in Pairs /\ EventTime(d) \in Nat /\ d[1] = p /\ d[2] <= c[2]
    <3>1. d[1] = p /\ d[2] = i - 1 /\ d = <<d[1], d[2]>>
      OBVIOUS
    <3>2. d \in Coordinates
      BY <2>2, <2>5, <3>1, CoordinatesOf
    <3> QED BY <2>1, <2>2, <2>5, <3>1, <3>2, CoordinateTypes
  <2>7. EventAt(d) = log[p][i]
    BY <2>5 DEF EventAt
  <2> HIDE DEF d
  <2>8. Counted(a, d) \in Nat /\ (EventTime(d) < a.t => Counted(a, d) = 1)
    BY <2>6, AnswerCounts
  <2>9. Counted(a, d) > 0
    <3>1. CASE EventTime(d) < a.t
      BY <2>8, <3>1
    <3>2. CASE EventTime(d) >= a.t /\ c \in a.lake
      <4>1. d \in a.atStart
        BY <2>6, <3>2 DEF WasAhead
      <4> QED BY <2>8, <4>1, AnswerCounts
    <3>3. CASE EventTime(d) >= a.t /\ c \notin a.lake
      <4>1. Copies(a.ch, c) > 0
        BY <2>1, <2>2, <3>3 DEF Counted
      <4>2. Copies(a.ch, d) > 0
        BY <2>1, <2>2, <2>5, <3>3, <4>1 DEF AnswerInv, d
      <4> QED BY <2>1, <2>6, <4>2 DEF Counted
    <3> QED BY <2>1, <2>6, <3>1, <3>2, <3>3
  <2> QED BY <2>4, <2>6, <2>7, <2>9
<1>2. SeamInit => SeamSafe /\ PairInv
  <2>1. StreamInit => PairInv
    <3>1. StreamInit => \A p \in Partitions : Len(log[p]) = 0 /\ createdPool = {}
      BY EmptySeq DEF StreamInit
    <3> QED BY <3>1 DEF PairInv, StreamInit
  <2> QED BY <2>1, InitSafe DEF SeamInit
<1>3. SeamSafe /\ PairInv /\ [SeamNext]_seamVars => SeamSafe' /\ PairInv'
  <2> SUFFICES ASSUME SeamSafe, PairInv, [SeamNext]_seamVars
               PROVE  SeamSafe' /\ PairInv'
    OBVIOUS
  <2>1. StreamNext \/ UNCHANGED streamVars
    BY NextIsAWorldStep DEF WorldStep, LakeNext, Land
  <2>2. PairInv'
    BY <2>1, StreamKeepsPairs DEF SeamSafe, SeamInv, WorldInv
  <2> QED BY <2>2, NextKeepsSafe
<1> QED BY <1>1, <1>2, <1>3, PTL DEF SeamSpec
==============================================================================
