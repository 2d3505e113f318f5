------------------------------- MODULE LakeRows -------------------------------
(***************************************************************************)
(* What a table's rows say by themselves, whoever wrote them: which        *)
(* partitions they cover, how far, and the T that follows from them.       *)
(***************************************************************************)
EXTENDS OrderStream, FiniteSetsExt

SeenIn(r) == {c[1] : c \in r}
LargestIn(r, p) == Max({EventTime(c) : c \in {d \in r : d[1] = p}})

\* T recomputed from a whole table: the least, over the partitions, of the
\* largest event time landed, less the lateness window; 0 until every
\* partition has a row.
SafeT(r) ==
    IF SeenIn(r) = Partitions
    THEN Max({0, Min({LargestIn(r, p) : p \in Partitions}) - W})
    ELSE 0

PrefixClosed(r) == \A c \in r : \A o \in 0 .. (c[2] - 1) : <<c[1], o>> \in r
==============================================================================
