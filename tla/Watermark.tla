------------------------------ MODULE Watermark ------------------------------
(***************************************************************************)
(* lake/watermark.py: the safe watermark T, a pure function of the largest *)
(* event time committed in each partition.  A Python dictionary over the   *)
(* partitions is a function that is None where the key is missing.         *)
(***************************************************************************)
EXTENDS Integers, FiniteSets, FiniteSetsExt

None == -1
Keys(d) == {k \in DOMAIN d : d[k] # None}
Get(d, key, default) == IF d[key] = None THEN default ELSE d[key]

\* Mutants of ComputeWatermark: the largest maximum instead of the least, a
\* partition not seen yet overlooked, the lateness window not taken off.
FastestPartition(partMax, w, previous, expected) ==
    IF Cardinality(Keys(partMax)) < expected \/ Keys(partMax) = {}
    THEN previous
    ELSE Max({previous, Max({partMax[p] : p \in Keys(partMax)}) - w})

UnseenOverlooked(partMax, w, previous, expected) ==
    IF Keys(partMax) = {}
    THEN previous
    ELSE Max({previous, Min({partMax[p] : p \in Keys(partMax)}) - w})

NoLateness(partMax, w, previous, expected) ==
    IF Cardinality(Keys(partMax)) < expected \/ Keys(partMax) = {}
    THEN previous
    ELSE Max({previous, Min({partMax[p] : p \in Keys(partMax)})})

\* T_new = max(T_prev, min_p(max_p - w)), and T_prev while a partition is unseen.
ComputeWatermark(partMax, w, previous, expected) ==
    IF Cardinality(Keys(partMax)) < expected \/ Keys(partMax) = {}
    THEN previous
    ELSE Max({previous, Min({partMax[p] : p \in Keys(partMax)}) - w})
==============================================================================
