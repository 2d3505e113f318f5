--------------------------- MODULE ExactlyOnceLake ---------------------------
(***************************************************************************)
(* What the lake promises its readers, with no jobs, offsets, batches or   *)
(* crashes: a set of rows that only grows, always a prefix of each         *)
(* partition, and a watermark T that is a function of the rows alone.  The *)
(* landing job keeps T incrementally, merging each batch's maxima into the *)
(* ones it read from the last snapshot; LandingJob is shown to implement   *)
(* this module, and Seam is built on it.                                   *)
(***************************************************************************)
EXTENDS LakeRows

VARIABLES
    rows,           \* coordinates of the table's rows
    watermark       \* T, in the table's current snapshot

LakeInit == rows = {} /\ watermark = 0

\* One commit: more delivered events become rows, none out of turn.
Land ==
    /\ \E new \in SUBSET (Delivered \ rows) :
        /\ new # {}
        /\ PrefixClosed(rows \cup new)
        /\ rows' = rows \cup new
    /\ watermark' = SafeT(rows')
    /\ UNCHANGED streamVars

LakeNext == (StreamNext /\ UNCHANGED <<rows, watermark>>) \/ Land

LakeSpec ==
    /\ StreamInit /\ LakeInit
    /\ [][LakeNext]_<<streamVars, rows, watermark>>
==============================================================================
