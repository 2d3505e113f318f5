-------------------------------- MODULE MCLab --------------------------------
(***************************************************************************)
(* Smaller instances of Lab.  An event's jitter is the least or the        *)
(* largest, with which every two events can still come in either order of  *)
(* time.                                                                   *)
(***************************************************************************)
EXTENDS Lab

LeastOrLargestJitter ==
    index' > index =>
        \A p \in Partitions : log'[p] # log[p] =>
            log'[p][Len(log'[p])].et - StartMs - index \in {0, W - 1}

ExtremesSpec == LabInit /\ [][LabNext /\ LeastOrLargestJitter]_labVars

\* The topic is filled before anybody reads it.  Each reader takes its records when
\* it likes, so what is landed, inserted and answered is what it could be anyway.
FilledFirst ==
    streamVars' = streamVars => phase = "producing" /\ Delivered = Coordinates

\* ClickHouse's offsets are not committed: only a restart would read them.
NoGroupOffsets == chGroup' = chGroup

FilledSpec ==
    /\ LabInit
    /\ [][LabNext /\ LeastOrLargestJitter /\ FilledFirst /\ NoGroupOffsets]_labVars
==============================================================================
