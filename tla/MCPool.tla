------------------------------- MODULE MCPool -------------------------------
(***************************************************************************)
(* Model values for ProducerPool.                                          *)
(***************************************************************************)
EXTENDS ProducerPool, TLC

\* Requests are alike and so are events: the requests call in a fixed order, and each
\* has an event of its own.
Rank == CHOOSE f \in [Requests -> 1 .. Cardinality(Requests)] : IsInjective(f)
Own == CHOOSE f \in [Requests -> Events] : IsInjective(f)

OrderedNext ==
    /\ PoolNext
    /\ \A r \in Requests : payload'[r] \subseteq {Own[r]}
    /\ \A r, s \in Requests :
        (payload'[r] # {} /\ Rank[s] < Rank[r]) => payload'[s] # {}

OrderedSpec == PoolInit /\ [][OrderedNext]_poolVars /\ PoolFairness
==============================================================================
