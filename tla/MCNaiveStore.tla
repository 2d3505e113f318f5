----------------------------- MODULE MCNaiveStore -----------------------------
(***************************************************************************)
(* Model values for NaiveStore.  Kafka keeps one day and ClickHouse one    *)
(* month, so at hour 1007, an hour before midnight, the cutoffs are 983    *)
(* and 287.                                                                *)
(***************************************************************************)
EXTENDS NaiveStore
==============================================================================
