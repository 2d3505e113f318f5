------------------------------- MODULE MCSeam -------------------------------
(***************************************************************************)
(* A smaller instance of Seam: where a run's properties do not tell the    *)
(* types of event apart, every event creates an order.                     *)
(***************************************************************************)
EXTENDS Seam

CreationsOnly == index' > index => createdPool \subseteq createdPool'

CreationsSpec == SeamInit /\ [][SeamNext /\ CreationsOnly]_seamVars
==============================================================================
