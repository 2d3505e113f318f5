------------------------------ MODULE MCGateway ------------------------------
(***************************************************************************)
(* Model values for Gateway.                                               *)
(***************************************************************************)
EXTENDS Gateway, TLC

\* Requests are alike and so are events: one request is taken to be the first to
\* call, and one event to be among those it sends.
First == CHOOSE r \in Requests : TRUE
FirstEvent == CHOOSE e \in Events : TRUE

OrderedNext ==
    /\ GatewayNext
    /\ \A r \in Requests : payload'[r] # {} => FirstEvent \in payload'[First]

OrderedSpec == GatewayInit /\ [][OrderedNext]_gatewayVars /\ GatewayFairness
==============================================================================
