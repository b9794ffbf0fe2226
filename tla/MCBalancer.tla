------------------------------ MODULE MCBalancer ------------------------------
(***************************************************************************)
(* Balancer on small instances.                                            *)
(***************************************************************************)
EXTENDS Balancer

HealthyOrNot == { StateHealthy, StateUnhealthy }

=============================================================================
