---------------------------- MODULE MCMainTransport ----------------------------
(***************************************************************************)
(* MainTransport on a small instance: two requests that race for a pool of *)
(* one target, unless the second is for a target that the client refuses;  *)
(* and, where the client has one target only, a call of prewarm.           *)
(***************************************************************************)
EXTENDS MainTransport

CONSTANTS t1, t2, r1

MCInit == Init /\ \A r \in Prewarmers \cup { r1 } : target[r] = t1

MCSpec == MCInit /\ [][Next]_<< vars, configVars >> /\ Fairness

=============================================================================
