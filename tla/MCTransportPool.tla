---------------------------- MODULE MCTransportPool ----------------------------
(***************************************************************************)
(* TransportPool on small instances.                                       *)
(***************************************************************************)
EXTENDS TransportPool, TLC

Symmetry == Permutations(Conn) \cup Permutations(Requests)

NeverWarm == { FALSE }

=============================================================================
