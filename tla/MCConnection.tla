---------------------------- MODULE MCConnection ----------------------------
(***************************************************************************)
(* Connection with three requests and two goroutines in close: RemoveConn's*)
(* and transportPool.close's.                                              *)
(***************************************************************************)
EXTENDS Connection

=============================================================================
