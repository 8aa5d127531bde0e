------------------------- MODULE MCOperationDispatch ------------------------
(* An instance of OperationDispatch for TLC. *)
EXTENDS OperationDispatch
=============================================================================
