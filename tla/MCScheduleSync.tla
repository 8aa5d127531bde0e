--------------------------- MODULE MCScheduleSync ---------------------------
(* An instance of ScheduleSync for TLC. *)
EXTENDS ScheduleSync
=============================================================================
