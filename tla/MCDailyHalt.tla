---------------------------- MODULE MCDailyHalt ----------------------------
(* Instances of DailyHalt for TLC: one check at a time, w. *)
EXTENDS DailyHalt

CONSTANT w
=============================================================================
