---------------------------- MODULE MCScheduler -----------------------------
(***************************************************************************)
(* Two levels above idle and three registrations, of which any may fail.   *)
(* Three PCBs in one level have a head, a middle and a tail; with Word = 8 *)
(* a demotion below 0 wraps to a level that is rejected, as on the board.  *)
(***************************************************************************)
EXTENDS Scheduler
=============================================================================
