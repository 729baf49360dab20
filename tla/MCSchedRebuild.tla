---------------------------- MODULE MCSchedRebuild ----------------------------
(***************************************************************************)
(* A CPU with three threads besides its stopper.                           *)
(***************************************************************************)
EXTENDS SchedRebuild

ThreeTasks == 1 .. 3
NRunning == 5
===============================================================================
