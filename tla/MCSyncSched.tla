------------------------------ MODULE MCSyncSched ------------------------------
(***************************************************************************)
(* Small instances of SyncSched for TLC.                                   *)
(***************************************************************************)
EXTENDS SyncSchedInd

\* CPU numbers with a hole, so that process_id differs from the CPU number.
TwoCPUs   == {0, 2}
ThreeCPUs == {0, 2, 3}
OneTask   == {1}
TwoTasks  == {1, 2}
===============================================================================
