------------------------------ MODULE LiveUpdate ------------------------------
(***************************************************************************)
(* What plugsched promises to the rest of the kernel: the scheduler is     *)
(* replaced in ONE step, while no thread is executing in the version that  *)
(* is being replaced, and every runnable task is handed over from the old  *)
(* version's queues to the new one's in that same step.                    *)
(*                                                                         *)
(* SyncSched shows how stop_machine, the three per-CPU barriers and the    *)
(* parallel stack check of src/src/main.c implement this step.             *)
(***************************************************************************)
CONSTANTS CPU, Task

VARIABLES
  sched,     \* the version every call of a scheduler function reaches
  tasks,     \* the live threads
  stack,     \* the versions that have a frame on each thread's stack
  idle,      \* the same for the idle thread of each CPU
  holder     \* the version whose queues hold each task, or "none"

vars == <<sched, tasks, stack, idle, holder>>

Version == {"orig", "mod"}

Other(v) == IF v = "orig" THEN "mod" ELSE "orig"

Init ==
  /\ sched = "orig"
  /\ tasks \in SUBSET Task
  /\ stack = [t \in Task |-> {}]
  /\ idle = [c \in CPU |-> {}]
  /\ holder \in [Task -> {"none", "orig"}]
  /\ \A t \in Task \ tasks : holder[t] = "none"

\* A thread is created and becomes runnable.
Fork(t) ==
  /\ t \notin tasks
  /\ tasks' = tasks \cup {t}
  /\ holder' = [holder EXCEPT ![t] = sched]
  /\ UNCHANGED <<sched, stack, idle>>

\* A thread that has left every scheduler function goes away.
Exit(t) ==
  /\ t \in tasks
  /\ stack[t] = {}
  /\ tasks' = tasks \ {t}
  /\ holder' = [holder EXCEPT ![t] = "none"]
  /\ UNCHANGED <<sched, stack, idle>>

\* A task becomes runnable in the version in force, or stops being runnable.
Wake(t) ==
  /\ t \in tasks
  /\ holder[t] = "none"
  /\ holder' = [holder EXCEPT ![t] = sched]
  /\ UNCHANGED <<sched, tasks, stack, idle>>

Sleep(t) ==
  /\ t \in tasks
  /\ holder[t] # "none"
  /\ holder' = [holder EXCEPT ![t] = "none"]
  /\ UNCHANGED <<sched, tasks, stack, idle>>

\* A runnable thread calls or returns from a scheduler function.
Run(t) ==
  /\ t \in tasks
  /\ holder[t] # "none"
  /\ stack' \in {[stack EXCEPT ![t] = {sched}], [stack EXCEPT ![t] = {}]}
  /\ UNCHANGED <<sched, tasks, idle, holder>>

RunIdle(c) ==
  /\ idle' \in {[idle EXCEPT ![c] = {sched}], [idle EXCEPT ![c] = {}]}
  /\ UNCHANGED <<sched, tasks, stack, holder>>

(***************************************************************************)
(* The live update.  No frame of the version in force is on any stack, and *)
(* after the step every task that was queued is queued in the new version. *)
(***************************************************************************)
Switch ==
  /\ \A t \in tasks : stack[t] = {}
  /\ \A c \in CPU : idle[c] = {}
  /\ sched' = Other(sched)
  /\ holder' = [t \in Task |-> IF holder[t] = "none" THEN "none" ELSE Other(sched)]
  /\ UNCHANGED <<tasks, stack, idle>>

Next ==
  \/ \E t \in Task : Fork(t) \/ Exit(t) \/ Wake(t) \/ Sleep(t) \/ Run(t)
  \/ \E c \in CPU : RunIdle(c)
  \/ Switch

Spec == Init /\ [][Next]_vars
===============================================================================
