------------------------------- MODULE SyncSched -------------------------------
(***************************************************************************)
(* The live update protocol of plugsched: load_sched_routine,              *)
(* unload_sched_routine and the two stop_machine handlers of               *)
(* src/src/main.c, with what they call in stack_check.h, sched_rebuild.c,  *)
(* mempool.h and head_jump.h.                                              *)
(*                                                                         *)
(* One thread drives the update (insmod, or a write to the sysfs file      *)
(* "enable").  While it runs ordinary code, tasks are forked, exit, wake,  *)
(* sleep, migrate and call scheduler functions, and CPUs go up and down.   *)
(* Inside stop_machine only the handlers run, one per online CPU; they     *)
(* synchronise through three atomic counters and one error word.           *)
(*                                                                         *)
(* A "frame" of a version is a return address inside a function of that    *)
(* version that stack_check_fn looks for; __schedule, whose size           *)
(* stack_check_init sets to 0, leaves none.                                *)
(*                                                                         *)
(* Operators whose names start with Bug_ are faulty variants of the         *)
(* definition that follows them; no specification uses them.  Substituting  *)
(* one for the other shows that a property can fail.                        *)
(***************************************************************************)
EXTENDS Integers, FiniteSets

CONSTANTS
  CPU,        \* the possible CPUs, by number
  Task,       \* the identities a live thread can have, in tasklist order
  NView,      \* how many /proc, sysctl and debugfs views the build replaces
  PoolSlack   \* how many objects more than required the memory pool is given

ASSUME CPUAssumption == CPU \subseteq Nat /\ IsFiniteSet(CPU) /\ CPU # {}
ASSUME TaskAssumption == Task \subseteq Nat /\ IsFiniteSet(Task)
ASSUME BoundAssumption == NView \in Nat /\ PoolSlack \in Nat

VARIABLES
  \* the kernel around the scheduler
  online,             \* cpu_online_mask
  tasks,              \* the threads for_each_process_thread visits
  stack,              \* the versions with a frame on each thread's stack
  idle,               \* the same for the idle thread of each CPU
  task_cpu,           \* task_cpu(p), hence task_rq(p)
  on_rq,              \* task_on_rq_queued(p)
  \* what the update changes
  text,               \* the version the heads of the redirected functions reach
  sched_class,        \* the version the five struct sched_class hold
  bak_class,          \* the contents of bak_class[]
  holder,             \* the version whose queues hold each task, or "none"
  rq_online,          \* rq->online of each CPU
  balance_cb,         \* the version rq->balance_callback points into, or "none"
  \* the handshake of the stop_machine handlers
  pc,                 \* where each CPU is in its handler
  process_id,
  cpu_finished,
  clear_finished,
  redirect_finished,
  global_error,
  \* the updating thread
  main,               \* where it is in (un)load_sched_routine
  op,                 \* "install" or "restore"
  ret,                \* what sync_sched_mod returned
  cpu_maps_locked,
  scheduler_enable,
  refcnt,             \* the module's reference count
  smp,                \* obj_num of the memory pool, -1 when there is none
  used,               \* the objects handed out of it
  view,               \* the version behind each view, "none" when creation failed
  vi                  \* the view being replaced

envVars   == <<online, tasks, stack, idle, task_cpu, on_rq>>
schedVars == <<text, sched_class, bak_class, holder, rq_online, balance_cb>>
syncVars  == <<process_id, cpu_finished, clear_finished, redirect_finished,
               global_error>>
ctlVars   == <<main, op, ret, cpu_maps_locked, scheduler_enable, refcnt, smp,
               used, view, vi>>
vars == <<envVars, schedVars, pc, syncVars, ctlVars>>

Version == {"orig", "mod"}
Holder  == {"none", "orig", "mod"}
Error   == {"none", "ENOMEM", "EBUSY"}
View    == 1 .. NView

\* The places of a CPU in its handler, in program order, by phase.
Checking  == {"recheck", "stack", "report"}
Clearing  == {"clear", "clear_dec"}
Switching == {"switch", "jump", "reset"}
Redirecting == Switching \cup {"redirect_dec"}
Rebuilding  == {"rebuild", "done"}
PC == {"run"} \cup Checking \cup {"wait_check", "decide"} \cup Clearing
        \cup {"wait_clear"} \cup Redirecting \cup {"wait_redirect"}
        \cup Rebuilding \cup {"failed"}
Main == {"idle", "pools", "maps_begin", "check_init", "id_init", "stop_machine",
         "stopped", "maps_done", "fail", "views"}

\* The version an operation replaces, and the one it puts in its place.
Old(o) == IF o = "install" THEN "orig" ELSE "mod"
New(o) == IF o = "install" THEN "mod" ELSE "orig"

\* How many members of the set of numbers S come before x.
Rank(x, S) == Cardinality({y \in S : y < x})

EnvTypeOK ==
  /\ online \subseteq CPU /\ tasks \subseteq Task
  /\ stack \in [Task -> SUBSET Version] /\ idle \in [CPU -> SUBSET Version]
  /\ task_cpu \in [Task -> CPU] /\ on_rq \in [Task -> BOOLEAN]

SchedTypeOK ==
  /\ text \in Version /\ sched_class \in Holder /\ bak_class \in Holder
  /\ holder \in [Task -> Holder] /\ rq_online \in [CPU -> BOOLEAN]
  /\ balance_cb \in [CPU -> Holder]

SyncTypeOK ==
  /\ pc \in [CPU -> PC] /\ process_id \in [CPU -> Nat]
  /\ cpu_finished \in Int /\ clear_finished \in Int /\ redirect_finished \in Int
  /\ global_error \in Error

CtlTypeOK ==
  /\ main \in Main /\ op \in {"install", "restore"} /\ ret \in Error
  /\ cpu_maps_locked \in BOOLEAN /\ scheduler_enable \in BOOLEAN
  /\ refcnt \in Nat /\ smp \in Int /\ used \in Nat
  /\ view \in [View -> Holder] /\ vi \in 1 .. NView + 1

\* Type correctness of the state of main.c and of what it changes; the reference
\* count never goes below zero.
TypeOK == EnvTypeOK /\ SchedTypeOK /\ SyncTypeOK /\ CtlTypeOK

(***************************************************************************)
(* The module has just been inserted: everything is the original's.        *)
(***************************************************************************)
Init ==
  /\ online \in (SUBSET CPU) \ {{}}
  /\ tasks \in SUBSET Task
  /\ stack = [t \in Task |-> {}] /\ idle = [c \in CPU |-> {}]
  /\ task_cpu \in [Task -> online] /\ on_rq \in [Task -> BOOLEAN]
  /\ \A t \in Task \ tasks : ~on_rq[t]
  /\ text = "orig" /\ sched_class = "orig" /\ bak_class = "none"
  /\ holder = [t \in Task |-> IF on_rq[t] THEN "orig" ELSE "none"]
  /\ rq_online = [c \in CPU |-> c \in online]
  /\ balance_cb = [c \in CPU |-> "none"]
  /\ pc = [c \in CPU |-> "run"] /\ process_id = [c \in CPU |-> 0]
  /\ cpu_finished = 0 /\ clear_finished = 0 /\ redirect_finished = 0
  /\ global_error = "none"
  /\ main = "idle" /\ op = "install" /\ ret = "none"
  /\ cpu_maps_locked = FALSE /\ scheduler_enable = FALSE
  /\ refcnt = 0 /\ smp = -1 /\ used = 0
  /\ view = [v \in View |-> "orig"] /\ vi = 1

-------------------------------------------------------------------------------
(***************************************************************************)
(* The rest of the kernel.  It runs whenever the machine is not stopped.   *)
(***************************************************************************)
Running == main # "stopped"

\* A new thread is put on the tasklist and enqueued by wake_up_new_task.
Fork(t, c) ==
  /\ Running /\ t \notin tasks /\ c \in online
  /\ tasks' = tasks \cup {t}
  /\ task_cpu' = [task_cpu EXCEPT ![t] = c]
  /\ on_rq' = [on_rq EXCEPT ![t] = TRUE]
  /\ holder' = [holder EXCEPT ![t] = sched_class]
  /\ UNCHANGED <<online, stack, idle, text, sched_class, bak_class, rq_online,
                 balance_cb, pc, syncVars, ctlVars>>

\* A thread outside every scheduler function exits.
Exit(t) ==
  /\ Running /\ t \in tasks /\ on_rq[t] /\ stack[t] = {}
  /\ tasks' = tasks \ {t}
  /\ on_rq' = [on_rq EXCEPT ![t] = FALSE]
  /\ holder' = [holder EXCEPT ![t] = "none"]
  /\ UNCHANGED <<online, stack, idle, task_cpu, text, sched_class, bak_class,
                 rq_online, balance_cb, pc, syncVars, ctlVars>>

\* try_to_wake_up selects a run queue and enqueues the task there.
Wake(t, c) ==
  /\ Running /\ t \in tasks /\ ~on_rq[t] /\ c \in online
  /\ task_cpu' = [task_cpu EXCEPT ![t] = c]
  /\ on_rq' = [on_rq EXCEPT ![t] = TRUE]
  /\ holder' = [holder EXCEPT ![t] = sched_class]
  /\ UNCHANGED <<online, tasks, stack, idle, text, sched_class, bak_class,
                 rq_online, balance_cb, pc, syncVars, ctlVars>>

Sleep(t) ==
  /\ Running /\ t \in tasks /\ on_rq[t]
  /\ on_rq' = [on_rq EXCEPT ![t] = FALSE]
  /\ holder' = [holder EXCEPT ![t] = "none"]
  /\ UNCHANGED <<online, tasks, stack, idle, task_cpu, text, sched_class,
                 bak_class, rq_online, balance_cb, pc, syncVars, ctlVars>>

\* Load balancing moves a queued task to another run queue.
Migrate(t, c) ==
  /\ Running /\ t \in tasks /\ on_rq[t] /\ c \in online
  /\ task_cpu' = [task_cpu EXCEPT ![t] = c]
  /\ UNCHANGED <<online, tasks, stack, idle, on_rq, schedVars, pc, syncVars,
                 ctlVars>>

\* A running thread calls a scheduler function, by its name or through a
\* sched_class, or returns from one.
EnterFn(t, v) ==
  /\ Running /\ t \in tasks /\ on_rq[t] /\ v \in {text, sched_class}
  /\ stack' = [stack EXCEPT ![t] = @ \cup {v}]
  /\ UNCHANGED <<online, tasks, idle, task_cpu, on_rq, schedVars, pc, syncVars,
                 ctlVars>>

LeaveFn(t, v) ==
  /\ Running /\ t \in tasks /\ on_rq[t] /\ v \in stack[t]
  /\ stack' = [stack EXCEPT ![t] = @ \ {v}]
  /\ UNCHANGED <<online, tasks, idle, task_cpu, on_rq, schedVars, pc, syncVars,
                 ctlVars>>

IdleEnterFn(c, v) ==
  /\ Running /\ c \in online /\ v \in {text, sched_class}
  /\ idle' = [idle EXCEPT ![c] = @ \cup {v}]
  /\ UNCHANGED <<online, tasks, stack, task_cpu, on_rq, schedVars, pc, syncVars,
                 ctlVars>>

IdleLeaveFn(c, v) ==
  /\ Running /\ c \in online /\ v \in idle[c]
  /\ idle' = [idle EXCEPT ![c] = @ \ {v}]
  /\ UNCHANGED <<online, tasks, stack, task_cpu, on_rq, schedVars, pc, syncVars,
                 ctlVars>>

\* CPU hotplug takes the cpu_maps mutex.  A CPU that goes down gives its
\* runnable tasks to another one and its idle thread starts afresh next time.
CpuUp(c) ==
  /\ Running /\ ~cpu_maps_locked /\ c \in CPU \ online
  /\ online' = online \cup {c}
  /\ rq_online' = [rq_online EXCEPT ![c] = TRUE]
  /\ UNCHANGED <<tasks, stack, idle, task_cpu, on_rq, text, sched_class,
                 bak_class, holder, balance_cb, pc, syncVars, ctlVars>>

CpuDown(c, d) ==
  /\ Running /\ ~cpu_maps_locked /\ c \in online /\ d \in online \ {c}
  /\ online' = online \ {c}
  /\ rq_online' = [rq_online EXCEPT ![c] = FALSE]
  /\ idle' = [idle EXCEPT ![c] = {}]
  /\ balance_cb' = [balance_cb EXCEPT ![c] = "none"]
  /\ task_cpu' = [t \in Task |-> IF on_rq[t] /\ task_cpu[t] = c THEN d
                                                               ELSE task_cpu[t]]
  /\ UNCHANGED <<tasks, stack, on_rq, text, sched_class, bak_class, holder, pc,
                 syncVars, ctlVars>>

Env ==
  \/ \E t \in Task : Exit(t) \/ Sleep(t)
  \/ \E t \in Task, c \in CPU : Fork(t, c) \/ Wake(t, c) \/ Migrate(t, c)
  \/ \E t \in Task, v \in Version : EnterFn(t, v) \/ LeaveFn(t, v)
  \/ \E c \in CPU, v \in Version : IdleEnterFn(c, v) \/ IdleLeaveFn(c, v)
  \/ \E c \in CPU : CpuUp(c)
  \/ \E c, d \in CPU : CpuDown(c, d)

-------------------------------------------------------------------------------
(***************************************************************************)
(* The updating thread up to stop_machine.                                 *)
(***************************************************************************)
\* load_sched_routine pins the module, then reserves the memory the handlers
\* may need while they cannot allocate.
LoadStart ==
  /\ main = "idle" /\ ~scheduler_enable
  /\ main' = "pools" /\ op' = "install" /\ refcnt' = refcnt + 1
  /\ UNCHANGED <<envVars, schedVars, pc, syncVars, ret, cpu_maps_locked,
                 scheduler_enable, smp, used, view, vi>>

MempoolsCreate ==
  /\ main = "pools"
  /\ main' = "maps_begin"
  /\ smp' = Cardinality(tasks) + PoolSlack /\ used' = 0
  /\ UNCHANGED <<envVars, schedVars, pc, syncVars, op, ret, cpu_maps_locked,
                 scheduler_enable, refcnt, view, vi>>

MempoolsFail ==
  /\ main = "pools"
  /\ main' = "idle" /\ refcnt' = refcnt - 1 /\ ret' = "ENOMEM"
  /\ UNCHANGED <<envVars, schedVars, pc, syncVars, op, cpu_maps_locked,
                 scheduler_enable, smp, used, view, vi>>

UnloadStart ==
  /\ main = "idle" /\ scheduler_enable
  /\ main' = "maps_begin" /\ op' = "restore"
  /\ UNCHANGED <<envVars, schedVars, pc, syncVars, ret, cpu_maps_locked,
                 scheduler_enable, refcnt, smp, used, view, vi>>

\* The mutex is not taken, as before the hotplug fix in ChangeLog.md.
Bug_NoCpuMapsLock ==
  /\ main = "maps_begin"
  /\ main' = "check_init"
  /\ UNCHANGED <<envVars, schedVars, pc, syncVars, op, ret, cpu_maps_locked,
                 scheduler_enable, refcnt, smp, used, view, vi>>

CpuMapsUpdateBegin ==
  /\ main = "maps_begin"
  /\ main' = "check_init" /\ cpu_maps_locked' = TRUE
  /\ UNCHANGED <<envVars, schedVars, pc, syncVars, op, ret, scheduler_enable,
                 refcnt, smp, used, view, vi>>

ParallelStateCheckInit ==
  /\ main = "check_init"
  /\ main' = "id_init"
  /\ cpu_finished' = Cardinality(online)
  /\ clear_finished' = Cardinality(online)
  /\ redirect_finished' = Cardinality(online)
  /\ global_error' = "none"
  /\ UNCHANGED <<envVars, schedVars, pc, process_id, op, ret, cpu_maps_locked,
                 scheduler_enable, refcnt, smp, used, view, vi>>

\* The online CPUs are numbered 0, 1, 2, ... in ascending order.
ProcessIdInit ==
  /\ main = "id_init"
  /\ main' = "stop_machine"
  /\ process_id' = [c \in CPU |-> IF c \in online THEN Rank(c, online)
                                                  ELSE process_id[c]]
  /\ UNCHANGED <<envVars, schedVars, pc, cpu_finished, clear_finished,
                 redirect_finished, global_error, op, ret, cpu_maps_locked,
                 scheduler_enable, refcnt, smp, used, view, vi>>

IsFirstProcess(c) == process_id[c] = 0

\* stop_machine: from here on only the handlers run, one on each online CPU.
StopMachine ==
  /\ main = "stop_machine"
  /\ main' = "stopped"
  /\ pc' = [c \in CPU |->
              IF c \notin online THEN "run"
              ELSE IF op = "install" /\ IsFirstProcess(c) THEN "recheck"
              ELSE "stack"]
  /\ UNCHANGED <<envVars, schedVars, syncVars, op, ret, cpu_maps_locked,
                 scheduler_enable, refcnt, smp, used, view, vi>>

-------------------------------------------------------------------------------
(***************************************************************************)
(* The stop_machine handlers, __sync_sched_install and                     *)
(* __sync_sched_restore.                                                   *)
(***************************************************************************)
\* The CPU c is at the place p of its handler and goes on to q.
Goto(c, p, q) ==
  /\ main = "stopped" /\ c \in online /\ pc[c] = p
  /\ pc' = [pc EXCEPT ![c] = q]

\* atomic_cmpxchg(&global_error, 0, e): the first error stays.
Publish(e) == global_error' = IF global_error = "none" THEN e ELSE global_error

\* recheck_mempool_*: require > obj_num, counted once more now that nothing can
\* be forked.
Bug_PoolOffByOne == Cardinality(tasks) > smp + 1
PoolTooSmall == Cardinality(tasks) > smp

RecheckSmps(c) ==
  /\ Goto(c, "recheck", "stack")
  /\ IF PoolTooSmall THEN Publish("ENOMEM") ELSE UNCHANGED global_error
  /\ UNCHANGED <<envVars, schedVars, process_id, cpu_finished, clear_finished,
                 redirect_finished, ctlVars>>

\* The threads whose stacks CPU c checks: every nr_cpus-th of the tasklist.
Bug_ShareByCpuNumber(c) ==
  {t \in tasks : Rank(t, tasks) % Cardinality(online) = c}
Share(c) ==
  {t \in tasks : Rank(t, tasks) % Cardinality(online) = process_id[c]}

\* The idle thread is forgotten; the functions of the wrong version are sought.
Bug_BusyNoIdle(c) == \E t \in Share(c) : Old(op) \in stack[t]
Bug_BusyWrongVersion(c) ==
  \/ \E t \in Share(c) : New(op) \in stack[t]
  \/ New(op) \in idle[c]
Busy(c) ==
  \/ \E t \in Share(c) : Old(op) \in stack[t]
  \/ Old(op) \in idle[c]

StackCheck(c) ==
  /\ Goto(c, "stack", "report")
  /\ IF Busy(c) THEN Publish("EBUSY") ELSE UNCHANGED global_error
  /\ UNCHANGED <<envVars, schedVars, process_id, cpu_finished, clear_finished,
                 redirect_finished, ctlVars>>

ReportCheck(c) ==
  /\ Goto(c, "report", "wait_check")
  /\ cpu_finished' = cpu_finished - 1
  /\ UNCHANGED <<envVars, schedVars, process_id, clear_finished,
                 redirect_finished, global_error, ctlVars>>

\* atomic_cond_read_relaxed(&counter, !VAL): the spin ends when it reads 0.
Bug_PassedEarly(n) == n <= 1
Passed(n) == n = 0

WaitCheck(c) ==
  /\ Passed(cpu_finished)
  /\ Goto(c, "wait_check", "decide")
  /\ UNCHANGED <<envVars, schedVars, syncVars, ctlVars>>

\* Some CPU found the update impossible: give up before anything changed.
Abort(c) ==
  /\ global_error # "none"
  /\ Goto(c, "decide", "failed")
  /\ clear_finished' = clear_finished - 1
  /\ redirect_finished' = redirect_finished - 1
  /\ UNCHANGED <<envVars, schedVars, process_id, cpu_finished, global_error,
                 ctlVars>>

\* sched_alloc_extrapad on the first CPU of an install.
Proceed(c) ==
  /\ global_error = "none"
  /\ Goto(c, "decide", "clear")
  /\ used' = IF op = "install" /\ IsFirstProcess(c) THEN Cardinality(tasks)
                                                    ELSE used
  /\ UNCHANGED <<envVars, schedVars, syncVars, main, op, ret, cpu_maps_locked,
                 scheduler_enable, refcnt, smp, view, vi>>

\* p->sched_class->dequeue_task takes a task out of its own version's queues
\* only.
Bug_DequeueByNewVersion(h) == IF h = New(op) THEN "none" ELSE h
Dequeue(h) == IF h = sched_class THEN "none" ELSE h

Bug_OnMyRqAsleepToo(t, c) == t \in tasks /\ task_cpu[t] = c
OnMyRq(t, c) == t \in tasks /\ on_rq[t] /\ task_cpu[t] = c

\* Taking tasks off the queue and picking the next one may leave a balance
\* callback behind.  The threads off the tasklist are in SchedRebuild.
ClearSchedState(c) ==
  /\ Goto(c, "clear", "clear_dec")
  /\ rq_online' = [rq_online EXCEPT ![c] = FALSE]
  /\ holder' = [t \in Task |-> IF OnMyRq(t, c) THEN Dequeue(holder[t])
                                               ELSE holder[t]]
  /\ \E cb \in {balance_cb[c], sched_class} :
       balance_cb' = [balance_cb EXCEPT ![c] = cb]
  /\ UNCHANGED <<envVars, text, sched_class, bak_class, syncVars, ctlVars>>

ReportClear(c) ==
  /\ Goto(c, "clear_dec", "wait_clear")
  /\ clear_finished' = clear_finished - 1
  /\ UNCHANGED <<envVars, schedVars, process_id, cpu_finished,
                 redirect_finished, global_error, ctlVars>>

WaitClear(c) ==
  /\ Passed(clear_finished)
  /\ Goto(c, "wait_clear", IF IsFirstProcess(c) THEN "switch" ELSE "redirect_dec")
  /\ UNCHANGED <<envVars, schedVars, syncVars, ctlVars>>

SwitchSchedClass(c) ==
  /\ Goto(c, "switch", "jump")
  /\ IF op = "install"
       THEN bak_class' = sched_class /\ sched_class' = "mod"
       ELSE sched_class' = bak_class /\ UNCHANGED bak_class
  /\ UNCHANGED <<envVars, text, holder, rq_online, balance_cb, syncVars, ctlVars>>

JumpOperation(c) ==
  /\ Goto(c, "jump", "reset")
  /\ text' = New(op)
  /\ UNCHANGED <<envVars, sched_class, bak_class, holder, rq_online, balance_cb,
                 syncVars, ctlVars>>

\* for_each_possible_cpu, not just the CPU that runs the loop.
Bug_ResetOwn(c) == {c}
ResetSet(c) == CPU

ResetBalanceCallback(c) ==
  /\ Goto(c, "reset", "redirect_dec")
  /\ balance_cb' = [d \in CPU |-> IF d \in ResetSet(c) THEN "none"
                                                     ELSE balance_cb[d]]
  /\ UNCHANGED <<envVars, text, sched_class, bak_class, holder, rq_online,
                 syncVars, ctlVars>>

ReportRedirect(c) ==
  /\ Goto(c, "redirect_dec", "wait_redirect")
  /\ redirect_finished' = redirect_finished - 1
  /\ UNCHANGED <<envVars, schedVars, process_id, cpu_finished, clear_finished,
                 global_error, ctlVars>>

WaitRedirect(c) ==
  /\ Passed(redirect_finished)
  /\ Goto(c, "wait_redirect", "rebuild")
  /\ UNCHANGED <<envVars, schedVars, syncVars, ctlVars>>

\* Every queued task of this CPU goes into the queues of the class now in
\* force; the first CPU of a restore then runs sched_free_extrapad.  The first
\* CPU also re-arms the bandwidth timers, none of whose state is kept here.
RebuildSchedState(c) ==
  /\ Goto(c, "rebuild", "done")
  /\ rq_online' = [rq_online EXCEPT ![c] = TRUE]
  /\ holder' = [t \in Task |-> IF OnMyRq(t, c) THEN sched_class ELSE holder[t]]
  /\ used' = IF op = "restore" /\ IsFirstProcess(c) THEN 0 ELSE used
  /\ UNCHANGED <<envVars, text, sched_class, bak_class, balance_cb, syncVars,
                 main, op, ret, cpu_maps_locked, scheduler_enable, refcnt, smp,
                 view, vi>>

Handler(c) ==
  \/ RecheckSmps(c) \/ StackCheck(c) \/ ReportCheck(c) \/ WaitCheck(c)
  \/ Abort(c) \/ Proceed(c)
  \/ ClearSchedState(c) \/ ReportClear(c) \/ WaitClear(c)
  \/ SwitchSchedClass(c) \/ JumpOperation(c) \/ ResetBalanceCallback(c)
  \/ ReportRedirect(c) \/ WaitRedirect(c) \/ RebuildSchedState(c)

-------------------------------------------------------------------------------
(***************************************************************************)
(* The updating thread from the return of stop_machine on.                 *)
(***************************************************************************)
\* stop_machine returns when every handler has, with an error if one had one.
StopMachineReturn ==
  /\ main = "stopped"
  /\ \A c \in online : pc[c] \in {"done", "failed"}
  /\ main' = "maps_done"
  /\ ret' = IF \E c \in online : pc[c] = "failed" THEN global_error ELSE "none"
  /\ pc' = [c \in CPU |-> "run"]
  /\ UNCHANGED <<envVars, schedVars, syncVars, op, cpu_maps_locked,
                 scheduler_enable, refcnt, smp, used, view, vi>>

CpuMapsUpdateDone ==
  /\ main = "maps_done"
  /\ cpu_maps_locked' = FALSE
  /\ main' = IF ret = "none" THEN "views" ELSE "fail"
  /\ vi' = 1
  /\ UNCHANGED <<envVars, schedVars, pc, syncVars, op, ret, scheduler_enable,
                 refcnt, smp, used, view>>

\* A failed load gives back what it took; a failed unload keeps it.
Bug_AlwaysReleases(o) == TRUE
Bug_NeverReleases(o) == FALSE
ReleasesOnFailure(o) == o = "install"

FailCleanup ==
  /\ main = "fail"
  /\ main' = "idle"
  /\ IF ReleasesOnFailure(op) THEN smp' = -1 /\ refcnt' = refcnt - 1
                              ELSE UNCHANGED <<smp, refcnt>>
  /\ UNCHANGED <<envVars, schedVars, pc, syncVars, op, ret, cpu_maps_locked,
                 scheduler_enable, used, view, vi>>

\* One of the (install|restore)_* functions: the old view is removed, and the
\* return value of the creation of the new one is ignored.
ReplaceView ==
  /\ main = "views" /\ vi \in View
  /\ \E v \in {New(op), "none"} : view' = [view EXCEPT ![vi] = v]
  /\ vi' = vi + 1
  /\ UNCHANGED <<envVars, schedVars, pc, syncVars, main, op, ret,
                 cpu_maps_locked, scheduler_enable, refcnt, smp, used>>

FinishLoad ==
  /\ main = "views" /\ vi \notin View /\ op = "install"
  /\ main' = "idle" /\ scheduler_enable' = TRUE
  /\ UNCHANGED <<envVars, schedVars, pc, syncVars, op, ret, cpu_maps_locked,
                 refcnt, smp, used, view, vi>>

FinishUnload ==
  /\ main = "views" /\ vi \notin View /\ op = "restore"
  /\ main' = "idle" /\ scheduler_enable' = FALSE
  /\ smp' = -1 /\ refcnt' = refcnt - 1
  /\ UNCHANGED <<envVars, schedVars, pc, syncVars, op, ret, cpu_maps_locked,
                 used, view, vi>>

Request == LoadStart \/ UnloadStart

Update ==
  \/ MempoolsCreate \/ MempoolsFail
  \/ CpuMapsUpdateBegin \/ ParallelStateCheckInit \/ ProcessIdInit
  \/ StopMachine \/ StopMachineReturn
  \/ CpuMapsUpdateDone \/ FailCleanup
  \/ ReplaceView \/ FinishLoad \/ FinishUnload

Next == Env \/ Request \/ Update \/ \E c \in CPU : Handler(c)

Spec == Init /\ [][Next]_vars

(***************************************************************************)
(* The stopper threads run at the highest priority with interrupts off, and *)
(* the updating thread is an ordinary runnable thread: both make progress.  *)
(* Nothing obliges anyone to ask for an update, or a task to do anything.   *)
(***************************************************************************)
FairSpec ==
  /\ Spec
  /\ WF_vars(Update)
  /\ \A c \in CPU : WF_vars(Handler(c))

-------------------------------------------------------------------------------
(***************************************************************************)
(* Properties.                                                             *)
(***************************************************************************)
\* No thread, and no CPU's idle thread, is ever inside a function of a version
\* that is not in force: the parallel stack check of stack_check.h saw every
\* stack before JUMP_OPERATION redirected the calls.
NoStaleFrames ==
  /\ \A t \in tasks : stack[t] \subseteq {text}
  /\ \A c \in CPU : idle[c] \subseteq {text}

\* While tasks run, the class tables and the redirected functions are the same
\* version, every queued task sits in that version's queues and every online
\* CPU's run queue is online: clear_sched_state and rebuild_sched_state lost
\* and duplicated nothing across the switch, and hotplug did not disturb them.
RunQueuesRestored ==
  Running =>
    /\ sched_class = text
    /\ text = "mod" => bak_class = "orig"
    /\ \A t \in Task : holder[t] = IF t \in tasks /\ on_rq[t] THEN text ELSE "none"
    /\ \A c \in CPU : rq_online[c] <=> c \in online

\* No balance callback of the replaced version is pending once tasks run again,
\* on any CPU: reset_balance_callback dropped what clear_sched_state queued.
NoStaleCallback ==
  Running => \A c \in CPU : balance_cb[c] \in {"none", text}

\* Either every handler goes through with the update or every one gives up:
\* all of them read the same global_error after the first barrier.
Unanimous ==
  \A c, d \in CPU :
    pc[c] = "failed" =>
      pc[d] \in {"run", "wait_check", "decide", "failed"}

\* Once all CPUs are stopped, the stack of each live thread is the share of
\* exactly one of them, although the CPU numbers have holes and tasks and CPUs
\* came and went up to the last moment.
EveryTaskChecked ==
  main = "stopped" =>
    \A t \in tasks : \E c \in online :
      /\ t \in Share(c)
      /\ \A d \in online : t \in Share(d) => d = c

\* The module cannot be removed while calls, class tables, views, pending
\* callbacks or stack frames lead into it (the reference load_sched_routine
\* takes "to avoid rmmod before disable").
ModulePinned ==
  (\/ text = "mod" \/ sched_class = "mod"
   \/ \E v \in View : view[v] = "mod"
   \/ \E c \in CPU : balance_cb[c] = "mod" \/ "mod" \in idle[c]
   \/ \E t \in tasks : "mod" \in stack[t]) => refcnt >= 1

\* sched_alloc_extrapad never takes more objects than the pool has: tasks forked
\* after sched_mempools_create are caught by recheck_smps.
AllocWithinPool == used > 0 => used <= smp

\* Between updates the flag the sysfs file shows, the version in force, the
\* reference count and the memory pool agree, whatever failed on the way.
FlagHonest ==
  main = "idle" =>
    /\ scheduler_enable <=> text = "mod"
    /\ scheduler_enable <=> smp # -1
    /\ refcnt = IF scheduler_enable THEN 1 ELSE 0
    /\ ~cpu_maps_locked

\* The reference and the flag keep step with the version, through any sequence of
\* enabling and disabling with failures in between.
ReferenceHonest == ModulePinned /\ FlagHonest

\* An update that reports an error has changed nothing: the version in force,
\* the views and the pool are those from before the request.
FailedUpdateHarmless ==
  main = "fail" =>
    /\ text = Old(op) /\ sched_class = Old(op)
    /\ \A v \in View : view[v] # New(op)
    /\ op = "install" => used = 0

\* Calls and class tables are redirected only while no task is in any queue and
\* every online CPU is past its stack check and has its run queue offline.
RedirectQuiescent ==
  [][text' # text \/ sched_class' # sched_class =>
       /\ \A t \in Task : holder[t] = "none"
       /\ \A c \in online : ~rq_online[c]
       /\ global_error = "none"]_vars

\* The machine does not stay stopped: no CPU waits for ever at one of the three
\* barriers, with success or with an error.
UpdateTerminates == main = "stopped" ~> main # "stopped"

(***************************************************************************)
(* Seen from outside, the update is one step: it happens when the calls    *)
(* are redirected.  Inside stop_machine a queued task counts as held by    *)
(* the version in force, as nothing can observe its queue.                 *)
(***************************************************************************)
HolderSeen ==
  IF Running THEN holder
  ELSE [t \in Task |-> IF t \in tasks /\ on_rq[t] THEN text ELSE "none"]

LU == INSTANCE LiveUpdate WITH sched <- text, holder <- HolderSeen

\* The protocol implements the atomic live update.
ImplementsLiveUpdate == LU!Spec
===============================================================================
