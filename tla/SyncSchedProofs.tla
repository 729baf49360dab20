---------------------------- MODULE SyncSchedProofs ----------------------------
(***************************************************************************)
(* IInv is an inductive invariant of SyncSched, for any finite sets of     *)
(* CPUs and tasks; the safety properties follow from it, and so does that  *)
(* SyncSched implements LiveUpdate.                                        *)
(***************************************************************************)
EXTENDS SyncSchedInd, FiniteSetTheorems, TLAPS

-------------------------------------------------------------------------------
(***************************************************************************)
(* Ranks and cardinalities.                                                *)
(***************************************************************************)
LEMMA RankRange ==
  ASSUME NEW S \in SUBSET Nat, IsFiniteSet(S), NEW x \in S
  PROVE  /\ Rank(x, S) \in Nat
         /\ Rank(x, S) < Cardinality(S)
<1> DEFINE B == {y \in S : y < x}
<1>1. B \in SUBSET S /\ B # S
  OBVIOUS
<1>2. IsFiniteSet(B) /\ Cardinality(B) <= Cardinality(S)
  BY <1>1, FS_Subset
<1>3. Cardinality(B) # Cardinality(S)
  BY <1>1, FS_Subset
<1>4. Cardinality(B) \in Nat /\ Cardinality(S) \in Nat
  BY <1>2, FS_CardinalityType
<1> QED
  BY <1>2, <1>3, <1>4 DEF Rank

LEMMA RankMono ==
  ASSUME NEW S \in SUBSET Nat, IsFiniteSet(S), NEW x \in S, NEW z \in S, x < z
  PROVE  Rank(x, S) < Rank(z, S)
<1> DEFINE B == {y \in S : y < x}
           C == {y \in S : y < z}
<1>1. B \in SUBSET C /\ C \in SUBSET S
  <2>1. \A y \in S : y < x => y < z
    OBVIOUS
  <2> QED
    BY <2>1
<1>5. x \in C /\ x \notin B
  OBVIOUS
<1>6. B # C
  BY <1>5
<1>2. IsFiniteSet(C)
  BY <1>1, FS_Subset
<1>3. IsFiniteSet(B) /\ Cardinality(B) <= Cardinality(C) /\ Cardinality(B) # Cardinality(C)
  BY <1>1, <1>2, <1>6, FS_Subset
<1>4. Cardinality(B) \in Nat /\ Cardinality(C) \in Nat
  BY <1>2, <1>3, FS_CardinalityType
<1> QED
  BY <1>3, <1>4 DEF Rank

LEMMA RankInjective ==
  ASSUME NEW S \in SUBSET Nat, IsFiniteSet(S), NEW x \in S, NEW z \in S,
         Rank(x, S) = Rank(z, S)
  PROVE  x = z
<1>1. x < z \/ z < x \/ x = z
  OBVIOUS
<1>2. Rank(x, S) \in Nat /\ Rank(z, S) \in Nat
  BY RankRange
<1> QED
  BY <1>1, <1>2, RankMono

LEMMA RankSurjective ==
  ASSUME NEW S \in SUBSET Nat, IsFiniteSet(S),
         NEW i \in Nat, i < Cardinality(S)
  PROVE  \E x \in S : Rank(x, S) = i
<1> DEFINE n == Cardinality(S)
           R == 0 .. n - 1
           f == [x \in S |-> Rank(x, S)]
<1>1. n \in Nat
  BY FS_CardinalityType
<1>2. f \in [S -> R]
  BY <1>1, RankRange
<1>3. f \in Injection(S, R)
  BY <1>2, RankInjective DEF Injection, IsInjective
<1>4. IsFiniteSet(R) /\ Cardinality(R) = n
  <2>1. 0 \in Int /\ n - 1 \in Int /\ ~(0 > n - 1) /\ (n - 1) - 0 + 1 = n
    BY <1>1
  <2>2. IsFiniteSet(R) /\ Cardinality(R) = IF 0 > n - 1 THEN 0 ELSE (n - 1) - 0 + 1
    <3> HIDE DEF n
    <3> QED BY <2>1, FS_Interval
  <2> QED
    BY <2>1, <2>2
<1>5. f \in Surjection(S, R)
  BY <1>3, <1>4, FS_Injection
<1>6. i \in R
  BY <1>1
<1> QED
  BY <1>5, <1>6 DEF Surjection

LEMMA ModRange ==
  ASSUME NEW r \in Nat, NEW n \in Nat, n > 0
  PROVE  r % n \in Nat /\ r % n < n
OBVIOUS

LEMMA FiniteParts ==
  ASSUME TypeOK
  PROVE  /\ IsFiniteSet(online) /\ online \in SUBSET Nat
         /\ IsFiniteSet(tasks) /\ tasks \in SUBSET Nat
         /\ Cardinality(online) \in Nat /\ Cardinality(tasks) \in Nat
         /\ \A P : IsFiniteSet(AtPlaces(P))
<1>1. online \in SUBSET CPU /\ tasks \in SUBSET Task
  BY DEF TypeOK, EnvTypeOK
<1>2. IsFiniteSet(online) /\ IsFiniteSet(tasks)
  BY <1>1, FS_Subset, CPUAssumption, TaskAssumption
<1>3. \A P : AtPlaces(P) \in SUBSET online
  BY DEF AtPlaces
<1> QED
  BY <1>1, <1>2, <1>3, FS_Subset, FS_CardinalityType, CPUAssumption, TaskAssumption


-------------------------------------------------------------------------------
(***************************************************************************)
(* The initial states.                                                     *)
(***************************************************************************)
LEMMA InitIInv == Init => IInv
<1> SUFFICES ASSUME Init PROVE IInv
  OBVIOUS
<1> USE DEF Init
<1>1. EnvTypeOK
  BY DEF EnvTypeOK
<1>2. SchedTypeOK
  BY DEF SchedTypeOK, Version, Holder
<1>3. SyncTypeOK
  BY DEF SyncTypeOK, Error, PC
<1>4. CtlTypeOK
  <2>1. vi \in 1 .. NView + 1
    BY BoundAssumption
  <2>2. view \in [View -> Holder]
    BY DEF Holder
  <2>3. main \in Main /\ op \in {"install", "restore"} /\ ret \in Error
    BY DEF Main, Error
  <2>4. cpu_maps_locked \in BOOLEAN /\ scheduler_enable \in BOOLEAN
    OBVIOUS
  <2>5. refcnt \in Nat /\ smp \in Int /\ used \in Nat
    OBVIOUS
  <2> QED
    BY <2>1, <2>2, <2>3, <2>4, <2>5 DEF CtlTypeOK
<1>5. TypeOK
  BY <1>1, <1>2, <1>3, <1>4 DEF TypeOK
<1>6. ControlInv
  BY DEF ControlInv
<1>7. PhaseInv
  BY DEF PhaseInv, Stopped
<1>8. CounterInv /\ IdInv /\ CheckInv
  BY DEF CounterInv, IdInv, CheckInv, Stopped, Switching
<1>9. BarrierInv
  BY DEF BarrierInv, PastCheck, PastClear, PastRedirect, Clearing, Redirecting,
         Switching, Rebuilding
<1>10. FrameInv
  BY DEF FrameInv, NoStaleFrames
<1>11. VersionInv
  BY DEF VersionInv, Stopped
<1>12. QueueInv
  BY DEF QueueInv, Running, Stopped, Unqueued, Redirecting, Switching
<1>13. CallbackInv
  BY DEF CallbackInv, Stopped
<1>14. ViewInv /\ PoolInv
  BY DEF ViewInv, PoolInv, AllocWithinPool, Stopped
<1> QED
  BY <1>5, <1>6, <1>7, <1>8, <1>9, <1>10, <1>11, <1>12, <1>13, <1>14 DEF IInv

-------------------------------------------------------------------------------
(***************************************************************************)
(* The rest of the kernel.                                                 *)
(***************************************************************************)
\* What no task or hotplug step touches.
LEMMA EnvFrame ==
  ASSUME Env
  PROVE  /\ Running
         /\ UNCHANGED <<text, sched_class, bak_class, pc, syncVars, ctlVars>>
         /\ cpu_maps_locked => online' = online
BY DEF Env, Exit, Sleep, Fork, Wake, Migrate, EnterFn, LeaveFn, IdleEnterFn,
       IdleLeaveFn, CpuUp, CpuDown, envVars, schedVars

LEMMA EnvTypes ==
  ASSUME EnvTypeOK, SchedTypeOK, Env
  PROVE  EnvTypeOK' /\ SchedTypeOK'
<1> USE DEF EnvTypeOK, SchedTypeOK, envVars, schedVars
<1>1. ASSUME NEW t \in Task, Exit(t) \/ Sleep(t)
      PROVE  EnvTypeOK' /\ SchedTypeOK'
  BY <1>1 DEF Exit, Sleep, Holder
<1>2. ASSUME NEW t \in Task, NEW c \in CPU, Fork(t, c) \/ Wake(t, c)
      PROVE  EnvTypeOK' /\ SchedTypeOK'
  <2>1. CASE Fork(t, c)
    BY <2>1 DEF Fork
  <2>2. CASE Wake(t, c)
    BY <2>2 DEF Wake
  <2> QED
    BY <1>2, <2>1, <2>2
<1>3. ASSUME NEW t \in Task, NEW c \in CPU, Migrate(t, c)
      PROVE  EnvTypeOK' /\ SchedTypeOK'
  BY <1>3 DEF Migrate
<1>4. ASSUME NEW t \in Task, NEW v \in Version, EnterFn(t, v) \/ LeaveFn(t, v)
      PROVE  EnvTypeOK' /\ SchedTypeOK'
  BY <1>4 DEF EnterFn, LeaveFn
<1>5. ASSUME NEW c \in CPU, NEW v \in Version,
             IdleEnterFn(c, v) \/ IdleLeaveFn(c, v)
      PROVE  EnvTypeOK' /\ SchedTypeOK'
  BY <1>5 DEF IdleEnterFn, IdleLeaveFn
<1>6. ASSUME NEW c \in CPU, CpuUp(c)
      PROVE  EnvTypeOK' /\ SchedTypeOK'
  BY <1>6 DEF CpuUp
<1>7. ASSUME NEW c \in CPU, NEW d \in CPU, CpuDown(c, d)
      PROVE  EnvTypeOK' /\ SchedTypeOK'
  BY <1>7 DEF CpuDown, Holder
<1> QED
  BY <1>1, <1>2, <1>3, <1>4, <1>5, <1>6, <1>7 DEF Env

\* While the machine runs no CPU is in a handler.
LEMMA NobodyInHandler ==
  ASSUME PhaseInv, Running, NEW c \in CPU
  PROVE  pc[c] = "run"
BY DEF PhaseInv, Running, Stopped

LEMMA EnvFrames ==
  ASSUME TypeOK, FrameInv, VersionInv, Env
  PROVE  FrameInv'
<1> USE DEF TypeOK, EnvTypeOK, SchedTypeOK, FrameInv, NoStaleFrames, VersionInv,
           envVars, schedVars
<1>1. ASSUME NEW t \in Task, Exit(t) \/ Sleep(t)
      PROVE  FrameInv'
  BY <1>1 DEF Exit, Sleep
<1>2. ASSUME NEW t \in Task, NEW c \in CPU,
             Fork(t, c) \/ Wake(t, c) \/ Migrate(t, c)
      PROVE  FrameInv'
  BY <1>2 DEF Fork, Wake, Migrate
<1>3. ASSUME NEW t \in Task, NEW v \in Version, EnterFn(t, v) \/ LeaveFn(t, v)
      PROVE  FrameInv'
  BY <1>3 DEF EnterFn, LeaveFn
<1>4. ASSUME NEW c \in CPU, NEW v \in Version,
             IdleEnterFn(c, v) \/ IdleLeaveFn(c, v)
      PROVE  FrameInv'
  BY <1>4 DEF IdleEnterFn, IdleLeaveFn
<1>5. ASSUME NEW c \in CPU, CpuUp(c)
      PROVE  FrameInv'
  BY <1>5 DEF CpuUp
<1>6. ASSUME NEW c \in CPU, NEW d \in CPU, CpuDown(c, d)
      PROVE  FrameInv'
  BY <1>6 DEF CpuDown
<1> QED
  BY <1>1, <1>2, <1>3, <1>4, <1>5, <1>6 DEF Env

\* QueueInv and CallbackInv as they read while the machine runs.
RunningQueues ==
  /\ \A t \in Task : on_rq[t] => t \in tasks /\ task_cpu[t] \in online
  /\ \A t \in Task : ~on_rq[t] => holder[t] = "none"
  /\ \A t \in Task : on_rq[t] => holder[t] = text
  /\ \A c \in CPU : rq_online[c] <=> c \in online
  /\ \A c \in CPU : balance_cb[c] \in {"none", text}

LEMMA RunningQueuesEquiv ==
  ASSUME PhaseInv, Running
  PROVE  RunningQueues <=> QueueInv /\ CallbackInv
<1>1. \A c \in CPU : pc[c] \notin Unqueued
  BY NobodyInHandler DEF Unqueued, Redirecting, Switching
<1> QED
  BY <1>1 DEF RunningQueues, QueueInv, CallbackInv, Running, Stopped

LEMMA EnvQueues ==
  ASSUME TypeOK, RunningQueues, VersionInv, Env
  PROVE  RunningQueues'
<1> USE DEF TypeOK, EnvTypeOK, SchedTypeOK, RunningQueues, VersionInv, envVars,
           schedVars
<1>1. ASSUME NEW t \in Task, Exit(t) \/ Sleep(t)
      PROVE  RunningQueues'
  BY <1>1 DEF Exit, Sleep
<1>2. ASSUME NEW t \in Task, NEW c \in CPU, Fork(t, c) \/ Wake(t, c)
      PROVE  RunningQueues'
  BY <1>2 DEF Fork, Wake
<1>3. ASSUME NEW t \in Task, NEW c \in CPU, Migrate(t, c)
      PROVE  RunningQueues'
  BY <1>3 DEF Migrate
<1>4. ASSUME NEW t \in Task, NEW v \in Version, EnterFn(t, v) \/ LeaveFn(t, v)
      PROVE  RunningQueues'
  BY <1>4 DEF EnterFn, LeaveFn
<1>5. ASSUME NEW c \in CPU, NEW v \in Version,
             IdleEnterFn(c, v) \/ IdleLeaveFn(c, v)
      PROVE  RunningQueues'
  BY <1>5 DEF IdleEnterFn, IdleLeaveFn
<1>6. ASSUME NEW c \in CPU, CpuUp(c)
      PROVE  RunningQueues'
  BY <1>6 DEF CpuUp
<1>7. ASSUME NEW c \in CPU, NEW d \in CPU, CpuDown(c, d)
      PROVE  RunningQueues'
  BY <1>7 DEF CpuDown
<1> QED
  BY <1>1, <1>2, <1>3, <1>4, <1>5, <1>6, <1>7 DEF Env

LEMMA EnvStep ==
  ASSUME IInv, Env
  PROVE  IInv'
<1> USE DEF IInv
<1>1. /\ Running /\ main # "stopped"
      /\ UNCHANGED <<text, sched_class, bak_class, pc, syncVars, ctlVars>>
      /\ cpu_maps_locked => online' = online
  BY EnvFrame DEF Running
<1>2. TypeOK'
  <2>1. EnvTypeOK' /\ SchedTypeOK'
    BY EnvTypes DEF TypeOK
  <2>2. SyncTypeOK' /\ CtlTypeOK'
    BY <1>1 DEF TypeOK, SyncTypeOK, CtlTypeOK, syncVars, ctlVars
  <2> QED
    BY <2>1, <2>2 DEF TypeOK
<1>3. ControlInv'
  <2>1. online' # {}
    BY DEF ControlInv, Env, Exit, Sleep, Fork, Wake, Migrate, EnterFn, LeaveFn,
           IdleEnterFn, IdleLeaveFn, CpuUp, CpuDown, envVars
  <2> QED
    BY <1>1, <2>1 DEF ControlInv, ctlVars
<1>4. PhaseInv'
  BY <1>1 DEF PhaseInv, Stopped, ctlVars
<1>5. CounterInv' /\ IdInv' /\ CheckInv'
  <2>1. main \in {"id_init", "stop_machine"} => online' = online
    BY <1>1 DEF ControlInv
  <2> QED
    BY <1>1, <2>1 DEF CounterInv, IdInv, IsFirstProcess, CheckInv, Stopped,
                      syncVars, ctlVars
<1>6. BarrierInv' /\ ViewInv'
  BY <1>1 DEF BarrierInv, ViewInv, syncVars, ctlVars
<1>7. FrameInv'
  BY EnvFrames
<1>8. VersionInv'
  BY <1>1 DEF VersionInv, Running, Stopped, ctlVars
<1>9. QueueInv' /\ CallbackInv'
  <2>1. RunningQueues'
    BY <1>1, EnvQueues, RunningQueuesEquiv
  <2>2. Running'
    BY <1>1 DEF Running, ctlVars
  <2>3. \A c \in CPU : pc'[c] \notin Unqueued
    BY <1>1, NobodyInHandler DEF Unqueued, Redirecting, Switching
  <2> QED
    BY <2>1, <2>2, <2>3 DEF RunningQueues, QueueInv, CallbackInv, Running, Stopped
<1>10. PoolInv'
  BY <1>1 DEF PoolInv, AllocWithinPool, Stopped, ctlVars
<1> QED
  BY <1>2, <1>3, <1>4, <1>5, <1>6, <1>7, <1>8, <1>9, <1>10

-------------------------------------------------------------------------------
(***************************************************************************)
(* The updating thread outside stop_machine.                               *)
(***************************************************************************)
\* A step of the updating thread that begins and ends outside stop_machine and
\* leaves the scheduler, the handlers and the tasks alone keeps what is said of
\* these.
LEMMA QuietStep ==
  ASSUME IInv, Running, Running', UNCHANGED <<envVars, schedVars, pc>>
  PROVE  /\ EnvTypeOK' /\ SchedTypeOK' /\ PhaseInv'
         /\ CheckInv' /\ FrameInv' /\ QueueInv' /\ CallbackInv'
<1> USE DEF IInv, TypeOK, Running, Stopped, envVars, schedVars
<1>1. EnvTypeOK' /\ SchedTypeOK'
  BY DEF EnvTypeOK, SchedTypeOK
<1>2. PhaseInv'
  BY DEF PhaseInv
<1>3. CheckInv' /\ FrameInv'
  BY DEF CheckInv, FrameInv, NoStaleFrames
<1>4. QueueInv' /\ CallbackInv'
  BY DEF QueueInv, CallbackInv
<1> QED
  BY <1>1, <1>2, <1>3, <1>4

LEMMA QuietBarrier ==
  ASSUME IInv, Running, UNCHANGED pc
  PROVE  BarrierInv'
<1>1. \A c \in CPU : pc'[c] = "run"
  BY NobodyInHandler DEF IInv
<1> QED
  BY <1>1 DEF BarrierInv, PastCheck, PastClear, PastRedirect, Clearing,
              Redirecting, Switching, Rebuilding

LEMMA RequestStep ==
  ASSUME IInv, Request
  PROVE  IInv'
<1> USE DEF IInv
<1>1. PICK m \in {"pools", "maps_begin"} :
        /\ main = "idle" /\ main' = m
        /\ UNCHANGED <<envVars, schedVars, pc, syncVars, ret, cpu_maps_locked,
                       scheduler_enable, smp, used, view, vi>>
        /\ m = "pools" => op' = "install" /\ refcnt' = refcnt + 1 /\ ~scheduler_enable
        /\ m = "maps_begin" => op' = "restore" /\ refcnt' = refcnt /\ scheduler_enable
  BY DEF Request, LoadStart, UnloadStart
<1>2. /\ EnvTypeOK' /\ SchedTypeOK' /\ PhaseInv' /\ BarrierInv'
      /\ CheckInv' /\ FrameInv' /\ QueueInv' /\ CallbackInv'
  BY <1>1, QuietStep, QuietBarrier DEF Running
<1>3. SyncTypeOK' /\ CtlTypeOK'
  BY <1>1 DEF TypeOK, SyncTypeOK, CtlTypeOK, Main, syncVars
<1>4. ControlInv'
  BY <1>1 DEF ControlInv, TypeOK, CtlTypeOK, envVars
<1>5. CounterInv'
  BY <1>1 DEF CounterInv, Stopped
<1>6. IdInv'
  BY <1>1, NobodyInHandler DEF IdInv, Running, Switching
<1>7. VersionInv'
  BY <1>1 DEF VersionInv, Running, Stopped, Old, TypeOK, SchedTypeOK, Version,
              schedVars
<1>8. ViewInv'
  BY <1>1 DEF ViewInv
<1>9. PoolInv'
  BY <1>1 DEF PoolInv, AllocWithinPool, Stopped
<1> QED
  BY <1>2, <1>3, <1>4, <1>5, <1>6, <1>7, <1>8, <1>9 DEF TypeOK

\* The steps of the updating thread before and after stop_machine.
LEMMA PrepareStep ==
  ASSUME IInv,
         \/ MempoolsCreate \/ MempoolsFail \/ CpuMapsUpdateBegin
         \/ ParallelStateCheckInit \/ ProcessIdInit
  PROVE  IInv'
<1> USE DEF IInv
<1>1. /\ Running /\ Running'
      /\ UNCHANGED <<envVars, schedVars, pc, op, scheduler_enable, view, vi>>
  BY DEF MempoolsCreate, MempoolsFail, CpuMapsUpdateBegin,
         ParallelStateCheckInit, ProcessIdInit, Running
<1>2. /\ EnvTypeOK' /\ SchedTypeOK' /\ PhaseInv' /\ BarrierInv'
      /\ CheckInv' /\ FrameInv' /\ QueueInv' /\ CallbackInv'
  BY <1>1, QuietStep, QuietBarrier
<1>3. /\ Cardinality(online) \in Nat /\ Cardinality(tasks) \in Nat
      /\ \A c \in online : Rank(c, online) \in Nat
  BY FiniteParts, RankRange
<1>4. SyncTypeOK'
  <2>1. process_id' \in [CPU -> Nat]
    BY <1>3 DEF MempoolsCreate, MempoolsFail, CpuMapsUpdateBegin,
         ParallelStateCheckInit, ProcessIdInit, TypeOK, SyncTypeOK, syncVars
  <2> QED
    BY <1>3, <2>1 DEF MempoolsCreate, MempoolsFail, CpuMapsUpdateBegin,
         ParallelStateCheckInit, ProcessIdInit, TypeOK, SyncTypeOK, syncVars, Error
<1>5. CtlTypeOK'
  <2>1. refcnt' \in Nat
    BY DEF MempoolsCreate, MempoolsFail, CpuMapsUpdateBegin,
           ParallelStateCheckInit, ProcessIdInit, TypeOK, CtlTypeOK, ControlInv
  <2>2. smp' \in Int /\ used' \in Nat
    BY <1>3, BoundAssumption
       DEF MempoolsCreate, MempoolsFail, CpuMapsUpdateBegin,
           ParallelStateCheckInit, ProcessIdInit, TypeOK, CtlTypeOK
  <2>3. main' \in Main /\ ret' \in Error /\ cpu_maps_locked' \in BOOLEAN
    BY DEF MempoolsCreate, MempoolsFail, CpuMapsUpdateBegin,
           ParallelStateCheckInit, ProcessIdInit, TypeOK, CtlTypeOK, Main, Error
  <2> QED
    BY <1>1, <2>1, <2>2, <2>3 DEF TypeOK, CtlTypeOK
<1>6. ControlInv'
  BY <1>1, <1>3, BoundAssumption DEF MempoolsCreate, MempoolsFail, CpuMapsUpdateBegin,
         ParallelStateCheckInit, ProcessIdInit, TypeOK, CtlTypeOK,
         ControlInv, envVars
<1>7. CounterInv'
  BY <1>1 DEF MempoolsCreate, MempoolsFail, CpuMapsUpdateBegin,
         ParallelStateCheckInit, ProcessIdInit, CounterInv, Stopped, envVars
<1>8. IdInv'
  <2>1. \A c \in CPU : pc'[c] = "run"
    BY <1>1, NobodyInHandler
  <2>2. main' \in {"stop_machine", "stopped"} =>
          \A c \in online' : process_id'[c] = Rank(c, online')
    BY <1>1 DEF MempoolsCreate, MempoolsFail, CpuMapsUpdateBegin,
         ParallelStateCheckInit, ProcessIdInit, TypeOK, EnvTypeOK, envVars
  <2> QED
    BY <2>1, <2>2 DEF IdInv, Switching
<1>9. VersionInv'
  BY <1>1 DEF MempoolsCreate, MempoolsFail, CpuMapsUpdateBegin,
         ParallelStateCheckInit, ProcessIdInit, VersionInv, Running, Stopped, Old,
         ControlInv, schedVars
<1>10. ViewInv'
  BY <1>1 DEF MempoolsCreate, MempoolsFail, CpuMapsUpdateBegin,
         ParallelStateCheckInit, ProcessIdInit, ViewInv
<1>11. PoolInv'
  BY <1>1 DEF MempoolsCreate, MempoolsFail, CpuMapsUpdateBegin,
         ParallelStateCheckInit, ProcessIdInit, PoolInv, AllocWithinPool,
         Stopped, ControlInv
<1> QED
  BY <1>2, <1>4, <1>5, <1>6, <1>7, <1>8, <1>9, <1>10, <1>11 DEF TypeOK

LEMMA ConcludeStep ==
  ASSUME IInv,
         \/ CpuMapsUpdateDone \/ FailCleanup \/ ReplaceView \/ FinishLoad
         \/ FinishUnload
  PROVE  IInv'
<1> USE DEF IInv
<1>1. /\ Running /\ Running' /\ main' \in {"idle", "views", "fail"}
      /\ UNCHANGED <<envVars, schedVars, pc, syncVars, op, used>>
  BY DEF CpuMapsUpdateDone, FailCleanup, ReplaceView, FinishLoad, FinishUnload,
         Running
<1>2. /\ EnvTypeOK' /\ SchedTypeOK' /\ PhaseInv' /\ BarrierInv'
      /\ CheckInv' /\ FrameInv' /\ QueueInv' /\ CallbackInv'
  BY <1>1, QuietStep, QuietBarrier
<1>3. SyncTypeOK'
  BY <1>1 DEF TypeOK, SyncTypeOK, syncVars
<1>4. CtlTypeOK'
  <2>1. vi' \in 1 .. NView + 1 /\ view' \in [View -> Holder]
    BY BoundAssumption DEF CpuMapsUpdateDone, FailCleanup, ReplaceView, FinishLoad,
         FinishUnload, TypeOK, CtlTypeOK, View, Holder, New
  <2>2. refcnt' \in Nat /\ smp' \in Int
    BY DEF CpuMapsUpdateDone, FailCleanup, ReplaceView, FinishLoad,
         FinishUnload, TypeOK, CtlTypeOK, ControlInv
  <2> QED
    BY <1>1, <2>1, <2>2 DEF CpuMapsUpdateDone, FailCleanup, ReplaceView, FinishLoad,
         FinishUnload, TypeOK, CtlTypeOK, Main
<1>5. ControlInv'
  BY <1>1 DEF CpuMapsUpdateDone, FailCleanup, ReleasesOnFailure, ReplaceView, FinishLoad,
         FinishUnload, TypeOK, CtlTypeOK, ControlInv, envVars
<1>6. CounterInv' /\ IdInv'
  BY <1>1, NobodyInHandler DEF CounterInv, IdInv, Stopped, Switching
<1>7. VersionInv'
  BY <1>1 DEF CpuMapsUpdateDone, FailCleanup, ReplaceView, FinishLoad,
         FinishUnload, VersionInv, Running, Stopped, Old, New, ControlInv, schedVars,
         TypeOK, CtlTypeOK
<1>8. ViewInv'
  <2>1. CASE ReplaceView
    BY <2>1 DEF ReplaceView, ViewInv, View, Old, New, TypeOK, CtlTypeOK
  <2>2. CASE CpuMapsUpdateDone
    BY <2>2 DEF CpuMapsUpdateDone, ViewInv, View, New, ControlInv, TypeOK, CtlTypeOK
  <2>3. CASE FailCleanup
    BY <2>3 DEF FailCleanup, ViewInv
  <2>4. CASE FinishLoad \/ FinishUnload
    <3>1. \A v \in View : v < vi
      BY <2>4, BoundAssumption
         DEF FinishLoad, FinishUnload, View, TypeOK, CtlTypeOK
    <3> QED
      BY <2>4, <3>1 DEF FinishLoad, FinishUnload, ViewInv, Old
  <2> QED
    BY <2>1, <2>2, <2>3, <2>4
<1>9. PoolInv'
  BY <1>1 DEF CpuMapsUpdateDone, FailCleanup, ReplaceView, FinishLoad,
         FinishUnload, PoolInv, AllocWithinPool, Stopped, ControlInv, TypeOK, CtlTypeOK,
         ReleasesOnFailure
<1> QED
  BY <1>2, <1>3, <1>4, <1>5, <1>6, <1>7, <1>8, <1>9 DEF TypeOK

-------------------------------------------------------------------------------
(***************************************************************************)
(* Entering and leaving stop_machine.                                      *)
(***************************************************************************)
\* Exactly one online CPU has the number 0.
LEMMA FirstExists ==
  ASSUME TypeOK, ControlInv, IdInv, Stopped
  PROVE  \E f \in online : IsFirstProcess(f)
<1>1. 0 < Cardinality(online)
  BY FiniteParts, FS_EmptySet DEF ControlInv
<1>2. \E f \in online : Rank(f, online) = 0
  BY <1>1, FiniteParts, RankSurjective
<1> QED
  BY <1>2 DEF IdInv, IsFirstProcess, Stopped

LEMMA FirstUnique ==
  ASSUME TypeOK, IdInv, Stopped,
         NEW f \in online, NEW g \in online, IsFirstProcess(f), IsFirstProcess(g)
  PROVE  f = g
<1>1. Rank(f, online) = Rank(g, online)
  BY DEF IdInv, IsFirstProcess, Stopped
<1> QED
  BY <1>1, FiniteParts, RankInjective

LEMMA StopMachineStep ==
  ASSUME IInv, StopMachine
  PROVE  IInv'
<1> USE DEF IInv
<1>1. /\ main = "stop_machine" /\ main' = "stopped"
      /\ UNCHANGED <<envVars, schedVars, syncVars, op, ret, cpu_maps_locked,
                     scheduler_enable, refcnt, smp, used, view, vi>>
      /\ Running /\ Stopped'
  BY DEF StopMachine, Running, Stopped
<1>2. \A c \in CPU : pc'[c] = IF c \notin online THEN "run"
                              ELSE IF op = "install" /\ IsFirstProcess(c) THEN "recheck"
                              ELSE "stack"
  BY DEF StopMachine
<1>3. TypeOK'
  <2>1. pc' \in [CPU -> PC]
    BY DEF StopMachine, PC, Checking
  <2> QED
    BY <1>1, <2>1 DEF TypeOK, EnvTypeOK, SchedTypeOK, SyncTypeOK, CtlTypeOK, Main,
                      envVars, schedVars, syncVars
<1>4. ControlInv'
  BY <1>1 DEF ControlInv, envVars
<1>5. PhaseInv'
  BY <1>1, <1>2 DEF PhaseInv, envVars
<1>6. CounterInv'
  <2>1. /\ AtPlaces(BeforeCheck)' = online
        /\ AtPlaces(BeforeClear)' = online
        /\ AtPlaces(BeforeRedirect)' = online
    BY <1>1, <1>2 DEF AtPlaces, BeforeCheck, BeforeClear, BeforeRedirect, Checking,
                      TypeOK, EnvTypeOK, envVars
  <2> QED
    BY <1>1, <2>1 DEF CounterInv, syncVars
<1>7. BarrierInv'
  BY <1>2 DEF BarrierInv, PastCheck, PastClear, PastRedirect, Clearing,
              Redirecting, Switching, Rebuilding
<1>8. IdInv'
  BY <1>1, <1>2 DEF IdInv, IsFirstProcess, Switching, envVars, syncVars
<1>9. CheckInv'
  BY <1>1, <1>2 DEF CheckInv, IsFirstProcess, TypeOK, EnvTypeOK, envVars, syncVars
<1>10. FrameInv'
  BY <1>1 DEF FrameInv, NoStaleFrames, envVars, schedVars
<1>11. VersionInv'
  BY <1>1, <1>2 DEF VersionInv, Running, NewText, Rebuilding, Stopped, TypeOK,
                    EnvTypeOK, envVars, schedVars
<1>12. QueueInv'
  <2>1. \A c \in online : pc'[c] \in Queued /\ pc'[c] \notin Unqueued /\ pc'[c] # "done"
    BY <1>2 DEF Queued, Unqueued, Checking, Redirecting, Switching, TypeOK, EnvTypeOK
  <2>2. RunningQueues
    BY <1>1, RunningQueuesEquiv
  <2> QED
    BY <1>1, <2>1, <2>2 DEF QueueInv, RunningQueues, VersionInv, Running, Stopped,
                            envVars, schedVars
<1>13. CallbackInv'
  BY <1>1, <1>2 DEF CallbackInv, VersionInv, Running, Stopped, Reset, Rebuilding,
                    TypeOK, EnvTypeOK, envVars, schedVars
<1>14. ViewInv'
  BY <1>1 DEF ViewInv
<1>15. PoolInv'
  BY <1>1, <1>2 DEF PoolInv, AllocWithinPool, ControlInv, Stopped, TypeOK, EnvTypeOK,
                    envVars
<1> QED
  BY <1>3, <1>4, <1>5, <1>6, <1>7, <1>8, <1>9, <1>10, <1>11, <1>12, <1>13, <1>14,
     <1>15

LEMMA StopMachineReturnStep ==
  ASSUME IInv, StopMachineReturn
  PROVE  IInv'
<1> USE DEF IInv
<1>1. /\ main = "stopped" /\ main' = "maps_done"
      /\ UNCHANGED <<envVars, schedVars, syncVars, op, cpu_maps_locked,
                     scheduler_enable, refcnt, smp, used, view, vi>>
      /\ Stopped /\ Running'
  BY DEF StopMachineReturn, Running, Stopped
<1>2. \A c \in CPU : pc'[c] = "run"
  BY DEF StopMachineReturn
<1>3. PICK f \in online : IsFirstProcess(f)
  BY <1>1, FirstExists
<1>4. \/ ret' = "none" /\ \A c \in online : pc[c] = "done"
      \/ ret' # "none" /\ \A c \in online : pc[c] = "failed"
  BY DEF StopMachineReturn, BarrierInv, PastCheck, Rebuilding, TypeOK, EnvTypeOK
<1>5. TypeOK'
  <2>1. pc' \in [CPU -> PC]
    BY DEF StopMachineReturn, PC
  <2>2. ret' \in Error
    BY DEF StopMachineReturn, TypeOK, SyncTypeOK, Error
  <2> QED
    BY <1>1, <2>1, <2>2 DEF TypeOK, EnvTypeOK, SchedTypeOK, SyncTypeOK, CtlTypeOK,
                            Main, envVars, schedVars, syncVars
<1>6. ControlInv'
  BY <1>1 DEF ControlInv, envVars
<1>7. PhaseInv'
  BY <1>1, <1>2 DEF PhaseInv, Stopped
<1>8. CounterInv' /\ CheckInv' /\ IdInv'
  BY <1>1, <1>2 DEF CounterInv, CheckInv, IdInv, Stopped, Switching
<1>9. BarrierInv'
  BY <1>2 DEF BarrierInv, PastCheck, PastClear, PastRedirect, Clearing,
              Redirecting, Switching, Rebuilding
<1>10. FrameInv'
  BY <1>1 DEF FrameInv, NoStaleFrames, envVars, schedVars
<1>11. text = IF ret' = "none" THEN New(op) ELSE Old(op)
  BY <1>1, <1>3, <1>4 DEF VersionInv, OldText, OldClass, NewText, Rebuilding
<1>12. sched_class = text
  BY <1>1, <1>3, <1>4, <1>11 DEF VersionInv, OldText, OldClass, NewText, Rebuilding
<1>13. VersionInv'
  BY <1>1, <1>11, <1>12 DEF VersionInv, Stopped, New, Old, schedVars
<1>14. QueueInv' /\ CallbackInv'
  <2>1. \A t \in Task : on_rq[t] => holder[t] = text
    BY <1>1, <1>4, <1>11 DEF QueueInv, Queued
  <2>2. \A c \in CPU : balance_cb[c] \in {"none", text}
    BY <1>1, <1>3, <1>4, <1>11 DEF CallbackInv, Reset, Rebuilding
  <2>3. \A c \in CPU : rq_online[c] <=> c \in online
    BY <1>4 DEF QueueInv, Unqueued, Redirecting, Switching
  <2>4. \A c \in CPU : pc'[c] \notin Unqueued
    BY <1>2 DEF Unqueued, Redirecting, Switching
  <2> QED
    BY <1>1, <2>1, <2>2, <2>3, <2>4 DEF QueueInv, CallbackInv, Stopped, envVars, schedVars
<1>15. ViewInv'
  BY <1>1 DEF ViewInv
<1>16. PoolInv'
  BY <1>1, <1>3, <1>4 DEF PoolInv, AllocWithinPool, ControlInv, Stopped, PastCheck,
       Clearing, Redirecting, Switching, Rebuilding
<1> QED
  BY <1>5, <1>6, <1>7, <1>8, <1>9, <1>10, <1>13, <1>14, <1>15, <1>16

-------------------------------------------------------------------------------
(***************************************************************************)
(* The handlers.                                                           *)
(***************************************************************************)
\* How a move of one CPU changes the number of CPUs at given places.
LEMMA MoveCount ==
  ASSUME TypeOK, NEW c \in online, NEW q, NEW P,
         pc' = [pc EXCEPT ![c] = q], online' = online,
         pc[c] \in P \/ q \notin P
  PROVE  Cardinality({d \in online' : pc'[d] \in P}) =
           IF q \in P THEN Cardinality(AtPlaces(P))
                      ELSE IF pc[c] \in P THEN Cardinality(AtPlaces(P)) - 1
                                          ELSE Cardinality(AtPlaces(P))
<1> DEFINE A == {d \in online' : pc'[d] \in P}
<1>1. \A d \in online : pc'[d] = IF d = c THEN q ELSE pc[d]
  BY DEF TypeOK, EnvTypeOK, SyncTypeOK
<1>2. CASE q \in P
  <2>1. A = AtPlaces(P)
    BY <1>1, <1>2 DEF AtPlaces
  <2> QED
    BY <1>2, <2>1
<1>3. CASE q \notin P /\ pc[c] \in P
  <2>1. A = AtPlaces(P) \ {c} /\ c \in AtPlaces(P)
    BY <1>1, <1>3 DEF AtPlaces
  <2>2. IsFiniteSet(AtPlaces(P))
    BY FiniteParts
  <2> QED
    BY <1>3, <2>1, <2>2, FS_RemoveElement
<1>4. CASE q \notin P /\ pc[c] \notin P
  <2>1. A = AtPlaces(P)
    BY <1>1, <1>4 DEF AtPlaces
  <2> QED
    BY <1>4, <2>1
<1> QED
  BY <1>2, <1>3, <1>4

\* A counter at zero: nobody is left at the places it counts.
LEMMA NobodyLeft ==
  ASSUME TypeOK, PhaseInv, NEW P, "run" \notin P, Cardinality(AtPlaces(P)) = 0,
         NEW d \in CPU
  PROVE  pc[d] \notin P
<1>1. AtPlaces(P) = {}
  BY FiniteParts, FS_EmptySet
<1> QED
  BY <1>1 DEF AtPlaces, PhaseInv

\* What every step of a handler leaves alone.
LEMMA HandlerFrame ==
  ASSUME TypeOK, PhaseInv, ControlInv, ViewInv, NEW c \in CPU, Handler(c)
  PROVE  /\ Stopped /\ Stopped' /\ c \in online
         /\ UNCHANGED <<envVars, process_id, main, op, ret, cpu_maps_locked,
                        scheduler_enable, refcnt, smp, view, vi>>
         /\ EnvTypeOK' /\ ControlInv' /\ PhaseInv' /\ ViewInv'
         /\ pc' \in [CPU -> PC]
<1>1. /\ Stopped /\ c \in online
      /\ UNCHANGED <<envVars, process_id, main, op, ret, cpu_maps_locked,
                     scheduler_enable, refcnt, smp, view, vi>>
  BY DEF Handler, Goto, RecheckSmps, StackCheck, ReportCheck, WaitCheck, Abort,
         Proceed, ClearSchedState, ReportClear, WaitClear, SwitchSchedClass,
         JumpOperation, ResetBalanceCallback, ReportRedirect, WaitRedirect,
         RebuildSchedState, Stopped, syncVars, ctlVars
<1>2. \E q \in PC \ {"run"} : pc' = [pc EXCEPT ![c] = q]
  BY DEF Handler, Goto, RecheckSmps, StackCheck, ReportCheck, WaitCheck, Abort,
         Proceed, ClearSchedState, ReportClear, WaitClear, SwitchSchedClass,
         JumpOperation, ResetBalanceCallback, ReportRedirect, WaitRedirect,
         RebuildSchedState, PC, Checking, Clearing, Redirecting, Switching, Rebuilding
<1>3. EnvTypeOK' /\ ControlInv' /\ ViewInv' /\ Stopped'
  BY <1>1 DEF TypeOK, EnvTypeOK, ControlInv, ViewInv, Stopped, envVars
<1>4. PhaseInv' /\ pc' \in [CPU -> PC]
  BY <1>1, <1>2 DEF PhaseInv, TypeOK, SyncTypeOK, Stopped, envVars
<1> QED
  BY <1>1, <1>3, <1>4

\* A step of a handler that changes only its place and the handshake.
Handshake(c) ==
  \/ RecheckSmps(c) \/ StackCheck(c) \/ ReportCheck(c) \/ WaitCheck(c)
  \/ Abort(c) \/ ReportClear(c) \/ WaitClear(c) \/ ReportRedirect(c)
  \/ WaitRedirect(c)

LEMMA HandshakeScheduler ==
  ASSUME IInv, NEW c \in CPU, Handshake(c)
  PROVE  /\ SchedTypeOK' /\ SyncTypeOK' /\ CtlTypeOK' /\ FrameInv'
         /\ VersionInv' /\ QueueInv' /\ CallbackInv' /\ PoolInv'
<1> USE DEF IInv
<1>1. Handler(c)
  BY DEF Handshake, Handler
<1>2. /\ Stopped /\ Stopped' /\ c \in online
      /\ UNCHANGED <<envVars, process_id, main, op, ret, cpu_maps_locked,
                     scheduler_enable, refcnt, smp, view, vi>>
      /\ pc' \in [CPU -> PC]
  BY <1>1, HandlerFrame
<1>3. UNCHANGED <<schedVars, used>>
  BY DEF Handshake, RecheckSmps, StackCheck, ReportCheck, WaitCheck, Abort,
         ReportClear, WaitClear, ReportRedirect, WaitRedirect, ctlVars
<1>4. PICK q :
        /\ pc' = [pc EXCEPT ![c] = q]
        /\ \/ pc[c] = "recheck" /\ q = "stack"
           \/ pc[c] = "stack" /\ q = "report"
           \/ pc[c] = "report" /\ q = "wait_check"
           \/ pc[c] = "wait_check" /\ q = "decide"
           \/ pc[c] = "decide" /\ q = "failed"
           \/ pc[c] = "clear_dec" /\ q = "wait_clear"
           \/ pc[c] = "wait_clear" /\ q = "switch"
           \/ pc[c] = "wait_clear" /\ q = "redirect_dec" /\ ~IsFirstProcess(c)
           \/ pc[c] = "redirect_dec" /\ q = "wait_redirect"
           \/ pc[c] = "wait_redirect" /\ q = "rebuild"
  BY DEF Handshake, Goto, RecheckSmps, StackCheck, ReportCheck, WaitCheck, Abort,
         ReportClear, WaitClear, ReportRedirect, WaitRedirect
<1>5. \A d \in CPU : pc'[d] = IF d = c THEN q ELSE pc[d]
  BY <1>4 DEF TypeOK, SyncTypeOK
<1>6. SchedTypeOK' /\ CtlTypeOK' /\ FrameInv'
  BY <1>2, <1>3 DEF TypeOK, SchedTypeOK, CtlTypeOK, FrameInv, NoStaleFrames, envVars,
                    schedVars
<1>7. SyncTypeOK'
  <2>1. cpu_finished' \in Int /\ clear_finished' \in Int /\ redirect_finished' \in Int
    BY DEF Handshake, RecheckSmps, StackCheck, ReportCheck, WaitCheck, Abort,
           ReportClear, WaitClear, ReportRedirect, WaitRedirect, syncVars, TypeOK,
           SyncTypeOK
  <2>2. global_error' \in Error
    BY DEF Handshake, RecheckSmps, StackCheck, ReportCheck, WaitCheck, Abort,
           ReportClear, WaitClear, ReportRedirect, WaitRedirect, syncVars, TypeOK,
           SyncTypeOK, Publish, Error
  <2> QED
    BY <1>2, <2>1, <2>2 DEF TypeOK, SyncTypeOK
<1>8. VersionInv'
  BY <1>2, <1>3, <1>4, <1>5 DEF VersionInv, Stopped, Running, OldClass, OldText, NewText,
       BeforeClear, Checking, Clearing, Rebuilding, IsFirstProcess, TypeOK,
       EnvTypeOK, envVars, schedVars
<1>9. QueueInv'
  BY <1>2, <1>3, <1>4, <1>5 DEF QueueInv, Stopped, Running, Queued, Unqueued, Checking,
       Redirecting, Switching, TypeOK, EnvTypeOK, envVars, schedVars
<1>10. CallbackInv'
  BY <1>2, <1>3, <1>4, <1>5 DEF CallbackInv, Stopped, Running, Reset, Rebuilding,
       IsFirstProcess, TypeOK, EnvTypeOK, envVars, schedVars
<1>11. PoolInv'
  BY <1>2, <1>3, <1>4, <1>5 DEF PoolInv, AllocWithinPool, Stopped, PastCheck, Clearing,
       Redirecting, Switching, Rebuilding, IsFirstProcess, TypeOK, EnvTypeOK, envVars
<1> QED
  BY <1>6, <1>7, <1>8, <1>9, <1>10, <1>11

\* Each report takes its CPU out of the set its counter counts.
LEMMA HandlerCounters ==
  ASSUME IInv, NEW c \in CPU, Handler(c)
  PROVE  CounterInv'
<1> USE DEF IInv
<1>1. Stopped /\ Stopped' /\ c \in online /\ online' = online /\ main' = "stopped"
  BY HandlerFrame DEF envVars, Stopped
<1>2. PICK q :
        /\ pc' = [pc EXCEPT ![c] = q]
        /\ \/ pc[c] \in {"recheck", "stack"} /\ q \in {"stack", "report"}
           \/ pc[c] = "report" /\ q = "wait_check"
           \/ pc[c] \in {"wait_check", "decide", "clear"}
                /\ q \in {"decide", "clear", "clear_dec"}
           \/ pc[c] = "decide" /\ q = "failed"
           \/ pc[c] = "clear_dec" /\ q = "wait_clear"
           \/ pc[c] \in {"wait_clear"} \cup Switching /\ q \in Redirecting
           \/ pc[c] = "redirect_dec" /\ q = "wait_redirect"
           \/ pc[c] \in {"wait_redirect", "rebuild"} /\ q \in {"rebuild", "done"}
        /\ cpu_finished' = IF pc[c] = "report" THEN cpu_finished - 1 ELSE cpu_finished
        /\ clear_finished' = IF pc[c] = "clear_dec" \/ q = "failed"
                               THEN clear_finished - 1 ELSE clear_finished
        /\ redirect_finished' = IF pc[c] = "redirect_dec" \/ q = "failed"
                                  THEN redirect_finished - 1 ELSE redirect_finished
  BY DEF Handler, Goto, RecheckSmps, StackCheck, ReportCheck, WaitCheck, Abort,
         Proceed, ClearSchedState, ReportClear, WaitClear, SwitchSchedClass,
         JumpOperation, ResetBalanceCallback, ReportRedirect, WaitRedirect,
         RebuildSchedState, syncVars, BeforeCheck, BeforeClear, BeforeRedirect,
         Checking, Clearing, Redirecting, Switching
<1> USE DEF BeforeCheck, BeforeClear, BeforeRedirect, Checking, Clearing,
            Redirecting, Switching
<1>3. cpu_finished' = Cardinality({d \in online' : pc'[d] \in BeforeCheck})
  <2>1. pc[c] \in BeforeCheck \/ q \notin BeforeCheck
    BY <1>2
  <2>2. q \notin BeforeCheck /\ pc[c] \in BeforeCheck <=> pc[c] = "report"
    BY <1>2
  <2>3. cpu_finished = Cardinality(AtPlaces(BeforeCheck))
    BY <1>1 DEF CounterInv
  <2> HIDE DEF BeforeCheck
  <2> QED
    BY <1>1, <1>2, <2>1, <2>2, <2>3, MoveCount
<1>4. clear_finished' = Cardinality({d \in online' : pc'[d] \in BeforeClear})
  <2>1. pc[c] \in BeforeClear \/ q \notin BeforeClear
    BY <1>2
  <2>2. q \notin BeforeClear /\ pc[c] \in BeforeClear <=>
          pc[c] = "clear_dec" \/ q = "failed"
    BY <1>2
  <2>3. clear_finished = Cardinality(AtPlaces(BeforeClear))
    BY <1>1 DEF CounterInv
  <2> HIDE DEF BeforeClear
  <2> QED
    BY <1>1, <1>2, <2>1, <2>2, <2>3, MoveCount
<1>5. redirect_finished' = Cardinality({d \in online' : pc'[d] \in BeforeRedirect})
  <2>1. pc[c] \in BeforeRedirect \/ q \notin BeforeRedirect
    BY <1>2
  <2>2. q \notin BeforeRedirect /\ pc[c] \in BeforeRedirect <=>
          pc[c] = "redirect_dec" \/ q = "failed"
    BY <1>2
  <2>3. redirect_finished = Cardinality(AtPlaces(BeforeRedirect))
    BY <1>1 DEF CounterInv
  <2> HIDE DEF BeforeRedirect
  <2> QED
    BY <1>1, <1>2, <2>1, <2>2, <2>3, MoveCount
<1> HIDE DEF BeforeCheck, BeforeClear, BeforeRedirect
<1> QED
  BY <1>1, <1>3, <1>4, <1>5 DEF CounterInv, AtPlaces

\* No step takes a CPU past a barrier others have not reached, and no error is
\* published once one is past the first.
LEMMA HandlerBarriers ==
  ASSUME IInv, NEW c \in CPU, Handler(c)
  PROVE  BarrierInv' /\ IdInv'
<1> USE DEF IInv
<1>1. /\ Stopped /\ Stopped' /\ c \in online
      /\ UNCHANGED <<online, process_id, main, op>>
  BY HandlerFrame DEF envVars
<1>2. PICK q :
        /\ pc' = [pc EXCEPT ![c] = q]
        /\ \/ pc[c] \in {"recheck", "stack"} /\ q \in {"stack", "report"}
           \/ pc[c] = "report" /\ q = "wait_check"
           \/ pc[c] = "wait_check" /\ q = "decide" /\ cpu_finished = 0
           \/ pc[c] = "decide" /\ q = "clear" /\ global_error = "none"
           \/ pc[c] = "decide" /\ q = "failed" /\ global_error # "none"
           \/ pc[c] = "clear" /\ q = "clear_dec"
           \/ pc[c] = "clear_dec" /\ q = "wait_clear"
           \/ /\ pc[c] = "wait_clear" /\ q \in {"switch", "redirect_dec"}
              /\ clear_finished = 0 /\ (q = "switch" => IsFirstProcess(c))
           \/ pc[c] \in Switching /\ q \in Redirecting
           \/ pc[c] = "redirect_dec" /\ q = "wait_redirect"
           \/ pc[c] = "wait_redirect" /\ q = "rebuild" /\ redirect_finished = 0
           \/ pc[c] = "rebuild" /\ q = "done"
        /\ pc[c] \notin {"recheck", "stack"} => global_error' = global_error
  BY DEF Handler, Goto, RecheckSmps, StackCheck, ReportCheck, WaitCheck, Abort,
         Proceed, ClearSchedState, ReportClear, WaitClear, SwitchSchedClass,
         JumpOperation, ResetBalanceCallback, ReportRedirect, WaitRedirect,
         RebuildSchedState, Passed, syncVars, Redirecting, Switching
<1>3. \A d \in CPU : pc'[d] = IF d = c THEN q ELSE pc[d]
  BY <1>2 DEF TypeOK, SyncTypeOK
<1>4. /\ cpu_finished = 0 => \A d \in CPU : pc[d] \notin BeforeCheck
      /\ clear_finished = 0 => \A d \in CPU : pc[d] \notin BeforeClear
      /\ redirect_finished = 0 => \A d \in CPU : pc[d] \notin BeforeRedirect
  <2>1. "run" \notin BeforeCheck /\ "run" \notin BeforeClear /\ "run" \notin BeforeRedirect
    BY DEF BeforeCheck, BeforeClear, BeforeRedirect, Checking, Clearing,
           Redirecting, Switching
  <2> QED
    BY <1>1, <2>1, NobodyLeft DEF CounterInv
<1>5. IdInv'
  BY <1>1, <1>2, <1>3 DEF IdInv, IsFirstProcess, Switching, Redirecting
<1> USE DEF BeforeCheck, BeforeClear, BeforeRedirect, PastCheck, PastClear,
            PastRedirect, Checking, Clearing, Redirecting, Switching, Rebuilding
<1>6. \A d, e \in CPU :
        pc'[d] \in PastCheck \cup {"decide", "failed"} => pc'[e] \notin BeforeCheck
  BY <1>2, <1>3, <1>4 DEF BarrierInv
<1>7. \A d, e \in CPU : pc'[d] \in PastClear => pc'[e] \notin BeforeClear
  BY <1>2, <1>3, <1>4 DEF BarrierInv
<1>8. \A d, e \in CPU : pc'[d] \in PastRedirect => pc'[e] \notin BeforeRedirect
  BY <1>2, <1>3, <1>4 DEF BarrierInv
<1>9. \A d \in CPU : /\ pc'[d] \in PastCheck => global_error' = "none"
                     /\ pc'[d] = "failed" => global_error' # "none"
  BY <1>2, <1>3, <1>4 DEF BarrierInv
<1> QED
  BY <1>5, <1>6, <1>7, <1>8, <1>9 DEF BarrierInv

\* A CPU that leaves its checks without an error has found nothing.
LEMMA HandlerChecks ==
  ASSUME IInv, NEW c \in CPU, Handler(c)
  PROVE  CheckInv'
<1> USE DEF IInv
<1>1. /\ Stopped /\ Stopped' /\ c \in online
      /\ UNCHANGED <<envVars, process_id, op, smp>>
  BY HandlerFrame
<1>2. /\ \A d \in CPU : Busy(d)' <=> Busy(d)
      /\ PoolTooSmall' <=> PoolTooSmall
      /\ \A d \in CPU : IsFirstProcess(d)' <=> IsFirstProcess(d)
  BY <1>1 DEF Busy, Share, PoolTooSmall, IsFirstProcess, envVars
<1>3. /\ \A d \in CPU : d # c => pc'[d] = pc[d]
      /\ \/ /\ pc[c] = "recheck" /\ pc'[c] = "stack"
            /\ PoolTooSmall => global_error' # "none"
         \/ /\ pc[c] = "stack" /\ pc'[c] = "report"
            /\ Busy(c) => global_error' # "none"
         \/ pc[c] \notin {"recheck", "stack"}
      /\ global_error' = "none" => global_error = "none"
  BY DEF Handler, Goto, RecheckSmps, StackCheck, ReportCheck, WaitCheck, Abort,
         Proceed, ClearSchedState, ReportClear, WaitClear, SwitchSchedClass,
         JumpOperation, ResetBalanceCallback, ReportRedirect, WaitRedirect,
         RebuildSchedState, Publish, syncVars, TypeOK, SyncTypeOK
<1>4. \A d \in online : d \in CPU
  BY DEF TypeOK, EnvTypeOK
<1>5. SUFFICES ASSUME global_error' = "none", NEW d \in online
               PROVE  /\ pc'[d] \notin {"recheck", "stack"} => ~Busy(d)
                      /\ op = "install" /\ IsFirstProcess(d) /\ pc'[d] # "recheck" =>
                           ~PoolTooSmall
  BY <1>1, <1>2, <1>4 DEF CheckInv, envVars
<1> QED
  BY <1>1, <1>3, <1>4, <1>5 DEF CheckInv

LEMMA HandshakeStep ==
  ASSUME IInv, NEW c \in CPU, Handshake(c)
  PROVE  IInv'
<1>1. Handler(c)
  BY DEF Handshake, Handler
<1>2. EnvTypeOK' /\ ControlInv' /\ PhaseInv' /\ ViewInv'
  BY <1>1, HandlerFrame DEF IInv
<1> QED
  BY <1>1, <1>2, HandshakeScheduler, HandlerCounters, HandlerBarriers, HandlerChecks
     DEF IInv, TypeOK

\* A CPU whose tasks are still queued sees the old class tables; one that
\* rebuilds sees the new ones.
LEMMA ClassSeen ==
  ASSUME IInv, Stopped, NEW c \in online
  PROVE  /\ pc[c] \in BeforeClear => sched_class = Old(op)
         /\ pc[c] = "rebuild" => sched_class = New(op)
         /\ pc[c] \in BeforeClear => \A f \in online : pc[f] \notin PastClear
<1> USE DEF IInv
<1>1. PICK f \in online : IsFirstProcess(f)
  BY FirstExists
<1>2. \A d \in online : d \in CPU /\ pc[d] \in PC \ {"run"}
  BY DEF PhaseInv, TypeOK, EnvTypeOK, SyncTypeOK
<1>3. ASSUME pc[c] \in BeforeClear
      PROVE  \A d \in online : pc[d] \notin PastClear
  BY <1>2, <1>3 DEF BarrierInv
<1>4. ASSUME pc[c] \in BeforeClear
      PROVE  sched_class = Old(op)
  <2>1. pc[f] \in OldClass
    BY <1>2, <1>3, <1>4 DEF OldClass, BeforeClear, PastClear, PC, Checking, Clearing,
         Redirecting, Switching, Rebuilding
  <2> QED
    BY <1>1, <2>1 DEF VersionInv
<1>5. ASSUME pc[c] = "rebuild"
      PROVE  sched_class = New(op)
  <2>1. pc[f] \notin BeforeRedirect /\ pc[f] # "failed"
    BY <1>2, <1>5 DEF BarrierInv, PastRedirect, PastCheck, Rebuilding
  <2>2. pc[f] \in NewText
    BY <1>2, <2>1 DEF NewText, BeforeRedirect, BeforeClear, PC, Checking, Clearing,
         Redirecting, Switching, Rebuilding
  <2> QED
    BY <1>1, <2>2 DEF VersionInv
<1> QED
  BY <1>3, <1>4, <1>5

LEMMA ProceedStep ==
  ASSUME IInv, NEW c \in CPU, Proceed(c)
  PROVE  IInv'
<1> USE DEF IInv
<1>1. Handler(c)
  BY DEF Handler
<1>2. /\ Stopped /\ Stopped' /\ c \in online
      /\ UNCHANGED <<envVars, process_id, main, op, ret, cpu_maps_locked,
                     scheduler_enable, refcnt, smp, view, vi>>
      /\ EnvTypeOK' /\ ControlInv' /\ PhaseInv' /\ ViewInv' /\ pc' \in [CPU -> PC]
  BY <1>1, HandlerFrame
<1>3. UNCHANGED <<schedVars, syncVars>> /\ pc[c] = "decide" /\ global_error = "none"
  BY DEF Proceed, Goto
<1>4. \A d \in CPU : pc'[d] = IF d = c THEN "clear" ELSE pc[d]
  BY DEF Proceed, Goto, TypeOK, SyncTypeOK
<1>5. used' \in Nat /\ (used' # used => used' = Cardinality(tasks))
  BY FiniteParts DEF Proceed, TypeOK, CtlTypeOK
<1>6. TypeOK'
  BY <1>2, <1>3, <1>5 DEF TypeOK, SchedTypeOK, SyncTypeOK, CtlTypeOK, schedVars, syncVars
<1>7. FrameInv'
  BY <1>2, <1>3 DEF FrameInv, NoStaleFrames, envVars, schedVars
<1>8. VersionInv'
  BY <1>2, <1>3, <1>4 DEF VersionInv, Stopped, Running, OldClass, OldText, NewText,
       BeforeClear, Checking, Clearing, Rebuilding, IsFirstProcess, TypeOK,
       EnvTypeOK, envVars, schedVars
<1>9. QueueInv'
  BY <1>2, <1>3, <1>4 DEF QueueInv, Stopped, Running, Queued, Unqueued, Checking,
       Redirecting, Switching, TypeOK, EnvTypeOK, envVars, schedVars
<1>10. CallbackInv'
  BY <1>2, <1>3, <1>4 DEF CallbackInv, Stopped, Running, Reset, Rebuilding,
       IsFirstProcess, TypeOK, EnvTypeOK, envVars, schedVars
<1>11. PoolInv'
  <2>1. CASE op = "install" /\ IsFirstProcess(c)
    <3>1. used' = Cardinality(tasks) /\ ~PoolTooSmall /\ smp' = smp
      BY <1>2, <1>3, <2>1 DEF Proceed, CheckInv
    <3>2. AllocWithinPool'
      BY <3>1, FiniteParts DEF AllocWithinPool, PoolTooSmall, TypeOK, CtlTypeOK
    <3>3. \A f \in online : IsFirstProcess(f) => pc'[f] = "clear"
      BY <1>2, <1>4, <2>1, FirstUnique
    <3> QED
      BY <1>2, <2>1, <3>2, <3>3 DEF PoolInv, Stopped, PastCheck, Clearing, IsFirstProcess,
           envVars
  <2>2. CASE ~(op = "install" /\ IsFirstProcess(c))
    <3>1. used' = used
      BY <2>2 DEF Proceed
    <3> QED
      BY <1>2, <1>4, <2>2, <3>1 DEF PoolInv, AllocWithinPool, Stopped, IsFirstProcess,
           PastCheck, Clearing, TypeOK, EnvTypeOK, envVars
  <2> QED
    BY <2>1, <2>2
<1> QED
  BY <1>1, <1>2, <1>6, <1>7, <1>8, <1>9, <1>10, <1>11, HandlerCounters,
     HandlerBarriers, HandlerChecks

LEMMA ClearStep ==
  ASSUME IInv, NEW c \in CPU, ClearSchedState(c)
  PROVE  IInv'
<1> USE DEF IInv
<1>1. Handler(c)
  BY DEF Handler
<1>2. /\ Stopped /\ Stopped' /\ c \in online
      /\ UNCHANGED <<envVars, process_id, main, op, ret, cpu_maps_locked,
                     scheduler_enable, refcnt, smp, view, vi>>
      /\ EnvTypeOK' /\ ControlInv' /\ PhaseInv' /\ ViewInv' /\ pc' \in [CPU -> PC]
  BY <1>1, HandlerFrame
<1>3. /\ pc[c] = "clear"
      /\ UNCHANGED <<text, sched_class, bak_class, syncVars, used>>
  BY DEF ClearSchedState, Goto, ctlVars
<1>4. \A d \in CPU : pc'[d] = IF d = c THEN "clear_dec" ELSE pc[d]
  BY DEF ClearSchedState, Goto, TypeOK, SyncTypeOK
<1>5. sched_class = Old(op) /\ \A f \in online : pc[f] \notin PastClear
  BY <1>2, <1>3, ClassSeen DEF BeforeClear, Clearing
<1>6. TypeOK'
  <2>1. holder' \in [Task -> Holder]
    BY DEF ClearSchedState, Dequeue, TypeOK, SchedTypeOK, Holder
  <2>2. rq_online' \in [CPU -> BOOLEAN] /\ balance_cb' \in [CPU -> Holder]
    BY DEF ClearSchedState, TypeOK, SchedTypeOK
  <2> QED
    BY <1>2, <1>3, <2>1, <2>2 DEF TypeOK, SchedTypeOK, SyncTypeOK, CtlTypeOK, syncVars
<1>7. FrameInv'
  BY <1>2, <1>3 DEF FrameInv, NoStaleFrames, envVars
<1>8. VersionInv'
  BY <1>2, <1>3, <1>4 DEF VersionInv, Stopped, Running, OldClass, OldText, NewText,
       BeforeClear, Checking, Clearing, Rebuilding, IsFirstProcess, TypeOK,
       EnvTypeOK, envVars
<1>9. QueueInv'
  <2>1. \A t \in Task : holder'[t] = IF on_rq[t] /\ task_cpu[t] = c THEN "none"
                                                                   ELSE holder[t]
    BY <1>2, <1>3, <1>5 DEF ClearSchedState, OnMyRq, Dequeue, QueueInv, Queued
  <2>2. \A d \in CPU : rq_online'[d] = IF d = c THEN FALSE ELSE rq_online[d]
    BY DEF ClearSchedState, TypeOK, SchedTypeOK
  <2>3. \A d \in CPU : rq_online'[d] <=> d \in online /\ pc'[d] \notin Unqueued
    BY <1>4, <2>2 DEF QueueInv, Unqueued
  <2>4. \A t \in Task : on_rq[t] =>
          /\ pc'[task_cpu[t]] \in Queued => holder'[t] = Old(op)
          /\ pc'[task_cpu[t]] \in Unqueued => holder'[t] = "none"
          /\ pc'[task_cpu[t]] = "done" => holder'[t] = New(op)
    BY <1>2, <1>4, <2>1 DEF QueueInv, Queued, Checking, TypeOK, EnvTypeOK
  <2>5. \A t \in Task : ~on_rq[t] => holder'[t] = "none"
    BY <2>1 DEF QueueInv
  <2>6. \A t \in Task : on_rq[t] => t \in tasks /\ task_cpu[t] \in online
    BY DEF QueueInv
  <2> QED
    BY <1>2, <2>3, <2>4, <2>5, <2>6 DEF QueueInv, Stopped, Running, envVars
<1>10. CallbackInv'
  <2>1. \A d \in CPU : balance_cb'[d] \in {balance_cb[d], Old(op)}
    BY <1>5 DEF ClearSchedState, TypeOK, SchedTypeOK
  <2>2. \A f \in online : pc'[f] \notin Reset
    BY <1>4, <1>5 DEF Reset, PastClear, Redirecting, Rebuilding, TypeOK, EnvTypeOK
  <2> QED
    BY <1>2, <2>1, <2>2 DEF CallbackInv, Stopped, Running, envVars
<1>11. PoolInv'
  BY <1>2, <1>3, <1>4 DEF PoolInv, AllocWithinPool, Stopped, IsFirstProcess, PastCheck,
       Clearing, TypeOK, EnvTypeOK, envVars
<1> QED
  BY <1>1, <1>2, <1>6, <1>7, <1>8, <1>9, <1>10, <1>11, HandlerCounters,
     HandlerBarriers, HandlerChecks

\* The first CPU, alone past the second barrier, changes the tables, the calls
\* and the callbacks.
LEMMA RedirectFrame ==
  ASSUME IInv, NEW c \in CPU,
         SwitchSchedClass(c) \/ JumpOperation(c) \/ ResetBalanceCallback(c)
  PROVE  /\ Handler(c) /\ Stopped /\ Stopped' /\ c \in online
         /\ UNCHANGED <<envVars, process_id, main, op, ret, cpu_maps_locked,
                        scheduler_enable, refcnt, smp, used, view, vi, holder,
                        rq_online, syncVars>>
         /\ EnvTypeOK' /\ SyncTypeOK' /\ CtlTypeOK'
         /\ ControlInv' /\ PhaseInv' /\ ViewInv' /\ PoolInv'
         /\ QueueInv'
         /\ \A f \in online : IsFirstProcess(f) <=> f = c
<1> USE DEF IInv
<1>1. Handler(c)
  BY DEF Handler
<1>2. /\ Stopped /\ Stopped' /\ c \in online
      /\ UNCHANGED <<envVars, process_id, main, op, ret, cpu_maps_locked,
                     scheduler_enable, refcnt, smp, view, vi>>
      /\ EnvTypeOK' /\ ControlInv' /\ PhaseInv' /\ ViewInv' /\ pc' \in [CPU -> PC]
  BY <1>1, HandlerFrame
<1>3. /\ pc[c] \in Switching
      /\ UNCHANGED <<used, holder, rq_online, syncVars>>
      /\ \E q \in Redirecting : pc' = [pc EXCEPT ![c] = q]
  BY DEF SwitchSchedClass, JumpOperation, ResetBalanceCallback, Goto, Switching,
         Redirecting, ctlVars
<1>4. \A d \in CPU : IF d = c THEN pc'[d] \in Redirecting ELSE pc'[d] = pc[d]
  BY <1>3 DEF TypeOK, SyncTypeOK
<1>5. \A f \in online : IsFirstProcess(f) <=> f = c
  BY <1>2, <1>3, FirstUnique DEF IdInv
<1>6. SyncTypeOK' /\ CtlTypeOK'
  BY <1>2, <1>3 DEF TypeOK, SyncTypeOK, CtlTypeOK, syncVars
<1>7. PoolInv'
  BY <1>2, <1>3, <1>4 DEF PoolInv, AllocWithinPool, Stopped, IsFirstProcess, PastCheck,
       Redirecting, Switching, TypeOK, EnvTypeOK, envVars
<1>8. QueueInv'
  BY <1>2, <1>3, <1>4 DEF QueueInv, Stopped, Running, Queued, Unqueued, Checking,
       Redirecting, Switching, TypeOK, EnvTypeOK, envVars
<1> QED
  BY <1>1, <1>2, <1>3, <1>5, <1>6, <1>7, <1>8

LEMMA SwitchStep ==
  ASSUME IInv, NEW c \in CPU, SwitchSchedClass(c)
  PROVE  IInv'
<1> USE DEF IInv
<1>1. /\ Handler(c) /\ Stopped /\ Stopped' /\ c \in online
      /\ UNCHANGED <<envVars, process_id, main, op, ret, cpu_maps_locked,
                     scheduler_enable, refcnt, smp, used, view, vi, holder,
                     rq_online, syncVars>>
      /\ EnvTypeOK' /\ SyncTypeOK' /\ CtlTypeOK'
      /\ ControlInv' /\ PhaseInv' /\ ViewInv' /\ PoolInv' /\ QueueInv'
      /\ \A f \in online : IsFirstProcess(f) <=> f = c
  BY RedirectFrame
<1>2. /\ pc[c] = "switch" /\ UNCHANGED <<text, balance_cb>>
      /\ \A d \in CPU : pc'[d] = IF d = c THEN "jump" ELSE pc[d]
  BY DEF SwitchSchedClass, Goto, TypeOK, SyncTypeOK
<1>3. text = Old(op) /\ sched_class = Old(op)
  BY <1>1, <1>2 DEF VersionInv, OldClass, OldText
<1>4. sched_class' = New(op) /\ bak_class' = "orig"
  BY <1>3 DEF SwitchSchedClass, VersionInv, Old, New
<1>5. SchedTypeOK'
  BY <1>1, <1>2, <1>4 DEF TypeOK, SchedTypeOK, Holder, New
<1>6. FrameInv'
  BY <1>1, <1>2 DEF FrameInv, NoStaleFrames, envVars
<1>7. VersionInv'
  BY <1>1, <1>2, <1>3, <1>4 DEF VersionInv, Stopped, Running, OldClass, OldText, NewText,
       BeforeClear, Checking, Clearing, Rebuilding, IsFirstProcess, TypeOK, EnvTypeOK,
       envVars
<1>8. CallbackInv'
  BY <1>1, <1>2 DEF CallbackInv, Stopped, Running, Reset, Rebuilding, IsFirstProcess,
       TypeOK, EnvTypeOK, envVars
<1> QED
  BY <1>1, <1>5, <1>6, <1>7, <1>8, HandlerCounters, HandlerBarriers, HandlerChecks
     DEF TypeOK

\* The stack of every thread is in the share of exactly one CPU.
LEMMA SharesPartition ==
  ASSUME TypeOK, ControlInv, IdInv, Stopped, NEW t \in tasks
  PROVE  \E c \in online : /\ t \in Share(c)
                           /\ \A d \in online : t \in Share(d) => d = c
<1> DEFINE n == Cardinality(online)
           r == Rank(t, tasks) % n
<1>1. n \in Nat /\ n > 0
  BY FiniteParts, FS_EmptySet DEF ControlInv
<1>2. Rank(t, tasks) \in Nat
  BY FiniteParts, RankRange
<1>3. r \in Nat /\ r < n
  BY <1>1, <1>2, ModRange
<1>4. PICK c \in online : Rank(c, online) = r
  BY <1>3, FiniteParts, RankSurjective
<1>5. \A d \in online : process_id[d] = Rank(d, online)
  BY DEF IdInv, Stopped
<1>6. t \in Share(c)
  BY <1>4, <1>5 DEF Share
<1>7. ASSUME NEW d \in online, t \in Share(d)
      PROVE  d = c
  <2>1. Rank(d, online) = Rank(c, online)
    BY <1>4, <1>5, <1>7 DEF Share
  <2> QED
    BY <2>1, FiniteParts, RankInjective
<1> QED
  BY <1>6, <1>7

\* When the calls are redirected no thread is inside a scheduler function.
LEMMA JumpClean ==
  ASSUME IInv, NEW c \in CPU, JumpOperation(c)
  PROVE  /\ text = Old(op) /\ text' = New(op)
         /\ \A t \in tasks : stack[t] = {}
         /\ \A d \in CPU : idle[d] = {}
<1> USE DEF IInv
<1>1. /\ Stopped /\ c \in online /\ pc[c] = "jump" /\ text' = New(op)
      /\ IsFirstProcess(c)
  BY DEF JumpOperation, Goto, Stopped, IdInv, Switching
<1>2. text = Old(op)
  BY <1>1 DEF VersionInv, OldText
<1>3. \A d \in online : ~Busy(d)
  <2>1. global_error = "none" /\ \A d \in online : pc[d] \notin {"recheck", "stack"}
    BY <1>1 DEF BarrierInv, PastCheck, Redirecting, Switching, BeforeCheck,
         Checking, TypeOK, EnvTypeOK
  <2> QED
    BY <1>1, <2>1 DEF CheckInv
<1>4. \A t \in tasks : stack[t] = {}
  <2>1. SUFFICES ASSUME NEW t \in tasks PROVE stack[t] = {}
    OBVIOUS
  <2>2. PICK d \in online : t \in Share(d)
    BY <1>1, SharesPartition
  <2>3. Old(op) \notin stack[t]
    BY <1>3, <2>2 DEF Busy
  <2> QED
    BY <1>2, <2>3 DEF FrameInv, NoStaleFrames
<1>5. \A d \in CPU : idle[d] = {}
  BY <1>2, <1>3 DEF Busy, FrameInv, NoStaleFrames
<1> QED
  BY <1>1, <1>2, <1>4, <1>5

LEMMA JumpStep ==
  ASSUME IInv, NEW c \in CPU, JumpOperation(c)
  PROVE  IInv'
<1> USE DEF IInv
<1>1. /\ Handler(c) /\ Stopped /\ Stopped' /\ c \in online
      /\ UNCHANGED <<envVars, process_id, main, op, ret, cpu_maps_locked,
                     scheduler_enable, refcnt, smp, used, view, vi, holder,
                     rq_online, syncVars>>
      /\ EnvTypeOK' /\ SyncTypeOK' /\ CtlTypeOK'
      /\ ControlInv' /\ PhaseInv' /\ ViewInv' /\ PoolInv' /\ QueueInv'
      /\ \A f \in online : IsFirstProcess(f) <=> f = c
  BY RedirectFrame
<1>2. /\ pc[c] = "jump" /\ text' = New(op) /\ UNCHANGED <<sched_class, bak_class, balance_cb>>
      /\ \A d \in CPU : pc'[d] = IF d = c THEN "reset" ELSE pc[d]
  BY DEF JumpOperation, Goto, TypeOK, SyncTypeOK
<1>3. text = Old(op) /\ sched_class = New(op)
  BY <1>1, <1>2 DEF VersionInv, OldText
<1>4. SchedTypeOK'
  BY <1>1, <1>2 DEF TypeOK, SchedTypeOK, Version, New
<1>6. (\A t \in tasks : stack[t] = {}) /\ \A d \in CPU : idle[d] = {}
  BY JumpClean
<1>8. FrameInv'
  BY <1>1, <1>6 DEF FrameInv, NoStaleFrames, envVars
<1>9. VersionInv'
  BY <1>1, <1>2, <1>3 DEF VersionInv, Stopped, Running, OldClass, OldText, NewText,
       BeforeClear, Checking, Clearing, Rebuilding, IsFirstProcess, TypeOK, EnvTypeOK,
       envVars
<1>10. CallbackInv'
  BY <1>1, <1>2 DEF CallbackInv, Stopped, Running, Reset, Rebuilding, IsFirstProcess,
       TypeOK, EnvTypeOK, envVars
<1> QED
  BY <1>1, <1>4, <1>8, <1>9, <1>10, HandlerCounters, HandlerBarriers, HandlerChecks
     DEF TypeOK

LEMMA ResetStep ==
  ASSUME IInv, NEW c \in CPU, ResetBalanceCallback(c)
  PROVE  IInv'
<1> USE DEF IInv
<1>1. /\ Handler(c) /\ Stopped /\ Stopped' /\ c \in online
      /\ UNCHANGED <<envVars, process_id, main, op, ret, cpu_maps_locked,
                     scheduler_enable, refcnt, smp, used, view, vi, holder,
                     rq_online, syncVars>>
      /\ EnvTypeOK' /\ SyncTypeOK' /\ CtlTypeOK'
      /\ ControlInv' /\ PhaseInv' /\ ViewInv' /\ PoolInv' /\ QueueInv'
      /\ \A f \in online : IsFirstProcess(f) <=> f = c
  BY RedirectFrame
<1>2. /\ pc[c] = "reset" /\ UNCHANGED <<text, sched_class, bak_class>>
      /\ balance_cb' = [d \in CPU |-> "none"]
      /\ \A d \in CPU : pc'[d] = IF d = c THEN "redirect_dec" ELSE pc[d]
  BY DEF ResetBalanceCallback, ResetSet, Goto, TypeOK, SyncTypeOK
<1>3. SchedTypeOK'
  BY <1>1, <1>2 DEF TypeOK, SchedTypeOK, Holder
<1>4. FrameInv'
  BY <1>1, <1>2 DEF FrameInv, NoStaleFrames, envVars
<1>5. VersionInv'
  BY <1>1, <1>2 DEF VersionInv, Stopped, Running, OldClass, OldText, NewText,
       BeforeClear, Checking, Clearing, Rebuilding, IsFirstProcess, TypeOK, EnvTypeOK,
       envVars
<1>6. CallbackInv'
  BY <1>1, <1>2 DEF CallbackInv, Stopped, Running
<1> QED
  BY <1>1, <1>3, <1>4, <1>5, <1>6, HandlerCounters, HandlerBarriers, HandlerChecks
     DEF TypeOK

LEMMA RebuildStep ==
  ASSUME IInv, NEW c \in CPU, RebuildSchedState(c)
  PROVE  IInv'
<1> USE DEF IInv
<1>1. Handler(c)
  BY DEF Handler
<1>2. /\ Stopped /\ Stopped' /\ c \in online
      /\ UNCHANGED <<envVars, process_id, main, op, ret, cpu_maps_locked,
                     scheduler_enable, refcnt, smp, view, vi>>
      /\ EnvTypeOK' /\ ControlInv' /\ PhaseInv' /\ ViewInv' /\ pc' \in [CPU -> PC]
  BY <1>1, HandlerFrame
<1>3. /\ pc[c] = "rebuild"
      /\ UNCHANGED <<text, sched_class, bak_class, balance_cb, syncVars>>
  BY DEF RebuildSchedState, Goto
<1>4. \A d \in CPU : pc'[d] = IF d = c THEN "done" ELSE pc[d]
  BY DEF RebuildSchedState, Goto, TypeOK, SyncTypeOK
<1>5. sched_class = New(op)
  BY <1>2, <1>3, ClassSeen
<1>6. used' \in Nat /\ used' \in {0, used}
  BY DEF RebuildSchedState, TypeOK, CtlTypeOK
<1>7. TypeOK'
  <2>1. holder' \in [Task -> Holder] /\ rq_online' \in [CPU -> BOOLEAN]
    BY DEF RebuildSchedState, TypeOK, SchedTypeOK
  <2> QED
    BY <1>2, <1>3, <1>6, <2>1 DEF TypeOK, SchedTypeOK, SyncTypeOK, CtlTypeOK, syncVars
<1>8. FrameInv'
  BY <1>2, <1>3 DEF FrameInv, NoStaleFrames, envVars
<1>9. VersionInv'
  BY <1>2, <1>3, <1>4 DEF VersionInv, Stopped, Running, OldClass, OldText, NewText,
       BeforeClear, Checking, Clearing, Rebuilding, IsFirstProcess, TypeOK,
       EnvTypeOK, envVars
<1>10. QueueInv'
  <2>1. \A t \in Task : holder'[t] = IF on_rq[t] /\ task_cpu[t] = c THEN New(op)
                                                                   ELSE holder[t]
    BY <1>5 DEF RebuildSchedState, OnMyRq, QueueInv
  <2>2. \A d \in CPU : rq_online'[d] = IF d = c THEN TRUE ELSE rq_online[d]
    BY DEF RebuildSchedState, TypeOK, SchedTypeOK
  <2>3. \A d \in CPU : rq_online'[d] <=> d \in online /\ pc'[d] \notin Unqueued
    BY <1>2, <1>4, <2>2 DEF QueueInv, Unqueued, Redirecting, Switching
  <2>4. \A t \in Task : on_rq[t] =>
          /\ pc'[task_cpu[t]] \in Queued => holder'[t] = Old(op)
          /\ pc'[task_cpu[t]] \in Unqueued => holder'[t] = "none"
          /\ pc'[task_cpu[t]] = "done" => holder'[t] = New(op)
    BY <1>2, <1>4, <2>1 DEF QueueInv, Queued, Unqueued, Checking, Redirecting, Switching,
         TypeOK, EnvTypeOK
  <2>5. \A t \in Task : ~on_rq[t] => holder'[t] = "none"
    BY <2>1 DEF QueueInv
  <2>6. \A t \in Task : on_rq[t] => t \in tasks /\ task_cpu[t] \in online
    BY DEF QueueInv
  <2> QED
    BY <1>2, <2>3, <2>4, <2>5, <2>6 DEF QueueInv, Stopped, Running, envVars
<1>11. CallbackInv'
  BY <1>2, <1>3, <1>4 DEF CallbackInv, Stopped, Running, Reset, Rebuilding,
       IsFirstProcess, TypeOK, EnvTypeOK, envVars
<1>12. PoolInv'
  <2>1. AllocWithinPool'
    BY <1>2, <1>6 DEF PoolInv, AllocWithinPool
  <2>2. op = "restore" /\ IsFirstProcess(c) => used' = 0
    BY DEF RebuildSchedState
  <2> QED
    BY <1>2, <1>3, <1>4, <1>6, <2>1, <2>2
       DEF PoolInv, Stopped, IsFirstProcess, PastCheck, Rebuilding, TypeOK, EnvTypeOK,
           envVars
<1> QED
  BY <1>1, <1>2, <1>7, <1>8, <1>9, <1>10, <1>11, <1>12, HandlerCounters,
     HandlerBarriers, HandlerChecks

-------------------------------------------------------------------------------
(***************************************************************************)
(* The invariant, and what follows from it.                                *)
(***************************************************************************)
LEMMA StutterStep ==
  ASSUME IInv, UNCHANGED vars
  PROVE  IInv'
<1> USE DEF IInv, vars, envVars, schedVars, syncVars, ctlVars
<1>1. TypeOK' /\ ControlInv' /\ PhaseInv' /\ ViewInv'
  BY DEF TypeOK, EnvTypeOK, SchedTypeOK, SyncTypeOK, CtlTypeOK, ControlInv, PhaseInv,
         Stopped, ViewInv
<1>2. CounterInv' /\ BarrierInv' /\ IdInv'
  BY DEF CounterInv, AtPlaces, BarrierInv, IdInv, IsFirstProcess, Stopped
<1>3. CheckInv'
  BY DEF CheckInv, Busy, Share, PoolTooSmall, IsFirstProcess, Stopped
<1>4. FrameInv' /\ VersionInv' /\ QueueInv' /\ CallbackInv' /\ PoolInv'
  BY DEF FrameInv, NoStaleFrames, VersionInv, QueueInv, CallbackInv, PoolInv,
         AllocWithinPool, IsFirstProcess, Stopped, Running
<1> QED
  BY <1>1, <1>2, <1>3, <1>4

LEMMA NextStep ==
  ASSUME IInv, [Next]_vars
  PROVE  IInv'
<1>1. CASE Env
  BY <1>1, EnvStep
<1>2. CASE Request
  BY <1>2, RequestStep
<1>3. CASE Update
  BY <1>3, PrepareStep, ConcludeStep, StopMachineStep, StopMachineReturnStep DEF Update
<1>4. ASSUME NEW c \in CPU, Handler(c)
      PROVE  IInv'
  BY <1>4, HandshakeStep, ProceedStep, ClearStep, SwitchStep, JumpStep, ResetStep,
     RebuildStep DEF Handler, Handshake
<1>5. CASE UNCHANGED vars
  BY <1>5, StutterStep
<1> QED
  BY <1>1, <1>2, <1>3, <1>4, <1>5 DEF Next

\* IInv holds in every reachable state of the update protocol of main.c, for any
\* number of CPUs and tasks.
THEOREM Invariance == Spec => []IInv
<1>1. Init => IInv
  BY InitIInv
<1>2. IInv /\ [Next]_vars => IInv'
  BY NextStep
<1> QED
  BY <1>1, <1>2, PTL DEF Spec

\* The state of the update is type correct and the module's reference count
\* never goes below zero.
THEOREM TypeCorrect == Spec => []TypeOK
BY Invariance, PTL DEF IInv

\* No thread is ever inside a function of a version that is not in force.
THEOREM FramesSafe == Spec => []NoStaleFrames
<1>1. IInv => NoStaleFrames
  BY DEF IInv, FrameInv
<1> QED
  BY <1>1, Invariance, PTL

\* The run queues are whole again whenever tasks run.
THEOREM QueuesSafe == Spec => []RunQueuesRestored
<1>1. IInv => RunQueuesRestored
  <2> SUFFICES ASSUME IInv, Running PROVE RunQueuesRestored
    BY DEF RunQueuesRestored
  <2>1. RunningQueues
    BY RunningQueuesEquiv DEF IInv
  <2> QED
    BY <2>1 DEF IInv, RunQueuesRestored, RunningQueues, VersionInv
<1> QED
  BY <1>1, Invariance, PTL

\* No balance callback of the replaced version survives the update.
THEOREM CallbacksSafe == Spec => []NoStaleCallback
<1>1. IInv => NoStaleCallback
  BY DEF IInv, CallbackInv, NoStaleCallback
<1> QED
  BY <1>1, Invariance, PTL

\* All CPUs take the same decision.
THEOREM DecisionUnanimous == Spec => []Unanimous
<1>1. IInv => Unanimous
  BY DEF IInv, TypeOK, SyncTypeOK, BarrierInv, Unanimous, BeforeCheck, PastCheck, PC,
         Checking, Clearing, Redirecting, Switching, Rebuilding
<1> QED
  BY <1>1, Invariance, PTL

\* The parallel stack check inspects every thread exactly once.
THEOREM ChecksPartition == Spec => []EveryTaskChecked
<1>1. IInv => EveryTaskChecked
  BY SharesPartition DEF IInv, EveryTaskChecked, Stopped
<1> QED
  BY <1>1, Invariance, PTL

\* The module stays pinned as long as anything leads into it.
THEOREM PinnedWhileUsed == Spec => []ModulePinned
<1>1. IInv => ModulePinned
  <2> SUFFICES ASSUME IInv, ~(refcnt >= 1) PROVE ModulePinned
    BY DEF ModulePinned
  <2>1. ~scheduler_enable /\ main = "idle"
    BY DEF IInv, ControlInv
  <2>2. text = "orig" /\ sched_class = "orig"
    BY <2>1 DEF IInv, VersionInv, Running, TypeOK, SchedTypeOK, Version
  <2>3. /\ \A v \in View : view[v] # "mod"
        /\ \A c \in CPU : balance_cb[c] # "mod" /\ "mod" \notin idle[c]
        /\ \A t \in tasks : "mod" \notin stack[t]
    BY <2>1, <2>2 DEF IInv, ViewInv, CallbackInv, Running, FrameInv, NoStaleFrames
  <2> QED
    BY <2>2, <2>3 DEF ModulePinned
<1> QED
  BY <1>1, Invariance, PTL

\* The update never takes more objects than the memory pool has.
THEOREM PoolSafe == Spec => []AllocWithinPool
<1>1. IInv => AllocWithinPool
  BY DEF IInv, PoolInv
<1> QED
  BY <1>1, Invariance, PTL

\* Between updates the flag tells the truth and nothing is leaked.
THEOREM FlagTrue == Spec => []FlagHonest
<1>1. IInv => FlagHonest
  BY DEF IInv, ControlInv, VersionInv, FlagHonest
<1> QED
  BY <1>1, Invariance, PTL

\* Between updates the module is referenced exactly if it is enabled, and always
\* while anything leads into it.
THEOREM ReferenceSafe == Spec => []ReferenceHonest
<1>1. ModulePinned /\ FlagHonest => ReferenceHonest
  BY DEF ReferenceHonest
<1> QED
  BY <1>1, PinnedWhileUsed, FlagTrue, PTL

\* A failed update has changed nothing.
THEOREM FailureHarmless == Spec => []FailedUpdateHarmless
<1>1. IInv => FailedUpdateHarmless
  <2> SUFFICES ASSUME IInv, main = "fail" PROVE FailedUpdateHarmless
    BY DEF FailedUpdateHarmless
  <2>1. text = Old(op) /\ sched_class = Old(op)
    BY DEF IInv, VersionInv, Running
  <2>2. \A v \in View : view[v] # New(op)
    BY DEF IInv, ViewInv, ControlInv, New, TypeOK, CtlTypeOK
  <2>3. op = "install" => used = 0
    BY DEF IInv, PoolInv, ControlInv
  <2> QED
    BY <2>1, <2>2, <2>3 DEF FailedUpdateHarmless
<1> QED
  BY <1>1, Invariance, PTL

-------------------------------------------------------------------------------
(***************************************************************************)
(* Steps.                                                                  *)
(***************************************************************************)
\* Only the first CPU changes the version, between the second and the third
\* barrier.
LEMMA OnlyRedirects ==
  ASSUME IInv, [Next]_vars, text' # text \/ sched_class' # sched_class
  PROVE  \E c \in CPU : SwitchSchedClass(c) \/ JumpOperation(c)
<1>1. ~Env
  BY EnvFrame
<1>2. ~Request /\ ~UNCHANGED vars
  BY DEF Request, LoadStart, UnloadStart, vars, schedVars
<1>3. ~Update
  BY DEF Update, MempoolsCreate, MempoolsFail, CpuMapsUpdateBegin,
         ParallelStateCheckInit, ProcessIdInit, StopMachine, StopMachineReturn,
         CpuMapsUpdateDone, FailCleanup, ReplaceView, FinishLoad, FinishUnload, schedVars
<1>4. PICK c \in CPU : Handler(c)
  BY <1>1, <1>2, <1>3 DEF Next
<1> QED
  BY <1>4 DEF Handler, RecheckSmps, StackCheck, ReportCheck, WaitCheck, Abort,
         Proceed, ClearSchedState, ReportClear, WaitClear,
         ResetBalanceCallback, ReportRedirect, WaitRedirect,
         RebuildSchedState, schedVars

\* Calls and class tables are redirected on empty, offline run queues only.
THEOREM RedirectsQuiescent == Spec => RedirectQuiescent
<1> DEFINE A == text' # text \/ sched_class' # sched_class =>
                  /\ \A t \in Task : holder[t] = "none"
                  /\ \A c \in online : ~rq_online[c]
                  /\ global_error = "none"
<1>1. IInv /\ [Next]_vars => [A]_vars
  <2> SUFFICES ASSUME IInv, [Next]_vars, text' # text \/ sched_class' # sched_class
               PROVE  /\ \A t \in Task : holder[t] = "none"
                      /\ \A c \in online : ~rq_online[c]
                      /\ global_error = "none"
    OBVIOUS
  <2>1. PICK c \in CPU : SwitchSchedClass(c) \/ JumpOperation(c)
    BY OnlyRedirects
  <2>2. Stopped /\ pc[c] \in {"switch", "jump"}
    BY <2>1 DEF SwitchSchedClass, JumpOperation, Goto, Stopped
  <2>3. global_error = "none"
    BY <2>2 DEF IInv, BarrierInv, PastCheck, Redirecting, Switching
  <2>4. \A d \in online : pc[d] \in Unqueued
    <3>1. \A d \in online : /\ d \in CPU /\ pc[d] \in PC \ {"run"}
                            /\ pc[d] # "failed" /\ pc[d] \notin BeforeClear
      BY <2>2, <2>3 DEF IInv, TypeOK, EnvTypeOK, SyncTypeOK, PhaseInv, BarrierInv,
           PastClear, Redirecting, Switching
    <3>2. \A d \in online : pc[d] # "done"
      BY <2>2, <3>1 DEF IInv, BarrierInv, PastRedirect, Rebuilding, BeforeRedirect,
           Redirecting, Switching
    <3> QED
      BY <3>1, <3>2 DEF Unqueued, BeforeClear, PC, Checking, Clearing, Redirecting,
           Switching, Rebuilding
  <2>5. \A t \in Task : holder[t] = "none"
    BY <2>2, <2>4 DEF IInv, QueueInv
  <2>6. \A d \in online : ~rq_online[d]
    BY <2>4 DEF IInv, QueueInv, TypeOK, EnvTypeOK
  <2> QED
    BY <2>3, <2>5, <2>6
<1> QED
  BY <1>1, Invariance, PTL DEF Spec, RedirectQuiescent

-------------------------------------------------------------------------------
(***************************************************************************)
(* With the refinement mapping of SyncSched (the version in force is the   *)
(* one calls reach, and inside stop_machine a queued task counts as held   *)
(* by it) every step of the protocol is a step of LiveUpdate or leaves its *)
(* variables alone.  The step that redirects the calls is Switch.          *)
(***************************************************************************)
\* What the abstract specification sees of the queues.
LEMMA HolderSeenIs ==
  ASSUME IInv
  PROVE  HolderSeen = [t \in Task |-> IF on_rq[t] THEN text ELSE "none"]
<1>1. \A t \in Task : on_rq[t] => t \in tasks
  BY DEF IInv, QueueInv
<1>2. CASE Running
  <2>1. \A t \in Task : holder[t] = IF on_rq[t] THEN text ELSE "none"
    BY <1>2 DEF IInv, QueueInv
  <2>2. holder \in [Task -> Holder]
    BY DEF IInv, TypeOK, SchedTypeOK
  <2> QED
    BY <1>2, <2>1, <2>2 DEF HolderSeen
<1>3. CASE ~Running
  BY <1>1, <1>3 DEF HolderSeen
<1> QED
  BY <1>2, <1>3

LEMMA HolderSeenNext ==
  ASSUME IInv'
  PROVE  HolderSeen' = [t \in Task |-> IF on_rq'[t] THEN text' ELSE "none"]
<1>1. \A t \in Task : on_rq'[t] => t \in tasks'
  BY DEF IInv, QueueInv
<1>2. CASE Running'
  <2>1. \A t \in Task : holder'[t] = IF on_rq'[t] THEN text' ELSE "none"
    BY <1>2 DEF IInv, QueueInv
  <2>2. holder' \in [Task -> Holder]
    BY DEF IInv, TypeOK, SchedTypeOK
  <2> QED
    BY <1>2, <2>1, <2>2 DEF HolderSeen
<1>3. CASE ~Running'
  BY <1>1, <1>3 DEF HolderSeen
<1> QED
  BY <1>2, <1>3

LEMMA InitRefines == Init => LU!Init
<1> SUFFICES ASSUME Init PROVE LU!Init
  OBVIOUS
<1>1. HolderSeen = [t \in Task |-> IF on_rq[t] THEN "orig" ELSE "none"]
  BY DEF Init, HolderSeen, Running
<1> QED
  BY <1>1 DEF Init, LU!Init

LEMMA EnvRefines ==
  ASSUME IInv, IInv', Env
  PROVE  LU!Next \/ UNCHANGED LU!vars
<1>1. /\ HolderSeen = [t \in Task |-> IF on_rq[t] THEN text ELSE "none"]
      /\ HolderSeen' = [t \in Task |-> IF on_rq'[t] THEN text' ELSE "none"]
      /\ text' = text /\ sched_class = text
      /\ text # "none"
  BY HolderSeenIs, HolderSeenNext, EnvFrame
     DEF IInv, VersionInv, TypeOK, SchedTypeOK, Version
<1>2. ASSUME NEW t \in Task, NEW c \in CPU, Fork(t, c)
      PROVE  LU!Fork(t)
  <2>1. on_rq' = [on_rq EXCEPT ![t] = TRUE]
    BY <1>2 DEF Fork
  <2>2. HolderSeen' = [HolderSeen EXCEPT ![t] = text]
    BY <1>1, <2>1 DEF IInv, TypeOK, EnvTypeOK
  <2> QED
    BY <1>1, <1>2, <2>2 DEF Fork, LU!Fork
<1>3. ASSUME NEW t \in Task, NEW c \in CPU, Wake(t, c)
      PROVE  LU!Wake(t)
  <2>1. HolderSeen' = [HolderSeen EXCEPT ![t] = text] /\ HolderSeen[t] = "none"
    BY <1>1, <1>3 DEF Wake, IInv, TypeOK, EnvTypeOK
  <2> QED
    BY <1>1, <1>3, <2>1 DEF Wake, LU!Wake
<1>4. ASSUME NEW t \in Task, Exit(t)
      PROVE  LU!Exit(t)
  <2>1. HolderSeen' = [HolderSeen EXCEPT ![t] = "none"]
    BY <1>1, <1>4 DEF Exit, IInv, TypeOK, EnvTypeOK
  <2> QED
    BY <1>1, <1>4, <2>1 DEF Exit, LU!Exit
<1>5. ASSUME NEW t \in Task, Sleep(t)
      PROVE  LU!Sleep(t)
  <2>1. HolderSeen' = [HolderSeen EXCEPT ![t] = "none"] /\ HolderSeen[t] # "none"
    BY <1>1, <1>5 DEF Sleep, IInv, TypeOK, EnvTypeOK
  <2> QED
    BY <1>1, <1>5, <2>1 DEF Sleep, LU!Sleep
<1>6. ASSUME NEW t \in Task, NEW v \in Version, EnterFn(t, v) \/ LeaveFn(t, v)
      PROVE  LU!Run(t)
  <2>1. stack[t] \subseteq {text} /\ t \in tasks /\ on_rq[t]
    BY <1>6 DEF EnterFn, LeaveFn, IInv, FrameInv, NoStaleFrames
  <2>2. \/ stack' = [stack EXCEPT ![t] = {text}]
        \/ stack' = [stack EXCEPT ![t] = {}]
    <3>1. CASE EnterFn(t, v)
      <4>1. stack[t] \cup {v} = {text}
        BY <1>1, <2>1, <3>1 DEF EnterFn
      <4> QED
        BY <3>1, <4>1 DEF EnterFn
    <3>2. CASE LeaveFn(t, v)
      <4>1. stack[t] \ {v} = {}
        BY <2>1, <3>2 DEF LeaveFn
      <4> QED
        BY <3>2, <4>1 DEF LeaveFn
    <3> QED
      BY <1>6, <3>1, <3>2
  <2>3. HolderSeen' = HolderSeen /\ UNCHANGED <<text, tasks, idle>>
    BY <1>1, <1>6 DEF EnterFn, LeaveFn, schedVars
  <2>4. HolderSeen[t] # "none"
    BY <1>1, <2>1
  <2> QED
    BY <2>1, <2>2, <2>3, <2>4 DEF LU!Run
<1>7. ASSUME NEW c \in CPU, NEW v \in Version,
             IdleEnterFn(c, v) \/ IdleLeaveFn(c, v)
      PROVE  LU!RunIdle(c)
  <2>1. idle[c] \subseteq {text}
    BY DEF IInv, FrameInv, NoStaleFrames
  <2>2. \/ idle' = [idle EXCEPT ![c] = {text}]
        \/ idle' = [idle EXCEPT ![c] = {}]
    <3>1. CASE IdleEnterFn(c, v)
      <4>1. idle[c] \cup {v} = {text}
        BY <1>1, <2>1, <3>1 DEF IdleEnterFn
      <4> QED
        BY <3>1, <4>1 DEF IdleEnterFn
    <3>2. CASE IdleLeaveFn(c, v)
      <4>1. idle[c] \ {v} = {}
        BY <2>1, <3>2 DEF IdleLeaveFn
      <4> QED
        BY <3>2, <4>1 DEF IdleLeaveFn
    <3> QED
      BY <1>7, <3>1, <3>2
  <2>3. HolderSeen' = HolderSeen /\ UNCHANGED <<text, tasks, stack>>
    BY <1>1, <1>7 DEF IdleEnterFn, IdleLeaveFn, schedVars
  <2> QED
    BY <2>2, <2>3 DEF LU!RunIdle
<1>8. ASSUME NEW c \in CPU, NEW d \in CPU, CpuDown(c, d)
      PROVE  LU!RunIdle(c)
  BY <1>1, <1>8 DEF CpuDown, LU!RunIdle
<1>9. ASSUME NEW t \in Task, NEW c \in CPU, Migrate(t, c)
      PROVE  UNCHANGED LU!vars
  BY <1>1, <1>9 DEF Migrate, schedVars, LU!vars
<1>10. ASSUME NEW c \in CPU, CpuUp(c)
       PROVE  UNCHANGED LU!vars
  BY <1>1, <1>10 DEF CpuUp, envVars, schedVars, LU!vars
<1> QED
  BY <1>2, <1>3, <1>4, <1>5, <1>6, <1>7, <1>8, <1>9, <1>10 DEF Env, LU!Next

\* The redirection of the calls is the atomic update.
LEMMA JumpRefines ==
  ASSUME IInv, IInv', NEW c \in CPU, JumpOperation(c)
  PROVE  LU!Switch
<1>1. /\ text = Old(op) /\ text' = New(op)
      /\ \A t \in tasks : stack[t] = {}
      /\ \A d \in CPU : idle[d] = {}
  BY JumpClean
<1>2. text' = LU!Other(text) /\ text # "none"
  BY <1>1 DEF Old, New, LU!Other
<1>3. UNCHANGED <<tasks, stack, idle, on_rq>>
  BY DEF JumpOperation, envVars
<1>4. /\ HolderSeen = [t \in Task |-> IF on_rq[t] THEN text ELSE "none"]
      /\ HolderSeen' = [t \in Task |-> IF on_rq'[t] THEN text' ELSE "none"]
  BY HolderSeenIs, HolderSeenNext
<1>5. HolderSeen' = [t \in Task |-> IF HolderSeen[t] = "none" THEN "none"
                                                              ELSE LU!Other(text)]
  BY <1>2, <1>3, <1>4
<1> QED
  BY <1>1, <1>2, <1>3, <1>5 DEF LU!Switch

LEMMA StepRefines ==
  ASSUME IInv, IInv', [Next]_vars
  PROVE  [LU!Next]_(LU!vars)
<1>1. /\ HolderSeen = [t \in Task |-> IF on_rq[t] THEN text ELSE "none"]
      /\ HolderSeen' = [t \in Task |-> IF on_rq'[t] THEN text' ELSE "none"]
  BY HolderSeenIs, HolderSeenNext
<1>2. CASE Env
  BY <1>2, EnvRefines
<1>3. CASE Request \/ Update \/ UNCHANGED vars
  <2>1. UNCHANGED <<envVars, text>>
    BY <1>3 DEF Request, LoadStart, UnloadStart, Update, MempoolsCreate, MempoolsFail,
         CpuMapsUpdateBegin, ParallelStateCheckInit, ProcessIdInit, StopMachine,
         StopMachineReturn, CpuMapsUpdateDone, FailCleanup, ReplaceView, FinishLoad,
         FinishUnload, vars, schedVars
  <2> QED
    BY <1>1, <2>1 DEF envVars, LU!vars
<1>4. ASSUME NEW c \in CPU, Handler(c), ~JumpOperation(c)
      PROVE  UNCHANGED LU!vars
  <2>1. UNCHANGED envVars
    BY <1>4, HandlerFrame DEF IInv
  <2>2. UNCHANGED text
    BY <1>4 DEF Handler, RecheckSmps, StackCheck, ReportCheck, WaitCheck, Abort,
         Proceed, ClearSchedState, ReportClear, WaitClear, SwitchSchedClass,
         ResetBalanceCallback, ReportRedirect, WaitRedirect, RebuildSchedState, schedVars
  <2> QED
    BY <1>1, <2>1, <2>2 DEF envVars, LU!vars
<1>5. ASSUME NEW c \in CPU, JumpOperation(c)
      PROVE  LU!Next
  BY <1>5, JumpRefines DEF LU!Next
<1> QED
  BY <1>2, <1>3, <1>4, <1>5 DEF Next

\* Seen from the tasks, the whole protocol is one atomic switch of the
\* scheduler that happens while no thread is inside it.
THEOREM Refinement == Spec => ImplementsLiveUpdate
<1>1. Init => LU!Init
  BY InitRefines
<1>2. IInv /\ IInv' /\ [Next]_vars => [LU!Next]_(LU!vars)
  BY StepRefines
<1> QED
  BY <1>1, <1>2, Invariance, PTL DEF Spec, ImplementsLiveUpdate, LU!Spec
===============================================================================
