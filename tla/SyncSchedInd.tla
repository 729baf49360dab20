----------------------------- MODULE SyncSchedInd -----------------------------
(***************************************************************************)
(* The inductive invariant of SyncSched.  It says, for every place of the  *)
(* updating thread and of the handlers, what the counters, the error word, *)
(* the scheduler state and the resources are; the safety properties of     *)
(* SyncSched follow from it.                                               *)
(***************************************************************************)
EXTENDS SyncSched

\* The places before each barrier's counter is decremented.
BeforeCheck    == Checking
BeforeClear    == Checking \cup {"wait_check", "decide"} \cup Clearing
BeforeRedirect == BeforeClear \cup {"wait_clear"} \cup Redirecting

\* The places that can only be reached through each barrier, without an error.
PastCheck    == Clearing \cup {"wait_clear"} \cup Redirecting
                  \cup {"wait_redirect"} \cup Rebuilding
PastClear    == Redirecting \cup {"wait_redirect"} \cup Rebuilding
PastRedirect == Rebuilding

\* The places at which a CPU's tasks are in the old queues, and in none.
Queued   == Checking \cup {"wait_check", "decide", "clear", "failed"}
Unqueued == {"clear_dec", "wait_clear"} \cup Redirecting
              \cup {"wait_redirect", "rebuild"}

\* The places of the first CPU before it switches the class tables, before it
\* redirects the calls, and after it dropped the balance callbacks.
OldClass == BeforeClear \cup {"wait_clear", "switch", "failed"}
OldText  == OldClass \cup {"jump"}
NewText  == {"reset", "redirect_dec", "wait_redirect"} \cup Rebuilding
Reset    == {"redirect_dec", "wait_redirect"} \cup Rebuilding

AtPlaces(P) == {c \in online : pc[c] \in P}

Stopped == main = "stopped"

\* The flag, the reference count, the lock and the pool follow the updating
\* thread.
ControlInv ==
  /\ online # {}
  /\ refcnt = IF scheduler_enable \/ main # "idle" THEN 1 ELSE 0
  /\ main # "idle" => (scheduler_enable <=> op = "restore")
  /\ main = "pools" => op = "install"
  /\ cpu_maps_locked <=> main \in {"check_init", "id_init", "stop_machine",
                                   "stopped", "maps_done"}
  /\ smp = -1 <=> (~scheduler_enable /\ main \in {"idle", "pools"})
  /\ main = "fail" => ret # "none"
  /\ main = "views" => ret = "none"

\* Who is in a handler.
PhaseInv == \A c \in CPU : pc[c] = "run" <=> ~(Stopped /\ c \in online)

\* The counters count the CPUs that have not reported yet.
CounterInv ==
  /\ main \in {"id_init", "stop_machine"} =>
       /\ cpu_finished = Cardinality(online)
       /\ clear_finished = Cardinality(online)
       /\ redirect_finished = Cardinality(online)
       /\ global_error = "none"
  /\ Stopped =>
       /\ cpu_finished = Cardinality(AtPlaces(BeforeCheck))
       /\ clear_finished = Cardinality(AtPlaces(BeforeClear))
       /\ redirect_finished = Cardinality(AtPlaces(BeforeRedirect))

\* No CPU is past a barrier another one has not reached, and none is past the
\* first one with an error, or gave up without.
BarrierInv ==
  /\ \A c, d \in CPU :
       /\ pc[c] \in PastCheck \cup {"decide", "failed"} => pc[d] \notin BeforeCheck
       /\ pc[c] \in PastClear => pc[d] \notin BeforeClear
       /\ pc[c] \in PastRedirect => pc[d] \notin BeforeRedirect
  /\ \A c \in CPU : /\ pc[c] \in PastCheck => global_error = "none"
                    /\ pc[c] = "failed" => global_error # "none"

\* The online CPUs are numbered by rank; what only the first one does is done
\* by it.
IdInv ==
  /\ main \in {"stop_machine", "stopped"} =>
       \A c \in online : process_id[c] = Rank(c, online)
  /\ \A c \in CPU : /\ pc[c] \in Switching => IsFirstProcess(c)
                    /\ pc[c] = "recheck" => op = "install" /\ IsFirstProcess(c)

\* Without an error so far, every CPU that has checked found nothing.
CheckInv ==
  Stopped /\ global_error = "none" =>
    \A c \in online :
      /\ pc[c] \notin {"recheck", "stack"} => ~Busy(c)
      /\ op = "install" /\ IsFirstProcess(c) /\ pc[c] # "recheck" => ~PoolTooSmall

\* Frames are of the version in force; who is gone has none.
FrameInv ==
  /\ NoStaleFrames
  /\ \A t \in Task \ tasks : stack[t] = {}
  /\ \A c \in CPU \ online : idle[c] = {}

\* Which version is in force.
VersionInv ==
  /\ Running => sched_class = text
  /\ text = "mod" \/ sched_class = "mod" => bak_class = "orig"
  /\ main = "idle" => (scheduler_enable <=> text = "mod")
  /\ main \in {"pools", "maps_begin", "check_init", "id_init", "stop_machine",
               "fail"} => text = Old(op)
  /\ main = "views" => text = New(op)
  /\ main = "maps_done" => text = IF ret = "none" THEN New(op) ELSE Old(op)
  /\ Stopped => \A f \in online : IsFirstProcess(f) =>
       /\ pc[f] \in OldClass => sched_class = Old(op)
       /\ pc[f] \in OldText => text = Old(op)
       /\ pc[f] \in NewText => text = New(op)
       /\ pc[f] \in NewText \cup {"jump"} => sched_class = New(op)

\* Where the tasks are queued, and whether the run queues are online.
QueueInv ==
  /\ \A t \in Task : on_rq[t] => t \in tasks /\ task_cpu[t] \in online
  /\ \A t \in Task : ~on_rq[t] => holder[t] = "none"
  /\ Running => \A t \in Task : on_rq[t] => holder[t] = text
  /\ Stopped => \A t \in Task : on_rq[t] =>
       /\ pc[task_cpu[t]] \in Queued => holder[t] = Old(op)
       /\ pc[task_cpu[t]] \in Unqueued => holder[t] = "none"
       /\ pc[task_cpu[t]] = "done" => holder[t] = New(op)
  /\ \A c \in CPU :
       rq_online[c] <=> c \in online /\ pc[c] \notin Unqueued

\* Which balance callbacks can be pending.
CallbackInv ==
  /\ Running => \A c \in CPU : balance_cb[c] \in {"none", text}
  /\ Stopped => \A c \in CPU : balance_cb[c] \in {"none", Old(op)}
  /\ Stopped => \A f \in online : IsFirstProcess(f) /\ pc[f] \in Reset =>
       \A c \in CPU : balance_cb[c] = "none"

\* Which version is behind the views.
ViewInv ==
  /\ main # "views" =>
       \A v \in View : view[v] # IF scheduler_enable THEN "orig" ELSE "mod"
  /\ main = "views" =>
       \A v \in View : view[v] # IF v < vi THEN Old(op) ELSE New(op)

\* How much of the pool is handed out.
PoolInv ==
  /\ AllocWithinPool
  /\ ~scheduler_enable /\ main \notin {"stopped", "maps_done", "views"} => used = 0
  /\ main = "maps_done" /\ op = "install" /\ ret # "none" => used = 0
  /\ main \in {"maps_done", "views"} /\ op = "restore" /\ ret = "none" => used = 0
  /\ Stopped => \A f \in online : IsFirstProcess(f) =>
       /\ op = "install" /\ pc[f] \notin PastCheck => used = 0
       /\ op = "restore" /\ pc[f] = "done" => used = 0

\* The inductive invariant: what holds at each place of the updating thread and
\* of the handlers of main.c.
IInv ==
  /\ TypeOK /\ ControlInv /\ PhaseInv /\ CounterInv /\ BarrierInv /\ IdInv
  /\ CheckInv /\ FrameInv /\ VersionInv /\ QueueInv /\ CallbackInv /\ ViewInv
  /\ PoolInv
===============================================================================
