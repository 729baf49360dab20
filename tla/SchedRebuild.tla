----------------------------- MODULE SchedRebuild -----------------------------
(***************************************************************************)
(* clear_sched_state and rebuild_sched_state of src/src/sched_rebuild.c on *)
(* one CPU, loop iteration by loop iteration.  SyncSched takes each of the *)
(* two as one step over the threads of the tasklist; here are also the     *)
(* threads that are no longer on it but still have to run (dying tasks).   *)
(*                                                                         *)
(* The loops over the tasklist visit every thread once; nothing depends on *)
(* the order.  When for_each_process_thread ends, its cursor p is computed *)
(* from the head of a list and points at no thread: it is Junk.            *)
(***************************************************************************)
EXTENDS Integers, FiniteSets

CONSTANTS
  Task,       \* the threads other than the stopper
  Stop,       \* rq->stop, the thread that executes the handler
  Junk,       \* what p points at after for_each_process_thread
  Head,       \* the head of this CPU's dying_task_list
  MaxRunning  \* the largest nr_running; the unsigned counter wraps after it

ASSUME NodeAssumption == {Stop, Junk, Head} \cap Task = {} /\ Stop # Junk /\ Head # Junk
ASSUME WidthAssumption ==
  IsFiniteSet(Task) /\ MaxRunning \in Nat /\ MaxRunning > Cardinality(Task)

VARIABLES
  place,      \* where the CPU is
  todo,       \* the threads the current tasklist loop has still to visit
  p,          \* the loop cursor
  tasklist,   \* the threads for_each_process_thread finds
  dying,      \* off the tasklist, still runnable
  mine,       \* the threads whose task_rq is this CPU's
  on_rq,      \* task_on_rq_queued
  version,    \* the version the sched_class tables hold
  held,       \* how often each version's queues hold each thread
  nr_running, \* rq->nr_running
  rq_online,
  next, prev  \* the links of the list nodes p->tasks and of the list head

vars == <<place, todo, p, tasklist, dying, mine, on_rq, version, held,
          nr_running, rq_online, next, prev>>

Version == {"orig", "mod"}
Other(v) == CHOOSE w \in Version : w # v
Node == Task \cup {Junk, Head}
Nowhere == [v \in Version |-> 0]

\* What a consistent run queue holds of thread t.
HeldBy(t, v) == [Nowhere EXCEPT ![v] = IF t \in on_rq THEN 1 ELSE 0]

Init ==
  /\ place = "run" /\ todo = {} /\ p = Junk /\ version = "orig"
  /\ tasklist \in SUBSET Task /\ dying = {} /\ mine \in SUBSET Task
  /\ on_rq \in SUBSET tasklist
  /\ held = [t \in Task |-> HeldBy(t, "orig")]
  /\ nr_running = Cardinality(mine \cap on_rq) + 1 /\ rq_online = TRUE
  /\ next = [n \in Node |-> n] /\ prev = [n \in Node |-> n]

-------------------------------------------------------------------------------
(***************************************************************************)
(* The kernel, while the machine runs.                                     *)
(***************************************************************************)
Count(n) == n % (MaxRunning + 1)
OnThisRq(t) == IF t \in mine THEN 1 ELSE 0

Wake(t) ==
  /\ place = "run" /\ t \in tasklist \ on_rq
  /\ on_rq' = on_rq \cup {t}
  /\ held' = [held EXCEPT ![t][version] = @ + 1]
  /\ nr_running' = Count(nr_running + OnThisRq(t))
  /\ UNCHANGED <<place, todo, p, tasklist, dying, mine, version, rq_online, next,
                 prev>>

Sleep(t) ==
  /\ place = "run" /\ t \in on_rq
  /\ on_rq' = on_rq \ {t} /\ dying' = dying \ {t}
  /\ held' = [held EXCEPT ![t][version] = @ - 1]
  /\ nr_running' = Count(nr_running - OnThisRq(t))
  /\ UNCHANGED <<place, todo, p, tasklist, mine, version, rq_online, next, prev>>

\* release_task takes a thread off the tasklist before its last __schedule.
Release(t) ==
  /\ place = "run" /\ t \in tasklist \cap on_rq
  /\ tasklist' = tasklist \ {t} /\ dying' = dying \cup {t}
  /\ UNCHANGED <<place, todo, p, mine, on_rq, version, held, nr_running,
                 rq_online, next, prev>>

-------------------------------------------------------------------------------
(***************************************************************************)
(* clear_sched_state.                                                      *)
(***************************************************************************)
BeginClear ==
  /\ place = "run"
  /\ place' = "dequeue" /\ todo' = tasklist \cup {Stop} /\ rq_online' = FALSE
  /\ UNCHANGED <<p, tasklist, dying, mine, on_rq, version, held, nr_running, next,
                 prev>>

\* The iterations that get past the two "continue"s and the test of the queue.
Bug_HandlesStopper(t) == t = Stop \/ t \in mine \cap on_rq
Bug_HandlesEveryRq(t) == t \in on_rq
Handles(t) == t # Stop /\ t \in mine /\ t \in on_rq

DequeueVisit(t) ==
  /\ place = "dequeue" /\ t \in todo
  /\ todo' = todo \ {t} /\ p' = t
  /\ IF Handles(t)
       THEN /\ nr_running' = Count(nr_running - 1)
            /\ held' = [u \in Task |-> IF u = t THEN [held[u] EXCEPT ![version] = @ - 1]
                                              ELSE held[u]]
       ELSE UNCHANGED <<held, nr_running>>
  /\ UNCHANGED <<place, tasklist, dying, mine, on_rq, version, rq_online, next,
                 prev>>

\* The loop ends, and INIT_LIST_HEAD empties the list of dying tasks.
DequeueEnd ==
  /\ place = "dequeue" /\ todo = {}
  /\ place' = "drain" /\ p' = Junk
  /\ next' = [next EXCEPT ![Head] = Head] /\ prev' = [prev EXCEPT ![Head] = Head]
  /\ UNCHANGED <<todo, tasklist, dying, mine, on_rq, version, held, nr_running,
                 rq_online>>

\* Some class has a next task, and its dequeue_task is called, with p and not
\* with that task.  p is no task: the call decrements nr_running and touches no
\* real queue (the stop class, which is asked first, does just that), or it
\* faults.  p->tasks goes to the tail of the list: first its own links are set,
\* then those of its neighbours.
DrainOne ==
  /\ place = "drain" /\ nr_running # 1
  /\ \/ /\ nr_running' = Count(nr_running - 1)
        /\ LET tail == prev[Head] IN
             /\ next' = [[next EXCEPT ![p] = Head] EXCEPT ![tail] = p]
             /\ prev' = [[prev EXCEPT ![p] = tail] EXCEPT ![Head] = p]
        /\ UNCHANGED place
     \/ place' = "oops" /\ UNCHANGED <<nr_running, next, prev>>
  /\ UNCHANGED <<todo, p, tasklist, dying, mine, on_rq, version, held, rq_online>>

DrainEnd ==
  /\ place = "drain" /\ nr_running = 1
  /\ place' = "cleared"
  /\ UNCHANGED <<todo, p, tasklist, dying, mine, on_rq, version, held, nr_running,
                 rq_online, next, prev>>

-------------------------------------------------------------------------------
(***************************************************************************)
(* rebuild_sched_state.                                                    *)
(***************************************************************************)
\* All CPUs have cleared, the first one has switched the classes.
BeginRebuild ==
  /\ place = "cleared"
  /\ place' = "enqueue" /\ todo' = tasklist \cup {Stop} /\ rq_online' = TRUE
  /\ version' = Other(version)
  /\ UNCHANGED <<p, tasklist, dying, mine, on_rq, held, nr_running, next, prev>>

EnqueueVisit(t) ==
  /\ place = "enqueue" /\ t \in todo
  /\ todo' = todo \ {t} /\ p' = t
  /\ IF Handles(t)
       THEN /\ nr_running' = Count(nr_running + 1)
            /\ held' = [u \in Task |-> IF u = t THEN [held[u] EXCEPT ![version] = @ + 1]
                                              ELSE held[u]]
       ELSE UNCHANGED <<held, nr_running>>
  /\ UNCHANGED <<place, tasklist, dying, mine, on_rq, version, rq_online, next,
                 prev>>

\* list_for_each_entry_rcu starts at the first entry.
EnqueueEnd ==
  /\ place = "enqueue" /\ todo = {}
  /\ place' = "enqueue_dying" /\ p' = next[Head]
  /\ UNCHANGED <<todo, tasklist, dying, mine, on_rq, version, held, nr_running,
                 rq_online, next, prev>>

\* The entry is enqueued and unlinked with list_del_init; the loop goes on from
\* the entry's own next pointer.  Enqueueing what is not a task increments
\* nr_running or faults.
EnqueueDying ==
  /\ place = "enqueue_dying" /\ p # Head
  /\ \/ /\ nr_running' = Count(nr_running + 1)
        /\ next' = [[next EXCEPT ![prev[p]] = next[p]] EXCEPT ![p] = p]
        /\ prev' = [[prev EXCEPT ![next[p]] = prev[p]] EXCEPT ![p] = p]
        /\ p' = next'[p]
        /\ UNCHANGED place
     \/ place' = "oops" /\ UNCHANGED <<nr_running, next, prev, p>>
  /\ UNCHANGED <<todo, tasklist, dying, mine, on_rq, version, held, rq_online>>

\* The other CPUs' tasks are handed over by their own handlers.
RebuildEnd ==
  /\ place = "enqueue_dying" /\ p = Head
  /\ place' = "run" /\ p' = Junk
  /\ held' = [t \in Task |-> IF t \in mine THEN held[t] ELSE HeldBy(t, version)]
  /\ UNCHANGED <<todo, tasklist, dying, mine, on_rq, version, nr_running,
                 rq_online, next, prev>>

Handler ==
  \/ \E t \in Task \cup {Stop} : DequeueVisit(t) \/ EnqueueVisit(t)
  \/ DequeueEnd \/ DrainOne \/ DrainEnd \/ BeginRebuild \/ EnqueueEnd
  \/ EnqueueDying \/ RebuildEnd

Next ==
  \/ \E t \in Task : Wake(t) \/ Sleep(t) \/ Release(t)
  \/ BeginClear \/ Handler

\* A stopper thread is never preempted, so its handler goes on.
Spec == Init /\ [][Next]_vars /\ WF_vars(Handler)

-------------------------------------------------------------------------------
\* Every thread of the tasklist changes queues exactly once: it is in no queue
\* when this CPU has cleared its own, once in the queues of the version in force
\* when the machine runs, and never touched by the handler of a CPU that it does
\* not belong to.
LiveHandedOver ==
  /\ place = "cleared" => \A t \in tasklist \cap mine : held[t] = Nowhere
  /\ place = "run" => \A t \in tasklist : held[t] = HeldBy(t, version)
  /\ place \in {"drain", "cleared"} =>
       \A t \in tasklist \ mine : held[t] = HeldBy(t, version)

\* nr_running counts the stopper and the threads of this CPU that have not been
\* dequeued: at least 1 while the CPU clears and enqueues the live threads,
\* however many dying tasks the drain loop meets, exactly 1 when it has cleared,
\* and right again when the machine runs or when the loop over the dying tasks
\* has nothing to visit.  Nothing is claimed about that loop once it stands on an
\* entry: it never ends and counts nr_running up until it wraps
\* (DyingHandedOver).
StopperCounted ==
  /\ place \in {"dequeue", "drain", "enqueue"} => nr_running >= 1
  /\ place = "cleared" => nr_running = 1
  /\ place = "run" \/ (place = "enqueue_dying" /\ p = Head) =>
       nr_running = Cardinality(mine \cap on_rq) + 1

\* "Now, just the stopper task is running" (sched_rebuild.c:122) and "Fix the
\* rebuilding of dying task that cannot found in init_tasklist" (ChangeLog.md:82):
\* a thread that is dying on this CPU when the drain loop begins has left the
\* replaced scheduler's queue and is in that of the new one when the machine runs
\* again.
DyingHandedOver ==
  \A t \in Task :
    place = "drain" /\ t \in dying \cap mine
      ~> place = "run" /\ held[t] = HeldBy(t, version)
===============================================================================
