------------------------------ MODULE StackCover ------------------------------
(***************************************************************************)
(* Why it is enough that stack_check_fn (src/src/stack_check.h) looks for  *)
(* the redirected functions only, and not for all the functions that the   *)
(* module replaces.  The boundary analyzer runs first, as in Boundary;     *)
(* then a kernel thread calls and returns along the call graph that was    *)
(* analysed, goes to sleep in __schedule, and its stack is checked.        *)
(***************************************************************************)
EXTENDS Boundary

CONSTANTS
  Schedule,     \* __schedule, the only place where a thread is switched out
  MaxDepth,     \* how deep a kernel stack gets
  MaxEntries    \* MAX_STACK_ENTRIES

ASSUME ScheduleAssumption == \A P \in Program : Schedule \in P.interface
ASSUME DepthAssumption ==
  MaxDepth \in Nat /\ MaxEntries \in Nat /\ MaxDepth <= MaxEntries

VARIABLES
  stack,   \* the functions the thread is in, outermost first
  asleep   \* it has been switched out

coverVars == <<vars, stack, asleep>>

CoverInit == Init /\ stack = <<>> /\ asleep = FALSE

\* The functions a running kernel can execute after boot.
Linked == (Fn \ prog.init) \ prog.fake_global

\* export_jump.h: the functions whose heads are replaced.
Redirected == Callback \cup prog.interface \cup prog.sidecar

Innermost == stack[Len(stack)]

Push(f) ==
  /\ place = "done" /\ ~asleep /\ Len(stack) < MaxDepth /\ f \in Linked
  /\ stack' = Append(stack, f)
  /\ UNCHANGED <<vars, asleep>>

\* Assembly and hardware enter the kernel at outsiders and at the functions the
\* configuration lists as interfaces.
Enter(f) == stack = <<>> /\ f \notin Insider /\ Push(f)

Call(g) == stack # <<>> /\ <<Innermost, g>> \in prog.edges /\ Push(g)

\* Through a pointer one reaches outside functions and the callbacks ...
CallPointer(g) ==
  /\ stack # <<>>
  /\ g \in prog.callback \cap prog.in_vmlinux \/ g \notin prog.mod_fns
  /\ Push(g)

\* ... and, through a struct sched_class, which is private to the scheduler,
\* any of its methods.
CallClass(g) ==
  /\ stack # <<>> /\ Innermost \in Insider \cup Border /\ g \in prog.mod_fns
  /\ Push(g)

Return ==
  /\ place = "done" /\ ~asleep /\ stack # <<>>
  /\ stack' = SubSeq(stack, 1, Len(stack) - 1)
  /\ UNCHANGED <<vars, asleep>>

\* context_switch, with the body of everything between inlined.
SwitchOut ==
  /\ place = "done" /\ ~asleep /\ stack # <<>> /\ Innermost = Schedule
  /\ \A i \in 1 .. Len(stack) - 1 : stack[i] # Schedule
  /\ asleep' = TRUE
  /\ UNCHANGED <<vars, stack>>

SwitchIn ==
  /\ asleep
  /\ asleep' = FALSE
  /\ UNCHANGED <<vars, stack>>

Kernel ==
  \/ \E f \in Fn : Enter(f) \/ Call(f) \/ CallPointer(f) \/ CallClass(f)
  \/ Return \/ SwitchOut \/ SwitchIn

CoverNext == (Analyze /\ UNCHANGED <<stack, asleep>>) \/ Kernel

CoverSpec == CoverInit /\ [][CoverNext]_coverVars

\* The analyzer is one sequential program; nothing is assumed of the threads.
CoverFairSpec == CoverSpec /\ WF_coverVars(Analyze /\ UNCHANGED <<stack, asleep>>)

-------------------------------------------------------------------------------
(***************************************************************************)
(* stack_check_task.                                                       *)
(***************************************************************************)
\* get_stack_trace stores the innermost entries, as many as fit.
Traced == {i \in 1 .. Len(stack) : Len(stack) - i < MaxEntries}

\* stack_check_init records the sizes; that of __schedule is set to 0, so that
\* no address is inside it.
Bug_LookedForWithoutCallbacks == (prog.interface \cup prog.sidecar) \ {Schedule}
LookedFor == Redirected \ {Schedule}

\* stack_check_fn finds none of them.
CheckPasses == \A i \in Traced : stack[i] \notin LookedFor

\* The promise of the stack check: a sleeping thread that passes it is inside
\* no function that the update replaces, other than __schedule itself, although
\* only the functions on the border were looked for.
PassingStackIsClean ==
  asleep /\ CheckPasses =>
    \A i \in 1 .. Len(stack) :
      stack[i] \notin Insider \cup (Redirected \ {Schedule})
===============================================================================
