------------------------------- MODULE Boundary -------------------------------
(***************************************************************************)
(* The boundary analyzer, src/boundary/analyze.py: from the call graph and *)
(* the configuration it computes which functions go into the scheduler     *)
(* module (insiders and the border), which stay in the kernel, and whether *)
(* the compiler's clones make the border unsafe.                           *)
(*                                                                         *)
(* The inputs are the sets the first two passes and find_in_vmlinux        *)
(* produce, as a record.  Order inside the loops over Python sets is       *)
(* arbitrary, and so it is here.                                           *)
(***************************************************************************)
EXTENDS Naturals, Sequences, FiniteSets

CONSTANTS
  Fn,              \* the functions, (name, file) pairs in the source
  File,            \* the source files
  Program,         \* the inputs to analyse
  RecursionLimit   \* how deep Python lets check_redirect_mangled recurse

ASSUME ProgramAssumption ==
  /\ IsFiniteSet(Fn)
  /\ \A P \in Program :
       /\ P.mod_fns \subseteq Fn /\ P.sdcr_fns \subseteq Fn
       /\ P.interface \subseteq Fn /\ P.callback \subseteq P.mod_fns
       /\ P.export \subseteq P.mod_fns /\ P.init \subseteq Fn
       /\ P.sidecar \subseteq Fn /\ P.in_vmlinux \subseteq Fn
       /\ P.mangled \subseteq Fn /\ P.fake_global \subseteq Fn
       /\ P.edges \subseteq Fn \X Fn
       /\ P.file \in [Fn -> File]

VARIABLES
  prog,       \* the program analysed
  place,      \* where the analyzer is
  leftover,   \* the sidecar functions' bodies to keep
  insiders,   \* the functions inflect has not excluded yet
  symbols,    \* the clones whose redirection has still to be checked
  frames      \* the active calls of check_redirect_mangled

vars == <<prog, place, leftover, insiders, symbols, frames>>

-------------------------------------------------------------------------------
(***************************************************************************)
(* func_class_arithmetics.                                                 *)
(***************************************************************************)
CbOpt == (prog.callback \ prog.interface) \ prog.in_vmlinux
Callback == (prog.callback \ prog.interface) \ CbOpt
Border == prog.interface \cup Callback

InitialInsider == (prog.mod_fns \ Border) \ prog.export

InflectCut == Border \cup prog.init \cup prog.sidecar

\* insider, sched_outsider and sdcr_out, once inflect is through.
Insider == (insiders \ prog.init) \ prog.fake_global
SchedOutsider ==
  ((prog.mod_fns \ Insider) \ Border) \cup CbOpt
    \cup (prog.fake_global \cap prog.mod_fns)
SdcrOut == prog.sdcr_fns \ leftover

Init ==
  /\ prog \in Program
  /\ place = "sidecar" /\ leftover = prog.sidecar
  /\ insiders = InitialInsider
  /\ symbols = {} /\ frames = <<>>

-------------------------------------------------------------------------------
(***************************************************************************)
(* sidecar_inflect: descend from the sidecar functions to what was inlined *)
(* into them.                                                              *)
(***************************************************************************)
SidecarAssert ==
  /\ place = "sidecar" /\ ~(prog.sidecar \subseteq prog.in_vmlinux)
  /\ place' = "halted"
  /\ UNCHANGED <<prog, leftover, insiders, symbols, frames>>

\* Only what the sidecar functions themselves call is kept.
Bug_DescendsOnce(f, g) ==
  /\ f \in prog.sidecar /\ <<f, g>> \in prog.edges
  /\ prog.file[f] = prog.file[g] /\ g \notin prog.in_vmlinux
Descends(f, g) ==
  /\ <<f, g>> \in prog.edges /\ prog.file[f] = prog.file[g]
  /\ g \notin prog.in_vmlinux

SidecarDfs(g) ==
  /\ place = "sidecar" /\ prog.sidecar \subseteq prog.in_vmlinux
  /\ g \notin leftover /\ \E f \in leftover : Descends(f, g)
  /\ leftover' = leftover \cup {g}
  /\ UNCHANGED <<prog, place, insiders, symbols, frames>>

\* Then the sidecars must not be on the border.
SidecarEnd ==
  /\ place = "sidecar" /\ prog.sidecar \subseteq prog.in_vmlinux
  /\ \A f \in leftover, g \in Fn : Descends(f, g) => g \in leftover
  /\ place' = IF prog.sidecar \cap Border = {} THEN "inflect" ELSE "halted"
  /\ UNCHANGED <<prog, leftover, insiders, symbols, frames>>

(***************************************************************************)
(* inflect: what an outsider calls becomes an outsider, until nothing      *)
(* changes.                                                                *)
(***************************************************************************)
\* Calls from outside the module's source files are not seen; callers in the
\* border are not let through.
Bug_ExposedToModOnly(S) ==
  {g \in S : \E f \in prog.mod_fns \ (S \cup InflectCut) : <<f, g>> \in prog.edges}
Bug_ExposedIgnoringCut(S) ==
  {g \in S : \E f \in Fn \ S : <<f, g>> \in prog.edges}
Exposed(S) ==
  {g \in S : \E f \in Fn \ (S \cup InflectCut) : <<f, g>> \in prog.edges}

\* The round forgets to take away what it found.
Bug_InflectRoundKeeps ==
  /\ place = "inflect" /\ Exposed(insiders) # {}
  /\ UNCHANGED vars
InflectRound ==
  /\ place = "inflect" /\ Exposed(insiders) # {}
  /\ insiders' = insiders \ Exposed(insiders)
  /\ UNCHANGED <<prog, place, leftover, symbols, frames>>

InflectEnd ==
  /\ place = "inflect" /\ Exposed(insiders) = {}
  /\ place' = "check"
  /\ symbols' = (prog.sidecar \cup Border) \cap prog.mangled
  /\ UNCHANGED <<prog, leftover, insiders, frames>>

(***************************************************************************)
(* The sanity check: check_redirect_mangled for every redirected function  *)
(* the compiler cloned.                                                    *)
(***************************************************************************)
CallersInFile(f) ==
  {g \in Fn : <<g, f>> \in prog.edges /\ prog.file[g] = prog.file[f]}

\* Only the clones count as optimised, not the functions without a symbol.
Bug_OptimisedClonesOnly(g) == g \in prog.mangled
Optimised(g) == g \in prog.mangled \/ g \notin prog.in_vmlinux

Frame(f) == [fn |-> f, todo |-> CallersInFile(f)]
Top == frames[Len(frames)]
Examined(g) == [frames EXCEPT ![Len(frames)].todo = @ \ {g}]

CheckStart(f) ==
  /\ place = "check" /\ frames = <<>> /\ f \in symbols
  /\ symbols' = symbols \ {f} /\ frames' = <<Frame(f)>>
  /\ UNCHANGED <<prog, place, leftover, insiders>>

\* An outsider calls the clone: the assertion fails.
CheckUnsafe(g) ==
  /\ place = "check" /\ frames # <<>> /\ g \in Top.todo
  /\ g \in SchedOutsider
  /\ place' = "halted"
  /\ UNCHANGED <<prog, leftover, insiders, symbols, frames>>

\* A caller that was itself optimised is examined recursively, as deep as
\* Python allows.
CheckCaller(g) ==
  /\ place = "check" /\ frames # <<>> /\ g \in Top.todo
  /\ g \notin SchedOutsider
  /\ IF ~Optimised(g) THEN frames' = Examined(g) /\ UNCHANGED place
     ELSE IF Len(frames) < RecursionLimit
       THEN frames' = Append(Examined(g), Frame(g)) /\ UNCHANGED place
       ELSE place' = "recursion_error" /\ UNCHANGED frames
  /\ UNCHANGED <<prog, leftover, insiders, symbols>>

CheckReturn ==
  /\ place = "check" /\ frames # <<>> /\ Top.todo = {}
  /\ frames' = SubSeq(frames, 1, Len(frames) - 1)
  /\ UNCHANGED <<prog, place, leftover, insiders, symbols>>

\* The sanity checks have passed and the results are written.
WriteResults ==
  /\ place = "check" /\ frames = <<>> /\ symbols = {}
  /\ place' = "done"
  /\ UNCHANGED <<prog, leftover, insiders, symbols, frames>>

Analyze ==
  \/ SidecarAssert \/ SidecarEnd
  \/ InflectRound \/ InflectEnd
  \/ \E g \in Fn : SidecarDfs(g) \/ CheckStart(g) \/ CheckUnsafe(g) \/ CheckCaller(g)
  \/ CheckReturn \/ WriteResults

Next == Analyze

Spec == Init /\ [][Next]_vars

-------------------------------------------------------------------------------
\* A set of functions is closed if nothing outside it and its border calls it.
Closed(S) ==
  \A f \in Fn, g \in S : <<f, g>> \in prog.edges => f \in S \cup InflectCut

\* No outsider calls an insider directly once inflect is through: every caller
\* is an insider, on the border, a sidecar, an __init function or a weak
\* definition that is not linked, and no kernel module can be a caller.
OutsidersKeptOut ==
  place \in {"check", "done"} =>
    /\ \A f, g \in Fn :
         <<f, g>> \in prog.edges /\ g \in Insider =>
           f \in Insider \cup InflectCut \cup prog.fake_global
    /\ Insider \cap prog.export = {}

\* inflect excludes no function without need: every closed set of candidates
\* is still contained in the insiders, so the result is the largest one.
InflectMaximal ==
  \A S \in SUBSET InitialInsider : Closed(S) => S \subseteq insiders

\* The sidecar files of the module compile and link: whatever a kept body calls
\* in its own file is kept too, unless the kernel has it; and nothing that the
\* kernel has is kept, except the sidecar functions.
SidecarsComplete ==
  place = "done" =>
    /\ \A f \in leftover, g \in SdcrOut :
         <<f, g>> \in prog.edges /\ prog.file[f] = prog.file[g] =>
           g \in prog.in_vmlinux
    /\ leftover \cap prog.in_vmlinux \subseteq prog.sidecar

\* The functions from which a clone's original can be reached by calls inside
\* its file through optimised functions only.
ReachesClone(f) ==
  LET opt == prog.mangled \cup (Fn \ prog.in_vmlinux)
      step(S) == S \cup {g \in opt : \E h \in S : g \in CallersInFile(h)}
      iter[n \in Nat] == IF n = 0 THEN {f} ELSE step(iter[n - 1])
  IN  iter[Cardinality(Fn)]

\* The results are written only if no outsider calls, directly or through
\* functions optimised into it, a redirected function that has clones.
ClonesSafe ==
  place = "done" =>
    \A f \in (prog.sidecar \cup Border) \cap prog.mangled :
      \A h \in ReachesClone(f) : CallersInFile(h) \cap SchedOutsider = {}

\* The analysis comes to an end.
AnalysisTerminates == <>(place \in {"done", "halted", "recursion_error"})
===============================================================================
