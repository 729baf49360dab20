----------------------------- MODULE MCStackCover -----------------------------
(***************************************************************************)
(* Small programs.  A program gives every function a role; the roles are   *)
(* the combinations of attributes a function of the kernel can have.       *)
(* Function 4 is __schedule, functions 2 and 3 have any roles, and         *)
(* function 1 is one that calls them.                                      *)
(***************************************************************************)
EXTENDS StackCover

FourFns == 1 .. 4
TwoFiles == {"core.c", "user.c"}
ScheduleFn == 4

\* The functions whose role is in R.
With(role, R) == {f \in Fn : role[f] \in R}

ModRole == {"plain", "inlined", "clone", "interface", "interface_clone",
            "interface_gone", "callback", "callback_opt", "export", "init", "weak"}

FromRoles(role, edges) ==
  [mod_fns     |-> With(role, ModRole),
   sdcr_fns    |-> With(role, {"sidecar", "sdcr_gone", "sdcr_inlined",
                               "sdcr_interface"}),
   interface   |-> With(role, {"interface", "interface_clone", "interface_gone",
                               "sdcr_interface"}),
   callback    |-> With(role, {"callback", "callback_opt"}),
   export      |-> With(role, {"export"}),
   init        |-> With(role, {"init"}),
   sidecar     |-> With(role, {"sidecar", "sdcr_gone", "sdcr_interface"}),
   in_vmlinux  |-> With(role, {"outside", "plain", "interface", "interface_clone",
                               "callback", "export", "sidecar", "sdcr_interface"}),
   mangled     |-> With(role, {"clone", "interface_clone"}),
   fake_global |-> With(role, {"weak"}),
   edges       |-> edges,
   file        |-> [f \in Fn |-> IF role[f] \in ModRole THEN "core.c" ELSE "user.c"]]

\* Functions 2 and 3 come in the order of R, as their numbers mean nothing.
OrderedPairs(R) == UNION {{<<R[i], R[j]>> : j \in i .. Len(R)} : i \in 1 .. Len(R)}

Calls == (1 .. 3) \X (2 .. 4)
NoRecursion == SUBSET {e \in Calls : e[1] # e[2]}
FewCalls == {E \in SUBSET Calls : Cardinality(E) <= 4}

Programs(First, Roles, EdgeSets) ==
  {FromRoles(<<f, r[1], r[2], "interface">>, E) :
     f \in First, r \in OrderedPairs(Roles), E \in EdgeSets}

\* Any roles, for calls that are not recursive.
AnyRoles ==
  Programs({"outside"},
           <<"plain", "interface", "callback", "callback_opt", "export", "init", "weak",
             "sidecar">>, NoRecursion)

\* Clones and what may call them, recursion included; a caller in the same file
\* may be an outsider.
CloneRoles ==
  Programs({"outside", "export"},
           <<"plain", "inlined", "clone", "interface_clone", "interface_gone">>, FewCalls)

\* Sidecars, what was inlined into them on two levels, recursion included, and the
\* faulty configurations: a sidecar that the compiler optimised away, and one that
\* is an interface as well.
SidecarRoles ==
  Programs({"outside", "sidecar"},
           <<"sidecar", "sdcr_gone", "sdcr_inlined", "sdcr_interface">>, FewCalls)

SmallPrograms == AnyRoles \cup CloneRoles \cup SidecarRoles
===============================================================================
