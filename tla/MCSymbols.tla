------------------------------ MODULE MCSymbols ------------------------------
(***************************************************************************)
(* Five units and the module's header: one under arch/ with the basename   *)
(* of a file of the module, two files of the module, one that has nothing  *)
(* to do with it, and a sidecar's.  The name f has any definitions; g is a *)
(* second name, and kern_path the one that load_kallsyms knows.            *)
(***************************************************************************)
EXTENDS Symbols

Names == {"f", "g", "kern_path"}
Units == <<"arch/core.c", "core.c", "fair.c", "time.c", "user.c">>
Arch == {"arch/core.c"}
Mod == {"core.c", "fair.c"}
Sdcr == {"user.c"}
SchedH == "sched.h"
SameBasename == {<<"arch/core.c", "core.c">>}

\* The directories, which the names of the units leave out, order the paths
\* otherwise than the linker orders the units.
Ranks ==
  [u \in {Units[i] : i \in 1 .. 5} |->
     CASE u = "arch/core.c" -> 1 [] u = "user.c" -> 2 [] u = "fair.c" -> 3
       [] u = "core.c" -> 4 [] u = "time.c" -> 5]

\* Every unit calls every function; their addresses are used in several ways.
AllUses ==
  ({Units[i] : i \in 1 .. 5} \X Names \X {"call"})
  \cup ({"core.c"} \X Names \X {"sched_class", "addressable"})
  \cup ({"fair.c"} \X Names \X {"address", "sched_class"})
  \cup ({"user.c"} \X Names \X {"initializer"})

Def(n, u, f, b, s, k, c) ==
  [kind |-> "function", name |-> n, of |-> n, unit |-> u, file |-> f, bind |-> b,
   section |-> s, kept |-> k, clone |-> c, export |-> b = "strong" /\ u # "user.c"]

\* Where unit u defines f, it is kept in the text, optimised away into a clone, or
\* in .init.text.
Options(u) ==
  {{}, {Def("f", u, u, "static", "text", TRUE, FALSE)},
       {Def("f", u, u, "strong", "text", TRUE, FALSE)}}
  \cup (IF u = "time.c" THEN {} ELSE
        {{Def("f", u, u, "static", "text", FALSE, TRUE)},
         {Def("f", u, u, "static", "init", TRUE, FALSE)},
         {Def("f", u, u, "weak", "text", TRUE, FALSE)}})
  \cup (IF u = "arch/core.c" THEN {}
        ELSE {{Def("f", u, SchedH, "static", "text", TRUE, FALSE)}})

Accepted(K) ==
  /\ Linkable(K)
  /\ \A d, e \in K : ~(d.file = SchedH /\ e.name = d.name /\ e.unit \in Mod /\ e.file # SchedH)

KernelsOfF ==
  {K \in {a \cup b \cup c \cup d \cup e :
            a \in Options("arch/core.c"), b \in Options("core.c"),
            c \in Options("fair.c"), d \in Options("time.c"),
            e \in Options("user.c")} : Accepted(K)}

SmallKernels == {K \in KernelsOfF : Cardinality(K) <= 2}

\* g is defined in two files of the module.
DefsOfG == {Def("g", u, u, "static", "text", TRUE, FALSE) : u \in {"core.c", "user.c"}}

\* A unit defines g and makes f, or kern_path, an alias of it.
Alias(n, u, b) ==
  [Def(n, u, u, b, "text", TRUE, FALSE) EXCEPT !.kind = "alias", !.of = "g"]
AliasKernels ==
  {K \in {{Def("g", u, u, a, "text", TRUE, FALSE), Alias("f", u, b)} \cup D :
            u \in {"core.c", "time.c", "user.c"}, a \in {"static", "strong", "weak"},
            b \in {"static", "weak", "strong"}, D \in SmallKernels} :
     Compiled(K) /\ Accepted(K)}

\* A variable f, beside the functions of that name.
Variable(n, u, b, s) ==
  [Def(n, u, u, b, s, TRUE, FALSE) EXCEPT !.kind = "variable"]
VariableKernels ==
  {K \in {{v} \cup D :
            v \in {Variable("f", u, "static", s) :
                     u \in {"fair.c", "time.c"}, s \in {"percpu", "data", "bss"}}
                  \cup {Variable("f", u, "strong", "data") : u \in {"core.c", "time.c"}},
            D \in SmallKernels} :
     Compiled(K) /\ Accepted(K)}

\* The file tools of the kernel, and something else of that name.
KernPathKernels ==
  {{d} \cup E :
     d \in {Def("kern_path", "user.c", "user.c", b, "text", TRUE, FALSE) :
              b \in {"static", "strong"}},
     E \in {{}, {Variable("kern_path", "time.c", "static", "bss")},
            {Def("kern_path", "core.c", "core.c", "static", "text", TRUE, FALSE)}}}

Kernels ==
  KernelsOfF \cup {K \cup DefsOfG : K \in SmallKernels} \cup AliasKernels
    \cup VariableKernels \cup KernPathKernels
===============================================================================
