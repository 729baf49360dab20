------------------------------ MODULE MCSandbox ------------------------------
(***************************************************************************)
(* Two kernels of one series; the second one has one unit less.  The       *)
(* characters of a release are numbers in the order of ASCII; one letter   *)
(* stands for the name of the architecture.                                *)
(***************************************************************************)
EXTENDS Sandbox

Dash == 1
Dot == 2
Digit(n) == n + 3

V419 == <<Digit(4), Dot, Digit(1), Digit(9)>>
V41964 == V419 \o <<Dot, Digit(6), Digit(4)>>
V41991 == V419 \o <<Dot, Digit(9), Digit(1)>>
Build11 == V41991 \o <<Dash, Digit(1), Digit(1)>>
Build12 == V41991 \o <<Dash, Digit(1), Digit(2)>>
Arch == <<Dot, Digit(10)>>

TwoKernels == {"4.19.64-5", "4.19.91-12"}
Releases ==
  [k \in TwoKernels |-> IF k = "4.19.64-5" THEN V41964 \o <<Dash, Digit(5)>> \o Arch
                        ELSE Build12 \o Arch]
SeriesLength == 4

UnitDirs == [u \in {"core", "main", "gone", "stub"} |-> IF u = "core" THEN "sched" ELSE "rest"]
KernelUnits ==
  [k \in TwoKernels |-> {"core", "main", "stub"} \cup IF k = "4.19.64-5" THEN {"gone"} ELSE {}]
TwoDirs == {"sched", "rest"}
Stubs == {"stub"}
TwoFiles == {"core.c", "sched.h"}

AllConfigs == {{V419}, {V419, V41991, Build12}, {V419, Build11, Build12}}

\* The directories of the documentation's example, and those of a second build of
\* the same kernel beside them.
DocConfigs == {{V419, V41991, Build12}, {V419, Build11, Build12}}
===============================================================================
