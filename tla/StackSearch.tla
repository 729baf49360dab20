------------------------------ MODULE StackSearch ------------------------------
(***************************************************************************)
(* The table of function addresses that stack_check_fn searches: addr_sort *)
(* and bsearch of src/src/helper.h, loop iteration by loop iteration, as   *)
(* stack_check_init and stack_check_fn of stack_check.h use them.          *)
(***************************************************************************)
EXTENDS Integers, FiniteSets

CONSTANTS
  MaxN,      \* the largest table, NR_INTERFACE_FN
  MaxAddr,   \* the highest address
  MaxSize    \* the largest function

ASSUME SizeAssumption == MaxN \in Nat \ {0} /\ MaxAddr \in Nat /\ MaxSize \in Nat

VARIABLES
  place,        \* the loop that is running
  n,            \* NR_INTERFACE_FN
  fns,          \* the functions, as <<address, size>> pairs
  addr, size,   \* the two arrays
  i, r,         \* the loop variables of addr_sort
  tar,          \* the return address looked for
  start, end,   \* the variables of bsearch
  idx           \* what bsearch returned

vars == <<place, n, fns, addr, size, i, r, tar, start, end, idx>>

Index == 0 .. n - 1

\* Functions do not overlap in memory, and aliases have the same size.  The
\* entry of __schedule, whose size is set to 0, starts where no other one does.
Layout(a, s) ==
  \A j, k \in DOMAIN a :
    /\ a[j] < a[k] => a[j] + s[j] <= a[k]
    /\ a[j] = a[k] => s[j] = s[k]

Init ==
  /\ n \in 1 .. MaxN
  /\ addr \in [Index -> 0 .. MaxAddr] /\ size \in [Index -> 0 .. MaxSize]
  /\ Layout(addr, size)
  /\ fns = {<<addr[j], size[j]>> : j \in Index}
  /\ place = "heapify" /\ i = (n \div 2) - 1 /\ r = i
  /\ tar = 0 /\ start = 0 /\ end = 0 /\ idx = -1

\* addr_swap.
Swap(a, j, k) == [a EXCEPT ![j] = a[k], ![k] = a[j]]

\* The part of the arrays that is the heap.
Limit == IF place = "heapify" THEN n ELSE i

\* The larger child of r.
Child ==
  LET c == r * 2 + 1 IN
    IF c < Limit - 1 /\ addr[c] < addr[c + 1] THEN c + 1 ELSE c

SiftOn == r >= 0 /\ r * 2 + 1 < Limit /\ addr[r] < addr[Child]

\* The sizes stay behind.
Bug_SiftAddrOnly ==
  /\ place \in {"heapify", "extract"} /\ SiftOn
  /\ addr' = Swap(addr, r, Child)
  /\ r' = Child
  /\ UNCHANGED <<place, n, fns, size, i, tar, start, end, idx>>
Sift ==
  /\ place \in {"heapify", "extract"} /\ SiftOn
  /\ addr' = Swap(addr, r, Child) /\ size' = Swap(size, r, Child)
  /\ r' = Child
  /\ UNCHANGED <<place, n, fns, i, tar, start, end, idx>>

\* The inner loop is through; the outer one takes the next element.
HeapifyNext ==
  /\ place = "heapify" /\ ~SiftOn /\ i > 0
  /\ i' = i - 1 /\ r' = i - 1
  /\ UNCHANGED <<place, n, fns, addr, size, tar, start, end, idx>>

\* The largest element goes to the end of the heap.
Extract(k) ==
  /\ i' = k
  /\ IF k > 0 THEN /\ place' = "extract" /\ r' = 0
                   /\ addr' = Swap(addr, 0, k) /\ size' = Swap(size, 0, k)
              ELSE place' = "sorted" /\ UNCHANGED <<r, addr, size>>
  /\ UNCHANGED <<n, fns, tar, start, end, idx>>

HeapifyEnd == place = "heapify" /\ ~SiftOn /\ i <= 0 /\ Extract(n - 1)

ExtractNext == place = "extract" /\ ~SiftOn /\ Extract(i - 1)

\* bsearch(func_addr, 0, NR_INTERFACE_FN - 1, address).
SearchStart(t) ==
  /\ place = "sorted"
  /\ tar' = t /\ start' = 0 /\ end' = n - 1
  /\ IF t < addr[0] THEN place' = "found" /\ idx' = -1
     ELSE IF t >= addr[n - 1] THEN place' = "found" /\ idx' = n - 1
     ELSE place' = "search" /\ UNCHANGED idx
  /\ UNCHANGED <<n, fns, addr, size, i, r>>

Mid == (start + end) \div 2

\* The upper half starts at the middle element.
Bug_SearchAboveMid == start' = Mid /\ UNCHANGED end
SearchAbove == start' = Mid + 1 /\ UNCHANGED end

SearchStep ==
  /\ place = "search" /\ start <= end
  /\ \/ /\ tar = addr[Mid]
        /\ place' = "found" /\ idx' = Mid /\ UNCHANGED <<start, end>>
     \/ /\ tar < addr[Mid]
        /\ end' = Mid - 1 /\ UNCHANGED <<place, idx, start>>
     \/ /\ tar > addr[Mid]
        /\ SearchAbove /\ UNCHANGED <<place, idx>>
  /\ UNCHANGED <<n, fns, addr, size, i, r, tar>>

Bug_ReturnsStart == start
Returned == end

SearchEnd ==
  /\ place = "search" /\ start > end
  /\ place' = "found" /\ idx' = Returned
  /\ UNCHANGED <<n, fns, addr, size, i, r, tar, start, end>>

\* stack_check_fn: the address lies inside a function of the table.
Hit == idx # -1 /\ tar < addr[idx] + size[idx]

Next ==
  \/ Sift \/ HeapifyNext \/ HeapifyEnd \/ ExtractNext
  \/ \E t \in 0 .. MaxAddr + MaxSize : SearchStart(t)
  \/ SearchStep \/ SearchEnd

Spec == Init /\ [][Next]_vars /\ WF_vars(Next)

-------------------------------------------------------------------------------
\* After addr_sort the addresses ascend and every size is still at the index of
\* its own function's address.
TableSorted ==
  place \in {"sorted", "search", "found"} =>
    /\ \A j, k \in Index : j < k => addr[j] <= addr[k]
    /\ {<<addr[j], size[j]>> : j \in Index} = fns

\* stack_check_fn reports an address exactly when it is inside one of the
\* functions, also below the first, above the last and between them.
HitIffInside ==
  place = "found" => (Hit <=> \E f \in fns : f[1] <= tar /\ tar < f[1] + f[2])

\* Every sort and every search ends.
SearchTerminates == <>(place = "found")
===============================================================================
