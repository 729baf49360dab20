--------------------------- MODULE StackSearchProofs ---------------------------
(***************************************************************************)
(* Proofs about addr_sort and bsearch (StackSearch), for tables, addresses *)
(* and functions of any size: the heap sort sorts and keeps every size     *)
(* with its address, and the search finds the function an address is in.   *)
(***************************************************************************)
EXTENDS StackSearch, WellFoundedInduction, TLAPS

\* A binary heap in an array, as addr_sort lays it out.
IsChild(c, j) == c = 2 * j + 1 \/ c = 2 * j + 2

\* The elements lo .. m - 1 are in heap order, but for element x ...
HeapBut(a, lo, m, x) ==
  \A j, c \in 0 .. m - 1 : lo <= j /\ IsChild(c, j) /\ j # x => a[c] <= a[j]

\* ... whose children are not above its parent either.
Bypass(a, lo, m, x) ==
  \A j, d \in 0 .. m - 1 : lo <= j /\ IsChild(x, j) /\ IsChild(d, x) => a[d] <= a[j]

Ascending(a, m) == \A j, k \in Index : j < k /\ m <= k => a[j] <= a[k]

Low == IF place = "heapify" THEN i ELSE 0

TypeInv ==
  /\ place \in {"heapify", "extract", "sorted", "search", "found"}
  /\ n \in Nat \ {0}
  /\ addr \in [Index -> Nat] /\ size \in [Index -> Nat]
  /\ i \in Int /\ r \in Int
  /\ tar \in Nat /\ start \in Int /\ end \in Int /\ idx \in Int

\* Every size belongs to its address.
Paired ==
  /\ fns = {<<addr[j], size[j]>> : j \in Index}
  /\ Layout(addr, size)

\* The loops of addr_sort.
SortInv ==
  /\ place = "heapify" =>
       \/ n = 1 /\ i = -1 /\ r = -1
       \/ i \in 0 .. (n \div 2) - 1 /\ r \in i .. n - 1
  /\ place = "extract" =>
       i \in 1 .. n - 1 /\ r \in 0 .. i - 1 /\ Ascending(addr, i)
  /\ place \in {"heapify", "extract"} =>
       HeapBut(addr, Low, Limit, r) /\ Bypass(addr, Low, Limit, r)
  /\ place \in {"sorted", "search", "found"} => Ascending(addr, 0)

\* The loop of bsearch, and what it returns.
SearchInv ==
  /\ place = "search" =>
       /\ start \in 0 .. n /\ end \in -1 .. n - 1 /\ start <= end + 1
       /\ addr[0] <= tar
       /\ \A k \in Index : (k < start => addr[k] < tar) /\ (k > end => tar < addr[k])
  /\ place = "found" =>
       \/ idx = -1 /\ tar < addr[0]
       \/ /\ idx \in Index /\ addr[idx] <= tar
          /\ \A k \in Index : addr[k] <= addr[idx] \/ tar < addr[k]

TableInv == TypeInv /\ Paired /\ SortInv /\ SearchInv

-------------------------------------------------------------------------------
LEMMA NatLeast ==
  ASSUME NEW S, S \subseteq Nat, S # {}
  PROVE  \E m \in S : \A k \in S : m <= k
<1> DEFINE R == OpToRel(<, Nat)
<1>1. R = {p \in Nat \X Nat : p[1] < p[2]}
  BY DEF OpToRel
<1>2. IsWellFoundedOn(R, Nat)
  BY ONLY NatLessThanWellFounded, Zenon
<1> HIDE DEF R
<1>3. PICK m \in S : \A k \in S : <<k, m>> \notin R
  BY <1>2, WFMin
<1>4. \A k \in S : ~(k < m)
  BY <1>1, <1>3
<1> QED
  BY <1>4

\* The root of a heap is its largest element.
LEMMA RootIsMax ==
  ASSUME NEW m \in Nat, NEW a \in [0 .. m - 1 -> Nat],
         \A j, c \in 0 .. m - 1 : IsChild(c, j) => a[c] <= a[j]
  PROVE  \A c \in 0 .. m - 1 : a[c] <= a[0]
<1> DEFINE larger == {c \in 0 .. m - 1 : a[0] < a[c]}
<1> SUFFICES ASSUME larger # {} PROVE FALSE
  OBVIOUS
<1>1. PICK c \in larger : \A k \in larger : c <= k
  <2>1. larger \subseteq Nat /\ larger # {}
    OBVIOUS
  <2> HIDE DEF larger
  <2> QED
    BY <2>1, NatLeast
<1>2. c \in 1 .. m - 1 /\ a[0] < a[c]
  BY <1>1
<1>3. PICK j \in 0 .. m - 1 : IsChild(c, j) /\ j < c
  <2>1. (c - 1) \div 2 \in 0 .. m - 1 /\ (c - 1) \div 2 < c
        /\ (c = 2 * ((c - 1) \div 2) + 1 \/ c = 2 * ((c - 1) \div 2) + 2)
    BY <1>2
  <2> QED
    BY <2>1 DEF IsChild
<1>4. a[c] <= a[j]
  BY <1>2, <1>3
<1>5. a[j] \in Nat /\ a[c] \in Nat /\ a[0] \in Nat
  BY <1>2, <1>3
<1>6. j \in larger
  BY <1>2, <1>3, <1>4, <1>5
<1> QED
  BY <1>1, <1>2, <1>3, <1>6

LEMMA SwapValues ==
  ASSUME NEW a \in [Index -> Nat], NEW j \in Index, NEW k \in Index
  PROVE  /\ Swap(a, j, k) \in [Index -> Nat]
         /\ Swap(a, j, k)[j] = a[k] /\ Swap(a, j, k)[k] = a[j]
         /\ \A x \in Index \ {j, k} : Swap(a, j, k)[x] = a[x]
BY DEF Swap

\* Swapping both arrays keeps the sizes with their addresses.
LEMMA SwapPaired ==
  ASSUME TypeInv, Paired, NEW j \in Index, NEW k \in Index,
         addr' = Swap(addr, j, k), size' = Swap(size, j, k), n' = n, fns' = fns
  PROVE  Paired'
<1> DEFINE other(x) == IF x = j THEN k ELSE IF x = k THEN j ELSE x
<1>1. \A x \in Index : other(x) \in Index /\ other(other(x)) = x
  OBVIOUS
<1>2. \A x \in Index : addr'[x] = addr[other(x)] /\ size'[x] = size[other(x)]
  BY SwapValues DEF TypeInv
<1>3. Index' = Index
  BY DEF Index
<1> HIDE DEF other
<1>4. {<<addr'[x], size'[x]>> : x \in Index} = {<<addr[x], size[x]>> : x \in Index}
  BY <1>1, <1>2
<1>5. DOMAIN addr' = Index /\ DOMAIN addr = Index
  BY SwapValues DEF TypeInv
<1>6. Layout(addr', size')
  <2> SUFFICES ASSUME NEW x \in Index, NEW y \in Index
               PROVE  /\ addr'[x] < addr'[y] => addr'[x] + size'[x] <= addr'[y]
                      /\ addr'[x] = addr'[y] => size'[x] = size'[y]
    BY <1>5 DEF Layout
  <2>1. /\ addr[other(x)] < addr[other(y)] =>
             addr[other(x)] + size[other(x)] <= addr[other(y)]
        /\ addr[other(x)] = addr[other(y)] => size[other(x)] = size[other(y)]
    BY <1>1, <1>5 DEF Paired, Layout
  <2> QED
    BY <1>2, <2>1
<1> QED
  BY <1>3, <1>4, <1>6 DEF Paired

\* The child that is compared is the larger one.
LEMMA ChildIsLarger ==
  ASSUME TypeInv, r \in 0 .. n - 1, Limit \in 0 .. n, 2 * r + 1 < Limit
  PROVE  /\ Child \in 0 .. Limit - 1 /\ IsChild(Child, r)
         /\ \A c \in 0 .. Limit - 1 : IsChild(c, r) => addr[c] <= addr[Child]
<1>1. \A c \in 0 .. Limit - 1 : addr[c] \in Nat
  BY DEF TypeInv, Index
<1>2. CASE 2 * r + 1 < Limit - 1 /\ addr[2 * r + 1] < addr[2 * r + 1 + 1]
  <2>1. Child = 2 * r + 2
    BY <1>2 DEF Child
  <2> QED
    BY <1>1, <1>2, <2>1 DEF IsChild
<1>3. CASE ~(2 * r + 1 < Limit - 1 /\ addr[2 * r + 1] < addr[2 * r + 1 + 1])
  <2>1. Child = 2 * r + 1
    BY <1>3 DEF Child
  <2> QED
    BY <1>1, <1>3, <2>1 DEF IsChild
<1> QED
  BY <1>2, <1>3

\* Without a further sift, the heap is in order at r too.
LEMMA SiftedHeap ==
  ASSUME TypeInv, r \in -1 .. n - 1, Limit \in 0 .. n, ~SiftOn,
         NEW lo \in Int, r >= 0 \/ lo > r \/ Limit <= 1, HeapBut(addr, lo, Limit, r)
  PROVE  \A j, c \in 0 .. Limit - 1 : lo <= j /\ IsChild(c, j) => addr[c] <= addr[j]
<1> SUFFICES ASSUME NEW j \in 0 .. Limit - 1, NEW c \in 0 .. Limit - 1,
                    lo <= j, IsChild(c, j), j = r
             PROVE  addr[c] <= addr[j]
  BY DEF HeapBut
<1>1. r \in 0 .. n - 1 /\ 2 * r + 1 < Limit
  BY DEF IsChild
<1>2. ~(addr[r] < addr[Child])
  BY <1>1 DEF SiftOn
<1>3. Child \in 0 .. Limit - 1 /\ addr[c] <= addr[Child]
  BY <1>1, ChildIsLarger
<1>4. addr[r] \in Nat /\ addr[Child] \in Nat /\ addr[c] \in Nat
  BY <1>1, <1>3 DEF TypeInv, Index
<1> QED
  BY <1>2, <1>3, <1>4

-------------------------------------------------------------------------------
LEMMA TableInit ==
  ASSUME Init
  PROVE  TableInv
<1>1. TypeInv
  BY SizeAssumption DEF Init, TypeInv, Index
<1>2. Paired
  BY DEF Init, Paired
<1>3. SortInv
  <2>1. n \in Nat \ {0} /\ i = (n \div 2) - 1 /\ r = i /\ place = "heapify"
    BY SizeAssumption DEF Init
  <2>2. \/ n = 1 /\ i = -1
        \/ i \in 0 .. (n \div 2) - 1 /\ i \in i .. n - 1
    BY <2>1
  <2>3. \A j, c \in 0 .. n - 1 : i <= j /\ j # i => ~IsChild(c, j)
    BY <2>1 DEF IsChild
  <2>4. \A j \in 0 .. n - 1 : i <= j => ~IsChild(i, j)
    BY <2>1 DEF IsChild
  <2> QED
    BY <2>1, <2>2, <2>3, <2>4 DEF SortInv, Low, Limit, HeapBut, Bypass
<1>4. SearchInv
  BY DEF Init, SearchInv
<1> QED
  BY <1>1, <1>2, <1>3, <1>4 DEF TableInv

LEMMA SiftStep ==
  ASSUME TableInv, Sift
  PROVE  TableInv'
<1> DEFINE c == Child
<1>1. /\ place \in {"heapify", "extract"} /\ place' = place /\ n' = n /\ i' = i
      /\ r' = c /\ addr' = Swap(addr, r, c) /\ size' = Swap(size, r, c) /\ fns' = fns
      /\ r >= 0 /\ 2 * r + 1 < Limit /\ addr[r] < addr[c]
      /\ UNCHANGED <<tar, start, end, idx>>
  BY DEF Sift, SiftOn, TableInv, TypeInv
<1>2. /\ TypeInv /\ Paired /\ n \in Nat \ {0} /\ i \in Int
      /\ Limit \in 0 .. n /\ Low \in 0 .. r /\ r \in 0 .. n - 1
      /\ place = "extract" => i \in 1 .. n - 1 /\ r \in 0 .. i - 1 /\ Limit = i
      /\ place = "heapify" => i \in 0 .. (n \div 2) - 1 /\ Limit = n /\ Low = i
  <2>1. CASE place = "heapify"
    BY <1>1, <2>1 DEF TableInv, TypeInv, SortInv, Limit, Low
  <2>2. CASE place = "extract"
    BY <1>1, <2>2 DEF TableInv, TypeInv, SortInv, Limit, Low
  <2> QED
    BY <1>1, <2>1, <2>2
<1>3. /\ c \in 0 .. Limit - 1 /\ IsChild(c, r)
      /\ \A d \in 0 .. Limit - 1 : IsChild(d, r) => addr[d] <= addr[c]
  BY <1>1, <1>2, ChildIsLarger
<1> HIDE DEF c
<1>4. c \in Index /\ r \in Index /\ c \in Int /\ c > r
  BY <1>2, <1>3 DEF Index, IsChild
<1>5. /\ addr' \in [Index -> Nat] /\ size' \in [Index -> Nat]
      /\ addr'[r] = addr[c] /\ addr'[c] = addr[r]
      /\ \A x \in Index \ {r, c} : addr'[x] = addr[x]
  BY <1>1, <1>2, <1>4, SwapValues DEF TypeInv
<1>6. TypeInv'
  BY <1>1, <1>2, <1>4, <1>5 DEF TypeInv, Index
<1>7. Paired'
  BY <1>1, <1>2, <1>4, SwapPaired
<1>8. Limit' = Limit /\ Low' = Low
  BY <1>1 DEF Limit, Low
<1>9. \A x \in 0 .. Limit - 1 : x \in Index /\ addr[x] \in Nat
  BY <1>2 DEF TypeInv, Index
<1>10. HeapBut(addr, Low, Limit, r) /\ Bypass(addr, Low, Limit, r)
  BY <1>1 DEF TableInv, SortInv
<1>11. HeapBut(addr', Low, Limit, c)
  <2> SUFFICES ASSUME NEW j \in 0 .. Limit - 1, NEW d \in 0 .. Limit - 1,
                      Low <= j, IsChild(d, j), j # c
               PROVE  addr'[d] <= addr'[j]
    BY DEF HeapBut
  <2>1. CASE j = r
    BY <1>1, <1>3, <1>5, <1>9, <2>1 DEF IsChild
  <2>2. CASE j # r /\ d = r
    \* d was r: its parent has not been smaller than any of its children.
    <3>1. addr[c] <= addr[j]
      BY <1>3, <1>10, <2>2 DEF Bypass
    <3> QED
      BY <1>5, <1>9, <2>2, <3>1
  <2>3. CASE j # r /\ d # r
    <3>1. d # c
      BY <1>2, <1>3, <2>3 DEF IsChild
    <3>2. addr[d] <= addr[j]
      BY <1>10, <2>3 DEF HeapBut
    <3> QED
      BY <1>5, <1>9, <2>3, <3>1, <3>2
  <2> QED
    BY <2>1, <2>2, <2>3
<1>12. Bypass(addr', Low, Limit, c)
  <2> SUFFICES ASSUME NEW j \in 0 .. Limit - 1, NEW d \in 0 .. Limit - 1,
                      Low <= j, IsChild(c, j), IsChild(d, c)
               PROVE  addr'[d] <= addr'[j]
    BY DEF Bypass
  <2>1. j = r /\ d # r /\ d # c
    BY <1>2, <1>3 DEF IsChild
  <2>2. Low <= c /\ c # r
    BY <1>2, <1>4
  <2>3. addr[d] <= addr[c]
    BY <1>3, <1>10, <2>2 DEF HeapBut
  <2> QED
    BY <1>5, <1>9, <2>1, <2>3
<1>13. place = "extract" => Ascending(addr', i)
  <2> SUFFICES ASSUME place = "extract", NEW j \in Index, NEW k \in Index, j < k, i <= k
               PROVE  addr'[j] <= addr'[k]
    BY <1>1 DEF Ascending, Index
  <2>1. Ascending(addr, i) /\ r < k /\ c < k
    BY <1>2, <1>3 DEF TableInv, SortInv, Index
  <2>2. addr[j] <= addr[k] /\ addr[r] <= addr[k] /\ addr[c] <= addr[k]
    BY <1>4, <2>1 DEF Ascending
  <2>3. addr'[k] = addr[k] /\ addr'[j] \in {addr[j], addr[r], addr[c]}
    BY <1>4, <1>5, <2>1
  <2> QED
    BY <2>2, <2>3
<1>14. r' \in Low .. Limit - 1
  BY <1>1, <1>2, <1>3, <1>4
<1>15. SortInv'
  <2>1. place = "heapify" => i' \in 0 .. (n' \div 2) - 1 /\ r' \in i' .. n' - 1
    BY <1>1, <1>2, <1>14
  <2>2. place = "extract" => i' \in 1 .. n' - 1 /\ r' \in 0 .. i' - 1 /\ Ascending(addr, i)'
    BY <1>1, <1>2, <1>13, <1>14 DEF Ascending, Index, Low
  <2>3. HeapBut(addr, Low, Limit, r)' /\ Bypass(addr, Low, Limit, r)'
    BY <1>1, <1>8, <1>11, <1>12 DEF HeapBut, Bypass
  <2> QED
    BY <1>1, <2>1, <2>2, <2>3 DEF SortInv
<1>16. SearchInv'
  BY <1>1 DEF SearchInv
<1> QED
  BY <1>6, <1>7, <1>15, <1>16 DEF TableInv

LEMMA HeapifyNextStep ==
  ASSUME TableInv, HeapifyNext
  PROVE  TableInv'
<1>1. /\ place = "heapify" /\ ~SiftOn /\ i > 0 /\ i' = i - 1 /\ r' = i - 1
      /\ UNCHANGED <<place, n, fns, addr, size, tar, start, end, idx>>
  BY DEF HeapifyNext
<1>2. TypeInv /\ n \in Nat \ {0} /\ i \in 0 .. (n \div 2) - 1 /\ r \in i .. n - 1
  BY <1>1 DEF TableInv, TypeInv, SortInv
<1>3. Limit = n /\ Limit' = n /\ Low = i /\ Low' = i - 1
  BY <1>1 DEF Limit, Low
<1>4. \A j, c \in 0 .. n - 1 : i <= j /\ IsChild(c, j) => addr[c] <= addr[j]
  BY <1>1, <1>2, <1>3, SiftedHeap DEF TableInv, SortInv
<1>5. HeapBut(addr, i - 1, n, i - 1)
  BY <1>2, <1>4 DEF HeapBut
<1>6. Bypass(addr, i - 1, n, i - 1)
  BY <1>2 DEF Bypass, IsChild
<1>7. i - 1 \in 0 .. (n \div 2) - 1 /\ i - 1 \in i - 1 .. n - 1
  BY <1>1, <1>2
<1>8. SortInv'
  BY <1>1, <1>3, <1>5, <1>6, <1>7 DEF SortInv, HeapBut, Bypass
<1>9. TypeInv' /\ Paired' /\ SearchInv'
  BY <1>1, <1>2 DEF TableInv, TypeInv, Paired, Index, SearchInv
<1> QED
  BY <1>8, <1>9 DEF TableInv

\* The largest element of the heap goes behind all the others.
LEMMA ExtractStep ==
  ASSUME TableInv, place \in {"heapify", "extract"}, NEW k \in 0 .. n - 1, Extract(k),
         \A c \in 0 .. k : addr[c] <= addr[0],
         \A j, c \in 0 .. k : IsChild(c, j) => addr[c] <= addr[j],
         Ascending(addr, k + 1)
  PROVE  TableInv'
<1>1. TypeInv /\ Paired /\ n \in Nat \ {0} /\ 0 \in Index /\ k \in Index /\ k \in Nat
  BY DEF TableInv, TypeInv, Index
<1>2. i' = k /\ UNCHANGED <<n, fns, tar, start, end, idx>>
  BY DEF Extract
<1>3. SearchInv' /\ Index' = Index
  BY <1>2 DEF SearchInv, Extract, Index
<1>4. \A x \in Index : addr[x] \in Nat
  BY <1>1 DEF TypeInv
<1>5. CASE k > 0
  <2>1. /\ place' = "extract" /\ r' = 0
        /\ addr' = Swap(addr, 0, k) /\ size' = Swap(size, 0, k)
    BY <1>5 DEF Extract
  <2>2. /\ addr' \in [Index -> Nat] /\ size' \in [Index -> Nat]
        /\ addr'[0] = addr[k] /\ addr'[k] = addr[0]
        /\ \A x \in Index \ {0, k} : addr'[x] = addr[x]
    BY <1>1, <2>1, SwapValues DEF TypeInv
  <2>3. TypeInv' /\ Paired'
    BY <1>1, <1>2, <1>3, <2>1, <2>2, SwapPaired DEF TypeInv
  <2>4. k \in 1 .. n - 1 /\ 0 \in 0 .. k - 1
    BY <1>5
  <2>5. Ascending(addr', k)
    <3> SUFFICES ASSUME NEW x \in Index, NEW y \in Index, x < y, k <= y
                 PROVE  addr'[x] <= addr'[y]
      BY DEF Ascending
    <3>1. CASE y = k
      <4>1. x \in 0 .. k /\ k \in 0 .. k /\ x # k
        BY <1>1, <3>1 DEF Index
      <4>2. addr[x] <= addr[0] /\ addr[k] <= addr[0]
        BY <4>1
      <4>3. addr'[x] \in {addr[x], addr[k]}
        BY <1>1, <2>2, <4>1
      <4> QED
        BY <2>2, <3>1, <4>2, <4>3
    <3>2. CASE y # k
      <4>1. k + 1 <= y /\ y # 0 /\ 0 < y /\ k < y
        BY <1>1, <3>2 DEF Index
      <4>2. addr[x] <= addr[y] /\ addr[0] <= addr[y] /\ addr[k] <= addr[y]
        BY <1>1, <4>1 DEF Ascending
      <4>3. addr'[y] = addr[y] /\ addr'[x] \in {addr[x], addr[0], addr[k]}
        BY <1>1, <2>2, <3>2, <4>1
      <4> QED
        BY <4>2, <4>3
    <3> QED
      BY <3>1, <3>2
  <2>6. HeapBut(addr', 0, k, 0)
    <3> SUFFICES ASSUME NEW x \in 0 .. k - 1, NEW y \in 0 .. k - 1, IsChild(y, x), x # 0
                 PROVE  addr'[y] <= addr'[x]
      BY DEF HeapBut
    <3>1. x \in Index \ {0, k} /\ y \in Index \ {0, k}
      BY <1>1 DEF Index, IsChild
    <3>2. addr[y] <= addr[x]
      OBVIOUS
    <3> QED
      BY <2>2, <3>1, <3>2
  <2>7. Bypass(addr', 0, k, 0)
    BY DEF Bypass, IsChild
  <2>8. SortInv'
    <3>1. Limit' = k /\ Low' = 0
      BY <1>2, <2>1 DEF Limit, Low
    <3>2. HeapBut(addr, Low, Limit, r)' /\ Bypass(addr, Low, Limit, r)'
      BY <2>1, <2>6, <2>7, <3>1 DEF HeapBut, Bypass
    <3>3. Ascending(addr, i)'
      BY <1>2, <1>3, <2>5 DEF Ascending
    <3> QED
      BY <1>2, <2>1, <2>4, <3>2, <3>3 DEF SortInv
  <2> QED
    BY <1>3, <2>3, <2>8 DEF TableInv
<1>6. CASE k = 0
  <2>1. place' = "sorted" /\ UNCHANGED <<r, addr, size>>
    BY <1>6 DEF Extract
  <2>2. Ascending(addr, 0)
    BY <1>6 DEF Ascending, Index
  <2>3. Ascending(addr, 0)'
    BY <1>3, <2>1, <2>2 DEF Ascending
  <2> QED
    BY <1>1, <1>2, <1>3, <2>1, <2>3 DEF TableInv, TypeInv, Paired, SortInv
<1> QED
  BY <1>1, <1>5, <1>6

LEMMA HeapifyEndStep ==
  ASSUME TableInv, HeapifyEnd
  PROVE  TableInv'
<1>1. place = "heapify" /\ ~SiftOn /\ i <= 0 /\ Extract(n - 1)
  BY DEF HeapifyEnd
<1>2. /\ TypeInv /\ n \in Nat \ {0} /\ r \in Int /\ i \in Int /\ Limit = n /\ Low = i
      /\ \/ n = 1 /\ i = -1 /\ r = -1
         \/ i \in 0 .. (n \div 2) - 1 /\ r \in i .. n - 1
  BY <1>1 DEF TableInv, TypeInv, SortInv, Limit, Low
<1>3. \A j, c \in 0 .. n - 1 : IsChild(c, j) => addr[c] <= addr[j]
  <2>1. \A j, c \in 0 .. n - 1 : i <= j /\ IsChild(c, j) => addr[c] <= addr[j]
    BY <1>1, <1>2, SiftedHeap DEF TableInv, SortInv
  <2> QED
    BY <1>1, <1>2, <2>1
<1>4. n - 1 \in 0 .. n - 1 /\ n \in Nat /\ addr \in [0 .. n - 1 -> Nat]
  BY <1>2 DEF TypeInv, Index
<1>5. \A c \in 0 .. n - 1 : addr[c] <= addr[0]
  BY <1>3, <1>4, RootIsMax
<1>6. Ascending(addr, n - 1 + 1)
  BY <1>2 DEF Ascending, Index
<1> QED
  BY <1>1, <1>3, <1>4, <1>5, <1>6, ExtractStep

LEMMA ExtractNextStep ==
  ASSUME TableInv, ExtractNext
  PROVE  TableInv'
<1>1. place = "extract" /\ ~SiftOn /\ Extract(i - 1)
  BY DEF ExtractNext
<1>2. /\ TypeInv /\ n \in Nat \ {0} /\ Limit = i /\ Low = 0
      /\ i \in 1 .. n - 1 /\ r \in 0 .. i - 1 /\ Ascending(addr, i)
  BY <1>1 DEF TableInv, TypeInv, SortInv, Limit, Low
<1>3. \A j, c \in 0 .. i - 1 : IsChild(c, j) => addr[c] <= addr[j]
  <2>1. \A j, c \in 0 .. Limit - 1 : 0 <= j /\ IsChild(c, j) => addr[c] <= addr[j]
    BY <1>1, <1>2, SiftedHeap DEF TableInv, SortInv
  <2> QED
    BY <1>2, <2>1
<1>4. \A c \in 0 .. i - 1 : addr[c] <= addr[0]
  <2> DEFINE heap == [c \in 0 .. i - 1 |-> addr[c]]
  <2>1. heap \in [0 .. i - 1 -> Nat] /\ i \in Nat
    BY <1>2 DEF TypeInv, Index
  <2>2. \A j, c \in 0 .. i - 1 : IsChild(c, j) => heap[c] <= heap[j]
    BY <1>3
  <2>3. 0 \in 0 .. i - 1
    BY <1>2
  <2> HIDE DEF heap
  <2>4. \A c \in 0 .. i - 1 : heap[c] <= heap[0]
    BY <2>1, <2>2, RootIsMax
  <2> QED
    BY <2>3, <2>4 DEF heap
<1>5. i - 1 \in 0 .. n - 1 /\ Ascending(addr, i - 1 + 1)
  BY <1>2
<1> QED
  BY <1>1, <1>3, <1>4, <1>5, ExtractStep

-------------------------------------------------------------------------------
LEMMA SearchStartStep ==
  ASSUME TableInv, NEW t \in 0 .. MaxAddr + MaxSize, SearchStart(t)
  PROVE  TableInv'
<1>1. /\ place = "sorted" /\ tar' = t /\ start' = 0 /\ end' = n - 1
      /\ UNCHANGED <<n, fns, addr, size, i, r>>
  BY DEF SearchStart
<1>2. /\ TypeInv /\ Paired /\ n \in Nat \ {0} /\ t \in Nat /\ Ascending(addr, 0)
      /\ 0 \in Index /\ n - 1 \in Index
  BY <1>1, SizeAssumption DEF TableInv, TypeInv, SortInv, Index
<1>3. \A k \in Index : addr[k] \in Nat /\ addr[k] <= addr[n - 1]
  <2>1. \A k \in Index : addr[k] \in Nat /\ (k = n - 1 \/ (k < n - 1 /\ 0 <= n - 1))
    BY <1>2 DEF TypeInv, Index
  <2> QED
    BY <1>2, <2>1 DEF Ascending
<1>4. Index' = Index
  BY <1>1 DEF Index
<1>5. CASE t < addr[0]
  <2>1. place' = "found" /\ idx' = -1
    BY <1>5 DEF SearchStart
  <2> QED
    BY <1>1, <1>2, <1>4, <1>5, <2>1
       DEF TableInv, TypeInv, Paired, SortInv, SearchInv, Ascending
<1>6. CASE ~(t < addr[0]) /\ t >= addr[n - 1]
  <2>1. place' = "found" /\ idx' = n - 1
    BY <1>6 DEF SearchStart
  <2> QED
    BY <1>1, <1>2, <1>3, <1>4, <1>6, <2>1
       DEF TableInv, TypeInv, Paired, SortInv, SearchInv, Ascending
<1>7. CASE ~(t < addr[0]) /\ ~(t >= addr[n - 1])
  <2>1. place' = "search" /\ idx' = idx
    BY <1>7 DEF SearchStart
  <2>2. \A k \in Index : ~(k < 0) /\ ~(k > n - 1)
    BY <1>2 DEF Index
  <2>3. addr[0] <= t
    BY <1>2, <1>3, <1>7
  <2> QED
    BY <1>1, <1>2, <1>3, <1>4, <2>1, <2>2, <2>3
       DEF TableInv, TypeInv, Paired, SortInv, SearchInv, Ascending
<1> QED
  BY <1>5, <1>6, <1>7

LEMMA SearchStepStep ==
  ASSUME TableInv, SearchStep
  PROVE  TableInv'
<1>1. /\ place = "search" /\ start <= end
      /\ UNCHANGED <<n, fns, addr, size, i, r, tar>>
  BY DEF SearchStep
<1>2. /\ TypeInv /\ Paired /\ n \in Nat \ {0} /\ tar \in Nat /\ idx \in Int
      /\ Ascending(addr, 0)
      /\ start \in 0 .. n /\ end \in -1 .. n - 1 /\ start <= end + 1 /\ addr[0] <= tar
      /\ \A k \in Index : (k < start => addr[k] < tar) /\ (k > end => tar < addr[k])
  BY <1>1 DEF TableInv, TypeInv, SortInv, SearchInv
<1>3. Mid \in start .. end /\ Mid \in Index
  BY <1>1, <1>2 DEF Mid, Index
<1>4. /\ \A k \in Index : addr[k] \in Nat
      /\ \A j, k \in Index : j < k => addr[j] <= addr[k]
  BY <1>2 DEF TypeInv, Ascending, Index
<1>5. Index' = Index
  BY <1>1 DEF Index
<1>6. CASE tar = addr[Mid] /\ place' = "found" /\ idx' = Mid /\ UNCHANGED <<start, end>>
  <2>1. \A k \in Index : addr[k] <= addr[Mid] \/ tar < addr[k]
    BY <1>3, <1>4, <1>6
  <2>2. SearchInv'
    BY <1>1, <1>3, <1>4, <1>5, <1>6, <2>1 DEF SearchInv
  <2>3. TypeInv' /\ Paired' /\ SortInv'
    BY <1>1, <1>2, <1>3, <1>5, <1>6 DEF TypeInv, Paired, SortInv, Ascending, Index
  <2> QED
    BY <2>2, <2>3 DEF TableInv
<1>7. CASE tar < addr[Mid] /\ end' = Mid - 1 /\ UNCHANGED <<place, idx, start>>
  <2>1. \A k \in Index : k > Mid - 1 => tar < addr[k]
    <3> SUFFICES ASSUME NEW k \in Index, k > Mid - 1 PROVE tar < addr[k]
      OBVIOUS
    <3>1. k = Mid \/ Mid < k
      BY <1>2, <1>3 DEF Index
    <3> QED
      BY <1>2, <1>3, <1>4, <1>7, <3>1
  <2>2. Mid - 1 \in -1 .. n - 1 /\ start <= Mid - 1 + 1
    BY <1>2, <1>3
  <2>3. SearchInv'
    BY <1>1, <1>2, <1>5, <1>7, <2>1, <2>2 DEF SearchInv
  <2>4. TypeInv' /\ Paired' /\ SortInv'
    BY <1>1, <1>2, <1>5, <1>7, <2>2 DEF TypeInv, Paired, SortInv, Ascending
  <2> QED
    BY <2>3, <2>4 DEF TableInv
<1>8. CASE tar > addr[Mid] /\ SearchAbove /\ UNCHANGED <<place, idx>>
  <2>1. start' = Mid + 1 /\ end' = end
    BY <1>8 DEF SearchAbove
  <2>2. \A k \in Index : k < Mid + 1 => addr[k] < tar
    <3> SUFFICES ASSUME NEW k \in Index, k < Mid + 1 PROVE addr[k] < tar
      OBVIOUS
    <3>1. k = Mid \/ k < Mid
      BY <1>2, <1>3 DEF Index
    <3> QED
      BY <1>2, <1>3, <1>4, <1>8, <3>1
  <2>3. Mid + 1 \in 0 .. n /\ Mid + 1 <= end + 1
    BY <1>2, <1>3
  <2>4. SearchInv'
    BY <1>1, <1>2, <1>5, <1>8, <2>1, <2>2, <2>3 DEF SearchInv
  <2>5. TypeInv' /\ Paired' /\ SortInv'
    BY <1>1, <1>2, <1>5, <1>8, <2>1, <2>3 DEF TypeInv, Paired, SortInv, Ascending
  <2> QED
    BY <2>4, <2>5 DEF TableInv
<1> QED
  BY <1>6, <1>7, <1>8 DEF SearchStep

LEMMA SearchEndStep ==
  ASSUME TableInv, SearchEnd
  PROVE  TableInv'
<1>1. /\ place = "search" /\ start > end /\ place' = "found" /\ idx' = end
      /\ UNCHANGED <<n, fns, addr, size, i, r, tar, start, end>>
  BY DEF SearchEnd, Returned
<1>2. /\ TypeInv /\ Paired /\ n \in Nat \ {0} /\ tar \in Nat /\ Ascending(addr, 0)
      /\ start \in 0 .. n /\ end \in -1 .. n - 1 /\ start <= end + 1 /\ addr[0] <= tar
      /\ \A k \in Index : (k < start => addr[k] < tar) /\ (k > end => tar < addr[k])
  BY <1>1 DEF TableInv, TypeInv, SortInv, SearchInv
<1>3. 0 \in Index /\ start = end + 1 /\ \A k \in Index : k \in Int /\ addr[k] \in Nat
  BY <1>1, <1>2 DEF TypeInv, Index
\* What lies below the first function never gets as far as the loop.
<1>4. end \in Index
  <2>1. end # -1
    BY <1>2, <1>3
  <2> QED
    BY <1>2, <2>1 DEF Index
<1>5. addr[end] < tar
  BY <1>2, <1>3, <1>4
<1>6. \A k \in Index : addr[k] <= addr[end] \/ tar < addr[k]
  <2> SUFFICES ASSUME NEW k \in Index, ~(tar < addr[k]) PROVE addr[k] <= addr[end]
    OBVIOUS
  <2>1. k <= end
    BY <1>2, <1>3
  <2>2. k = end \/ (k < end /\ 0 <= end)
    BY <1>2, <1>3, <2>1
  <2> QED
    BY <1>2, <1>3, <1>4, <2>2 DEF Ascending
<1>7. Index' = Index
  BY <1>1 DEF Index
<1>8. SearchInv'
  BY <1>1, <1>2, <1>3, <1>4, <1>5, <1>6, <1>7 DEF SearchInv
<1>9. TypeInv' /\ Paired' /\ SortInv'
  BY <1>1, <1>2, <1>7 DEF TypeInv, Paired, SortInv, Ascending
<1> QED
  BY <1>8, <1>9 DEF TableInv

-------------------------------------------------------------------------------
THEOREM TableInvariance == Spec => []TableInv
<1>1. Init => TableInv
  BY TableInit
<1>2. TableInv /\ [Next]_vars => TableInv'
  <2> SUFFICES ASSUME TableInv, [Next]_vars PROVE TableInv'
    OBVIOUS
  <2>1. CASE Sift \/ HeapifyNext \/ HeapifyEnd \/ ExtractNext
    BY <2>1, SiftStep, HeapifyNextStep, HeapifyEndStep, ExtractNextStep
  <2>2. CASE (\E t \in 0 .. MaxAddr + MaxSize : SearchStart(t)) \/ SearchStep \/ SearchEnd
    BY <2>2, SearchStartStep, SearchStepStep, SearchEndStep
  <2>3. CASE UNCHANGED vars
    BY <2>3 DEF vars, TableInv, TypeInv, Paired, SortInv, SearchInv, Low, Limit, Index,
                Ascending, HeapBut, Bypass
  <2> QED
    BY <2>1, <2>2, <2>3 DEF Next
<1> QED
  BY <1>1, <1>2, PTL DEF Spec

\* addr_sort of helper.h is a sort, for a table of any size: the addresses ascend,
\* and no size was left behind when its address was moved.
THEOREM SortCorrect == Spec => []TableSorted
<1>1. TableInv => TableSorted
  BY DEF TableInv, TypeInv, SortInv, Paired, Ascending, Index, TableSorted
<1> QED
  BY <1>1, TableInvariance, PTL

\* bsearch of helper.h finds the function that a return address is inside, if there
\* is one, and none otherwise, for any table without overlaps and any address.
THEOREM SearchCorrect == Spec => []HitIffInside
<1>1. TableInv => HitIffInside
  <2> SUFFICES ASSUME TableInv, place = "found"
               PROVE  Hit <=> \E f \in fns : f[1] <= tar /\ tar < f[1] + f[2]
    BY DEF HitIffInside
  <2>1. /\ \A k \in Index : addr[k] \in Nat /\ size[k] \in Nat
        /\ 0 \in Index /\ tar \in Nat /\ DOMAIN addr = Index
    BY DEF TableInv, TypeInv, Index
  <2>2. (\E f \in fns : f[1] <= tar /\ tar < f[1] + f[2]) <=>
          \E k \in Index : addr[k] <= tar /\ tar < addr[k] + size[k]
    <3>1. \A k \in Index : /\ <<addr[k], size[k]>> \in fns
                           /\ <<addr[k], size[k]>>[1] = addr[k]
                           /\ <<addr[k], size[k]>>[2] = size[k]
      BY DEF TableInv, Paired
    <3>2. \A f \in fns : \E k \in Index : f[1] = addr[k] /\ f[2] = size[k]
      BY DEF TableInv, Paired
    <3> QED
      BY <3>1, <3>2
  <2>3. CASE idx = -1 /\ tar < addr[0]
    <3>1. \A k \in Index : addr[0] <= addr[k]
      BY <2>1 DEF TableInv, SortInv, Ascending, Index
    <3> QED
      BY <2>1, <2>2, <2>3, <3>1 DEF Hit
  <2>4. CASE /\ idx \in Index /\ addr[idx] <= tar
             /\ \A k \in Index : addr[k] <= addr[idx] \/ tar < addr[k]
    <3>1. ASSUME NEW k \in Index, addr[k] <= tar, tar < addr[k] + size[k]
          PROVE  tar < addr[idx] + size[idx]
      <4>1. addr[k] <= addr[idx]
        BY <2>1, <2>4, <3>1
      <4>2. /\ addr[k] < addr[idx] => addr[k] + size[k] <= addr[idx]
            /\ addr[k] = addr[idx] => size[k] = size[idx]
        BY <2>1, <2>4 DEF TableInv, Paired, Layout
      <4> QED
        BY <2>1, <2>4, <3>1, <4>1, <4>2
    <3>2. idx # -1
      BY <2>4 DEF Index
    <3> QED
      BY <2>2, <2>4, <3>1, <3>2 DEF Hit
  <2> QED
    BY <2>3, <2>4 DEF TableInv, SearchInv
<1> QED
  BY <1>1, TableInvariance, PTL
===============================================================================
