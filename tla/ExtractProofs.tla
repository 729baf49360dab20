---------------------------- MODULE ExtractProofs ----------------------------
(***************************************************************************)
(* Proofs about the extraction (Extract), for files of any length and any  *)
(* layout the code can handle, and in whatever order the definitions are   *)
(* listed: the rows and columns the compiler plugin recorded hold good     *)
(* until they are used; no brace of an outsider's body is left; and every  *)
(* row of every item that ends is in the end what was meant of it.         *)
(***************************************************************************)
EXTENDS Extract, WellFoundedInduction, TLAPS

-------------------------------------------------------------------------------
(***************************************************************************)
(* Least and greatest elements, recursion, and joining of sequences.       *)
(***************************************************************************)
LEMMA NatLeast ==
  ASSUME NEW S, S \subseteq Nat, S # {}
  PROVE  \E m \in S : \A k \in S : m <= k
<1> DEFINE R == OpToRel(<, Nat)
<1>1. R = {p \in Nat \X Nat : p[1] < p[2]}
  BY DEF OpToRel
<1>2. IsWellFoundedOn(R, Nat)
  BY ONLY NatLessThanWellFounded, Zenon
<1> HIDE DEF R
<1>3. PICK m \in S : \A k \in S : <<k, m>> \notin R
  BY <1>2, WFMin
<1>4. \A k \in S : ~(k < m)
  BY <1>1, <1>3
<1> QED
  BY <1>4

LEMMA InductiveSet ==
  ASSUME NEW S, 0 \in S, \A k \in Nat : k \in S => k + 1 \in S
  PROVE  Nat \subseteq S
<1> SUFFICES ASSUME Nat \ S # {} PROVE FALSE
  OBVIOUS
<1>1. PICK m \in Nat \ S : \A k \in Nat \ S : m <= k
  BY NatLeast
<1>2. m - 1 \in Nat /\ m - 1 \in S
  BY <1>1
<1> QED
  BY <1>1, <1>2

LEMMA LeastOf ==
  ASSUME NEW S, S \subseteq Nat, S # {}
  PROVE  Min2(S) \in S /\ \A k \in S : Min2(S) <= k
BY NatLeast DEF Min2

LEMMA GreatestOf ==
  ASSUME NEW n \in Nat, NEW S, S \subseteq 0 .. n, S # {}
  PROVE  Max2(S) \in S /\ \A k \in S : Max2(S) >= k
<1> DEFINE T == {n - k : k \in S}
<1>1. T \subseteq Nat /\ T # {}
  <2>1. \A k \in S : k \in 0 .. n /\ n - k \in Nat
    OBVIOUS
  <2> QED
    BY <2>1
<1>2. PICK m \in T : \A k \in T : m <= k
  BY <1>1, NatLeast
<1>3. PICK s \in S : m = n - s
  BY <1>2
<1>4. \A k \in S : s >= k
  <2> SUFFICES ASSUME NEW k \in S PROVE s >= k
    OBVIOUS
  <2>1. n - s <= n - k
    BY <1>2, <1>3
  <2> QED
    BY <2>1
<1> QED
  BY <1>4 DEF Max2

\* The functions defined by recursion up to n, from x by the steps st: there is one.
Recursive(X, x, n, st) ==
  {g \in [0 .. n -> X] : g[0] = x /\ \A k \in 1 .. n : g[k] = st[k][g[k - 1]]}

LEMMA Recursion ==
  ASSUME NEW X, NEW x \in X, NEW n \in Nat, NEW st \in [1 .. n -> [X -> X]]
  PROVE  Recursive(X, x, n, st) # {}
<1> DEFINE Chain(g, m) == g[0] = x /\ \A k \in 1 .. m : g[k] = st[k][g[k - 1]]
           S == {m \in Nat : m <= n => \E g \in [0 .. m -> X] : Chain(g, m)}
<1>1. 0 \in S
  <2>1. [k \in 0 .. 0 |-> x] \in [0 .. 0 -> X] /\ Chain([k \in 0 .. 0 |-> x], 0)
    OBVIOUS
  <2> QED
    BY <2>1
<1>2. ASSUME NEW m \in Nat, m \in S PROVE m + 1 \in S
  <2> SUFFICES ASSUME m + 1 <= n PROVE \E h \in [0 .. m + 1 -> X] : Chain(h, m + 1)
    OBVIOUS
  <2>1. PICK g \in [0 .. m -> X] : Chain(g, m)
    BY <1>2
  <2> DEFINE h == [j \in 0 .. m + 1 |-> IF j = m + 1 THEN st[m + 1][g[m]] ELSE g[j]]
  <2>2. h \in [0 .. m + 1 -> X]
    <3>1. m + 1 \in 1 .. n /\ g[m] \in X
      OBVIOUS
    <3> QED
      BY <3>1
  <2>3. h[0] = x
    BY <2>1
  <2>4. ASSUME NEW j \in 1 .. m + 1 PROVE h[j] = st[j][h[j - 1]]
    <3>1. CASE j = m + 1
      <4>1. h[j] = st[m + 1][g[m]] /\ h[j - 1] = g[m]
        BY <3>1
      <4> QED
        BY <3>1, <4>1
    <3>2. CASE j \in 1 .. m
      <4>1. h[j] = g[j] /\ h[j - 1] = g[j - 1]
        BY <3>2
      <4> QED
        BY <2>1, <3>2, <4>1
    <3> QED
      BY <3>1, <3>2
  <2> HIDE DEF h
  <2>5. Chain(h, m + 1)
    BY <2>3, <2>4
  <2> QED
    BY <2>2, <2>5
<1> HIDE DEF S
<1>3. n \in S
  BY <1>1, <1>2, InductiveSet
<1> QED
  BY <1>3 DEF S, Recursive

\* The numbers of elements before each part of a sequence of sequences.
Sums(R, ss) == R[0] = 0 /\ \A i \in 1 .. Len(ss) : R[i] = R[i - 1] + Len(ss[i])

LEMMA Accumulation ==
  ASSUME NEW n \in Nat, NEW len \in [1 .. n -> Nat]
  PROVE  \E R \in [0 .. n -> Nat] : R[0] = 0 /\ \A i \in 1 .. n : R[i] = R[i - 1] + len[i]
<1>1. PICK N : N = Nat
  OBVIOUS
<1>2. PICK z \in N : z = 0
  BY <1>1
<1>3. PICK st \in [1 .. n -> [N -> N]] : \A k \in 1 .. n, m \in N : st[k][m] = m + len[k]
  <2>1. [k \in 1 .. n |-> [m \in N |-> m + len[k]]] \in [1 .. n -> [N -> N]]
    BY <1>1
  <2> QED
    BY <2>1
<1>4. PICK g \in [0 .. n -> N] :
        g[0] = z /\ \A k \in 1 .. n : g[k] = st[k][g[k - 1]]
  <2>1. Recursive(N, z, n, st) # {}
    BY Recursion
  <2> QED
    BY <2>1 DEF Recursive
<1>5. \A k \in 1 .. n : k - 1 \in 0 .. n /\ g[k - 1] \in N
  OBVIOUS
<1>6. \A k \in 1 .. n : st[k][g[k - 1]] = g[k - 1] + len[k]
  BY <1>3, <1>5
<1>7. g \in [0 .. n -> Nat]
  BY <1>1
<1> QED
  BY <1>2, <1>4, <1>6, <1>7

LEMMA SumsExist ==
  ASSUME NEW A, NEW ss \in Seq(Seq(A))
  PROVE  \E R \in [0 .. Len(ss) -> Nat] : Sums(R, ss)
<1>1. Len(ss) \in Nat /\ \A k \in 1 .. Len(ss) : ss[k] \in Seq(A) /\ Len(ss[k]) \in Nat
  OBVIOUS
<1>2. [k \in 1 .. Len(ss) |-> Len(ss[k])] \in [1 .. Len(ss) -> Nat]
  BY <1>1
<1> QED
  BY <1>1, <1>2, Accumulation DEF Sums

LEMMA SumsAscend ==
  ASSUME NEW A, NEW ss \in Seq(Seq(A)), NEW R \in [0 .. Len(ss) -> Nat], Sums(R, ss),
         NEW i \in 0 .. Len(ss), NEW j \in 0 .. Len(ss), i <= j
  PROVE  R[i] <= R[j]
<1> DEFINE S == {k \in Nat : i + k <= Len(ss) => R[i] <= R[i + k]}
<1>0. /\ Len(ss) \in Nat /\ \A k \in 1 .. Len(ss) : Len(ss[k]) \in Nat
      /\ \A k \in 0 .. Len(ss) : R[k] \in Nat
  <2>1. Len(ss) \in Nat /\ \A k \in 1 .. Len(ss) : ss[k] \in Seq(A)
    OBVIOUS
  <2>2. \A k \in 1 .. Len(ss) : Len(ss[k]) \in Nat
    BY <2>1
  <2>3. \A k \in 0 .. Len(ss) : R[k] \in Nat
    BY <2>1
  <2> QED
    BY <2>1, <2>2, <2>3
<1>1. 0 \in S
  <2>1. i + 0 = i /\ R[i] \in Nat
    BY <1>0
  <2> QED
    BY <2>1
<1>2. ASSUME NEW k \in Nat, k \in S PROVE k + 1 \in S
  <2> SUFFICES ASSUME i + (k + 1) <= Len(ss) PROVE R[i] <= R[i + (k + 1)]
    OBVIOUS
  <2>1. i + (k + 1) \in 1 .. Len(ss) /\ i + (k + 1) - 1 = i + k
    OBVIOUS
  <2>2. R[i + (k + 1)] = R[i + k] + Len(ss[i + (k + 1)])
    BY <2>1 DEF Sums
  <2>3. Len(ss[i + (k + 1)]) \in Nat /\ R[i + k] \in Nat /\ R[i] \in Nat /\ R[i] <= R[i + k]
    <3>1. i + k \in 0 .. Len(ss) /\ i + k <= Len(ss)
      BY <1>0
    <3> QED
      BY <1>0, <1>2, <2>1, <3>1
  <2> QED
    BY <2>2, <2>3
<1> HIDE DEF S
<1>3. j - i \in S
  <2>1. j - i \in Nat
    BY <1>0
  <2> QED
    BY <1>1, <1>2, <2>1, InductiveSet
<1>4. i + (j - i) = j
  OBVIOUS
<1> QED
  BY <1>3, <1>4 DEF S

\* The sequence c over A is a followed by b.
Joined(c, a, b, A) ==
  /\ c \in Seq(A) /\ Len(c) = Len(a) + Len(b)
  /\ \A k \in 1 .. Len(a) : c[k] = a[k]
  /\ \A k \in 1 .. Len(b) : c[Len(a) + k] = b[k]

LEMMA Concat ==
  ASSUME NEW A, NEW a \in Seq(A), NEW b \in Seq(A)
  PROVE  Joined(a \o b, a, b, A)
BY DEF Joined

\* FlattenSeq as a recursion over the parts.
LEMMA FlattenSteps ==
  ASSUME NEW A, NEW ss \in Seq(Seq(A)), Len(ss) # 0
  PROVE  \E f : /\ FlattenSeq(ss) = f[Len(ss)]
                /\ f[1] = ss[1]
                /\ \A i \in 2 .. Len(ss) : f[i] = f[i - 1] \o ss[i]
<1>1. PICK n \in Nat : n = Len(ss)
  OBVIOUS
<1>2. PICK B : B = Seq(A)
  OBVIOUS
<1>3. PICK x \in B : x = <<>>
  <2>1. <<>> \in Seq(A)
    OBVIOUS
  <2> QED
    BY <1>2, <2>1
<1>4. PICK st \in [1 .. n -> [B -> B]] : \A k \in 1 .. n, y \in B : st[k][y] = y \o ss[k]
  <2>1. \A k \in 1 .. n, y \in B : y \o ss[k] \in B
    BY <1>1, <1>2
  <2>2. [k \in 1 .. n |-> [y \in B |-> y \o ss[k]]] \in [1 .. n -> [B -> B]]
    BY <2>1
  <2> QED
    BY <2>2
<1>5. PICK g \in [0 .. n -> B] :
        g[0] = x /\ \A k \in 1 .. n : g[k] = st[k][g[k - 1]]
  <2>1. Recursive(B, x, n, st) # {}
    BY Recursion
  <2> QED
    BY <2>1 DEF Recursive
<1> DEFINE Eq(f) == f = [i \in 1 .. Len(ss) |-> IF i = 1 THEN ss[i] ELSE f[i - 1] \o ss[i]]
           h == [i \in 1 .. n |-> g[i]]
<1>6. Eq(h)
  <2>1. ASSUME NEW i \in 1 .. n
        PROVE  g[i] = IF i = 1 THEN ss[i] ELSE h[i - 1] \o ss[i]
    <3>1. i - 1 \in 0 .. n /\ g[i - 1] \in B
      <4>1. i - 1 \in 0 .. n
        OBVIOUS
      <4> QED
        BY <4>1
    <3>2. g[i] = g[i - 1] \o ss[i]
      BY <1>4, <1>5, <3>1
    <3>3. CASE i = 1
      <4>1. <<>> \o ss[1] = ss[1]
        BY <1>1, <3>3
      <4> QED
        BY <1>3, <1>5, <3>2, <3>3, <4>1
    <3>4. CASE i # 1
      <4>1. i - 1 \in 1 .. n
        BY <1>1, <3>4
      <4> QED
        BY <3>2, <3>4, <4>1
    <3> QED
      BY <3>3, <3>4
  <2> QED
    BY <1>1, <2>1
<1> HIDE DEF h
<1> DEFINE fl == CHOOSE f : Eq(f)
<1>7. Eq(fl)
  BY <1>6
<1>8. FlattenSeq(ss) = fl[Len(ss)]
  BY Zenon DEF FlattenSeq
<1> HIDE DEF fl
<1>9. fl[1] = ss[1] /\ \A i \in 2 .. Len(ss) : fl[i] = fl[i - 1] \o ss[i]
  <2>1. \A i \in 1 .. n : fl[i] = IF i = 1 THEN ss[i] ELSE fl[i - 1] \o ss[i]
    BY <1>1, <1>7
  <2>2. 1 \in 1 .. n /\ \A i \in 2 .. n : i \in 1 .. n /\ i # 1
    BY <1>1
  <2> QED
    BY <1>1, <2>1, <2>2
<1> QED
  BY <1>8, <1>9

LEMMA FlattenAt ==
  ASSUME NEW A, NEW ss \in Seq(Seq(A)), NEW R \in [0 .. Len(ss) -> Nat], Sums(R, ss)
  PROVE  /\ FlattenSeq(ss) \in Seq(A) /\ Len(FlattenSeq(ss)) = R[Len(ss)]
         /\ \A i \in 1 .. Len(ss) : \A r \in 1 .. Len(ss[i]) :
              /\ R[i - 1] + r \in 1 .. Len(FlattenSeq(ss))
              /\ FlattenSeq(ss)[R[i - 1] + r] = ss[i][r]
<1>1. CASE Len(ss) = 0
  <2>1. ss = <<>> /\ FlattenSeq(ss) = ss
    BY <1>1 DEF FlattenSeq
  <2> QED
    BY <1>1, <2>1 DEF Sums
<1>2. CASE Len(ss) # 0
  <2>1. PICK n \in Nat : n = Len(ss) /\ n # 0
    BY <1>2
  <2>2. PICK f : /\ FlattenSeq(ss) = f[n]
                 /\ f[1] = ss[1]
                 /\ \A i \in 2 .. n : f[i] = f[i - 1] \o ss[i]
    BY <1>2, <2>1, FlattenSteps
  <2>3. /\ \A i \in 1 .. n : ss[i] \in Seq(A) /\ Len(ss[i]) \in Nat
        /\ \A i \in 0 .. n : R[i] \in Nat
        /\ R[0] = 0 /\ \A i \in 1 .. n : R[i] = R[i - 1] + Len(ss[i])
    <3>1. \A i \in 1 .. n : ss[i] \in Seq(A)
      BY <2>1
    <3>2. \A i \in 1 .. n : Len(ss[i]) \in Nat
      BY <3>1
    <3>3. \A i \in 0 .. n : R[i] \in Nat
      BY <2>1
    <3> QED
      BY <2>1, <3>1, <3>2, <3>3 DEF Sums
  <2> DEFINE At(m) ==
        /\ f[m] \in Seq(A) /\ Len(f[m]) = R[m]
        /\ \A i \in 1 .. m : \A r \in 1 .. Len(ss[i]) :
             R[i - 1] + r \in 1 .. R[m] /\ f[m][R[i - 1] + r] = ss[i][r]
             S == {k \in Nat : k + 1 <= n => At(k + 1)}
  <2>4. 0 \in S
    <3>1. f[1] \in Seq(A) /\ R[1] = Len(ss[1]) /\ R[0] = 0 /\ R[1] \in Nat
      BY <2>1, <2>2, <2>3
    <3>2. At(1)
      BY <2>2, <3>1
    <3> QED
      BY <3>2
  <2>5. ASSUME NEW k \in Nat, k \in S PROVE k + 1 \in S
    <3> SUFFICES ASSUME NEW m \in 2 .. n, m = k + 2 PROVE At(m)
      BY <2>1
    <3>1. m - 1 \in 1 .. n /\ m - 1 = k + 1 /\ m \in 1 .. n
      BY <2>1
    <3>2. At(m - 1)
      BY <2>5, <3>1
    <3>3. /\ f[m] = f[m - 1] \o ss[m] /\ ss[m] \in Seq(A) /\ Len(ss[m]) \in Nat
          /\ R[m] = R[m - 1] + Len(ss[m]) /\ R[m - 1] \in Nat
      <4>1. ss[m] \in Seq(A) /\ Len(ss[m]) \in Nat /\ R[m] = R[m - 1] + Len(ss[m])
        BY <2>3, <3>1
      <4>2. m - 1 \in 0 .. n
        BY <3>1
      <4> QED
        BY <2>2, <2>3, <4>1, <4>2
    <3> DEFINE a == f[m - 1]
               b == ss[m]
    <3>4. /\ a \in Seq(A) /\ b \in Seq(A) /\ f[m] = a \o b
          /\ Len(a) = R[m - 1] /\ Len(b) = Len(ss[m])
      BY <3>2, <3>3
    <3>5. /\ f[m] \in Seq(A) /\ Len(f[m]) = Len(a) + Len(b)
          /\ \A j \in 1 .. Len(a) : f[m][j] = a[j]
          /\ \A j \in 1 .. Len(b) : f[m][Len(a) + j] = b[j]
      <4> HIDE DEF a, b
      <4>1. Joined(f[m], a, b, A)
        BY <3>4, Concat
      <4> QED
        BY <4>1 DEF Joined
    <3>6. f[m] \in Seq(A) /\ Len(f[m]) = R[m]
      BY <3>3, <3>4, <3>5
    <3>7. ASSUME NEW i \in 1 .. m, NEW r \in 1 .. Len(ss[i])
          PROVE  R[i - 1] + r \in 1 .. R[m] /\ f[m][R[i - 1] + r] = ss[i][r]
      <4>0. i \in 1 .. n /\ Len(ss[i]) \in Nat /\ R[i - 1] \in Nat /\ r \in Nat
        BY <2>1, <2>3
      <4>1. CASE i = m
        <5>1. r \in 1 .. Len(b) /\ R[i - 1] = Len(a) /\ ss[i] = b /\ R[m] = Len(a) + Len(b)
          BY <3>3, <3>4, <4>1
        <5>2. f[m][Len(a) + r] = b[r]
          BY <3>5, <5>1
        <5>3. Len(a) \in Nat /\ Len(b) \in Nat
          BY <3>4
        <5> HIDE DEF a, b
        <5> QED
          BY <5>1, <5>2, <5>3
      <4>2. CASE i # m
        <5>1. i \in 1 .. m - 1
          BY <4>0, <4>2
        <5>2. R[i - 1] + r \in 1 .. R[m - 1] /\ f[m - 1][R[i - 1] + r] = ss[i][r]
          BY <3>2, <5>1
        <5>3. f[m][R[i - 1] + r] = a[R[i - 1] + r]
          BY <3>4, <3>5, <5>2
        <5>4. R[i - 1] + r \in 1 .. R[m]
          <6>1. PICK x \in Nat, y \in Nat, z \in Nat :
                  x = R[m - 1] /\ y = Len(ss[m]) /\ z = R[m] /\ z = x + y
            <7>1. R[m - 1] \in Nat /\ Len(ss[m]) \in Nat /\ R[m] = R[m - 1] + Len(ss[m])
              BY <3>3
            <7>2. R[m] \in Nat
              BY <7>1
            <7> QED
              BY <7>1, <7>2
          <6>2. \A v \in 1 .. x : v \in 1 .. z
            BY <6>1
          <6> QED
            BY <5>2, <6>1, <6>2, Zenon
        <5>5. f[m][R[i - 1] + r] = ss[i][r]
          BY <5>2, <5>3, Zenon
        <5> QED
          BY <5>4, <5>5
      <4> QED
        BY <4>1, <4>2
    <3> QED
      BY <3>6, <3>7
  <2>6. n - 1 \in S
    <3> HIDE DEF S
    <3>1. Nat \subseteq S
      BY <2>4, <2>5, InductiveSet
    <3> QED
      BY <2>1, <3>1
  <2>7. At(n)
    <3>1. n - 1 + 1 = n
      BY <2>1
    <3> QED
      BY <2>6, <3>1
  <2> QED
    BY <2>1, <2>2, <2>7
<1> QED
  BY <1>1, <1>2

\* Joining sequences loses nothing.
LEMMA FlattenHolds ==
  ASSUME NEW A, NEW ss \in Seq(Seq(A))
  PROVE  /\ FlattenSeq(ss) \in Seq(A)
         /\ \A i \in 1 .. Len(ss) : \A r \in 1 .. Len(ss[i]) :
              \E k \in 1 .. Len(FlattenSeq(ss)) : FlattenSeq(ss)[k] = ss[i][r]
<1>1. PICK R \in [0 .. Len(ss) -> Nat] : Sums(R, ss)
  BY SumsExist
<1>2. /\ FlattenSeq(ss) \in Seq(A)
      /\ \A i \in 1 .. Len(ss) : \A r \in 1 .. Len(ss[i]) :
           R[i - 1] + r \in 1 .. Len(FlattenSeq(ss))
           /\ FlattenSeq(ss)[R[i - 1] + r] = ss[i][r]
  BY <1>1, FlattenAt
<1> QED
  BY <1>2, Zenon

-------------------------------------------------------------------------------
(***************************************************************************)
(* Where the rows of an item are, and what was recorded of it.             *)
(***************************************************************************)
\* Tokens of the source, and those that extract.py writes.
Written == {";", "warn", "extern decl", "__used __cb_name", "__used name",
            "static __used", "DECLARE_PER_CPU", "", "include from mod"}
Text == Nat \X (STRING \cup Written)
Line == Seq(Text)
Total(F) == RowsBefore(F)[Len(F)]
Block(F, i) == RowsBefore(F)[i - 1] + 1 .. RowsBefore(F)[i]
Known == FnClass \cup VarClass

\* Row t of the file is one of item i's, and has a token of that kind.
On(F, i, t, kind) == t \in Block(F, i) /\ OnRow(F[i], t - RowsBefore(F)[i - 1], kind)

\* The rows of item i are in L as they were in the file.
RowOf(F, i, r) == Tokens(i, F[i].rows[r])
Intact(F, L, i) ==
  \A r \in 1 .. Len(F[i].rows) : L[RowsBefore(F)[i - 1] + r] = RowOf(F, i, r)

LEMMA Texts ==
  ASSUME NEW i \in Nat
  PROVE  /\ <<i, ";">> \in Text /\ <<i, "warn">> \in Text /\ <<i, "extern decl">> \in Text
         /\ <<i, "__used __cb_name">> \in Text /\ <<i, "__used name">> \in Text
         /\ <<i, "static __used">> \in Text /\ <<i, "DECLARE_PER_CPU">> \in Text
         /\ <<i, "">> \in Text
BY DEF Text, Written

LEMMA FileRows ==
  ASSUME NEW F \in ModFile \cup SdcrFile
  PROVE  /\ Len(F) \in Nat /\ DOMAIN F = 1 .. Len(F)
         /\ \A i \in 1 .. Len(F) :
              /\ F[i].rows \in Seq(Seq(STRING)) /\ Len(F[i].rows) \in Nat
              /\ DOMAIN F[i].rows = 1 .. Len(F[i].rows)
              /\ WellFormed(F[i])
<1>1. F \in Seq([class : ItemClass, rows : Seq(Seq(STRING))])
  BY FileAssumption
<1>2. Len(F) \in Nat /\ DOMAIN F = 1 .. Len(F)
  BY <1>1
<1>3. ASSUME NEW i \in 1 .. Len(F)
      PROVE  /\ F[i].rows \in Seq(Seq(STRING)) /\ Len(F[i].rows) \in Nat
             /\ DOMAIN F[i].rows = 1 .. Len(F[i].rows)
  <2>1. F[i] \in [class : ItemClass, rows : Seq(Seq(STRING))]
    <3>1. PICK X : X = [class : ItemClass, rows : Seq(Seq(STRING))]
      OBVIOUS
    <3>2. F \in Seq(X)
      BY <1>1, <3>1
    <3>3. F[i] \in X
      BY <3>2
    <3> QED
      BY <3>1, <3>3
  <2>2. F[i].rows \in Seq(Seq(STRING))
    BY <2>1
  <2> QED
    BY <2>2
<1>4. \A i \in 1 .. Len(F) : WellFormed(F[i])
  BY <1>2, FileAssumption
<1> QED
  BY <1>2, <1>3, <1>4

LEMMA RowsBeforeSums ==
  ASSUME NEW F \in ModFile \cup SdcrFile
  PROVE  /\ RowsBefore(F) \in [0 .. Len(F) -> Nat] /\ RowsBefore(F)[0] = 0
         /\ \A i \in 1 .. Len(F) :
              RowsBefore(F)[i] = RowsBefore(F)[i - 1] + Len(F[i].rows)
<1>1. PICK n \in Nat : n = Len(F)
  BY FileRows
<1>2. PICK len \in [1 .. n -> Nat] : \A i \in 1 .. n : len[i] = Len(F[i].rows)
  <2>1. [i \in 1 .. n |-> Len(F[i].rows)] \in [1 .. n -> Nat]
    BY <1>1, FileRows
  <2> QED
    BY <2>1
<1>3. PICK R \in [0 .. n -> Nat] : R[0] = 0 /\ \A i \in 1 .. n : R[i] = R[i - 1] + len[i]
  BY Accumulation
<1> DEFINE Eq(f) == f = [i \in 0 .. Len(F) |->
                           IF i = 0 THEN 0 ELSE f[i - 1] + Len(F[i].rows)]
           fl == CHOOSE f : Eq(f)
<1>4. Eq(R)
  <2>1. ASSUME NEW i \in 0 .. n
        PROVE  R[i] = IF i = 0 THEN 0 ELSE R[i - 1] + Len(F[i].rows)
    <3>1. CASE i = 0
      BY <1>3, <3>1
    <3>2. CASE i # 0
      <4>1. i \in 1 .. n
        BY <3>2
      <4>2. R[i] = R[i - 1] + len[i] /\ len[i] = Len(F[i].rows)
        BY <1>2, <1>3, <4>1
      <4> QED
        BY <3>2, <4>2
    <3> QED
      BY <3>1, <3>2
  <2> QED
    BY <1>1, <2>1
<1>5. Eq(fl)
  BY <1>4
<1>6. RowsBefore(F) = fl
  BY Zenon DEF RowsBefore
<1> HIDE DEF fl
<1>7. fl[0] = 0 /\ \A i \in 1 .. n : fl[i] = fl[i - 1] + len[i]
  <2>1. \A i \in 0 .. n : fl[i] = IF i = 0 THEN 0 ELSE fl[i - 1] + Len(F[i].rows)
    BY <1>1, <1>5
  <2>2. 0 \in 0 .. n /\ \A i \in 1 .. n : i \in 0 .. n /\ i # 0
    OBVIOUS
  <2> QED
    BY <1>2, <2>1, <2>2
<1>8. \A i \in 0 .. n : fl[i] \in Nat
  <2> DEFINE S == {k \in Nat : k <= n => fl[k] \in Nat}
  <2>1. 0 \in S
    BY <1>7
  <2>2. ASSUME NEW k \in Nat, k \in S PROVE k + 1 \in S
    <3> SUFFICES ASSUME k + 1 <= n PROVE fl[k + 1] \in Nat
      OBVIOUS
    <3>1. k + 1 \in 1 .. n /\ k + 1 - 1 = k /\ len[k + 1] \in Nat
      OBVIOUS
    <3>2. fl[k + 1] = fl[k] + len[k + 1]
      BY <1>7, <3>1
    <3> QED
      BY <2>2, <3>1, <3>2
  <2> HIDE DEF S
  <2>3. Nat \subseteq S
    BY <2>1, <2>2, InductiveSet
  <2> QED
    BY <2>3 DEF S
<1>9. fl \in [0 .. n -> Nat]
  BY <1>1, <1>5, <1>8
<1> QED
  BY <1>1, <1>2, <1>6, <1>7, <1>9

\* Blocks lie in the file, one after the other.
LEMMA BlocksApart ==
  ASSUME NEW F \in ModFile \cup SdcrFile, NEW i \in 1 .. Len(F)
  PROVE  /\ RowsBefore(F)[i - 1] \in Nat /\ RowsBefore(F)[i] \in Nat /\ Total(F) \in Nat
         /\ RowsBefore(F)[i] = RowsBefore(F)[i - 1] + Len(F[i].rows)
         /\ RowsBefore(F)[i] <= Total(F)
         /\ \A j \in 1 .. Len(F) :
              j < i => RowsBefore(F)[j] <= RowsBefore(F)[i - 1]
<1>1. PICK n \in Nat : n = Len(F)
  BY FileRows
<1> DEFINE R == RowsBefore(F)
           ss == [j \in 1 .. n |-> F[j].rows]
<1>2. ss \in Seq(Seq(Seq(STRING))) /\ Len(ss) = n /\ \A j \in 1 .. n : ss[j] = F[j].rows
  <2>1. \A j \in 1 .. n : F[j].rows \in Seq(Seq(STRING))
    BY <1>1, FileRows
  <2> QED
    BY <2>1
<1>3. /\ R \in [0 .. n -> Nat] /\ R[0] = 0
      /\ \A j \in 1 .. n : R[j] = R[j - 1] + Len(F[j].rows)
  BY <1>1, RowsBeforeSums
<1> HIDE DEF R, ss
<1>4. R \in [0 .. Len(ss) -> Nat] /\ Sums(R, ss)
  BY <1>2, <1>3 DEF Sums
<1>5. \A j, k \in 0 .. n : j <= k => R[j] <= R[k]
  BY <1>2, <1>4, SumsAscend
<1>6. i \in 0 .. n /\ n \in 0 .. n /\ i <= n /\ i - 1 \in 0 .. n /\ i \in 1 .. n
  BY <1>1
<1>7. \A j \in 1 .. n : j < i => j \in 0 .. n /\ j <= i - 1
  BY <1>6
<1> QED
  BY <1>1, <1>3, <1>5, <1>6, <1>7 DEF R, Total

LEMMA CollectedRows ==
  ASSUME NEW F \in ModFile \cup SdcrFile, NEW i \in 1 .. Len(F), NEW m, m = Collected(F)[i]
  PROVE  /\ F[i].class \in Known => On(F, i, m.name, "name")
         /\ F[i].class \in FnClass =>
              /\ On(F, i, m.lbrace, "{") /\ On(F, i, m.rbrace, "}")
              /\ m.lcol \in DOMAIN F[i].rows[m.lbrace - RowsBefore(F)[i - 1]]
              /\ F[i].rows[m.lbrace - RowsBefore(F)[i - 1]][m.lcol] = "{"
         /\ F[i].class \in VarClass =>
              On(F, i, m.start, "name") \/ On(F, i, m.start, "struct {")
<1>1. PICK b \in Nat : b = RowsBefore(F)[i - 1]
  BY BlocksApart
<1>2. PICK N \in Nat : N = Len(F[i].rows) /\ DOMAIN F[i].rows = 1 .. N
  BY FileRows
<1> DEFINE on(kind) == {r \in 1 .. N : OnRow(F[i], r, kind)}
<1>3. \A kind : \A r \in 1 .. N : OnRow(F[i], r, kind) => On(F, i, b + r, kind)
  <2>1. RowsBefore(F)[i] = b + N
    BY <1>1, <1>2, BlocksApart
  <2>2. \A r \in 1 .. N : b + r \in b + 1 .. b + N /\ b + r - b = r
    OBVIOUS
  <2> QED
    BY <1>1, <2>1, <2>2 DEF On, Block
<1>4. ASSUME NEW kind, IsOn(F[i], kind)
      PROVE  /\ on(kind) # {}
             /\ Min2(on(kind)) \in 1 .. N /\ On(F, i, b + Min2(on(kind)), kind)
             /\ OnRow(F[i], Min2(on(kind)), kind)
             /\ On(F, i, b + Max2(on(kind)), kind)
  <2>1. on(kind) # {} /\ on(kind) \subseteq 1 .. N
    BY <1>2, <1>4 DEF IsOn
  <2>2. on(kind) \subseteq Nat /\ on(kind) \subseteq 0 .. N
    BY <2>1
  <2>3. Min2(on(kind)) \in on(kind) /\ Max2(on(kind)) \in on(kind)
    BY <2>1, <2>2, LeastOf, GreatestOf
  <2> HIDE DEF on
  <2>4. Min2(on(kind)) \in 1 .. N /\ OnRow(F[i], Min2(on(kind)), kind)
        /\ Max2(on(kind)) \in 1 .. N /\ OnRow(F[i], Max2(on(kind)), kind)
    BY <2>3 DEF on
  <2> QED
    BY <1>3, <2>1, <2>4
<1> DEFINE first(kind) == IF on(kind) = {} THEN 0 ELSE b + Min2(on(kind))
           last(kind) == IF on(kind) = {} THEN 0 ELSE b + Max2(on(kind))
           column(line, kind) == Min2({k \in DOMAIN line : line[k] = kind})
<1>5. /\ m.name = first("name") /\ m.lbrace = first("{") /\ m.rbrace = last("}")
      /\ m.lcol = IF on("{") = {} THEN 0 ELSE column(F[i].rows[Min2(on("{"))], "{")
      /\ m.start = IF on("struct {") # {} THEN first("struct {") ELSE first("name")
  <2>1. i \in DOMAIN F
    BY FileRows
  <2> QED
    BY <1>1, <1>2, <2>1 DEF Collected
<1> HIDE DEF on
<1>6. ASSUME F[i].class \in Known PROVE On(F, i, m.name, "name")
  <2>1. IsOn(F[i], "name")
    BY <1>6, FileRows DEF WellFormed, Known
  <2> QED
    BY <1>4, <1>5, <2>1
<1>7. ASSUME F[i].class \in FnClass
      PROVE  /\ On(F, i, m.lbrace, "{") /\ On(F, i, m.rbrace, "}")
             /\ m.lcol \in DOMAIN F[i].rows[m.lbrace - b]
             /\ F[i].rows[m.lbrace - b][m.lcol] = "{"
  <2>1. IsOn(F[i], "{") /\ OnRow(F[i], N, "}")
    BY <1>2, <1>7, FileRows DEF WellFormed
  <2>2. N \in 1 .. N
    <3>1. PICK r \in 1 .. N : OnRow(F[i], r, "{")
      BY <1>2, <2>1 DEF IsOn
    <3>2. \A M \in Nat : \A k \in 1 .. M : M \in 1 .. M
      OBVIOUS
    <3> QED
      BY <3>1, <3>2
  <2>3. IsOn(F[i], "}")
    BY <1>2, <2>1, <2>2 DEF IsOn
  <2>4. /\ on("{") # {} /\ Min2(on("{")) \in 1 .. N
        /\ On(F, i, b + Min2(on("{")), "{") /\ OnRow(F[i], Min2(on("{")), "{")
        /\ on("}") # {} /\ On(F, i, b + Max2(on("}")), "}")
    BY <1>4, <2>1, <2>3
  <2>5. m.lbrace = b + Min2(on("{")) /\ m.lcol = column(F[i].rows[Min2(on("{"))], "{")
    BY <1>5, <2>4
  <2>6. PICK r \in 1 .. N : r = Min2(on("{"))
    BY <2>4
  <2>7. m.lbrace - b = r
    <3>1. m.lbrace = b + r
      BY <2>5, <2>6
    <3>2. b + r - b = r
      OBVIOUS
    <3> QED
      BY <3>1, <3>2
  <2>8. PICK l \in Seq(STRING) : l = F[i].rows[r]
    BY <1>2, FileRows
  <2>9. m.lcol \in {k \in DOMAIN l : l[k] = "{"}
    <3>1. DOMAIN l \subseteq Nat
      <4>1. DOMAIN l = 1 .. Len(l) /\ Len(l) \in Nat
        OBVIOUS
      <4> QED
        BY <4>1
    <3>2. {k \in DOMAIN l : l[k] = "{"} # {}
      BY <2>4, <2>6, <2>8 DEF OnRow
    <3>3. m.lcol = Min2({k \in DOMAIN l : l[k] = "{"})
      BY <2>5, <2>6, <2>8
    <3> QED
      BY <3>1, <3>2, <3>3, LeastOf
  <2> QED
    BY <1>5, <2>4, <2>5, <2>7, <2>8, <2>9
<1>8. ASSUME F[i].class \in VarClass
      PROVE  On(F, i, m.start, "name") \/ On(F, i, m.start, "struct {")
  <2>1. CASE on("struct {") = {}
    BY <1>5, <1>6, <1>8, <2>1 DEF Known
  <2>2. CASE on("struct {") # {}
    <3>1. IsOn(F[i], "struct {")
      BY <1>2, <2>2 DEF IsOn, on
    <3> QED
      BY <1>4, <1>5, <2>2, <3>1
  <2> QED
    BY <2>1, <2>2
<1> QED
  BY <1>1, <1>6, <1>7, <1>8

\* The rows of the file as read: every item is where the plugin found it.
Unread(F) == FlattenSeq([i \in DOMAIN F |-> [r \in DOMAIN F[i].rows |-> RowOf(F, i, r)]])

LEMMA FileAsRead ==
  ASSUME NEW F \in ModFile \cup SdcrFile
  PROVE  /\ Unread(F) \in [1 .. Total(F) -> Line]
         /\ \A i \in 1 .. Len(F) : Intact(F, Unread(F), i)
<1>1. PICK n \in Nat : n = Len(F) /\ DOMAIN F = 1 .. n
  BY FileRows
<1>2. PICK ss : ss = [i \in 1 .. n |-> [r \in DOMAIN F[i].rows |-> RowOf(F, i, r)]]
  OBVIOUS
<1>3. ASSUME NEW i \in 1 .. n
      PROVE  /\ ss[i] \in Seq(Line) /\ Len(ss[i]) = Len(F[i].rows)
             /\ \A r \in 1 .. Len(F[i].rows) : ss[i][r] = RowOf(F, i, r)
  <2>1. PICK N \in Nat : N = Len(F[i].rows) /\ DOMAIN F[i].rows = 1 .. N
    BY <1>1, FileRows
  <2>2. ASSUME NEW r \in 1 .. N PROVE RowOf(F, i, r) \in Line
    <3>1. PICK l \in Seq(STRING) : l = F[i].rows[r]
      BY <1>1, <2>1, FileRows
    <3>2. [k \in DOMAIN l |-> <<i, l[k]>>] \in Seq(Text)
      <4>1. \A k \in 1 .. Len(l) : <<i, l[k]>> \in Text
        BY DEF Text
      <4>2. DOMAIN l = 1 .. Len(l) /\ Len(l) \in Nat
        OBVIOUS
      <4> QED
        BY <4>1, <4>2
    <3> QED
      BY <3>1, <3>2 DEF RowOf, Tokens, Line
  <2>3. ss[i] = [r \in 1 .. N |-> RowOf(F, i, r)]
    BY <1>2, <2>1
  <2> QED
    BY <2>1, <2>2, <2>3
<1>4. ss \in Seq(Seq(Line)) /\ Len(ss) = n
  <2>1. ss \in [1 .. n -> Seq(Line)]
    BY <1>2, <1>3
  <2>2. PICK X : X = Seq(Line)
    OBVIOUS
  <2>3. ss \in Seq(X) /\ Len(ss) = n
    BY <2>1, <2>2
  <2> QED
    BY <2>2, <2>3
<1>5. PICK R \in [0 .. n -> Nat] : R = RowsBefore(F)
  BY <1>1, RowsBeforeSums
<1>6. R \in [0 .. Len(ss) -> Nat] /\ Sums(R, ss)
  BY <1>1, <1>3, <1>4, <1>5, RowsBeforeSums DEF Sums
<1>7. PICK L \in Seq(Line) :
        /\ L = FlattenSeq(ss) /\ Len(L) = R[n]
        /\ \A i \in 1 .. n : \A r \in 1 .. Len(ss[i]) : L[R[i - 1] + r] = ss[i][r]
  <2>1. PICK A : A = Line
    OBVIOUS
  <2>2. ss \in Seq(Seq(A))
    BY <1>4, <2>1
  <2>3. PICK L : L = FlattenSeq(ss)
    OBVIOUS
  <2>4. L \in Seq(A) /\ Len(L) = R[Len(ss)]
    BY <1>6, <2>2, <2>3, FlattenAt
  <2>5. \A i \in 1 .. Len(ss) : \A r \in 1 .. Len(ss[i]) : L[R[i - 1] + r] = ss[i][r]
    BY <1>6, <2>2, <2>3, FlattenAt
  <2>6. L \in Seq(Line) /\ Len(L) = R[n]
        /\ \A i \in 1 .. n : \A r \in 1 .. Len(ss[i]) : L[R[i - 1] + r] = ss[i][r]
    BY <1>4, <2>1, <2>4, <2>5
  <2> QED
    BY <2>3, <2>6
<1>8. L = Unread(F)
  BY <1>1, <1>2, <1>7 DEF Unread
<1>9. L \in [1 .. Total(F) -> Line]
  BY <1>1, <1>5, <1>7 DEF Total
<1>10. \A i \in 1 .. n : Intact(F, L, i)
  BY <1>3, <1>5, <1>7 DEF Intact
<1> QED
  BY <1>1, <1>8, <1>9, <1>10

\* What a row holds as long as its item is intact.
StandsIn(L, kind, i, t) == t \in DOMAIN L /\ Contains(L[t], <<i, kind>>)

LEMMA IntactStands ==
  ASSUME NEW F \in ModFile \cup SdcrFile, NEW i \in 1 .. Len(F),
         NEW L \in [1 .. Total(F) -> Line], Intact(F, L, i),
         NEW kind, NEW t, On(F, i, t, kind)
  PROVE  /\ StandsIn(L, kind, i, t)
         /\ L[t] = RowOf(F, i, t - RowsBefore(F)[i - 1])
<1>1. PICK b \in Nat : b = RowsBefore(F)[i - 1]
  BY BlocksApart
<1>2. PICK N \in Nat : N = Len(F[i].rows) /\ DOMAIN F[i].rows = 1 .. N
  BY FileRows
<1>3. t \in b + 1 .. b + N /\ b + N <= Total(F) /\ Total(F) \in Nat
  BY <1>1, <1>2, BlocksApart DEF On, Block
<1>4. PICK r \in 1 .. N : t = b + r /\ t - b = r
  BY <1>3
<1>5. L[t] = RowOf(F, i, r) /\ t \in 1 .. Total(F)
  <2>1. L[b + r] = RowOf(F, i, r)
    BY <1>1, <1>2 DEF Intact
  <2>2. t \in 1 .. Total(F)
    BY <1>3
  <2> QED
    BY <1>4, <2>1, <2>2
<1>6. PICK l \in Seq(STRING) : l = F[i].rows[r]
  BY <1>2, FileRows
<1>7. PICK k \in DOMAIN l : l[k] = kind
  BY <1>1, <1>4, <1>6 DEF On, OnRow
<1>8. L[t] = [j \in DOMAIN l |-> <<i, l[j]>>] /\ DOMAIN l = 1 .. Len(l)
  BY <1>5, <1>6 DEF RowOf, Tokens
<1>9. L[t][k] = <<i, kind>> /\ k \in 1 .. Len(L[t])
  BY <1>7, <1>8
<1> QED
  BY <1>1, <1>4, <1>5, <1>9 DEF StandsIn, Contains

-------------------------------------------------------------------------------
(***************************************************************************)
(* What the operations on rows leave alone.                                *)
(***************************************************************************)
LEMMA SubSeqRows ==
  ASSUME NEW A, NEW n \in Nat, NEW L \in [1 .. n -> A], NEW from \in 1 .. n, NEW to \in from .. n
  PROVE  /\ SubSeq(L, from, to) \in Seq(A) /\ Len(SubSeq(L, from, to)) = to - from + 1
         /\ \A i \in 1 .. to - from + 1 : SubSeq(L, from, to)[i] = L[from + i - 1]
<1>1. L \in Seq(A) /\ Len(L) = n
  OBVIOUS
<1>2. from \in Int /\ to \in Int /\ 1 <= from /\ from <= to /\ to <= n
  OBVIOUS
<1> QED
  BY <1>1, <1>2

\* The rows from .. to of L are joined on row at of M; the others are as in L.
JoinedRows(n, L, M, from, to, at) ==
  /\ M \in [1 .. n -> Line]
  /\ \A t \in 1 .. n : t \notin from .. to /\ t # at => M[t] = L[t]
  /\ \A t \in from .. to : \A k \in 1 .. Len(L[t]) :
       \E j \in 1 .. Len(M[at]) : M[at][j] = L[t][k]

LEMMA JoinHolds ==
  ASSUME NEW n \in Nat, NEW L \in [1 .. n -> Line], NEW from \in 1 .. n,
         NEW to \in from .. n, NEW at \in 1 .. n
  PROVE  JoinedRows(n, L, Join(L, from, to, at), from, to, at)
<1>1. PICK m \in Nat : m = to - from + 1
  OBVIOUS
<1>2. L \in Seq(Line) /\ Len(L) = n /\ DOMAIN L = 1 .. n
  OBVIOUS
<1>3. PICK ss \in Seq(Line) :
        /\ ss = SubSeq(L, from, to) /\ Len(ss) = m
        /\ \A i \in 1 .. m : ss[i] = L[from + i - 1]
  <2> DEFINE part == SubSeq(L, from, to)
  <2>1. /\ part \in Seq(Line) /\ Len(part) = to - from + 1
        /\ \A i \in 1 .. to - from + 1 : part[i] = L[from + i - 1]
    BY SubSeqRows
  <2> HIDE DEF part
  <2>2. /\ part \in Seq(Line) /\ Len(part) = m
        /\ \A i \in 1 .. m : part[i] = L[from + i - 1]
    BY <1>1, <2>1
  <2> QED
    BY <2>2 DEF part
<1>4. PICK all \in Line :
        /\ all = FlattenSeq(ss)
        /\ \A i \in 1 .. m : \A r \in 1 .. Len(ss[i]) :
             \E k \in 1 .. Len(all) : all[k] = ss[i][r]
  <2>1. PICK A : A = Text
    OBVIOUS
  <2>2. ss \in Seq(Seq(A))
    BY <2>1 DEF Line
  <2>3. /\ FlattenSeq(ss) \in Seq(A)
        /\ \A i \in 1 .. Len(ss) : \A r \in 1 .. Len(ss[i]) :
             \E k \in 1 .. Len(FlattenSeq(ss)) : FlattenSeq(ss)[k] = ss[i][r]
    BY <2>2, FlattenHolds
  <2> DEFINE whole == FlattenSeq(ss)
  <2>4. /\ whole \in Line
        /\ \A i \in 1 .. m : \A r \in 1 .. Len(ss[i]) :
             \E k \in 1 .. Len(whole) : whole[k] = ss[i][r]
    BY <1>3, <2>1, <2>3 DEF Line
  <2> HIDE DEF whole
  <2> QED
    BY <2>4 DEF whole
<1>5. PICK J : J = Join(L, from, to, at)
  OBVIOUS
<1>6. J = [r \in 1 .. n |-> IF r = at THEN all ELSE IF r \in from .. to THEN <<>> ELSE L[r]]
  BY <1>2, <1>3, <1>4, <1>5 DEF Join
<1>7. <<>> \in Line
  BY DEF Line
<1>8. J \in [1 .. n -> Line]
  BY <1>6, <1>7
<1>9. ASSUME NEW t \in from .. to, NEW k \in 1 .. Len(L[t])
      PROVE  \E j \in 1 .. Len(J[at]) : J[at][j] = L[t][k]
  <2>1. PICK i \in 1 .. m : i = t - from + 1 /\ from + i - 1 = t
    BY <1>1
  <2>2. ss[i] = L[t] /\ J[at] = all
    BY <1>3, <1>6, <2>1
  <2>3. k \in 1 .. Len(ss[i])
    BY <2>2, Zenon
  <2>4. \E j \in 1 .. Len(all) : all[j] = ss[i][k]
    BY <1>4, <2>3, Zenon
  <2> QED
    BY <2>2, <2>4, Zenon
<1>10. \A t \in 1 .. n : t \notin from .. to /\ t # at => J[t] = L[t]
  BY <1>6
<1> QED
  BY <1>5, <1>8, <1>9, <1>10, Zenon DEF JoinedRows

\* merge_up_lines stops below a row that ends a definition.
LEMMA MergeUpKeeps ==
  ASSUME NEW n \in Nat, NEW L \in [1 .. n -> Line], NEW r \in 1 .. n
  PROVE  /\ MergeUpLines(L, r) \in [1 .. n -> Line]
         /\ \A t \in 1 .. n :
              t > r \/ (\E b \in t .. r - 1 : Terminator(L[b]))
              => MergeUpLines(L, r)[t] = L[t]
<1> DEFINE S == {1} \cup {t \in 2 .. r : Terminator(L[t - 1])}
<1>1. S \subseteq 0 .. r /\ S # {}
  OBVIOUS
<1>2. PICK top \in 1 .. r : top = Max2(S) /\ \A k \in S : top >= k
  <2>1. Max2(S) \in S /\ \A k \in S : Max2(S) >= k
    <3>1. r \in Nat
      OBVIOUS
    <3> HIDE DEF S
    <3> QED
      BY <1>1, <3>1, GreatestOf
  <2>2. \A k \in S : k \in 1 .. r
    OBVIOUS
  <2> HIDE DEF S
  <2> QED
    BY <2>1, <2>2
<1>3. MergeUpLines(L, r) = Join(L, top, r, top)
  BY <1>2 DEF MergeUpLines
<1>4. \A b \in 1 .. r - 1 : Terminator(L[b]) => b < top
  <2>1. \A b \in 1 .. r - 1 : b + 1 \in 2 .. r /\ b + 1 - 1 = b /\ b \in Int /\ top \in Int
    OBVIOUS
  <2>2. \A t \in 2 .. r : Terminator(L[t - 1]) => t \in S
    OBVIOUS
  <2>3. ASSUME NEW b \in 1 .. r - 1, Terminator(L[b]) PROVE b + 1 \in S
    BY <2>1, <2>2, <2>3
  <2> HIDE DEF S
  <2>4. ASSUME NEW b \in 1 .. r - 1, b + 1 \in S PROVE b < top
    <3>1. top >= b + 1
      BY <1>2, <2>4
    <3> QED
      BY <2>1, <3>1
  <2> QED
    BY <2>3, <2>4
<1> HIDE DEF S
<1>5. top \in 1 .. n /\ r \in top .. n
  OBVIOUS
<1>6. /\ Join(L, top, r, top) \in [1 .. n -> Line]
      /\ \A t \in 1 .. n : t \notin top .. r /\ t # top => Join(L, top, r, top)[t] = L[t]
  BY <1>5, JoinHolds DEF JoinedRows
<1>7. ASSUME NEW t \in 1 .. n, t > r \/ \E b \in t .. r - 1 : Terminator(L[b])
      PROVE  t \notin top .. r /\ t # top
  <2>1. CASE t > r
    BY <1>5, <2>1
  <2>2. CASE \E b \in t .. r - 1 : Terminator(L[b])
    <3>1. PICK b \in t .. r - 1 : Terminator(L[b])
      BY <2>2
    <3>2. b \in 1 .. r - 1 /\ t <= b
      OBVIOUS
    <3>3. b < top
      BY <1>4, <3>1, <3>2
    <3> QED
      BY <3>2, <3>3
  <2> QED
    BY <1>7, <2>1, <2>2
<1> QED
  BY <1>3, <1>6, <1>7

\* The last row of item j is one that merge_up_lines stops at.
EndsIn(F, L, j) ==
  RowsBefore(F)[j] \in Block(F, j) /\ Terminator(L[RowsBefore(F)[j]])

\* Work on item i that leaves the rows of the others, if they end so, as they are.
Keeps(F, L, M, i) ==
  /\ M \in [1 .. Total(F) -> Line]
  /\ \A j \in 1 .. Len(F) : j # i /\ EndsIn(F, L, j) => \A t \in Block(F, j) : M[t] = L[t]

LEMMA OtherBlock ==
  ASSUME NEW F \in ModFile \cup SdcrFile, NEW i \in 1 .. Len(F), NEW j \in 1 .. Len(F), j # i,
         NEW r \in 1 .. Len(F[j].rows), NEW t, t = RowsBefore(F)[j - 1] + r
  PROVE  /\ t \in 1 .. Total(F) /\ t \notin Block(F, i)
         /\ j < i => t <= RowsBefore(F)[j] /\ RowsBefore(F)[j] <= RowsBefore(F)[i - 1]
         /\ j > i => t > RowsBefore(F)[i]
<1>1. PICK a \in Nat, b \in Nat : a = RowsBefore(F)[j - 1] /\ b = RowsBefore(F)[j]
  BY BlocksApart
<1>2. PICK c \in Nat, d \in Nat : c = RowsBefore(F)[i - 1] /\ d = RowsBefore(F)[i]
  BY BlocksApart
<1>3. Len(F[j].rows) \in Nat /\ b = a + Len(F[j].rows) /\ b <= Total(F) /\ Total(F) \in Nat
  BY <1>1, BlocksApart, FileRows
<1>4. (j < i => b <= c) /\ (i < j => d <= a)
  BY <1>1, <1>2, BlocksApart
<1>5. t = a + r /\ t \in 1 .. Total(F) /\ t <= b /\ t > a
  <2>1. r \in Int /\ 1 <= r /\ r <= Len(F[j].rows)
    BY <1>3
  <2>2. t = a + r
    BY <1>1
  <2> QED
    BY <1>3, <2>1, <2>2
<1>6. j < i \/ j > i
  <2>1. i \in Int /\ j \in Int
    BY FileRows
  <2> QED
    BY <2>1
<1>7. t \notin Block(F, i)
  <2>0. Block(F, i) = c + 1 .. d
    BY <1>2 DEF Block
  <2>1. CASE j < i
    <3>1. t <= b /\ b <= c
      BY <1>4, <1>5, <2>1
    <3> QED
      BY <1>5, <2>0, <3>1
  <2>2. CASE j > i
    <3>1. t > a /\ d <= a
      BY <1>4, <1>5, <1>6, <2>2
    <3> QED
      BY <1>5, <2>0, <3>1
  <2> QED
    BY <1>6, <2>1, <2>2, Zenon
<1>8. /\ j < i => t <= RowsBefore(F)[j] /\ RowsBefore(F)[j] <= RowsBefore(F)[i - 1]
      /\ j > i => t > RowsBefore(F)[i]
  <2>1. j < i => t <= b /\ b <= c
    BY <1>4, <1>5
  <2>2. j > i => t > d
    <3>1. j > i => i < j
      <4>1. i \in Int /\ j \in Int
        BY FileRows
      <4> QED
        BY <4>1
    <3> QED
      BY <1>2, <1>1, <1>4, <1>5, <3>1
  <2> QED
    BY <1>1, <1>2, <2>1, <2>2, Zenon
<1> QED
  BY <1>5, <1>7, <1>8

LEMMA BlockRows ==
  ASSUME NEW F \in ModFile \cup SdcrFile, NEW i \in 1 .. Len(F)
  PROVE  /\ Block(F, i) \subseteq 1 .. Total(F)
         /\ \A t \in Block(F, i) :
              /\ t - RowsBefore(F)[i - 1] \in 1 .. Len(F[i].rows)
              /\ t = RowsBefore(F)[i - 1] + (t - RowsBefore(F)[i - 1])
         /\ \A r \in 1 .. Len(F[i].rows) : RowsBefore(F)[i - 1] + r \in Block(F, i)
<1>1. PICK a \in Nat, N \in Nat, n \in Nat :
        /\ a = RowsBefore(F)[i - 1] /\ N = Len(F[i].rows) /\ n = Total(F)
        /\ RowsBefore(F)[i] = a + N /\ a + N <= n
  BY BlocksApart, FileRows
<1>2. a + 1 .. a + N \subseteq 1 .. n
  BY <1>1
<1>3. \A t \in a + 1 .. a + N : t - a \in 1 .. N /\ t = a + (t - a)
  OBVIOUS
<1>4. \A r \in 1 .. N : a + r \in a + 1 .. a + N
  OBVIOUS
<1> QED
  BY <1>1, <1>2, <1>3, <1>4 DEF Block

LEMMA BlocksDisjoint ==
  ASSUME NEW F \in ModFile \cup SdcrFile, NEW i \in 1 .. Len(F), NEW j \in 1 .. Len(F), j # i,
         NEW t \in Block(F, j)
  PROVE  t \in 1 .. Total(F) /\ t \notin Block(F, i)
<1>1. PICK r \in 1 .. Len(F[j].rows) : t = RowsBefore(F)[j - 1] + r
  BY BlockRows
<1> QED
  BY <1>1, OtherBlock

\* An item that ends so in the file, and is intact, ends so.
LEMMA IntactEnds ==
  ASSUME NEW F \in ModFile \cup SdcrFile, F = file, NEW j \in 1 .. Len(F), Ended(F[j]),
         NEW L, Intact(F, L, j)
  PROVE  EndsIn(F, L, j)
<1>1. PICK N \in Nat, a \in Nat :
        /\ N = Len(F[j].rows) /\ a = RowsBefore(F)[j - 1] /\ RowsBefore(F)[j] = a + N
        /\ F[j].rows \in Seq(Seq(STRING))
  BY BlocksApart, FileRows
<1>2. N \in 1 .. N
  <2>1. F[j].rows # <<>>
    BY DEF Ended
  <2>2. \A x \in Seq(Seq(STRING)) : x # <<>> => Len(x) \in 1 .. Len(x)
    OBVIOUS
  <2> QED
    BY <1>1, <2>1, <2>2
<1>3. L[a + N] = Tokens(j, F[j].rows[N]) /\ a + N \in Block(F, j)
  BY <1>1, <1>2, BlockRows DEF Intact, RowOf
<1>4. CASE \E w \in TerminatorWords : OnRow(F[j], N, w)
  <2>1. PICK w \in TerminatorWords : OnRow(F[j], N, w)
    BY <1>4
  <2>2. PICK k \in DOMAIN F[j].rows[N] : F[j].rows[N][k] = w
    BY <2>1 DEF OnRow
  <2>3. PICK x : x = L[a + N]
    OBVIOUS
  <2>4. k \in DOMAIN x /\ x[k] = <<j, w>>
    BY <1>3, <2>2, <2>3 DEF Tokens
  <2>5. <<j, w>>[2] = w
    OBVIOUS
  <2>6. Has(x, TerminatorWords)
    BY <2>1, <2>4, <2>5, Zenon DEF Has
  <2> QED
    BY <1>1, <1>3, <2>3, <2>6 DEF EndsIn, Terminator
<1>5. CASE F[j].rows[N] = <<"blank">>
  <2>1. DOMAIN <<"blank">> = {1} /\ <<"blank">>[1] = "blank"
    OBVIOUS
  <2>2. Tokens(j, <<"blank">>) = <<<<j, "blank">>>>
    BY <2>1 DEF Tokens
  <2>3. j \in Items
    BY FileRows DEF Items
  <2> QED
    BY <1>1, <1>3, <1>5, <2>2, <2>3 DEF EndsIn, Terminator
<1> QED
  BY <1>1, <1>4, <1>5 DEF Ended

\* What the lists are about does.
LEMMA KnownEnded ==
  ASSUME NEW F \in ModFile \cup SdcrFile, NEW j \in 1 .. Len(F), F[j].class \in Known
  PROVE  Ended(F[j])
<1>1. IsOn(F[j], "name")
  BY FileRows DEF WellFormed, Known
<1>2. F[j].rows # <<>>
  <2>1. DOMAIN F[j].rows # {}
    BY <1>1 DEF IsOn
  <2> QED
    BY <2>1
<1>3. \E w \in {";", "}"} : OnRow(F[j], Len(F[j].rows), w)
  BY FileRows DEF WellFormed, Known
<1>4. {";", "}"} \subseteq TerminatorWords
  BY DEF TerminatorWords
<1> QED
  BY <1>2, <1>3, <1>4 DEF Ended

LEMMA KeepsIntact ==
  ASSUME NEW F \in ModFile \cup SdcrFile, F = file, NEW i, NEW j \in 1 .. Len(F), j # i,
         F[j].class \in Known, NEW L, NEW M, Keeps(F, L, M, i), Intact(F, L, j)
  PROVE  Intact(F, M, j)
<1>1. EndsIn(F, L, j)
  BY KnownEnded, IntactEnds
<1>2. \A t \in Block(F, j) : M[t] = L[t]
  BY <1>1 DEF Keeps
<1> QED
  BY <1>2, BlockRows DEF Intact

LEMMA RowWritten ==
  ASSUME NEW F \in ModFile \cup SdcrFile, NEW i \in 1 .. Len(F),
         NEW L \in [1 .. Total(F) -> Line], NEW t \in Block(F, i), NEW l \in Line
  PROVE  Keeps(F, L, [L EXCEPT ![t] = l], i)
<1> DEFINE M == [L EXCEPT ![t] = l]
<1>1. M \in [1 .. Total(F) -> Line]
  OBVIOUS
<1>2. ASSUME NEW j \in 1 .. Len(F), j # i, NEW u \in Block(F, j) PROVE M[u] = L[u]
  <2>1. u \in 1 .. Total(F) /\ u # t
    BY <1>2, BlocksDisjoint
  <2> QED
    BY <2>1
<1> QED
  BY <1>1, <1>2 DEF Keeps

LEMMA KeepsBoth ==
  ASSUME NEW F, NEW L, NEW M, NEW N, NEW i, Keeps(F, L, M, i), Keeps(F, M, N, i)
  PROVE  Keeps(F, L, N, i)
<1>1. ASSUME NEW j \in 1 .. Len(F), j # i, EndsIn(F, L, j)
      PROVE  \A t \in Block(F, j) : N[t] = L[t]
  <2>1. \A t \in Block(F, j) : M[t] = L[t]
    BY <1>1 DEF Keeps
  <2>2. EndsIn(F, M, j)
    BY <1>1, <2>1 DEF EndsIn
  <2> QED
    BY <1>1, <2>1, <2>2 DEF Keeps
<1> QED
  BY <1>1 DEF Keeps

\* An outsider's definition is cut, joined with the rows above that belong to it,
\* and emptied below.
LEMMA OutsiderKeeps ==
  ASSUME NEW F \in ModFile \cup SdcrFile, NEW i \in 1 .. Len(F), F[i].class \in FnClass,
         NEW L \in [1 .. Total(F) -> Line], Intact(F, L, i), NEW m, m = Collected(F)[i]
  PROVE  LET cut == [L EXCEPT ![m.lbrace] = SubSeq(@, 1, m.lcol - 1) \o <<<<i, ";">>>>]
         IN  Keeps(F, L, Emptied(MergeUpLines(cut, m.lbrace), m.lbrace + 1 .. m.rbrace), i)
<1>0. PICK c : c = m.lcol
  OBVIOUS
<1>1. PICK r \in Nat, e \in Nat : r = m.lbrace /\ e = m.rbrace
  <2>1. m.lbrace \in Block(F, i) /\ m.rbrace \in Block(F, i)
    BY CollectedRows DEF On
  <2>2. Block(F, i) \subseteq Nat
    BY BlocksApart DEF Block
  <2> QED
    BY <2>1, <2>2
<1>2. r \in Block(F, i) /\ e \in Block(F, i) /\ On(F, i, r, "{")
  BY <1>1, CollectedRows DEF On
<1>3. PICK n \in Nat, a \in Nat, b \in Nat :
        /\ n = Total(F) /\ a = RowsBefore(F)[i - 1] /\ b = RowsBefore(F)[i] /\ b <= n
  BY BlocksApart
<1>4. r \in 1 .. n /\ a < r /\ r <= b /\ e <= b
  <2>1. r \in a + 1 .. b /\ e \in a + 1 .. b
    BY <1>2, <1>3 DEF Block
  <2>2. a + 1 <= r /\ r <= b /\ e <= b /\ b <= n
    BY <1>3, <2>1
  <2> QED
    BY <2>2
<1>5. PICK l \in Line : l = SubSeq(L[r], 1, c - 1) \o <<<<i, ";">>>>
  <2>1. L[r] = RowOf(F, i, r - a) /\ c \in DOMAIN F[i].rows[r - a]
    BY <1>0, <1>1, <1>2, <1>3, IntactStands, CollectedRows
  <2>2. PICK x \in Seq(Text) : x = L[r] /\ c \in DOMAIN x
    BY <1>3, <1>4, <2>1 DEF RowOf, Tokens, Line
  <2>3. PICK y \in Seq(Text) : y = SubSeq(x, 1, c - 1)
    <3>1. c \in 1 .. Len(x) /\ Len(x) \in Nat
      BY <2>2
    <3>2. PICK A : A = Text
      OBVIOUS
    <3>3. x \in Seq(A)
      BY <3>2
    <3>4. SubSeq(x, 1, c - 1) \in Seq(A)
      BY <3>1, <3>3
    <3> QED
      BY <3>2, <3>4
  <2>4. PICK tk \in Text : tk = <<i, ";">>
    <3>1. i \in Nat
      BY FileRows
    <3> QED
      BY <3>1, Texts
  <2>5. y \o <<tk>> \in Seq(Text)
    OBVIOUS
  <2> QED
    BY <2>2, <2>3, <2>4, <2>5 DEF Line
<1>6. PICK cut \in [1 .. n -> Line] : cut = [L EXCEPT ![r] = l]
  BY <1>3
<1>7. PICK M \in [1 .. n -> Line] :
        /\ M = MergeUpLines(cut, r)
        /\ \A t \in 1 .. n :
             t > r \/ (\E x \in t .. r - 1 : Terminator(cut[x])) => M[t] = cut[t]
  BY <1>4, MergeUpKeeps
<1>8. PICK E \in [1 .. n -> Line] :
        /\ E = Emptied(M, r + 1 .. e)
        /\ \A t \in 1 .. n : t \notin r + 1 .. e => E[t] = M[t]
  <2>1. <<>> \in Line
    BY DEF Line
  <2> DEFINE X == [t \in 1 .. n |-> IF t \in r + 1 .. e THEN <<>> ELSE M[t]]
  <2>2. X \in [1 .. n -> Line]
    BY <2>1
  <2>3. X = Emptied(M, r + 1 .. e)
    BY DEF Emptied
  <2>4. \A t \in 1 .. n : t \notin r + 1 .. e => X[t] = M[t]
    OBVIOUS
  <2> HIDE DEF X
  <2> QED
    BY <2>2, <2>3, <2>4
<1>9. ASSUME NEW j \in 1 .. Len(F), j # i, EndsIn(F, L, j), NEW t \in Block(F, j)
      PROVE  E[t] = L[t]
  <2>1. PICK q \in Nat : q = RowsBefore(F)[j]
    BY BlocksApart
  <2>2. Terminator(L[q]) /\ q \in Block(F, j)
    BY <1>9, <2>1 DEF EndsIn
  <2>3. /\ t \in 1 .. n /\ t \notin Block(F, i)
        /\ (j < i => t <= q /\ q <= a) /\ (j > i => t > b)
    <3>1. PICK u \in 1 .. Len(F[j].rows) : t = RowsBefore(F)[j - 1] + u
      BY BlockRows
    <3>2. /\ t \in 1 .. Total(F) /\ t \notin Block(F, i)
          /\ j < i => t <= RowsBefore(F)[j] /\ RowsBefore(F)[j] <= RowsBefore(F)[i - 1]
          /\ j > i => t > RowsBefore(F)[i]
      BY <1>9, <3>1, OtherBlock
    <3> QED
      BY <1>3, <2>1, <3>2
  <2>4. CASE j > i
    <3>1. t > r /\ t \notin r + 1 .. e /\ t # r
      BY <1>4, <2>3, <2>4
    <3> QED
      BY <1>6, <1>7, <1>8, <2>3, <3>1
  <2>5. CASE j < i
    <3>1. t <= q /\ q <= a /\ q < r /\ t # r /\ q # r /\ t \notin r + 1 .. e /\ q \in t .. r - 1
      <4>1. t <= q /\ q <= a /\ a < r /\ t \in Int /\ q \in Int
        BY <1>4, <2>3, <2>5
      <4> QED
        BY <4>1
    <3>6. q \in 1 .. n
      <4>1. q \in Nat /\ r \in Nat /\ n \in Nat /\ t \in Nat
        BY <1>3, <1>4, <2>1, <2>3
      <4>2. q < r /\ r <= n /\ 1 <= t /\ t <= q
        BY <1>4, <2>3, <3>1
      <4> QED
        BY <4>1, <4>2
    <3>7. cut[q] = L[q] /\ cut[t] = L[t]
      BY <1>3, <1>6, <2>3, <3>1, <3>6
    <3>8. M[t] = cut[t]
      <4>1. Terminator(cut[q])
        BY <2>2, <3>7
      <4> QED
        BY <1>7, <2>3, <3>1, <4>1
    <3> QED
      BY <1>8, <2>3, <3>1, <3>7, <3>8
  <2>6. j < i \/ j > i
    <3>1. i \in Int /\ j \in Int
      BY FileRows
    <3> QED
      BY <1>9, <3>1
  <2> QED
    BY <2>4, <2>5, <2>6
<1>10. Keeps(F, L, E, i)
  BY <1>3, <1>9 DEF Keeps
<1>11. cut = [L EXCEPT ![r] = SubSeq(@, 1, c - 1) \o <<<<i, ";">>>>]
  BY <1>3, <1>4, <1>5, <1>6
<1> QED
  BY <1>0, <1>1, <1>7, <1>8, <1>10, <1>11

-------------------------------------------------------------------------------
(***************************************************************************)
(* The declarations of variables are merged downwards.                     *)
(***************************************************************************)
\* Where a variable's declaration begins there is its name or its type, and it
\* ends inside its own rows, below those that are emptied first.
DeclKind == {"name", "struct {"}
Semicolon == {";"}
PerCpuKind == {"DEFINE_PER_CPU", "static", "DECLARE_PER_CPU"}

Mergeable(F, L, i) ==
  LET m == Collected(F)[i]
  IN  /\ \E kind \in DeclKind : StandsIn(L, kind, i, m.start)
      /\ \E t \in m.start .. RowsBefore(F)[i] :
           t \notin m.start + 1 .. m.name - 1 /\ Has(L[t], Semicolon)

\* Only rows of item i differ.
Within(F, L, M, i) ==
  /\ M \in [1 .. Total(F) -> Line]
  /\ \A t \in 1 .. Total(F) : t \notin Block(F, i) => M[t] = L[t]

\* Item i begins on row s of n, has its name on row x and ends on row b.
VarAt(F, i, s, x, b, n) ==
  /\ s = Collected(F)[i].start /\ x = Collected(F)[i].name
  /\ b = RowsBefore(F)[i] /\ n = Total(F)
  /\ 1 <= s /\ s <= b /\ x <= b /\ b <= n
  /\ s .. b \subseteq Block(F, i) /\ s .. b \subseteq 1 .. n

LEMMA VarRows ==
  ASSUME NEW F \in ModFile \cup SdcrFile, NEW i \in 1 .. Len(F), F[i].class \in VarClass
  PROVE  \E s, x, b, n \in Nat : VarAt(F, i, s, x, b, n)
<1>0. PICK m : m = Collected(F)[i]
  OBVIOUS
<1>1. PICK a \in Nat, b \in Nat, n \in Nat :
        a = RowsBefore(F)[i - 1] /\ b = RowsBefore(F)[i] /\ n = Total(F) /\ b <= n
  BY BlocksApart
<1>2. m.start \in Block(F, i) /\ m.name \in Block(F, i)
  BY <1>0, CollectedRows DEF On, Known
<1>3. Block(F, i) = a + 1 .. b
  BY <1>1 DEF Block
<1>4. PICK s \in a + 1 .. b, x \in a + 1 .. b : s = m.start /\ x = m.name
  BY <1>2, <1>3
<1>5. s \in Nat /\ x \in Nat /\ 1 <= s /\ s <= b /\ x <= b
  OBVIOUS
<1>6. s .. b \subseteq a + 1 .. b /\ s .. b \subseteq 1 .. n
  BY <1>1, <1>5
<1> QED
  BY <1>0, <1>1, <1>3, <1>4, <1>5, <1>6 DEF VarAt

LEMMA IntactMergeable ==
  ASSUME NEW F \in ModFile \cup SdcrFile, NEW i \in 1 .. Len(F), F[i].class \in VarClass,
         NEW L \in [1 .. Total(F) -> Line], Intact(F, L, i)
  PROVE  Mergeable(F, L, i)
<1>1. PICK m : m = Collected(F)[i]
  OBVIOUS
<1>0. PICK s, x, b, n \in Nat : VarAt(F, i, s, x, b, n)
  BY VarRows
<1>2. /\ s = m.start /\ x = m.name /\ b = RowsBefore(F)[i] /\ n = Total(F)
      /\ 1 <= s /\ s <= b /\ x <= b /\ b <= n
      /\ s .. b \subseteq Block(F, i) /\ s .. b \subseteq 1 .. n
  BY <1>0, <1>1 DEF VarAt
<1>3. \E kind \in DeclKind : StandsIn(L, kind, i, s)
  BY <1>1, <1>2, CollectedRows, IntactStands DEF DeclKind
<1>4. b \in s .. b /\ b \notin s + 1 .. x - 1
  BY <1>2
<1>5. Has(L[b], Semicolon)
  <2>1. PICK N \in Nat, a \in Nat :
          N = Len(F[i].rows) /\ a = RowsBefore(F)[i - 1] /\ b = a + N /\ b - a = N
    <3>1. PICK N \in Nat, a \in Nat : N = Len(F[i].rows) /\ a = RowsBefore(F)[i - 1]
      BY BlocksApart, FileRows
    <3>2. b = a + N
      BY <1>2, <3>1, BlocksApart
    <3>3. b - a = N
      BY <3>2
    <3> QED
      BY <3>1, <3>2, <3>3
  <2>2. OnRow(F[i], N, ";")
    BY <2>1, FileRows DEF WellFormed
  <2>3. b \in Block(F, i)
    BY <1>2, <1>4
  <2>4. On(F, i, b, ";")
    BY <2>1, <2>2, <2>3 DEF On
  <2>5. StandsIn(L, ";", i, b)
    BY <2>4, IntactStands
  <2>6. PICK k \in 1 .. Len(L[b]) : L[b][k] = <<i, ";">>
    BY <2>5 DEF StandsIn, Contains
  <2>7. L[b] \in Seq(Text)
    BY <1>2, <1>4 DEF Line
  <2>8. k \in DOMAIN L[b] /\ L[b][k][2] \in {";"}
    <3>1. k \in DOMAIN L[b]
      BY <2>7
    <3>2. <<i, ";">>[2] \in {";"}
      OBVIOUS
    <3> QED
      BY <2>6, <3>1, <3>2, Zenon
  <2> QED
    BY <2>8 DEF Has, Semicolon
<1> QED
  BY <1>1, <1>2, <1>3, <1>4, <1>5 DEF Mergeable

\* Work on one variable does not touch the declaration of another.
LEMMA WithinKeeps ==
  ASSUME NEW F \in ModFile \cup SdcrFile, NEW i \in 1 .. Len(F), NEW j \in 1 .. Len(F), j # i,
         F[j].class \in VarClass, NEW L \in [1 .. Total(F) -> Line], NEW M, Within(F, L, M, i),
         Mergeable(F, L, j)
  PROVE  Mergeable(F, M, j)
<1>1. PICK m : m = Collected(F)[j]
  OBVIOUS
<1>0. PICK s, x, b, n \in Nat : VarAt(F, j, s, x, b, n)
  BY VarRows
<1>2. /\ s = m.start /\ x = m.name /\ b = RowsBefore(F)[j] /\ n = Total(F)
      /\ 1 <= s /\ s <= b /\ x <= b /\ b <= n
      /\ s .. b \subseteq Block(F, j) /\ s .. b \subseteq 1 .. n
  BY <1>0, <1>1 DEF VarAt
<1>3. Block(F, j) \cap Block(F, i) = {}
  <2>1. ASSUME NEW t \in Block(F, j) PROVE t \notin Block(F, i)
    <3>1. PICK N \in Nat, p \in Nat :
            /\ N = Len(F[j].rows) /\ p = RowsBefore(F)[j - 1]
            /\ RowsBefore(F)[j] = p + N
      BY BlocksApart, FileRows
    <3>2. PICK r \in 1 .. N : t = p + r
      <4>1. t \in p + 1 .. p + N
        BY <3>1 DEF Block
      <4>2. t - p \in 1 .. N /\ t = p + (t - p)
        BY <4>1
      <4> QED
        BY <4>2
    <3> QED
      BY <3>1, <3>2, OtherBlock
  <2> QED
    BY <2>1
<1>4. \A t \in s .. b : t \in 1 .. n /\ M[t] = L[t]
  BY <1>2, <1>3 DEF Within
<1>5. s \in s .. b
  BY <1>2
<1>6. DOMAIN M = 1 .. n /\ DOMAIN L = 1 .. n
  BY <1>2 DEF Within
<1>7. \A kind : StandsIn(L, kind, j, s) => StandsIn(M, kind, j, s)
  BY <1>4, <1>5, <1>6 DEF StandsIn
<1> QED
  BY <1>1, <1>2, <1>4, <1>7 DEF Mergeable

\* The declaration on the rows from s to z is on row s of M, with its semicolon.
MergedRows(n, L, M, s, z) ==
  /\ M \in [1 .. n -> Line]
  /\ \A t \in 1 .. n : t \notin s .. z => M[t] = L[t]
  /\ \A k \in 1 .. Len(L[s]) : \E j \in 1 .. Len(M[s]) : M[s][j] = L[s][k]
  /\ Has(M[s], Semicolon)

LEMMA MergeDownHolds ==
  ASSUME NEW n \in Nat, NEW L \in [1 .. n -> Line], NEW s \in 1 .. n, NEW z \in s .. n,
         Has(L[z], Semicolon)
  PROVE  MergedRows(n, L, MergeDownVar(L, s), s, z)
<1>1. DOMAIN L = 1 .. n /\ Len(L) = n /\ s .. n \subseteq Nat /\ s .. n \subseteq 1 .. n
  OBVIOUS
<1>2. PICK S : S = {e \in s .. n : Has(L[e], Semicolon)} /\ S = MergeDownVarEnds(L, s)
  BY <1>1 DEF MergeDownVarEnds, Semicolon
<1>3. PICK e \in s .. z : e \in S /\ Min2(S) = e
  <2>1. S \subseteq Nat /\ z \in S
    BY <1>1, <1>2
  <2>2. Min2(S) \in S /\ Min2(S) <= z
    BY <2>1, LeastOf
  <2>3. \A e \in s .. n : e <= z => e \in s .. z
    OBVIOUS
  <2> QED
    BY <1>2, <2>2, <2>3
<1>4. e \in s .. n /\ e \in s .. e /\ s \in s .. e /\ e \in 1 .. n
      /\ \A t \in s .. e : t \in s .. z /\ s \in s .. z
  OBVIOUS
<1>5. PICK M : M = MergeDownVar(L, s) /\ M = Join(L, s, e, s)
  BY <1>2, <1>3 DEF MergeDownVar
<1>6. JoinedRows(n, L, M, s, e, s)
  BY <1>4, <1>5, JoinHolds
<1>7. /\ M \in [1 .. n -> Line]
      /\ \A t \in 1 .. n : t \notin s .. e /\ t # s => M[t] = L[t]
      /\ \A t \in s .. e : \A k \in 1 .. Len(L[t]) : \E j \in 1 .. Len(M[s]) : M[s][j] = L[t][k]
  BY <1>6, Zenon DEF JoinedRows
<1>8. DOMAIN L[e] = 1 .. Len(L[e]) /\ DOMAIN M[s] = 1 .. Len(M[s])
  <2>1. L[e] \in Line /\ M[s] \in Line
    BY <1>4, <1>7
  <2>2. \A l \in Line : DOMAIN l = 1 .. Len(l)
    BY DEF Line
  <2> QED
    BY <2>1, <2>2
<1>9. Has(M[s], Semicolon)
  <2>1. PICK k \in DOMAIN L[e] : L[e][k][2] \in Semicolon
    BY <1>2, <1>3 DEF Has
  <2>2. PICK j \in 1 .. Len(M[s]) : M[s][j] = L[e][k]
    BY <1>4, <1>7, <1>8
  <2> QED
    BY <1>8, <2>1, <2>2 DEF Has
<1>10. \A t \in 1 .. n : t \notin s .. z => M[t] = L[t]
  BY <1>4, <1>7
<1>11. \A k \in 1 .. Len(L[s]) : \E j \in 1 .. Len(M[s]) : M[s][j] = L[s][k]
  BY <1>4, <1>7
<1> QED
  BY <1>5, <1>7, <1>9, <1>10, <1>11, Zenon DEF MergedRows

LEMMA EmptiedRows ==
  ASSUME NEW n \in Nat, NEW L \in [1 .. n -> Line], NEW R
  PROVE  /\ Emptied(L, R) \in [1 .. n -> Line]
         /\ \A t \in 1 .. n : t \notin R => Emptied(L, R)[t] = L[t]
<1>1. Emptied(L, R) = [t \in 1 .. n |-> IF t \in R THEN <<>> ELSE L[t]]
  BY DEF Emptied
<1>2. <<>> \in Line
  BY DEF Line
<1> QED
  BY <1>1, <1>2

LEMMA MergeWithin ==
  ASSUME NEW F \in ModFile \cup SdcrFile, NEW i \in 1 .. Len(F), F[i].class \in VarClass,
         NEW L \in [1 .. Total(F) -> Line], Mergeable(F, L, i),
         NEW m, m = Collected(F)[i],
         NEW M, M = MergeDownVar(Emptied(L, m.start + 1 .. m.name - 1), m.start)
  PROVE  Within(F, L, M, i) /\ Mergeable(F, M, i)
<1>1. PICK s, x, b, n \in Nat : VarAt(F, i, s, x, b, n)
  BY VarRows
<1>2. /\ s = m.start /\ x = m.name /\ b = RowsBefore(F)[i] /\ n = Total(F)
      /\ 1 <= s /\ s <= b /\ x <= b /\ b <= n
      /\ s .. b \subseteq Block(F, i) /\ s .. b \subseteq 1 .. n
  BY <1>1 DEF VarAt
<1>3. /\ s \in 1 .. n /\ s \in s .. b /\ s \notin s + 1 .. x - 1
      /\ \A z \in s .. b : z \in s .. n /\ \A t \in s .. z : t \in s .. b
      /\ \A t \in 1 .. n : t \in s + 1 .. x - 1 => t \in s .. b
  <2>1. 1 <= s /\ s <= b /\ x <= b /\ b <= n
    BY <1>2
  <2>2. s \in 1 .. n /\ s \in s .. b /\ s \notin s + 1 .. x - 1
    BY <2>1
  <2>3. \A z \in s .. b : z \in s .. n /\ \A t \in s .. z : t \in s .. b
    BY <2>1
  <2>4. \A t \in 1 .. n : t \in s + 1 .. x - 1 => t \in s .. b
    BY <2>1
  <2> QED
    BY <2>2, <2>3, <2>4, Zenon
<1>4. PICK O \in [1 .. n -> Line] :
        /\ O = Emptied(L, s + 1 .. x - 1)
        /\ \A t \in 1 .. n : t \notin s + 1 .. x - 1 => O[t] = L[t]
  <2>1. L \in [1 .. n -> Line]
    BY <1>2
  <2>2. PICK R : R = s + 1 .. x - 1
    OBVIOUS
  <2>3. /\ Emptied(L, R) \in [1 .. n -> Line]
        /\ \A t \in 1 .. n : t \notin R => Emptied(L, R)[t] = L[t]
    BY <2>1, EmptiedRows
  <2> QED
    BY <2>2, <2>3, Zenon
<1>5. PICK z \in s .. b : z \notin s + 1 .. x - 1 /\ Has(L[z], Semicolon)
  BY <1>2 DEF Mergeable
<1>6. z \in s .. n /\ z \in 1 .. n /\ Has(O[z], Semicolon)
  BY <1>2, <1>3, <1>4, <1>5
<1>7. /\ M \in [1 .. n -> Line]
      /\ \A t \in 1 .. n : t \notin s .. z => M[t] = O[t]
      /\ \A k \in 1 .. Len(O[s]) : \E j \in 1 .. Len(M[s]) : M[s][j] = O[s][k]
      /\ Has(M[s], Semicolon)
  <2>1. M = MergeDownVar(O, s)
    BY <1>2, <1>4
  <2>2. MergedRows(n, O, M, s, z)
    BY <1>3, <1>4, <1>6, <2>1, MergeDownHolds
  <2> QED
    BY <2>2, Zenon DEF MergedRows
<1>8. Within(F, L, M, i)
  <2>1. ASSUME NEW t \in 1 .. n, t \notin Block(F, i) PROVE M[t] = L[t]
    <3>1. t \notin s .. b
      BY <1>2, <2>1
    <3>2. t \notin s .. z /\ t \notin s + 1 .. x - 1
      BY <1>3, <3>1
    <3> QED
      BY <1>4, <1>7, <3>2
  <2> QED
    BY <1>2, <1>7, <2>1 DEF Within
<1>9. PICK kind \in DeclKind : StandsIn(L, kind, i, s)
  BY <1>2 DEF Mergeable
<1>10. StandsIn(M, kind, i, s)
  <2>1. PICK k \in 1 .. Len(L[s]) : L[s][k] = <<i, kind>>
    BY <1>9 DEF StandsIn, Contains
  <2>2. O[s] = L[s]
    BY <1>3, <1>4
  <2>3. \E j \in 1 .. Len(M[s]) : M[s][j] = O[s][k]
    BY <1>7, <2>1, <2>2, Zenon
  <2>4. s \in DOMAIN M
    BY <1>3, <1>7
  <2>5. O[s][k] = <<i, kind>>
    BY <2>1, <2>2
  <2> QED
    BY <2>3, <2>4, <2>5 DEF StandsIn, Contains
<1> QED
  BY <1>2, <1>3, <1>7, <1>8, <1>9, <1>10 DEF Mergeable

LEMMA RewrittenHolds ==
  ASSUME NEW l \in Line, NEW old, NEW new, <<old[1], new>> \in Text
  PROVE  /\ Rewritten(l, old, new) \in Line /\ DOMAIN Rewritten(l, old, new) = DOMAIN l
         /\ \A k \in DOMAIN l : l[k] # old => Rewritten(l, old, new)[k] = l[k]
<1>1. DOMAIN l = 1 .. Len(l) /\ Len(l) \in Nat /\ \A k \in 1 .. Len(l) : l[k] \in Text
  BY DEF Line
<1>2. PICK R : R = Rewritten(l, old, new)
  OBVIOUS
<1>3. R = [k \in 1 .. Len(l) |-> IF l[k] = old THEN <<old[1], new>> ELSE l[k]]
  BY <1>1, <1>2 DEF Rewritten
<1>4. R \in Seq(Text)
  <2>1. PICK n \in Nat : n = Len(l)
    BY <1>1
  <2>2. R \in [1 .. n -> Text]
    BY <1>1, <1>3, <2>1
  <2> QED
    BY <2>2
<1> QED
  BY <1>1, <1>2, <1>3, <1>4 DEF Line

LEMMA PerCpuHolds ==
  ASSUME NEW l \in Line, NEW i \in Nat
  PROVE  \E l2 \in Line :
           /\ l2 = DeclarePerCpu(l, i) /\ DOMAIN l2 = DOMAIN l
           /\ \A k \in DOMAIN l : l[k][2] \notin PerCpuKind => l2[k] = l[k]
<1>1. PICK d, st : d = <<i, "DEFINE_PER_CPU">> /\ st = <<i, "static">>
  OBVIOUS
<1>2. d[1] = i /\ st[1] = i /\ d[2] \in PerCpuKind /\ st[2] \in PerCpuKind
  BY <1>1 DEF PerCpuKind
<1>3. <<d[1], "DECLARE_PER_CPU">> \in Text /\ <<st[1], "">> \in Text
  BY <1>2, Texts
<1>4. PICK l1 : l1 = Rewritten(l, d, "DECLARE_PER_CPU")
  OBVIOUS
<1>5. l1 \in Line /\ DOMAIN l1 = DOMAIN l /\ \A k \in DOMAIN l : l[k] # d => l1[k] = l[k]
  BY <1>3, <1>4, RewrittenHolds
<1>6. PICK l3 : l3 = Rewritten(l1, st, "")
  OBVIOUS
<1>7. l3 \in Line /\ DOMAIN l3 = DOMAIN l1 /\ \A k \in DOMAIN l1 : l1[k] # st => l3[k] = l1[k]
  BY <1>3, <1>5, <1>6, RewrittenHolds
<1>8. l3 = DeclarePerCpu(l, i)
  BY <1>1, <1>4, <1>6 DEF DeclarePerCpu
<1>9. ASSUME NEW k \in DOMAIN l, l[k][2] \notin PerCpuKind PROVE l3[k] = l[k]
  <2>1. l[k] # d /\ l[k] # st
    BY <1>2, <1>9
  <2> QED
    BY <1>5, <1>7, <2>1
<1> QED
  BY <1>5, <1>7, <1>8, <1>9

\* The row of a per-CPU variable keeps its name and its semicolon.
LEMMA PerCpuWithin ==
  ASSUME NEW F \in ModFile \cup SdcrFile, NEW i \in 1 .. Len(F), F[i].class \in VarClass,
         NEW L \in [1 .. Total(F) -> Line], Mergeable(F, L, i),
         NEW s, s = Collected(F)[i].start,
         NEW M, M = [L EXCEPT ![s] = DeclarePerCpu(@, i)]
  PROVE  Within(F, L, M, i) /\ Mergeable(F, M, i)
<1>1. PICK x, b, n \in Nat : s \in Nat /\ VarAt(F, i, s, x, b, n)
  BY VarRows DEF VarAt
<1>2. /\ x = Collected(F)[i].name /\ b = RowsBefore(F)[i] /\ n = Total(F)
      /\ 1 <= s /\ s <= b /\ x <= b /\ b <= n
      /\ s .. b \subseteq Block(F, i) /\ s .. b \subseteq 1 .. n
  BY <1>1 DEF VarAt
<1>3. s \in 1 .. n /\ s \in Block(F, i) /\ i \in Nat
  <2>1. s \in s .. b
    BY <1>1, <1>2
  <2> QED
    BY <1>2, <2>1, FileRows
<1>4. PICK l \in Line : l = L[s]
  BY <1>2, <1>3
<1>5. PICK l2 \in Line : /\ l2 = DeclarePerCpu(l, i) /\ DOMAIN l2 = DOMAIN l
                          /\ \A k \in DOMAIN l : l[k][2] \notin PerCpuKind => l2[k] = l[k]
  BY <1>3, PerCpuHolds
<1>6. M = [L EXCEPT ![s] = l2] /\ M \in [1 .. n -> Line]
  BY <1>2, <1>3, <1>4, <1>5
<1>7. M[s] = l2 /\ \A t \in 1 .. n : t # s => M[t] = L[t]
  BY <1>2, <1>3, <1>6
<1>8. Within(F, L, M, i)
  BY <1>2, <1>3, <1>6, <1>7 DEF Within
<1>9. DOMAIN l = 1 .. Len(l) /\ DOMAIN l2 = 1 .. Len(l2)
  BY DEF Line
<1>10. DeclKind \cap PerCpuKind = {} /\ Semicolon \cap PerCpuKind = {}
  BY DEF DeclKind, PerCpuKind, Semicolon
<1>11. PICK kind \in DeclKind : StandsIn(L, kind, i, s)
  BY DEF Mergeable
<1>12. StandsIn(M, kind, i, s)
  <2>1. PICK k \in 1 .. Len(l) : l[k] = <<i, kind>>
    BY <1>4, <1>11 DEF StandsIn, Contains
  <2>2. l[k][2] = kind
    <3>1. <<i, kind>>[2] = kind
      OBVIOUS
    <3> QED
      BY <2>1, <3>1, Zenon
  <2>3. l2[k] = <<i, kind>> /\ k \in 1 .. Len(l2)
    BY <1>5, <1>9, <1>10, <2>1, <2>2
  <2>4. s \in DOMAIN M
    BY <1>3, <1>6
  <2> QED
    BY <1>7, <2>3, <2>4 DEF StandsIn, Contains
<1>13. PICK t \in s .. b : t \notin s + 1 .. x - 1 /\ Has(L[t], Semicolon)
  BY <1>2 DEF Mergeable
<1>14. Has(M[t], Semicolon)
  <2>1. CASE t = s
    <3>1. PICK k \in DOMAIN l : l[k][2] \in Semicolon
      BY <1>4, <1>13, <2>1 DEF Has
    <3>2. k \in DOMAIN l2 /\ l2[k][2] \in Semicolon
      BY <1>5, <1>10, <3>1
    <3> QED
      BY <1>7, <2>1, <3>2 DEF Has
  <2>2. CASE t # s
    <3>1. t \in 1 .. n
      BY <1>2, <1>13
    <3> QED
      BY <1>7, <1>13, <2>2, <3>1
  <2> QED
    BY <2>1, <2>2
<1> QED
  BY <1>2, <1>8, <1>11, <1>12, <1>13, <1>14 DEF Mergeable

-------------------------------------------------------------------------------
(***************************************************************************)
(* The inductive invariant: what the lists ahead are about is still where  *)
(* it was in the file.  An item is untouched until its list is worked on;  *)
(* a static variable keeps its name on its row, and a shared one the       *)
(* beginning and the end of its declaration, as long as rows are merged.   *)
(***************************************************************************)
FnPlaces == {"fn", "callback", "interface"}
VarPlaces == {"static_var", "merge_var"}
LatePlaces == {"delete_var", "declare_var", "fix_up", "done"}

\* The items of the list at a place, and of the lists after it.
Now(p) ==
  IF p = "fn" THEN {"outsider", "outsider_opt"}
  ELSE IF p = "callback" THEN {"callback"} ELSE {"interface", "syscall", "sidecar"}
Later(p) ==
  VarClass \cup (IF p = "fn" THEN Now("callback") \cup Now("interface")
                 ELSE IF p = "callback" THEN Now("interface") ELSE {})

FreshInv ==
  /\ file \in ModFile \cup SdcrFile /\ meta = Collected(file)
  /\ place \in FnPlaces \cup VarPlaces \cup LatePlaces
  /\ place \in FnPlaces \cup VarPlaces => lines \in [1 .. Total(file) -> Line]
  /\ place \in FnPlaces =>
       /\ todo \subseteq OfClass(Now(place))
       /\ \A i \in todo \cup OfClass(Later(place)) : Intact(file, lines, i)
  /\ place = "static_var" =>
       /\ todo \subseteq StaticVarList
       /\ \A i \in OfClass(SharedClass) : Intact(file, lines, i)
       /\ \A v \in StaticVarList : StandsIn(lines, "name", v[1], NameRow(v[1]))
  /\ place = "merge_var" =>
       /\ todo \subseteq SharedVarList
       /\ \A v \in SharedVarList : Mergeable(file, lines, v[1])

LEMMA PlacesApart ==
  /\ FnPlaces \cap VarPlaces = {} /\ FnPlaces \cap LatePlaces = {}
  /\ VarPlaces \cap LatePlaces = {}
  /\ \A p \in FnPlaces : Now(p) \subseteq FnClass /\ Later(p) \subseteq Known
                           /\ Now(p) \cap Later(p) = {} /\ VarClass \subseteq Later(p)
  /\ Now("callback") \cup Later("callback") \subseteq Later("fn")
  /\ Now("interface") \cup Later("interface") \subseteq Later("callback")
  /\ "fn" \in FnPlaces /\ "callback" \in FnPlaces /\ "interface" \in FnPlaces
<1>1. /\ FnPlaces \cap VarPlaces = {} /\ FnPlaces \cap LatePlaces = {}
      /\ VarPlaces \cap LatePlaces = {}
  BY DEF FnPlaces, VarPlaces, LatePlaces
<1>2. FnClass \cap VarClass = {} /\ FnClass \subseteq Known /\ VarClass \subseteq Known
  BY DEF FnClass, VarClass, Known
<1>3. /\ Now("fn") \subseteq FnClass /\ Now("callback") \subseteq FnClass
      /\ Now("interface") \subseteq FnClass
      /\ Now("fn") \cap Now("callback") = {} /\ Now("fn") \cap Now("interface") = {}
      /\ Now("callback") \cap Now("interface") = {}
  BY DEF Now, FnClass
<1>4. /\ Later("fn") = VarClass \cup Now("callback") \cup Now("interface")
      /\ Later("callback") = VarClass \cup Now("interface")
      /\ Later("interface") = VarClass
  BY DEF Later
<1>5. /\ \A p \in FnPlaces : p = "fn" \/ p = "callback" \/ p = "interface"
      /\ "fn" \in FnPlaces /\ "callback" \in FnPlaces /\ "interface" \in FnPlaces
  BY DEF FnPlaces
<1>6. ASSUME NEW p \in FnPlaces
      PROVE  Now(p) \subseteq FnClass /\ Later(p) \subseteq Known
               /\ Now(p) \cap Later(p) = {} /\ VarClass \subseteq Later(p)
  <2>1. CASE p = "fn"
    BY <1>2, <1>3, <1>4, <2>1
  <2>2. CASE p = "callback"
    BY <1>2, <1>3, <1>4, <2>2
  <2>3. CASE p = "interface"
    BY <1>2, <1>3, <1>4, <2>3
  <2> QED
    BY <1>5, <2>1, <2>2, <2>3
<1> QED
  BY <1>1, <1>4, <1>5, <1>6

LEMMA SharedVars ==
  ASSUME FreshInv
  PROVE  /\ Items = 1 .. Len(file) /\ SharedClass \subseteq VarClass
         /\ \A i \in OfClass(SharedClass) : i \in Items /\ file[i].class \in VarClass
         /\ \A v \in SharedVarList : v[1] \in OfClass(SharedClass)
         /\ \A v \in StaticVarList : /\ v[1] \in Items /\ file[v[1]].class \in VarClass
                                      /\ v[1] \notin OfClass(SharedClass)
<1>1. Items = 1 .. Len(file)
  <2>1. PICK F \in ModFile \cup SdcrFile : F = file
    BY DEF FreshInv
  <2> QED
    BY <2>1, FileRows DEF Items
<1>2. SharedClass \subseteq VarClass
  BY DEF SharedClass, VarClass
<1>3. \A C : OfClass(C) \subseteq Items /\ \A i \in OfClass(C) : file[i].class \in C
  BY DEF OfClass
<1>4. \A C : \A v \in Declared(C) : v[1] \in OfClass(C)
  BY DEF Declared
<1>5. \A v \in StaticVarList : file[v[1]].class \in VarClass /\ file[v[1]].class \notin SharedClass
  <2>1. ASSUME NEW v \in StaticVarList
        PROVE  file[v[1]].class \in VarClass /\ file[v[1]].class \notin SharedClass
    <3>1. CASE in_sdcr_srcs
      <4>1. v[1] \in OfClass({})
        BY <1>4, <3>1 DEF StaticVarList
      <4> QED
        BY <4>1 DEF OfClass
    <3>2. CASE ~in_sdcr_srcs
      <4>1. v[1] \in OfClass({"static"})
        BY <1>4, <3>2 DEF StaticVarList
      <4>2. file[v[1]].class = "static"
        BY <4>1 DEF OfClass
      <4> QED
        BY <3>2, <4>2 DEF SharedClass, VarClass
    <3> QED
      BY <3>1, <3>2
  <2> QED
    BY <2>1
<1>6. \A v \in StaticVarList : v[1] \in Items
  BY <1>3, <1>4 DEF StaticVarList
<1>7. \A v \in SharedVarList : v[1] \in OfClass(SharedClass)
  BY <1>4 DEF SharedVarList
<1> QED
  BY <1>1, <1>2, <1>3, <1>5, <1>6, <1>7

LEMMA FreshPositions ==
  ASSUME FreshInv
  PROVE  PositionsFresh
<1>1. PICK F \in ModFile \cup SdcrFile : F = file
  BY DEF FreshInv
<1>2. PICK L, m : L = lines /\ m = meta
  OBVIOUS
<1>3. m = Collected(F) /\ Items = 1 .. Len(F)
  BY <1>1, <1>2, SharedVars DEF FreshInv
<1>4. ASSUME place \in FnPlaces, NEW i \in todo
      PROVE  /\ StandsIn(L, "{", i, m[i].lbrace) /\ StandsIn(L, "}", i, m[i].rbrace)
             /\ StandsIn(L, "name", i, m[i].name)
             /\ m[i].lcol \in DOMAIN L[m[i].lbrace]
             /\ L[m[i].lbrace][m[i].lcol] = <<i, "{">>
  <2>1. i \in 1 .. Len(F) /\ F[i].class \in FnClass /\ F[i].class \in Known
    BY <1>1, <1>3, <1>4, PlacesApart DEF FreshInv, OfClass, Known
  <2>2. L \in [1 .. Total(F) -> Line] /\ Intact(F, L, i)
    BY <1>1, <1>2, <1>4 DEF FreshInv
  <2>3. /\ On(F, i, m[i].name, "name") /\ On(F, i, m[i].lbrace, "{")
        /\ On(F, i, m[i].rbrace, "}")
        /\ m[i].lcol \in DOMAIN F[i].rows[m[i].lbrace - RowsBefore(F)[i - 1]]
        /\ F[i].rows[m[i].lbrace - RowsBefore(F)[i - 1]][m[i].lcol] = "{"
    BY <1>3, <2>1, CollectedRows
  <2>4. /\ StandsIn(L, "{", i, m[i].lbrace) /\ StandsIn(L, "}", i, m[i].rbrace)
        /\ StandsIn(L, "name", i, m[i].name)
        /\ L[m[i].lbrace] = RowOf(F, i, m[i].lbrace - RowsBefore(F)[i - 1])
    BY <2>1, <2>2, <2>3, IntactStands
  <2> QED
    BY <2>3, <2>4 DEF RowOf, Tokens
<1>5. \A kind, i, t : Stands(kind, i, t) <=> StandsIn(L, kind, i, t)
  BY <1>2 DEF Stands, StandsIn
<1>6. \A p : p \in {"fn", "callback", "interface"} => p \in FnPlaces
  BY DEF FnPlaces
<1>7. ASSUME place = "static_var", NEW v \in todo PROVE Stands("name", v[1], NameRow(v[1]))
  BY <1>2, <1>5, <1>7 DEF FreshInv
<1>8. ASSUME place = "merge_var", NEW v \in todo
      PROVE  \E k \in {"name", "struct {"} : Stands(k, v[1], DeclStartRow(v[1]))
  <2>1. Mergeable(F, L, v[1])
    BY <1>1, <1>2, <1>8 DEF FreshInv
  <2>2. \E k \in {"name", "struct {"} : StandsIn(L, k, v[1], m[v[1]].start)
    BY <1>3, <2>1 DEF Mergeable, DeclKind
  <2> QED
    BY <1>2, <1>5, <2>2 DEF DeclStartRow
<1>9. ASSUME place = "fn", NEW i \in todo
      PROVE  /\ Stands("{", i, LBraceRow(i))
             /\ LBraceCol(i) \in DOMAIN lines[LBraceRow(i)]
             /\ lines[LBraceRow(i)][LBraceCol(i)] = <<i, "{">>
  BY <1>2, <1>4, <1>5, <1>6, <1>9 DEF LBraceRow, LBraceCol
<1>10. ASSUME place \in FnPlaces, NEW i \in todo
       PROVE  Stands("}", i, RBraceRow(i)) /\ Stands("name", i, NameRow(i))
  BY <1>2, <1>4, <1>5, <1>10 DEF RBraceRow, NameRow
<1>11. "callback" \in FnPlaces /\ "interface" \in FnPlaces
  BY PlacesApart
<1>12. place \in {"fn", "callback", "interface"} => \A i \in todo : Stands("}", i, RBraceRow(i))
  BY <1>6, <1>10
<1>13. place \in {"callback", "interface"} => \A i \in todo : Stands("name", i, NameRow(i))
  BY <1>6, <1>10
<1> QED
  BY <1>7, <1>8, <1>9, <1>12, <1>13 DEF PositionsFresh

\* A step of one of the lists of functions.
LEMMA FnStep ==
  ASSUME FreshInv, place \in FnPlaces, NEW i, NEW M, Work(place, i, M),
         Keeps(file, lines, M, i)
  PROVE  FreshInv'
<1>1. PICK F \in ModFile \cup SdcrFile, p \in FnPlaces : F = file /\ p = place
  BY DEF FreshInv
<1>2. /\ file' = F /\ meta' = meta /\ place' = p /\ lines' = M
      /\ todo' = todo \ {i} /\ i \in todo
  BY <1>1 DEF Work
<1>3. Items = 1 .. Len(F)
  BY <1>1, SharedVars
<1>4. \A C : OfClass(C)' = OfClass(C)
  BY <1>1, <1>2 DEF OfClass, Items
<1>5. todo \subseteq OfClass(Now(p))
  BY <1>1 DEF FreshInv
<1>6. ASSUME NEW j \in (todo \ {i}) \cup OfClass(Later(p))
      PROVE  j \in 1 .. Len(F) /\ j # i /\ F[j].class \in Known /\ Intact(F, lines, j)
  <2>1. Intact(F, lines, j)
    BY <1>1, <1>6 DEF FreshInv
  <2>2. F[i].class \in Now(p) /\ FnClass \subseteq Known
    BY <1>1, <1>2, <1>5 DEF OfClass, Known
  <2>3. j \in Items /\ (F[j].class \in Now(p) \/ F[j].class \in Later(p))
    BY <1>1, <1>5, <1>6 DEF OfClass
  <2>4. j # i
    <3>1. CASE j \in todo \ {i}
      BY <3>1
    <3>2. CASE j \in OfClass(Later(p))
      <4>1. F[j].class \in Later(p)
        BY <1>1, <3>2 DEF OfClass
      <4> QED
        BY <2>2, <4>1, PlacesApart
    <3> QED
      BY <1>6, <3>1, <3>2
  <2> QED
    BY <1>3, <2>1, <2>2, <2>3, <2>4, PlacesApart
<1>7. ASSUME NEW j \in (todo \ {i}) \cup OfClass(Later(p)) PROVE Intact(F, M, j)
  <2>1. j \in 1 .. Len(F) /\ j # i /\ F[j].class \in Known /\ Intact(F, lines, j)
    BY <1>6
  <2> QED
    BY <1>1, <2>1, KeepsIntact
<1>8. M \in [1 .. Total(F) -> Line]
  BY <1>1 DEF Keeps
<1>9. p # "static_var" /\ p # "merge_var"
  BY DEF FnPlaces
<1>10. meta' = Collected(F)
  BY <1>1, <1>2 DEF FreshInv
<1>11. todo' \subseteq OfClass(Now(p))'
  BY <1>2, <1>4, <1>5
<1>12. \A j \in todo' \cup OfClass(Later(p))' : Intact(F, M, j)
  BY <1>2, <1>4, <1>7
<1> QED
  BY <1>2, <1>8, <1>9, <1>10, <1>11, <1>12 DEF FreshInv

\* What the steps of the lists of functions write.
LEMMA FnItem ==
  ASSUME FreshInv, place \in FnPlaces, NEW i \in todo
  PROVE  \E F, L :
           /\ F \in ModFile \cup SdcrFile /\ F = file /\ L = lines
           /\ L \in [1 .. Total(F) -> Line] /\ Intact(F, L, i)
           /\ i \in 1 .. Len(F) /\ i \in Nat /\ F[i].class \in FnClass
           /\ LBraceRow(i) = Collected(F)[i].lbrace /\ LBraceCol(i) = Collected(F)[i].lcol
           /\ RBraceRow(i) = Collected(F)[i].rbrace
           /\ NameRow(i) \in Block(F, i) /\ RBraceRow(i) \in Block(F, i)
           /\ Block(F, i) \subseteq 1 .. Total(F)
<1>1. PICK F, L : F \in ModFile \cup SdcrFile /\ F = file /\ L = lines
  BY DEF FreshInv
<1> F \in ModFile \cup SdcrFile
  BY <1>1
<1>2. i \in 1 .. Len(F) /\ F[i].class \in FnClass /\ F[i].class \in Known
  BY <1>1, SharedVars, PlacesApart DEF FreshInv, OfClass, Known
<1>3. L \in [1 .. Total(F) -> Line] /\ Intact(F, L, i) /\ meta = Collected(F)
  BY <1>1 DEF FreshInv
<1>4. Collected(F)[i].name \in Block(F, i) /\ Collected(F)[i].rbrace \in Block(F, i)
  BY <1>2, CollectedRows DEF On
<1>5. Block(F, i) \subseteq 1 .. Total(F)
  <2>1. PICK a \in Nat, b \in Nat, n \in Nat :
          a = RowsBefore(F)[i - 1] /\ b = RowsBefore(F)[i] /\ n = Total(F) /\ b <= n
    BY <1>2, BlocksApart
  <2>2. a + 1 .. b \subseteq 1 .. n
    BY <2>1
  <2> QED
    BY <2>1, <2>2 DEF Block
<1>6. i \in Nat
  <2>1. Len(F) \in Nat
    BY FileRows
  <2> QED
    BY <1>2, <2>1
<1> QED
  BY <1>1, <1>2, <1>3, <1>4, <1>5, <1>6 DEF LBraceRow, LBraceCol, RBraceRow, NameRow

LEMMA Appended ==
  ASSUME NEW l \in Line, NEW w \in Line
  PROVE  l \o w \in Line
BY DEF Line

LEMMA OutsiderStep ==
  ASSUME FreshInv, NEW i \in Items, ExtractOutsider(i)
  PROVE  FreshInv'
<1>1. place = "fn" /\ i \in todo /\ place \in FnPlaces
  BY PlacesApart DEF ExtractOutsider, Work
<1>2. PICK F, L :
        /\ F \in ModFile \cup SdcrFile /\ F = file /\ L = lines
        /\ L \in [1 .. Total(F) -> Line] /\ Intact(F, L, i)
        /\ i \in 1 .. Len(F) /\ F[i].class \in FnClass
        /\ LBraceRow(i) = Collected(F)[i].lbrace /\ LBraceCol(i) = Collected(F)[i].lcol
        /\ RBraceRow(i) = Collected(F)[i].rbrace
  BY <1>1, FnItem
<1> F \in ModFile \cup SdcrFile
  BY <1>2
<1>3. PICK M : M = ToDeclaration(lines, i)
  OBVIOUS
<1>4. Keeps(F, L, M, i)
  BY <1>2, <1>3, OutsiderKeeps DEF ToDeclaration
<1>5. Work("fn", i, M)
  BY <1>3 DEF ExtractOutsider
<1> QED
  BY <1>1, <1>2, <1>4, <1>5, FnStep

\* A mark after the definition of a function, whose name may have been changed.
LEMMA Marked ==
  ASSUME NEW F \in ModFile \cup SdcrFile, NEW i \in 1 .. Len(F),
         NEW L \in [1 .. Total(F) -> Line], NEW x \in Block(F, i), NEW e \in Block(F, i),
         Block(F, i) \subseteq 1 .. Total(F), NEW old, NEW new, <<old[1], new>> \in Text,
         NEW w \in Line
  PROVE  LET renamed == [L EXCEPT ![x] = Rewritten(@, old, new)]
         IN  /\ Keeps(F, L, [L EXCEPT ![e] = @ \o w], i)
             /\ Keeps(F, L, [renamed EXCEPT ![e] = @ \o w], i)
<1>1. PICK n : n = Total(F)
  OBVIOUS
<1>2. x \in 1 .. n /\ e \in 1 .. n
  BY <1>1
<1>3. ASSUME NEW K \in [1 .. n -> Line] PROVE Keeps(F, K, [K EXCEPT ![e] = @ \o w], i)
  <2>1. PICK l \in Line : l = K[e] \o w
    BY <1>2, Appended
  <2> QED
    BY <1>1, <2>1, RowWritten
<1>4. PICK R : R = [L EXCEPT ![x] = Rewritten(@, old, new)]
  OBVIOUS
<1>5. Keeps(F, L, R, i)
  <2>1. PICK l \in Line : l = L[x]
    BY <1>1, <1>2
  <2>2. Rewritten(l, old, new) \in Line
    BY RewrittenHolds
  <2> QED
    BY <1>4, <2>1, <2>2, RowWritten
<1>6. R \in [1 .. n -> Line]
  BY <1>1, <1>5 DEF Keeps
<1>7. Keeps(F, L, [R EXCEPT ![e] = @ \o w], i)
  BY <1>3, <1>5, <1>6, KeepsBoth
<1> QED
  BY <1>1, <1>3, <1>4, <1>7

LEMMA MarkStep ==
  ASSUME FreshInv, NEW i \in Items,
         ExtractOptimised(i) \/ ExtractCallback(i) \/ ExtractInterface(i)
  PROVE  FreshInv'
<1>1. place \in FnPlaces /\ i \in todo
  BY PlacesApart DEF ExtractOptimised, ExtractCallback, ExtractInterface, Work
<1>2. PICK F, L :
        /\ F \in ModFile \cup SdcrFile /\ F = file /\ L = lines
        /\ L \in [1 .. Total(F) -> Line]
        /\ i \in 1 .. Len(F) /\ i \in Nat
        /\ NameRow(i) \in Block(F, i) /\ RBraceRow(i) \in Block(F, i)
        /\ Block(F, i) \subseteq 1 .. Total(F)
  BY <1>1, FnItem
<1> F \in ModFile \cup SdcrFile
  BY <1>2
<1>3. PICK x \in Block(F, i), e \in Block(F, i) : x = NameRow(i) /\ e = RBraceRow(i)
  BY <1>2
<1>4. PICK warn, decl : warn = <<i, "warn">> /\ decl = <<i, "extern decl">>
  OBVIOUS
<1>5. <<warn>> \in Line /\ <<warn, decl>> \in Line
  <2>1. warn \in Text /\ decl \in Text
    BY <1>2, <1>4, Texts
  <2>2. PICK A : A = Text
    OBVIOUS
  <2>3. <<warn>> \in Seq(A) /\ <<warn, decl>> \in Seq(A)
    BY <2>1, <2>2
  <2> QED
    BY <2>2, <2>3 DEF Line
<1>6. PICK old : old = <<i, "name">>
  OBVIOUS
<1>7. old[1] = i /\ <<old[1], "__used __cb_name">> \in Text /\ <<old[1], "__used name">> \in Text
  <2>1. old[1] = i
    BY <1>6
  <2> QED
    BY <1>2, <2>1, Texts
<1>8. CASE ExtractOptimised(i)
  <2>1. PICK M : M = [L EXCEPT ![e] = @ \o <<warn>>]
    OBVIOUS
  <2>2. Work(place, i, M)
    BY <1>2, <1>3, <1>4, <1>8, <2>1 DEF ExtractOptimised, Work
  <2>3. Keeps(F, L, M, i)
    BY <1>2, <1>5, <1>7, <2>1, Marked
  <2> QED
    BY <1>1, <1>2, <2>2, <2>3, FnStep
<1>9. CASE ExtractCallback(i)
  <2>1. PICK M : M = [[L EXCEPT ![x] = Rewritten(@, old, "__used __cb_name")]
                        EXCEPT ![e] = @ \o <<warn, decl>>]
    OBVIOUS
  <2>2. Work(place, i, M)
    BY <1>2, <1>3, <1>4, <1>6, <1>9, <2>1 DEF ExtractCallback, Work
  <2>3. Keeps(F, L, M, i)
    BY <1>2, <1>5, <1>7, <2>1, Marked
  <2> QED
    BY <1>1, <1>2, <2>2, <2>3, FnStep
<1>10. CASE ExtractInterface(i)
  <2>1. PICK M1 : M1 = [[L EXCEPT ![x] = Rewritten(@, old, "__used name")]
                          EXCEPT ![e] = @ \o <<warn>>]
    OBVIOUS
  <2>2. PICK M2 : M2 = [L EXCEPT ![e] = @ \o <<warn>>]
    OBVIOUS
  <2>3. Keeps(F, L, L, i) /\ Keeps(F, L, M1, i) /\ Keeps(F, L, M2, i)
    <3>1. Keeps(F, L, L, i)
      BY <1>2 DEF Keeps
    <3>2. Keeps(F, L, M1, i)
      BY <1>2, <1>5, <1>7, <2>1, Marked
    <3>3. Keeps(F, L, M2, i)
      BY <1>2, <1>5, <1>7, <2>2, Marked
    <3> QED
      BY <3>1, <3>2, <3>3
  <2>4. Work(place, i, L) \/ Work(place, i, M1) \/ Work(place, i, M2)
    BY <1>2, <1>3, <1>4, <1>6, <1>10, <2>1, <2>2 DEF ExtractInterface, Work
  <2> QED
    BY <1>1, <1>2, <2>3, <2>4, FnStep
<1> QED
  BY <1>8, <1>9, <1>10

\* A static variable is marked on the row of its name.
LEMMA StaticStep ==
  ASSUME FreshInv, NEW v \in todo, ExtractStatic(v)
  PROVE  FreshInv'
<1>1. PICK F, L, m, i :
        F \in ModFile \cup SdcrFile /\ F = file /\ L = lines /\ m = meta /\ i = v[1]
  BY DEF FreshInv
<1> F \in ModFile \cup SdcrFile
  BY <1>1
<1>2. PICK M : M = [L EXCEPT ![m[i].name] = Rewritten(@, <<i, "static">>, "static __used")]
  OBVIOUS
<1>3. /\ place = "static_var" /\ file' = F /\ meta' = meta /\ place' = place /\ lines' = M
      /\ in_sdcr_srcs' = in_sdcr_srcs /\ todo' \subseteq todo
  BY <1>1, <1>2 DEF ExtractStatic, Work, NameRow
<1>4. /\ L \in [1 .. Total(F) -> Line] /\ m = Collected(F)
      /\ todo \subseteq StaticVarList
      /\ \A j \in OfClass(SharedClass) : Intact(F, L, j)
      /\ \A u \in StaticVarList : StandsIn(L, "name", u[1], m[u[1]].name)
  BY <1>1, <1>3 DEF FreshInv, VarPlaces, NameRow
<1>5. /\ \A j \in OfClass(SharedClass) :
           j \in 1 .. Len(F) /\ F[j].class \in Known /\ j # i
      /\ \A u \in StaticVarList : u[1] \in 1 .. Len(F) /\ F[u[1]].class \in Known
  BY <1>1, <1>4, SharedVars DEF Known
<1>6. /\ OfClass(SharedClass)' = OfClass(SharedClass) /\ StaticVarList' = StaticVarList
      /\ \A j : NameRow(j)' = m[j].name
  BY <1>1, <1>3
     DEF OfClass, SharedClass, StaticVarList, Declared, Items, NameRow
<1>7. i \in 1 .. Len(F) /\ v \in StaticVarList
  BY <1>1, <1>4, <1>5
<1>8. PICK x : x = m[i].name /\ x \in Block(F, i)
  BY <1>1, <1>4, <1>5, <1>7, CollectedRows DEF On
<1>9. PICK n \in Nat : n = Total(F)
  BY <1>7, BlocksApart
<1>10. StandsIn(L, "name", i, x)
  BY <1>1, <1>4, <1>7, <1>8
<1>11. x \in 1 .. n
  BY <1>4, <1>9, <1>10 DEF StandsIn
<1>12. PICK l \in Line : l = L[x]
  BY <1>4, <1>9, <1>11
<1>13. PICK old : old = <<i, "static">> /\ old[1] = i /\ old[2] = "static"
  <2>1. PICK o : o = <<i, "static">>
    OBVIOUS
  <2>2. o[1] = i /\ o[2] = "static"
    BY <2>1
  <2> QED
    BY <2>1, <2>2
<1>14. PICK R : R = Rewritten(l, old, "static __used")
  OBVIOUS
<1>15. R \in Line /\ DOMAIN R = DOMAIN l /\ \A k \in DOMAIN l : l[k] # old => R[k] = l[k]
  <2>1. i \in Nat
    <3>1. Len(F) \in Nat
      BY FileRows
    <3> QED
      BY <1>7, <3>1
  <2>2. <<old[1], "static __used">> \in Text
    BY <1>13, <2>1, Texts
  <2> QED
    BY <1>14, <2>2, RewrittenHolds
<1>16. M = [L EXCEPT ![x] = R]
  BY <1>2, <1>4, <1>8, <1>9, <1>11, <1>12, <1>13, <1>14
<1>17. Keeps(F, L, M, i)
  BY <1>4, <1>7, <1>8, <1>15, <1>16, RowWritten
<1>18. /\ M \in [1 .. Total(F) -> Line]
       /\ \A j \in OfClass(SharedClass) : Intact(F, M, j)
  <2>1. ASSUME NEW j \in OfClass(SharedClass) PROVE Intact(F, M, j)
    <3>1. j \in 1 .. Len(F) /\ F[j].class \in Known /\ j # i /\ Intact(F, L, j)
      BY <1>4, <1>5
    <3> QED
      BY <1>1, <1>17, <3>1, KeepsIntact
  <2> QED
    BY <1>17, <2>1 DEF Keeps
<1>19. M[x] = R /\ DOMAIN M = 1 .. n /\ DOMAIN L = 1 .. n /\ \A t \in 1 .. n : t # x => M[t] = L[t]
  BY <1>4, <1>9, <1>11, <1>16
<1>20. ASSUME NEW u \in StaticVarList PROVE StandsIn(M, "name", u[1], m[u[1]].name)
  <2>1. PICK j, y : j = u[1] /\ y = m[j].name
    OBVIOUS
  <2>2. StandsIn(L, "name", j, y)
    BY <1>4, <2>1
  <2>3. CASE y # x
    BY <1>19, <2>1, <2>2, <2>3 DEF StandsIn
  <2>4. CASE y = x
    <3>1. PICK k \in 1 .. Len(l) : l[k] = <<j, "name">>
      BY <1>12, <2>2, <2>4 DEF StandsIn, Contains
    <3>2. DOMAIN l = 1 .. Len(l) /\ DOMAIN R = 1 .. Len(R)
      BY <1>15 DEF Line
    <3>3. <<j, "name">>[2] = "name"
      OBVIOUS
    <3>4. l[k] # old
      BY <1>13, <3>1, <3>3
    <3>5. R[k] = <<j, "name">> /\ k \in 1 .. Len(R)
      BY <1>15, <3>1, <3>2, <3>4
    <3> QED
      BY <1>11, <1>19, <2>1, <2>4, <3>5 DEF StandsIn, Contains
  <2> QED
    BY <2>3, <2>4
<1>21. "static_var" \notin FnPlaces /\ "static_var" # "merge_var"
  BY DEF FnPlaces
<1>22. place' \in FnPlaces \cup VarPlaces \cup LatePlaces
  BY <1>3 DEF FreshInv
<1>23. meta' = Collected(F) /\ todo' \subseteq StaticVarList'
  BY <1>1, <1>3, <1>4, <1>6
<1>24. \A u \in StaticVarList' : StandsIn(M, "name", u[1], NameRow(u[1])')
  BY <1>6, <1>20
<1>25. \A j \in OfClass(SharedClass)' : Intact(F, M, j)
  BY <1>6, <1>18
<1> QED
  BY <1>3, <1>18, <1>21, <1>22, <1>23, <1>24, <1>25 DEF FreshInv

\* The declaration of a shared variable is merged on its first row.
LEMMA MergeStep ==
  ASSUME FreshInv, NEW v \in todo, MergeShared(v)
  PROVE  FreshInv'
<1>1. PICK F, L, m, i :
        F \in ModFile \cup SdcrFile /\ F = file /\ L = lines /\ m = meta[v[1]] /\ i = v[1]
  BY DEF FreshInv
<1> F \in ModFile \cup SdcrFile
  BY <1>1
<1>2. place = "merge_var"
  BY DEF MergeShared, Work
<1>3. /\ L \in [1 .. Total(F) -> Line] /\ m = Collected(F)[i] /\ meta = Collected(F)
      /\ todo \subseteq SharedVarList
      /\ \A u \in SharedVarList : Mergeable(F, L, u[1])
  BY <1>1, <1>2 DEF FreshInv, VarPlaces
<1>4. \A u \in SharedVarList : u[1] \in 1 .. Len(F) /\ F[u[1]].class \in VarClass
  BY <1>1, SharedVars
<1>5. i \in 1 .. Len(F) /\ F[i].class \in VarClass /\ Mergeable(F, L, i)
  BY <1>1, <1>3, <1>4
<1>6. PICK M : M = MergeDownVar(Emptied(L, m.start + 1 .. m.name - 1), m.start)
  OBVIOUS
<1>7. PICK P : P = [M EXCEPT ![m.start] = DeclarePerCpu(@, i)]
  OBVIOUS
<1>8. /\ file' = F /\ meta' = meta /\ place' = place /\ in_sdcr_srcs' = in_sdcr_srcs
      /\ todo' \subseteq todo /\ (lines' = M \/ lines' = P)
  BY <1>1, <1>6, <1>7 DEF MergeShared, Work, Between, DeclStartRow, NameRow
<1>9. Within(F, L, M, i) /\ Mergeable(F, M, i)
  BY <1>3, <1>5, <1>6, MergeWithin
<1>10. M \in [1 .. Total(F) -> Line]
  BY <1>9 DEF Within
<1>11. Within(F, M, P, i) /\ Mergeable(F, P, i)
  BY <1>3, <1>5, <1>7, <1>9, <1>10, PerCpuWithin
<1>12. P \in [1 .. Total(F) -> Line]
  BY <1>11 DEF Within
<1>13. ASSUME NEW u \in SharedVarList
       PROVE  Mergeable(F, M, u[1]) /\ Mergeable(F, P, u[1])
  <2>1. PICK j \in 1 .. Len(F) : j = u[1] /\ F[j].class \in VarClass /\ Mergeable(F, L, j)
    BY <1>3, <1>4
  <2>2. CASE j = i
    BY <1>9, <1>11, <2>1, <2>2
  <2>3. CASE j # i
    <3>1. Mergeable(F, M, j)
      BY <1>3, <1>5, <1>9, <2>1, <2>3, WithinKeeps
    <3>2. Mergeable(F, P, j)
      BY <1>5, <1>10, <1>11, <2>1, <2>3, <3>1, WithinKeeps
    <3> QED
      BY <2>1, <3>1, <3>2
  <2> QED
    BY <2>2, <2>3
<1>14. SharedVarList' = SharedVarList
  BY <1>1, <1>8 DEF OfClass, SharedClass, SharedVarList, Declared, Items
<1>15. "merge_var" \notin FnPlaces /\ "merge_var" # "static_var"
  BY DEF FnPlaces
<1>16. lines' \in [1 .. Total(F) -> Line] /\ \A u \in SharedVarList' : Mergeable(F, lines', u[1])
  BY <1>8, <1>10, <1>12, <1>13, <1>14
<1>17. todo' \subseteq SharedVarList' /\ meta' = Collected(F)
  BY <1>3, <1>8, <1>14
<1>18. place' \in FnPlaces \cup VarPlaces \cup LatePlaces
  BY <1>8 DEF FreshInv
<1> QED
  BY <1>2, <1>8, <1>15, <1>16, <1>17, <1>18 DEF FreshInv

\* The steps after the merging, of which nothing is asked.
LEMMA LateStep ==
  ASSUME NEW p \in LatePlaces, FreshInv, place' = p, file' = file, meta' = meta
  PROVE  FreshInv'
<1>1. p \notin FnPlaces /\ p \notin VarPlaces
  BY PlacesApart
<1>2. "static_var" \in VarPlaces /\ "merge_var" \in VarPlaces
  BY DEF VarPlaces
<1> QED
  BY <1>1, <1>2 DEF FreshInv

\* The beginning of the next list.
LEMMA NextListStep ==
  ASSUME FreshInv, NextList
  PROVE  FreshInv'
<1>1. PICK F, L : F \in ModFile \cup SdcrFile /\ F = file /\ L = lines
  BY DEF FreshInv
<1> F \in ModFile \cup SdcrFile
  BY <1>1
<1>2. /\ file' = F /\ meta' = meta /\ lines' = L /\ in_sdcr_srcs' = in_sdcr_srcs
      /\ place' = After(place)[1] /\ todo' = After(place)[2]
  BY <1>1 DEF NextList
<1>3. /\ \A C : OfClass(C)' = OfClass(C)
      /\ SharedClass' = SharedClass
      /\ StaticVarList' = StaticVarList /\ SharedVarList' = SharedVarList
      /\ \A j : NameRow(j)' = NameRow(j)
  BY <1>1, <1>2
     DEF OfClass, SharedClass, StaticVarList, SharedVarList, Declared, Items, NameRow
<1>4. meta = Collected(F) /\ meta' = Collected(F)
  BY <1>1, <1>2 DEF FreshInv
<1>5. ASSUME NEW p \in FnPlaces, NEW q \in FnPlaces, place = p, place' = q,
             todo' = OfClass(Now(q)), Now(q) \cup Later(q) \subseteq Later(p)
      PROVE  FreshInv'
  <2>1. L \in [1 .. Total(F) -> Line] /\ \A i \in OfClass(Later(p)) : Intact(F, L, i)
    BY <1>1, <1>5 DEF FreshInv
  <2>2. OfClass(Now(q)) \cup OfClass(Later(q)) \subseteq OfClass(Later(p))
    BY <1>5 DEF OfClass
  <2>3. /\ todo' \subseteq OfClass(Now(q))'
        /\ \A i \in todo' \cup OfClass(Later(q))' : Intact(F, L, i)
    BY <1>3, <1>5, <2>1, <2>2
  <2>4. q # "static_var" /\ q # "merge_var"
    BY DEF FnPlaces
  <2> QED
    BY <1>1, <1>2, <1>4, <1>5, <2>1, <2>3, <2>4 DEF FreshInv
<1>6. CASE place = "fn"
  <2>1. place' = "callback" /\ todo' = OfClass(Now("callback"))
    BY <1>2, <1>6 DEF After, CallbackList, Now
  <2> QED
    BY <1>5, <1>6, <2>1, PlacesApart
<1>7. CASE place = "callback"
  <2>1. place' = "interface" /\ todo' = OfClass(Now("interface"))
    BY <1>2, <1>7 DEF After, InterfaceList, Now
  <2> QED
    BY <1>5, <1>7, <2>1, PlacesApart
<1>8. CASE place = "interface"
  <2>1. place' = "static_var" /\ todo' = StaticVarList
    BY <1>2, <1>8 DEF After
  <2>2. L \in [1 .. Total(F) -> Line] /\ \A i \in OfClass(VarClass) : Intact(F, L, i)
    <3>1. \A i \in OfClass(Later(place)) : Intact(F, L, i)
      BY <1>1, <1>8, PlacesApart DEF FreshInv
    <3>2. VarClass \subseteq Later(place)
      BY <1>8, PlacesApart
    <3>3. L \in [1 .. Total(F) -> Line]
      BY <1>1, <1>8, PlacesApart DEF FreshInv
    <3> QED
      BY <3>1, <3>2, <3>3 DEF OfClass
  <2>3. ASSUME NEW u \in StaticVarList PROVE StandsIn(L, "name", u[1], NameRow(u[1]))
    <3>1. PICK i \in 1 .. Len(F) : i = u[1] /\ F[i].class \in VarClass
      BY <1>1, SharedVars
    <3>2. i \in OfClass(VarClass)
      BY <1>1, <3>1, SharedVars DEF OfClass
    <3>3. On(F, i, Collected(F)[i].name, "name")
      BY <3>1, CollectedRows DEF Known
    <3>4. StandsIn(L, "name", i, Collected(F)[i].name)
      BY <2>2, <3>2, <3>3, IntactStands
    <3> QED
      BY <1>4, <3>1, <3>4 DEF NameRow
  <2>4. \A i \in OfClass(SharedClass) : Intact(F, L, i)
    BY <2>2, SharedVars DEF OfClass
  <2>5. "static_var" \notin FnPlaces /\ "static_var" # "merge_var" /\ "static_var" \in VarPlaces
    BY DEF FnPlaces, VarPlaces
  <2>6. /\ todo' \subseteq StaticVarList'
        /\ \A i \in OfClass(SharedClass)' : Intact(F, L, i)
        /\ \A u \in StaticVarList' : StandsIn(L, "name", u[1], NameRow(u[1])')
    BY <1>3, <2>1, <2>3, <2>4
  <2> QED
    BY <1>1, <1>2, <1>4, <2>1, <2>2, <2>5, <2>6 DEF FreshInv
<1>9. CASE place = "static_var"
  <2>1. place' = "merge_var" /\ todo' = SharedVarList
    BY <1>2, <1>9 DEF After
  <2>2. L \in [1 .. Total(F) -> Line] /\ \A i \in OfClass(SharedClass) : Intact(F, L, i)
    BY <1>1, <1>9 DEF FreshInv, VarPlaces
  <2>3. ASSUME NEW u \in SharedVarList PROVE Mergeable(F, L, u[1])
    <3>1. PICK i \in 1 .. Len(F) : i = u[1] /\ F[i].class \in VarClass /\ Intact(F, L, i)
      BY <1>1, <2>2, SharedVars
    <3> QED
      BY <2>2, <3>1, IntactMergeable
  <2>4. "merge_var" \notin FnPlaces /\ "static_var" # "merge_var" /\ "merge_var" \in VarPlaces
    BY DEF FnPlaces, VarPlaces
  <2>5. todo' \subseteq SharedVarList' /\ \A u \in SharedVarList' : Mergeable(F, L, u[1])
    BY <1>3, <2>1, <2>3
  <2> QED
    BY <1>1, <1>2, <1>4, <2>1, <2>2, <2>4, <2>5 DEF FreshInv
<1>10. CASE place = "merge_var"
  <2>1. place' = "delete_var" /\ "delete_var" \in LatePlaces
    BY <1>2, <1>10 DEF After, LatePlaces
  <2> QED
    BY <1>1, <1>2, <2>1, LateStep
<1>11. CASE place = "delete_var"
  <2>1. place' = "declare_var" /\ "declare_var" \in LatePlaces
    BY <1>2, <1>11 DEF After, LatePlaces
  <2> QED
    BY <1>1, <1>2, <2>1, LateStep
<1>12. CASE place = "declare_var"
  <2>1. place' = "fix_up" /\ "fix_up" \in LatePlaces
    BY <1>2, <1>12 DEF After, LatePlaces
  <2> QED
    BY <1>1, <1>2, <2>1, LateStep
<1>13. \/ place = "fn" \/ place = "callback" \/ place = "interface"
       \/ place = "static_var" \/ place = "merge_var"
       \/ place = "delete_var" \/ place = "declare_var"
  BY DEF NextList, FreshInv, FnPlaces, VarPlaces, LatePlaces
<1> QED
  BY <1>6, <1>7, <1>8, <1>9, <1>10, <1>11, <1>12, <1>13

LEMMA FreshInit ==
  ASSUME Init
  PROVE  FreshInv
<1>1. PICK F \in ModFile \cup SdcrFile : F = file
  BY DEF Init
<1>2. lines = Unread(F)
  BY <1>1 DEF Init, Unread, Items, Token, RowOf, Tokens
<1>3. /\ place = "fn" /\ "fn" \in FnPlaces /\ meta = Collected(F)
      /\ todo = OfClass(Now("fn"))
  BY <1>1, PlacesApart DEF Init, FnList, Now
<1>4. Items = 1 .. Len(F)
  BY <1>1, FileRows DEF Items
<1>5. \A C : OfClass(C) \subseteq 1 .. Len(F)
  BY <1>4 DEF OfClass
<1>6. lines \in [1 .. Total(F) -> Line] /\ \A i \in 1 .. Len(F) : Intact(F, lines, i)
  BY <1>2, FileAsRead
<1>7. \A i \in todo \cup OfClass(Later(place)) : Intact(F, lines, i)
  BY <1>3, <1>5, <1>6
<1>8. "fn" # "static_var" /\ "fn" # "merge_var"
  OBVIOUS
<1> QED
  BY <1>1, <1>3, <1>6, <1>7, <1>8 DEF FreshInv

LEMMA FreshNext ==
  ASSUME FreshInv, [Next]_vars
  PROVE  FreshInv'
<1>1. ASSUME NEW i \in Items, ExtractOutsider(i) PROVE FreshInv'
  BY <1>1, OutsiderStep
<1>2. ASSUME NEW i \in Items,
             ExtractOptimised(i) \/ ExtractCallback(i) \/ ExtractInterface(i)
      PROVE  FreshInv'
  BY <1>2, MarkStep
<1>3. ASSUME NEW v \in todo, ExtractStatic(v) PROVE FreshInv'
  BY <1>3, StaticStep
<1>4. ASSUME NEW v \in todo, MergeShared(v) PROVE FreshInv'
  BY <1>4, MergeStep
<1>5. ASSUME NEW v \in todo, DeleteShared(v) \/ DeclareShared(v) PROVE FreshInv'
  <2>1. /\ place' \in {"delete_var", "declare_var"} /\ file' = file /\ meta' = meta
    BY <1>5 DEF DeleteShared, DeclareShared, Work
  <2>2. {"delete_var", "declare_var"} \subseteq LatePlaces
    BY DEF LatePlaces
  <2> QED
    BY <2>1, <2>2, LateStep
<1>6. CASE NextList
  BY <1>6, NextListStep
<1>7. CASE place = "fix_up" /\ (FixUpInclude \/ FixUpDelete \/ FixUpOther)
  <2>1. place' = "fix_up" /\ file' = file /\ meta' = meta
    BY <1>7 DEF FixUpInclude, FixUpDelete, FixUpOther, FixRow
  <2>2. "fix_up" \in LatePlaces
    BY DEF LatePlaces
  <2> QED
    BY <2>1, <2>2, LateStep
<1>8. CASE WriteFile
  <2>1. place' = "done" /\ file' = file /\ meta' = meta
    BY <1>8 DEF WriteFile
  <2>2. "done" \in LatePlaces
    BY DEF LatePlaces
  <2> QED
    BY <2>1, <2>2, LateStep
<1>9. CASE UNCHANGED vars
  BY <1>9 DEF vars, FreshInv, OfClass, SharedClass, StaticVarList, SharedVarList, Declared,
              Items, NameRow
<1> QED
  BY <1>1, <1>2, <1>3, <1>4, <1>5, <1>6, <1>7, <1>8, <1>9 DEF Next, Step

(***************************************************************************)
(* extract.py works on the rows and columns that the compiler plugin       *)
(* recorded for the file as it was, without looking for the definition     *)
(* again.  Whatever definitions the file has, on whatever rows, and in     *)
(* whatever order they are listed: when one is about to be rewritten, what *)
(* was recorded of it is still true.                                       *)
(***************************************************************************)
THEOREM PositionsCorrect == Spec => []PositionsFresh
<1>1. Init => FreshInv
  BY FreshInit
<1>2. FreshInv /\ [Next]_vars => FreshInv'
  BY FreshNext
<1>3. FreshInv => PositionsFresh
  BY FreshPositions
<1> QED
  BY <1>1, <1>2, <1>3, PTL DEF Spec

-------------------------------------------------------------------------------
(***************************************************************************)
(* Which tokens are on a row at all: extract.py joins rows, cuts them and  *)
(* writes words of its own, and puts nothing else anywhere.                *)
(***************************************************************************)
\* None of the tokens of T is on the row; T has none that extract.py writes.
Free(l, T) == l \in Seq(Text \ T)
NoneWritten(T) == \A i \in Nat, w \in Written : <<i, w>> \notin T

\* What keeps a row free of a set of tokens.
LEMMA FreeLines ==
  ASSUME NEW T
  PROVE  /\ Free(<<>>, T) /\ \A l : Free(l, T) => l \in Line
         /\ \A l \in Line : Free(l, {})
         /\ \A a, b : Free(a, T) /\ Free(b, T) => Free(a \o b, T)
         /\ \A l : Free(l, T) => \A c \in 1 .. Len(l) : Free(SubSeq(l, 1, c - 1), T)
         /\ \A tk \in Text : tk \notin T => Free(<<tk>>, T)
         /\ \A l \in Line : (\A k \in 1 .. Len(l) : l[k] \notin T) => Free(l, T)
         /\ \A l : Free(l, T) => \A k \in 1 .. Len(l) : l[k] \notin T
<1>1. PICK A, B : A = Text /\ B = Text \ T /\ B \subseteq A
  OBVIOUS
<1>2. <<>> \in Seq(B)
  OBVIOUS
<1>3. \A l \in Seq(B) : l \in Seq(A)
  BY <1>1
<1>4. T = {} => B = A
  BY <1>1
<1>5. \A a, b \in Seq(B) : a \o b \in Seq(B)
  OBVIOUS
<1>6. \A l \in Seq(B) : \A c \in 1 .. Len(l) : SubSeq(l, 1, c - 1) \in Seq(B)
  OBVIOUS
<1>7. \A tk \in B : <<tk>> \in Seq(B)
  OBVIOUS
<1>8. \A l \in Seq(A) : (\A k \in 1 .. Len(l) : l[k] \in B) => l \in Seq(B)
  OBVIOUS
<1>9. \A l \in Seq(A) : \A k \in 1 .. Len(l) : l[k] \in A
  OBVIOUS
<1>10. \A l \in Seq(B) : \A k \in 1 .. Len(l) : l[k] \in B
  OBVIOUS
<1>11. \A l \in Line : Free(l, {})
  BY <1>1 DEF Free, Line
<1> QED
  BY <1>1, <1>2, <1>3, <1>5, <1>6, <1>7, <1>8, <1>9, <1>10, <1>11 DEF Free, Line

\* What joined rows are joined to.
LEMMA JoinExact ==
  ASSUME NEW n \in Nat, NEW L \in [1 .. n -> Line], NEW from \in 1 .. n,
         NEW to \in from .. n, NEW at \in 1 .. n
  PROVE  Join(L, from, to, at) =
           [t \in 1 .. n |-> IF t = at THEN FlattenSeq(SubSeq(L, from, to))
                             ELSE IF t \in from .. to THEN <<>> ELSE L[t]]
<1>1. DOMAIN L = 1 .. n
  OBVIOUS
<1> QED
  BY <1>1, Zenon DEF Join

\* Joined rows have no token that none of them had.
LEMMA JoinFree ==
  ASSUME NEW n \in Nat, NEW L \in [1 .. n -> Line], NEW from \in 1 .. n,
         NEW to \in from .. n, NEW T, \A u \in from .. to : Free(L[u], T)
  PROVE  Free(FlattenSeq(SubSeq(L, from, to)), T)
<1>1. PICK m \in Nat : m = to - from + 1
  OBVIOUS
<1>2. PICK ss : ss = SubSeq(L, from, to)
  OBVIOUS
<1>3. ss \in Seq(Line) /\ Len(ss) = m /\ \A i \in 1 .. m : ss[i] = L[from + i - 1]
  BY <1>1, <1>2, SubSeqRows
<1>4. \A i \in 1 .. m : from + i - 1 \in from .. to
  BY <1>1
<1>5. PICK A, B : A = Text \ T /\ B = Seq(A)
  OBVIOUS
<1>6. \A i \in 1 .. m : ss[i] \in B
  BY <1>3, <1>4, <1>5 DEF Free
<1>7. ss \in Seq(B)
  BY <1>3, <1>6
<1>8. FlattenSeq(ss) \in Seq(A)
  BY <1>5, <1>7, FlattenHolds
<1> QED
  BY <1>2, <1>5, <1>8 DEF Free

\* merge_up_lines joins onto a row below all that end a definition.
LEMMA MergeUpTop ==
  ASSUME NEW n \in Nat, NEW L \in [1 .. n -> Line], NEW r \in 1 .. n
  PROVE  \E top \in 1 .. r :
           /\ MergeUpLines(L, r) = Join(L, top, r, top)
           /\ \A b \in 1 .. r - 1 : Terminator(L[b]) => b < top
<1> DEFINE S == {1} \cup {t \in 2 .. r : Terminator(L[t - 1])}
<1>1. S \subseteq 0 .. r /\ S # {}
  OBVIOUS
<1>2. PICK top \in 1 .. r : top = Max2(S) /\ \A k \in S : top >= k
  <2>1. Max2(S) \in S /\ \A k \in S : Max2(S) >= k
    <3>1. r \in Nat
      OBVIOUS
    <3> HIDE DEF S
    <3> QED
      BY <1>1, <3>1, GreatestOf
  <2>2. \A k \in S : k \in 1 .. r
    OBVIOUS
  <2> HIDE DEF S
  <2> QED
    BY <2>1, <2>2
<1>3. MergeUpLines(L, r) = Join(L, top, r, top)
  BY <1>2 DEF MergeUpLines
<1>4. \A b \in 1 .. r - 1 : Terminator(L[b]) => b < top
  <2>1. \A b \in 1 .. r - 1 : b + 1 \in 2 .. r /\ b + 1 - 1 = b /\ b \in Int /\ top \in Int
    OBVIOUS
  <2>2. \A t \in 2 .. r : Terminator(L[t - 1]) => t \in S
    OBVIOUS
  <2>3. ASSUME NEW b \in 1 .. r - 1, Terminator(L[b]) PROVE b + 1 \in S
    BY <2>1, <2>2, <2>3
  <2> HIDE DEF S
  <2>4. ASSUME NEW b \in 1 .. r - 1, b + 1 \in S PROVE b < top
    <3>1. top >= b + 1
      BY <1>2, <2>4
    <3> QED
      BY <2>1, <3>1
  <2> QED
    BY <2>3, <2>4
<1> QED
  BY <1>3, <1>4

\* A function ends on the last of its rows, and its first brace is the first.
FirstBrace(F, i, m) ==
  \A l : l = F[i].rows[m.lbrace - RowsBefore(F)[i - 1]] =>
    \A k \in DOMAIN l : k < m.lcol => l[k] # "{"

\* What was recorded of the braces of a function.
LEMMA BraceRows ==
  ASSUME NEW F \in ModFile \cup SdcrFile, NEW i \in 1 .. Len(F), F[i].class \in FnClass,
         NEW m, m = Collected(F)[i]
  PROVE  /\ m.rbrace = RowsBefore(F)[i]
         /\ \A t \in Block(F, i) : t < m.lbrace => ~On(F, i, t, "{")
         /\ FirstBrace(F, i, m)
<1>1. PICK b \in Nat : b = RowsBefore(F)[i - 1]
  BY BlocksApart
<1>2. PICK N \in Nat : N = Len(F[i].rows) /\ DOMAIN F[i].rows = 1 .. N /\ RowsBefore(F)[i] = b + N
  BY <1>1, FileRows, BlocksApart
<1> DEFINE on(kind) == {r \in 1 .. N : OnRow(F[i], r, kind)}
           first(kind) == IF on(kind) = {} THEN 0 ELSE b + Min2(on(kind))
           last(kind) == IF on(kind) = {} THEN 0 ELSE b + Max2(on(kind))
           column(line, kind) == Min2({k \in DOMAIN line : line[k] = kind})
<1>3. /\ m.lbrace = first("{") /\ m.rbrace = last("}")
      /\ m.lcol = IF on("{") = {} THEN 0 ELSE column(F[i].rows[Min2(on("{"))], "{")
  <2>1. i \in DOMAIN F
    BY FileRows
  <2> QED
    BY <1>1, <1>2, <2>1 DEF Collected
<1>4. IsOn(F[i], "{") /\ OnRow(F[i], N, "}")
  BY <1>2, FileRows DEF WellFormed
<1>5. PICK q \in 1 .. N : OnRow(F[i], q, "{")
  BY <1>2, <1>4 DEF IsOn
<1>6. PICK C : C = on("}")
  OBVIOUS
<1>7. N \in C /\ C \subseteq 1 .. N
  <2>1. \A M \in Nat : \A k \in 1 .. M : M \in 1 .. M
    OBVIOUS
  <2>2. N \in 1 .. N
    BY <1>5, <2>1
  <2> QED
    BY <1>4, <1>6, <2>2
<1>8. m.rbrace = RowsBefore(F)[i]
  <2>1. C \subseteq 0 .. N /\ C # {}
    BY <1>7
  <2>2. Max2(C) \in C /\ \A k \in C : Max2(C) >= k
    BY <2>1, GreatestOf
  <2>3. PICK x \in 1 .. N : x = Max2(C) /\ x >= N
    BY <1>7, <2>2
  <2>4. x = N
    BY <2>3
  <2> QED
    BY <1>2, <1>3, <1>6, <2>1, <2>3, <2>4
<1>9. PICK O : O = on("{")
  OBVIOUS
<1>10. PICK p \in 1 .. N : p = Min2(O) /\ p \in O /\ \A k \in O : p <= k
  <2>1. O \subseteq 1 .. N /\ O # {}
    BY <1>5, <1>9
  <2>2. O \subseteq Nat
    BY <2>1
  <2>3. Min2(O) \in O /\ \A k \in O : Min2(O) <= k
    BY <2>1, <2>2, LeastOf
  <2> QED
    BY <2>1, <2>3
<1>11. m.lbrace = b + p /\ m.lbrace - b = p
  <2>1. m.lbrace = b + p
    BY <1>3, <1>9, <1>10, Zenon
  <2> QED
    BY <2>1
<1>12. ASSUME NEW t \in Block(F, i), t < m.lbrace PROVE ~On(F, i, t, "{")
  <2>1. PICK r \in 1 .. N : r = t - b /\ t = b + r
    BY <1>1, <1>2, BlockRows
  <2>2. r < p
    BY <1>11, <1>12, <2>1
  <2>3. r \notin O
    <3>1. ~(p <= r)
      BY <2>2
    <3> QED
      BY <1>10, <3>1
  <2>4. ~OnRow(F[i], r, "{")
    BY <1>9, <2>3
  <2> QED
    BY <1>1, <2>1, <2>4 DEF On
<1>13. PICK l \in Seq(STRING) : l = F[i].rows[p]
  BY <1>2, FileRows
<1>14. m.lcol = Min2({k \in DOMAIN l : l[k] = "{"})
  BY <1>3, <1>9, <1>10, <1>13, Zenon
<1>15. ASSUME NEW k \in DOMAIN l, l[k] = "{" PROVE ~(k < m.lcol)
  <2>1. PICK S : S = {j \in DOMAIN l : l[j] = "{"}
    OBVIOUS
  <2>2. DOMAIN l \subseteq Nat
    <3>1. DOMAIN l = 1 .. Len(l) /\ Len(l) \in Nat
      OBVIOUS
    <3> QED
      BY <3>1
  <2>3. k \in S /\ S \subseteq Nat /\ S # {}
    BY <1>15, <2>1, <2>2
  <2>4. PICK c \in Nat : c = Min2(S) /\ c <= k
    BY <2>3, LeastOf
  <2>5. k \in Nat /\ ~(k < c)
    BY <2>3, <2>4
  <2> QED
    BY <1>14, <2>1, <2>4, <2>5
<1>16. FirstBrace(F, i, m)
  BY <1>1, <1>11, <1>13, <1>15 DEF FirstBrace
<1> QED
  BY <1>1, <1>8, <1>11, <1>12, <1>16

\* The rows of L with the definition of outsider i cut off at its brace.
Cut(F, L, i) ==
  LET m == Collected(F)[i]
  IN  [L EXCEPT ![m.lbrace] = SubSeq(@, 1, m.lcol - 1) \o <<<<i, ";">>>>]

CutAt(F, L, i, r, c) ==
  /\ r \in Block(F, i) /\ c \in 1 .. Len(L[r])
  /\ L[r] = RowOf(F, i, r - RowsBefore(F)[i - 1])
  /\ Cut(F, L, i) \in [1 .. Total(F) -> Line]
  /\ Cut(F, L, i)[r] = SubSeq(L[r], 1, c - 1) \o <<<<i, ";">>>>
  /\ \A t \in 1 .. Total(F) : t # r => Cut(F, L, i)[t] = L[t]

LEMMA CutRows ==
  ASSUME NEW F \in ModFile \cup SdcrFile, NEW i \in 1 .. Len(F), F[i].class \in FnClass,
         NEW L \in [1 .. Total(F) -> Line], Intact(F, L, i)
  PROVE  CutAt(F, L, i, Collected(F)[i].lbrace, Collected(F)[i].lcol)
<1>0. PICK r, c : r = Collected(F)[i].lbrace /\ c = Collected(F)[i].lcol
  OBVIOUS
<1>1. PICK n \in Nat, a \in Nat : n = Total(F) /\ a = RowsBefore(F)[i - 1]
  BY BlocksApart
<1>2. r \in Block(F, i) /\ On(F, i, r, "{") /\ c \in DOMAIN F[i].rows[r - a]
  BY <1>0, <1>1, CollectedRows DEF On
<1>3. r \in 1 .. n
  BY <1>1, <1>2, BlockRows
<1>4. L[r] = RowOf(F, i, r - a)
  BY <1>1, <1>2, IntactStands
<1>5. PICK l \in Line : l = L[r]
  BY <1>1, <1>3
<1>6. c \in 1 .. Len(l)
  <2>1. DOMAIN l = DOMAIN F[i].rows[r - a]
    BY <1>4, <1>5 DEF RowOf, Tokens
  <2>2. DOMAIN l = 1 .. Len(l)
    BY DEF Line
  <2> QED
    BY <1>2, <2>1, <2>2
<1>7. PICK x : x = SubSeq(l, 1, c - 1) \o <<<<i, ";">>>>
  OBVIOUS
<1>8. x \in Line
  <2>1. Free(l, {}) /\ i \in Nat
    <3>1. Len(F) \in Nat
      BY FileRows
    <3> QED
      BY <3>1, FreeLines
  <2>2. Free(SubSeq(l, 1, c - 1), {})
    BY <1>6, <2>1, FreeLines
  <2>3. Free(<<<<i, ";">>>>, {})
    BY <2>1, FreeLines, Texts
  <2>4. Free(x, {})
    BY <1>7, <2>2, <2>3, FreeLines
  <2> QED
    BY <2>4, FreeLines
<1>9. Cut(F, L, i) = [L EXCEPT ![r] = x]
  BY <1>0, <1>1, <1>3, <1>5, <1>7 DEF Cut
<1>10. /\ [L EXCEPT ![r] = x] \in [1 .. n -> Line] /\ [L EXCEPT ![r] = x][r] = x
       /\ \A t \in 1 .. n : t # r => [L EXCEPT ![r] = x][t] = L[t]
  BY <1>1, <1>3, <1>8
<1>11. /\ r \in Block(F, i) /\ c \in 1 .. Len(L[r])
       /\ L[r] = RowOf(F, i, r - RowsBefore(F)[i - 1])
       /\ Cut(F, L, i) \in [1 .. Total(F) -> Line]
       /\ Cut(F, L, i)[r] = SubSeq(L[r], 1, c - 1) \o <<<<i, ";">>>>
       /\ \A t \in 1 .. Total(F) : t # r => Cut(F, L, i)[t] = L[t]
  BY <1>1, <1>2, <1>4, <1>5, <1>6, <1>7, <1>9, <1>10
<1> QED
  BY <1>0, <1>11, Zenon DEF CutAt

\* What is left of outsider i is on row top, which is below every row that ends
\* an item above; its other rows are empty.
DeclaredOn(F, L, E, i, top) ==
  LET r == Collected(F)[i].lbrace
      e == RowsBefore(F)[i]
  IN  /\ top \in 1 .. r /\ r \in Block(F, i)
      /\ E = [t \in 1 .. Total(F) |->
                IF t = top THEN FlattenSeq(SubSeq(Cut(F, L, i), top, r))
                ELSE IF t \in top .. e THEN <<>> ELSE L[t]]
      /\ \A j \in 1 .. Len(F) : j # i /\ EndsIn(F, L, j) =>
           \A t \in Block(F, j) : t \notin top .. e

LEMMA OutsiderShape ==
  ASSUME NEW F \in ModFile \cup SdcrFile, NEW i \in 1 .. Len(F), F[i].class \in FnClass,
         NEW L \in [1 .. Total(F) -> Line], Intact(F, L, i), NEW m, m = Collected(F)[i]
  PROVE  \E top : DeclaredOn(F, L, Emptied(MergeUpLines(Cut(F, L, i), m.lbrace),
                                           m.lbrace + 1 .. m.rbrace), i, top)
<1>1. PICK n \in Nat, a \in Nat, b \in Nat :
        /\ n = Total(F) /\ a = RowsBefore(F)[i - 1] /\ b = RowsBefore(F)[i] /\ b <= n
  BY BlocksApart
<1>2. PICK r, c : r = m.lbrace /\ CutAt(F, L, i, r, c) /\ r \in Block(F, i)
  BY CutRows DEF CutAt
<1>3. r \in a + 1 .. b /\ m.rbrace = b
  BY <1>1, <1>2, BraceRows DEF Block
<1>4. r \in 1 .. n /\ r \in Nat /\ a < r /\ r <= b
  BY <1>1, <1>3
<1>5. PICK cut \in [1 .. n -> Line] :
        cut = Cut(F, L, i) /\ \A t \in 1 .. n : t # r => cut[t] = L[t]
  <2>1. /\ Cut(F, L, i) \in [1 .. Total(F) -> Line]
        /\ \A t \in 1 .. Total(F) : t # r => Cut(F, L, i)[t] = L[t]
    BY <1>2, Zenon DEF CutAt
  <2> QED
    BY <1>1, <2>1
<1>6. PICK top \in 1 .. r :
        /\ MergeUpLines(cut, r) = Join(cut, top, r, top)
        /\ \A x \in 1 .. r - 1 : Terminator(cut[x]) => x < top
  BY <1>4, MergeUpTop
<1>7. PICK J : J = FlattenSeq(SubSeq(cut, top, r))
  OBVIOUS
<1>8. top \in 1 .. n /\ r \in top .. n
  BY <1>4
<1>9. PICK M : /\ M = MergeUpLines(cut, r)
               /\ M = [t \in 1 .. n |-> IF t = top THEN J
                                        ELSE IF t \in top .. r THEN <<>> ELSE cut[t]]
  BY <1>4, <1>6, <1>7, <1>8, JoinExact
<1>10. PICK E : E = Emptied(M, r + 1 .. b)
  OBVIOUS
<1>11. E = [t \in 1 .. n |-> IF t \in r + 1 .. b THEN <<>> ELSE M[t]]
  BY <1>9, <1>10 DEF Emptied
<1>12. ASSUME NEW t \in 1 .. n
       PROVE  (IF t \in r + 1 .. b THEN <<>> ELSE M[t])
                = IF t = top THEN J ELSE IF t \in top .. b THEN <<>> ELSE L[t]
  <2>1. CASE t \in r + 1 .. b
    <3>1. t # top /\ t \in top .. b
      BY <1>4, <2>1
    <3> QED
      BY <2>1, <3>1
  <2>2. CASE t \notin r + 1 .. b /\ t = top
    BY <1>9, <2>2
  <2>3. CASE t \notin r + 1 .. b /\ t # top /\ t \in top .. r
    <3>1. t \in top .. b
      BY <1>4, <2>3
    <3> QED
      BY <1>9, <2>3, <3>1
  <2>4. CASE t \notin r + 1 .. b /\ t # top /\ t \notin top .. r
    <3>1. t \notin top .. b /\ t # r
      BY <1>4, <2>4
    <3> QED
      BY <1>5, <1>9, <2>4, <3>1
  <2> QED
    BY <2>1, <2>2, <2>3, <2>4
<1>13. E = [t \in 1 .. n |-> IF t = top THEN J ELSE IF t \in top .. b THEN <<>> ELSE L[t]]
  BY <1>11, <1>12, Zenon
<1>14. ASSUME NEW j \in 1 .. Len(F), j # i, EndsIn(F, L, j), NEW t \in Block(F, j)
       PROVE  t \notin top .. b
  <2>1. PICK q \in Nat : q = RowsBefore(F)[j]
    BY BlocksApart
  <2>2. Terminator(L[q]) /\ q \in Block(F, j)
    BY <1>14, <2>1 DEF EndsIn
  <2>3. /\ t \in 1 .. n /\ t \notin Block(F, i)
        /\ (j < i => t <= q /\ q <= a) /\ (j > i => t > b)
    <3>1. PICK u \in 1 .. Len(F[j].rows) : t = RowsBefore(F)[j - 1] + u
      BY BlockRows
    <3>2. /\ t \in 1 .. Total(F) /\ t \notin Block(F, i)
          /\ j < i => t <= RowsBefore(F)[j] /\ RowsBefore(F)[j] <= RowsBefore(F)[i - 1]
          /\ j > i => t > RowsBefore(F)[i]
      BY <1>14, <3>1, OtherBlock
    <3> QED
      BY <1>1, <2>1, <3>2
  <2>4. CASE j > i
    <3>1. t > b
      BY <2>3, <2>4
    <3> QED
      BY <2>3, <3>1
  <2>5. CASE j < i
    <3>1. t <= q /\ q <= a
      BY <2>3, <2>5
    <3>2. q \in 1 .. r - 1 /\ q # r /\ q \in 1 .. n
      BY <1>1, <1>4, <2>3, <3>1
    <3>3. q < top
      BY <1>5, <1>6, <2>2, <3>2
    <3> QED
      BY <2>3, <3>1, <3>3
  <2>6. j < i \/ j > i
    <3>1. i \in Int /\ j \in Int
      BY FileRows
    <3> QED
      BY <1>14, <3>1
  <2> QED
    BY <2>4, <2>5, <2>6
<1>15. top \in 1 .. r
  OBVIOUS
<1>16. DeclaredOn(F, L, E, i, top)
  BY <1>1, <1>2, <1>5, <1>7, <1>13, <1>14, <1>15, Zenon DEF DeclaredOn
<1> QED
  BY <1>2, <1>3, <1>5, <1>9, <1>10, <1>16, Zenon

\* Every row of L without the tokens of T, but those of items that end so.
Clear(F, L, i, T) ==
  \A u \in 1 .. Total(F) :
    Free(L[u], T) \/ \E j \in 1 .. Len(F) : j # i /\ EndsIn(F, L, j) /\ u \in Block(F, j)

\* No row of M has one of those tokens that is not as in L.
NoneNew(F, L, M, T) == \A t \in 1 .. Total(F) : M[t] = L[t] \/ Free(M[t], T)

\* Making a declaration takes no row of an item that is ended.
LEMMA DeclaredKeeps ==
  ASSUME NEW F \in ModFile \cup SdcrFile, NEW i \in 1 .. Len(F), F[i].class \in FnClass,
         NEW L \in [1 .. Total(F) -> Line], Intact(F, L, i), NEW E, NEW top,
         DeclaredOn(F, L, E, i, top)
  PROVE  /\ Keeps(F, L, E, i)
         /\ \A T : NoneWritten(T) /\ Clear(F, L, i, T) => NoneNew(F, L, E, T)
<1>1. PICK n \in Nat : n = Total(F)
  BY BlocksApart
<1>2. PICK r, c, e : r = Collected(F)[i].lbrace /\ c = Collected(F)[i].lcol /\ e = RowsBefore(F)[i]
  OBVIOUS
<1>0. CutAt(F, L, i, r, c)
  BY <1>2, CutRows
<1>3. PICK cut \in [1 .. n -> Line] : cut = Cut(F, L, i)
  BY <1>0, <1>1 DEF CutAt
<1>4. /\ r \in Block(F, i) /\ c \in 1 .. Len(L[r])
      /\ cut[r] = SubSeq(L[r], 1, c - 1) \o <<<<i, ";">>>>
      /\ \A t \in 1 .. n : t # r => cut[t] = L[t]
  <2>1. /\ r \in Block(F, i) /\ c \in 1 .. Len(L[r])
        /\ Cut(F, L, i)[r] = SubSeq(L[r], 1, c - 1) \o <<<<i, ";">>>>
        /\ \A t \in 1 .. Total(F) : t # r => Cut(F, L, i)[t] = L[t]
    BY <1>0, Zenon DEF CutAt
  <2> QED
    BY <1>1, <1>3, <2>1
<1>5. PICK J : J = FlattenSeq(SubSeq(cut, top, r))
  OBVIOUS
<1>6. /\ top \in 1 .. r
      /\ E = [t \in 1 .. n |-> IF t = top THEN J ELSE IF t \in top .. e THEN <<>> ELSE L[t]]
      /\ \A j \in 1 .. Len(F) : j # i /\ EndsIn(F, L, j) =>
           \A t \in Block(F, j) : t \notin top .. e
  BY <1>1, <1>2, <1>3, <1>5, Zenon DEF DeclaredOn
<1>7. r \in 1 .. n /\ e \in Nat /\ r <= e
  <2>1. PICK a \in Nat, b \in Nat : a = RowsBefore(F)[i - 1] /\ b = e /\ b <= n
    BY <1>1, <1>2, BlocksApart
  <2>2. r \in a + 1 .. b
    BY <1>2, <1>4, <2>1 DEF Block
  <2> QED
    BY <2>1, <2>2
<1>8. top \in 1 .. n /\ r \in top .. n /\ top \in top .. e
  BY <1>6, <1>7
<1>9. ASSUME NEW T, \A u \in top .. r : Free(cut[u], T) PROVE Free(J, T)
  BY <1>5, <1>8, <1>9, JoinFree
<1>10. J \in Line
  <2>1. \A u \in top .. r : u \in 1 .. n
    BY <1>8
  <2>2. \A u \in top .. r : Free(cut[u], {})
    BY <2>1, FreeLines
  <2>3. Free(J, {})
    BY <1>9, <2>2
  <2> QED
    BY <2>3, FreeLines
<1>11. Keeps(F, L, E, i)
  <2>1. E \in [1 .. n -> Line]
    <3>1. <<>> \in Line
      BY DEF Line
    <3> QED
      BY <1>1, <1>6, <1>10, <3>1
  <2>2. ASSUME NEW j \in 1 .. Len(F), j # i, EndsIn(F, L, j), NEW t \in Block(F, j)
        PROVE  E[t] = L[t]
    <3>1. t \notin top .. e
      BY <1>6, <2>2
    <3>2. t \in 1 .. n /\ t # top
      BY <1>1, <1>8, <3>1, BlockRows
    <3> QED
      BY <1>6, <3>1, <3>2
  <2> QED
    BY <1>1, <2>1, <2>2 DEF Keeps
<1>12. ASSUME NEW T, NoneWritten(T), Clear(F, L, i, T), NEW t \in 1 .. n
       PROVE  E[t] = L[t] \/ Free(E[t], T)
  <2>1. ASSUME NEW u \in top .. e, u \in 1 .. n PROVE Free(L[u], T)
    <3>1. \A j \in 1 .. Len(F) : j # i /\ EndsIn(F, L, j) => u \notin Block(F, j)
      BY <1>6
    <3> QED
      BY <1>1, <1>12, <2>1, <3>1 DEF Clear
  <2>2. ASSUME NEW u \in top .. r PROVE Free(cut[u], T)
    <3>1. u \in 1 .. n /\ u \in top .. e
      BY <1>7, <1>8
    <3>2. Free(L[u], T)
      BY <2>1, <3>1
    <3>3. CASE u # r
      BY <1>4, <3>1, <3>2, <3>3
    <3>4. CASE u = r
      <4>1. Free(SubSeq(L[r], 1, c - 1), T)
        BY <1>4, <3>2, <3>4, FreeLines
      <4>2. <<i, ";">> \in Text /\ <<i, ";">> \notin T
        <5>1. i \in Nat /\ ";" \in Written
          BY FileRows DEF Written
        <5> QED
          BY <1>12, <5>1, Texts DEF NoneWritten
      <4>3. Free(<<<<i, ";">>>>, T)
        BY <4>2, FreeLines
      <4>4. Free(SubSeq(L[r], 1, c - 1) \o <<<<i, ";">>>>, T)
        BY <4>1, <4>3, FreeLines
      <4> QED
        BY <1>4, <3>4, <4>4
    <3> QED
      BY <3>3, <3>4
  <2>3. Free(J, T) /\ Free(<<>>, T)
    BY <1>9, <2>2, FreeLines
  <2>4. E[t] = IF t = top THEN J ELSE IF t \in top .. e THEN <<>> ELSE L[t]
    BY <1>6
  <2> QED
    BY <2>3, <2>4
<1> QED
  BY <1>1, <1>11, <1>12, Zenon DEF NoneNew

\* Work on item i: the others that end so stay as they are, and no row gets tokens
\* that were not on a row it could reach and are not written anew.
Reworks(F, L, M, i) ==
  /\ Keeps(F, L, M, i)
  /\ \A T : NoneWritten(T) /\ Clear(F, L, i, T) => NoneNew(F, L, M, T)

LEMMA ReworksBoth ==
  ASSUME NEW F \in ModFile \cup SdcrFile, NEW L, NEW M, NEW N, NEW i,
         Reworks(F, L, M, i), Reworks(F, M, N, i)
  PROVE  Reworks(F, L, N, i)
<1>1. Keeps(F, L, N, i)
  BY KeepsBoth DEF Reworks
<1>2. ASSUME NEW T, NoneWritten(T), Clear(F, L, i, T) PROVE NoneNew(F, L, N, T)
  <2>1. NoneNew(F, L, M, T)
    BY <1>2 DEF Reworks
  <2>2. Clear(F, M, i, T)
    <3>1. ASSUME NEW u \in 1 .. Total(F), ~Free(M[u], T)
          PROVE  \E j \in 1 .. Len(F) : j # i /\ EndsIn(F, M, j) /\ u \in Block(F, j)
      <4>1. ~Free(L[u], T)
        BY <2>1, <3>1 DEF NoneNew
      <4>2. PICK j \in 1 .. Len(F) : j # i /\ EndsIn(F, L, j) /\ u \in Block(F, j)
        BY <1>2, <4>1 DEF Clear
      <4>3. \A t \in Block(F, j) : M[t] = L[t]
        BY <4>2 DEF Reworks, Keeps
      <4>4. EndsIn(F, M, j)
        BY <4>2, <4>3 DEF EndsIn
      <4> QED
        BY <4>2, <4>4
    <3> QED
      BY <3>1 DEF Clear
  <2>3. NoneNew(F, M, N, T)
    BY <1>2, <2>2 DEF Reworks
  <2> QED
    BY <2>1, <2>3 DEF NoneNew
<1> QED
  BY <1>1, <1>2 DEF Reworks

LEMMA BlockFree ==
  ASSUME NEW F \in ModFile \cup SdcrFile, NEW i \in 1 .. Len(F), NEW L, NEW T,
         Clear(F, L, i, T), NEW t \in Block(F, i)
  PROVE  Free(L[t], T)
<1>1. t \in 1 .. Total(F)
  BY BlockRows
<1>2. \A j \in 1 .. Len(F) : j # i => t \notin Block(F, j)
  BY BlocksDisjoint
<1> QED
  BY <1>1, <1>2 DEF Clear

\* The tokens of l2 are some of l and some that are written anew.
Recast(l, l2) ==
  l2 \in Line /\ \A T : NoneWritten(T) /\ Free(l, T) => Free(l2, T)

LEMMA RowRecast ==
  ASSUME NEW F \in ModFile \cup SdcrFile, NEW i \in 1 .. Len(F),
         NEW L \in [1 .. Total(F) -> Line], NEW t \in Block(F, i), NEW l, Recast(L[t], l),
         NEW M, M = [L EXCEPT ![t] = l]
  PROVE  Reworks(F, L, M, i)
<1>1. l \in Line
  BY DEF Recast
<1>3. Keeps(F, L, M, i)
  BY <1>1, RowWritten
<1>4. \A u \in 1 .. Total(F) : M[u] = IF u = t THEN l ELSE L[u]
  OBVIOUS
<1>5. ASSUME NEW T, NoneWritten(T), Clear(F, L, i, T) PROVE NoneNew(F, L, M, T)
  <2>1. Free(L[t], T)
    BY <1>5, BlockFree
  <2>2. Free(l, T)
    BY <1>5, <2>1 DEF Recast
  <2> QED
    BY <1>4, <2>2 DEF NoneNew
<1> QED
  BY <1>3, <1>5 DEF Reworks

LEMMA Recasts ==
  ASSUME NEW l \in Line, NEW i \in Nat
  PROVE  /\ Recast(l, <<>>)
         /\ \A w \in Written : Recast(l, l \o <<<<i, w>>>>)
         /\ \A w, x \in Written : Recast(l, l \o <<<<i, w>>, <<i, x>>>>)
         /\ \A w \in Written : \A old : Recast(l, Rewritten(l, <<i, old>>, w))
<1>0. \A w \in Written : <<i, w>> \in Text
  BY DEF Text
<1>1. Recast(l, <<>>)
  <2>1. \A T : Free(<<>>, T)
    BY FreeLines
  <2>2. <<>> \in Line
    BY <2>1, FreeLines
  <2> QED
    BY <2>1, <2>2 DEF Recast
<1>2. ASSUME NEW w \in Written, NEW T, NoneWritten(T) PROVE Free(<<<<i, w>>>>, T)
  <2>1. <<i, w>> \notin T
    BY <1>2 DEF NoneWritten
  <2> QED
    BY <1>0, <2>1, FreeLines
<1>3. \A T : NoneWritten(T) /\ Free(l, T) => \A w \in Written : Free(l \o <<<<i, w>>>>, T)
  BY <1>2, FreeLines
<1>4. NoneWritten({}) /\ Free(l, {})
  BY FreeLines DEF NoneWritten
<1>5. \A w \in Written : Recast(l, l \o <<<<i, w>>>>)
  <2>1. \A w \in Written : l \o <<<<i, w>>>> \in Line
    BY <1>3, <1>4, FreeLines
  <2> QED
    BY <1>3, <2>1 DEF Recast
<1>6. ASSUME NEW w \in Written, NEW x \in Written
      PROVE  Recast(l, l \o <<<<i, w>>, <<i, x>>>>)
  <2>1. ASSUME NEW T, NoneWritten(T) PROVE Free(<<<<i, w>>, <<i, x>>>>, T)
    <3>1. PICK A : A = Text \ T
      OBVIOUS
    <3>2. <<i, w>> \in A /\ <<i, x>> \in A
      BY <1>0, <2>1, <3>1 DEF NoneWritten
    <3>3. <<<<i, w>>, <<i, x>>>> \in Seq(A)
      BY <3>2
    <3> QED
      BY <3>1, <3>3 DEF Free
  <2>2. PICK y : y = <<<<i, w>>, <<i, x>>>>
    OBVIOUS
  <2>3. \A T : NoneWritten(T) /\ Free(l, T) => Free(l \o y, T)
    BY <2>1, <2>2, FreeLines
  <2>4. l \o y \in Line
    BY <1>4, <2>3, FreeLines
  <2> QED
    BY <2>2, <2>3, <2>4 DEF Recast
<1>7. ASSUME NEW w \in Written, NEW old PROVE Recast(l, Rewritten(l, <<i, old>>, w))
  <2>0. PICK o : o = <<i, old>>
    OBVIOUS
  <2>1. PICK R : R = Rewritten(l, o, w) /\ o[1] = i
    BY <2>0
  <2>2. ASSUME NEW T, NoneWritten(T), Free(l, T) PROVE Free(R, T)
    <3>1. PICK A : A = Text \ T
      OBVIOUS
    <3>2. l \in Seq(A) /\ <<i, w>> \in A
      BY <1>0, <2>2, <3>1 DEF Free, NoneWritten
    <3>3. PICK n \in Nat : n = Len(l) /\ DOMAIN l = 1 .. n
      BY <3>2
    <3>4. R = [k \in 1 .. n |-> IF l[k] = o THEN <<i, w>> ELSE l[k]]
      BY <2>1, <3>3 DEF Rewritten
    <3>5. R \in [1 .. n -> A]
      BY <3>2, <3>3, <3>4
    <3>6. R \in Seq(A)
      BY <3>5
    <3> QED
      BY <3>1, <3>6 DEF Free
  <2>3. R \in Line
    BY <1>4, <2>2, FreeLines
  <2> QED
    BY <2>0, <2>1, <2>2, <2>3 DEF Recast
<1> QED
  BY <1>1, <1>5, <1>6, <1>7

\* The rows wanted of an item are a matter of the file, not of how far the work is.
Steady == file' = file /\ meta' = meta /\ in_sdcr_srcs' = in_sdcr_srcs

\* What is asked of the items depends on the file and on what was recorded only.
LEMMA WantedSteady ==
  ASSUME Steady
  PROVE  /\ SharedClass' = SharedClass /\ Items' = Items
         /\ \A C : OfClass(C)' = OfClass(C) /\ Declared(C)' = Declared(C)
         /\ SharedVarList' = SharedVarList /\ StaticVarList' = StaticVarList
         /\ StillShared' = StillShared
         /\ \A i : /\ NameRow(i)' = NameRow(i) /\ RBraceRow(i)' = RBraceRow(i)
                   /\ DeclStartRow(i)' = DeclStartRow(i) /\ Between(i)' = Between(i)
         /\ \A i, r : Row(i, r)' = Row(i, r) /\ Token(i, r)' = Token(i, r)
         /\ \A i, r : ListedRow(i, r)' = ListedRow(i, r)
         /\ \A i, r : FinalRow(i, r)' = FinalRow(i, r)
<1>1. SharedClass' = SharedClass /\ Items' = Items
  BY DEF Steady, SharedClass, Items
<1>2. \A C : OfClass(C)' = OfClass(C) /\ Declared(C)' = Declared(C)
  BY DEF Steady, OfClass, Declared, Items
<1>3. SharedVarList' = SharedVarList /\ StaticVarList' = StaticVarList
  BY DEF Steady, SharedVarList, StaticVarList, SharedClass, Declared, OfClass, Items
<1>4. StillShared' = StillShared
  BY <1>3 DEF Steady, StillShared
<1>5. \A i : /\ NameRow(i)' = NameRow(i) /\ RBraceRow(i)' = RBraceRow(i)
             /\ DeclStartRow(i)' = DeclStartRow(i) /\ Between(i)' = Between(i)
  BY DEF Steady, NameRow, RBraceRow, DeclStartRow, Between
<1>6. \A i, r : Row(i, r)' = Row(i, r) /\ Token(i, r)' = Token(i, r)
  BY DEF Steady, Row, Token
<1>7. \A i, r : ListedRow(i, r)' = ListedRow(i, r)
  BY DEF Steady, ListedRow, SharedClass, NameRow, RBraceRow, DeclStartRow, Between, Row, Token
<1>8. \A i, r : FinalRow(i, r)' = FinalRow(i, r)
  BY <1>7 DEF Steady, FinalRow
<1> QED
  BY <1>1, <1>2, <1>3, <1>4, <1>5, <1>6, <1>7, <1>8

\* The items whose rows nobody else takes, and that are not declared elsewhere.
Kept(i) == file[i].class # "outsider" /\ Ended(file[i])
MarkClass == {"outsider_opt", "callback", "interface", "sidecar"}

\* A row with its name rewritten, and one with a mark after it.
NewName(l, i, new, here) == IF here THEN Rewritten(l, <<i, "name">>, new) ELSE l
WithMark(l, w, here) == IF here THEN l \o w ELSE l

LEMMA ListedCases ==
  ASSUME NEW i, NEW r, NEW c, c = file[i].class
  PROVE  /\ c \notin MarkClass \cup VarClass => ListedRow(i, r) = Token(i, r)
         /\ c \in VarClass /\ c \notin SharedClass =>
              ListedRow(i, r) =
                IF c = "static" /\ ~in_sdcr_srcs /\ Row(i, r) = NameRow(i)
                  THEN Rewritten(Token(i, r), <<i, "static">>, "static __used")
                  ELSE Token(i, r)
         /\ c = "outsider_opt" =>
              ListedRow(i, r) =
                WithMark(Token(i, r), <<<<i, "warn">>>>, Row(i, r) = RBraceRow(i))
         /\ c = "callback" =>
              ListedRow(i, r) =
                WithMark(NewName(Token(i, r), i, "__used __cb_name", Row(i, r) = NameRow(i)),
                         <<<<i, "warn">>, <<i, "extern decl">>>>, Row(i, r) = RBraceRow(i))
         /\ c \in {"interface", "sidecar"} =>
              ListedRow(i, r) =
                WithMark(NewName(Token(i, r), i, "__used name",
                                 IsOn(file[i], "static") /\ Row(i, r) = NameRow(i)),
                         <<<<i, "warn">>>>, Row(i, r) = RBraceRow(i))
<1>1. SharedClass \subseteq VarClass
  BY DEF SharedClass, VarClass
<1>2. MarkClass \cap VarClass = {}
  BY DEF MarkClass, VarClass
<1>3. ASSUME c \notin MarkClass \cup VarClass PROVE ListedRow(i, r) = Token(i, r)
  <2>1. c # "outsider_opt" /\ c # "callback" /\ c \notin {"interface", "sidecar"}
    BY <1>3 DEF MarkClass
  <2>2. c # "static" /\ c \notin SharedClass
    BY <1>1, <1>3 DEF VarClass
  <2> QED
    BY <2>1, <2>2 DEF ListedRow
<1>4. ASSUME c \in VarClass, c \notin SharedClass
      PROVE  ListedRow(i, r) =
                IF c = "static" /\ ~in_sdcr_srcs /\ Row(i, r) = NameRow(i)
                  THEN Rewritten(Token(i, r), <<i, "static">>, "static __used")
                  ELSE Token(i, r)
  <2>1. c # "outsider_opt" /\ c # "callback" /\ c \notin {"interface", "sidecar"}
    BY <1>2, <1>4 DEF MarkClass
  <2> QED
    BY <1>4, <2>1 DEF ListedRow
<1>5. ASSUME c = "outsider_opt"
      PROVE  ListedRow(i, r) =
               WithMark(Token(i, r), <<<<i, "warn">>>>, Row(i, r) = RBraceRow(i))
  <2>1. c \notin SharedClass /\ c # "static"
    BY <1>1, <1>2, <1>5 DEF MarkClass, VarClass
  <2> QED
    BY <1>5, <2>1 DEF ListedRow, WithMark
<1>6. ASSUME c = "callback"
      PROVE  ListedRow(i, r) =
               WithMark(NewName(Token(i, r), i, "__used __cb_name", Row(i, r) = NameRow(i)),
                        <<<<i, "warn">>, <<i, "extern decl">>>>, Row(i, r) = RBraceRow(i))
  <2>1. c \notin SharedClass /\ c # "static"
    BY <1>1, <1>2, <1>6 DEF MarkClass, VarClass
  <2> QED
    BY <1>6, <2>1 DEF ListedRow, WithMark, NewName
<1>7. ASSUME c \in {"interface", "sidecar"}
      PROVE  ListedRow(i, r) =
               WithMark(NewName(Token(i, r), i, "__used name",
                                IsOn(file[i], "static") /\ Row(i, r) = NameRow(i)),
                        <<<<i, "warn">>>>, Row(i, r) = RBraceRow(i))
  <2>1. c \notin SharedClass /\ c # "static"
    BY <1>1, <1>2, <1>7 DEF MarkClass, VarClass
  <2> QED
    BY <1>7, <2>1 DEF ListedRow, WithMark, NewName
<1> QED
  BY <1>3, <1>4, <1>5, <1>6, <1>7

ListedIn(L, i) ==
  \A r \in 1 .. Len(file[i].rows) : L[Row(i, r)] = ListedRow(i, r)

LEMMA OutsiderWork ==
  ASSUME FreshInv, NEW i \in Items, ExtractOutsider(i)
  PROVE  /\ \E top : DeclaredOn(file, lines, lines', i, top)
         /\ Reworks(file, lines, lines', i)
<1>1. place = "fn" /\ i \in todo /\ place \in FnPlaces
  BY PlacesApart DEF ExtractOutsider, Work
<1>2. PICK F, L :
        /\ F \in ModFile \cup SdcrFile /\ F = file /\ L = lines
        /\ L \in [1 .. Total(F) -> Line] /\ Intact(F, L, i)
        /\ i \in 1 .. Len(F) /\ F[i].class \in FnClass
        /\ LBraceRow(i) = Collected(F)[i].lbrace /\ LBraceCol(i) = Collected(F)[i].lcol
        /\ RBraceRow(i) = Collected(F)[i].rbrace
  BY <1>1, FnItem
<1> F \in ModFile \cup SdcrFile
  BY <1>2
<1>3. PICK m : m = Collected(F)[i]
  OBVIOUS
<1>4. PICK E : E = Emptied(MergeUpLines(Cut(F, L, i), m.lbrace), m.lbrace + 1 .. m.rbrace)
  OBVIOUS
<1>5. E = ToDeclaration(lines, i)
  BY <1>2, <1>3, <1>4, Zenon DEF ToDeclaration, Cut
<1>6. PICK top : DeclaredOn(F, L, E, i, top)
  BY <1>2, <1>3, <1>4, OutsiderShape
<1>7. Reworks(F, L, E, i)
  BY <1>2, <1>6, DeclaredKeeps, Zenon DEF Reworks
<1>8. lines' = E
  BY <1>5, Zenon DEF ExtractOutsider, Work
<1> QED
  BY <1>2, <1>6, <1>7, <1>8

\* The name of a function on row x is rewritten, and a mark put after row e.
Marks(w) == \A l \in Line : Recast(l, l \o w)
Renamed(L, i, x, new, rename) ==
  IF rename THEN [L EXCEPT ![x] = Rewritten(@, <<i, "name">>, new)] ELSE L
MarkedTo(F, L, M, i, x, e, new, w, rename) ==
  /\ Reworks(F, L, M, i)
  /\ \A t \in 1 .. Total(F) :
       M[t] = WithMark(NewName(L[t], i, new, rename /\ t = x), w, t = e)

LEMMA MarkedRows ==
  ASSUME NEW F \in ModFile \cup SdcrFile, NEW i \in 1 .. Len(F),
         NEW L \in [1 .. Total(F) -> Line], NEW x \in Block(F, i), NEW e \in Block(F, i),
         NEW new \in Written, NEW w, Marks(w), NEW rename \in BOOLEAN,
         NEW M, M = [Renamed(L, i, x, new, rename) EXCEPT ![e] = @ \o w]
  PROVE  MarkedTo(F, L, M, i, x, e, new, w, rename)
<1>0. PICK K : K = Renamed(L, i, x, new, rename) /\ M = [K EXCEPT ![e] = @ \o w]
  OBVIOUS
<1>1. PICK n : n = Total(F)
  OBVIOUS
<1>2. x \in 1 .. n /\ e \in 1 .. n /\ i \in Nat
  <2>1. Len(F) \in Nat
    BY FileRows
  <2> QED
    BY <1>1, <2>1, BlockRows
<1>3. PICK y : y = Rewritten(L[x], <<i, "name">>, new)
  OBVIOUS
<1>4. L[x] \in Line /\ Recast(L[x], y)
  <2>1. L[x] \in Line
    BY <1>1, <1>2
  <2> QED
    BY <1>2, <1>3, <2>1, Recasts
<1>5. K \in [1 .. n -> Line]
  <2>1. y \in Line
    BY <1>4 DEF Recast
  <2> QED
    BY <1>1, <1>2, <1>0, <1>3, <2>1 DEF Renamed
<1>6. ASSUME NEW t \in 1 .. n
      PROVE  K[t] = IF rename /\ t = x THEN Rewritten(L[t], <<i, "name">>, new) ELSE L[t]
  BY <1>0, <1>1, <1>2, <1>3 DEF Renamed
<1>7. PICK z : z = K[e] \o w /\ K[e] \in Line /\ Recast(K[e], z)
  <2>1. K[e] \in Line
    BY <1>2, <1>5
  <2> QED
    BY <2>1 DEF Marks
<1>8. M = [K EXCEPT ![e] = z]
  BY <1>0, <1>2, <1>5, <1>7
<1>9. Reworks(F, K, M, i)
  BY <1>1, <1>5, <1>7, <1>8, RowRecast
<1>12. ASSUME NEW t \in 1 .. Total(F)
       PROVE  M[t] = WithMark(NewName(L[t], i, new, rename /\ t = x), w, t = e)
  <2>1. K[t] = NewName(L[t], i, new, rename /\ t = x)
    BY <1>1, <1>6, <1>12 DEF NewName
  <2>2. M[t] = WithMark(K[t], w, t = e)
    BY <1>1, <1>2, <1>5, <1>7, <1>8 DEF WithMark
  <2> QED
    BY <2>1, <2>2
<1>10. CASE rename
  <2>1. K = [L EXCEPT ![x] = y]
    BY <1>0, <1>1, <1>2, <1>3, <1>10 DEF Renamed
  <2>2. Reworks(F, L, K, i)
    BY <1>1, <1>4, <2>1, RowRecast
  <2>3. Reworks(F, L, M, i)
    BY <1>9, <2>2, ReworksBoth
  <2> QED
    BY <1>12, <2>3 DEF MarkedTo
<1>11. CASE ~rename
  <2>1. K = L
    BY <1>0, <1>11 DEF Renamed
  <2>2. Reworks(F, L, M, i)
    BY <1>9, <2>1
  <2> QED
    BY <1>12, <2>2 DEF MarkedTo
<1> QED
  BY <1>10, <1>11

LEMMA ReworksNone ==
  ASSUME NEW F, NEW i, NEW L \in [1 .. Total(F) -> Line]
  PROVE  Reworks(F, L, L, i)
BY DEF Reworks, Keeps, NoneNew

LEMMA IntactRows ==
  ASSUME NEW F \in ModFile \cup SdcrFile, F = file, NEW i \in 1 .. Len(F),
         NEW r \in 1 .. Len(F[i].rows)
  PROVE  /\ Row(i, r) \in Block(F, i) /\ Row(i, r) \in 1 .. Total(F)
         /\ RowOf(F, i, r) = Token(i, r)
         /\ \A L : Intact(F, L, i) => L[Row(i, r)] = Token(i, r)
<1>1. Row(i, r) = RowsBefore(F)[i - 1] + r /\ Row(i, r) \in Block(F, i)
  BY BlockRows DEF Row
<1>2. RowOf(F, i, r) = Token(i, r)
  BY DEF RowOf, Token
<1>3. Row(i, r) \in 1 .. Total(F)
  BY <1>1, BlockRows
<1> QED
  BY <1>1, <1>2, <1>3 DEF Intact

LEMMA MarkWork ==
  ASSUME FreshInv, NEW i \in Items,
         ExtractOptimised(i) \/ ExtractCallback(i) \/ ExtractInterface(i)
  PROVE  Reworks(file, lines, lines', i) /\ ListedIn(lines', i)
<1>1. place \in FnPlaces /\ i \in todo
  BY PlacesApart DEF ExtractOptimised, ExtractCallback, ExtractInterface, Work
<1>2. PICK F, L :
        /\ F \in ModFile \cup SdcrFile /\ F = file /\ L = lines
        /\ L \in [1 .. Total(F) -> Line] /\ Intact(F, L, i)
        /\ i \in 1 .. Len(F) /\ i \in Nat /\ F[i].class \in FnClass
        /\ NameRow(i) \in Block(F, i) /\ RBraceRow(i) \in Block(F, i)
  BY <1>1, FnItem
<1> F \in ModFile \cup SdcrFile
  BY <1>2
<1>3. PICK x \in Block(F, i), e \in Block(F, i) : x = NameRow(i) /\ e = RBraceRow(i)
  BY <1>2
<1>4. PICK warn, both : warn = <<<<i, "warn">>>> /\ both = <<<<i, "warn">>, <<i, "extern decl">>>>
  OBVIOUS
<1>5. /\ "warn" \in Written /\ "extern decl" \in Written
      /\ "__used __cb_name" \in Written /\ "__used name" \in Written
  BY DEF Written
<1>6. Marks(warn) /\ Marks(both)
  BY <1>2, <1>4, <1>5, Recasts DEF Marks
<1>7. F[i].class \in Now(place)
  BY <1>1, <1>2 DEF FreshInv, OfClass
<1>8. ASSUME NEW r \in 1 .. Len(F[i].rows)
      PROVE  Row(i, r) \in 1 .. Total(F) /\ L[Row(i, r)] = Token(i, r)
  BY <1>2, IntactRows
<1>9. PICK never, always \in BOOLEAN : always /\ ~never
  OBVIOUS
<1>10. CASE ExtractOptimised(i)
  <2>1. PICK M : M = [L EXCEPT ![e] = @ \o warn]
    OBVIOUS
  <2>2. lines' = M /\ F[i].class = "outsider_opt"
    BY <1>2, <1>3, <1>4, <1>10, <2>1 DEF ExtractOptimised, Work
  <2>3. MarkedTo(F, L, M, i, x, e, "__used name", warn, never)
    <3>1. M = [Renamed(L, i, x, "__used name", never) EXCEPT ![e] = @ \o warn]
      BY <1>9, <2>1 DEF Renamed
    <3> QED
      BY <1>2, <1>5, <1>6, <3>1, MarkedRows
  <2>4. ASSUME NEW r \in 1 .. Len(F[i].rows) PROVE M[Row(i, r)] = ListedRow(i, r)
    <3>1. ListedRow(i, r) = WithMark(Token(i, r), warn, Row(i, r) = e)
      BY <1>2, <1>3, <1>4, <2>2, ListedCases
    <3>2. PICK t \in 1 .. Total(F) : t = Row(i, r) /\ L[t] = Token(i, r)
      BY <1>8
    <3>3. M[t] = WithMark(NewName(L[t], i, "__used name", never /\ t = x), warn, t = e)
      BY <2>3, Zenon DEF MarkedTo
    <3>4. NewName(L[t], i, "__used name", never /\ t = x) = L[t]
      BY <1>9 DEF NewName
    <3> QED
      BY <3>1, <3>2, <3>3, <3>4
  <2> QED
    BY <1>2, <2>2, <2>3, <2>4 DEF ListedIn, MarkedTo
<1>11. CASE ExtractCallback(i)
  <2>1. PICK K : K = [L EXCEPT ![x] = Rewritten(@, <<i, "name">>, "__used __cb_name")]
    OBVIOUS
  <2>2. PICK M : M = [K EXCEPT ![e] = @ \o both]
    OBVIOUS
  <2>3. lines' = M /\ place = "callback"
    BY <1>2, <1>3, <1>4, <1>11, <2>1, <2>2 DEF ExtractCallback, Work
  <2>4. F[i].class = "callback"
    BY <1>7, <2>3 DEF Now
  <2>5. MarkedTo(F, L, M, i, x, e, "__used __cb_name", both, always)
    <3>1. M = [Renamed(L, i, x, "__used __cb_name", always) EXCEPT ![e] = @ \o both]
      BY <1>9, <2>1, <2>2 DEF Renamed
    <3> QED
      BY <1>2, <1>5, <1>6, <3>1, MarkedRows
  <2>6. ASSUME NEW r \in 1 .. Len(F[i].rows) PROVE M[Row(i, r)] = ListedRow(i, r)
    <3>1. ListedRow(i, r) =
            WithMark(NewName(Token(i, r), i, "__used __cb_name", Row(i, r) = x),
                     both, Row(i, r) = e)
      BY <1>2, <1>3, <1>4, <2>4, ListedCases
    <3>2. PICK t \in 1 .. Total(F) : t = Row(i, r) /\ L[t] = Token(i, r)
      BY <1>8
    <3>3. M[t] = WithMark(NewName(L[t], i, "__used __cb_name", always /\ t = x), both, t = e)
      BY <2>5, Zenon DEF MarkedTo
    <3>4. NewName(L[t], i, "__used __cb_name", always /\ t = x)
            = NewName(L[t], i, "__used __cb_name", t = x)
      BY <1>9 DEF NewName
    <3> QED
      BY <3>1, <3>2, <3>3, <3>4
  <2> QED
    BY <1>2, <2>3, <2>5, <2>6 DEF ListedIn, MarkedTo
<1>12. CASE ExtractInterface(i)
  <2>1. PICK used \in BOOLEAN : used = IsOn(F[i], "static")
    BY DEF IsOn
  <2>2. PICK K : K = IF used THEN [L EXCEPT ![x] = Rewritten(@, <<i, "name">>, "__used name")]
                     ELSE L
    OBVIOUS
  <2>3. PICK M : M = [K EXCEPT ![e] = @ \o warn]
    OBVIOUS
  <2>4. lines' = IF F[i].class = "syscall" THEN L ELSE M
    BY <1>2, <1>3, <1>4, <1>12, <2>1, <2>2, <2>3 DEF ExtractInterface, Work
  <2>5. F[i].class \in {"interface", "syscall", "sidecar"}
    <3>1. place = "interface"
      BY <1>12 DEF ExtractInterface, Work
    <3> QED
      BY <1>7, <3>1 DEF Now
  <2>6. MarkedTo(F, L, M, i, x, e, "__used name", warn, used)
    <3>1. M = [Renamed(L, i, x, "__used name", used) EXCEPT ![e] = @ \o warn]
      BY <2>2, <2>3 DEF Renamed
    <3> QED
      BY <1>2, <1>5, <1>6, <3>1, MarkedRows
  <2>7. CASE F[i].class = "syscall"
    <3>1. \A r : ListedRow(i, r) = Token(i, r)
      <4>1. F[i].class \notin MarkClass \cup VarClass
        BY <2>7 DEF MarkClass, VarClass
      <4> QED
        BY <1>2, <4>1, ListedCases
    <3> QED
      BY <1>2, <1>8, <2>4, <2>7, <3>1, ReworksNone DEF ListedIn
  <2>8. CASE F[i].class \in {"interface", "sidecar"}
    <3>1. ASSUME NEW r \in 1 .. Len(F[i].rows) PROVE M[Row(i, r)] = ListedRow(i, r)
      <4>1. ListedRow(i, r) =
              WithMark(NewName(Token(i, r), i, "__used name", used /\ Row(i, r) = x),
                       warn, Row(i, r) = e)
        BY <1>2, <1>3, <1>4, <2>1, <2>8, ListedCases
      <4>2. PICK t \in 1 .. Total(F) : t = Row(i, r) /\ L[t] = Token(i, r)
        BY <1>8
      <4>3. M[t] = WithMark(NewName(L[t], i, "__used name", used /\ t = x), warn, t = e)
        BY <2>6, Zenon DEF MarkedTo
      <4> QED
        BY <4>1, <4>2, <4>3
    <3>2. lines' = M
      BY <2>4, <2>8
    <3> QED
      BY <1>2, <2>6, <3>1, <3>2 DEF ListedIn, MarkedTo
  <2> QED
    BY <2>5, <2>7, <2>8
<1> QED
  BY <1>10, <1>11, <1>12

LEMMA RecastBoth ==
  ASSUME NEW l, NEW l1, NEW l2, Recast(l, l1), Recast(l1, l2)
  PROVE  Recast(l, l2)
BY DEF Recast

LEMMA RewrittenTwice ==
  ASSUME NEW l, NEW i, NEW old, NEW new, new # old,
         NEW R, R = Rewritten(l, <<i, old>>, new)
  PROVE  Rewritten(R, <<i, old>>, new) = R
<1>1. PICK o, w : o = <<i, old>> /\ w = <<i, new>>
  OBVIOUS
<1>2. o # w /\ o[1] = i
  <2>1. o[2] # w[2]
    BY <1>1
  <2> QED
    BY <1>1, <2>1
<1>3. R = Rewritten(l, o, new)
  BY <1>1
<1>4. R = [k \in DOMAIN l |-> IF l[k] = o THEN w ELSE l[k]]
  BY <1>1, <1>2, <1>3 DEF Rewritten
<1>5. DOMAIN R = DOMAIN l /\ \A k \in DOMAIN l : R[k] # o /\ R[k] = R[k]
  BY <1>2, <1>4
<1>6. Rewritten(R, o, new) = [k \in DOMAIN l |-> R[k]]
  BY <1>5 DEF Rewritten
<1>7. [k \in DOMAIN l |-> R[k]] = R
  BY <1>4
<1> QED
  BY <1>1, <1>3, <1>6, <1>7

LEMMA StaticWork ==
  ASSUME FreshInv, NEW v \in todo, ExtractStatic(v)
  PROVE  /\ v[1] \in Items /\ file[v[1]].class = "static" /\ ~in_sdcr_srcs
         /\ Reworks(file, lines, lines', v[1])
         /\ Intact(file, lines, v[1]) \/ ListedIn(lines, v[1]) => ListedIn(lines', v[1])
<1>1. PICK F, L, i : F \in ModFile \cup SdcrFile /\ F = file /\ L = lines /\ i = v[1]
  BY DEF FreshInv
<1> F \in ModFile \cup SdcrFile
  BY <1>1
<1>2. PICK x : x = NameRow(i)
  OBVIOUS
<1>3. place = "static_var" /\ lines' = [L EXCEPT ![x] = Rewritten(@, <<i, "static">>, "static __used")]
  BY <1>1, <1>2 DEF ExtractStatic, Work
<1>4. L \in [1 .. Total(F) -> Line] /\ v \in StaticVarList
  BY <1>1, <1>3 DEF FreshInv, VarPlaces
<1>5. i \in Items /\ i \in 1 .. Len(F) /\ F[i].class \in VarClass
  BY <1>1, <1>4, SharedVars
<1>6. F[i].class = "static" /\ ~in_sdcr_srcs
  <2>1. i \in OfClass(IF in_sdcr_srcs THEN {} ELSE {"static"})
    BY <1>1, <1>4 DEF StaticVarList, Declared
  <2> QED
    BY <1>1, <2>1 DEF OfClass
<1>7. x \in Block(F, i) /\ x \in 1 .. Total(F)
  <2>1. meta = Collected(F)
    BY <1>1 DEF FreshInv
  <2>2. On(F, i, x, "name")
    BY <1>2, <1>5, <2>1, CollectedRows DEF NameRow, Known
  <2>3. x \in Block(F, i)
    BY <2>2 DEF On
  <2> QED
    BY <1>5, <2>3, BlockRows
<1>8. PICK y : y = Rewritten(L[x], <<i, "static">>, "static __used")
  OBVIOUS
<1>9. Recast(L[x], y)
  <2>1. L[x] \in Line /\ i \in Nat /\ "static __used" \in Written
    <3>1. Len(F) \in Nat
      BY FileRows
    <3> QED
      BY <1>4, <1>5, <1>7, <3>1 DEF Written
  <2> QED
    BY <1>8, <2>1, Recasts
<1>10. PICK M : M = lines' /\ M = [L EXCEPT ![x] = y]
  BY <1>3, <1>4, <1>7, <1>8
<1>11. Reworks(F, L, M, i)
  BY <1>4, <1>5, <1>7, <1>9, <1>10, RowRecast
<1>12. ASSUME NEW r \in 1 .. Len(F[i].rows)
       PROVE  ListedRow(i, r) = IF Row(i, r) = x
                                  THEN Rewritten(Token(i, r), <<i, "static">>, "static __used")
                                  ELSE Token(i, r)
  <2>1. F[i].class \notin SharedClass
    BY <1>6 DEF SharedClass
  <2> QED
    BY <1>1, <1>2, <1>5, <1>6, <2>1, ListedCases
<1>13. ASSUME Intact(F, L, i), NEW r \in 1 .. Len(F[i].rows)
       PROVE  M[Row(i, r)] = ListedRow(i, r)
  <2>1. Row(i, r) \in 1 .. Total(F) /\ L[Row(i, r)] = Token(i, r)
    BY <1>1, <1>5, <1>13, IntactRows
  <2> QED
    BY <1>4, <1>8, <1>10, <1>12, <2>1
<1>14. ASSUME ListedIn(L, i), NEW r \in 1 .. Len(F[i].rows)
       PROVE  M[Row(i, r)] = ListedRow(i, r)
  <2>1. Row(i, r) \in 1 .. Total(F) /\ L[Row(i, r)] = ListedRow(i, r)
    BY <1>1, <1>5, <1>14, IntactRows DEF ListedIn
  <2>2. CASE Row(i, r) = x
    <3>1. ListedRow(i, r) = Rewritten(Token(i, r), <<i, "static">>, "static __used")
      BY <1>12, <2>2
    <3>0. "static __used" # "static"
      OBVIOUS
    <3>a. PICK old, new : old = "static" /\ new = "static __used" /\ new # old
      BY <3>0, Zenon
    <3>2. Rewritten(ListedRow(i, r), <<i, "static">>, "static __used") = ListedRow(i, r)
      <4>1. PICK R : R = ListedRow(i, r) /\ R = Rewritten(Token(i, r), <<i, old>>, new)
        BY <3>1, <3>a
      <4>2. Rewritten(R, <<i, old>>, new) = R
        <5>1. PICK l : R = Rewritten(l, <<i, old>>, new) /\ new # old
          BY <3>a, <4>1
        <5> QED
          BY <5>1, RewrittenTwice
      <4> QED
        BY <3>a, <4>1, <4>2
    <3> QED
      BY <1>4, <1>8, <1>10, <2>1, <2>2, <3>2
  <2>3. CASE Row(i, r) # x
    BY <1>4, <1>10, <2>1, <2>3
  <2> QED
    BY <2>2, <2>3
<1>15. Intact(F, L, i) \/ ListedIn(L, i) => ListedIn(M, i)
  BY <1>1, <1>13, <1>14 DEF ListedIn
<1> QED
  BY <1>1, <1>5, <1>6, <1>10, <1>11, <1>15

LEMMA WithinReworks ==
  ASSUME NEW F \in ModFile \cup SdcrFile, NEW i \in 1 .. Len(F), NEW L, NEW M,
         Within(F, L, M, i),
         \A T : NoneWritten(T) /\ (\A u \in Block(F, i) : Free(L[u], T)) =>
                  \A t \in Block(F, i) : Free(M[t], T)
  PROVE  Reworks(F, L, M, i)
<1>1. Keeps(F, L, M, i)
  <2>1. ASSUME NEW j \in 1 .. Len(F), j # i, NEW t \in Block(F, j) PROVE M[t] = L[t]
    <3>1. t \in 1 .. Total(F) /\ t \notin Block(F, i)
      BY <2>1, BlocksDisjoint
    <3> QED
      BY <3>1 DEF Within
  <2> QED
    BY <2>1 DEF Keeps, Within
<1>2. ASSUME NEW T, NoneWritten(T), Clear(F, L, i, T) PROVE NoneNew(F, L, M, T)
  <2>1. \A u \in Block(F, i) : Free(L[u], T)
    BY <1>2, BlockFree
  <2>2. \A t \in Block(F, i) : Free(M[t], T)
    BY <1>2, <2>1
  <2> QED
    BY <2>2 DEF Within, NoneNew
<1> QED
  BY <1>1, <1>2 DEF Reworks

\* The rows of a declaration are joined as far as the first semicolon.
LEMMA MergeDownShape ==
  ASSUME NEW n \in Nat, NEW L \in [1 .. n -> Line], NEW s \in 1 .. n, NEW z \in s .. n,
         Has(L[z], Semicolon)
  PROVE  \E e \in s .. z : /\ MergeDownVar(L, s) = Join(L, s, e, s)
                           /\ Has(L[e], Semicolon)
                           /\ \A u \in s .. n : Has(L[u], Semicolon) => e <= u
<1>1. DOMAIN L = 1 .. n /\ Len(L) = n /\ s .. n \subseteq Nat /\ s .. n \subseteq 1 .. n
  OBVIOUS
<1>2. PICK S : S = {e \in s .. n : Has(L[e], Semicolon)} /\ S = MergeDownVarEnds(L, s)
  BY <1>1 DEF MergeDownVarEnds, Semicolon
<1>3. PICK e \in s .. z : e \in S /\ Min2(S) = e /\ \A u \in S : e <= u
  <2>1. S \subseteq Nat /\ z \in S
    BY <1>1, <1>2
  <2>2. Min2(S) \in S /\ Min2(S) <= z /\ \A u \in S : Min2(S) <= u
    BY <2>1, LeastOf
  <2>3. \A e \in s .. n : e <= z => e \in s .. z
    OBVIOUS
  <2> QED
    BY <1>2, <2>2, <2>3
<1>4. MergeDownVar(L, s) = Join(L, s, e, s)
  BY <1>2, <1>3 DEF MergeDownVar
<1> QED
  BY <1>2, <1>3, <1>4

\* The merging writes nothing on the rows of a variable that was not on them.
LEMMA MergeFree ==
  ASSUME NEW n \in Nat, NEW L \in [1 .. n -> Line], NEW s \in 1 .. n, NEW z \in s .. n,
         NEW R, z \notin R, Has(L[z], Semicolon), NEW B, s .. z \subseteq B,
         NEW M, M = MergeDownVar(Emptied(L, R), s),
         NEW T, \A u \in B : Free(L[u], T)
  PROVE  \A t \in B : t \in 1 .. n => Free(M[t], T)
<1>1. PICK O \in [1 .. n -> Line] :
        O = Emptied(L, R) /\ \A t \in 1 .. n : O[t] = IF t \in R THEN <<>> ELSE L[t]
  <2>1. Emptied(L, R) = [t \in 1 .. n |-> IF t \in R THEN <<>> ELSE L[t]]
    BY DEF Emptied
  <2>2. Emptied(L, R) \in [1 .. n -> Line]
    BY EmptiedRows
  <2> QED
    BY <2>1, <2>2
<1>2. z \in 1 .. n /\ \A e \in s .. z : e \in s .. n /\ s .. e \subseteq s .. z
  OBVIOUS
<1>3. Has(O[z], Semicolon)
  BY <1>1, <1>2
<1>4. PICK e \in s .. z : M = Join(O, s, e, s)
  BY <1>1, <1>3, MergeDownShape
<1>5. \A u \in B : u \in 1 .. n => Free(O[u], T)
  BY <1>1, FreeLines
<1>6. s .. e \subseteq B /\ s .. e \subseteq 1 .. n
  BY <1>2
<1>7. Free(FlattenSeq(SubSeq(O, s, e)), T)
  <2>1. \A u \in s .. e : Free(O[u], T)
    BY <1>5, <1>6
  <2> QED
    BY <1>2, <2>1, JoinFree
<1>8. M = [t \in 1 .. n |-> IF t = s THEN FlattenSeq(SubSeq(O, s, e))
                            ELSE IF t \in s .. e THEN <<>> ELSE O[t]]
  BY <1>2, <1>4, JoinExact
<1> QED
  BY <1>5, <1>7, <1>8, FreeLines

\* Merging writes on the rows of a variable what was on them.
LEMMA MergeReworks ==
  ASSUME NEW F \in ModFile \cup SdcrFile, NEW i \in 1 .. Len(F), F[i].class \in VarClass,
         NEW L \in [1 .. Total(F) -> Line], Mergeable(F, L, i),
         NEW m, m = Collected(F)[i],
         NEW M, M = MergeDownVar(Emptied(L, m.start + 1 .. m.name - 1), m.start)
  PROVE  Reworks(F, L, M, i)
<1>1. PICK s, x, b, n \in Nat : VarAt(F, i, s, x, b, n)
  BY VarRows
<1>2. /\ s = m.start /\ x = m.name /\ b = RowsBefore(F)[i] /\ n = Total(F)
      /\ 1 <= s /\ s <= b /\ x <= b /\ b <= n
      /\ s .. b \subseteq Block(F, i) /\ s .. b \subseteq 1 .. n
  BY <1>1 DEF VarAt
<1>3. PICK z \in s .. b : z \notin s + 1 .. x - 1 /\ Has(L[z], Semicolon)
  BY <1>2 DEF Mergeable
<1>4. s \in 1 .. n /\ z \in s .. n /\ s .. z \subseteq s .. b
  BY <1>2
<1>5. PICK R : R = s + 1 .. x - 1
  OBVIOUS
<1>6. M = MergeDownVar(Emptied(L, R), s) /\ L \in [1 .. n -> Line] /\ z \notin R
  BY <1>2, <1>3, <1>5
<1>7. s .. z \subseteq Block(F, i)
  BY <1>2, <1>4
<1>8. ASSUME NEW T, \A u \in Block(F, i) : Free(L[u], T)
      PROVE  \A t \in Block(F, i) : Free(M[t], T)
  <2>1. \A t \in Block(F, i) : t \in 1 .. n => Free(M[t], T)
    <3>1. PICK B : B = Block(F, i)
      OBVIOUS
    <3>2. s .. z \subseteq B /\ \A u \in B : Free(L[u], T)
      BY <1>7, <1>8, <3>1
    <3>3. \A t \in B : t \in 1 .. n => Free(M[t], T)
      BY <1>3, <1>4, <1>6, <3>2, MergeFree
    <3> QED
      BY <3>1, <3>3
  <2>2. Block(F, i) \subseteq 1 .. n
    <3>1. Block(F, i) \subseteq 1 .. Total(F)
      BY BlockRows
    <3> QED
      BY <1>2, <3>1
  <2> QED
    BY <2>1, <2>2
<1>9. Within(F, L, M, i)
  BY MergeWithin
<1> QED
  BY <1>8, <1>9, WithinReworks

LEMMA MergeWork ==
  ASSUME FreshInv, NEW v \in todo, MergeShared(v)
  PROVE  v[1] \in OfClass(SharedClass) /\ Reworks(file, lines, lines', v[1])
<1>1. PICK F, L, m, i :
        F \in ModFile \cup SdcrFile /\ F = file /\ L = lines /\ m = meta[v[1]] /\ i = v[1]
  BY DEF FreshInv
<1> F \in ModFile \cup SdcrFile
  BY <1>1
<1>2. place = "merge_var"
  BY DEF MergeShared, Work
<1>3. /\ L \in [1 .. Total(F) -> Line] /\ m = Collected(F)[i] /\ v \in SharedVarList
      /\ Mergeable(F, L, i)
  BY <1>1, <1>2 DEF FreshInv, VarPlaces
<1>4. i \in OfClass(SharedClass) /\ i \in 1 .. Len(F) /\ F[i].class \in VarClass
  BY <1>1, <1>3, SharedVars
<1>5. PICK M : M = MergeDownVar(Emptied(L, m.start + 1 .. m.name - 1), m.start)
  OBVIOUS
<1>6. PICK P : P = [M EXCEPT ![m.start] = DeclarePerCpu(@, i)]
  OBVIOUS
<1>7. lines' = M \/ lines' = P
  BY <1>1, <1>5, <1>6 DEF MergeShared, Work, Between, DeclStartRow, NameRow
<1>8. Reworks(F, L, M, i) /\ M \in [1 .. Total(F) -> Line]
  <2>1. Reworks(F, L, M, i)
    BY <1>3, <1>4, <1>5, MergeReworks
  <2> QED
    BY <2>1 DEF Reworks, Keeps
<1>9. Reworks(F, M, P, i)
  <2>1. PICK s, x, b, n \in Nat : VarAt(F, i, s, x, b, n)
    BY <1>4, VarRows
  <2>2. s = m.start /\ s \in Block(F, i) /\ s \in 1 .. Total(F)
    <3>1. s \in s .. b
      BY <2>1 DEF VarAt
    <3> QED
      BY <1>3, <2>1, <3>1 DEF VarAt
  <2>3. PICK l2 : l2 = DeclarePerCpu(M[s], i)
    OBVIOUS
  <2>4. Recast(M[s], l2)
    <3>1. M[s] \in Line /\ i \in Nat
      <4>1. Len(F) \in Nat
        BY FileRows
      <4> QED
        BY <1>4, <1>8, <2>2, <4>1
    <3>2. PICK l1 : l1 = Rewritten(M[s], <<i, "DEFINE_PER_CPU">>, "DECLARE_PER_CPU")
      OBVIOUS
    <3>3. l2 = Rewritten(l1, <<i, "static">>, "")
      BY <2>3, <3>2 DEF DeclarePerCpu
    <3>4. "DECLARE_PER_CPU" \in Written /\ "" \in Written
      BY DEF Written
    <3>5. Recast(M[s], l1)
      BY <3>1, <3>2, <3>4, Recasts
    <3>6. l1 \in Line
      BY <3>5 DEF Recast
    <3>7. Recast(l1, l2)
      BY <3>1, <3>3, <3>4, <3>6, Recasts
    <3> QED
      BY <3>5, <3>7, RecastBoth
  <2>5. P = [M EXCEPT ![s] = l2]
    BY <1>6, <1>8, <2>2, <2>3
  <2> QED
    BY <1>4, <1>8, <2>2, <2>4, <2>5, RowRecast
<1>10. Reworks(F, L, P, i)
  BY <1>8, <1>9, ReworksBoth
<1> QED
  BY <1>1, <1>4, <1>7, <1>8, <1>10
LEMMA TokensFree ==
  ASSUME NEW F \in ModFile \cup SdcrFile, NEW i \in 1 .. Len(F),
         NEW r \in 1 .. Len(F[i].rows), NEW T,
         \A k \in DOMAIN F[i].rows[r] : <<i, F[i].rows[r][k]>> \notin T
  PROVE  Free(RowOf(F, i, r), T)
<1>1. PICK l \in Seq(STRING) : l = F[i].rows[r]
  BY FileRows
<1>2. i \in Nat
  <2>1. Len(F) \in Nat
    BY FileRows
  <2> QED
    BY <2>1
<1>3. PICK n \in Nat : n = Len(l) /\ DOMAIN l = 1 .. n
  OBVIOUS
<1>4. \A k \in 1 .. n : l[k] \in STRING /\ <<i, l[k]>> \notin T
  <2>1. \A k \in 1 .. n : l[k] \in STRING
    BY <1>3
  <2>2. \A k \in 1 .. n : <<i, l[k]>> \notin T
    BY <1>1, <1>3
  <2> QED
    BY <2>1, <2>2
<1>5. \A k \in 1 .. n : <<i, l[k]>> \in Text \ T
  <2>1. ASSUME NEW k \in 1 .. n PROVE <<i, l[k]>> \in Text \ T
    <3>1. PICK w : w = l[k] /\ w \in STRING /\ <<i, w>> \notin T
      BY <1>4
    <3>2. <<i, w>> \in Text
      BY <1>2, <3>1 DEF Text
    <3> QED
      BY <3>1, <3>2
  <2> QED
    BY <2>1
<1>6. PICK R : R = [k \in 1 .. n |-> <<i, l[k]>>] /\ R = RowOf(F, i, r)
  BY <1>1, <1>3 DEF RowOf, Tokens
<1>7. R \in [1 .. n -> Text \ T]
  BY <1>5, <1>6
<1>8. R \in Seq(Text \ T)
  BY <1>7
<1> QED
  BY <1>6, <1>8 DEF Free

-------------------------------------------------------------------------------
(***************************************************************************)
(* The brace of an outsider is on its own rows, as long as it is to be     *)
(* worked on, and then nowhere.                                            *)
(***************************************************************************)
Brace(i) == {<<i, "{">>}

LEMMA BraceTokens ==
  ASSUME NEW i \in Nat, NEW j \in Nat
  PROVE  /\ NoneWritten(Brace(i))
         /\ \A w : <<j, w>> \in Brace(i) => j = i /\ w = "{"
<1>1. \A k \in Nat : \A w : <<k, w>> \in Brace(i) => k = i /\ w = "{"
  <2>1. ASSUME NEW k \in Nat, NEW w, <<k, w>> \in Brace(i) PROVE k = i /\ w = "{"
    <3>1. <<k, w>> = <<i, "{">>
      BY <2>1 DEF Brace
    <3> QED
      BY <3>1
  <2> QED
    BY <2>1
<1>2. "{" \notin Written
  BY DEF Written
<1> QED
  BY <1>1, <1>2 DEF NoneWritten

\* The declaration made of an outsider has no brace of its body.
LEMMA DeclarationFree ==
  ASSUME NEW F \in ModFile \cup SdcrFile, NEW i \in 1 .. Len(F), F[i].class \in FnClass,
         NEW L \in [1 .. Total(F) -> Line], Intact(F, L, i), NEW E, NEW top,
         DeclaredOn(F, L, E, i, top), NEW T, T = Brace(i),
         \A t \in 1 .. Total(F) : Free(L[t], T) \/ t \in Block(F, i)
  PROVE  \A t \in 1 .. Total(F) : Free(E[t], T)
<1>1. PICK a \in Nat, e \in Nat, n \in Nat :
        a = RowsBefore(F)[i - 1] /\ e = RowsBefore(F)[i] /\ n = Total(F) /\ e <= n
  BY BlocksApart
<1>2. PICK r, c : r = Collected(F)[i].lbrace /\ c = Collected(F)[i].lcol
  OBVIOUS
<1>3. CutAt(F, L, i, r, c)
  BY <1>2, CutRows
<1>4. PICK cut \in [1 .. n -> Line] : cut = Cut(F, L, i)
  BY <1>1, <1>3 DEF CutAt
<1>5. /\ r \in Block(F, i) /\ c \in 1 .. Len(L[r]) /\ L[r] = RowOf(F, i, r - a)
      /\ cut[r] = SubSeq(L[r], 1, c - 1) \o <<<<i, ";">>>>
      /\ \A t \in 1 .. n : t # r => cut[t] = L[t]
  BY <1>1, <1>3, <1>4 DEF CutAt
<1>6. /\ top \in 1 .. r
      /\ E = [t \in 1 .. n |-> IF t = top THEN FlattenSeq(SubSeq(cut, top, r))
                               ELSE IF t \in top .. e THEN <<>> ELSE L[t]]
  BY <1>1, <1>2, <1>4 DEF DeclaredOn
<1>7. r \in a + 1 .. e /\ r \in 1 .. n /\ top \in 1 .. n /\ r \in top .. n
  <2>1. r \in a + 1 .. e
    BY <1>1, <1>5 DEF Block
  <2> QED
    BY <1>1, <1>6, <2>1
<1>8. i \in Nat
  <2>1. Len(F) \in Nat
    BY FileRows
  <2> QED
    BY <2>1
<1>9. ASSUME NEW t \in Block(F, i), t < r PROVE Free(L[t], T)
  <2>1. PICK q \in 1 .. Len(F[i].rows) : q = t - a /\ t = a + q
    BY <1>1, BlockRows
  <2>2. ~OnRow(F[i], q, "{")
    <3>1. ~On(F, i, t, "{")
      BY <1>2, <1>9, BraceRows
    <3> QED
      BY <1>1, <1>9, <2>1, <3>1 DEF On
  <2>3. L[t] = RowOf(F, i, q)
    BY <1>1, <2>1 DEF Intact
  <2>4. \A k \in DOMAIN F[i].rows[q] : <<i, F[i].rows[q][k]>> \notin T
    BY <1>8, <2>2, BraceTokens DEF OnRow
  <2> QED
    BY <2>3, <2>4, TokensFree
<1>10. ASSUME NEW t \in 1 .. n, t <= e, t # r, t < r \/ t \notin Block(F, i)
       PROVE  Free(L[t], T)
  BY <1>1, <1>9, <1>10
<1>11. Free(cut[r], T)
  <2>1. PICK l : l = F[i].rows[r - a]
    OBVIOUS
  <2>2. r - a \in 1 .. Len(F[i].rows)
    BY <1>1, <1>5, BlockRows
  <2>3. L[r] \in Line /\ DOMAIN L[r] = DOMAIN l /\ \A k \in DOMAIN l : L[r][k] = <<i, l[k]>>
    BY <1>1, <1>5, <1>7, <2>1 DEF RowOf, Tokens
  <2>4. \A k \in DOMAIN l : k < c => l[k] # "{"
    <3>1. PICK m : m = Collected(F)[i] /\ l = F[i].rows[m.lbrace - RowsBefore(F)[i - 1]]
      BY <1>1, <1>2, <2>1
    <3>2. \A k \in DOMAIN l : k < m.lcol => l[k] # "{"
      <4>1. FirstBrace(F, i, m)
        BY <3>1, BraceRows
      <4> QED
        BY <3>1, <4>1, Zenon DEF FirstBrace
    <3> QED
      BY <1>2, <3>1, <3>2
  <2>5. PICK p \in Line : p = SubSeq(L[r], 1, c - 1) /\ Free(p, T)
    <3>1. PICK d \in Nat, N \in Nat : d = c - 1 /\ N = Len(L[r]) /\ d <= N /\ c = d + 1
      <4>1. PICK N \in Nat : N = Len(L[r])
        BY <2>3 DEF Line
      <4>2. c \in 1 .. N
        BY <1>5, <4>1
      <4>3. PICK d \in Nat : d = c - 1 /\ d <= N /\ c = d + 1
        BY <4>2
      <4> QED
        BY <4>1, <4>3
    <3>2. DOMAIN L[r] = 1 .. N
      BY <2>3, <3>1 DEF Line
    <3>3. PICK p : p = SubSeq(L[r], 1, c - 1)
      OBVIOUS
    <3>4. p \in Line /\ Len(p) = d /\ \A k \in 1 .. d : p[k] = L[r][k]
      <4>1. p = SubSeq(L[r], 1, d)
        BY <3>1, <3>3
      <4> QED
        BY <2>3, <3>1, <4>1 DEF Line
    <3>5. \A k \in 1 .. d : p[k] \notin T
      <4>1. ASSUME NEW k \in 1 .. d PROVE p[k] \notin T
        <5>1. k \in DOMAIN l /\ k < c
          BY <2>3, <3>1, <3>2
        <5>2. p[k] = <<i, l[k]>> /\ l[k] # "{"
          BY <2>3, <2>4, <3>4, <5>1
        <5> QED
          BY <1>8, <5>2, BraceTokens
      <4> QED
        BY <4>1
    <3>6. Free(p, T)
      <4>1. \A x \in Line : (\A k \in 1 .. Len(x) : x[k] \notin T) => Free(x, T)
        BY FreeLines
      <4>2. \A k \in 1 .. Len(p) : p[k] \notin T
        BY <3>4, <3>5
      <4> QED
        BY <3>4, <4>1, <4>2
    <3> QED
      BY <3>3, <3>4, <3>6
  <2>6. Free(<<<<i, ";">>>>, T)
    <3>1. <<i, ";">> \in Text
      BY <1>8, Texts
    <3>2. <<i, ";">> \notin T
      <4>1. NoneWritten(T) /\ ";" \in Written
        BY <1>8, BraceTokens DEF Written
      <4> QED
        BY <1>8, <4>1 DEF NoneWritten
    <3>3. PICK tk : tk = <<i, ";">>
      OBVIOUS
    <3>4. Free(<<tk>>, T)
      BY <3>1, <3>2, <3>3, FreeLines
    <3> QED
      BY <3>3, <3>4
  <2>7. PICK q : q = <<<<i, ";">>>>
    OBVIOUS
  <2>8. Free(p \o q, T)
    BY <2>5, <2>6, <2>7, FreeLines
  <2> QED
    BY <1>5, <2>5, <2>7, <2>8
<1>12. Free(FlattenSeq(SubSeq(cut, top, r)), T)
  <2>1. ASSUME NEW u \in top .. r PROVE Free(cut[u], T)
    <3>1. CASE u = r
      BY <1>11, <3>1
    <3>2. CASE u # r
      <4>1. u \in 1 .. n /\ u < r /\ u <= e
        BY <1>6, <1>7, <3>2
      <4> QED
        BY <1>5, <1>10, <3>2, <4>1
    <3> QED
      BY <3>1, <3>2
  <2> QED
    BY <1>7, <2>1, JoinFree
<1>13. ASSUME NEW t \in 1 .. n PROVE Free(E[t], T)
  <2>1. CASE t = top
    BY <1>6, <1>12, <2>1
  <2>2. CASE t # top /\ t \in top .. e
    BY <1>6, <2>2, FreeLines
  <2>3. CASE t # top /\ t \notin top .. e
    <3>1. E[t] = L[t]
      BY <1>6, <2>3
    <3>2. t < r \/ t > e
      BY <1>1, <1>6, <1>7, <2>3
    <3>3. t > e => t \notin Block(F, i)
      BY <1>1 DEF Block
    <3>4. Free(L[t], T)
      BY <1>1, <1>9, <3>2, <3>3
    <3> QED
      BY <3>1, <3>4
  <2> QED
    BY <2>1, <2>2, <2>3
<1> QED
  BY <1>1, <1>13
-------------------------------------------------------------------------------
(***************************************************************************)
(* The rows at every place, and a step of one of the lists that works on   *)
(* item i.                                                                 *)
(***************************************************************************)
LastPlaces == {"fix_up", "done"}

\* The rows are as many as they were, and the last pass begins with the first.
LinesInv ==
  /\ lines \in [1 .. Total(file) -> Line]
  /\ row \in Nat /\ 1 <= row
  /\ place \notin LastPlaces => row = 1
  /\ place = "done" => row > Total(file)
  /\ place \in {"delete_var", "declare_var"} => todo \subseteq StillShared

Working(i) ==
  /\ i \in 1 .. Len(file) /\ file[i].class \in Known
  /\ Reworks(file, lines, lines', i) /\ Steady
  /\ place \notin LastPlaces /\ place' = place /\ row' = row
  /\ place \in FnPlaces => todo' = todo \ {i}
  /\ place \notin FnPlaces => \E v \in todo : v[1] = i /\ todo' = todo \ {v}

LEMMA OutsiderWorking ==
  ASSUME FreshInv, NEW i \in Items, ExtractOutsider(i)
  PROVE  Working(i) /\ place = "fn" /\ i \in todo /\ file[i].class = "outsider"
<1>1. Reworks(file, lines, lines', i)
  BY OutsiderWork
<1>2. i \in 1 .. Len(file)
  BY SharedVars
<1>3. /\ Steady /\ place = "fn" /\ place' = place /\ row' = row
      /\ todo' = todo \ {i} /\ i \in todo /\ file[i].class = "outsider"
  BY DEF ExtractOutsider, Work, Steady
<1>4. "fn" \notin LastPlaces /\ "fn" \in FnPlaces /\ "outsider" \in Known
  BY DEF LastPlaces, FnPlaces, Known, FnClass
<1> QED
  BY <1>1, <1>2, <1>3, <1>4 DEF Working

LEMMA MarkWorking ==
  ASSUME FreshInv, NEW i \in Items,
         ExtractOptimised(i) \/ ExtractCallback(i) \/ ExtractInterface(i)
  PROVE  /\ Working(i) /\ place \in FnPlaces /\ i \in todo /\ todo' = todo \ {i}
         /\ file[i].class # "outsider"
<1>1. Reworks(file, lines, lines', i)
  BY MarkWork
<1>2. i \in 1 .. Len(file)
  BY SharedVars
<1>3. \/ place = "fn" /\ file[i].class = "outsider_opt"
      \/ place \in {"callback", "interface"}
  BY DEF ExtractOptimised, ExtractCallback, ExtractInterface, Work
<1>4. Steady /\ place' = place /\ row' = row /\ todo' = todo \ {i} /\ i \in todo
  BY DEF ExtractOptimised, ExtractCallback, ExtractInterface, Work, Steady
<1>5. place \in FnPlaces /\ place \notin LastPlaces
  BY <1>3 DEF FnPlaces, LastPlaces
<1>7. file[i].class \in Known
  BY <1>4, <1>5, PlacesApart DEF FreshInv, OfClass, Known
<1>6. file[i].class # "outsider"
  <2>1. CASE file[i].class = "outsider_opt"
    BY <2>1
  <2>2. CASE place \in {"callback", "interface"}
    <3>1. file[i].class \in Now(place)
      BY <1>4, <1>5 DEF FreshInv, OfClass
    <3> QED
      BY <2>2, <3>1 DEF Now
  <2> QED
    BY <1>3, <2>1, <2>2
<1> QED
  BY <1>1, <1>2, <1>4, <1>5, <1>6, <1>7 DEF Working

LEMMA StaticWorking ==
  ASSUME FreshInv, NEW v \in todo, ExtractStatic(v)
  PROVE  /\ Working(v[1]) /\ place = "static_var" /\ todo' = todo \ {v}
         /\ file[v[1]].class = "static"
<1>1. Reworks(file, lines, lines', v[1]) /\ v[1] \in Items /\ file[v[1]].class = "static"
  BY StaticWork
<1>2. v[1] \in 1 .. Len(file)
  BY <1>1, SharedVars
<1>3. Steady /\ place = "static_var" /\ place' = place /\ row' = row /\ todo' = todo \ {v}
  BY DEF ExtractStatic, Work, Steady
<1>4. "static_var" \notin LastPlaces /\ "static_var" \notin FnPlaces /\ "static" \in Known
  BY DEF LastPlaces, FnPlaces, Known, VarClass
<1> QED
  BY <1>1, <1>2, <1>3, <1>4 DEF Working

LEMMA MergeWorking ==
  ASSUME FreshInv, NEW v \in todo, MergeShared(v)
  PROVE  /\ Working(v[1]) /\ place = "merge_var" /\ todo' = todo \ {v}
         /\ v[1] \in OfClass(SharedClass)
<1>1. Reworks(file, lines, lines', v[1]) /\ v[1] \in OfClass(SharedClass)
  BY MergeWork
<1>2. v[1] \in 1 .. Len(file)
  BY <1>1, SharedVars
<1>3. Steady /\ place = "merge_var" /\ place' = place /\ row' = row /\ todo' = todo \ {v}
  BY DEF MergeShared, Work, Steady
<1>4. "merge_var" \notin LastPlaces /\ "merge_var" \notin FnPlaces
  BY DEF LastPlaces, FnPlaces
<1>5. file[v[1]].class \in Known
  BY <1>1, SharedVars DEF Known
<1> QED
  BY <1>5, <1>1, <1>2, <1>3, <1>4 DEF Working

LEMMA StartRow ==
  ASSUME FreshInv, NEW i \in OfClass(SharedClass)
  PROVE  /\ i \in 1 .. Len(file) /\ DeclStartRow(i) \in Block(file, i)
         /\ DeclStartRow(i) \in 1 .. Total(file)
<1>1. PICK F : F \in ModFile \cup SdcrFile /\ F = file /\ meta = Collected(F)
  BY DEF FreshInv
<1> F \in ModFile \cup SdcrFile
  BY <1>1
<1>2. i \in 1 .. Len(F) /\ F[i].class \in VarClass
  BY <1>1, SharedVars
<1>3. PICK s, x, b, n \in Nat : VarAt(F, i, s, x, b, n)
  BY <1>2, VarRows
<1>4. s = DeclStartRow(i)
  BY <1>1, <1>3 DEF VarAt, DeclStartRow
<1>5. s \in s .. b
  BY <1>3 DEF VarAt
<1>6. s \in Block(F, i) /\ s \in 1 .. Total(F)
  BY <1>3, <1>5 DEF VarAt
<1> QED
  BY <1>1, <1>2, <1>4, <1>6

LEMMA DeclareWorking ==
  ASSUME FreshInv, LinesInv, NEW v \in todo, DeleteShared(v) \/ DeclareShared(v)
  PROVE  /\ Working(v[1]) /\ place \in {"delete_var", "declare_var"} /\ todo' = todo \ {v}
         /\ v \in StillShared /\ v[1] \in OfClass(SharedClass)
<1>1. PICK F, L, i : F \in ModFile \cup SdcrFile /\ F = file /\ L = lines /\ i = v[1]
  BY DEF FreshInv
<1> F \in ModFile \cup SdcrFile
  BY <1>1
<1>2. /\ Steady /\ place \in {"delete_var", "declare_var"} /\ place' = place
      /\ row' = row /\ todo' = todo \ {v}
  BY DEF DeleteShared, DeclareShared, Work, Steady
<1>3. v \in StillShared /\ L \in [1 .. Total(F) -> Line]
  BY <1>1, <1>2 DEF LinesInv
<1>4. i \in OfClass(SharedClass)
  BY <1>1, <1>3, SharedVars DEF StillShared
<1>5. PICK s : s = DeclStartRow(i) /\ s \in Block(F, i) /\ s \in 1 .. Total(F)
  BY <1>1, <1>4, StartRow
<1>6. i \in 1 .. Len(F) /\ i \in Nat /\ L[s] \in Line
  <2>1. Len(F) \in Nat
    BY FileRows
  <2> QED
    BY <1>1, <1>3, <1>4, <1>5, <2>1, StartRow
<1>7. PICK l : \/ l = <<>> /\ lines' = [L EXCEPT ![s] = l]
               \/ l = L[s] \o <<<<i, "extern decl">>>> /\ lines' = [L EXCEPT ![s] = l]
  <2>1. CASE DeleteShared(v)
    BY <1>1, <1>5, <2>1 DEF DeleteShared, Work
  <2>2. CASE DeclareShared(v)
    BY <1>1, <1>3, <1>5, <2>2 DEF DeclareShared, Work
  <2> QED
    BY <2>1, <2>2
<1>8. Recast(L[s], l)
  <2>1. "extern decl" \in Written
    BY DEF Written
  <2> QED
    BY <1>6, <1>7, <2>1, Recasts
<1>9. Reworks(F, L, lines', i)
  <2>1. PICK M : M = lines' /\ M = [L EXCEPT ![s] = l]
    BY <1>7
  <2> QED
    BY <1>3, <1>5, <1>6, <1>8, <2>1, RowRecast
<1>10. place \notin LastPlaces /\ place \notin FnPlaces
  BY <1>2 DEF LastPlaces, FnPlaces
<1>11. F[i].class \in Known
  BY <1>1, <1>4, SharedVars DEF Known
<1> QED
  BY <1>1, <1>2, <1>3, <1>4, <1>6, <1>9, <1>10, <1>11 DEF Working
-------------------------------------------------------------------------------
(***************************************************************************)
(* The last pass writes nothing on a row that was on none, but for the     *)
(* include directives.                                                     *)
(***************************************************************************)
Scans(F, L, M) ==
  /\ M \in [1 .. Total(F) -> Line]
  /\ \A T : NoneWritten(T) /\ (\A t \in 1 .. Total(F) : Free(L[t], T)) =>
              \A t \in 1 .. Total(F) : Free(M[t], T)

LEMMA FixIncludeFree ==
  ASSUME NEW T, NoneWritten(T), NEW l, Free(l, T)
  PROVE  Free(FixInclude(l), T)
<1>1. PICK n \in Nat : DOMAIN l = 1 .. n /\ \A k \in 1 .. n : l[k] \in Text \ T
  BY DEF Free
<1>2. PICK R : R = [k \in 1 .. n |-> IF l[k][2] = "include" THEN <<l[k][1], "include from mod">>
                                     ELSE l[k]]
               /\ R = FixInclude(l)
  BY <1>1 DEF FixInclude
<1>3. ASSUME NEW k \in 1 .. n PROVE R[k] \in Text \ T
  <2>1. CASE l[k][2] # "include"
    BY <1>1, <1>2, <2>1
  <2>2. CASE l[k][2] = "include"
    <3>1. PICK j \in Nat : j = l[k][1]
      BY <1>1 DEF Text
    <3>2. "include from mod" \in Written
      BY DEF Written
    <3>3. \A w \in Written : <<j, w>> \in Text /\ <<j, w>> \notin T
      BY <3>1 DEF Text, NoneWritten
    <3> QED
      BY <1>2, <2>2, <3>1, <3>2, <3>3
  <2> QED
    BY <2>1, <2>2
<1>4. R \in [1 .. n -> Text \ T]
  BY <1>2, <1>3
<1>5. R \in Seq(Text \ T)
  BY <1>4
<1> QED
  BY <1>2, <1>5 DEF Free

LEMMA MergeDownFnJoins ==
  ASSUME NEW n \in Nat, NEW L \in [1 .. n -> Line], NEW r, MergeDownFnEnds(L, r) # {},
         r \in 1 .. n
  PROVE  \E e \in r .. n : /\ MergeDownFn(L, r) = Join(L, r, e, r)
                           /\ e \in MergeDownFnEnds(L, r)
                           /\ \A u \in MergeDownFnEnds(L, r) : e <= u
<1>1. Len(L) = n
  OBVIOUS
<1>2. PICK S : S = MergeDownFnEnds(L, r)
  OBVIOUS
<1>3. S \subseteq r .. n
  BY <1>1, <1>2 DEF MergeDownFnEnds
<1>4. S \subseteq Nat
  <2>1. r .. n \subseteq Nat
    OBVIOUS
  <2> QED
    BY <1>3, <2>1
<1>5. PICK e : e = Min2(S) /\ e \in S /\ \A u \in S : e <= u
  <2>1. S # {}
    BY <1>2
  <2> QED
    BY <1>4, <2>1, LeastOf
<1>6. MergeDownFn(L, r) = Join(L, r, e, r)
  BY <1>2, <1>5 DEF MergeDownFn
<1> QED
  BY <1>2, <1>3, <1>5, <1>6

LEMMA JoinScans ==
  ASSUME NEW F, NEW n \in Nat, n = Total(F), NEW L \in [1 .. n -> Line], NEW r \in 1 .. n,
         NEW e \in r .. n, NEW M, M = Join(L, r, e, r)
  PROVE  Scans(F, L, M)
<1>1. M = [t \in 1 .. n |-> IF t = r THEN FlattenSeq(SubSeq(L, r, e))
                            ELSE IF t \in r .. e THEN <<>> ELSE L[t]]
  BY JoinExact
<1>2. r .. e \subseteq 1 .. n
  OBVIOUS
<1>3. ASSUME NEW T, \A t \in 1 .. n : Free(L[t], T)
      PROVE  \A t \in 1 .. n : Free(M[t], T)
  <2>1. Free(FlattenSeq(SubSeq(L, r, e)), T)
    <3>1. \A t \in r .. e : Free(L[t], T)
      BY <1>2, <1>3
    <3> QED
      BY <3>1, JoinFree
  <2> QED
    BY <1>1, <1>3, <2>1, FreeLines
<1>4. M \in [1 .. n -> Line]
  <2>1. PICK T : T = {}
    OBVIOUS
  <2>2. \A t \in 1 .. n : Free(L[t], T)
    BY <2>1, FreeLines
  <2>3. \A t \in 1 .. n : M[t] \in Line
    BY <1>3, <2>2, FreeLines
  <2> QED
    BY <1>1, <2>3
<1> QED
  BY <1>3, <1>4 DEF Scans

LEMMA EmptiedScans ==
  ASSUME NEW F, NEW n \in Nat, n = Total(F), NEW L \in [1 .. n -> Line], NEW R,
         NEW M, M = Emptied(L, R)
  PROVE  Scans(F, L, M)
<1>1. M \in [1 .. n -> Line] /\ M = [t \in 1 .. n |-> IF t \in R THEN <<>> ELSE L[t]]
  <2>1. M \in [1 .. n -> Line]
    BY EmptiedRows
  <2>2. DOMAIN L = 1 .. n
    OBVIOUS
  <2> QED
    BY <2>1, <2>2 DEF Emptied
<1>2. ASSUME NEW T, \A t \in 1 .. n : Free(L[t], T)
      PROVE  \A t \in 1 .. n : Free(M[t], T)
  BY <1>1, <1>2, FreeLines
<1> QED
  BY <1>1, <1>2 DEF Scans

LEMMA ScansBoth ==
  ASSUME NEW F, NEW L, NEW M, NEW N, Scans(F, L, M), Scans(F, M, N)
  PROVE  Scans(F, L, N)
BY DEF Scans

LEMMA TotalRows ==
  ASSUME NEW F \in ModFile \cup SdcrFile
  PROVE  Total(F) \in Nat
<1>1. PICK m \in Nat : m = Len(F) /\ m \in 0 .. m
  <2>1. \A m \in Nat : m \in 0 .. m
    OBVIOUS
  <2> QED
    BY <2>1, FileRows
<1>2. RowsBefore(F) \in [0 .. m -> Nat]
  BY <1>1, RowsBeforeSums
<1> QED
  BY <1>1, <1>2 DEF Total

LEMMA FixUpScans ==
  ASSUME FreshInv, LinesInv, row <= Len(lines), FixUpInclude \/ FixUpDelete \/ FixUpOther
  PROVE  /\ Steady /\ place' = place /\ row' = row + 1 /\ todo' = todo
         /\ Scans(file, lines, lines')
<1>1. Steady /\ place' = place /\ row' = row + 1 /\ todo' = todo
  BY DEF FixUpInclude, FixUpDelete, FixUpOther, FixRow, Steady
<1>2. PICK F : F \in ModFile \cup SdcrFile /\ F = file
  BY DEF FreshInv
<1> F \in ModFile \cup SdcrFile
  BY <1>2
<1>3. PICK n \in Nat : n = Total(F)
  BY TotalRows
<1>4. PICK L \in [1 .. n -> Line] : L = lines
  BY <1>2, <1>3 DEF LinesInv
<1>5. row \in 1 .. n
  BY <1>4 DEF LinesInv
<1>6. ASSUME FixUpInclude PROVE Scans(F, L, lines')
  <2>1. lines' = [t \in 1 .. n |-> IF t = row THEN FixInclude(L[t]) ELSE L[t]]
    BY <1>4, <1>5, <1>6 DEF FixUpInclude, FixRow
  <2>2. ASSUME NEW T, NoneWritten(T), \A t \in 1 .. n : Free(L[t], T)
        PROVE  \A t \in 1 .. n : Free(lines'[t], T)
    BY <2>1, <2>2, FixIncludeFree
  <2>3. \A t \in 1 .. n : lines'[t] \in Line
    <3>1. PICK T : T = {}
      OBVIOUS
    <3>2. NoneWritten(T) /\ \A t \in 1 .. n : Free(L[t], T)
      BY <3>1, FreeLines DEF NoneWritten
    <3>3. \A t \in 1 .. n : Free(lines'[t], T)
      BY <2>2, <3>2
    <3> QED
      BY <3>3, FreeLines
  <2>4. lines' \in [1 .. n -> Line]
    BY <2>1, <2>3
  <2> QED
    BY <1>3, <2>2, <2>4 DEF Scans
<1>7. ASSUME FixUpDelete PROVE Scans(F, L, lines')
  <2>1. PICK M : /\ M = IF DeletesWhole(L[row]) THEN MergeDownFn(L, row) ELSE L
                 /\ lines' = Emptied(M, {row})
    BY <1>4, <1>7 DEF FixUpDelete, FixRow
  <2>2. Scans(F, L, M)
    <3>1. CASE ~DeletesWhole(L[row])
      <4>1. M = L
        BY <2>1, <3>1
      <4> QED
        BY <1>3, <4>1 DEF Scans
    <3>2. CASE DeletesWhole(L[row])
      <4>1. MergeDownFnEnds(L, row) # {}
        BY <1>4, <1>7, <3>2 DEF FixUpDelete
      <4>2. PICK e \in row .. n : MergeDownFn(L, row) = Join(L, row, e, row)
        BY <1>5, <4>1, MergeDownFnJoins
      <4>3. M = Join(L, row, e, row)
        BY <2>1, <3>2, <4>2
      <4> QED
        BY <1>3, <1>5, <4>3, JoinScans
    <3> QED
      BY <3>1, <3>2
  <2>3. M \in [1 .. n -> Line]
    BY <1>3, <2>2 DEF Scans
  <2>4. Scans(F, M, lines')
    BY <1>3, <2>1, <2>3, EmptiedScans
  <2> QED
    BY <2>2, <2>4, ScansBoth
<1>8. ASSUME FixUpOther PROVE Scans(F, L, lines')
  <2>1. lines' = L
    BY <1>4, <1>8 DEF FixUpOther, FixRow
  <2> QED
    BY <1>3, <1>4, <2>1 DEF Scans
<1> QED
  BY <1>1, <1>2, <1>4, <1>6, <1>7, <1>8
-------------------------------------------------------------------------------
(***************************************************************************)
(* The steps, as the invariants below look at them.                        *)
(***************************************************************************)
Scanning ==
  /\ Steady /\ Scans(file, lines, lines') /\ row <= Len(lines)
  /\ place = "fix_up" /\ place' = place /\ row' = row + 1 /\ todo' = todo

Turning ==
  /\ Steady /\ lines' = lines
  /\ \/ NextList /\ row' = row
     \/ WriteFile /\ row' = row
     \/ place' = place /\ todo' = todo /\ row' = row

\* Every step is one of these.
LEMMA StepCases ==
  ASSUME FreshInv, LinesInv, [Next]_vars
  PROVE  \/ \E i \in Items : ExtractOutsider(i)
         \/ \E i \in Items : ExtractOptimised(i) \/ ExtractCallback(i) \/ ExtractInterface(i)
         \/ \E v \in todo : ExtractStatic(v)
         \/ \E v \in todo : MergeShared(v)
         \/ \E v \in todo : DeleteShared(v) \/ DeclareShared(v)
         \/ Scanning /\ (FixUpInclude \/ FixUpDelete \/ FixUpOther)
         \/ Turning
<1>1. ASSUME NextList PROVE Turning
  BY <1>1 DEF NextList, Turning, Steady
<1>2. ASSUME WriteFile PROVE Turning
  BY <1>2 DEF WriteFile, Turning, Steady
<1>3. ASSUME UNCHANGED vars PROVE Turning
  BY <1>3 DEF vars, Turning, Steady
<1>4. ASSUME place = "fix_up" /\ row <= Len(lines) /\ (FixUpInclude \/ FixUpDelete \/ FixUpOther)
      PROVE  Scanning
  BY <1>4, FixUpScans DEF Scanning
<1> QED
  BY <1>1, <1>2, <1>3, <1>4 DEF Next, Step

LEMMA LinesWorking ==
  ASSUME FreshInv, LinesInv, NEW i, Working(i)
  PROVE  LinesInv'
<1>1. lines' \in [1 .. Total(file) -> Line] /\ Total(file)' = Total(file)
  BY DEF Working, Reworks, Keeps, Steady, Total
<1>2. StillShared' = StillShared
  BY WantedSteady DEF Working
<1>3. todo' \subseteq todo
  BY DEF Working
<1> QED
  BY <1>1, <1>2, <1>3 DEF LinesInv, Working, LastPlaces

\* LinesInv is inductive.
LEMMA LinesNext ==
  ASSUME FreshInv, LinesInv, [Next]_vars
  PROVE  LinesInv'
<1>1. ASSUME NEW i \in Items, ExtractOutsider(i) PROVE LinesInv'
  BY <1>1, OutsiderWorking, LinesWorking
<1>2. ASSUME NEW i \in Items,
             ExtractOptimised(i) \/ ExtractCallback(i) \/ ExtractInterface(i)
      PROVE  LinesInv'
  BY <1>2, MarkWorking, LinesWorking
<1>3. ASSUME NEW v \in todo, ExtractStatic(v) PROVE LinesInv'
  BY <1>3, StaticWorking, LinesWorking
<1>4. ASSUME NEW v \in todo, MergeShared(v) PROVE LinesInv'
  BY <1>4, MergeWorking, LinesWorking
<1>5. ASSUME NEW v \in todo, DeleteShared(v) \/ DeclareShared(v) PROVE LinesInv'
  BY <1>5, DeclareWorking, LinesWorking
<1>6. ASSUME Scanning PROVE LinesInv'
  <2>1. lines' \in [1 .. Total(file) -> Line] /\ Total(file)' = Total(file)
    BY <1>6 DEF Scanning, Scans, Steady, Total
  <2>2. place' = "fix_up" /\ row' = row + 1 /\ row' \in Nat /\ 1 <= row'
    BY <1>6 DEF Scanning, LinesInv
  <2> QED
    BY <2>1, <2>2 DEF LinesInv, LastPlaces
<1>7. ASSUME Turning PROVE LinesInv'
  <2>1. /\ lines' \in [1 .. Total(file) -> Line] /\ Total(file)' = Total(file)
        /\ row' = row /\ StillShared' = StillShared
    BY <1>7, WantedSteady DEF Turning, Steady, Total, LinesInv
  <2>2. CASE NextList
    <3>1. place \notin LastPlaces /\ row = 1 /\ place' # "done"
      <4>1. place \notin LastPlaces
        BY <2>2 DEF NextList, LastPlaces
      <4>2. place' # "done"
        BY <2>2 DEF NextList, After, FreshInv, FnPlaces, VarPlaces, LatePlaces
      <4> QED
        BY <4>1, <4>2 DEF LinesInv
    <3>2. place' \in {"delete_var", "declare_var"} => todo' = StillShared
      BY <2>2 DEF NextList, After, FreshInv, FnPlaces, VarPlaces, LatePlaces
    <3> QED
      BY <2>1, <3>1, <3>2 DEF LinesInv
  <2>3. CASE WriteFile
    <3>1. place' = "done" /\ row > Len(lines) /\ lines \in [1 .. Total(file) -> Line]
      BY <2>3 DEF WriteFile, LinesInv
    <3>2. PICK n \in Nat : n = Total(file)
      <4>1. PICK F \in ModFile \cup SdcrFile : F = file
        BY DEF FreshInv
      <4>2. Total(F) \in Nat
        BY <4>1, TotalRows
      <4> QED
        BY <4>1, <4>2
    <3>3. row > Total(file)
      BY <3>1, <3>2
    <3> QED
      BY <2>1, <3>1, <3>3 DEF LinesInv, LastPlaces
  <2>4. CASE place' = place /\ todo' = todo
    BY <2>1, <2>4 DEF LinesInv
  <2> QED
    BY <1>7, <2>2, <2>3, <2>4 DEF Turning
<1> QED
  BY <1>1, <1>2, <1>3, <1>4, <1>5, <1>6, <1>7, StepCases

LEMMA LinesInit ==
  ASSUME Init
  PROVE  LinesInv
<1>1. PICK F \in ModFile \cup SdcrFile : F = file
  BY DEF Init
<1>2. lines = Unread(F)
  BY <1>1 DEF Init, Unread, Items, Token, RowOf, Tokens
<1>3. lines \in [1 .. Total(F) -> Line]
  BY <1>2, FileAsRead
<1> QED
  BY <1>1, <1>3 DEF Init, LinesInv, LastPlaces
-------------------------------------------------------------------------------
(***************************************************************************)
(* A brace of an outsider is on its own rows as long as it is on the list, *)
(* and then on none.                                                       *)
(***************************************************************************)
BodyAt(i, t) ==
  Free(lines[t], Brace(i)) \/ (place = "fn" /\ i \in todo /\ t \in Block(file, i))

BodyInv == \A i \in OfClass({"outsider"}) : \A t \in 1 .. Total(file) : BodyAt(i, t)

LEMMA BodyWorking ==
  ASSUME FreshInv, BodyInv, NEW j, Working(j), NEW i \in OfClass({"outsider"}), i # j
  PROVE  \A t \in 1 .. Total(file) : BodyAt(i, t)'
<1>1. PICK F : F \in ModFile \cup SdcrFile /\ F = file
  BY DEF FreshInv
<1> F \in ModFile \cup SdcrFile
  BY <1>1
<1>2. PICK T, L, M : T = Brace(i) /\ L = lines /\ M = lines'
  OBVIOUS
<1>3. i \in 1 .. Len(F) /\ i \in Nat /\ F[i].class = "outsider"
  <2>1. Len(F) \in Nat
    BY FileRows
  <2> QED
    BY <1>1, <2>1, SharedVars DEF OfClass
<1>4. NoneWritten(T)
  BY <1>2, <1>3, BraceTokens
<1>5. Clear(F, L, j, T)
  <2>1. ASSUME NEW u \in 1 .. Total(F), ~Free(L[u], T)
        PROVE  i # j /\ EndsIn(F, L, i) /\ u \in Block(F, i)
    <3>1. place = "fn" /\ i \in todo /\ u \in Block(F, i)
      BY <1>1, <1>2, <2>1 DEF BodyInv, BodyAt
    <3>2. Intact(F, L, i)
      BY <1>1, <1>2, <3>1, PlacesApart DEF FreshInv
    <3>3. F[i].class \in Known
      BY <1>3 DEF Known, FnClass
    <3> QED
      BY <1>1, <1>3, <3>1, <3>2, <3>3, KnownEnded, IntactEnds
  <2> QED
    BY <1>3, <2>1 DEF Clear
<1>6. NoneNew(F, L, M, T)
  BY <1>1, <1>2, <1>4, <1>5 DEF Working, Reworks
<1>7. /\ place' = place /\ Block(file, i)' = Block(file, i) /\ Brace(i)' = Brace(i)
      /\ (place = "fn" /\ i \in todo => i \in todo')
  <2>1. place = "fn" => todo' = todo \ {j}
    BY DEF Working, FnPlaces
  <2> QED
    BY <2>1 DEF Working, Steady, Block, Brace
<1>8. ASSUME NEW t \in 1 .. Total(file) PROVE BodyAt(i, t)'
  <2>1. M[t] = L[t] \/ Free(M[t], T)
    BY <1>1, <1>6, <1>8 DEF NoneNew
  <2>2. Free(M[t], T) \/ (place = "fn" /\ i \in todo /\ t \in Block(file, i))
    BY <1>2, <2>1, <1>8 DEF BodyInv, BodyAt
  <2>3. Free(lines[t], Brace(i))' <=> Free(M[t], T)
    BY <1>2 DEF Free, Brace
  <2> QED
    BY <1>7, <2>2, <2>3 DEF BodyAt
<1> QED
  BY <1>8

LEMMA BodyOutsider ==
  ASSUME FreshInv, BodyInv, NEW i \in Items, ExtractOutsider(i)
  PROVE  \A t \in 1 .. Total(file) : BodyAt(i, t)'
<1>1. place = "fn" /\ i \in todo /\ place \in FnPlaces /\ file[i].class = "outsider"
  BY PlacesApart DEF ExtractOutsider, Work
<1>2. PICK F, L :
        /\ F \in ModFile \cup SdcrFile /\ F = file /\ L = lines
        /\ L \in [1 .. Total(F) -> Line] /\ Intact(F, L, i)
        /\ i \in 1 .. Len(F) /\ F[i].class \in FnClass
  BY <1>1, FnItem
<1> F \in ModFile \cup SdcrFile
  BY <1>2
<1>3. PICK M, top : M = lines' /\ DeclaredOn(F, L, M, i, top)
  BY <1>2, OutsiderWork
<1>4. PICK T : T = Brace(i)
  OBVIOUS
<1>5. \A t \in 1 .. Total(F) : Free(L[t], T) \/ t \in Block(F, i)
  <2>1. i \in OfClass({"outsider"})
    BY <1>1 DEF OfClass
  <2> QED
    BY <1>2, <1>4, <2>1 DEF BodyInv, BodyAt
<1>6. \A t \in 1 .. Total(F) : Free(M[t], T)
  BY <1>2, <1>3, <1>4, <1>5, DeclarationFree
<1>7. ASSUME NEW t \in 1 .. Total(file) PROVE BodyAt(i, t)'
  <2>1. Free(M[t], T)
    BY <1>2, <1>6, <1>7
  <2>2. Free(lines[t], Brace(i))'
    BY <1>3, <1>4, <2>1 DEF Free, Brace
  <2> QED
    BY <2>2 DEF BodyAt
<1> QED
  BY <1>7

\* Every row is one of an item's.
LEMMA RowOwned ==
  ASSUME NEW F \in ModFile \cup SdcrFile, NEW t \in 1 .. Total(F)
  PROVE  \E j \in 1 .. Len(F) : t \in Block(F, j)
<1>1. PICK n \in Nat : n = Len(F)
  BY FileRows
<1>2. PICK R \in [0 .. n -> Nat] : R = RowsBefore(F) /\ R[0] = 0
  BY <1>1, RowsBeforeSums
<1>3. PICK S : S = {k \in 0 .. n : t <= R[k]}
  OBVIOUS
<1>4. S \subseteq Nat /\ S # {}
  <2>1. n \in 0 .. n /\ t <= R[n] /\ 0 .. n \subseteq Nat
    BY <1>1, <1>2 DEF Total
  <2> QED
    BY <1>3, <2>1
<1>5. PICK j : j \in S /\ \A k \in S : j <= k
  BY <1>4, LeastOf
<1>6. j \in 0 .. n /\ t <= R[j] /\ t \in Nat /\ 1 <= t
  <2>1. t \in Nat /\ 1 <= t
    OBVIOUS
  <2> QED
    BY <1>3, <1>5, <2>1
<1>7. j # 0
  BY <1>2, <1>6
<1>8. j - 1 \in 0 .. n /\ ~(j <= j - 1) /\ j \in 1 .. n
  BY <1>6, <1>7
<1>9. ~(t <= R[j - 1])
  BY <1>3, <1>5, <1>8
<1>10. PICK a \in Nat, b \in Nat : a = R[j - 1] /\ b = R[j]
  BY <1>6, <1>8
<1>11. t \in a + 1 .. b
  BY <1>6, <1>9, <1>10
<1> QED
  BY <1>1, <1>2, <1>8, <1>10, <1>11 DEF Block

LEMMA BodyInit ==
  ASSUME Init
  PROVE  BodyInv
<1>1. PICK F \in ModFile \cup SdcrFile : F = file
  BY DEF Init
<1>2. PICK L : L = lines /\ L = Unread(F)
  BY <1>1 DEF Init, Unread, Items, Token, RowOf, Tokens
<1>3. \A j \in 1 .. Len(F) : Intact(F, L, j)
  BY <1>2, FileAsRead
<1>4. PICK n \in Nat : n = Len(F) /\ Items = 1 .. n
  BY <1>1, FileRows DEF Items
<1>5. ASSUME NEW i \in OfClass({"outsider"}), NEW t \in 1 .. Total(F) PROVE BodyAt(i, t)
  <2>1. i \in 1 .. n /\ i \in Nat /\ i \in todo /\ place = "fn"
    BY <1>4 DEF Init, FnList, OfClass
  <2>2. PICK j \in 1 .. n : t \in Block(F, j)
    BY <1>4, RowOwned
  <2>3. CASE j = i
    BY <1>1, <2>1, <2>2, <2>3 DEF BodyAt
  <2>4. CASE j # i
    <3>1. PICK r \in 1 .. Len(F[j].rows) : t = RowsBefore(F)[j - 1] + r
      BY <1>4, <2>2, BlockRows
    <3>2. L[t] = RowOf(F, j, r)
      BY <1>3, <1>4, <2>2, <3>1 DEF Intact
    <3>3. PICK T : T = Brace(i)
      OBVIOUS
    <3>4. \A k \in DOMAIN F[j].rows[r] : <<j, F[j].rows[r][k]>> \notin T
      <4>1. j \in Nat
        BY <2>2
      <4>2. \A w : <<j, w>> \notin T
        BY <2>1, <2>4, <3>3, <4>1, BraceTokens
      <4> QED
        BY <4>2
    <3>5. Free(L[t], T)
      BY <1>4, <3>1, <3>2, <3>4, TokensFree
    <3> QED
      BY <1>2, <3>3, <3>5 DEF BodyAt
  <2> QED
    BY <2>3, <2>4
<1> QED
  BY <1>1, <1>5 DEF BodyInv

\* BodyInv is inductive.
LEMMA BodyNext ==
  ASSUME FreshInv, LinesInv, BodyInv, [Next]_vars
  PROVE  BodyInv'
<1>1. ASSUME Steady, \A i \in OfClass({"outsider"}) : \A t \in 1 .. Total(file) : BodyAt(i, t)'
      PROVE  BodyInv'
  <2>1. OfClass({"outsider"})' = OfClass({"outsider"}) /\ Total(file)' = Total(file)
    BY <1>1 DEF Steady, OfClass, Items, Total
  <2> QED
    BY <1>1, <2>1 DEF BodyInv
<1>2. ASSUME NEW j, Working(j), file[j].class # "outsider" PROVE BodyInv'
  <2>1. ASSUME NEW i \in OfClass({"outsider"}) PROVE \A t \in 1 .. Total(file) : BodyAt(i, t)'
    <3>1. i # j
      BY <1>2 DEF OfClass
    <3> QED
      BY <1>2, <3>1, BodyWorking
  <2>2. Steady
    BY <1>2 DEF Working
  <2> QED
    BY <1>1, <2>1, <2>2
<1>3. ASSUME NEW j \in Items, ExtractOutsider(j) PROVE BodyInv'
  <2>1. Working(j) /\ Steady
    BY <1>3, OutsiderWorking DEF Working
  <2>2. ASSUME NEW i \in OfClass({"outsider"}) PROVE \A t \in 1 .. Total(file) : BodyAt(i, t)'
    <3>1. CASE i # j
      BY <2>1, <3>1, BodyWorking
    <3>2. CASE i = j
      BY <1>3, <3>2, BodyOutsider
    <3> QED
      BY <3>1, <3>2
  <2> QED
    BY <1>1, <2>1, <2>2
<1>4. ASSUME NEW j \in Items,
             ExtractOptimised(j) \/ ExtractCallback(j) \/ ExtractInterface(j)
      PROVE  BodyInv'
  BY <1>2, <1>4, MarkWorking
<1>5. ASSUME NEW v \in todo, ExtractStatic(v) PROVE BodyInv'
  <2>1. Working(v[1]) /\ file[v[1]].class = "static"
    BY <1>5, StaticWorking
  <2> QED
    BY <1>2, <2>1
<1>6. ASSUME NEW j \in OfClass(SharedClass), Working(j) PROVE BodyInv'
  <2>1. file[j].class \in VarClass
    BY SharedVars
  <2>2. file[j].class # "outsider"
    BY <2>1 DEF VarClass
  <2> QED
    BY <1>2, <1>6, <2>2
<1>7. ASSUME NEW v \in todo, MergeShared(v) PROVE BodyInv'
  BY <1>6, <1>7, MergeWorking
<1>8. ASSUME NEW v \in todo, DeleteShared(v) \/ DeclareShared(v) PROVE BodyInv'
  BY <1>6, <1>8, DeclareWorking
<1>9. ASSUME Scanning PROVE BodyInv'
  <2>1. Steady /\ place = "fix_up"
    BY <1>9 DEF Scanning
  <2>2. ASSUME NEW i \in OfClass({"outsider"}), NEW t \in 1 .. Total(file) PROVE BodyAt(i, t)'
    <3>1. PICK T, M : T = Brace(i) /\ M = lines'
      OBVIOUS
    <3>2. \A u \in 1 .. Total(file) : Free(lines[u], T)
      BY <2>1, <3>1 DEF BodyInv, BodyAt
    <3>3. NoneWritten(T)
      <4>1. i \in Nat
        <5>1. PICK F \in ModFile \cup SdcrFile : F = file
          BY DEF FreshInv
        <5>2. Len(F) \in Nat /\ i \in 1 .. Len(F)
          BY <5>1, FileRows, SharedVars DEF OfClass
        <5> QED
          BY <5>2
      <4> QED
        BY <3>1, <4>1, BraceTokens
    <3>4. Free(M[t], T)
      BY <1>9, <3>1, <3>2, <3>3 DEF Scanning, Scans
    <3>5. Free(lines[t], Brace(i))'
      BY <3>1, <3>4 DEF Free, Brace
    <3> QED
      BY <3>5 DEF BodyAt
  <2> QED
    BY <1>1, <2>1, <2>2
<1>10. ASSUME Turning PROVE BodyInv'
  <2>1. Steady /\ lines' = lines
    BY <1>10 DEF Turning
  <2>2. ASSUME NEW i \in OfClass({"outsider"}), NEW t \in 1 .. Total(file) PROVE BodyAt(i, t)'
    <3>1. BodyAt(i, t)
      BY <2>2 DEF BodyInv
    <3>2. Free(lines[t], Brace(i))' <=> Free(lines[t], Brace(i))
      BY <2>1 DEF Free, Brace
    <3>3. Block(file, i)' = Block(file, i)
      BY <2>1 DEF Steady, Block
    <3>4. CASE place' = place /\ todo' = todo
      BY <3>1, <3>2, <3>3, <3>4 DEF BodyAt
    <3>5. CASE NextList
      BY <3>1, <3>2, <3>5 DEF BodyAt, NextList
    <3>6. CASE WriteFile
      <4>1. place = "fix_up"
        BY <3>6 DEF WriteFile
      <4> QED
        BY <3>1, <3>2, <4>1 DEF BodyAt
    <3> QED
      BY <1>10, <3>4, <3>5, <3>6 DEF Turning
  <2> QED
    BY <1>1, <2>1, <2>2
<1> QED
  BY <1>3, <1>4, <1>5, <1>7, <1>8, <1>9, <1>10, StepCases

LEMMA BodyGone ==
  ASSUME FreshInv, LinesInv, BodyInv
  PROVE  BodiesGone
<1>1. ASSUME NEW i \in OfClass({"outsider"}), place = "fn" => i \notin todo,
             NEW r \in DOMAIN lines
      PROVE  ~Stands("{", i, r)
  <2>1. r \in 1 .. Total(file) /\ Free(lines[r], Brace(i))
    BY <1>1 DEF LinesInv, BodyInv, BodyAt
  <2>2. \A k \in 1 .. Len(lines[r]) : lines[r][k] \notin Brace(i)
    BY <2>1, FreeLines
  <2>3. \A k \in 1 .. Len(lines[r]) : lines[r][k] # <<i, "{">>
    BY <2>2 DEF Brace
  <2> QED
    BY <2>3 DEF Stands, Contains
<1> QED
  BY <1>1 DEF BodiesGone

(***************************************************************************)
(* An outsider that was worked on has no body in the file any more, in     *)
(* whatever row its brace stood and whatever was joined with that row.     *)
(***************************************************************************)
THEOREM BodiesRemoved == Spec => []BodiesGone
<1>1. Init => FreshInv /\ LinesInv /\ BodyInv
  BY FreshInit, LinesInit, BodyInit
<1>2. FreshInv /\ LinesInv /\ BodyInv /\ [Next]_vars => (FreshInv /\ LinesInv /\ BodyInv)'
  BY FreshNext, LinesNext, BodyNext
<1>3. FreshInv /\ LinesInv /\ BodyInv => BodiesGone
  BY BodyGone
<1> QED
  BY <1>1, <1>2, <1>3, PTL DEF Spec
-------------------------------------------------------------------------------
(***************************************************************************)
(* What merge_up_lines stops at stays on the last row of an item.          *)
(***************************************************************************)
LEMMA RewrittenHas ==
  ASSUME NEW l, NEW i, NEW old, NEW new, NEW K, old \notin K, Has(l, K)
  PROVE  Has(Rewritten(l, <<i, old>>, new), K)
<1>1. PICK o : o = <<i, old>> /\ o[2] = old
  <2>1. <<i, old>>[2] = old
    OBVIOUS
  <2> QED
    BY <2>1
<1>2. PICK R : R = Rewritten(l, o, new)
  OBVIOUS
<1>3. R = [k \in DOMAIN l |-> IF l[k] = o THEN <<o[1], new>> ELSE l[k]]
  BY <1>2 DEF Rewritten
<1>4. PICK k \in DOMAIN l : l[k][2] \in K
  BY DEF Has
<1>5. l[k] # o
  BY <1>1, <1>4
<1>6. k \in DOMAIN R /\ R[k] = l[k]
  BY <1>3, <1>4, <1>5
<1>7. Has(R, K)
  BY <1>4, <1>6 DEF Has
<1> QED
  BY <1>1, <1>2, <1>7

LEMMA AppendedHas ==
  ASSUME NEW l \in Line, NEW w \in Line, NEW K, Has(l, K)
  PROVE  Has(l \o w, K)
<1>1. PICK k \in DOMAIN l : l[k][2] \in K
  BY DEF Has
<1>2. k \in DOMAIN (l \o w) /\ (l \o w)[k] = l[k]
  BY DEF Line
<1> QED
  BY <1>1, <1>2 DEF Has

\* A row with its name rewritten or not, and with a mark after it or none.
MarkedFrom(T, i, l) ==
  \E x : /\ x = T \/ \E new \in Written : x = Rewritten(T, <<i, "name">>, new)
         /\ l = x \/ \E w \in Line : l = x \o w

LEMMA MarkedHas ==
  ASSUME NEW T \in Line, NEW i \in Nat, NEW l, MarkedFrom(T, i, l),
         NEW K, "name" \notin K, Has(T, K)
  PROVE  Has(l, K)
<1>1. PICK x : /\ x = T \/ \E new \in Written : x = Rewritten(T, <<i, "name">>, new)
               /\ l = x \/ \E w \in Line : l = x \o w
  BY DEF MarkedFrom
<1>2. x \in Line /\ Has(x, K)
  <2>1. ASSUME NEW new \in Written, x = Rewritten(T, <<i, "name">>, new)
        PROVE  x \in Line /\ Has(x, K)
    <3>1. Recast(T, x)
      BY <2>1, Recasts
    <3>2. Has(x, K)
      BY <2>1, RewrittenHas
    <3> QED
      BY <3>1, <3>2 DEF Recast
  <2> QED
    BY <1>1, <2>1
<1>3. ASSUME NEW w \in Line, l = x \o w PROVE Has(l, K)
  BY <1>2, <1>3, AppendedHas
<1> QED
  BY <1>1, <1>2, <1>3

LEMMA ListedMarked ==
  ASSUME NEW i \in Nat, NEW r, file[i].class \in MarkClass
  PROVE  MarkedFrom(Token(i, r), i, ListedRow(i, r))
<1>1. PICK c, T, l : c = file[i].class /\ T = Token(i, r) /\ l = ListedRow(i, r)
  OBVIOUS
<1>2. PICK warn, both : warn = <<<<i, "warn">>>> /\ both = <<<<i, "warn">>, <<i, "extern decl">>>>
  OBVIOUS
<1>3. warn \in Line /\ both \in Line
  <2>1. PICK a \in Text, b \in Text : a = <<i, "warn">> /\ b = <<i, "extern decl">>
    BY Texts
  <2>2. <<a>> \in Line /\ <<a, b>> \in Line
    BY DEF Line
  <2> QED
    BY <1>2, <2>1, <2>2
<1>4. "__used __cb_name" \in Written /\ "__used name" \in Written
  BY DEF Written
<1>5. CASE c = "outsider_opt"
  <2>1. l = WithMark(T, warn, Row(i, r) = RBraceRow(i))
    BY <1>1, <1>2, <1>5, ListedCases
  <2>2. l = T \/ l = T \o warn
    BY <2>1 DEF WithMark
  <2>3. MarkedFrom(T, i, l)
    BY <1>3, <2>2 DEF MarkedFrom
  <2> QED
    BY <1>1, <2>3
<1>6. CASE c = "callback"
  <2>1. PICK x : x = NewName(T, i, "__used __cb_name", Row(i, r) = NameRow(i))
    OBVIOUS
  <2>2. l = WithMark(x, both, Row(i, r) = RBraceRow(i))
    <3>1. l = WithMark(NewName(T, i, "__used __cb_name", Row(i, r) = NameRow(i)),
                       <<<<i, "warn">>, <<i, "extern decl">>>>, Row(i, r) = RBraceRow(i))
      BY <1>1, <1>6, ListedCases
    <3> QED
      BY <1>2, <2>1, <3>1
  <2>3. l = x \/ l = x \o both
    BY <2>2 DEF WithMark
  <2>4. x = T \/ x = Rewritten(T, <<i, "name">>, "__used __cb_name")
    BY <2>1 DEF NewName
  <2>5. MarkedFrom(T, i, l)
    BY <1>3, <1>4, <2>3, <2>4 DEF MarkedFrom
  <2> QED
    BY <1>1, <2>5
<1>7. CASE c \in {"interface", "sidecar"}
  <2>1. PICK x : x = NewName(T, i, "__used name",
                             IsOn(file[i], "static") /\ Row(i, r) = NameRow(i))
    OBVIOUS
  <2>2. l = WithMark(x, warn, Row(i, r) = RBraceRow(i))
    BY <1>1, <1>2, <1>7, <2>1, ListedCases
  <2>3. l = x \/ l = x \o warn
    BY <2>2 DEF WithMark
  <2>4. x = T \/ x = Rewritten(T, <<i, "name">>, "__used name")
    BY <2>1 DEF NewName
  <2>5. MarkedFrom(T, i, l)
    BY <1>3, <1>4, <2>3, <2>4 DEF MarkedFrom
  <2> QED
    BY <1>1, <2>5
<1> QED
  BY <1>1, <1>5, <1>6, <1>7 DEF MarkClass

\* An item that has been worked on still ends with what merge_up_lines stops at.
LEMMA KeptEnds ==
  ASSUME FreshInv, NEW i \in 1 .. Len(file), Kept(i), file[i].class \notin SharedClass,
         NEW L, ListedIn(L, i) \/ Intact(file, L, i)
  PROVE  EndsIn(file, L, i)
<1>1. PICK F : F \in ModFile \cup SdcrFile /\ F = file
  BY DEF FreshInv
<1> F \in ModFile \cup SdcrFile
  BY <1>1
<1>2. i \in 1 .. Len(F) /\ Ended(F[i])
  BY <1>1 DEF Kept
<1>3. CASE Intact(F, L, i)
  BY <1>1, <1>2, <1>3, IntactEnds
<1>4. CASE ListedIn(L, i) /\ F[i].class \notin MarkClass \cup VarClass
  <2>1. \A r \in 1 .. Len(F[i].rows) : L[Row(i, r)] = Token(i, r)
    BY <1>1, <1>4, ListedCases DEF ListedIn
  <2>2. Intact(F, L, i)
    BY <1>1, <2>1 DEF Intact, RowOf, Row, Token
  <2> QED
    BY <1>1, <1>2, <2>2, IntactEnds
<1>5. CASE ListedIn(L, i) /\ F[i].class \in MarkClass \cup VarClass
  <2>1. PICK N \in Nat : /\ N = Len(F[i].rows) /\ N \in 1 .. N
                         /\ RowsBefore(F)[i] = RowsBefore(F)[i - 1] + N
    <3>1. F[i].rows # <<>> /\ F[i].rows \in Seq(Seq(STRING))
      BY <1>2, FileRows DEF Ended
    <3>2. \A x \in Seq(Seq(STRING)) : x # <<>> => Len(x) \in 1 .. Len(x) /\ Len(x) \in Nat
      OBVIOUS
    <3> QED
      BY <1>2, <3>1, <3>2, BlocksApart
  <2>2. PICK l : l = Token(i, N)
    OBVIOUS
  <2>3. i \in Nat
    <3>1. Len(F) \in Nat
      BY FileRows
    <3> QED
      BY <1>2, <3>1
  <2>4. l \in Line
    <3>1. \A k \in DOMAIN F[i].rows[N] : <<i, F[i].rows[N][k]>> \notin {}
      OBVIOUS
    <3>2. Free(RowOf(F, i, N), {})
      BY <1>2, <2>1, <3>1, TokensFree
    <3> QED
      BY <1>1, <2>2, <3>2, FreeLines DEF RowOf, Token
  <2>5. ASSUME NEW w, OnRow(F[i], N, w) PROVE Has(l, {w})
    <3>1. PICK k \in DOMAIN F[i].rows[N] : F[i].rows[N][k] = w
      BY <2>5 DEF OnRow
    <3>2. k \in DOMAIN l /\ l[k] = <<i, w>>
      BY <1>1, <2>2, <3>1 DEF Token, Tokens
    <3>3. <<i, w>>[2] = w
      OBVIOUS
    <3>4. l[k][2] \in {w}
      BY <3>2, <3>3
    <3> QED
      BY <3>2, <3>4 DEF Has
  <2>6. PICK l2 : l2 = ListedRow(i, N) /\ l2 = L[Row(i, N)]
    BY <1>1, <1>5, <2>1 DEF ListedIn
  <2>7. \E w \in TerminatorWords : Has(l2, {w})
    <3>1. CASE F[i].class \in MarkClass
      <4>1. OnRow(F[i], N, "}")
        BY <1>2, <2>1, <3>1, FileRows DEF WellFormed, MarkClass, FnClass
      <4>2. Has(l, {"}"}) /\ "name" \notin {"}"}
        BY <2>5, <4>1
      <4>3. MarkedFrom(l, i, l2)
        BY <1>1, <2>2, <2>3, <2>6, <3>1, ListedMarked
      <4>4. Has(l2, {"}"})
        BY <2>3, <2>4, <4>2, <4>3, MarkedHas
      <4> QED
        BY <4>4 DEF TerminatorWords
    <3>2. CASE F[i].class \in VarClass
      <4>1. OnRow(F[i], N, ";")
        BY <1>2, <2>1, <3>2, FileRows DEF WellFormed
      <4>2. Has(l, {";"}) /\ "static" \notin {";"}
        BY <2>5, <4>1
      <4>3. l2 = l \/ l2 = Rewritten(l, <<i, "static">>, "static __used")
        <5>1. ListedRow(i, N) =
                IF file[i].class = "static" /\ ~in_sdcr_srcs /\ Row(i, N) = NameRow(i)
                  THEN Rewritten(Token(i, N), <<i, "static">>, "static __used")
                  ELSE Token(i, N)
          BY <1>1, <3>2, ListedCases
        <5> QED
          BY <2>2, <2>6, <5>1
      <4>4. Has(l2, {";"})
        <5>1. PICK K, old : K = {";"} /\ old = "static" /\ old \notin K /\ Has(l, K)
          BY <4>2
        <5>2. Has(Rewritten(l, <<i, old>>, "static __used"), K)
          BY <5>1, RewrittenHas
        <5> QED
          BY <4>3, <5>1, <5>2
      <4> QED
        BY <4>4 DEF TerminatorWords
    <3> QED
      BY <1>5, <3>1, <3>2
  <2>8. Row(i, N) = RowsBefore(F)[i] /\ Row(i, N) \in Block(F, i)
    BY <1>1, <1>2, <2>1, BlockRows DEF Row
  <2>9. Has(l2, TerminatorWords)
    BY <2>7 DEF Has
  <2> QED
    BY <1>1, <2>6, <2>8, <2>9 DEF EndsIn, Terminator
<1> QED
  BY <1>1, <1>3, <1>4, <1>5
-------------------------------------------------------------------------------
(***************************************************************************)
(* An item that nobody can take rows from is as it was read until it is    *)
(* worked on, and then as it is to be.  Shared variables come later.       *)
(***************************************************************************)
Ahead(i) ==
  \/ place \in FnPlaces /\ (i \in todo \/ file[i].class \in Later(place))
  \/ place = "static_var" /\ \E v \in todo : v[1] = i

PlainAt(i) == ListedIn(lines, i) \/ (Ahead(i) /\ Intact(file, lines, i))

PlainInv ==
  place \notin LastPlaces =>
    \A i \in Items : Kept(i) /\ file[i].class \notin SharedClass => PlainAt(i)

\* Of an item of no list, to be as the lists leave it is to be untouched.
LEMMA PlainListed ==
  ASSUME NEW i, file[i].class \notin MarkClass \cup VarClass, NEW L
  PROVE  ListedIn(L, i) <=> Intact(file, L, i)
<1>1. \A r : ListedRow(i, r) = Token(i, r)
  BY ListedCases
<1>2. \A r : Row(i, r) = RowsBefore(file)[i - 1] + r /\ Token(i, r) = RowOf(file, i, r)
  BY DEF Row, Token, RowOf
<1> QED
  BY <1>1, <1>2 DEF ListedIn, Intact

\* What is for boot only has a row, is ended, and is on no list.
LEMMA BootRows ==
  ASSUME NEW F \in ModFile \cup SdcrFile, NEW i \in 1 .. Len(F), F[i].class \in BootClass
  PROVE  /\ Len(F[i].rows) \in 1 .. Len(F[i].rows) /\ Ended(F[i])
         /\ F[i].class \notin MarkClass \cup VarClass \cup {"outsider"}
<1>1. PICK N \in Nat : N = Len(F[i].rows) /\ DOMAIN F[i].rows = 1 .. N
  BY FileRows
<1>2. WellFormed(F[i]) /\ Handled(F[i])
      /\ (F[i].class = "init" => MergeDownFnEnds(OwnRows(F, i), 1) = {N})
  <2>1. i \in DOMAIN F
    BY FileRows
  <2> QED
    BY <1>1, <2>1, FileAssumption
<1>3. N \in 1 .. N /\ \E w \in {";", "}"} : OnRow(F[i], N, w)
  <2>1. CASE F[i].class = "init"
    <3>1. Len(OwnRows(F, i)) = N
      BY <1>1 DEF OwnRows
    <3>2. N \in 1 .. N
      BY <1>2, <2>1, <3>1 DEF MergeDownFnEnds
    <3> QED
      BY <1>1, <1>2, <2>1, <3>2 DEF WellFormed
  <2>2. CASE F[i].class = "boot"
    <3>1. N = 1 /\ OnRow(F[i], 1, ";")
      BY <1>1, <1>2, <2>2 DEF Handled
    <3>2. OnRow(F[i], N, ";")
      BY <3>1
    <3>3. N \in 1 .. N
      <4>1. 1 \in 1 .. 1
        OBVIOUS
      <4> QED
        BY <3>1, <4>1
    <3> QED
      BY <3>2, <3>3
  <2> QED
    BY <2>1, <2>2 DEF BootClass
<1>4. F[i].rows # <<>>
  <2>1. PICK q : q = F[i].rows /\ Len(q) = N
    BY <1>1
  <2>2. N # 0
    <3>1. \A k \in Nat : k \in 1 .. k => k # 0
      OBVIOUS
    <3>2. N \in 1 .. N
      BY <1>3
    <3> QED
      BY <3>1, <3>2
  <2>3. q # <<>>
    BY <2>1, <2>2
  <2> QED
    BY <2>1, <2>3
<1>5. {";", "}"} \subseteq TerminatorWords
  BY DEF TerminatorWords
<1>6. Ended(F[i])
  BY <1>1, <1>3, <1>4, <1>5 DEF Ended
<1>7. F[i].class \notin MarkClass \cup VarClass \cup {"outsider"}
  BY DEF BootClass, MarkClass, VarClass
<1> QED
  BY <1>1, <1>3, <1>6, <1>7

LEMMA BootIntact ==
  ASSUME FreshInv, PlainInv, place \notin LastPlaces, NEW j \in Items,
         file[j].class \in BootClass
  PROVE  /\ j \in 1 .. Len(file) /\ Intact(file, lines, j) /\ EndsIn(file, lines, j)
         /\ Row(j, 1) \in Block(file, j)
<1>1. PICK F : F \in ModFile \cup SdcrFile /\ F = file
  BY DEF FreshInv
<1> F \in ModFile \cup SdcrFile
  BY <1>1
<1>2. j \in 1 .. Len(F)
  BY <1>1, SharedVars
<1>3. PICK N \in Nat : N = Len(F[j].rows) /\ N \in 1 .. N /\ Ended(F[j])
  BY <1>1, <1>2, BootRows, FileRows
<1>4. file[j].class \notin MarkClass \cup VarClass \cup {"outsider"}
  BY <1>1, <1>2, BootRows
<1>5. Kept(j) /\ file[j].class \notin SharedClass
  BY <1>1, <1>3, <1>4, SharedVars DEF Kept
<1>6. PlainAt(j)
  BY <1>5 DEF PlainInv
<1>7. Intact(file, lines, j)
  BY <1>4, <1>6, PlainListed DEF PlainAt
<1>8. EndsIn(file, lines, j)
  BY <1>1, <1>2, <1>5, <1>7, KeptEnds
<1>9. 1 \in 1 .. N
  BY <1>3
<1>10. Row(j, 1) \in Block(F, j)
  BY <1>1, <1>2, <1>3, <1>9, BlockRows DEF Row
<1> QED
  BY <1>1, <1>2, <1>7, <1>8, <1>10

\* Work on another item.
LEMMA PlainWorking ==
  ASSUME FreshInv, PlainInv, NEW j, Working(j), NEW i \in Items, i # j,
         Kept(i), file[i].class \notin SharedClass
  PROVE  PlainAt(i)'
<1>1. PICK F : F \in ModFile \cup SdcrFile /\ F = file
  BY DEF FreshInv
<1> F \in ModFile \cup SdcrFile
  BY <1>1
<1>2. i \in 1 .. Len(F) /\ place \notin LastPlaces /\ PlainAt(i)
  BY <1>1, SharedVars DEF PlainInv, Working
<1>3. PICK L, M : L = lines /\ M = lines'
  OBVIOUS
<1>4. EndsIn(F, L, i)
  BY <1>1, <1>2, <1>3, KeptEnds DEF PlainAt
<1>5. \A t \in Block(F, i) : M[t] = L[t]
  BY <1>1, <1>2, <1>3, <1>4 DEF Working, Reworks, Keeps
<1>6. ASSUME NEW r \in 1 .. Len(F[i].rows) PROVE M[Row(i, r)] = L[Row(i, r)]
  BY <1>1, <1>2, <1>5, BlockRows DEF Row
<1>7. Steady /\ place' = place
  BY DEF Working
<1>8. ListedIn(L, i) => ListedIn(lines, i)'
  <2>1. ASSUME ListedIn(L, i), NEW r \in 1 .. Len(F[i].rows)
        PROVE  M[Row(i, r)] = ListedRow(i, r)
    BY <1>1, <1>6, <2>1 DEF ListedIn
  <2>2. ListedIn(L, i) => \A r \in 1 .. Len(F[i].rows) : M[Row(i, r)'] = ListedRow(i, r)'
    BY <1>7, <2>1, WantedSteady
  <2> QED
    BY <1>1, <1>3, <1>7, <2>2 DEF ListedIn, Steady
<1>9. Intact(F, L, i) => Intact(file, lines, i)'
  BY <1>1, <1>3, <1>6, <1>7 DEF Intact, Row, Steady, RowOf
<1>10. Ahead(i) => Ahead(i)'
  <2>1. CASE place \in FnPlaces /\ i \in todo
    BY <1>7, <2>1 DEF Working, Ahead
  <2>2. CASE place \in FnPlaces /\ file[i].class \in Later(place)
    BY <1>7, <2>2 DEF Ahead, Steady, Later, Now
  <2>3. ASSUME place = "static_var", NEW v \in todo, v[1] = i PROVE Ahead(i)'
    <3>1. place \notin FnPlaces
      BY <2>3 DEF FnPlaces
    <3>2. v \in todo'
      BY <2>3, <3>1 DEF Working
    <3> QED
      BY <1>7, <2>3, <3>2 DEF Ahead
  <2> QED
    BY <2>1, <2>2, <2>3 DEF Ahead
<1> QED
  BY <1>1, <1>2, <1>3, <1>8, <1>9, <1>10 DEF PlainAt
LEMMA ListedSteady ==
  ASSUME FreshInv, Steady, NEW i
  PROVE  /\ ListedIn(lines', i) => ListedIn(lines, i)'
         /\ Intact(file, lines', i) => Intact(file, lines, i)'
         /\ Kept(i)' = Kept(i)
<1>1. PICK M : M = lines'
  OBVIOUS
<1>2. ASSUME ListedIn(M, i) PROVE ListedIn(lines, i)'
  <2>1. \A r \in 1 .. Len(file[i].rows) : M[Row(i, r)'] = ListedRow(i, r)'
    BY <1>2, WantedSteady DEF ListedIn
  <2> QED
    BY <1>1, <2>1 DEF ListedIn, Steady
<1>3. ASSUME Intact(file, M, i) PROVE Intact(file, lines, i)'
  BY <1>1, <1>3 DEF Intact, RowOf, Steady
<1>4. Kept(i)' = Kept(i)
  BY DEF Kept, Steady
<1> QED
  BY <1>1, <1>2, <1>3, <1>4

\* A definition has one variable or two.
LEMMA DeclsOf ==
  ASSUME NEW F \in ModFile \cup SdcrFile, NEW i \in 1 .. Len(F), NEW m, m = Collected(F)[i]
  PROVE  m.decls = {1} \/ m.decls = 1 .. 2
<1> DEFINE on(kind) == {r \in DOMAIN F[i].rows : OnRow(F[i], r, kind)}
<1>1. i \in DOMAIN F
  BY FileRows
<1>2. m.decls = IF on("name2") # {} THEN 1 .. 2 ELSE {1}
  BY <1>1 DEF Collected
<1> HIDE DEF on
<1> QED
  BY <1>2

\* When a list is empty, the items of the next are still as they were read.
LEMMA PlainTurning ==
  ASSUME FreshInv, PlainInv, Steady, NextList, lines' = lines, NEW i \in Items,
         Kept(i), file[i].class \notin SharedClass
  PROVE  PlainAt(i)'
<1>1. PICK F : F \in ModFile \cup SdcrFile /\ F = file /\ meta = Collected(F)
  BY DEF FreshInv
<1> F \in ModFile \cup SdcrFile
  BY <1>1
<1>2. place \notin LastPlaces /\ todo = {} /\ PlainAt(i)
  <2>1. place \notin LastPlaces /\ todo = {}
    BY DEF NextList, LastPlaces
  <2> QED
    BY <2>1 DEF PlainInv
<1>3. CASE ListedIn(lines, i)
  <2>1. ListedIn(lines', i)
    BY <1>3
  <2> QED
    BY <2>1, ListedSteady DEF PlainAt
<1>4. CASE Ahead(i) /\ Intact(file, lines, i)
  <2>1. place \in FnPlaces /\ file[i].class \in Later(place)
    BY <1>2, <1>4 DEF Ahead
  <2>2. Intact(file, lines, i)'
    <3>1. Intact(file, lines', i)
      BY <1>4
    <3> QED
      BY <3>1, ListedSteady
  <2>3. \A C : file[i].class \in C => i \in OfClass(C)
    BY DEF OfClass
  <2>5. file' = file
    BY DEF Steady
  <2>6. CASE place = "fn"
    <3>1. place' = "callback" /\ todo' = OfClass(Now("callback")) /\ "callback" \in FnPlaces
      BY <2>6, PlacesApart DEF NextList, After, CallbackList, Now
    <3>2. file[i].class \in Now("callback") \cup Later("callback")
      BY <2>1, <2>6 DEF Later
    <3>3. i \in todo' \/ file[i].class \in Later("callback")
      BY <2>3, <3>1, <3>2
    <3>4. Ahead(i)'
      <4>1. PICK p, C : p = "callback" /\ C = Later(p) /\ Later(place)' = C
        BY <3>1 DEF Later, Now
      <4> QED
        BY <2>5, <3>1, <3>3, <4>1 DEF Ahead
    <3> QED
      BY <2>2, <3>4 DEF PlainAt
  <2>7. CASE place = "callback"
    <3>1. place' = "interface" /\ todo' = OfClass(Now("interface")) /\ "interface" \in FnPlaces
      BY <2>7, PlacesApart DEF NextList, After, InterfaceList, Now
    <3>2. file[i].class \in Now("interface") \cup Later("interface")
      BY <2>1, <2>7 DEF Later
    <3>3. i \in todo' \/ file[i].class \in Later("interface")
      BY <2>3, <3>1, <3>2
    <3>4. Ahead(i)'
      <4>1. PICK p, C : p = "interface" /\ C = Later(p) /\ Later(place)' = C
        BY <3>1 DEF Later, Now
      <4> QED
        BY <2>5, <3>1, <3>3, <4>1 DEF Ahead
    <3> QED
      BY <2>2, <3>4 DEF PlainAt
  <2>8. CASE place = "interface"
    <3>1. place' = "static_var" /\ todo' = StaticVarList
      BY <2>8 DEF NextList, After
    <3>2. file[i].class \in VarClass
      BY <2>1, <2>8 DEF Later
    <3>3. ~in_sdcr_srcs /\ file[i].class \in {"static", "force_private"}
      BY <3>2 DEF SharedClass, VarClass
    <3>4. CASE file[i].class = "static"
      <4>1. <<i, 1>> \in StaticVarList
        <5>1. 1 \in meta[i].decls
          <6>1. PICK m : m = Collected(F)[i] /\ m = meta[i]
            BY <1>1
          <6>2. m.decls = {1} \/ m.decls = 1 .. 2
            BY <1>1, <6>1, DeclsOf, SharedVars
          <6>3. 1 \in {1} /\ 1 \in 1 .. 2
            OBVIOUS
          <6> QED
            BY <6>1, <6>2, <6>3
        <5>2. i \in OfClass({"static"})
          BY <3>4 DEF OfClass
        <5>3. <<i, 1>> \in Declared({"static"})
          BY <5>1, <5>2 DEF Declared
        <5> QED
          BY <3>3, <5>3 DEF StaticVarList
      <4>2. <<i, 1>>[1] = i
        OBVIOUS
      <4>3. \E v \in todo' : v[1] = i
        BY <3>1, <4>1, <4>2
      <4>4. Ahead(i)'
        BY <3>1, <4>3 DEF Ahead
      <4> QED
        BY <2>2, <4>4 DEF PlainAt
    <3>5. CASE file[i].class = "force_private"
      <4>1. \A r : ListedRow(i, r) = Token(i, r)
        BY <3>2, <3>5, ListedCases
      <4>2. ListedIn(lines', i)
        BY <1>4, <4>1 DEF ListedIn, Intact, RowOf, Row, Token
      <4> QED
        BY <4>2, ListedSteady DEF PlainAt
    <3> QED
      BY <3>3, <3>4, <3>5
  <2> QED
    BY <2>1, <2>6, <2>7, <2>8 DEF FnPlaces
<1> QED
  BY <1>2, <1>3, <1>4 DEF PlainAt

\* PlainInv is inductive.
LEMMA PlainNext ==
  ASSUME FreshInv, LinesInv, PlainInv, [Next]_vars
  PROVE  PlainInv'
<1>1. ASSUME Steady,
             \A i \in Items : Kept(i) /\ file[i].class \notin SharedClass => PlainAt(i)'
      PROVE  PlainInv'
  <2>1. \A i : Kept(i)' = Kept(i)
    BY <1>1, ListedSteady
  <2>2. Items' = Items /\ SharedClass' = SharedClass /\ file' = file
    BY <1>1, WantedSteady DEF Steady
  <2> QED
    BY <1>1, <2>1, <2>2 DEF PlainInv
<1>2. ASSUME NEW j, Working(j),
             Kept(j) /\ file[j].class \notin SharedClass => PlainAt(j)'
      PROVE  PlainInv'
  <2>1. ASSUME NEW i \in Items, Kept(i), file[i].class \notin SharedClass PROVE PlainAt(i)'
    <3>1. CASE i # j
      BY <1>2, <2>1, <3>1, PlainWorking
    <3>2. CASE i = j
      BY <1>2, <2>1, <3>2
    <3> QED
      BY <3>1, <3>2
  <2> QED
    BY <1>1, <1>2, <2>1 DEF Working
<1>3. ASSUME NEW j \in Items, ExtractOutsider(j) PROVE PlainInv'
  BY <1>2, <1>3, OutsiderWorking DEF Kept
<1>4. ASSUME NEW j \in Items,
             ExtractOptimised(j) \/ ExtractCallback(j) \/ ExtractInterface(j)
      PROVE  PlainInv'
  <2>1. Working(j) /\ ListedIn(lines', j)
    BY <1>4, MarkWorking, MarkWork
  <2>2. PlainAt(j)'
    BY <2>1, ListedSteady DEF PlainAt, Working
  <2> QED
    BY <1>2, <2>1, <2>2
<1>5. ASSUME NEW v \in todo, ExtractStatic(v) PROVE PlainInv'
  <2>1. PICK j : j = v[1] /\ Working(j) /\ j \in Items
    BY <1>5, StaticWorking, StaticWork
  <2>2. Intact(file, lines, j) \/ ListedIn(lines, j) => ListedIn(lines', j)
    BY <1>5, <2>1, StaticWork
  <2>3. ASSUME Kept(j) /\ file[j].class \notin SharedClass PROVE PlainAt(j)'
    <3>1. PlainAt(j)
      BY <2>1, <2>3 DEF PlainInv, Working
    <3>2. ListedIn(lines', j)
      BY <2>2, <3>1 DEF PlainAt
    <3> QED
      BY <2>1, <3>2, ListedSteady DEF PlainAt, Working
  <2> QED
    BY <1>2, <2>1, <2>3
<1>6. ASSUME NEW j \in OfClass(SharedClass), Working(j) PROVE PlainInv'
  BY <1>2, <1>6 DEF OfClass
<1>7. ASSUME NEW v \in todo, MergeShared(v) PROVE PlainInv'
  BY <1>6, <1>7, MergeWorking
<1>8. ASSUME NEW v \in todo, DeleteShared(v) \/ DeclareShared(v) PROVE PlainInv'
  BY <1>6, <1>8, DeclareWorking
<1>9. ASSUME Scanning PROVE PlainInv'
  BY <1>9 DEF Scanning, PlainInv, LastPlaces
<1>10. ASSUME Turning PROVE PlainInv'
  <2>1. CASE NextList
    <3>1. Steady /\ lines' = lines
      BY <1>10 DEF Turning
    <3> QED
      BY <1>1, <2>1, <3>1, PlainTurning
  <2>2. CASE WriteFile
    BY <2>2 DEF WriteFile, PlainInv, LastPlaces
  <2>3. CASE place' = place /\ todo' = todo
    <3>1. Steady /\ lines' = lines /\ LastPlaces' = LastPlaces
      BY <1>10 DEF Turning, LastPlaces
    <3>2. CASE place \in LastPlaces
      BY <2>3, <3>1, <3>2 DEF PlainInv
    <3>3. CASE place \notin LastPlaces
      <4>1. ASSUME NEW i \in Items, Kept(i), file[i].class \notin SharedClass
            PROVE  PlainAt(i)'
        <5>1. PlainAt(i)
          BY <3>3, <4>1 DEF PlainInv
        <5>2. Ahead(i) => Ahead(i)'
          BY <2>3, <3>1 DEF Ahead, Steady, Later, Now
        <5>3. /\ ListedIn(lines, i) => ListedIn(lines', i)
              /\ Intact(file, lines, i) => Intact(file, lines', i)
          BY <3>1
        <5> QED
          BY <3>1, <5>1, <5>2, <5>3, ListedSteady DEF PlainAt
      <4> QED
        BY <1>1, <3>1, <4>1
    <3> QED
      BY <3>2, <3>3
  <2> QED
    BY <1>10, <2>1, <2>2, <2>3 DEF Turning
<1> QED
  BY <1>3, <1>4, <1>5, <1>7, <1>8, <1>9, <1>10, StepCases
LEMMA PlainInit ==
  ASSUME Init
  PROVE  PlainInv
<1>1. PICK F \in ModFile \cup SdcrFile : F = file
  BY DEF Init
<1>2. PICK L : L = lines /\ L = Unread(F)
  BY <1>1 DEF Init, Unread, Items, Token, RowOf, Tokens
<1>3. place = "fn" /\ todo = OfClass(Now("fn")) /\ "fn" \in FnPlaces
  BY PlacesApart DEF Init, FnList, Now
<1>4. ASSUME NEW i \in Items, Kept(i) PROVE PlainAt(i)
  <2>1. Intact(file, lines, i)
    BY <1>1, <1>2, FileAsRead, FileRows DEF Items
  <2>2. CASE file[i].class \notin MarkClass \cup VarClass
    BY <2>1, <2>2, PlainListed DEF PlainAt
  <2>3. CASE file[i].class \in MarkClass \cup VarClass
    <3>1. file[i].class \in Now("fn") \/ file[i].class \in Later("fn")
      BY <2>3 DEF MarkClass, Now, Later
    <3>2. i \in todo \/ file[i].class \in Later(place)
      BY <1>3, <3>1 DEF OfClass
    <3> QED
      BY <1>3, <2>1, <3>2 DEF PlainAt, Ahead
  <2> QED
    BY <2>2, <2>3
<1> QED
  BY <1>4 DEF PlainInv

-------------------------------------------------------------------------------
(***************************************************************************)
(* The words of what is for boot only are on no other row than the first   *)
(* of an item that is.                                                     *)
(***************************************************************************)
Boot == Nat \X BootWords
HomeAt(t) ==
  Free(lines[t], Boot) \/ \E j \in Items : file[j].class \in BootClass /\ t = Row(j, 1)

HomeInv == \A t \in 1 .. Total(file) : HomeAt(t)

LEMMA BootNew == NoneWritten(Boot)
<1>1. Written \cap BootWords = {}
  BY DEF Written, BootWords
<1>2. ASSUME NEW i \in Nat, NEW w \in Written PROVE <<i, w>> \notin Boot
  BY <1>1, <1>2 DEF Boot
<1> QED
  BY <1>2 DEF NoneWritten

LEMMA HomeInit ==
  ASSUME Init
  PROVE  HomeInv
<1>1. PICK F \in ModFile \cup SdcrFile : F = file
  BY DEF Init
<1>2. PICK L : L = lines /\ L = Unread(F)
  BY <1>1 DEF Init, Unread, Items, Token, RowOf, Tokens
<1>3. \A j \in 1 .. Len(F) : Intact(F, L, j)
  BY <1>2, FileAsRead
<1>4. Items = 1 .. Len(F)
  BY <1>1, FileRows DEF Items
<1>5. ASSUME NEW t \in 1 .. Total(F) PROVE HomeAt(t)
  <2>1. PICK j \in 1 .. Len(F) : t \in Block(F, j)
    BY RowOwned
  <2>2. PICK r \in 1 .. Len(F[j].rows) : t = RowsBefore(F)[j - 1] + r
    BY <2>1, BlockRows
  <2>3. L[t] = RowOf(F, j, r)
    BY <1>3, <2>1, <2>2 DEF Intact
  <2>4. CASE \A k \in DOMAIN F[j].rows[r] : F[j].rows[r][k] \notin BootWords
    <3>1. \A w : <<j, w>> \in Boot => w \in BootWords
      BY DEF Boot
    <3>2. \A k \in DOMAIN F[j].rows[r] : <<j, F[j].rows[r][k]>> \notin Boot
      BY <2>4, <3>1
    <3>3. Free(L[t], Boot)
      BY <2>2, <2>3, <3>2, TokensFree
    <3> QED
      BY <1>2, <3>3 DEF HomeAt
  <2>5. ASSUME NEW k \in DOMAIN F[j].rows[r], F[j].rows[r][k] \in BootWords PROVE HomeAt(t)
    <3>1. PICK w \in BootWords : OnRow(F[j], r, w)
      BY <2>5 DEF OnRow
    <3>2. Handled(F[j]) /\ r \in DOMAIN F[j].rows
      <4>1. j \in DOMAIN F /\ DOMAIN F[j].rows = 1 .. Len(F[j].rows)
        BY FileRows
      <4> QED
        BY <4>1, FileAssumption
    <3>3. F[j].class \in BootClass /\ r = 1
      BY <3>1, <3>2 DEF Handled
    <3>4. t = Row(j, 1)
      BY <1>1, <2>2, <3>3 DEF Row
    <3> QED
      BY <1>1, <1>4, <3>3, <3>4 DEF HomeAt
  <2> QED
    BY <2>4, <2>5
<1> QED
  BY <1>1, <1>5 DEF HomeInv

\* The lists write no such word, and join no row that has one.
LEMMA HomeWorking ==
  ASSUME FreshInv, PlainInv, HomeInv, NEW i, Working(i)
  PROVE  HomeInv'
<1>1. PICK F : F \in ModFile \cup SdcrFile /\ F = file
  BY DEF FreshInv
<1> F \in ModFile \cup SdcrFile
  BY <1>1
<1>2. PICK L, M : L = lines /\ M = lines'
  OBVIOUS
<1>3. Clear(F, L, i, Boot)
  <2>1. ASSUME NEW u \in 1 .. Total(F), ~Free(L[u], Boot)
        PROVE  \E j \in 1 .. Len(F) : j # i /\ EndsIn(F, L, j) /\ u \in Block(F, j)
    <3>1. PICK j \in Items : file[j].class \in BootClass /\ u = Row(j, 1)
      BY <1>1, <1>2, <2>1 DEF HomeInv, HomeAt
    <3>2. j \in 1 .. Len(F) /\ EndsIn(F, L, j) /\ u \in Block(F, j)
      BY <1>1, <1>2, <3>1, BootIntact DEF Working
    <3>3. j # i
      BY <3>1 DEF Working, BootClass, Known, FnClass, VarClass
    <3> QED
      BY <3>2, <3>3
  <2> QED
    BY <2>1 DEF Clear
<1>4. NoneNew(F, L, M, Boot)
  BY <1>1, <1>2, <1>3, BootNew DEF Working, Reworks
<1>5. Steady
  BY DEF Working
<1>6. ASSUME NEW t \in 1 .. Total(F) PROVE HomeAt(t)'
  <2>1. M[t] = L[t] \/ Free(M[t], Boot)
    BY <1>4 DEF NoneNew
  <2>2. Free(M[t], Boot) \/ \E j \in Items : file[j].class \in BootClass /\ t = Row(j, 1)
    BY <1>1, <1>2, <1>6, <2>1 DEF HomeInv, HomeAt
  <2>3. Free(M[t], Boot) => Free(lines[t], Boot)'
    BY <1>2 DEF Free, Boot
  <2> QED
    BY <1>5, <2>2, <2>3, WantedSteady DEF HomeAt, Steady
<1> QED
  BY <1>1, <1>5, <1>6 DEF HomeInv, Steady, Total
-------------------------------------------------------------------------------
(***************************************************************************)
(* What fix_up does to a row.                                              *)
(***************************************************************************)
DeletesTo(L, r, e) ==
  IF DeletesWhole(L[r])
    THEN e \in MergeDownFnEnds(L, r) /\ \A u \in MergeDownFnEnds(L, r) : e <= u
    ELSE e = r

ScansRow(n, L, M, r) ==
  \/ /\ Has(L[r], IncludeWords)
     /\ M = [t \in 1 .. n |-> IF t = r THEN FixInclude(L[r]) ELSE L[t]]
  \/ /\ Deletes(L[r])
     /\ \E e \in r .. n : /\ DeletesTo(L, r, e)
                          /\ M = [t \in 1 .. n |-> IF t \in r .. e THEN <<>> ELSE L[t]]
  \/ ~Deletes(L[r]) /\ ~Has(L[r], IncludeWords) /\ M = L

\* The three kinds of steps of fix_up, as one function of the rows.
LEMMA FixUpShape ==
  ASSUME FreshInv, LinesInv, row <= Len(lines), FixUpInclude \/ FixUpDelete \/ FixUpOther,
         NEW n \in Nat, n = Total(file)
  PROVE  /\ row \in 1 .. n /\ lines \in [1 .. n -> Line]
         /\ ScansRow(n, lines, lines', row)
<1>1. PICK L \in [1 .. n -> Line] : L = lines
  BY DEF LinesInv
<1>2. row \in 1 .. n
  BY <1>1 DEF LinesInv
<1>3. ASSUME FixUpInclude PROVE ScansRow(n, L, lines', row)
  <2>1. lines' = [t \in 1 .. n |-> IF t = row THEN FixInclude(L[row]) ELSE L[t]]
    BY <1>1, <1>2, <1>3 DEF FixUpInclude, FixRow
  <2>2. Has(L[row], IncludeWords)
    BY <1>1, <1>3 DEF FixUpInclude
  <2> QED
    BY <2>1, <2>2, Zenon DEF ScansRow
<1>4. ASSUME FixUpDelete PROVE ScansRow(n, L, lines', row)
  <2>1. PICK M : /\ M = IF DeletesWhole(L[row]) THEN MergeDownFn(L, row) ELSE L
                 /\ lines' = Emptied(M, {row})
    BY <1>1, <1>4 DEF FixUpDelete, FixRow
  <2>2. Deletes(L[row])
    BY <1>1, <1>4 DEF FixUpDelete
  <2>3. CASE ~DeletesWhole(L[row])
    <3>1. lines' = [t \in 1 .. n |-> IF t \in {row} THEN <<>> ELSE L[t]]
      BY <1>1, <2>1, <2>3 DEF Emptied
    <3>2. {row} = row .. row /\ row \in row .. n
      BY <1>2
    <3>3. DeletesTo(L, row, row)
      BY <2>3 DEF DeletesTo
    <3>4. lines' = [t \in 1 .. n |-> IF t \in row .. row THEN <<>> ELSE L[t]]
      BY <3>1, <3>2
    <3> QED
      BY <2>2, <3>2, <3>3, <3>4, Zenon DEF ScansRow
  <2>4. CASE DeletesWhole(L[row])
    <3>1. MergeDownFnEnds(L, row) # {}
      BY <1>1, <1>4, <2>4 DEF FixUpDelete
    <3>2. PICK e \in row .. n : /\ MergeDownFn(L, row) = Join(L, row, e, row)
                                /\ e \in MergeDownFnEnds(L, row)
                                /\ \A u \in MergeDownFnEnds(L, row) : e <= u
      BY <1>2, <3>1, MergeDownFnJoins
    <3>3. DeletesTo(L, row, e)
      BY <2>4, <3>2 DEF DeletesTo
    <3>4. PICK J : M = [t \in 1 .. n |-> IF t = row THEN J
                                         ELSE IF t \in row .. e THEN <<>> ELSE L[t]]
      <4>1. M = Join(L, row, e, row)
        BY <2>1, <2>4, <3>2
      <4>2. PICK J : J = FlattenSeq(SubSeq(L, row, e))
        OBVIOUS
      <4>3. Join(L, row, e, row) = [t \in 1 .. n |-> IF t = row THEN J
                                         ELSE IF t \in row .. e THEN <<>> ELSE L[t]]
        BY <1>2, <3>2, <4>2, JoinExact
      <4> QED
        BY <4>1, <4>3
    <3>5. lines' = [t \in 1 .. n |-> IF t = row THEN <<>> ELSE M[t]]
      BY <2>1, <3>4 DEF Emptied
    <3>6. row \in row .. e
      BY <1>2, <3>2
    <3>7. \A t \in 1 .. n : (IF t = row THEN <<>> ELSE M[t])
                               = IF t \in row .. e THEN <<>> ELSE L[t]
      BY <3>4, <3>6
    <3>8. lines' = [t \in 1 .. n |-> IF t \in row .. e THEN <<>> ELSE L[t]]
      BY <3>5, <3>7
    <3> QED
      BY <2>2, <3>2, <3>3, <3>8, Zenon DEF ScansRow
  <2> QED
    BY <2>3, <2>4
<1>5. ASSUME FixUpOther PROVE ScansRow(n, L, lines', row)
  <2>1. lines' = L /\ ~Deletes(L[row]) /\ ~Has(L[row], IncludeWords)
    BY <1>1, <1>5 DEF FixUpOther, FixRow
  <2> QED
    BY <2>1, Zenon DEF ScansRow
<1> QED
  BY <1>1, <1>2, <1>3, <1>4, <1>5

\* What a row that is intact has.
LEMMA RowHas ==
  ASSUME NEW F, NEW i, NEW r, NEW K
  PROVE  Has(RowOf(F, i, r), K) <=> \E w \in K : OnRow(F[i], r, w)
<1>1. PICK l, x : l = F[i].rows[r] /\ x = RowOf(F, i, r)
  OBVIOUS
<1>2. x = [k \in DOMAIN l |-> <<i, l[k]>>]
  BY <1>1 DEF RowOf, Tokens
<1>3. \A k \in DOMAIN l : x[k][2] = l[k]
  <2>1. \A w : <<i, w>>[2] = w
    OBVIOUS
  <2> QED
    BY <1>2, <2>1
<1>4. Has(x, K) <=> \E k \in DOMAIN l : l[k] \in K
  BY <1>2, <1>3 DEF Has
<1>5. \A w : OnRow(F[i], r, w) <=> \E k \in DOMAIN l : l[k] = w
  BY <1>1 DEF OnRow
<1> QED
  BY <1>1, <1>4, <1>5

\* A part of the file that is the rows of an item, as a part of the item.
LEMMA SameRows ==
  ASSUME NEW N \in Nat, NEW b \in Nat, NEW n \in Nat, b + N <= n,
         NEW L \in [1 .. n -> Line], NEW O \in [1 .. N -> Line],
         \A q \in 1 .. N : L[b + q] = O[q], NEW q \in 1 .. N
  PROVE  SubSeq(L, b + 1, b + q) = SubSeq(O, 1, q)
<1>1. PICK A, B : A = SubSeq(L, b + 1, b + q) /\ B = SubSeq(O, 1, q)
  OBVIOUS
<1>2. q \in Nat /\ 1 <= q /\ q <= N
  OBVIOUS
<1>3. /\ b + 1 \in 1 .. n /\ b + q \in b + 1 .. n /\ b + q - (b + 1) + 1 = q
      /\ 1 \in 1 .. N /\ q \in 1 .. N /\ q - 1 + 1 = q
  BY <1>2
<1>4. A \in Seq(Line) /\ Len(A) = q /\ \A k \in 1 .. q : A[k] = L[b + 1 + k - 1]
  BY <1>1, <1>3, SubSeqRows
<1>5. B \in Seq(Line) /\ Len(B) = q /\ \A k \in 1 .. q : B[k] = O[1 + k - 1]
  BY <1>1, <1>3, SubSeqRows
<1>6. ASSUME NEW k \in 1 .. q PROVE A[k] = B[k]
  <2>1. k \in Nat /\ 1 <= k /\ k <= N
    BY <1>2
  <2>2. k \in 1 .. N /\ b + 1 + k - 1 = b + k /\ 1 + k - 1 = k
    BY <2>1
  <2> QED
    BY <1>4, <1>5, <2>2
<1>7. \A x, y \in Seq(Line) :
        Len(x) = Len(y) /\ (\A k \in 1 .. Len(x) : x[k] = y[k]) => x = y
  OBVIOUS
<1> QED
  BY <1>1, <1>4, <1>5, <1>6, <1>7

\* The last pass deletes all of an item for boot only, and nothing below it.
LEMMA BootBlock ==
  ASSUME NEW F \in ModFile \cup SdcrFile, NEW j \in 1 .. Len(F), F[j].class \in BootClass,
         NEW L \in [1 .. Total(F) -> Line], Intact(F, L, j),
         NEW r, r = RowsBefore(F)[j - 1] + 1
  PROVE  /\ Deletes(L[r]) /\ ~Has(L[r], IncludeWords)
         /\ \A e : DeletesTo(L, r, e) => e = RowsBefore(F)[j]
<1>1. PICK N \in Nat, b \in Nat, n \in Nat :
        /\ N = Len(F[j].rows) /\ DOMAIN F[j].rows = 1 .. N /\ N \in 1 .. N
        /\ b = RowsBefore(F)[j - 1] /\ RowsBefore(F)[j] = b + N
        /\ n = Total(F) /\ b + N <= n
  <2>1. PICK N \in Nat : N = Len(F[j].rows) /\ DOMAIN F[j].rows = 1 .. N
    BY FileRows
  <2>2. N \in 1 .. N
    BY <2>1, BootRows
  <2>3. PICK b \in Nat, n \in Nat :
          /\ b = RowsBefore(F)[j - 1] /\ RowsBefore(F)[j] = b + N
          /\ n = Total(F) /\ b + N <= n
    <3>1. /\ RowsBefore(F)[j - 1] \in Nat /\ Total(F) \in Nat
          /\ RowsBefore(F)[j] = RowsBefore(F)[j - 1] + N /\ RowsBefore(F)[j] <= Total(F)
      BY <2>1, BlocksApart
    <3> QED
      BY <3>1
  <2> QED
    BY <2>1, <2>2, <2>3
<1>2. WellFormed(F[j]) /\ Handled(F[j])
      /\ (F[j].class = "init" => MergeDownFnEnds(OwnRows(F, j), 1) = {N})
  <2>1. j \in DOMAIN F
    BY FileRows
  <2> QED
    BY <1>1, <2>1, FileAssumption
<1>3. 1 \in 1 .. N /\ r = b + 1
  BY <1>1
<1>4. L[r] = RowOf(F, j, 1)
  BY <1>1, <1>3 DEF Intact
<1>5. \A K : Has(L[r], K) <=> \E w \in K : OnRow(F[j], 1, w)
  BY <1>4, RowHas
<1>6. \E w \in BootWords : OnRow(F[j], 1, w)
  BY <1>2 DEF Handled, BootClass, BootWords
<1>7. Deletes(L[r]) /\ ~Has(L[r], IncludeWords)
  <2>1. \A w \in IncludeWords : ~OnRow(F[j], 1, w)
    BY <1>2, <1>3, <1>1 DEF Handled
  <2> QED
    BY <1>5, <1>6, <2>1 DEF Deletes
<1>8. OnRow(F[j], 1, ";") => N = 1
  BY <1>1, <1>2 DEF Handled, BootClass
<1>9. ASSUME NEW e, DeletesTo(L, r, e) PROVE e = RowsBefore(F)[j]
  <2>1. CASE OnRow(F[j], 1, ";")
    <3>1. Has(L[r], {";"})
      BY <1>5, <2>1
    <3>2. e = r
      BY <1>9, <3>1 DEF DeletesTo, DeletesWhole
    <3> QED
      BY <1>1, <1>3, <1>8, <2>1, <3>2
  <2>2. CASE ~OnRow(F[j], 1, ";")
    <3>1. F[j].class = "init" /\ OnRow(F[j], 1, "__init")
      BY <1>2, <2>2 DEF Handled, BootClass
    <3>2. DeletesWhole(L[r])
      <4>1. /\ Has(L[r], {"__init"}) <=> \E w \in {"__init"} : OnRow(F[j], 1, w)
            /\ Has(L[r], {";"}) <=> \E w \in {";"} : OnRow(F[j], 1, w)
        <5>1. PICK K1, K2 : K1 = {"__init"} /\ K2 = {";"}
          OBVIOUS
        <5>2. /\ Has(L[r], K1) <=> \E w \in K1 : OnRow(F[j], 1, w)
              /\ Has(L[r], K2) <=> \E w \in K2 : OnRow(F[j], 1, w)
          BY <1>5
        <5> QED
          BY <5>1, <5>2
      <4> QED
        BY <2>2, <3>1, <4>1 DEF DeletesWhole
    <3>3. e \in MergeDownFnEnds(L, r) /\ \A u \in MergeDownFnEnds(L, r) : e <= u
      BY <1>9, <3>2 DEF DeletesTo
    <3>4. PICK O : O = OwnRows(F, j) /\ MergeDownFnEnds(O, 1) = {N}
      BY <1>2, <3>1
    <3>5. O = [q \in 1 .. N |-> RowOf(F, j, q)]
      BY <1>1, <3>4 DEF OwnRows, RowOf
    <3>6. \A q \in 1 .. N : L[b + q] = O[q]
      BY <1>1, <3>5 DEF Intact
    <3>7. O \in [1 .. N -> Line] /\ Len(O) = N /\ Len(L) = n
      <4>1. \A q \in 1 .. N : b + q \in 1 .. n
        <5>1. b + N <= n
          BY <1>1
        <5> QED
          BY <5>1
      <4>2. \A q \in 1 .. N : O[q] \in Line
        BY <1>1, <3>6, <4>1
      <4>3. O \in [1 .. N -> Line]
        BY <3>5, <4>2
      <4>4. Len(L) = n
        BY <1>1
      <4> QED
        BY <4>3, <4>4
    <3>8. ASSUME NEW q \in 1 .. N PROVE SubSeq(L, r, b + q) = SubSeq(O, 1, q)
      <4>1. L \in [1 .. n -> Line] /\ b + N <= n
        BY <1>1
      <4>2. SubSeq(L, b + 1, b + q) = SubSeq(O, 1, q)
        BY <3>6, <3>7, <4>1, SameRows
      <4> QED
        BY <1>3, <4>2
    <3>9. ASSUME NEW q \in 1 .. N
          PROVE  b + q \in MergeDownFnEnds(L, r) <=> q \in MergeDownFnEnds(O, 1)
      <4>1. \A K : Braces(L, r, b + q, K) = Braces(O, 1, q, K)
        BY <3>8 DEF Braces
      <4>2. b + q \in r .. Len(L) /\ q \in 1 .. Len(O)
        <5>1. Len(L) = n /\ Len(O) = N /\ r = b + 1
          BY <1>3, <3>7
        <5>2. b + N <= n
          BY <1>1
        <5>3. b + q \in b + 1 .. n
          BY <5>2
        <5> QED
          BY <5>1, <5>3
      <4> QED
        BY <4>1, <4>2 DEF MergeDownFnEnds
    <3>10. b + N \in MergeDownFnEnds(L, r)
      BY <1>1, <3>4, <3>9
    <3>11. e \in r .. n /\ e <= b + N
      BY <3>3, <3>7, <3>10 DEF MergeDownFnEnds
    <3>12. PICK q \in 1 .. N : e = b + q
      <4>1. e - b \in 1 .. N /\ e = b + (e - b)
        <5>1. e \in b + 1 .. n
          BY <1>3, <3>11
        <5> QED
          BY <3>11, <5>1
      <4> QED
        BY <4>1
    <3>13. q = N
      BY <3>3, <3>4, <3>9, <3>12
    <3> QED
      BY <1>1, <3>12, <3>13
  <2> QED
    BY <2>1, <2>2
<1> QED
  BY <1>7, <1>9

\* HomeInv is inductive: nothing that is written has a word of boot code.
LEMMA HomeNext ==
  ASSUME FreshInv, LinesInv, PlainInv, HomeInv, [Next]_vars
  PROVE  HomeInv'
<1>1. ASSUME Steady, \A t \in 1 .. Total(file) : Free(lines[t], Boot) => Free(lines'[t], Boot)
      PROVE  HomeInv'
  <2>1. ASSUME NEW t \in 1 .. Total(file) PROVE HomeAt(t)'
    <3>1. Free(lines'[t], Boot) => Free(lines[t], Boot)'
      BY DEF Free, Boot
    <3>2. HomeAt(t)
      BY <2>1 DEF HomeInv
    <3> QED
      BY <1>1, <2>1, <3>1, <3>2, WantedSteady DEF HomeAt, Steady
  <2> QED
    BY <1>1, <2>1 DEF HomeInv, Steady, Total
<1>2. ASSUME NEW j, Working(j) PROVE HomeInv'
  BY <1>2, HomeWorking
<1>3. ASSUME Scanning, FixUpInclude \/ FixUpDelete \/ FixUpOther PROVE HomeInv'
  <2>1. PICK n \in Nat : n = Total(file)
    <3>1. PICK F \in ModFile \cup SdcrFile : F = file
      BY DEF FreshInv
    <3>2. Total(F) \in Nat
      BY <3>1, TotalRows
    <3> QED
      BY <3>1, <3>2
  <2>2. row <= Len(lines)
    BY <1>3 DEF Scanning
  <2>3. row \in 1 .. n /\ ScansRow(n, lines, lines', row)
    BY <1>3, <2>1, <2>2, FixUpShape
  <2>4. ASSUME NEW t \in 1 .. n, Free(lines[t], Boot) PROVE Free(lines'[t], Boot)
    <3>1. PICK T : T = Boot /\ NoneWritten(T) /\ Free(lines[t], T)
      BY <2>4, BootNew
    <3>2. Free(FixInclude(lines[t]), T) /\ Free(<<>>, T)
      BY <3>1, FixIncludeFree, FreeLines
    <3>3. lines'[t] \in {lines[t], FixInclude(lines[t]), <<>>}
      BY <2>3, <2>4 DEF ScansRow
    <3> QED
      BY <3>1, <3>2, <3>3
  <2>5. Steady
    BY <1>3 DEF Scanning
  <2> QED
    BY <1>1, <2>1, <2>4, <2>5
<1>4. ASSUME Turning PROVE HomeInv'
  BY <1>1, <1>4 DEF Turning
<1>5. ASSUME NEW i \in Items, ExtractOutsider(i) PROVE HomeInv'
  BY <1>2, <1>5, OutsiderWorking
<1>6. ASSUME NEW i \in Items,
             ExtractOptimised(i) \/ ExtractCallback(i) \/ ExtractInterface(i)
      PROVE  HomeInv'
  BY <1>2, <1>6, MarkWorking
<1>7. ASSUME NEW v \in todo, ExtractStatic(v) PROVE HomeInv'
  BY <1>2, <1>7, StaticWorking
<1>8. ASSUME NEW v \in todo, MergeShared(v) PROVE HomeInv'
  BY <1>2, <1>8, MergeWorking
<1>9. ASSUME NEW v \in todo, DeleteShared(v) \/ DeclareShared(v) PROVE HomeInv'
  BY <1>2, <1>9, DeclareWorking
<1> QED
  BY <1>3, <1>4, <1>5, <1>6, <1>7, <1>8, <1>9, StepCases
-------------------------------------------------------------------------------
(***************************************************************************)
(* The last pass.  The rows it has passed are as they are to be in the     *)
(* end, those ahead as the lists left them.  What is for boot only goes    *)
(* with its first row.                                                     *)
(***************************************************************************)
PassRow(i, r) == IF file[i].class \in BootClass THEN Row(i, 1) ELSE Row(i, r)
FixedAt(i, r) ==
  lines[Row(i, r)] = IF PassRow(i, r) < row THEN FinalRow(i, r) ELSE ListedRow(i, r)
FixAt(i) == \A r \in 1 .. Len(file[i].rows) : FixedAt(i, r)

FixInv == place \in LastPlaces => \A i \in Items : Kept(i) => FixAt(i)

\* A row without include directives stays as it is.
LEMMA FixIncludeNone ==
  ASSUME NEW l \in Line, ~Has(l, IncludeWords)
  PROVE  FixInclude(l) = l
<1>1. \A k \in DOMAIN l : l[k][2] # "include"
  BY DEF Has, IncludeWords
<1>2. PICK n \in Nat : DOMAIN l = 1 .. n /\ l \in [1 .. n -> Text]
  <2>1. DOMAIN l = 1 .. Len(l) /\ Len(l) \in Nat /\ l \in [1 .. Len(l) -> Text]
    BY DEF Line
  <2> QED
    BY <2>1
<1>3. FixInclude(l) = [k \in 1 .. n |-> l[k]]
  BY <1>1, <1>2 DEF FixInclude
<1> QED
  BY <1>2, <1>3

\* Where an item is.
LEMMA ItemRows ==
  ASSUME FreshInv, NEW i \in Items
  PROVE  /\ file \in ModFile \cup SdcrFile /\ i \in 1 .. Len(file) /\ Len(file[i].rows) \in Nat
         /\ \A r \in 1 .. Len(file[i].rows) : Row(i, r) \in Block(file, i) /\ Row(i, r) \in Nat
         /\ \A t \in Block(file, i) : \E r \in 1 .. Len(file[i].rows) : t = Row(i, r)
         /\ Block(file, i) \subseteq 1 .. Total(file) /\ Total(file) \in Nat
<1>1. PICK F : F \in ModFile \cup SdcrFile /\ F = file
  BY DEF FreshInv
<1> F \in ModFile \cup SdcrFile
  BY <1>1
<1>2. i \in 1 .. Len(F) /\ Len(F[i].rows) \in Nat
  BY <1>1, SharedVars, FileRows
<1>3. \A r \in 1 .. Len(F[i].rows) : Row(i, r) \in Block(F, i)
  BY <1>1, <1>2, BlockRows DEF Row
<1>4. \A t \in Block(F, i) : \E r \in 1 .. Len(F[i].rows) : t = Row(i, r)
  BY <1>1, <1>2, BlockRows DEF Row
<1>5. Block(F, i) \subseteq 1 .. Total(F) /\ Total(F) \in Nat
  BY <1>2, BlockRows, TotalRows
<1>6. \A t \in Block(F, i) : t \in Nat
  BY <1>5
<1> QED
  BY <1>1, <1>2, <1>3, <1>4, <1>5, <1>6

LEMMA Disjoint ==
  ASSUME FreshInv, NEW i \in Items, NEW j \in Items, NEW t, t \in Block(file, i),
         t \in Block(file, j)
  PROVE  i = j
<1>1. PICK F : F \in ModFile \cup SdcrFile /\ F = file
  BY DEF FreshInv
<1>2. i \in 1 .. Len(F) /\ j \in 1 .. Len(F)
  BY <1>1, SharedVars
<1> QED
  BY <1>1, <1>2, BlocksDisjoint

\* Where fix_up meets the first row of what is for boot only, it deletes just that.
LEMMA FixBoot ==
  ASSUME FreshInv, LinesInv, FixInv, place \in LastPlaces, NEW j \in Items,
         file[j].class \in BootClass, Row(j, 1) = row
  PROVE  /\ Kept(j) /\ row \in Block(file, j)
         /\ Deletes(lines[row]) /\ ~Has(lines[row], IncludeWords)
         /\ \A e : DeletesTo(lines, row, e) => row .. e = Block(file, j)
<1>1. PICK F, L : F \in ModFile \cup SdcrFile /\ F = file /\ L = lines
  BY DEF FreshInv
<1> F \in ModFile \cup SdcrFile
  BY <1>1
<1>2. j \in 1 .. Len(F) /\ L \in [1 .. Total(F) -> Line]
  BY <1>1, SharedVars DEF LinesInv
<1>3. PICK N : N = Len(F[j].rows) /\ N \in 1 .. N /\ N \in Nat
  BY <1>1, <1>2, BootRows, FileRows
<1>4. Kept(j) /\ file[j].class \notin MarkClass \cup VarClass
  BY <1>1, <1>2, BootRows DEF Kept
<1>5. FixAt(j)
  BY <1>4 DEF FixInv
<1>6. row \in Nat /\ ~(row < row)
  BY DEF LinesInv
<1>7. \A r \in 1 .. N : L[Row(j, r)] = ListedRow(j, r)
  BY <1>1, <1>3, <1>5, <1>6 DEF FixAt, FixedAt, PassRow
<1>8. ListedIn(L, j)
  BY <1>1, <1>3, <1>7 DEF ListedIn
<1>9. Intact(F, L, j)
  BY <1>1, <1>4, <1>8, PlainListed
<1>10. row = RowsBefore(F)[j - 1] + 1
  BY <1>1 DEF Row
<1>11. /\ Deletes(L[row]) /\ ~Has(L[row], IncludeWords)
       /\ \A e : DeletesTo(L, row, e) => e = RowsBefore(F)[j]
  BY <1>1, <1>2, <1>9, <1>10, BootBlock
<1>12. 1 \in 1 .. N
  BY <1>3
<1>13. row \in Block(F, j)
  BY <1>2, <1>3, <1>10, <1>12, BlockRows
<1>14. row .. RowsBefore(F)[j] = Block(F, j)
  BY <1>10 DEF Block
<1> QED
  BY <1>1, <1>4, <1>11, <1>13, <1>14

\* A row that the step leaves alone, of an item that it does not pass.
LEMMA FixedStill ==
  ASSUME FreshInv, LinesInv, Steady, row' = row + 1, NEW i \in Items,
         NEW r \in 1 .. Len(file[i].rows), FixedAt(i, r),
         lines'[Row(i, r)] = lines[Row(i, r)], PassRow(i, r) # row
  PROVE  FixedAt(i, r)'
<1>1. PassRow(i, r)' = PassRow(i, r) /\ Row(i, r)' = Row(i, r)
      /\ FinalRow(i, r)' = FinalRow(i, r) /\ ListedRow(i, r)' = ListedRow(i, r)
  BY WantedSteady DEF PassRow, Steady
<1>2. PassRow(i, r) \in Nat /\ row \in Nat
  <2>1. r \in 1 .. Len(file[i].rows) /\ 1 \in 1 .. Len(file[i].rows)
    <3>1. Len(file[i].rows) \in Nat
      BY ItemRows
    <3>2. 1 <= r /\ r <= Len(file[i].rows) /\ r \in Nat
      BY <3>1
    <3> QED
      BY <3>1, <3>2
  <2>2. Row(i, r) \in Nat /\ Row(i, 1) \in Nat
    BY <2>1, ItemRows
  <2> QED
    BY <2>2 DEF PassRow, LinesInv
<1>3. PICK p \in Nat, q \in Nat : p = PassRow(i, r) /\ q = row /\ p # q /\ row' = q + 1
  BY <1>2
<1>4. p < q + 1 <=> p < q
  BY <1>3
<1>5. lines[Row(i, r)] = IF p < q THEN FinalRow(i, r) ELSE ListedRow(i, r)
  BY <1>3 DEF FixedAt
<1>6. PICK x, y, M : x = FinalRow(i, r) /\ y = ListedRow(i, r) /\ M = lines'
  OBVIOUS
<1>7. M[Row(i, r)] = IF PassRow(i, r) < row' THEN x ELSE y
  BY <1>3, <1>4, <1>5, <1>6
<1> QED
  BY <1>1, <1>6, <1>7 DEF FixedAt

\* A row that the step makes what it is to be.
LEMMA FixedNow ==
  ASSUME FreshInv, LinesInv, Steady, row' = row + 1, NEW i \in Items,
         NEW r \in 1 .. Len(file[i].rows), lines'[Row(i, r)] = FinalRow(i, r),
         PassRow(i, r) = row
  PROVE  FixedAt(i, r)'
<1>1. PassRow(i, r)' = PassRow(i, r) /\ Row(i, r)' = Row(i, r)
      /\ FinalRow(i, r)' = FinalRow(i, r) /\ ListedRow(i, r)' = ListedRow(i, r)
  BY WantedSteady DEF PassRow, Steady
<1>2. row \in Nat /\ row < row'
  BY DEF LinesInv
<1>3. PICK x, y, M : x = FinalRow(i, r) /\ y = ListedRow(i, r) /\ M = lines'
  OBVIOUS
<1>4. M[Row(i, r)] = IF PassRow(i, r) < row' THEN x ELSE y
  BY <1>2, <1>3
<1> QED
  BY <1>1, <1>3, <1>4 DEF FixedAt

\* Nothing that is not for boot only has a row on which something is deleted.
LEMMA FixHome ==
  ASSUME FreshInv, HomeInv, row \in 1 .. Total(file), Deletes(lines[row])
  PROVE  \E j \in Items : file[j].class \in BootClass /\ Row(j, 1) = row
<1>1. PICK k \in DOMAIN lines[row] : lines[row][k][2] \in BootWords
  BY DEF Deletes, Has
<1>2. PICK l, x, A : l = lines[row] /\ x = l[k] /\ A = Text \ Boot
  OBVIOUS
<1>3. ASSUME Free(l, Boot) PROVE FALSE
  <2>1. l \in Seq(A)
    BY <1>2, <1>3 DEF Free
  <2>2. x \in A
    BY <1>1, <1>2, <2>1
  <2>3. PICK i, w : i \in Nat /\ x = <<i, w>>
    BY <1>2, <2>2 DEF Text
  <2>4. x[2] = w /\ w \in BootWords
    BY <1>1, <1>2, <2>3
  <2>5. x \in Boot
    BY <2>3, <2>4 DEF Boot
  <2> QED
    BY <1>2, <2>2, <2>5
<1>4. HomeAt(row)
  BY DEF HomeInv
<1> QED
  BY <1>2, <1>3, <1>4 DEF HomeAt

\* What a step of fix_up makes of any row of any item.
LEMMA FixScanning ==
  ASSUME FreshInv, LinesInv, HomeInv, FixInv, Scanning,
         FixUpInclude \/ FixUpDelete \/ FixUpOther,
         NEW i \in Items, Kept(i), NEW r \in 1 .. Len(file[i].rows)
  PROVE  FixedAt(i, r)'
<1>1. /\ Steady /\ row' = row + 1 /\ place \in LastPlaces /\ FixedAt(i, r) /\ FixAt(i)
      /\ row <= Len(lines)
  BY DEF Scanning, LastPlaces, FixInv, FixAt
<1>2. PICK n \in Nat : n = Total(file)
  BY ItemRows
<1>3. PICK L, M : L = lines /\ M = lines'
  OBVIOUS
<1>4. row \in 1 .. n /\ L \in [1 .. n -> Line] /\ ScansRow(n, L, M, row)
  BY <1>1, <1>2, <1>3, FixUpShape
<1>5. PICK t \in 1 .. n : t = Row(i, r) /\ t \in Block(file, i)
  BY <1>2, ItemRows
<1>6. PICK h : h = Row(i, 1) /\ h \in Block(file, i)
  <2>1. 1 \in 1 .. Len(file[i].rows)
    <3>1. Len(file[i].rows) \in Nat
      BY ItemRows
    <3>2. 1 <= r /\ r <= Len(file[i].rows) /\ r \in Nat
      BY <3>1
    <3> QED
      BY <3>1, <3>2
  <2> QED
    BY <2>1, ItemRows
<1>7. ASSUME M[t] = L[t], PassRow(i, r) # row PROVE FixedAt(i, r)'
  BY <1>1, <1>3, <1>5, <1>7, FixedStill
<1>8. ASSUME M[t] = FinalRow(i, r), PassRow(i, r) = row PROVE FixedAt(i, r)'
  BY <1>1, <1>3, <1>5, <1>8, FixedNow
<1>9. ASSUME NEW e \in row .. n, Deletes(L[row]), DeletesTo(L, row, e),
             M = [u \in 1 .. n |-> IF u \in row .. e THEN <<>> ELSE L[u]]
      PROVE  FixedAt(i, r)'
  <2>1. PICK j \in Items : file[j].class \in BootClass /\ Row(j, 1) = row
    BY <1>2, <1>3, <1>4, <1>9, FixHome
  <2>2. row .. e = Block(file, j) /\ row \in Block(file, j)
    BY <1>1, <1>3, <1>9, <2>1, FixBoot
  <2>3. CASE i = j
    <3>1. M[t] = <<>>
      BY <1>5, <1>9, <2>2, <2>3
    <3>2. FinalRow(i, r) = <<>> /\ PassRow(i, r) = row
      BY <2>1, <2>3 DEF FinalRow, PassRow
    <3> QED
      BY <1>8, <3>1, <3>2
  <2>4. CASE i # j
    <3>1. t \notin Block(file, j)
      BY <1>5, <2>4, Disjoint
    <3>2. M[t] = L[t]
      BY <1>9, <2>2, <3>1
    <3>3. PassRow(i, r) # row
      <4>1. row # t
        BY <2>2, <3>1
      <4>2. row # h
        BY <1>6, <2>2, <2>4, Disjoint
      <4> QED
        BY <1>5, <1>6, <4>1, <4>2 DEF PassRow
    <3> QED
      BY <1>7, <3>2, <3>3
  <2> QED
    BY <2>3, <2>4
<1>10. ASSUME ~Deletes(L[row]), NEW x, x = FixInclude(L[row]),
              M = [u \in 1 .. n |-> IF u = row THEN x ELSE L[u]]
       PROVE  FixedAt(i, r)'
  <2>1. CASE file[i].class \in BootClass
    <3>1. PassRow(i, r) = h
      BY <1>6, <2>1 DEF PassRow
    <3>2. h # row
      BY <1>1, <1>3, <1>6, <1>10, <2>1, FixBoot
    <3>3. M[t] = L[t]
      <4>1. CASE t # row
        BY <1>10, <4>1
      <4>2. CASE t = row
        <5>1. h \in Nat /\ t \in Nat /\ h <= t
          <6>1. Block(file, i) \subseteq Nat /\ h = RowsBefore(file)[i - 1] + 1
                /\ Block(file, i) = RowsBefore(file)[i - 1] + 1 .. RowsBefore(file)[i]
            <7>1. Block(file, i) \subseteq 1 .. n
              BY <1>2, ItemRows
            <7> QED
              BY <1>6, <7>1 DEF Row, Block
          <6>2. h \in Nat /\ t \in Nat /\ t \in h .. RowsBefore(file)[i]
            BY <1>5, <1>6, <6>1
          <6> QED
            BY <6>2
        <5>2. h < row
          BY <3>2, <4>2, <5>1
        <5>3. L[t] = <<>>
          BY <1>1, <1>3, <1>5, <2>1, <3>1, <5>2 DEF FixedAt, FinalRow
        <5>4. FixInclude(L[t]) = L[t]
          <6>1. <<>> \in Line /\ ~Has(<<>>, IncludeWords)
            BY DEF Has, Line
          <6> QED
            BY <5>3, <6>1, FixIncludeNone
        <5> QED
          BY <1>10, <4>2, <5>4
      <4> QED
        BY <4>1, <4>2
    <3> QED
      BY <1>7, <3>1, <3>2, <3>3
  <2>2. CASE file[i].class \notin BootClass
    <3>1. PassRow(i, r) = t
      BY <1>5, <2>2 DEF PassRow
    <3>2. CASE t # row
      BY <1>7, <1>10, <3>1, <3>2
    <3>3. CASE t = row
      <4>1. ~(t < row)
        BY <3>3
      <4>2. L[t] = ListedRow(i, r)
        BY <1>1, <1>3, <1>5, <3>1, <4>1 DEF FixedAt
      <4>3. FinalRow(i, r) = FixInclude(ListedRow(i, r))
        BY <2>2 DEF FinalRow
      <4>4. M[t] = FinalRow(i, r)
        BY <1>10, <3>3, <4>2, <4>3
      <4> QED
        BY <1>8, <3>1, <3>3, <4>4
    <3> QED
      BY <3>2, <3>3
  <2> QED
    BY <2>1, <2>2
<1>11. CASE Has(L[row], IncludeWords)
            /\ M = [u \in 1 .. n |-> IF u = row THEN FixInclude(L[row]) ELSE L[u]]
  <2>1. ~Deletes(L[row])
    BY <1>11 DEF Deletes
  <2> QED
    BY <1>10, <1>11, <2>1
<1>12. CASE ~Deletes(L[row]) /\ ~Has(L[row], IncludeWords) /\ M = L
  <2>1. PICK x : x = FixInclude(L[row])
    OBVIOUS
  <2>2. x = L[row]
    BY <1>4, <1>12, <2>1, FixIncludeNone
  <2>3. M = [u \in 1 .. n |-> IF u = row THEN x ELSE L[u]]
    BY <1>4, <1>12, <2>2
  <2> QED
    BY <1>10, <1>12, <2>1, <2>3
<1> QED
  BY <1>4, <1>9, <1>11, <1>12 DEF ScansRow
-------------------------------------------------------------------------------
(***************************************************************************)
(* Shared variables: the rows of a definition are joined on the first.     *)
(***************************************************************************)
\* Where a variable of n rows has its name and its semicolons.
VarShape(F, i, N, a, m, p) ==
  /\ N = Len(F[i].rows) /\ a = RowsBefore(F)[i - 1] /\ m = Collected(F)[i]
  /\ m.start = a + 1 /\ m.name = a + p /\ p \in 1 .. N /\ N \in 1 .. N
  /\ OnRow(F[i], N, ";")
  /\ \A q \in 1 .. N : OnRow(F[i], q, ";") => q = N \/ (q > 1 /\ q < p)

\* The layouts of a variable that extract.py can handle, in numbers.
LEMMA VarLayout ==
  ASSUME NEW F \in ModFile \cup SdcrFile, NEW i \in 1 .. Len(F), F[i].class \in VarClass
  PROVE  \E N, a, p \in Nat : VarShape(F, i, N, a, Collected(F)[i], p)
<1>1. PICK m : m = Collected(F)[i]
  OBVIOUS
<1>2. PICK N \in Nat, a \in Nat :
        N = Len(F[i].rows) /\ DOMAIN F[i].rows = 1 .. N /\ a = RowsBefore(F)[i - 1]
  <2>1. RowsBefore(F)[i - 1] \in Nat
    BY BlocksApart
  <2> QED
    BY <2>1, FileRows
<1>3. WellFormed(F[i]) /\ Handled(F[i]) /\ i \in DOMAIN F
  <2>1. i \in DOMAIN F
    BY FileRows
  <2> QED
    BY <2>1, FileAssumption
<1> DEFINE on(kind) == {r \in 1 .. N : OnRow(F[i], r, kind)}
           first(kind) == IF on(kind) = {} THEN 0 ELSE a + Min2(on(kind))
<1>4. /\ m.name = first("name")
      /\ m.start = IF on("struct {") # {} THEN first("struct {") ELSE first("name")
  BY <1>1, <1>2, <1>3 DEF Collected
<1>5. ASSUME NEW kind, NEW q \in 1 .. N, OnRow(F[i], q, kind)
      PROVE  \E p \in 1 .. N : /\ first(kind) = a + p /\ on(kind) # {} /\ p \in on(kind)
                               /\ \A k \in on(kind) : p <= k
  <2>1. PICK O : O = on(kind)
    OBVIOUS
  <2>2. O # {} /\ O \subseteq 1 .. N /\ O \subseteq Nat
    BY <1>5, <2>1
  <2>3. Min2(O) \in O /\ \A k \in O : Min2(O) <= k
    BY <2>2, LeastOf
  <2>4. PICK p \in 1 .. N : p = Min2(O)
    BY <2>2, <2>3
  <2>5. first(kind) = a + p
    BY <2>1, <2>2, <2>4, Zenon
  <2> HIDE DEF on, first
  <2> QED
    BY <2>1, <2>2, <2>3, <2>4, <2>5
<1>6. ASSUME NEW kind, NEW p \in 1 .. N, p \in on(kind), \A k \in on(kind) : p <= k,
             OnRow(F[i], 1, kind)
      PROVE  p = 1
  <2>1. p \in Nat /\ 1 <= p /\ p <= N
    OBVIOUS
  <2>2. 1 \in on(kind)
    BY <1>6, <2>1
  <2>3. p <= 1
    BY <1>6, <2>2
  <2> QED
    BY <2>1, <2>3
<1>7. PICK q \in 1 .. N : OnRow(F[i], q, "name")
  BY <1>2, <1>3 DEF WellFormed, IsOn
<1>8. q \in Nat /\ 1 <= q /\ q <= N /\ 1 \in 1 .. N /\ N \in 1 .. N
  BY <1>7
<1>9. PICK p \in 1 .. N : /\ m.name = a + p /\ p \in on("name") /\ \A k \in on("name") : p <= k
                          /\ first("name") = a + p
  BY <1>4, <1>5, <1>7
<1>10. m.start = a + 1
  <2>1. CASE IsOn(F[i], "struct {")
    <3>1. OnRow(F[i], 1, "struct {")
      BY <1>3, <2>1 DEF Handled
    <3>2. PICK k \in 1 .. N : /\ first("struct {") = a + k /\ on("struct {") # {}
                              /\ k \in on("struct {") /\ \A j \in on("struct {") : k <= j
      BY <1>5, <1>8, <3>1
    <3>3. k = 1
      BY <1>6, <3>1, <3>2
    <3> HIDE DEF on, first
    <3> QED
      BY <1>4, <3>2, <3>3
  <2>2. CASE ~IsOn(F[i], "struct {")
    <3>1. on("struct {") = {}
      BY <1>2, <2>2 DEF IsOn
    <3>2. OnRow(F[i], 1, "name")
      <4>1. ~OnRow(F[i], 1, "struct {")
        BY <1>8, <3>1
      <4> QED
        BY <1>3, <4>1 DEF Handled
    <3>3. p = 1
      BY <1>6, <1>9, <3>2
    <3> HIDE DEF on, first
    <3> QED
      BY <1>4, <1>9, <3>1, <3>3
  <2> QED
    BY <2>1, <2>2
<1>11. OnRow(F[i], N, ";")
  BY <1>2, <1>3 DEF WellFormed
<1>12. ASSUME NEW k \in 1 .. N, OnRow(F[i], k, ";"), k # N PROVE k > 1 /\ k < p
  <2>1. k > 1 /\ \A j \in 1 .. k : ~OnRow(F[i], j, "name")
    BY <1>2, <1>3, <1>12 DEF Handled
  <2>2. OnRow(F[i], p, "name")
    BY <1>9
  <2>3. p \notin 1 .. k /\ p \in Nat /\ 1 <= p /\ k \in Nat
    BY <2>1, <2>2
  <2> QED
    BY <2>1, <2>3
<1>13. p \in Nat
  BY <1>8
<1>14. VarShape(F, i, N, a, m, p)
  BY <1>1, <1>2, <1>8, <1>9, <1>10, <1>11, <1>12 DEF VarShape
<1> QED
  BY <1>1, <1>13, <1>14

\* SubSeq of all of a sequence is the sequence.
LEMMA WholeSeq ==
  ASSUME NEW N \in Nat, NEW K \in [1 .. N -> Line]
  PROVE  SubSeq(K, 1, N) = K
<1>1. K \in Seq(Line) /\ Len(K) = N
  OBVIOUS
<1>2. \A x \in Seq(Line) : SubSeq(x, 1, Len(x)) = x
  OBVIOUS
<1> QED
  BY <1>1, <1>2

\* The definition is joined as far as its first semicolon.
MergedTo(n, O, M, s, z, l) ==
  M = [t \in 1 .. n |-> IF t = s THEN l ELSE IF t \in s .. z THEN <<>> ELSE O[t]]

\* Joining from the first row as far as the first semicolon.
LEMMA MergesUpTo ==
  ASSUME NEW n \in Nat, NEW O \in [1 .. n -> Line], NEW s \in 1 .. n, NEW z \in s .. n,
         Has(O[z], Semicolon), \A u \in s .. z : Has(O[u], Semicolon) => u = z
  PROVE  MergedTo(n, O, MergeDownVar(O, s), s, z, FlattenSeq(SubSeq(O, s, z)))
<1>1. PICK e \in s .. z : MergeDownVar(O, s) = Join(O, s, e, s) /\ Has(O[e], Semicolon)
  BY MergeDownShape
<1>2. MergeDownVar(O, s) = Join(O, s, z, s)
  BY <1>1
<1>3. Join(O, s, z, s) =
        [t \in 1 .. n |-> IF t = s THEN FlattenSeq(SubSeq(O, s, z))
                          ELSE IF t \in s .. z THEN <<>> ELSE O[t]]
  BY JoinExact
<1> QED
  BY <1>2, <1>3, Zenon DEF MergedTo

\* The same where the rows are those of K, which ends with its only semicolon.
LEMMA MergesTo ==
  ASSUME NEW n \in Nat, NEW O \in [1 .. n -> Line], NEW a \in Nat, NEW N \in Nat, N \in 1 .. N,
         a + N <= n, NEW K \in [1 .. N -> Line], \A q \in 1 .. N : O[a + q] = K[q],
         \A q \in 1 .. N : Has(K[q], Semicolon) <=> q = N
  PROVE  MergedTo(n, O, MergeDownVar(O, a + 1), a + 1, a + N, FlattenSeq(K))
<1>1. PICK s \in 1 .. n, z \in 1 .. n : s = a + 1 /\ z = a + N /\ z \in s .. n
  <2>1. N >= 1 /\ a + 1 \in 1 .. n /\ a + N \in 1 .. n /\ a + N \in a + 1 .. n
    OBVIOUS
  <2> QED
    BY <2>1
<1>2. Has(O[z], Semicolon)
  BY <1>1
<1>3. ASSUME NEW e \in s .. z, Has(O[e], Semicolon) PROVE e = z
  <2>1. e - a \in 1 .. N /\ e = a + (e - a)
    BY <1>1
  <2>2. PICK q \in 1 .. N : e = a + q
    BY <2>1
  <2> QED
    BY <1>1, <1>3, <2>2
<1>4. SubSeq(O, s, z) = K
  <2>1. SubSeq(O, a + 1, a + N) = SubSeq(K, 1, N)
    BY SameRows
  <2> QED
    BY <1>1, <2>1, WholeSeq
<1>5. MergedTo(n, O, MergeDownVar(O, s), s, z, FlattenSeq(SubSeq(O, s, z)))
  <2>1. s \in 1 .. n /\ z \in s .. n
    BY <1>1
  <2> QED
    BY <1>2, <1>3, <2>1, MergesUpTo
<1> QED
  BY <1>1, <1>4, <1>5

\* One row joined with none other stays what it is.
LEMMA FlattenOne ==
  ASSUME NEW l \in Line, NEW K \in Seq(Line), Len(K) = 1, K[1] = l
  PROVE  FlattenSeq(K) = l
<1>0. PICK A : A = Text
  OBVIOUS
<1>1. K \in Seq(Seq(A)) /\ Len(K) = 1 /\ K[1] = l
  BY <1>0 DEF Line
<1>2. PICK R \in [0 .. Len(K) -> Nat] : Sums(R, K)
  BY <1>1, SumsExist
<1>3. PICK x : x = FlattenSeq(K)
  OBVIOUS
<1>4. /\ x \in Seq(A) /\ Len(x) = R[Len(K)]
      /\ \A i \in 1 .. Len(K) : \A r \in 1 .. Len(K[i]) : x[R[i - 1] + r] = K[i][r]
  BY <1>1, <1>2, <1>3, FlattenAt
<1>5. PICK n \in Nat : n = Len(l)
  BY DEF Line
<1>6. 1 \in 1 .. Len(K) /\ 1 - 1 = 0 /\ R[0] = 0 /\ R[1] = R[0] + n
  BY <1>1, <1>2, <1>5 DEF Sums
<1>7. Len(x) = n
  BY <1>1, <1>4, <1>5, <1>6
<1>8. \A r \in 1 .. n : x[r] = l[r]
  <2>1. \A r \in 1 .. Len(K[1]) : x[R[0] + r] = K[1][r]
    BY <1>4, <1>6
  <2>2. \A r \in 1 .. n : R[0] + r = r
    BY <1>6
  <2> QED
    BY <1>1, <1>5, <2>1, <2>2
<1>9. \A y, z \in Seq(A) :
        Len(y) = Len(z) /\ (\A k \in 1 .. Len(y) : y[k] = z[k]) => y = z
  OBVIOUS
<1> QED
  BY <1>0, <1>3, <1>4, <1>5, <1>7, <1>8, <1>9 DEF Line

\* What the merging makes of shared variable i.
KeptRow(i, q) == IF Row(i, q) \in Between(i) THEN <<>> ELSE Token(i, q)
JoinedRow(i) == FlattenSeq([q \in DOMAIN file[i].rows |-> KeptRow(i, q)])
MergedRow(i) ==
  IF Has(JoinedRow(i), {"DEFINE_PER_CPU"}) THEN DeclarePerCpu(JoinedRow(i), i) ELSE JoinedRow(i)

SharedAt(i, N, a) ==
  /\ i \in 1 .. Len(file) /\ N = Len(file[i].rows) /\ DOMAIN file[i].rows = 1 .. N
  /\ N \in 1 .. N /\ a = RowsBefore(file)[i - 1] /\ a + N <= Total(file)
  /\ Block(file, i) = a + 1 .. a + N /\ DeclStartRow(i) = a + 1
  /\ \A q \in 1 .. N : /\ Row(i, q) = a + q /\ KeptRow(i, q) \in Line
                       /\ Has(KeptRow(i, q), Semicolon) <=> q = N
  /\ \A t \in Between(i) : t \in a + 1 .. a + N /\ t # a + 1

\* Of the rows of a shared variable that are joined, only the last has a semicolon.
LEMMA SharedRows ==
  ASSUME FreshInv, NEW i \in OfClass(SharedClass)
  PROVE  \E N, a \in Nat : SharedAt(i, N, a)
<1>1. PICK F : F \in ModFile \cup SdcrFile /\ F = file /\ meta = Collected(F)
  BY DEF FreshInv
<1> F \in ModFile \cup SdcrFile
  BY <1>1
<1>2. i \in 1 .. Len(F) /\ F[i].class \in VarClass
  BY <1>1, SharedVars
<1>3. PICK N \in Nat, a \in Nat, p \in Nat : VarShape(F, i, N, a, Collected(F)[i], p)
  BY <1>2, VarLayout
<1>4. PICK m : m = Collected(F)[i] /\ m = meta[i]
  BY <1>1
<1>5. /\ N = Len(F[i].rows) /\ a = RowsBefore(F)[i - 1]
      /\ m.start = a + 1 /\ m.name = a + p /\ p \in 1 .. N /\ N \in 1 .. N
      /\ OnRow(F[i], N, ";")
      /\ \A q \in 1 .. N : OnRow(F[i], q, ";") => q = N \/ (q > 1 /\ q < p)
  BY <1>3, <1>4 DEF VarShape
<1>6. Between(i) = a + 2 .. a + p - 1 /\ DeclStartRow(i) = a + 1
  <2>1. DeclStartRow(i) = a + 1 /\ NameRow(i) = a + p
    BY <1>4, <1>5 DEF DeclStartRow, NameRow
  <2>2. a + 1 + 1 = a + 2
    OBVIOUS
  <2> QED
    BY <2>1, <2>2 DEF Between
<1>11. 1 <= p /\ p <= N /\ 1 <= N
  <2>1. p \in 1 .. N
    BY <1>5
  <2> QED
    BY <2>1
<1>7. /\ DOMAIN F[i].rows = 1 .. N /\ RowsBefore(F)[i] = a + N /\ a + N <= Total(F)
      /\ Block(F, i) = a + 1 .. a + N
  <2>1. DOMAIN F[i].rows = 1 .. N
    BY <1>2, <1>5, FileRows
  <2>2. RowsBefore(F)[i] = RowsBefore(F)[i - 1] + Len(F[i].rows) /\ RowsBefore(F)[i] <= Total(F)
    BY <1>2, BlocksApart
  <2> QED
    BY <1>5, <2>1, <2>2 DEF Block
<1>8. \A q \in 1 .. N : Row(i, q) = a + q /\ Token(i, q) = RowOf(F, i, q)
  BY <1>1, <1>5 DEF Row, Token, RowOf
<1>9. ASSUME NEW q \in 1 .. N
      PROVE  KeptRow(i, q) \in Line /\ (Has(KeptRow(i, q), Semicolon) <=> q = N)
  <2>1. PICK l : l = RowOf(F, i, q)
    OBVIOUS
  <2>2. l \in Line
    <3>1. \A k \in DOMAIN F[i].rows[q] : <<i, F[i].rows[q][k]>> \notin {}
      OBVIOUS
    <3>2. PICK T, M : T = {} /\ M = Len(F[i].rows) /\ q \in 1 .. M
      BY <1>5
    <3>3. Free(RowOf(F, i, q), T)
      BY <1>2, <3>1, <3>2, TokensFree
    <3> QED
      BY <2>1, <3>3, FreeLines
  <2>3. Has(l, Semicolon) <=> OnRow(F[i], q, ";")
    <3>1. Has(l, Semicolon) <=> \E w \in Semicolon : OnRow(F[i], q, w)
      BY <2>1, RowHas
    <3> QED
      BY <3>1 DEF Semicolon
  <2>4. <<>> \in Line /\ ~Has(<<>>, Semicolon)
    BY DEF Line, Has
  <2>5. q \in Nat /\ 1 <= q /\ q <= N /\ 1 <= p /\ p <= N
    BY <1>11
  <2>6. CASE Row(i, q) \in Between(i)
    <3>1. KeptRow(i, q) = <<>>
      BY <2>6 DEF KeptRow
    <3>2. a + q \in a + 2 .. a + p - 1
      BY <1>6, <1>8, <2>6
    <3>3. q # N
      BY <2>5, <3>2
    <3> QED
      BY <2>4, <3>1, <3>3
  <2>7. CASE Row(i, q) \notin Between(i)
    <3>1. KeptRow(i, q) = l
      BY <1>8, <2>1, <2>7 DEF KeptRow
    <3>2. a + q \notin a + 2 .. a + p - 1
      BY <1>6, <1>8, <2>7
    <3>3. ~(q > 1 /\ q < p)
      BY <2>5, <3>2
    <3>4. OnRow(F[i], q, ";") <=> q = N
      BY <1>5, <3>3
    <3> QED
      BY <2>2, <2>3, <3>1, <3>4
  <2> QED
    BY <2>6, <2>7
<1>10. \A t \in Between(i) : t \in a + 1 .. a + N /\ t # a + 1
  <2>1. \A t \in a + 2 .. a + p - 1 : t \in a + 1 .. a + N /\ t # a + 1
    BY <1>11
  <2> QED
    BY <1>6, <2>1
<1>12. \A q \in 1 .. N : /\ Row(i, q) = a + q /\ KeptRow(i, q) \in Line
                         /\ Has(KeptRow(i, q), Semicolon) <=> q = N
  BY <1>8, <1>9
<1>13. /\ i \in 1 .. Len(file) /\ N = Len(file[i].rows) /\ DOMAIN file[i].rows = 1 .. N
       /\ N \in 1 .. N /\ a = RowsBefore(file)[i - 1] /\ a + N <= Total(file)
       /\ Block(file, i) = a + 1 .. a + N
  BY <1>1, <1>2, <1>5, <1>7
<1>14. SharedAt(i, N, a)
  BY <1>6, <1>10, <1>12, <1>13, Zenon DEF SharedAt
<1> QED
  BY <1>14

\* The joined rows end the declaration.
LEMMA MergedEnds ==
  ASSUME FreshInv, NEW i \in OfClass(SharedClass)
  PROVE  /\ JoinedRow(i) \in Line /\ MergedRow(i) \in Line
         /\ Has(JoinedRow(i), Semicolon) /\ Has(MergedRow(i), Semicolon)
<1>1. PICK N \in Nat, a \in Nat : SharedAt(i, N, a)
  BY SharedRows
<1>2. /\ i \in 1 .. Len(file) /\ DOMAIN file[i].rows = 1 .. N /\ N \in 1 .. N
      /\ \A q \in 1 .. N : KeptRow(i, q) \in Line /\ (Has(KeptRow(i, q), Semicolon) <=> q = N)
  BY <1>1 DEF SharedAt
<1>3. PICK K : K = [q \in 1 .. N |-> KeptRow(i, q)]
  OBVIOUS
<1>4. PICK A : A = Text /\ Line = Seq(A)
  BY DEF Line
<1>5. K \in Seq(Seq(A)) /\ Len(K) = N
  <2>1. K \in [1 .. N -> Line]
    BY <1>2, <1>3
  <2>2. K \in Seq(Line) /\ Len(K) = N
    BY <2>1
  <2> QED
    BY <1>4, <2>2
<1>6. PICK x : x = FlattenSeq(K) /\ x = JoinedRow(i)
  BY <1>2, <1>3 DEF JoinedRow
<1>7. /\ x \in Seq(A)
      /\ \A j \in 1 .. Len(K) : \A r \in 1 .. Len(K[j]) : \E k \in 1 .. Len(x) : x[k] = K[j][r]
  <2>1. /\ FlattenSeq(K) \in Seq(A)
        /\ \A j \in 1 .. Len(K) : \A r \in 1 .. Len(K[j]) :
             \E k \in 1 .. Len(FlattenSeq(K)) : FlattenSeq(K)[k] = K[j][r]
    <3>1. K \in Seq(Seq(A))
      BY <1>5
    <3> QED
      BY <3>1, FlattenHolds
  <2> QED
    BY <1>6, <2>1
<1>8. x \in Line /\ DOMAIN x = 1 .. Len(x)
  BY <1>4, <1>7
<1>9. Has(x, Semicolon)
  <2>1. PICK l : l = K[N] /\ l \in Line /\ Has(l, Semicolon)
    BY <1>2, <1>3
  <2>2. PICK r \in DOMAIN l : l[r][2] \in Semicolon
    BY <2>1 DEF Has
  <2>3. r \in 1 .. Len(l) /\ N \in 1 .. Len(K)
    BY <1>2, <1>5, <2>1, <2>2 DEF Line
  <2>4. PICK k \in 1 .. Len(x) : x[k] = l[r]
    BY <1>7, <2>1, <2>3
  <2> QED
    BY <1>8, <2>2, <2>4 DEF Has
<1>10. i \in Nat
  <2>1. PICK F \in ModFile \cup SdcrFile : F = file
    BY DEF FreshInv
  <2>2. Len(F) \in Nat
    BY <2>1, FileRows
  <2> QED
    BY <1>2, <2>1, <2>2
<1>11. PICK y : y = DeclarePerCpu(x, i)
  OBVIOUS
<1>12. y \in Line /\ Has(y, Semicolon)
  <2>1. /\ y \in Line /\ DOMAIN y = DOMAIN x
        /\ \A k \in DOMAIN x : x[k][2] \notin PerCpuKind => y[k] = x[k]
    BY <1>8, <1>10, <1>11, PerCpuHolds
  <2>2. PICK k \in DOMAIN x : x[k][2] \in Semicolon
    BY <1>9 DEF Has
  <2>3. x[k][2] \notin PerCpuKind
    BY <2>2 DEF Semicolon, PerCpuKind
  <2>4. y[k] = x[k]
    BY <2>1, <2>3
  <2> QED
    BY <2>1, <2>2, <2>4 DEF Has
<1> QED
  BY <1>6, <1>8, <1>9, <1>11, <1>12 DEF MergedRow

\* A per-CPU declaration is not declared once more.
LEMMA MergedOnce ==
  ASSUME NEW i, NEW x, x = MergedRow(i), NEW y,
         y = IF Has(x, {"DEFINE_PER_CPU"}) THEN DeclarePerCpu(x, i) ELSE x
  PROVE  y = x
<1>1. PICK j : j = JoinedRow(i)
  OBVIOUS
<1>2. x = IF Has(j, {"DEFINE_PER_CPU"}) THEN DeclarePerCpu(j, i) ELSE j
  BY <1>1 DEF MergedRow
<1>3. ASSUME x = DeclarePerCpu(j, i) PROVE DeclarePerCpu(x, i) = x
  <2>1. PICK d, e, s, z : /\ d = <<i, "DEFINE_PER_CPU">> /\ e = <<i, "DECLARE_PER_CPU">>
                          /\ s = <<i, "static">> /\ z = <<i, "">>
    OBVIOUS
  <2>2. d[1] = i /\ s[1] = i /\ e # d /\ e # s /\ z # d /\ z # s /\ d # s
    <3>1. /\ d[2] = "DEFINE_PER_CPU" /\ e[2] = "DECLARE_PER_CPU" /\ s[2] = "static" /\ z[2] = ""
          /\ d[1] = i /\ s[1] = i
      BY <2>1
    <3> QED
      BY <3>1
  <2>3. \A l : Rewritten(l, d, "DECLARE_PER_CPU") = [k \in DOMAIN l |-> IF l[k] = d THEN e ELSE l[k]]
    BY <2>1, <2>2 DEF Rewritten
  <2>4. \A l : Rewritten(l, s, "") = [k \in DOMAIN l |-> IF l[k] = s THEN z ELSE l[k]]
    BY <2>1, <2>2 DEF Rewritten
  <2>5. PICK j1 : j1 = Rewritten(j, d, "DECLARE_PER_CPU")
    OBVIOUS
  <2>6. j1 = [k \in DOMAIN j |-> IF j[k] = d THEN e ELSE j[k]]
    BY <2>3, <2>5
  <2>7. x = [k \in DOMAIN j |-> IF j1[k] = s THEN z ELSE j1[k]]
    BY <1>3, <2>1, <2>4, <2>5, <2>6 DEF DeclarePerCpu
  <2>8. \A k \in DOMAIN j : x[k] # d /\ x[k] # s
    BY <2>2, <2>6, <2>7
  <2>9. PICK x1 : x1 = Rewritten(x, d, "DECLARE_PER_CPU")
    OBVIOUS
  <2>10. x1 = [k \in DOMAIN j |-> x[k]]
    BY <2>3, <2>7, <2>8, <2>9
  <2>11. x1 = x
    BY <2>7, <2>10
  <2>12. Rewritten(x, s, "") = [k \in DOMAIN j |-> x[k]]
    <3>1. DOMAIN x = DOMAIN j
      BY <2>7
    <3>2. Rewritten(x, s, "") = [k \in DOMAIN j |-> IF x[k] = s THEN z ELSE x[k]]
      BY <2>4, <3>1
    <3> QED
      BY <2>8, <3>2
  <2>13. Rewritten(x, s, "") = x
    BY <2>7, <2>12
  <2> QED
    BY <2>1, <2>9, <2>11, <2>13 DEF DeclarePerCpu
<1> QED
  BY <1>2, <1>3
-------------------------------------------------------------------------------
(***************************************************************************)
(* The rows of a shared variable: one is left on the row where its         *)
(* declaration begins, and the others are empty.                           *)
(***************************************************************************)
Alone(L, i, x) ==
  /\ L[DeclStartRow(i)] = x
  /\ \A t \in Block(file, i) : t # DeclStartRow(i) => L[t] = <<>>

\* What is written on the rows of one definition leaves those of others alone.
LEMMA WithinOther ==
  ASSUME FreshInv, NEW i \in OfClass(SharedClass), NEW j \in OfClass(SharedClass), j # i,
         NEW L, NEW M, Within(file, L, M, i)
  PROVE  /\ \A x : Alone(L, j, x) => Alone(M, j, x)
         /\ Intact(file, L, j) => Intact(file, M, j)
<1>1. PICK F : F \in ModFile \cup SdcrFile /\ F = file
  BY DEF FreshInv
<1> F \in ModFile \cup SdcrFile
  BY <1>1
<1>2. i \in 1 .. Len(F) /\ j \in 1 .. Len(F) /\ DeclStartRow(j) \in Block(F, j)
  BY <1>1, StartRow
<1>3. \A t \in Block(F, j) : t \in 1 .. Total(F) /\ t \notin Block(F, i)
  BY <1>2, BlocksDisjoint
<1>4. \A t \in Block(F, j) : M[t] = L[t]
  BY <1>1, <1>3 DEF Within
<1>5. \A x : Alone(L, j, x) => Alone(M, j, x)
  BY <1>1, <1>2, <1>4 DEF Alone
<1>6. Intact(F, L, j) => Intact(F, M, j)
  <2>1. \A r \in 1 .. Len(F[j].rows) : RowsBefore(F)[j - 1] + r \in Block(F, j)
    BY <1>2, BlockRows
  <2> QED
    BY <1>4, <2>1 DEF Intact
<1> QED
  BY <1>1, <1>5, <1>6

\* What one merging makes of the file, before per-CPU variables are declared.
MergeMade(i) == MergeDownVar(Emptied(lines, Between(i)), DeclStartRow(i))

\* What MergeShared writes.
LEMMA MergeSharedIs ==
  ASSUME NEW v, MergeShared(v), NEW i, i = v[1], NEW M, M = MergeMade(i)
  PROVE  lines' = IF Has(M[DeclStartRow(i)], {"DEFINE_PER_CPU"})
                    THEN [M EXCEPT ![DeclStartRow(i)] = DeclarePerCpu(@, i)] ELSE M
BY DEF MergeShared, Work, MergeMade

\* It writes on the rows of the definition only.
LEMMA MergeWithinBlock ==
  ASSUME FreshInv, NEW v \in todo, MergeShared(v)
  PROVE  /\ v[1] \in OfClass(SharedClass) /\ Within(file, lines, lines', v[1])
         /\ Within(file, lines, MergeMade(v[1]), v[1])
         /\ lines \in [1 .. Total(file) -> Line]
<1>1. PICK F, L, m, i, s :
        /\ F \in ModFile \cup SdcrFile /\ F = file /\ L = lines /\ m = meta[v[1]] /\ i = v[1]
        /\ s = DeclStartRow(i)
  BY DEF FreshInv
<1> F \in ModFile \cup SdcrFile
  BY <1>1
<1>2. place = "merge_var"
  BY DEF MergeShared, Work
<1>3. /\ L \in [1 .. Total(F) -> Line] /\ m = Collected(F)[i] /\ s = m.start
      /\ todo \subseteq SharedVarList
      /\ \A u \in SharedVarList : Mergeable(F, L, u[1])
  BY <1>1, <1>2 DEF FreshInv, VarPlaces, DeclStartRow
<1>4. i \in OfClass(SharedClass)
  BY <1>1, <1>3, SharedVars
<1>5. i \in 1 .. Len(F) /\ F[i].class \in VarClass /\ Mergeable(F, L, i)
  BY <1>1, <1>3, <1>4, SharedVars
<1>6. PICK M : M = MergeDownVar(Emptied(L, m.start + 1 .. m.name - 1), m.start) /\ M = MergeMade(i)
  BY <1>1 DEF MergeMade, Between, DeclStartRow, NameRow
<1>7. PICK P : P = [M EXCEPT ![s] = DeclarePerCpu(@, i)]
  OBVIOUS
<1>8. lines' = M \/ lines' = P
  BY <1>1, <1>6, <1>7, MergeSharedIs
<1>9. Within(F, L, M, i) /\ Mergeable(F, M, i)
  BY <1>3, <1>5, <1>6, MergeWithin
<1>10. M \in [1 .. Total(F) -> Line]
  BY <1>9 DEF Within
<1>11. Within(F, M, P, i) /\ Mergeable(F, P, i)
  BY <1>3, <1>5, <1>7, <1>9, <1>10, PerCpuWithin
<1>12. Within(F, L, P, i)
  BY <1>9, <1>11 DEF Within
<1> QED
  BY <1>1, <1>3, <1>4, <1>6, <1>8, <1>9, <1>12

\* Of a definition as it was, and of one that was merged before for another of its
\* variables, the merging makes the same.
LEMMA MergeAlone ==
  ASSUME FreshInv, NEW i \in OfClass(SharedClass), lines \in [1 .. Total(file) -> Line],
         Intact(file, lines, i)
  PROVE  Alone(MergeMade(i), i, JoinedRow(i))
<1>1. PICK F : F \in ModFile \cup SdcrFile /\ F = file
  BY DEF FreshInv
<1> F \in ModFile \cup SdcrFile
  BY <1>1
<1>2. PICK N \in Nat, a \in Nat : SharedAt(i, N, a)
  BY SharedRows
<1>3. /\ i \in 1 .. Len(F) /\ N = Len(F[i].rows) /\ DOMAIN F[i].rows = 1 .. N
      /\ N \in 1 .. N /\ a = RowsBefore(F)[i - 1] /\ a + N <= Total(F)
      /\ Block(F, i) = a + 1 .. a + N /\ DeclStartRow(i) = a + 1
      /\ \A q \in 1 .. N : /\ Row(i, q) = a + q /\ KeptRow(i, q) \in Line
                           /\ Has(KeptRow(i, q), Semicolon) <=> q = N
  BY <1>1, <1>2 DEF SharedAt
<1>4. PICK n \in Nat : n = Total(F)
  BY TotalRows
<1>5. PICK L \in [1 .. n -> Line] : L = lines
  BY <1>1, <1>4
<1>6. PICK O : O = Emptied(L, Between(i))
  OBVIOUS
<1>7. O \in [1 .. n -> Line] /\ O = [t \in 1 .. n |-> IF t \in Between(i) THEN <<>> ELSE L[t]]
  <2>1. O \in [1 .. n -> Line]
    BY <1>6, EmptiedRows, <1>1, <1>4, <1>5
  <2>2. DOMAIN L = 1 .. n
    OBVIOUS
  <2> QED
    BY <1>6, <2>1, <2>2 DEF Emptied
<1>8. PICK K : K = [q \in 1 .. N |-> KeptRow(i, q)]
  OBVIOUS
<1>9. K \in [1 .. N -> Line] /\ \A q \in 1 .. N : Has(K[q], Semicolon) <=> q = N
  BY <1>3, <1>8
<1>10. ASSUME NEW q \in 1 .. N PROVE O[a + q] = K[q]
  <2>1. a + q \in 1 .. n
    <3>1. q \in Nat /\ 1 <= q /\ q <= N /\ a + N <= n
      BY <1>3, <1>4
    <3> QED
      BY <3>1
  <2>2. L[a + q] = Token(i, q)
    <3>1. q \in 1 .. Len(F[i].rows) /\ i \in 1 .. Len(F) /\ Intact(F, L, i)
      BY <1>1, <1>3, <1>5
    <3>2. L[Row(i, q)] = Token(i, q)
      BY <1>1, <3>1, IntactRows
    <3> QED
      BY <1>3, <3>2
  <2>3. Row(i, q) = a + q
    BY <1>3
  <2> QED
    BY <1>7, <1>8, <2>1, <2>2, <2>3 DEF KeptRow
<1>11. PICK M : M = MergeMade(i) /\ M = MergeDownVar(O, a + 1)
  BY <1>3, <1>5, <1>6 DEF MergeMade
<1>12. MergedTo(n, O, M, a + 1, a + N, FlattenSeq(K))
  <2>1. N \in 1 .. N /\ a + N <= n
    BY <1>3, <1>4
  <2>2. MergedTo(n, O, MergeDownVar(O, a + 1), a + 1, a + N, FlattenSeq(K))
    BY <1>7, <1>9, <1>10, <2>1, MergesTo
  <2> QED
    BY <1>11, <2>2
<1>13. JoinedRow(i) = FlattenSeq(K)
  BY <1>1, <1>3, <1>8 DEF JoinedRow
<1>14. PICK l : l = FlattenSeq(K)
  OBVIOUS
<1>15. M = [t \in 1 .. n |-> IF t = a + 1 THEN l ELSE IF t \in a + 1 .. a + N THEN <<>> ELSE O[t]]
  BY <1>12, <1>14 DEF MergedTo
<1>16. a + 1 .. a + N \subseteq 1 .. n /\ a + 1 \in a + 1 .. a + N
  <2>1. 1 <= N /\ a + N <= n
    <3>1. N \in 1 .. N
      BY <1>3
    <3> QED
      BY <1>3, <1>4, <3>1
  <2> QED
    BY <2>1
<1>17. M[a + 1] = l /\ \A t \in a + 1 .. a + N : t # a + 1 => M[t] = <<>>
  BY <1>15, <1>16
<1> QED
  BY <1>1, <1>3, <1>11, <1>13, <1>14, <1>17 DEF Alone

\* Merging once more, for the second variable of a definition, changes nothing.
LEMMA MergeAgain ==
  ASSUME FreshInv, NEW i \in OfClass(SharedClass), lines \in [1 .. Total(file) -> Line],
         Alone(lines, i, MergedRow(i))
  PROVE  Alone(MergeMade(i), i, MergedRow(i))
<1>1. PICK F : F \in ModFile \cup SdcrFile /\ F = file
  BY DEF FreshInv
<1> F \in ModFile \cup SdcrFile
  BY <1>1
<1>2. PICK N \in Nat, a \in Nat : SharedAt(i, N, a)
  BY SharedRows
<1>3. /\ N \in 1 .. N /\ a + N <= Total(F)
      /\ Block(F, i) = a + 1 .. a + N /\ DeclStartRow(i) = a + 1
      /\ \A t \in Between(i) : t \in a + 1 .. a + N /\ t # a + 1
  BY <1>1, <1>2 DEF SharedAt
<1>4. PICK n \in Nat : n = Total(F)
  BY TotalRows
<1>5. PICK L \in [1 .. n -> Line] : L = lines
  BY <1>1, <1>4
<1>6. PICK O : O = Emptied(L, Between(i))
  OBVIOUS
<1>7. O \in [1 .. n -> Line] /\ \A t \in 1 .. n : t \notin Between(i) => O[t] = L[t]
  BY <1>6, EmptiedRows
<1>8. PICK l : l = MergedRow(i) /\ l \in Line /\ Has(l, Semicolon)
  BY MergedEnds
<1>9. PICK K : K = <<l>>
  OBVIOUS
<1>10. K \in Seq(Line) /\ Len(K) = 1 /\ K[1] = l
  BY <1>8, <1>9
<1>11. K \in [1 .. 1 -> Line] /\ \A q \in 1 .. 1 : Has(K[q], Semicolon) <=> q = 1
  BY <1>8, <1>10
<1>12. 1 <= N /\ a + 1 \in 1 .. n /\ a + 1 <= n
  <2>1. N \in 1 .. N /\ a + N <= n
    BY <1>3, <1>4
  <2>2. 1 <= N
    BY <2>1
  <2> QED
    BY <2>1, <2>2
<1>13. \A q \in 1 .. 1 : O[a + q] = K[q]
  <2>1. L[a + 1] = l
    BY <1>1, <1>3, <1>5, <1>8 DEF Alone
  <2>2. a + 1 \notin Between(i)
    BY <1>3
  <2>3. O[a + 1] = l
    BY <1>7, <1>12, <2>1, <2>2
  <2> QED
    BY <1>10, <2>3
<1>14. PICK M : M = MergeMade(i) /\ M = MergeDownVar(O, a + 1)
  BY <1>3, <1>5, <1>6 DEF MergeMade
<1>15. MergedTo(n, O, M, a + 1, a + 1, l)
  <2>1. PICK e \in Nat : e = 1 /\ e \in 1 .. e /\ a + e <= n
    BY <1>12
  <2>2. K \in [1 .. e -> Line] /\ \A q \in 1 .. e : Has(K[q], Semicolon) <=> q = e
    BY <1>11, <2>1
  <2>3. \A q \in 1 .. e : O[a + q] = K[q]
    BY <1>13, <2>1
  <2>4. MergedTo(n, O, MergeDownVar(O, a + 1), a + 1, a + e, FlattenSeq(K))
    BY <1>7, <2>1, <2>2, <2>3, MergesTo
  <2>5. FlattenSeq(K) = l
    BY <1>8, <1>10, FlattenOne
  <2> QED
    BY <1>14, <2>1, <2>4, <2>5
<1>16. M = [t \in 1 .. n |-> IF t = a + 1 THEN l ELSE IF t \in a + 1 .. a + 1 THEN <<>> ELSE O[t]]
  BY <1>15 DEF MergedTo
<1>17. ASSUME NEW t \in Block(F, i), t # a + 1 PROVE M[t] = <<>>
  <2>1. t \in 1 .. n
    <3>1. t \in a + 1 .. a + N /\ a + N <= n
      BY <1>3, <1>4
    <3> QED
      BY <3>1
  <2>2. t \notin a + 1 .. a + 1
    BY <1>17, <2>1
  <2>3. M[t] = O[t]
    BY <1>16, <1>17, <2>1, <2>2
  <2>4. L[t] = <<>>
    BY <1>1, <1>3, <1>5, <1>17 DEF Alone
  <2>5. O[t] = <<>>
    <3>1. CASE t \in Between(i)
      <4>1. t \in DOMAIN L
        BY <2>1
      <4> QED
        BY <1>6, <3>1, <4>1 DEF Emptied
    <3>2. CASE t \notin Between(i)
      BY <1>7, <2>1, <2>4, <3>2
    <3> QED
      BY <3>1, <3>2
  <2> QED
    BY <2>3, <2>5
<1>18. M[a + 1] = l
  BY <1>12, <1>16
<1> QED
  BY <1>1, <1>3, <1>8, <1>14, <1>17, <1>18 DEF Alone

\* Merged once or twice, one row is left.
LEMMA SharedMerged ==
  ASSUME FreshInv, NEW v \in todo, MergeShared(v), NEW i, i = v[1],
         Intact(file, lines, i) \/ Alone(lines, i, MergedRow(i))
  PROVE  Alone(lines', i, MergedRow(i))
<1>1. /\ i \in OfClass(SharedClass) /\ lines \in [1 .. Total(file) -> Line]
      /\ Within(file, lines, MergeMade(i), i)
  BY MergeWithinBlock
<1>2. PICK s, M, l : s = DeclStartRow(i) /\ M = MergeMade(i) /\ l = MergedRow(i)
  OBVIOUS
<1>3. /\ lines' = IF Has(M[s], {"DEFINE_PER_CPU"})
                    THEN [M EXCEPT ![s] = DeclarePerCpu(@, i)] ELSE M
      /\ M \in [1 .. Total(file) -> Line] /\ s \in 1 .. Total(file)
  <2>1. M \in [1 .. Total(file) -> Line]
    BY <1>1, <1>2 DEF Within
  <2>2. s \in 1 .. Total(file)
    BY <1>1, <1>2, StartRow
  <2> QED
    BY <1>2, <2>1, <2>2, MergeSharedIs
<1>4. PICK x : /\ Alone(M, i, x)
               /\ l = IF Has(x, {"DEFINE_PER_CPU"}) THEN DeclarePerCpu(x, i) ELSE x
  <2>1. CASE Intact(file, lines, i)
    <3>1. Alone(M, i, JoinedRow(i))
      BY <1>1, <1>2, <2>1, MergeAlone
    <3>2. l = IF Has(JoinedRow(i), {"DEFINE_PER_CPU"}) THEN DeclarePerCpu(JoinedRow(i), i)
              ELSE JoinedRow(i)
      BY <1>2 DEF MergedRow
    <3> QED
      BY <3>1, <3>2
  <2>2. CASE Alone(lines, i, MergedRow(i))
    <3>1. Alone(M, i, l)
      BY <1>1, <1>2, <2>2, MergeAgain
    <3>2. PICK y : y = IF Has(l, {"DEFINE_PER_CPU"}) THEN DeclarePerCpu(l, i) ELSE l
      OBVIOUS
    <3>3. y = l
      BY <1>2, <3>2, MergedOnce
    <3> QED
      BY <3>1, <3>2, <3>3
  <2> QED
    BY <2>1, <2>2
<1>5. M[s] = x /\ \A t \in Block(file, i) : t # s => M[t] = <<>>
  BY <1>2, <1>4 DEF Alone
<1>6. lines'[s] = l /\ \A t \in Block(file, i) : t # s => lines'[t] = <<>>
  <2>1. CASE Has(M[s], {"DEFINE_PER_CPU"})
    <3>1. lines' = [M EXCEPT ![s] = DeclarePerCpu(x, i)] /\ l = DeclarePerCpu(x, i)
      BY <1>3, <1>4, <1>5, <2>1
    <3> QED
      BY <1>3, <1>5, <3>1
  <2>2. CASE ~Has(M[s], {"DEFINE_PER_CPU"})
    BY <1>3, <1>4, <1>5, <2>2
  <2> QED
    BY <2>1, <2>2
<1> QED
  BY <1>2, <1>6 DEF Alone

\* How far a shared variable is, in each of the three lists.
Decls(i, n) == [k \in 1 .. n |-> <<i, "extern decl">>]
One(i, d) == IF d \in meta[i].decls /\ <<i, d>> \notin todo THEN 1 ELSE 0
Awaited(i) == \E v \in todo : v[1] = i

MergedAt(i) == Alone(lines, i, MergedRow(i))
ClearedAt(i) == Alone(lines, i, <<>>)
DeclaredAt(i) == Alone(lines, i, Decls(i, One(i, 1) + One(i, 2)))

SharedIn(i) ==
  /\ place = "merge_var" => MergedAt(i) \/ (Intact(file, lines, i) /\ Awaited(i))
  /\ place = "delete_var" =>
       \/ MergedAt(i) /\ (file[i].class = "percpu" \/ Awaited(i))
       \/ ClearedAt(i) /\ file[i].class # "percpu"
  /\ place = "declare_var" =>
       IF file[i].class = "percpu" THEN MergedAt(i) ELSE DeclaredAt(i)
SharedInv == \A i \in OfClass(SharedClass) : SharedIn(i)

\* None of this depends on more than the rows and the list.
LEMMA SharedSteady ==
  ASSUME Steady, NEW i
  PROVE  /\ MergedAt(i)' <=> Alone(lines', i, MergedRow(i))
         /\ ClearedAt(i)' <=> Alone(lines', i, <<>>)
         /\ DeclaredAt(i)' <=> Alone(lines', i, Decls(i, One(i, 1)' + One(i, 2)'))
         /\ \A d : One(i, d)' = IF d \in meta[i].decls /\ <<i, d>> \notin todo' THEN 1 ELSE 0
         /\ Intact(file, lines, i)' <=> Intact(file, lines', i)
         /\ file'[i].class = file[i].class
<1>1. file' = file /\ meta' = meta
  BY DEF Steady
<1>2. /\ \A q : Row(i, q)' = Row(i, q) /\ Token(i, q)' = Token(i, q)
      /\ Between(i)' = Between(i) /\ DeclStartRow(i)' = DeclStartRow(i)
  BY WantedSteady
<1>3. \A q : KeptRow(i, q)' = KeptRow(i, q)
  BY <1>2 DEF KeptRow
<1>4. JoinedRow(i)' = JoinedRow(i)
  BY <1>1, <1>3 DEF JoinedRow
<1>5. MergedRow(i)' = MergedRow(i)
  BY <1>4 DEF MergedRow
<1>6. MergedAt(i)' <=> Alone(lines', i, MergedRow(i))
  BY <1>1, <1>2, <1>5 DEF MergedAt, Alone
<1>7. ClearedAt(i)' <=> Alone(lines', i, <<>>)
  BY <1>1, <1>2 DEF ClearedAt, Alone
<1>8. DeclaredAt(i)' <=> Alone(lines', i, Decls(i, One(i, 1)' + One(i, 2)'))
  BY <1>1, <1>2 DEF DeclaredAt, Alone, Decls
<1>9. \A d : One(i, d)' = IF d \in meta[i].decls /\ <<i, d>> \notin todo' THEN 1 ELSE 0
  BY <1>1 DEF One
<1>10. Intact(file, lines, i)' <=> Intact(file, lines', i)
  BY <1>1 DEF Intact
<1> QED
  BY <1>1, <1>6, <1>7, <1>8, <1>9, <1>10

\* A step for one shared variable leaves the others where they are.
LEMMA SharedOther ==
  ASSUME FreshInv, NEW j \in OfClass(SharedClass), Within(file, lines, lines', j), Steady,
         place' = place, NEW v \in todo, v[1] = j, todo' = todo \ {v},
         NEW i \in OfClass(SharedClass), i # j, SharedIn(i)
  PROVE  SharedIn(i)'
<1>1. /\ \A x : Alone(lines, i, x) => Alone(lines', i, x)
      /\ Intact(file, lines, i) => Intact(file, lines', i)
  BY WithinOther
<1>2. Awaited(i)' <=> Awaited(i)
  BY DEF Awaited
<1>3. \A d : <<i, d>> \notin todo <=> <<i, d>> \notin todo'
  OBVIOUS
<1>4. \A d : One(i, d)' = One(i, d)
  BY <1>3, SharedSteady DEF One
<1>5. MergedAt(i) => MergedAt(i)'
  BY <1>1, SharedSteady DEF MergedAt
<1>6. ClearedAt(i) => ClearedAt(i)'
  BY <1>1, SharedSteady DEF ClearedAt
<1>7. DeclaredAt(i) => DeclaredAt(i)'
  BY <1>1, <1>4, SharedSteady DEF DeclaredAt
<1>8. Intact(file, lines, i) => Intact(file, lines, i)'
  BY <1>1, SharedSteady
<1>9. file'[i].class = file[i].class
  BY SharedSteady
<1> QED
  BY <1>2, <1>5, <1>6, <1>7, <1>8, <1>9 DEF SharedIn

\* The row of the declaration of a shared variable is written.
LEMMA StartWritten ==
  ASSUME FreshInv, NEW i \in OfClass(SharedClass), lines \in [1 .. Total(file) -> Line],
         lines' \in [1 .. Total(file) -> Line], NEW l,
         lines' = [lines EXCEPT ![DeclStartRow(i)] = l]
  PROVE  /\ Within(file, lines, lines', i)
         /\ \A x : Alone(lines, i, x) => Alone(lines', i, l)
<1>1. PICK s : s = DeclStartRow(i) /\ s \in Block(file, i) /\ s \in 1 .. Total(file)
  BY StartRow
<1>2. Block(file, i) \subseteq 1 .. Total(file)
  <2>1. file \in ModFile \cup SdcrFile
    BY DEF FreshInv
  <2>2. i \in 1 .. Len(file)
    BY StartRow
  <2> QED
    BY <2>1, <2>2, BlockRows
<1>3. lines'[s] = l /\ \A t \in 1 .. Total(file) : t # s => lines'[t] = lines[t]
  BY <1>1
<1>4. Within(file, lines, lines', i)
  BY <1>1, <1>3 DEF Within
<1>5. \A x : Alone(lines, i, x) => Alone(lines', i, l)
  BY <1>1, <1>2, <1>3 DEF Alone
<1> QED
  BY <1>4, <1>5

\* One declaration is written after the others.
LEMMA DeclsMore ==
  ASSUME NEW i, NEW n \in Nat
  PROVE  Decls(i, n) \o <<<<i, "extern decl">>>> = Decls(i, n + 1)
<1>1. PICK d : d = <<i, "extern decl">>
  OBVIOUS
<1>2. PICK A : d \in A
  <2>1. d \in {d}
    OBVIOUS
  <2> QED
    BY <2>1
<1>3. PICK m \in Nat : m = n + 1 /\ 1 .. n \subseteq 1 .. m /\ m \in 1 .. m
  OBVIOUS
<1>4. PICK x : x = [k \in 1 .. n |-> d]
  OBVIOUS
<1>5. PICK y : y = [k \in 1 .. m |-> d]
  OBVIOUS
<1>6. x \in [1 .. n -> A] /\ y \in [1 .. m -> A]
  BY <1>2, <1>4, <1>5
<1>7. x \in Seq(A) /\ Len(x) = n /\ y \in Seq(A) /\ Len(y) = m
  BY <1>6
<1>8. PICK w : w = <<d>>
  OBVIOUS
<1>9. w \in Seq(A) /\ Len(w) = 1 /\ w[1] = d
  BY <1>2, <1>8
<1>10. PICK c : c = x \o w /\ Joined(c, x, w, A)
  BY <1>7, <1>9, Concat
<1>11. /\ c \in Seq(A) /\ Len(c) = m
       /\ \A k \in 1 .. n : c[k] = x[k]
       /\ c[m] = w[1]
  <2>1. 1 \in 1 .. Len(w) /\ Len(w) = 1 /\ Len(x) = n
    BY <1>7, <1>9
  <2>2. /\ c \in Seq(A) /\ Len(c) = Len(x) + Len(w)
        /\ \A k \in 1 .. Len(x) : c[k] = x[k]
        /\ \A k \in 1 .. Len(w) : c[Len(x) + k] = w[k]
    BY <1>10 DEF Joined
  <2>3. c[n + 1] = w[1]
    BY <2>1, <2>2
  <2> QED
    BY <1>3, <2>1, <2>2, <2>3
<1>12. ASSUME NEW k \in 1 .. m PROVE c[k] = y[k]
  <2>1. CASE k = m
    BY <1>5, <1>9, <1>11, <2>1
  <2>2. CASE k # m
    <3>1. k \in 1 .. n
      BY <1>3, <2>2
    <3> QED
      BY <1>4, <1>5, <1>11, <3>1
  <2> QED
    BY <2>1, <2>2
<1>13. \A u, v \in Seq(A) : Len(u) = Len(v) /\ (\A k \in 1 .. Len(u) : u[k] = v[k]) => u = v
  OBVIOUS
<1>14. c = y
  BY <1>7, <1>11, <1>12, <1>13
<1> QED
  BY <1>1, <1>3, <1>4, <1>5, <1>8, <1>10, <1>14 DEF Decls

\* The variable that a step works on.
LEMMA SharedMerge ==
  ASSUME FreshInv, SharedInv, NEW v \in todo, MergeShared(v), NEW i, i = v[1]
  PROVE  /\ i \in OfClass(SharedClass) /\ Within(file, lines, lines', i) /\ SharedIn(i)'
         /\ Steady /\ place' = place /\ todo' = todo \ {v}
<1>1. Steady /\ place = "merge_var" /\ place' = place /\ todo' = todo \ {v}
  BY DEF MergeShared, Work, Steady
<1>2. i \in OfClass(SharedClass) /\ Within(file, lines, lines', i)
  BY MergeWithinBlock
<1>3. MergedAt(i) \/ Intact(file, lines, i)
  BY <1>1, <1>2 DEF SharedInv, SharedIn
<1>4. Alone(lines', i, MergedRow(i))
  BY <1>3, SharedMerged DEF MergedAt
<1>5. MergedAt(i)'
  BY <1>1, <1>4, SharedSteady
<1> QED
  BY <1>1, <1>2, <1>5 DEF SharedIn

\* Deleting leaves no row, however often it is done.
LEMMA SharedDelete ==
  ASSUME FreshInv, LinesInv, SharedInv, NEW v \in todo, DeleteShared(v), NEW i, i = v[1]
  PROVE  /\ i \in OfClass(SharedClass) /\ Within(file, lines, lines', i) /\ SharedIn(i)'
         /\ Steady /\ place' = place /\ todo' = todo \ {v}
<1>1. /\ Steady /\ place = "delete_var" /\ place' = place /\ todo' = todo \ {v}
      /\ lines' = [lines EXCEPT ![DeclStartRow(i)] = <<>>]
  BY DEF DeleteShared, Work, Steady
<1>2. v \in StillShared /\ i \in OfClass(SharedClass)
  BY DeclareWorking
<1>3. file[i].class # "percpu"
  BY <1>2 DEF StillShared
<1>4. /\ lines \in [1 .. Total(file) -> Line] /\ lines' \in [1 .. Total(file) -> Line]
  <2>1. lines \in [1 .. Total(file) -> Line]
    BY DEF LinesInv
  <2>2. <<>> \in Line
    BY DEF Line
  <2>3. lines' \in [1 .. Total(file) -> Line]
    BY <1>1, <2>1, <2>2
  <2> QED
    BY <2>1, <2>3
<1>5. Within(file, lines, lines', i) /\ \A x : Alone(lines, i, x) => Alone(lines', i, <<>>)
  <2>1. PICK l : l = <<>>
    OBVIOUS
  <2>2. lines' = [lines EXCEPT ![DeclStartRow(i)] = l]
    BY <1>1, <2>1
  <2>3. Within(file, lines, lines', i) /\ \A x : Alone(lines, i, x) => Alone(lines', i, l)
    BY <1>2, <1>4, <2>2, StartWritten
  <2> QED
    BY <2>1, <2>3
<1>6. MergedAt(i) \/ ClearedAt(i)
  BY <1>1, <1>2 DEF SharedInv, SharedIn
<1>7. Alone(lines', i, <<>>)
  BY <1>5, <1>6 DEF MergedAt, ClearedAt
<1>8. ClearedAt(i)' /\ file'[i].class # "percpu"
  BY <1>1, <1>3, <1>7, SharedSteady
<1> QED
  BY <1>1, <1>2, <1>5, <1>8 DEF SharedIn

\* Declaring adds one for each variable of the definition.
LEMMA SharedDeclare ==
  ASSUME FreshInv, LinesInv, SharedInv, NEW v \in todo, DeclareShared(v), NEW i, i = v[1]
  PROVE  /\ i \in OfClass(SharedClass) /\ Within(file, lines, lines', i) /\ SharedIn(i)'
         /\ Steady /\ place' = place /\ todo' = todo \ {v}
<1>1. /\ Steady /\ place = "declare_var" /\ place' = place /\ todo' = todo \ {v}
      /\ lines' = [lines EXCEPT ![DeclStartRow(i)] = @ \o <<<<i, "extern decl">>>>]
  BY DEF DeclareShared, Work, Steady
<1>2. v \in StillShared /\ i \in OfClass(SharedClass) /\ Working(i)
  BY DeclareWorking
<1>3. /\ file[i].class # "percpu" /\ v \in OfClass(SharedClass) \X (1 .. 2)
      /\ v[2] \in meta[i].decls
  BY <1>2 DEF StillShared, SharedVarList, Declared
<1>4. lines \in [1 .. Total(file) -> Line] /\ lines' \in [1 .. Total(file) -> Line]
  BY <1>2 DEF LinesInv, Working, Reworks, Keeps
<1>5. PICK d \in 1 .. 2 : d = v[2] /\ v = <<i, d>>
  BY <1>3
<1>6. PICK n \in Nat : n = One(i, 1) + One(i, 2)
  BY DEF One
<1>7. One(i, 1)' + One(i, 2)' = n + 1
  <2>1. \A e : One(i, e)' = IF e \in meta[i].decls /\ <<i, e>> \notin todo' THEN 1 ELSE 0
    BY <1>1, SharedSteady
  <2>2. d \in meta[i].decls /\ <<i, d>> \in todo
    BY <1>3, <1>5
  <2>3. One(i, d) = 0 /\ One(i, d)' = 1
    <3>1. One(i, d) = 0
      BY <2>2 DEF One
    <3>2. <<i, d>> \notin todo'
      BY <1>1, <1>5
    <3>3. One(i, d)' = IF d \in meta[i].decls /\ <<i, d>> \notin todo' THEN 1 ELSE 0
      BY <2>1
    <3> QED
      BY <2>2, <3>1, <3>2, <3>3
  <2>4. ASSUME NEW e, e # d PROVE <<i, e>> \in todo <=> <<i, e>> \in todo'
    <3>1. PICK w : w = <<i, e>>
      OBVIOUS
    <3>2. w[2] = e /\ v[2] = d
      BY <1>5, <3>1
    <3>3. w # v
      BY <2>4, <3>2
    <3> QED
      BY <1>1, <3>1, <3>3
  <2>5. \A e : e # d => One(i, e)' = One(i, e)
    BY <2>1, <2>4 DEF One
  <2>6. One(i, 1) \in Nat /\ One(i, 2) \in Nat
    BY DEF One
  <2>7. CASE d = 1
    <3>1. One(i, 1) = 0 /\ One(i, 1)' = 1 /\ One(i, 2)' = One(i, 2)
      BY <2>3, <2>5, <2>7
    <3> QED
      BY <1>6, <2>6, <3>1
  <2>8. CASE d = 2
    <3>1. One(i, 2) = 0 /\ One(i, 2)' = 1 /\ One(i, 1)' = One(i, 1)
      BY <2>3, <2>5, <2>8
    <3> QED
      BY <1>6, <2>6, <3>1
  <2> QED
    BY <2>7, <2>8
<1>8. PICK o, l : o = Decls(i, n) /\ l = Decls(i, n + 1) /\ l = o \o <<<<i, "extern decl">>>>
  BY DeclsMore
<1>9. Alone(lines, i, o)
  <2>1. DeclaredAt(i)
    BY <1>1, <1>2, <1>3 DEF SharedInv, SharedIn
  <2> QED
    BY <1>6, <1>8, <2>1 DEF DeclaredAt
<1>10. lines' = [lines EXCEPT ![DeclStartRow(i)] = l]
  <2>1. lines[DeclStartRow(i)] = o
    BY <1>9 DEF Alone
  <2> QED
    BY <1>1, <1>8, <2>1
<1>11. Within(file, lines, lines', i) /\ Alone(lines', i, l)
  BY <1>2, <1>4, <1>9, <1>10, StartWritten
<1>12. DeclaredAt(i)'
  <2>1. DeclaredAt(i)' <=> Alone(lines', i, Decls(i, One(i, 1)' + One(i, 2)'))
    BY <1>1, SharedSteady
  <2> QED
    BY <1>7, <1>8, <1>11, <2>1
<1>13. file'[i].class # "percpu"
  BY <1>1, <1>3, SharedSteady
<1> QED
  BY <1>1, <1>2, <1>11, <1>12, <1>13 DEF SharedIn

\* The beginning of each of the three lists.
LEMMA SharedEntry ==
  ASSUME FreshInv, NEW i \in OfClass(SharedClass)
  PROVE  /\ <<i, 1>> \in SharedVarList
         /\ file[i].class # "percpu" => <<i, 1>> \in StillShared
         /\ meta[i].decls = {1} \/ meta[i].decls = 1 .. 2
<1>1. PICK F : F \in ModFile \cup SdcrFile /\ F = file /\ meta = Collected(F)
  BY DEF FreshInv
<1> F \in ModFile \cup SdcrFile
  BY <1>1
<1>2. i \in 1 .. Len(F)
  BY <1>1, SharedVars
<1>3. meta[i].decls = {1} \/ meta[i].decls = 1 .. 2
  BY <1>1, <1>2, DeclsOf
<1>4. 1 \in meta[i].decls
  BY <1>3
<1>5. PICK v : v = <<i, 1>>
  OBVIOUS
<1>6. v \in OfClass(SharedClass) \X (1 .. 2) /\ v[2] \in meta[v[1]].decls /\ v[1] = i
  BY <1>4, <1>5
<1>7. v \in SharedVarList
  BY <1>6 DEF SharedVarList, Declared
<1>8. file[i].class # "percpu" => v \in StillShared
  BY <1>6, <1>7 DEF StillShared
<1> QED
  BY <1>1, <1>3, <1>5, <1>7, <1>8

\* When a list is empty, each shared variable is ready for the next one.
LEMMA SharedTurning ==
  ASSUME FreshInv, SharedInv, Steady, NextList, lines' = lines, NEW i \in OfClass(SharedClass)
  PROVE  SharedIn(i)'
<1>1. todo = {} /\ SharedIn(i)
  BY DEF NextList, SharedInv
<1>2. CASE place = "static_var"
  <2>1. place' = "merge_var" /\ todo' = SharedVarList
    BY <1>2 DEF NextList, After
  <2>2. Intact(file, lines, i)
    BY <1>2 DEF FreshInv
  <2>3. Intact(file, lines, i)'
    BY <2>2, SharedSteady
  <2>4. Awaited(i)'
    <3>1. PICK v : v = <<i, 1>> /\ v \in todo'
      BY <2>1, SharedEntry
    <3>2. v[1] = i
      BY <3>1
    <3> QED
      BY <3>1, <3>2 DEF Awaited
  <2> QED
    BY <2>1, <2>3, <2>4 DEF SharedIn
<1>3. CASE place = "merge_var"
  <2>1. place' = "delete_var" /\ todo' = StillShared
    BY <1>3 DEF NextList, After
  <2>2. MergedAt(i)
    BY <1>1, <1>3 DEF SharedIn, Awaited
  <2>3. MergedAt(i)' /\ file'[i].class = file[i].class
    BY <2>2, SharedSteady DEF MergedAt
  <2>4. file[i].class = "percpu" \/ Awaited(i)'
    <3>1. CASE file[i].class # "percpu"
      <4>1. PICK v : v = <<i, 1>> /\ v \in todo'
        BY <2>1, <3>1, SharedEntry
      <4>2. v[1] = i
        BY <4>1
      <4> QED
        BY <4>1, <4>2 DEF Awaited
    <3> QED
      BY <3>1
  <2> QED
    BY <2>1, <2>3, <2>4 DEF SharedIn
<1>4. CASE place = "delete_var"
  <2>1. place' = "declare_var" /\ todo' = StillShared
    BY <1>4 DEF NextList, After
  <2>2. CASE file[i].class = "percpu"
    <3>1. MergedAt(i)
      BY <1>1, <1>4, <2>2 DEF SharedIn, Awaited
    <3>2. MergedAt(i)' /\ file'[i].class = file[i].class
      BY <3>1, SharedSteady DEF MergedAt
    <3> QED
      BY <2>1, <2>2, <3>2 DEF SharedIn
  <2>3. CASE file[i].class # "percpu"
    <3>1. ClearedAt(i)
      BY <1>1, <1>4, <2>3 DEF SharedIn, Awaited
    <3>2. One(i, 1)' = 0 /\ One(i, 2)' = 0
      <4>1. ASSUME NEW d \in 1 .. 2 PROVE One(i, d)' = 0
        <5>1. CASE d \in meta[i].decls
          <6>1. PICK v : v = <<i, d>>
            OBVIOUS
          <6>2. v \in OfClass(SharedClass) \X (1 .. 2) /\ v[2] \in meta[v[1]].decls /\ v[1] = i
            BY <5>1, <6>1
          <6>3. v \in StillShared
            BY <2>3, <6>2 DEF StillShared, SharedVarList, Declared
          <6>4. One(i, d)' = IF d \in meta[i].decls /\ <<i, d>> \notin todo' THEN 1 ELSE 0
            BY SharedSteady
          <6> QED
            BY <2>1, <6>1, <6>3, <6>4
        <5>2. CASE d \notin meta[i].decls
          <6>1. One(i, d)' = IF d \in meta[i].decls /\ <<i, d>> \notin todo' THEN 1 ELSE 0
            BY SharedSteady
          <6> QED
            BY <5>2, <6>1
        <5> QED
          BY <5>1, <5>2
      <4> QED
        BY <4>1
    <3>3. Decls(i, 0) = <<>>
      BY DEF Decls
    <3>4. 0 + 0 = 0
      OBVIOUS
    <3>5. Alone(lines', i, Decls(i, One(i, 1)' + One(i, 2)'))
      BY <3>1, <3>2, <3>3, <3>4 DEF ClearedAt
    <3>6. DeclaredAt(i)' /\ file'[i].class = file[i].class
      BY <3>5, SharedSteady
    <3> QED
      BY <2>1, <2>3, <3>6 DEF SharedIn
  <2> QED
    BY <2>2, <2>3
<1>5. CASE place \notin {"static_var", "merge_var", "delete_var"}
  <2>1. place' \notin {"merge_var", "delete_var", "declare_var"}
    BY <1>5 DEF NextList, After, FreshInv, FnPlaces, VarPlaces, LatePlaces
  <2> QED
    BY <2>1 DEF SharedIn
<1> QED
  BY <1>2, <1>3, <1>4, <1>5

\* SharedInv is inductive, given where the rows are.
LEMMA SharedNext ==
  ASSUME FreshInv, LinesInv, SharedInv, [Next]_vars
  PROVE  SharedInv'
<1>1. ASSUME Steady, \A i \in OfClass(SharedClass) : SharedIn(i)' PROVE SharedInv'
  <2>1. SharedClass' = SharedClass /\ \A C : OfClass(C)' = OfClass(C)
    BY <1>1, WantedSteady
  <2>2. OfClass(SharedClass)' = OfClass(SharedClass)
    <3>1. PICK C : C = SharedClass /\ C = SharedClass'
      BY <2>1
    <3>2. OfClass(C)' = OfClass(C)
      BY <2>1
    <3>3. OfClass(SharedClass)' = OfClass(C)'
      BY <3>1 DEF OfClass
    <3> QED
      BY <3>1, <3>2, <3>3
  <2> QED
    BY <1>1, <2>2 DEF SharedInv
<1>2. ASSUME NEW v \in todo, MergeShared(v) \/ DeleteShared(v) \/ DeclareShared(v)
      PROVE  SharedInv'
  <2>1. PICK j : j = v[1]
    OBVIOUS
  <2>2. /\ j \in OfClass(SharedClass) /\ Within(file, lines, lines', j) /\ SharedIn(j)'
        /\ Steady /\ place' = place /\ todo' = todo \ {v}
    BY <1>2, <2>1, SharedMerge, SharedDelete, SharedDeclare
  <2>3. ASSUME NEW i \in OfClass(SharedClass), i # j PROVE SharedIn(i)'
    <3>1. SharedIn(i)
      BY DEF SharedInv
    <3> QED
      BY <2>1, <2>2, <2>3, <3>1, SharedOther
  <2>4. \A i \in OfClass(SharedClass) : SharedIn(i)'
    BY <2>2, <2>3
  <2> QED
    BY <1>1, <2>2, <2>4
<1>3. ASSUME Steady, place' = place, place \notin {"merge_var", "delete_var", "declare_var"}
      PROVE  SharedInv'
  <2>1. \A i \in OfClass(SharedClass) : SharedIn(i)'
    BY <1>3 DEF SharedIn
  <2> QED
    BY <1>1, <1>3, <2>1
<1>4. ASSUME NEW j \in Items, ExtractOutsider(j) PROVE SharedInv'
  <2>1. Working(j) /\ place = "fn"
    BY <1>4, OutsiderWorking
  <2> QED
    BY <1>3, <2>1 DEF Working
<1>5. ASSUME NEW j \in Items,
             ExtractOptimised(j) \/ ExtractCallback(j) \/ ExtractInterface(j)
      PROVE  SharedInv'
  <2>1. Working(j) /\ place \in FnPlaces
    BY <1>5, MarkWorking
  <2> QED
    BY <1>3, <2>1 DEF Working, FnPlaces
<1>6. ASSUME NEW v \in todo, ExtractStatic(v) PROVE SharedInv'
  <2>1. Working(v[1]) /\ place = "static_var"
    BY <1>6, StaticWorking
  <2> QED
    BY <1>3, <2>1 DEF Working
<1>7. ASSUME Scanning PROVE SharedInv'
  BY <1>3, <1>7 DEF Scanning
<1>8. ASSUME Turning PROVE SharedInv'
  <2>1. CASE NextList
    <3>1. Steady /\ lines' = lines
      BY <1>8 DEF Turning
    <3>2. \A i \in OfClass(SharedClass) : SharedIn(i)'
      BY <2>1, <3>1, SharedTurning
    <3> QED
      BY <1>1, <3>1, <3>2
  <2>2. CASE WriteFile
    <3>1. Steady /\ place' = "done"
      BY <1>8, <2>2 DEF Turning, WriteFile
    <3>2. \A i \in OfClass(SharedClass) : SharedIn(i)'
      BY <3>1 DEF SharedIn
    <3> QED
      BY <1>1, <3>1, <3>2
  <2>3. CASE place' = place /\ todo' = todo /\ row' = row
    <3>1. Steady /\ lines' = lines
      BY <1>8 DEF Turning
    <3>2. ASSUME NEW i \in OfClass(SharedClass) PROVE SharedIn(i)'
      <4>1. SharedIn(i)
        BY DEF SharedInv
      <4>2. /\ MergedAt(i) => MergedAt(i)'
            /\ ClearedAt(i) => ClearedAt(i)'
            /\ Intact(file, lines, i) => Intact(file, lines, i)'
            /\ file'[i].class = file[i].class
        BY <3>1, SharedSteady DEF MergedAt, ClearedAt
      <4>3. DeclaredAt(i) => DeclaredAt(i)'
        <5>1. \A d : One(i, d)' = One(i, d)
          BY <2>3, <3>1, SharedSteady DEF One
        <5> QED
          BY <3>1, <5>1, SharedSteady DEF DeclaredAt
      <4>4. Awaited(i)' <=> Awaited(i)
        BY <2>3 DEF Awaited
      <4> QED
        BY <2>3, <4>1, <4>2, <4>3, <4>4 DEF SharedIn
    <3> QED
      BY <1>1, <3>1, <3>2
  <2> QED
    BY <1>8, <2>1, <2>2, <2>3 DEF Turning
<1> QED
  BY <1>2, <1>4, <1>5, <1>6, <1>7, <1>8, StepCases

LEMMA SharedInit ==
  ASSUME Init
  PROVE  SharedInv
BY DEF Init, SharedInv, SharedIn

-------------------------------------------------------------------------------
(***************************************************************************)
(* From the lists to the last pass, and to the end.                        *)
(***************************************************************************)
\* What is meant of a shared variable.
LEMMA ListedShared ==
  ASSUME NEW i \in OfClass(SharedClass), NEW r
  PROVE  /\ Row(i, r) # DeclStartRow(i) => ListedRow(i, r) = <<>>
         /\ Row(i, r) = DeclStartRow(i) /\ file[i].class = "percpu" =>
              ListedRow(i, r) = MergedRow(i)
         /\ Row(i, r) = DeclStartRow(i) /\ file[i].class # "percpu" =>
              ListedRow(i, r) = [d \in meta[i].decls |-> <<i, "extern decl">>]
<1>1. PICK c : c = file[i].class /\ c \in SharedClass
  BY DEF OfClass
<1>2. c # "outsider_opt" /\ c # "callback" /\ c \notin {"interface", "sidecar"}
  <2>1. c \in VarClass
    BY <1>1 DEF SharedClass, VarClass
  <2> QED
    BY <2>1 DEF VarClass
<1>3. ~(c = "static" /\ ~in_sdcr_srcs /\ Row(i, r) = NameRow(i))
  BY <1>1 DEF SharedClass
<1>4. ASSUME Row(i, r) # DeclStartRow(i) PROVE ListedRow(i, r) = <<>>
  BY <1>1, <1>2, <1>3, <1>4 DEF ListedRow
<1>5. ASSUME Row(i, r) = DeclStartRow(i), c = "percpu" PROVE ListedRow(i, r) = MergedRow(i)
  BY <1>1, <1>2, <1>3, <1>5 DEF ListedRow, MergedRow, JoinedRow, KeptRow
<1>6. ASSUME Row(i, r) = DeclStartRow(i), c # "percpu"
      PROVE  ListedRow(i, r) = [d \in meta[i].decls |-> <<i, "extern decl">>]
  BY <1>1, <1>2, <1>3, <1>6 DEF ListedRow
<1> QED
  BY <1>1, <1>4, <1>5, <1>6

\* Where the lists come to their end, all is as they were to leave it.
LEMMA SharedListed ==
  ASSUME FreshInv, SharedInv, place = "declare_var", todo = {},
         NEW i \in OfClass(SharedClass)
  PROVE  ListedIn(lines, i)
<1>1. PICK s : s = DeclStartRow(i)
  OBVIOUS
<1>2. \A r \in 1 .. Len(file[i].rows) : Row(i, r) \in Block(file, i)
  <2>1. i \in Items
    BY DEF OfClass
  <2> QED
    BY <2>1, ItemRows
<1>3. PICK x : Alone(lines, i, x) /\ \A r : Row(i, r) = s => ListedRow(i, r) = x
  <2>1. CASE file[i].class = "percpu"
    <3>1. MergedAt(i)
      BY <2>1 DEF SharedInv, SharedIn
    <3> QED
      BY <1>1, <2>1, <3>1, ListedShared DEF MergedAt
  <2>2. CASE file[i].class # "percpu"
    <3>1. DeclaredAt(i)
      BY <2>2 DEF SharedInv, SharedIn
    <3>2. PICK x : x = [d \in meta[i].decls |-> <<i, "extern decl">>]
      OBVIOUS
    <3>3. Decls(i, One(i, 1) + One(i, 2)) = x
      <4>1. \A d : One(i, d) = IF d \in meta[i].decls THEN 1 ELSE 0
        BY DEF One
      <4>2. CASE meta[i].decls = {1}
        <5>1. One(i, 1) = 1 /\ One(i, 2) = 0
          BY <4>1, <4>2
        <5>2. One(i, 1) + One(i, 2) = 1 /\ 1 .. 1 = {1}
          BY <5>1
        <5> QED
          BY <3>2, <4>2, <5>2 DEF Decls
      <4>3. CASE meta[i].decls = 1 .. 2
        <5>1. One(i, 1) = 1 /\ One(i, 2) = 1
          BY <4>1, <4>3
        <5>2. One(i, 1) + One(i, 2) = 2
          BY <5>1
        <5> QED
          BY <3>2, <4>3, <5>2 DEF Decls
      <4> QED
        BY <4>2, <4>3, SharedEntry
    <3>4. Alone(lines, i, x)
      BY <3>1, <3>3 DEF DeclaredAt
    <3>5. \A r : Row(i, r) = s => ListedRow(i, r) = x
      BY <1>1, <2>2, <3>2, ListedShared
    <3> QED
      BY <3>4, <3>5
  <2> QED
    BY <2>1, <2>2
<1>4. ASSUME NEW r \in 1 .. Len(file[i].rows) PROVE lines[Row(i, r)] = ListedRow(i, r)
  <2>1. CASE Row(i, r) = s
    BY <1>1, <1>3, <2>1 DEF Alone
  <2>2. CASE Row(i, r) # s
    <3>1. lines[Row(i, r)] = <<>>
      BY <1>1, <1>2, <1>3, <2>2 DEF Alone
    <3> QED
      BY <1>1, <2>2, <3>1, ListedShared
  <2> QED
    BY <2>1, <2>2
<1> QED
  BY <1>4 DEF ListedIn

\* The same for every item, when fix_up begins.
LEMMA AllListed ==
  ASSUME FreshInv, SharedInv, PlainInv, place = "declare_var", todo = {},
         NEW i \in Items, Kept(i)
  PROVE  ListedIn(lines, i)
<1>1. CASE file[i].class \in SharedClass
  <2>1. i \in OfClass(SharedClass)
    BY <1>1 DEF OfClass
  <2> QED
    BY <2>1, SharedListed
<1>2. CASE file[i].class \notin SharedClass
  <2>1. place \notin LastPlaces /\ place \notin FnPlaces
    BY DEF LastPlaces, FnPlaces
  <2>2. ~Ahead(i)
    BY <2>1 DEF Ahead
  <2> QED
    BY <1>2, <2>1, <2>2 DEF PlainInv, PlainAt
<1> QED
  BY <1>1, <1>2

\* The rows that are asked of an item stay the same.
LEMMA FixedSteady ==
  ASSUME Steady, NEW i
  PROVE  /\ Kept(i)' = Kept(i) /\ Items' = Items
         /\ Len(file'[i].rows) = Len(file[i].rows)
         /\ \A r : FixedAt(i, r)' <=>
              lines'[Row(i, r)] =
                IF PassRow(i, r) < row' THEN FinalRow(i, r) ELSE ListedRow(i, r)
<1>1. file' = file
  BY DEF Steady
<1>2. \A r : Row(i, r)' = Row(i, r) /\ FinalRow(i, r)' = FinalRow(i, r)
             /\ ListedRow(i, r)' = ListedRow(i, r)
  BY WantedSteady
<1>3. \A r : PassRow(i, r)' = PassRow(i, r)
  BY <1>1, <1>2 DEF PassRow
<1>4. ASSUME NEW r
      PROVE  FixedAt(i, r)' <=>
               lines'[Row(i, r)] =
                 IF PassRow(i, r) < row' THEN FinalRow(i, r) ELSE ListedRow(i, r)
  BY <1>2, <1>3 DEF FixedAt
<1> QED
  BY <1>1, <1>4, WantedSteady DEF Kept

\* FixInv is inductive, given the five invariants it rests on.
LEMMA FixNext ==
  ASSUME FreshInv, LinesInv, PlainInv, HomeInv, SharedInv, FixInv, [Next]_vars
  PROVE  FixInv'
<1>1. ASSUME Steady,
             \A i \in Items : Kept(i) =>
               \A r \in 1 .. Len(file[i].rows) : FixedAt(i, r)'
      PROVE  FixInv'
  <2>1. file' = file /\ Items' = Items
    BY <1>1, WantedSteady DEF Steady
  <2>2. \A i : Kept(i)' = Kept(i)
    BY <1>1, FixedSteady
  <2> QED
    BY <1>1, <2>1, <2>2 DEF FixInv, FixAt
<1>2. ASSUME place' \notin LastPlaces PROVE FixInv'
  BY <1>2 DEF FixInv
<1>3. ASSUME NEW j, Working(j) PROVE FixInv'
  BY <1>2, <1>3 DEF Working
<1>4. ASSUME Scanning, FixUpInclude \/ FixUpDelete \/ FixUpOther PROVE FixInv'
  <2>1. \A i \in Items : Kept(i) => \A r \in 1 .. Len(file[i].rows) : FixedAt(i, r)'
    BY <1>4, FixScanning
  <2> QED
    BY <1>1, <1>4, <2>1 DEF Scanning
<1>5. ASSUME Turning PROVE FixInv'
  <2>1. Steady /\ lines' = lines /\ row' = row
    BY <1>5 DEF Turning
  <2>2. CASE NextList /\ place' \in LastPlaces
    <3>1. place = "declare_var" /\ todo = {}
      <4>1. place # "declare_var" => place' \notin LastPlaces
        BY <2>2 DEF NextList, After, LastPlaces, FreshInv, FnPlaces, VarPlaces, LatePlaces
      <4> QED
        BY <2>2, <4>1 DEF NextList
    <3>2. row = 1
      BY <3>1 DEF LinesInv, LastPlaces
    <3>3. ASSUME NEW i \in Items, Kept(i), NEW r \in 1 .. Len(file[i].rows)
          PROVE  FixedAt(i, r)'
      <4>1. lines[Row(i, r)] = ListedRow(i, r)
        BY <3>1, <3>3, AllListed DEF ListedIn
      <4>2. ~(PassRow(i, r) < 1)
        <5>1. Len(file[i].rows) \in Nat
          BY ItemRows
        <5>2. r \in 1 .. Len(file[i].rows) /\ 1 \in 1 .. Len(file[i].rows)
          BY <5>1
        <5>3. Row(i, r) \in 1 .. Total(file) /\ Row(i, 1) \in 1 .. Total(file)
          BY <5>2, ItemRows
        <5>4. Total(file) \in Nat /\ PassRow(i, r) \in 1 .. Total(file)
          BY <5>3, ItemRows DEF PassRow
        <5> QED
          BY <5>4
      <4>3. PICK x, y : x = FinalRow(i, r) /\ y = ListedRow(i, r)
        OBVIOUS
      <4>4. lines'[Row(i, r)] = IF PassRow(i, r) < row' THEN x ELSE y
        BY <2>1, <3>2, <4>1, <4>2, <4>3
      <4> QED
        BY <2>1, <4>3, <4>4, FixedSteady
    <3> QED
      BY <1>1, <2>1, <3>3
  <2>3. CASE place \in LastPlaces
    <3>1. ASSUME NEW i \in Items, Kept(i), NEW r \in 1 .. Len(file[i].rows)
          PROVE  FixedAt(i, r)'
      <4>1. FixedAt(i, r)
        BY <2>3, <3>1 DEF FixInv, FixAt
      <4> QED
        BY <2>1, <4>1, FixedSteady DEF FixedAt
    <3> QED
      BY <1>1, <2>1, <3>1
  <2>4. CASE place \notin LastPlaces /\ ~(NextList /\ place' \in LastPlaces)
    <3>1. place' \notin LastPlaces
      BY <1>5, <2>4 DEF Turning, WriteFile, LastPlaces
    <3> QED
      BY <1>2, <3>1
  <2> QED
    BY <2>2, <2>3, <2>4
<1>6. ASSUME NEW j \in Items, ExtractOutsider(j) PROVE FixInv'
  BY <1>3, <1>6, OutsiderWorking
<1>7. ASSUME NEW j \in Items,
             ExtractOptimised(j) \/ ExtractCallback(j) \/ ExtractInterface(j)
      PROVE  FixInv'
  BY <1>3, <1>7, MarkWorking
<1>8. ASSUME NEW v \in todo, ExtractStatic(v) PROVE FixInv'
  BY <1>3, <1>8, StaticWorking
<1>9. ASSUME NEW v \in todo, MergeShared(v) PROVE FixInv'
  BY <1>3, <1>9, MergeWorking
<1>10. ASSUME NEW v \in todo, DeleteShared(v) \/ DeclareShared(v) PROVE FixInv'
  BY <1>3, <1>10, DeclareWorking
<1> QED
  BY <1>4, <1>5, <1>6, <1>7, <1>8, <1>9, <1>10, StepCases

LEMMA FixInit ==
  ASSUME Init
  PROVE  FixInv
BY DEF Init, FixInv, LastPlaces

\* When the last row was passed, each is what was meant.
LEMMA FixedMeant ==
  ASSUME FreshInv, LinesInv, FixInv
  PROVE  RowsAsMeant
<1>1. SUFFICES ASSUME place = "done", NEW i \in Items, file[i].class # "outsider",
                      Ended(file[i]), NEW r \in DOMAIN file[i].rows
               PROVE  lines[Row(i, r)] = FinalRow(i, r)
  BY DEF RowsAsMeant
<1>2. i \in 1 .. Len(file) /\ Len(file[i].rows) \in Nat
  BY ItemRows
<1>3. r \in 1 .. Len(file[i].rows)
  <2>1. DOMAIN file[i].rows = 1 .. Len(file[i].rows)
    BY <1>2, FileRows DEF FreshInv
  <2> QED
    BY <2>1
<1>4. FixedAt(i, r)
  BY <1>1, <1>3 DEF FixInv, FixAt, LastPlaces, Kept
<1>5. PassRow(i, r) < row
  <2>1. r \in 1 .. Len(file[i].rows) /\ 1 \in 1 .. Len(file[i].rows)
    BY <1>2, <1>3
  <2>2. Row(i, r) \in 1 .. Total(file) /\ Row(i, 1) \in 1 .. Total(file)
    BY <2>1, ItemRows
  <2>3. Total(file) \in Nat /\ PassRow(i, r) \in 1 .. Total(file)
    BY <2>2, ItemRows DEF PassRow
  <2>4. row \in Nat /\ row > Total(file)
    BY <1>1 DEF LinesInv
  <2> QED
    BY <2>3, <2>4
<1> QED
  BY <1>4, <1>5 DEF FixedAt

(***************************************************************************)
(* When extract.py writes the file, every row of every item that ends, but *)
(* for outsiders, is what its item asks for and stands where it stood:     *)
(* insiders, private variables and other text to the letter, functions     *)
(* with their marks, shared variables as their declarations on one row,    *)
(* boot code deleted and nothing else with it.                             *)
(***************************************************************************)
THEOREM RowsCorrect == Spec => []RowsAsMeant
<1>1. Init => FreshInv /\ LinesInv /\ PlainInv /\ HomeInv /\ SharedInv /\ FixInv
  BY FreshInit, LinesInit, PlainInit, HomeInit, SharedInit, FixInit
<1>2. FreshInv /\ LinesInv /\ PlainInv /\ HomeInv /\ SharedInv /\ FixInv /\ [Next]_vars
        => (FreshInv /\ LinesInv /\ PlainInv /\ HomeInv /\ SharedInv /\ FixInv)'
  BY FreshNext, LinesNext, PlainNext, HomeNext, SharedNext, FixNext
<1>3. FreshInv /\ LinesInv /\ FixInv => RowsAsMeant
  BY FixedMeant
<1> QED
  BY <1>1, <1>2, <1>3, PTL DEF Spec

\* Both together: extract.py rewrites a file in place, cutting out the bodies it has
\* to cut out and leaving every other row as its item asks for.
THEOREM RewritingCorrect == Spec => []RewrittenAsMeant
<1>1. RowsAsMeant /\ BodiesGone => RewrittenAsMeant
  BY DEF RewrittenAsMeant
<1> QED
  BY <1>1, RowsCorrect, BodiesRemoved, PTL
===============================================================================
