---------------------------- MODULE BoundaryProofs ----------------------------
(***************************************************************************)
(* Proofs about the boundary analyzer (Boundary) and about the stack check *)
(* that relies on its result (StackCover), for every program.              *)
(***************************************************************************)
EXTENDS StackCover, SequenceTheorems, FiniteSetTheorems, TLAPS

\* What holds of the analysis at every place: the candidates only shrink, they
\* are closed when inflect is through, and no closed set was ever cut into.
AnalysisInv ==
  /\ prog \in Program
  /\ insiders \subseteq InitialInsider
  /\ place \in {"check", "done", "recursion_error"} => Closed(insiders)
  /\ InflectMaximal

\* The analyzer reads its input and never changes it.
LEMMA ProgramFixed ==
  ASSUME Analyze
  PROVE  prog' = prog
BY DEF Analyze, SidecarAssert, SidecarEnd, InflectRound, InflectEnd, SidecarDfs,
       CheckStart, CheckUnsafe, CheckCaller, CheckReturn, WriteResults

\* The definitions over the program depend on it and on insiders only.
LEMMA ProgramDefs ==
  ASSUME prog' = prog
  PROVE  /\ InitialInsider' = InitialInsider /\ Border' = Border
         /\ InflectCut' = InflectCut /\ Linked' = Linked
<1>1. CbOpt' = CbOpt
  BY DEF CbOpt
<1>2. Callback' = Callback
  BY <1>1 DEF Callback
<1>3. Border' = Border
  BY <1>2 DEF Border
<1> QED
  BY <1>3 DEF InitialInsider, InflectCut, Linked

LEMMA AnalysisDefs ==
  ASSUME prog' = prog, insiders' = insiders
  PROVE  /\ Insider' = Insider
         /\ Closed(insiders)' <=> Closed(insiders)
         /\ InflectMaximal' <=> InflectMaximal
<1>1. InflectCut' = InflectCut /\ InitialInsider' = InitialInsider
  BY ProgramDefs
<1>2. Insider' = Insider
  BY DEF Insider
<1>3. Closed(insiders)' <=> Closed(insiders)
  BY <1>1 DEF Closed
<1>4. InflectMaximal' <=> InflectMaximal
  BY <1>1 DEF InflectMaximal, Closed
<1> QED
  BY <1>2, <1>3, <1>4

\* One round of inflect takes nothing away from a closed set.
LEMMA RoundSparesClosed ==
  ASSUME NEW S, Closed(S), S \subseteq insiders
  PROVE  S \subseteq insiders \ Exposed(insiders)
BY DEF Closed, Exposed

LEMMA AnalysisStep ==
  ASSUME AnalysisInv, Analyze
  PROVE  AnalysisInv'
<1>1. prog' = prog
  BY ProgramFixed
<1>2. InitialInsider' = InitialInsider /\ InflectCut' = InflectCut
  BY <1>1, ProgramDefs
<1>3. CASE InflectRound
  <2>1. insiders' \subseteq InitialInsider'
    BY <1>2, <1>3 DEF AnalysisInv, InflectRound
  <2>2. InflectMaximal'
    <3> SUFFICES ASSUME NEW S \in SUBSET InitialInsider, Closed(S)
                 PROVE  S \subseteq insiders'
      BY <1>1, <1>2 DEF InflectMaximal, Closed
    <3>1. S \subseteq insiders
      BY DEF AnalysisInv, InflectMaximal
    <3> QED
      BY <1>3, <3>1, RoundSparesClosed DEF InflectRound
  <2> QED
    BY <1>1, <1>3, <2>1, <2>2 DEF AnalysisInv, InflectRound
<1>4. CASE InflectEnd
  <2>1. insiders' = insiders /\ Closed(insiders)
    BY <1>4 DEF InflectEnd, Closed, Exposed
  <2> QED
    BY <1>1, <1>2, <2>1, AnalysisDefs DEF AnalysisInv
<1>5. ASSUME insiders' = insiders,
             place' \in {"check", "done", "recursion_error"} => place = "check"
      PROVE  AnalysisInv'
  BY <1>1, <1>2, <1>5, AnalysisDefs DEF AnalysisInv
<1>6. CASE SidecarAssert \/ SidecarEnd \/ \E g \in Fn : SidecarDfs(g)
  BY <1>5, <1>6 DEF SidecarAssert, SidecarEnd, SidecarDfs
<1>7. CASE CheckReturn \/ WriteResults
           \/ \E g \in Fn : CheckStart(g) \/ CheckUnsafe(g) \/ CheckCaller(g)
  BY <1>5, <1>7 DEF CheckReturn, WriteResults, CheckStart, CheckUnsafe, CheckCaller
<1> QED
  BY <1>3, <1>4, <1>6, <1>7 DEF Analyze

LEMMA AnalysisInit ==
  ASSUME Init
  PROVE  AnalysisInv
BY DEF Init, AnalysisInv, InflectMaximal

\* The analysis keeps its invariant.
THEOREM AnalysisInvariance == Spec => []AnalysisInv
<1>1. Init => AnalysisInv
  BY AnalysisInit
<1>2. AnalysisInv /\ [Next]_vars => AnalysisInv'
  <2> SUFFICES ASSUME AnalysisInv, [Next]_vars PROVE AnalysisInv'
    OBVIOUS
  <2>1. CASE Next
    BY <2>1, AnalysisStep DEF Next
  <2>2. CASE UNCHANGED vars
    BY <2>2, ProgramDefs, AnalysisDefs DEF vars, AnalysisInv
  <2> QED
    BY <2>1, <2>2
<1> QED
  BY <1>1, <1>2, PTL DEF Spec

LEMMA ClosedKeepsOut ==
  ASSUME AnalysisInv
  PROVE  OutsidersKeptOut
<1> SUFFICES ASSUME place \in {"check", "done"}
             PROVE  /\ \A f, g \in Fn :
                         <<f, g>> \in prog.edges /\ g \in Insider =>
                           f \in Insider \cup InflectCut \cup prog.fake_global
                    /\ Insider \cap prog.export = {}
  BY DEF OutsidersKeptOut
<1>1. Closed(insiders) /\ insiders \subseteq InitialInsider
  BY DEF AnalysisInv
<1>2. Insider \cap prog.export = {}
  BY <1>1 DEF Insider, InitialInsider
<1>3. ASSUME NEW f \in Fn, NEW g \in Fn, <<f, g>> \in prog.edges, g \in Insider
      PROVE  f \in Insider \cup InflectCut \cup prog.fake_global
  <2>1. g \in insiders
    BY <1>3 DEF Insider
  <2>2. f \in insiders \cup InflectCut
    BY <1>1, <1>3, <2>1 DEF Closed
  <2> QED
    BY <2>2 DEF Insider, InflectCut
<1> QED
  BY <1>2, <1>3

\* Whatever the program and its configuration, the insiders that analyze.py
\* passes on are called by no outsider.
THEOREM BoundarySafe == Spec => []OutsidersKeptOut
BY AnalysisInvariance, ClosedKeepsOut, PTL

\* Whatever the program, inflect computes the largest such set.
THEOREM BoundaryMaximal == Spec => []InflectMaximal
<1>1. AnalysisInv => InflectMaximal
  BY DEF AnalysisInv
<1> QED
  BY <1>1, AnalysisInvariance, PTL

-------------------------------------------------------------------------------
\* What sidecar_inflect keeps is closed under the descent as soon as it is left.
SidecarInv ==
  /\ leftover \cap prog.in_vmlinux \subseteq prog.sidecar
  /\ place \notin {"sidecar", "halted"} =>
       \A f \in leftover, g \in Fn : Descends(f, g) => g \in leftover

LEMMA SidecarStep ==
  ASSUME SidecarInv, [Next]_vars
  PROVE  SidecarInv'
<1>1. \A f, g : prog' = prog => (Descends(f, g)' <=> Descends(f, g))
  BY DEF Descends
<1>2. ASSUME NEW g \in Fn, SidecarDfs(g)
      PROVE  SidecarInv'
  BY <1>2 DEF SidecarDfs, SidecarInv, Descends
<1>3. CASE SidecarEnd
  BY <1>1, <1>3 DEF SidecarEnd, SidecarInv
<1>4. ASSUME prog' = prog, leftover' = leftover,
             place' \in {"sidecar", "halted"} \/ place \notin {"sidecar", "halted"}
      PROVE  SidecarInv'
  BY <1>1, <1>4 DEF SidecarInv
<1>5. CASE SidecarAssert \/ InflectRound \/ InflectEnd \/ CheckReturn \/ WriteResults
  BY <1>4, <1>5 DEF SidecarAssert, InflectRound, InflectEnd, CheckReturn, WriteResults
<1>6. ASSUME NEW g \in Fn, CheckStart(g) \/ CheckUnsafe(g) \/ CheckCaller(g)
      PROVE  SidecarInv'
  BY <1>4, <1>6 DEF CheckStart, CheckUnsafe, CheckCaller
<1>7. CASE UNCHANGED vars
  BY <1>4, <1>7 DEF vars
<1> QED
  BY <1>2, <1>3, <1>5, <1>6, <1>7 DEF Next, Analyze

\* Whatever the sidecars and what was inlined into them on however many levels:
\* a sidecar's file is written with everything that its functions need and the
\* kernel does not have.
THEOREM SidecarsCompile == Spec => []SidecarsComplete
<1>1. Init => SidecarInv
  BY DEF Init, SidecarInv
<1>2. SidecarInv /\ [Next]_vars => SidecarInv'
  BY SidecarStep
<1>3. SidecarInv /\ AnalysisInv => SidecarsComplete
  <2> SUFFICES ASSUME SidecarInv, prog \in Program, place = "done"
               PROVE  /\ \A f \in leftover, g \in SdcrOut :
                           <<f, g>> \in prog.edges /\ prog.file[f] = prog.file[g] =>
                             g \in prog.in_vmlinux
                      /\ leftover \cap prog.in_vmlinux \subseteq prog.sidecar
    BY DEF AnalysisInv, SidecarsComplete
  <2>1. \A g \in SdcrOut : g \in Fn /\ g \notin leftover
    BY ProgramAssumption DEF SdcrOut
  <2> QED
    BY <2>1 DEF SidecarInv, Descends
<1> QED
  BY <1>1, <1>2, <1>3, AnalysisInvariance, PTL DEF Spec

-------------------------------------------------------------------------------
LEMMA NatLeast ==
  ASSUME NEW S, S \subseteq Nat, S # {}
  PROVE  \E m \in S : \A k \in S : m <= k
<1> DEFINE R == OpToRel(<, Nat)
<1>1. R = {p \in Nat \X Nat : p[1] < p[2]}
  BY DEF OpToRel
<1>2. IsWellFoundedOn(R, Nat)
  BY ONLY NatLessThanWellFounded, Zenon
<1> HIDE DEF R
<1>3. PICK m \in S : \A k \in S : <<k, m>> \notin R
  BY <1>2, WFMin
<1>4. \A k \in S : ~(k < m)
  BY <1>1, <1>3
<1> QED
  BY <1>4

LEMMA InductiveSet ==
  ASSUME NEW S, 0 \in S, \A k \in Nat : k \in S => k + 1 \in S
  PROVE  Nat \subseteq S
<1> SUFFICES ASSUME Nat \ S # {} PROVE FALSE
  OBVIOUS
<1>1. PICK m \in Nat \ S : \A k \in Nat \ S : m <= k
  BY NatLeast
<1>2. m - 1 \in Nat /\ m - 1 \in S
  BY <1>1
<1> QED
  BY <1>1, <1>2

\* The function that iterates st from x exists.
LEMMA Iterates ==
  ASSUME NEW X, NEW x \in X, NEW st \in [X -> X]
  PROVE  \E g \in [Nat -> X] : g[0] = x /\ \A k \in Nat : g[k + 1] = st[g[k]]
<1> DEFINE Chain(g, m) == g[0] = x /\ \A k \in 1 .. m : g[k] = st[g[k - 1]]
<1>1. ASSUME NEW m \in Nat PROVE \E g \in [0 .. m -> X] : Chain(g, m)
  <2> DEFINE S == {k \in Nat : \E g \in [0 .. k -> X] : Chain(g, k)}
  <2>1. 0 \in S
    <3>1. [k \in 0 .. 0 |-> x] \in [0 .. 0 -> X] /\ Chain([k \in 0 .. 0 |-> x], 0)
      OBVIOUS
    <3> QED
      BY <3>1
  <2>2. ASSUME NEW k \in Nat, k \in S PROVE k + 1 \in S
    <3>1. PICK g \in [0 .. k -> X] : Chain(g, k)
      BY <2>2
    <3> DEFINE h == [j \in 0 .. k + 1 |-> IF j = k + 1 THEN st[g[k]] ELSE g[j]]
    <3>2. h \in [0 .. k + 1 -> X]
      OBVIOUS
    <3>3. h[0] = x
      BY <3>1
    <3>4. ASSUME NEW j \in 1 .. k + 1 PROVE h[j] = st[h[j - 1]]
      <4>1. CASE j = k + 1
        <5>1. h[j] = st[g[k]] /\ h[j - 1] = g[k]
          BY <4>1
        <5> QED
          BY <5>1
      <4>2. CASE j \in 1 .. k
        <5>1. h[j] = g[j] /\ h[j - 1] = g[j - 1]
          BY <4>2
        <5> QED
          BY <3>1, <4>2, <5>1
      <4> QED
        BY <4>1, <4>2
    <3> HIDE DEF h
    <3>5. Chain(h, k + 1)
      BY <3>3, <3>4
    <3> QED
      BY <3>2, <3>5
  <2> HIDE DEF S
  <2>3. Nat \subseteq S
    BY <2>1, <2>2, InductiveSet
  <2> QED
    BY <2>3 DEF S
<1>2. ASSUME NEW j \in Nat
      PROVE  \A m1, m2 \in Nat : \A g, h :
               j <= m1 /\ j <= m2 /\ Chain(g, m1) /\ Chain(h, m2) => g[j] = h[j]
  <2> DEFINE Agree(k) ==
               \A m1, m2 \in Nat : \A g, h :
                 k <= m1 /\ k <= m2 /\ Chain(g, m1) /\ Chain(h, m2) => g[k] = h[k]
             S == {k \in Nat : Agree(k)}
  <2>1. 0 \in S
    OBVIOUS
  <2>2. ASSUME NEW k \in Nat, k \in S PROVE k + 1 \in S
    <3>1. Agree(k)
      BY <2>2
    <3>2. Agree(k + 1)
      <4> HIDE DEF Chain
      <4> SUFFICES ASSUME NEW m1 \in Nat, NEW m2 \in Nat, NEW g, NEW h,
                          k + 1 <= m1, k + 1 <= m2, Chain(g, m1), Chain(h, m2)
                   PROVE  g[k + 1] = h[k + 1]
        OBVIOUS
      <4>1. k <= m1 /\ k <= m2 /\ k + 1 \in 1 .. m1 /\ k + 1 \in 1 .. m2
        OBVIOUS
      <4>2. g[k] = h[k]
        BY <3>1, <4>1
      <4>3. k + 1 - 1 = k
        OBVIOUS
      <4>4. g[k + 1] = st[g[k]] /\ h[k + 1] = st[h[k]]
        BY <4>1, <4>3 DEF Chain
      <4> QED
        BY <4>2, <4>4
    <3> HIDE DEF Agree
    <3> QED
      BY <3>2
  <2> HIDE DEF S
  <2>3. Nat \subseteq S
    BY <2>1, <2>2, InductiveSet
  <2>4. j \in S
    BY <2>3
  <2> QED
    BY <2>4 DEF S
<1> DEFINE c(m) == CHOOSE g \in [0 .. m -> X] : Chain(g, m)
           F == [m \in Nat |-> c(m)[m]]
<1>3. ASSUME NEW m \in Nat PROVE c(m) \in [0 .. m -> X] /\ Chain(c(m), m)
  BY <1>1
<1> HIDE DEF c
<1>4. F \in [Nat -> X]
  <2>1. ASSUME NEW m \in Nat PROVE c(m)[m] \in X
    <3>1. m \in 0 .. m
      OBVIOUS
    <3> QED
      BY <1>3, <3>1
  <2> QED
    BY <2>1
<1>5. F[0] = x
  BY <1>3
<1>6. ASSUME NEW m \in Nat, m # 0 PROVE F[m] = st[F[m - 1]]
  <2>1. m - 1 \in Nat /\ m \in 1 .. m /\ m - 1 <= m /\ m - 1 <= m - 1
    BY <1>6
  <2>2. c(m)[m] = st[c(m)[m - 1]]
    BY <1>3, <2>1
  <2>3. Chain(c(m), m) /\ Chain(c(m - 1), m - 1)
    BY <1>3, <2>1
  <2> HIDE DEF Chain
  <2>4. c(m)[m - 1] = c(m - 1)[m - 1]
    BY <1>2, <2>1, <2>3
  <2> QED
    BY <2>1, <2>2, <2>4
<1> HIDE DEF F
<1>7. ASSUME NEW k \in Nat PROVE F[k + 1] = st[F[k]]
  <2>1. k + 1 \in Nat /\ k + 1 # 0 /\ k + 1 - 1 = k
    OBVIOUS
  <2> QED
    BY <1>6, <2>1
<1> QED
  BY <1>4, <1>5, <1>7

-------------------------------------------------------------------------------
\* A set of functions that the check finds nothing wrong with, and that contains
\* every optimised caller it would go on to.
Sound(S) ==
  \A h \in S :
    /\ CallersInFile(h) \cap SchedOutsider = {}
    /\ \A g \in CallersInFile(h) : Optimised(g) => g \in S

\* The functions from which no outsider can be reached upwards: what a call of
\* check_redirect_mangled that returns has shown.
Safe(f) == \E S \in SUBSET Fn : f \in S /\ Sound(S)

Roots == (prog.sidecar \cup Border) \cap prog.mangled

\* What the call in frame i has found out of the callers it is through with.
Through(i) ==
  /\ frames[i].todo \subseteq CallersInFile(frames[i].fn)
  /\ \A g \in CallersInFile(frames[i].fn) \ frames[i].todo :
       /\ g \notin SchedOutsider
       /\ Optimised(g) => Safe(g) \/ (i < Len(frames) /\ frames[i + 1].fn = g)

CheckInv ==
  /\ place \in {"sidecar", "inflect", "check"} =>
       frames \in Seq([fn : Fn, todo : SUBSET Fn])
  /\ place \in {"sidecar", "inflect"} => frames = <<>>
  /\ place = "check" =>
       /\ symbols \subseteq Roots
       /\ \A i \in 1 .. Len(frames) : Through(i)
       /\ \A f \in Roots \ symbols :
            Safe(f) \/ (frames # <<>> /\ frames[1].fn = f)
  /\ place = "done" => \A f \in Roots : Safe(f)

\* A function all of whose callers have been cleared is safe itself.
LEMMA ClearedIsSafe ==
  ASSUME NEW f \in Fn,
         \A g \in CallersInFile(f) : g \notin SchedOutsider /\ (Optimised(g) => Safe(g))
  PROVE  Safe(f)
<1> DEFINE S == {f} \cup UNION {T \in SUBSET Fn : Sound(T)}
<1>1. S \in SUBSET Fn /\ f \in S
  OBVIOUS
<1>2. ASSUME NEW h \in S, h # f
      PROVE  /\ CallersInFile(h) \cap SchedOutsider = {}
             /\ \A g \in CallersInFile(h) : Optimised(g) => g \in S
  <2>1. PICK T \in SUBSET Fn : Sound(T) /\ h \in T
    BY <1>2
  <2> QED
    BY <2>1 DEF Sound
<1>3. /\ CallersInFile(f) \cap SchedOutsider = {}
      /\ \A g \in CallersInFile(f) : Optimised(g) => g \in S
  BY DEF Safe
<1>4. Sound(S)
  BY <1>2, <1>3 DEF Sound
<1> QED
  BY <1>1, <1>4 DEF Safe

\* What a safe function cannot be reached from upwards, no iteration finds.
LEMMA SafeReaches ==
  ASSUME NEW f \in Fn, Safe(f), prog \in Program
  PROVE  \A h \in ReachesClone(f) : CallersInFile(h) \cap SchedOutsider = {}
<1> DEFINE opt == prog.mangled \cup (Fn \ prog.in_vmlinux)
           step(S) == S \cup {g \in opt : \E h \in S : g \in CallersInFile(h)}
           iter[n \in Nat] == IF n = 0 THEN {f} ELSE step(iter[n - 1])
           st == [S \in SUBSET Fn |-> step(S)]
<1>1. PICK T \in SUBSET Fn : f \in T /\ Sound(T)
  BY DEF Safe
<1>2. opt \subseteq Fn
  BY ProgramAssumption
<1>3. \A g \in opt : Optimised(g)
  BY <1>2 DEF Optimised
<1>4. st \in [SUBSET Fn -> SUBSET Fn] /\ {f} \in SUBSET Fn
  BY <1>2
<1>5. \A S \in SUBSET T : step(S) \in SUBSET T
  BY <1>1, <1>3 DEF Sound
<1>6. \A S \in SUBSET Fn : st[S] = step(S)
  OBVIOUS
<1> HIDE DEF st, step
<1>7. PICK G \in [Nat -> SUBSET Fn] : G[0] = {f} /\ \A n \in Nat : G[n + 1] = st[G[n]]
  <2> DEFINE X == SUBSET Fn
             x == {f}
  <2>1. st \in [X -> X] /\ x \in X
    BY <1>4
  <2> HIDE DEF X, x
  <2>2. \E G \in [Nat -> X] : G[0] = x /\ \A k \in Nat : G[k + 1] = st[G[k]]
    BY <2>1, Iterates
  <2> QED
    BY <2>2 DEF X, x
<1>8. G = [n \in Nat |-> IF n = 0 THEN {f} ELSE step(G[n - 1])]
  <2>1. ASSUME NEW n \in Nat PROVE G[n] = IF n = 0 THEN {f} ELSE step(G[n - 1])
    <3>1. CASE n = 0
      BY <1>7, <3>1
    <3>2. CASE n # 0
      <4>1. n - 1 \in Nat /\ n - 1 + 1 = n
        BY <3>2
      <4>2. G[n - 1] \in SUBSET Fn /\ G[n - 1 + 1] = st[G[n - 1]]
        BY <1>7, <4>1
      <4> QED
        BY <1>6, <3>2, <4>1, <4>2
    <3> QED
      BY <3>1, <3>2
  <2> QED
    BY <2>1
<1>9. iter = [n \in Nat |-> IF n = 0 THEN {f} ELSE step(iter[n - 1])]
  BY <1>8
<1> HIDE DEF iter
<1>10. \A n \in Nat : iter[n] \subseteq T
  <2> DEFINE N == {n \in Nat : iter[n] \subseteq T}
  <2>1. 0 \in N
    BY <1>1, <1>9
  <2>2. ASSUME NEW n \in Nat, n \in N PROVE n + 1 \in N
    <3>1. n + 1 \in Nat /\ n + 1 # 0 /\ n + 1 - 1 = n
      OBVIOUS
    <3>2. iter[n + 1] = step(iter[n])
      BY <1>9, <3>1
    <3> QED
      BY <1>5, <2>2, <3>2
  <2> HIDE DEF N
  <2>3. Nat \subseteq N
    BY <2>1, <2>2, InductiveSet
  <2> QED
    BY <2>3 DEF N
<1>11. Cardinality(Fn) \in Nat
  BY ProgramAssumption, FS_CardinalityType
<1>12. ReachesClone(f) = iter[Cardinality(Fn)]
  BY DEF ReachesClone, iter, step
<1> QED
  BY <1>1, <1>10, <1>11, <1>12 DEF Sound

-------------------------------------------------------------------------------
FrameType == [fn : Fn, todo : SUBSET Fn]

\* What the check relies on does not change while it runs.
LEMMA CheckDefs ==
  ASSUME prog' = prog, insiders' = insiders
  PROVE  /\ SchedOutsider' = SchedOutsider /\ Roots' = Roots
         /\ \A f : CallersInFile(f)' = CallersInFile(f)
         /\ \A f : Optimised(f)' <=> Optimised(f)
         /\ \A f : Safe(f)' <=> Safe(f)
<1>1. Border' = Border /\ Insider' = Insider /\ CbOpt' = CbOpt
  BY ProgramDefs, AnalysisDefs DEF CbOpt
<1>2. SchedOutsider' = SchedOutsider /\ Roots' = Roots
  BY <1>1 DEF SchedOutsider, Roots
<1>3. /\ \A f : CallersInFile(f)' = CallersInFile(f)
      /\ \A f : Optimised(f)' <=> Optimised(f)
  BY DEF CallersInFile, Optimised
<1>4. \A S : Sound(S)' <=> Sound(S)
  BY <1>2, <1>3 DEF Sound
<1> QED
  BY <1>2, <1>3, <1>4 DEF Safe

\* What is left of a sequence without its last element.
LEMMA FrontOfSeq ==
  ASSUME NEW T, NEW q \in Seq(T), NEW m \in Nat, m + 1 = Len(q)
  PROVE  /\ SubSeq(q, 1, m) \in Seq(T) /\ Len(SubSeq(q, 1, m)) = m
         /\ \A i \in 1 .. m : SubSeq(q, 1, m)[i] = q[i]
<1>1. \A i \in 1 .. m : q[i] \in T
  BY ElementOfSeq
<1>2. /\ SubSeq(q, 1, m) \in Seq(T)
      /\ Len(SubSeq(q, 1, m)) = IF 1 <= m THEN m - 1 + 1 ELSE 0
      /\ \A i \in 1 .. m - 1 + 1 : SubSeq(q, 1, m)[i] = q[1 + i - 1]
  BY <1>1, SubSeqProperties
<1> DEFINE h == SubSeq(q, 1, m)
<1> HIDE DEF h
<1>3. Len(h) = m /\ \A i \in 1 .. m : h[i] = q[i]
  BY <1>2 DEF h
<1> QED
  BY <1>2, <1>3 DEF h

LEMMA TopFrame ==
  ASSUME frames \in Seq(FrameType), frames # <<>>
  PROVE  /\ Len(frames) \in Nat \ {0} /\ Len(frames) \in 1 .. Len(frames)
         /\ Top = frames[Len(frames)] /\ Top.fn \in Fn
         /\ \A i \in 1 .. Len(frames) : frames[i] \in FrameType /\ frames[i].fn \in Fn
<1>1. Len(frames) \in Nat \ {0} /\ \A i \in 1 .. Len(frames) : frames[i] \in FrameType
  OBVIOUS
<1> QED
  BY <1>1 DEF Top, FrameType

LEMMA ExaminedFrames ==
  ASSUME frames \in Seq(FrameType), frames # <<>>, NEW g
  PROVE  /\ Examined(g) \in Seq(FrameType) /\ Len(Examined(g)) = Len(frames)
         /\ \A i \in 1 .. Len(frames) : Examined(g)[i].fn = frames[i].fn
         /\ \A i \in 1 .. Len(frames) - 1 : Examined(g)[i] = frames[i]
         /\ Examined(g)[Len(frames)].todo = Top.todo \ {g}
<1>1. Len(frames) \in Nat \ {0} /\ Len(frames) \in 1 .. Len(frames)
      /\ \A i \in 1 .. Len(frames) : frames[i] \in FrameType
  BY TopFrame
<1> DEFINE k == Len(frames)
           F == Examined(g)
<1>2. F = [frames EXCEPT ![k] = [frames[k] EXCEPT !.todo = @ \ {g}]]
  BY DEF Examined
<1>3. [frames[k] EXCEPT !.todo = @ \ {g}] \in FrameType
  BY <1>1 DEF FrameType
<1>4. F \in Seq(FrameType) /\ Len(F) = k
  BY <1>1, <1>2, <1>3
<1>5. \A i \in 1 .. k - 1 : F[i] = frames[i]
  BY <1>1, <1>2
<1>6. F[k].fn = frames[k].fn /\ F[k].todo = frames[k].todo \ {g}
  BY <1>1, <1>2 DEF FrameType
<1>7. \A i \in 1 .. k : i \in 1 .. k - 1 \/ i = k
  BY <1>1
<1> QED
  BY <1>4, <1>5, <1>6, <1>7 DEF Top

\* A frame is through with what it was through with before, and with g.
LEMMA StillThrough ==
  ASSUME prog' = prog, insiders' = insiders, NEW i \in Nat, Through(i),
         frames'[i].fn = frames[i].fn, frames'[i].todo = frames[i].todo,
         i < Len(frames) => i < Len(frames') /\ frames'[i + 1].fn = frames[i + 1].fn
  PROVE  Through(i)'
BY CheckDefs DEF Through

LEMMA CheckStep ==
  ASSUME AnalysisInv, CheckInv, [Next]_vars
  PROVE  CheckInv'
<1>1. prog' = prog
  BY ProgramFixed DEF Next, vars
<1>2. ASSUME place = "check", insiders' = insiders, place' = "check",
             frames' = frames, symbols' = symbols
      PROVE  CheckInv'
  BY <1>1, <1>2, CheckDefs DEF CheckInv, Through
<1>3. CASE SidecarAssert \/ SidecarEnd \/ InflectRound \/ \E g \in Fn : SidecarDfs(g)
  BY <1>3 DEF SidecarAssert, SidecarEnd, InflectRound, SidecarDfs, CheckInv
<1>4. CASE InflectEnd
  <2>1. /\ place' = "check" /\ frames' = <<>> /\ symbols' = Roots /\ insiders' = insiders
    BY <1>4 DEF InflectEnd, CheckInv, Roots
  <2> QED
    BY <1>1, <2>1, CheckDefs DEF CheckInv
<1>5. ASSUME NEW f \in Fn, CheckStart(f)
      PROVE  CheckInv'
  <2>1. /\ place = "check" /\ place' = "check" /\ f \in symbols /\ insiders' = insiders
        /\ symbols' = symbols \ {f} /\ frames = <<>> /\ frames' = <<Frame(f)>>
    BY <1>5 DEF CheckStart
  <2>2. Frame(f) \in FrameType /\ Frame(f).fn = f /\ Frame(f).todo = CallersInFile(f)
    BY DEF Frame, FrameType, CallersInFile
  <2>3. Through(1)'
    BY <1>1, <2>1, <2>2, CheckDefs DEF Through
  <2>4. \A h \in Roots \ symbols' : Safe(h) \/ h = f
    BY <2>1 DEF CheckInv
  <2>5. frames' \in Seq(FrameType) /\ frames' # <<>> /\ Len(frames') = 1
        /\ frames'[1].fn = f
    BY <2>1, <2>2
  <2>6. symbols' \subseteq Roots'
    BY <1>1, <2>1, CheckDefs DEF CheckInv
  <2>7. \A h \in Roots' \ symbols' : Safe(h)' \/ (frames' # <<>> /\ frames'[1].fn = h)
    BY <1>1, <2>1, <2>4, <2>5, CheckDefs
  <2>8. \A i \in 1 .. Len(frames') : Through(i)'
    BY <2>3, <2>5
  <2> QED
    BY <2>1, <2>5, <2>6, <2>7, <2>8 DEF CheckInv, FrameType
<1>6. ASSUME NEW g \in Fn, CheckUnsafe(g)
      PROVE  CheckInv'
  BY <1>6 DEF CheckUnsafe, CheckInv
<1>7. ASSUME NEW g \in Fn, CheckCaller(g)
      PROVE  CheckInv'
  <2>1. /\ place = "check" /\ frames # <<>> /\ g \in Top.todo /\ g \notin SchedOutsider
        /\ insiders' = insiders /\ symbols' = symbols
    BY <1>7 DEF CheckCaller
  <2>2. frames \in Seq(FrameType) /\ \A i \in 1 .. Len(frames) : Through(i)
    BY <2>1 DEF CheckInv, FrameType
  <2>10. PICK k \in Nat : k = Len(frames)
    BY <2>2
  <2>3. /\ k \in Nat \ {0} /\ k \in 1 .. k /\ Top = frames[k]
        /\ Examined(g) \in Seq(FrameType) /\ Len(Examined(g)) = k
        /\ \A i \in 1 .. k : Examined(g)[i].fn = frames[i].fn
        /\ \A i \in 1 .. k - 1 : Examined(g)[i] = frames[i]
        /\ Examined(g)[k].todo = Top.todo \ {g}
    BY <2>1, <2>2, <2>10, TopFrame, ExaminedFrames
  <2>4. ASSUME frames' \in Seq(FrameType), place' = "check", Len(frames') \in {k, k + 1},
               \A i \in 1 .. k : frames'[i].fn = frames[i].fn,
               \A i \in 1 .. k - 1 : frames'[i] = frames[i],
               frames'[k].todo = Top.todo \ {g},
               Len(frames') = k => ~Optimised(g),
               Len(frames') = k + 1 => frames'[k + 1] = Frame(g)
        PROVE  CheckInv'
    <3>1. ASSUME NEW i \in 1 .. k - 1 PROVE Through(i)'
      <4>1. i \in 1 .. k /\ i + 1 \in 1 .. k /\ i \in Nat /\ i < Len(frames')
        BY <2>3, <2>4
      <4> QED
        BY <1>1, <2>1, <2>2, <2>4, <2>10, <4>1, StillThrough
    <3>2. Through(k)'
      <4>1. /\ Top.todo \subseteq CallersInFile(Top.fn)
            /\ \A h \in CallersInFile(Top.fn) \ Top.todo :
                 h \notin SchedOutsider /\ (Optimised(h) => Safe(h))
        BY <2>2, <2>3, <2>10 DEF Through
      <4>2. ASSUME NEW h \in CallersInFile(Top.fn) \ (Top.todo \ {g})
            PROVE  /\ h \notin SchedOutsider
                   /\ Optimised(h) =>
                        Safe(h) \/ (k < Len(frames') /\ frames'[k + 1].fn = h)
        <5>1. CASE h # g
          BY <4>1, <4>2, <5>1
        <5>2. CASE h = g
          <6>1. Optimised(g) => k < Len(frames') /\ frames'[k + 1].fn = g
            BY <2>3, <2>4 DEF Frame
          <6> QED
            BY <2>1, <5>2, <6>1
        <5> QED
          BY <5>1, <5>2
      <4>3. frames'[k].fn = Top.fn
        BY <2>3, <2>4
      <4>4. /\ frames'[k].todo \subseteq CallersInFile(frames'[k].fn)
            /\ \A h \in CallersInFile(frames'[k].fn) \ frames'[k].todo :
                 /\ h \notin SchedOutsider
                 /\ Optimised(h) =>
                      Safe(h) \/ (k < Len(frames') /\ frames'[k + 1].fn = h)
        BY <2>4, <4>1, <4>2, <4>3
      <4> QED
        BY <1>1, <2>1, <4>4, CheckDefs DEF Through
    <3>3. Len(frames') = k + 1 => Through(k + 1)'
      <4> SUFFICES ASSUME Len(frames') = k + 1 PROVE Through(k + 1)'
        OBVIOUS
      <4>1. frames'[k + 1].todo = CallersInFile(frames'[k + 1].fn)
        BY <2>4 DEF Frame
      <4> QED
        BY <1>1, <2>1, <4>1, CheckDefs DEF Through
    <3>4. \A i \in 1 .. Len(frames') : Through(i)'
      <4>1. \A i \in 1 .. Len(frames') :
              i \in 1 .. k - 1 \/ i = k \/ (i = k + 1 /\ Len(frames') = k + 1)
        BY <2>3, <2>4
      <4> QED
        BY <3>1, <3>2, <3>3, <4>1
    <3>5. frames' # <<>> /\ frames'[1].fn = frames[1].fn
      BY <2>3, <2>4
    <3>6. \A f \in Roots' \ symbols' : Safe(f)' \/ frames'[1].fn = f
      <4>1. \A f \in Roots \ symbols : Safe(f) \/ frames[1].fn = f
        BY <2>1 DEF CheckInv
      <4> QED
        BY <1>1, <2>1, <3>5, <4>1, CheckDefs
    <3>7. symbols' \subseteq Roots'
      BY <1>1, <2>1, CheckDefs DEF CheckInv
    <3> QED
      BY <2>4, <3>4, <3>5, <3>6, <3>7 DEF CheckInv, FrameType
  <2>5. CASE ~Optimised(g)
    <3>1. frames' = Examined(g) /\ place' = place
      BY <1>7, <2>5 DEF CheckCaller
    <3> QED
      BY <2>1, <2>3, <2>4, <2>5, <3>1
  <2>6. CASE Optimised(g) /\ Len(frames) < RecursionLimit
    <3>1. frames' = Append(Examined(g), Frame(g)) /\ place' = place
      BY <1>7, <2>6 DEF CheckCaller
    <3>2. Frame(g) \in FrameType
      BY DEF Frame, FrameType, CallersInFile
    <3>3. /\ frames' \in Seq(FrameType) /\ Len(frames') = k + 1
          /\ \A i \in 1 .. k : frames'[i] = Examined(g)[i]
          /\ frames'[k + 1] = Frame(g)
      BY <2>3, <3>1, <3>2
    <3> QED
      BY <2>1, <2>3, <2>4, <3>1, <3>3
  <2>7. CASE Optimised(g) /\ ~(Len(frames) < RecursionLimit)
    <3>1. place' = "recursion_error"
      BY <1>7, <2>7 DEF CheckCaller
    <3> QED
      BY <3>1 DEF CheckInv
  <2> QED
    BY <2>5, <2>6, <2>7
<1>8. CASE CheckReturn
  <2>1. /\ place = "check" /\ place' = "check" /\ frames # <<>> /\ Top.todo = {}
        /\ frames' = SubSeq(frames, 1, Len(frames) - 1)
        /\ insiders' = insiders /\ symbols' = symbols
    BY <1>8 DEF CheckReturn
  <2>2. frames \in Seq(FrameType) /\ \A i \in 1 .. Len(frames) : Through(i)
    BY <2>1 DEF CheckInv, FrameType
  <2>3. PICK k \in Nat : k + 1 = Len(frames)
    <3>1. Len(frames) \in Nat \ {0}
      BY <2>1, <2>2, TopFrame
    <3>2. Len(frames) - 1 \in Nat /\ Len(frames) - 1 + 1 = Len(frames)
      BY <3>1
    <3> QED
      BY <3>2
  <2>4. Top = frames[k + 1] /\ Top.fn \in Fn
    BY <2>1, <2>2, <2>3, TopFrame
  <2>5. /\ frames' \in Seq(FrameType) /\ Len(frames') = k
        /\ \A i \in 1 .. k : frames'[i] = frames[i]
    <3>1. frames' = SubSeq(frames, 1, k)
      BY <2>1, <2>3
    <3>2. \A i \in 1 .. k : frames[i] \in FrameType
      BY <2>2, <2>3
    <3> QED
      BY <2>2, <2>3, <3>1, <3>2, FrontOfSeq
  \* The call that returns has cleared its function.
  <2>6. Safe(Top.fn)
    <3>1. \A g \in CallersInFile(Top.fn) : g \notin SchedOutsider /\ (Optimised(g) => Safe(g))
      <4>1. Through(k + 1) /\ ~(k + 1 < Len(frames))
        BY <2>2, <2>3
      <4> QED
        BY <2>1, <2>4, <4>1 DEF Through
    <3> QED
      BY <2>4, <3>1, ClearedIsSafe
  <2>7. ASSUME NEW i \in 1 .. k PROVE Through(i)'
    <3>1. Through(i) /\ i < Len(frames) /\ frames'[i] = frames[i]
      BY <2>2, <2>3, <2>5
    <3>2. \A g \in CallersInFile(frames[i].fn) \ frames[i].todo :
            /\ g \notin SchedOutsider
            /\ Optimised(g) => Safe(g) \/ (i < k /\ frames'[i + 1].fn = g)
      <4> SUFFICES ASSUME NEW g \in CallersInFile(frames[i].fn) \ frames[i].todo,
                          Optimised(g), ~Safe(g)
                   PROVE  i < k /\ frames'[i + 1].fn = g
        BY <3>1 DEF Through
      <4>1. frames[i + 1].fn = g
        BY <3>1 DEF Through
      <4>2. i # k
        BY <2>4, <2>6, <4>1
      <4>3. i < k /\ i + 1 \in 1 .. k
        BY <4>2
      <4> QED
        BY <2>5, <4>1, <4>3
    <3> QED
      BY <1>1, <2>1, <2>5, <3>1, <3>2, CheckDefs DEF Through
  <2>8. \A f \in Roots' \ symbols' : Safe(f)' \/ (frames' # <<>> /\ frames'[1].fn = f)
    <3>1. \A f \in Roots \ symbols : Safe(f) \/ frames[1].fn = f
      BY <2>1 DEF CheckInv
    <3>2. CASE k = 0
      <4>1. \A f \in Roots \ symbols : Safe(f)
        BY <2>4, <2>6, <3>1, <3>2
      <4> QED
        BY <1>1, <2>1, <4>1, CheckDefs
    <3>3. CASE k # 0
      <4>1. frames' # <<>> /\ frames'[1].fn = frames[1].fn
        BY <2>5, <3>3
      <4> QED
        BY <1>1, <2>1, <3>1, <4>1, CheckDefs
    <3> QED
      BY <3>2, <3>3
  <2>9. symbols' \subseteq Roots'
    BY <1>1, <2>1, CheckDefs DEF CheckInv
  <2> QED
    BY <2>1, <2>5, <2>7, <2>8, <2>9 DEF CheckInv, FrameType
<1>9. CASE WriteResults
  <2>1. place = "check" /\ frames = <<>> /\ symbols = {} /\ place' = "done"
        /\ insiders' = insiders
    BY <1>9 DEF WriteResults
  <2>2. \A f \in Roots : Safe(f)
    BY <2>1 DEF CheckInv
  <2> QED
    BY <1>1, <2>1, <2>2, CheckDefs DEF CheckInv
<1>10. CASE UNCHANGED vars
  BY <1>10, CheckDefs DEF vars, CheckInv, Through
<1> QED
  BY <1>3, <1>4, <1>5, <1>6, <1>7, <1>8, <1>9, <1>10 DEF Next, Analyze

\* For any program and any depth of recursion: if the analyzer writes its results,
\* no outsider calls a redirected function that has clones, neither directly nor
\* through a chain of functions that were optimised into each other.  The check has
\* no memory of what it has seen, and recursive calls only make it fail.
THEOREM ClonesChecked == Spec => []ClonesSafe
<1>1. Init => CheckInv
  BY DEF Init, CheckInv
<1>2. AnalysisInv /\ CheckInv /\ [Next]_vars => CheckInv'
  BY CheckStep
<1>3. AnalysisInv /\ CheckInv => ClonesSafe
  <2> SUFFICES ASSUME AnalysisInv, CheckInv, place = "done", NEW f \in Roots
               PROVE  \A h \in ReachesClone(f) : CallersInFile(h) \cap SchedOutsider = {}
    BY DEF ClonesSafe, Roots
  <2>1. prog \in Program /\ Safe(f)
    BY DEF AnalysisInv, CheckInv
  <2>2. f \in Fn
    BY <2>1, ProgramAssumption DEF Roots
  <2> QED
    BY <2>1, <2>2, SafeReaches
<1> QED
  BY <1>1, <1>2, <1>3, AnalysisInvariance, PTL DEF Spec

-------------------------------------------------------------------------------
\* The frames of the thread: below an insider there is a redirected function;
\* a thread is only switched out in its one frame of __schedule.
Covered ==
  \A i \in 1 .. Len(stack) :
    stack[i] \in Insider =>
      \E j \in 1 .. i - 1 : stack[j] \in Border \cup prog.sidecar

CoverInv ==
  /\ AnalysisInv
  /\ stack \in Seq(Linked)
  /\ Len(stack) <= MaxDepth
  /\ stack # <<>> => place = "done"
  /\ Covered
  /\ asleep => /\ stack # <<>> /\ stack[Len(stack)] = Schedule
               /\ \A i \in 1 .. Len(stack) - 1 : stack[i] # Schedule

\* Who may call an insider.
LEMMA CallerOfInsider ==
  ASSUME CoverInv, NEW g \in Insider, stack # <<>>,
         Call(g) \/ CallPointer(g) \/ CallClass(g)
  PROVE  Innermost \in Insider \cup Border \cup prog.sidecar
<1>1. place = "done" /\ AnalysisInv
  BY DEF CoverInv
<1>2. Innermost \in Linked
  BY DEF CoverInv, Innermost
<1>3. CASE Call(g)
  <2>1. <<Innermost, g>> \in prog.edges /\ g \in Fn
    BY <1>3 DEF Call, Push, Linked
  <2>2. Innermost \in Insider \cup InflectCut \cup prog.fake_global
    BY <1>1, <1>2, <2>1, ClosedKeepsOut DEF OutsidersKeptOut, Linked
  <2> QED
    BY <1>2, <2>2 DEF Linked, InflectCut
<1>4. CASE CallPointer(g)
  <2>1. g \in prog.callback \cap prog.in_vmlinux \/ g \notin prog.mod_fns
    BY <1>4 DEF CallPointer
  <2>2. g \in prog.mod_fns /\ g \notin Border
    BY <1>1 DEF Insider, AnalysisInv, InitialInsider
  <2> QED
    BY <2>1, <2>2 DEF Border, Callback, CbOpt
<1>5. CASE CallClass(g)
  BY <1>5 DEF CallClass
<1> QED
  BY <1>3, <1>4, <1>5

\* The definitions over the analysed program do not change while it runs.
LEMMA AnalysisFixed ==
  ASSUME UNCHANGED vars
  PROVE  /\ Insider' = Insider /\ Border' = Border /\ Linked' = Linked
         /\ prog' = prog /\ place' = place
         /\ AnalysisInv => AnalysisInv'
BY ProgramDefs, AnalysisDefs DEF vars, AnalysisInv

LEMMA PushCovers ==
  ASSUME CoverInv, NEW g \in Fn, Push(g),
         g \in Insider => stack # <<>> /\
                          Innermost \in Insider \cup Border \cup prog.sidecar
  PROVE  CoverInv'
<1> USE DEF Push
<1>1. stack \in Seq(Linked) /\ g \in Linked /\ stack' = Append(stack, g)
  BY DEF CoverInv
<1>2. /\ Len(stack') = Len(stack) + 1
      /\ \A i \in 1 .. Len(stack) : stack'[i] = stack[i]
      /\ stack'[Len(stack) + 1] = g
      /\ stack' \in Seq(Linked) /\ Len(stack) \in Nat
  BY <1>1
<1>3. Covered'
  <2> SUFFICES ASSUME NEW i \in 1 .. Len(stack) + 1, stack'[i] \in Insider
               PROVE  \E j \in 1 .. i - 1 : stack'[j] \in Border \cup prog.sidecar
    BY <1>2, AnalysisFixed DEF Covered
  <2>1. CASE i \in 1 .. Len(stack)
    <3>1. PICK j \in 1 .. i - 1 : stack[j] \in Border \cup prog.sidecar
      BY <1>2, <2>1 DEF CoverInv, Covered
    <3>2. stack'[j] = stack[j]
      BY <1>2, <2>1
    <3> QED
      BY <3>1, <3>2
  <2>2. CASE i = Len(stack) + 1
    <3>1. stack # <<>> /\ Innermost \in Insider \cup Border \cup prog.sidecar
      BY <1>2, <2>2
    <3>2. Len(stack) \in 1 .. i - 1 /\ stack'[Len(stack)] = Innermost
      BY <1>1, <1>2, <2>2, <3>1 DEF Innermost
    <3>3. CASE Innermost \in Border \cup prog.sidecar
      BY <3>2, <3>3
    <3>4. CASE Innermost \in Insider
      <4>1. PICK j \in 1 .. Len(stack) - 1 : stack[j] \in Border \cup prog.sidecar
        BY <1>2, <2>2, <3>2, <3>4 DEF CoverInv, Covered, Innermost
      <4>2. j \in 1 .. i - 1 /\ stack'[j] = stack[j]
        BY <1>2, <2>2
      <4> QED
        BY <4>1, <4>2
    <3> QED
      BY <3>1, <3>3, <3>4
  <2> QED
    BY <1>2, <2>1, <2>2
<1>4. stack' \in Seq(Linked')  /\ AnalysisInv' /\ place' = "done" /\ ~asleep'
  BY <1>2, AnalysisFixed DEF CoverInv
<1>5. Len(stack') <= MaxDepth
  BY <1>2, DepthAssumption
<1> QED
  BY <1>3, <1>4, <1>5 DEF CoverInv

LEMMA ReturnCovers ==
  ASSUME CoverInv, Return
  PROVE  CoverInv'
<1>1. stack \in Seq(Linked) /\ stack # <<>> /\ stack' = SubSeq(stack, 1, Len(stack) - 1)
  BY DEF CoverInv, Return
<1>2. /\ Len(stack) \in Nat /\ Len(stack') = Len(stack) - 1
      /\ \A i \in 1 .. Len(stack) - 1 : stack'[i] = stack[i]
      /\ stack' \in Seq(Linked)
  <2>1. Len(stack) \in Nat /\ Len(stack) # 0
    BY <1>1
  <2>2. PICK m \in Int : m = Len(stack) - 1 /\ m \in Nat
    BY <2>1
  <2>3. \A i \in 1 .. m : stack[i] \in Linked
    BY <1>1, <2>1, <2>2
  <2>4. /\ SubSeq(stack, 1, m) \in Seq(Linked)
        /\ Len(SubSeq(stack, 1, m)) = IF 1 <= m THEN m - 1 + 1 ELSE 0
        /\ \A i \in 1 .. m - 1 + 1 : SubSeq(stack, 1, m)[i] = stack[1 + i - 1]
    <3>1. 1 \in Int
      OBVIOUS
    <3> QED
      BY <2>2, <2>3, <3>1, SubSeqProperties
  <2>5. stack' = SubSeq(stack, 1, m)
    BY <1>1, <2>2
  <2>6. Len(stack') = m
    <3> DEFINE length == Len(SubSeq(stack, 1, m))
    <3>1. length = IF 1 <= m THEN m - 1 + 1 ELSE 0
      BY <2>4, Zenon
    <3> HIDE DEF length
    <3>2. length = m
      BY <2>2, <3>1
    <3> QED
      BY <2>5, <3>2, Zenon DEF length
  <2>7. ASSUME NEW i \in 1 .. m PROVE stack'[i] = stack[i]
    BY <2>2, <2>4, <2>5
  <2> QED
    BY <2>1, <2>2, <2>4, <2>5, <2>6, <2>7
<1>3. Covered'
  <2> SUFFICES ASSUME NEW i \in 1 .. Len(stack) - 1, stack'[i] \in Insider
               PROVE  \E j \in 1 .. i - 1 : stack'[j] \in Border \cup prog.sidecar
    BY <1>2, AnalysisFixed DEF Covered, Return
  <2>1. i \in 1 .. Len(stack) /\ stack[i] \in Insider
    BY <1>2
  <2>2. PICK j \in 1 .. i - 1 : stack[j] \in Border \cup prog.sidecar
    BY <2>1 DEF CoverInv, Covered
  <2>3. stack'[j] = stack[j]
    BY <1>2
  <2> QED
    BY <2>2, <2>3
<1>4. AnalysisInv' /\ Linked' = Linked /\ place' = "done" /\ ~asleep'
  BY AnalysisFixed DEF CoverInv, Return
<1> QED
  BY <1>2, <1>3, <1>4, DepthAssumption DEF CoverInv

\* Every step of the kernel leaves the thread's insider frames covered.
LEMMA KernelStep ==
  ASSUME CoverInv, Kernel
  PROVE  CoverInv'
<1>1. ASSUME NEW f \in Fn, Enter(f) PROVE CoverInv'
  BY <1>1, PushCovers DEF Enter
<1>2. ASSUME NEW f \in Fn, Call(f) \/ CallPointer(f) \/ CallClass(f)
      PROVE  CoverInv'
  <2>1. Push(f) /\ stack # <<>>
    BY <1>2 DEF Call, CallPointer, CallClass
  <2>2. f \in Insider => Innermost \in Insider \cup Border \cup prog.sidecar
    BY <1>2, <2>1, CallerOfInsider
  <2> QED
    BY <2>1, <2>2, PushCovers
<1>3. CASE Return
  BY <1>3, ReturnCovers
<1>4. CASE SwitchOut \/ SwitchIn
  <2>1. UNCHANGED <<vars, stack>>
    BY <1>4 DEF SwitchOut, SwitchIn
  <2>2. asleep' => /\ stack # <<>> /\ stack[Len(stack)] = Schedule
                   /\ \A i \in 1 .. Len(stack) - 1 : stack[i] # Schedule
    BY <1>4 DEF SwitchOut, SwitchIn, Innermost
  <2> QED
    BY <2>1, <2>2, AnalysisFixed DEF CoverInv, Covered
<1> QED
  BY <1>1, <1>2, <1>3, <1>4 DEF Kernel

LEMMA AnalyzeCovers ==
  ASSUME CoverInv, Analyze, UNCHANGED <<stack, asleep>>
  PROVE  CoverInv'
<1>1. place # "done"
  BY DEF Analyze, SidecarAssert, SidecarEnd, InflectRound, InflectEnd, SidecarDfs,
         CheckStart, CheckUnsafe, CheckCaller, CheckReturn, WriteResults
<1>2. stack = <<>> /\ ~asleep
  BY <1>1 DEF CoverInv
<1>3. AnalysisInv'
  BY AnalysisStep DEF CoverInv
<1> QED
  BY <1>2, <1>3, DepthAssumption DEF CoverInv, Covered

\* The stacks of the kernel stay covered by the border of the analysis.
THEOREM CoverInvariance == CoverSpec => []CoverInv
<1>1. CoverInit => CoverInv
  BY AnalysisInit, DepthAssumption DEF CoverInit, CoverInv, Covered
<1>2. CoverInv /\ [CoverNext]_coverVars => CoverInv'
  <2> SUFFICES ASSUME CoverInv, [CoverNext]_coverVars PROVE CoverInv'
    OBVIOUS
  <2>1. CASE Analyze /\ UNCHANGED <<stack, asleep>>
    BY <2>1, AnalyzeCovers
  <2>2. CASE Kernel
    BY <2>2, KernelStep
  <2>3. CASE UNCHANGED coverVars
    <3>1. UNCHANGED vars /\ UNCHANGED <<stack, asleep>>
      BY <2>3 DEF coverVars
    <3> QED
      BY <3>1, AnalysisFixed DEF CoverInv, Covered
  <2> QED
    BY <2>1, <2>2, <2>3 DEF CoverNext
<1> QED
  BY <1>1, <1>2, PTL DEF CoverSpec

\* Looking for the redirected functions is enough, for every program, every
\* configuration and every stack that is not deeper than the trace: a sleeping
\* thread that passes the check of stack_check.h is in no replaced function.
THEOREM StackCheckSound == CoverSpec => []PassingStackIsClean
<1>1. CoverInv => PassingStackIsClean
  <2> SUFFICES ASSUME CoverInv, asleep, CheckPasses, NEW i \in 1 .. Len(stack)
               PROVE  stack[i] \notin Insider \cup (Redirected \ {Schedule})
    BY DEF PassingStackIsClean
  <2>1. Len(stack) \in Nat
    BY DEF CoverInv
  <2>2. \A k \in 1 .. Len(stack) : stack[k] \notin LookedFor
    BY <2>1, DepthAssumption DEF CoverInv, CheckPasses, Traced
  <2>3. ASSUME stack[i] \in Insider PROVE FALSE
    <3>1. PICK j \in 1 .. i - 1 : stack[j] \in Border \cup prog.sidecar
      BY <2>3 DEF CoverInv, Covered
    <3>2. j \in 1 .. Len(stack) - 1
      BY <2>1
    <3>3. stack[j] # Schedule
      BY <3>2 DEF CoverInv
    <3>4. stack[j] \in LookedFor
      BY <3>1, <3>3 DEF LookedFor, Redirected, Border
    <3> QED
      BY <2>1, <2>2, <3>2, <3>4
  <2> QED
    BY <2>2, <2>3 DEF LookedFor
<1> QED
  BY <1>1, CoverInvariance, PTL
===============================================================================
