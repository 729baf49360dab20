---------------------------- MODULE SymbolsProofs ----------------------------
(***************************************************************************)
(* Proofs about names (Symbols), for any kernel that the compiler and the  *)
(* linker accept, with functions, aliases and variables of the same name.  *)
(* First the two passes over the metadata: the call graph is the one that  *)
(* is linked, and no callback is missed.  Then the scan of the symbol      *)
(* table, by an invariant that says what find_in_vmlinux has counted after *)
(* any part of it; from this follow the files the symbols are found in,    *)
(* and that the numbers written for the resolver and for hotfix tools      *)
(* stand for the function meant.                                           *)
(***************************************************************************)
EXTENDS Symbols, FiniteSetTheorems, WellFoundedInduction, TLAPS

\* What the first pass has recorded, after the units of U.
GlobalsIn(n, U) ==
  {<<Priority(d), d.file>> :
     d \in {d \in kernel : /\ d.kind = "function" /\ d.unit \in U
                           /\ d.name = n /\ d.bind # "static"}}

\* What the second pass records of unit u.
CallsOf(u) == {<<u, t>> : t \in UNION {LookupIfGlobal(s) : s \in MetaCalls(u)}}
AliasCallsOf(u) ==
  {<<NoFile, t>> : t \in UNION {LookupIfGlobal(s) : s \in MetaAliases(u)}}
EdgesOf(u) == CallsOf(u) \cup AliasCallsOf(u)
CallbacksOf(u) ==
  {c \in UNION {LookupIfGlobal(s) : s \in MetaCallbacks(u)} : c[2] \in ModFiles}

PassInv ==
  /\ kernel \in Kernel /\ unread \subseteq Unit
  /\ place = "first" => global_fns = [n \in Name |-> GlobalsIn(n, Unit \ unread)]
                        /\ edges = {} /\ callback = {}
  /\ place # "first" => global_fns = [n \in Name |-> GlobalsIn(n, Unit)]
                        /\ warned = {n \in Name : Tied(n)}
  /\ place = "second" => edges = UNION {EdgesOf(u) : u \in Unit \ unread}
                         /\ callback = UNION {CallbacksOf(u) : u \in Unit \ unread}
  /\ place \notin {"first", "second"} =>
       edges = UNION {EdgesOf(u) : u \in Unit}
       /\ callback = UNION {CallbacksOf(u) : u \in Unit}

-------------------------------------------------------------------------------
\* What the compiler and the linker have made sure of.
LEMMA KernelFacts ==
  ASSUME kernel \in Kernel
  PROVE  /\ kernel \subseteq Definition
         /\ \A d, e \in kernel : d.name = e.name /\ d # e => d.unit # e.unit
         /\ \A d \in kernel :
              /\ d.file # d.unit => d.file = Header /\ d.bind = "static"
              /\ d.kind # "function" => d.file = d.unit
              /\ d.kind = "alias" =>
                   \E t \in kernel : t.kind = "function" /\ t.name = d.of /\ t.unit = d.unit
              /\ d.export => d.bind = "strong"
         /\ \A d, e \in kernel :
              d.name = e.name /\ d # e /\ d.bind # "static" /\ e.bind # "static" =>
                /\ ~(d.bind = "strong" /\ e.bind = "strong")
                /\ d.kind = "variable" <=> e.kind = "variable"
BY KernelAssumption DEF Compiled, Linkable

LEMMA UnitPosOne ==
  /\ \A u \in Unit : UnitPos(u) \in 1 .. Len(UnitSeq) /\ UnitPos(u) \in Nat
  /\ \A u, v \in Unit : UnitPos(u) = UnitPos(v) => u = v
<1>1. \A u \in Unit : \E i \in 1 .. Len(UnitSeq) : UnitSeq[i] = u
  BY DEF Unit
<1>2. \A u \in Unit : UnitPos(u) \in 1 .. Len(UnitSeq) /\ UnitSeq[UnitPos(u)] = u
  BY <1>1 DEF UnitPos
<1>3. Len(UnitSeq) \in Nat
  BY UnitAssumption
<1> QED
  BY <1>2, <1>3

\* A unit holds at most one definition of a name.
LEMMA NamesakesApart ==
  ASSUME kernel \in Kernel
  PROVE  /\ \A d \in kernel : /\ d \in Definition /\ d.unit \in Unit /\ d.name \in Name
                              /\ d.kind \in {"function", "alias", "variable"}
                              /\ d.section \in Section
                              /\ UnitPos(d.unit) \in Nat
                              /\ d.file \in Unit \cup {Header}
                              /\ d.file # d.unit => d.file = Header /\ d.bind = "static"
                              /\ d.bind \in {"static", "weak", "strong"}
         /\ \A d, e \in kernel : d.name = e.name /\ d # e =>
              d.unit # e.unit /\ UnitPos(d.unit) # UnitPos(e.unit)
<1>1. \A d \in kernel : /\ d \in Definition /\ d.unit \in Unit /\ d.name \in Name
                        /\ d.kind \in {"function", "alias", "variable"}
                        /\ d.section \in Section
                        /\ d.file \in Unit \cup {Header}
                        /\ d.bind \in {"static", "weak", "strong"}
  BY KernelFacts DEF Definition
<1>2. \A d \in kernel : d.file # d.unit => d.file = Header /\ d.bind = "static"
  BY KernelFacts
<1>3. \A d, e \in kernel : d.name = e.name /\ d # e => d.unit # e.unit
  BY KernelFacts
<1> QED
  BY <1>1, <1>2, <1>3, UnitPosOne

LEMMA PassInit ==
  ASSUME Init
  PROVE  PassInv
<1>1. \A n \in Name : GlobalsIn(n, Unit \ unread) = {}
  BY DEF Init, GlobalsIn
<1> QED
  BY <1>1 DEF Init, PassInv

\* The definitions over the metadata, while global_fns does not change.
LEMMA PassDefs ==
  ASSUME kernel' = kernel, global_fns' = global_fns
  PROVE  /\ \A u : EdgesOf(u)' = EdgesOf(u) /\ CallbacksOf(u)' = CallbacksOf(u)
         /\ \A n : Tied(n)' = Tied(n)
<1>1. \A n : Chosen(n)' = Chosen(n) /\ Tied(n)' = Tied(n)
  BY DEF Chosen, Precedes, Tied
<1>2. \A s : LookupIfGlobal(s)' = LookupIfGlobal(s)
  BY <1>1 DEF LookupIfGlobal
<1>3. \A u, K : UsedAs(u, K)' = UsedAs(u, K)
  BY DEF UsedAs
<1>4. \A u : /\ MetaCalls(u)' = MetaCalls(u) /\ MetaAliases(u)' = MetaAliases(u)
             /\ MetaCallbacks(u)' = MetaCallbacks(u)
  BY <1>3 DEF MetaCalls, MetaAliases, MetaCallbacks, DeclSig, MetaFns, Sig
<1> QED
  BY <1>1, <1>2, <1>4 DEF EdgesOf, CallsOf, AliasCallsOf, CallbacksOf

LEMMA PassStep ==
  ASSUME PassInv, [Next]_vars
  PROVE  PassInv'
<1>1. ASSUME kernel' = kernel PROVE \A n, U : GlobalsIn(n, U)' = GlobalsIn(n, U)
  BY <1>1 DEF GlobalsIn, Priority
<1>2. ASSUME NEW u \in Unit, FirstPass(u)
      PROVE  PassInv'
  <2>1. \A n \in Name :
          GlobalsIn(n, Unit \ unread') =
            GlobalsIn(n, Unit \ unread) \cup
              {<<Priority(d), d.file>> :
                 d \in {d \in MetaFns(u) : d.name = n /\ d.bind # "static"}}
    BY <1>2 DEF FirstPass, GlobalsIn, MetaFns
  <2>2. global_fns' = [n \in Name |-> GlobalsIn(n, Unit \ unread')]
    BY <1>2, <2>1 DEF FirstPass, PassInv
  <2>3. kernel' = kernel /\ place' = "first" /\ unread' \subseteq Unit
        /\ edges' = {} /\ callback' = {}
    BY <1>2 DEF FirstPass, PassInv
  <2> QED
    BY <1>1, <2>2, <2>3 DEF PassInv
<1>3. CASE FirstPassEnd
  <2>1. global_fns' = [n \in Name |-> GlobalsIn(n, Unit)]
    BY <1>3 DEF FirstPassEnd, PassInv
  <2>2. kernel' = kernel /\ place' = "second" /\ unread' = Unit
        /\ edges' = {} /\ callback' = {} /\ warned' = {n \in Name : Tied(n)}
        /\ global_fns' = global_fns
    BY <1>3 DEF FirstPassEnd, PassInv
  <2>3. warned' = {n \in Name : Tied(n)'}
    BY <2>2, PassDefs
  <2> QED
    BY <1>1, <2>1, <2>2, <2>3 DEF PassInv
<1>4. ASSUME NEW u \in Unit, SecondPass(u)
      PROVE  PassInv'
  <2>1. /\ kernel' = kernel /\ place' = "second" /\ place = "second"
        /\ global_fns' = global_fns /\ warned' = warned
        /\ unread' = unread \ {u} /\ u \in unread
        /\ edges' = edges \cup EdgesOf(u) /\ callback' = callback \cup CallbacksOf(u)
    BY <1>4 DEF SecondPass, EdgesOf, CallsOf, AliasCallsOf, CallbacksOf
  <2>2. Unit \ unread' = (Unit \ unread) \cup {u}
    BY <2>1 DEF PassInv
  <2>3. edges' = UNION {EdgesOf(v) : v \in Unit \ unread'}
        /\ callback' = UNION {CallbacksOf(v) : v \in Unit \ unread'}
    BY <2>1, <2>2 DEF PassInv
  <2> QED
    BY <1>1, <2>1, <2>3, PassDefs DEF PassInv
<1>5. CASE SecondPassEnd
  <2>1. Unit \ unread = Unit
    BY <1>5 DEF SecondPassEnd
  <2> QED
    BY <1>1, <1>5, <2>1, PassDefs DEF SecondPassEnd, PassInv
<1>6. ASSUME UNCHANGED <<kernel, unread, global_fns, warned, edges, callback>>,
             place' = place \/ {place, place'} \cap {"first", "second"} = {}
      PROVE  PassInv'
  <2>1. \A n : GlobalsIn(n, Unit \ unread)' = GlobalsIn(n, Unit \ unread)
              /\ GlobalsIn(n, Unit)' = GlobalsIn(n, Unit)
    BY <1>6 DEF GlobalsIn, Priority
  <2>2. place' = place \/ (place' \notin {"first", "second"} /\ place \notin {"first", "second"})
    BY <1>6
  <2>3. (place' = "first" <=> place = "first") /\ (place' = "second" <=> place = "second")
    BY <2>2
  <2> QED
    BY <1>6, <2>1, <2>3, PassDefs DEF PassInv
<1>7. ASSUME NEW s, ScanClone(s) \/ ScanKsymtab(s) \/ ScanLocal(s) \/ ScanGlobal(s)
      PROVE  PassInv'
  BY <1>6, <1>7 DEF ScanClone, ScanKsymtab, ScanLocal, ScanGlobal
<1>8. CASE WriteResults \/ \E n \in Name : ResolveAbort(n) \/ ResolveRef(n)
  BY <1>6, <1>8 DEF WriteResults, ResolveAbort, ResolveRef
<1>9. CASE UNCHANGED vars
  BY <1>6, <1>9 DEF vars
<1> QED
  BY <1>2, <1>3, <1>4, <1>5, <1>7, <1>8, <1>9 DEF Next

-------------------------------------------------------------------------------
\* The least of a set of numbers.
LEMMA NatLeast ==
  ASSUME NEW S, S \subseteq Nat, S # {}
  PROVE  \E m \in S : \A k \in S : m <= k
<1> DEFINE R == OpToRel(<, Nat)
<1>1. R = {p \in Nat \X Nat : p[1] < p[2]}
  BY DEF OpToRel
<1>2. IsWellFoundedOn(R, Nat)
  BY ONLY NatLessThanWellFounded, Zenon
<1> HIDE DEF R
<1>3. PICK m \in S : \A k \in S : <<k, m>> \notin R
  BY <1>2, WFMin
<1>4. \A k \in S : ~(k < m)
  BY <1>1, <1>3
<1> QED
  BY <1>4

\* Of the public definitions of a name the linker takes one: the strong one, or the
\* weak one of the first unit.
LEMMA LinkerChooses ==
  ASSUME kernel \in Kernel, NEW n, Global(n) # {}
  PROVE  /\ LinkerChoice(n) \in Global(n)
         /\ \A e \in Global(n) : e # LinkerChoice(n) =>
              /\ e.bind = "weak" /\ e.unit # LinkerChoice(n).unit
              /\ LinkerChoice(n).kind = "variable" <=> e.kind = "variable"
              /\ LinkerChoice(n).bind = "weak" =>
                   UnitPos(LinkerChoice(n).unit) < UnitPos(e.unit)
<1>1. \A d \in Global(n) : /\ d \in kernel /\ d.unit \in Unit /\ d.bind # "static"
                           /\ d.bind \in {"weak", "strong"} /\ UnitPos(d.unit) \in Nat
  BY NamesakesApart DEF Global
<1>2. \A d, e \in Global(n) : d # e =>
        /\ d.unit # e.unit /\ UnitPos(d.unit) # UnitPos(e.unit)
        /\ ~(d.bind = "strong" /\ e.bind = "strong")
        /\ d.kind = "variable" <=> e.kind = "variable"
  BY KernelFacts, NamesakesApart DEF Global
<1>3. CASE \E d \in Global(n) : d.bind = "strong"
  <2>1. PICK d \in Global(n) : d.bind = "strong"
    BY <1>3
  <2>2. LinkerChoice(n) = CHOOSE e \in Global(n) : e.bind = "strong"
    BY <2>1, Zenon DEF LinkerChoice
  <2>3. LinkerChoice(n) \in Global(n) /\ LinkerChoice(n).bind = "strong"
    BY <2>1, <2>2
  <2> QED
    BY <1>1, <1>2, <2>3
<1>4. CASE ~\E d \in Global(n) : d.bind = "strong"
  <2>1. \E d \in Global(n) : \A e \in Global(n) : UnitPos(d.unit) <= UnitPos(e.unit)
    <3>1. PICK S : S = {UnitPos(d.unit) : d \in Global(n)}
      OBVIOUS
    <3>2. S \subseteq Nat /\ S # {}
      BY <1>1, <3>1
    <3>3. PICK m \in S : \A k \in S : m <= k
      BY <3>2, NatLeast
    <3> QED
      BY <3>1, <3>3
  <2>2. LinkerChoice(n) =
          CHOOSE d \in Global(n) : \A e \in Global(n) : UnitPos(d.unit) <= UnitPos(e.unit)
    BY <1>4, Zenon DEF LinkerChoice
  <2>3. /\ LinkerChoice(n) \in Global(n)
        /\ \A e \in Global(n) : UnitPos(LinkerChoice(n).unit) <= UnitPos(e.unit)
    BY <2>1, <2>2
  <2> QED
    BY <1>1, <1>2, <1>4, <2>3
<1> QED
  BY <1>3, <1>4

\* If that is a function, and analyze.py does not warn of the name, it is the one
\* that analyze.py takes.
LEMMA ChosenIsLinked ==
  ASSUME kernel \in Kernel, NEW n \in Name, global_fns[n] = GlobalsIn(n, Unit),
         Global(n) # {}, LinkerChoice(n).kind = "function", ~Tied(n)
  PROVE  Chosen(n)[2] = LinkerChoice(n).file /\ global_fns[n] # {}
<1> DEFINE F == {d \in Global(n) : d.kind = "function"}
<1>1. PICK c : c = LinkerChoice(n)
  OBVIOUS
<1>2. /\ c \in F
      /\ \A e \in F : e # c =>
           /\ e.bind = "weak" /\ e.unit # c.unit
           /\ c.bind = "weak" => UnitPos(c.unit) < UnitPos(e.unit)
  BY <1>1, LinkerChooses
<1>3. \A d \in F : /\ d.unit \in Unit /\ d.file = d.unit /\ UnitPos(d.unit) \in Nat
                   /\ d.bind \in {"weak", "strong"}
  BY NamesakesApart DEF Global
<1>4. \A d \in F :
        Priority(d) = IF d.bind = "strong" THEN 1 ELSE IF d.unit \in ArchUnit THEN 2 ELSE 3
  <2> SUFFICES ASSUME NEW d \in F
               PROVE  Priority(d) = IF d.bind = "strong" THEN 1
                                    ELSE IF d.unit \in ArchUnit THEN 2 ELSE 3
    OBVIOUS
  <2>1. CASE d.bind = "strong"
    BY <2>1 DEF Priority, STRONG
  <2>2. CASE d.bind = "weak" /\ d.unit \in ArchUnit
    BY <2>2 DEF Priority, WEAK_ARCH
  <2>3. CASE d.bind = "weak" /\ d.unit \notin ArchUnit
    BY <2>3 DEF Priority, WEAK_NORM
  <2> QED
    BY <1>3, <2>1, <2>2, <2>3
<1>5. global_fns[n] = {<<Priority(d), d.file>> : d \in F}
  <2>1. {d \in kernel : d.kind = "function" /\ d.unit \in Unit /\ d.name = n
                        /\ d.bind # "static"} = F
    BY NamesakesApart DEF Global
  <2> QED
    BY <2>1 DEF GlobalsIn
<1> HIDE DEF F
<1>6. \A e \in F : e # c => Priority(c) < Priority(e)
  <2> SUFFICES ASSUME NEW e \in F, e # c, ~(Priority(c) < Priority(e))
               PROVE  FALSE
    OBVIOUS
  <2>1. c.bind = "weak" /\ e.bind = "weak" /\ e.unit # c.unit
        /\ UnitPos(c.unit) < UnitPos(e.unit)
    BY <1>2, <1>3, <1>4
  <2>2. \A d \in F : d.bind = "weak"
    BY <1>2, <2>1
  <2>3. ~(e.unit \in ArchUnit /\ c.unit \notin ArchUnit)
    BY <1>2, <1>3, <2>1, UnitAssumption
  <2>4. Priority(c) = Priority(e)
    BY <1>2, <1>4, <2>1, <2>3
  <2>5. \A d \in F : Priority(c) <= Priority(d)
    <3>1. ASSUME NEW d \in F, d # c, d.unit \in ArchUnit
          PROVE  c.unit \in ArchUnit
      <4>1. UnitPos(c.unit) < UnitPos(d.unit)
        BY <1>2, <2>1, <3>1
      <4> QED
        BY <1>2, <1>3, <3>1, <4>1, UnitAssumption
    <3> QED
      BY <1>2, <1>4, <2>1, <2>2, <3>1
  <2>6. <<Priority(c), c.file>> # <<Priority(e), e.file>>
    BY <1>2, <1>3, <2>1
  <2>7. \A k \in global_fns[n] : <<Priority(c), c.file>>[1] <= k[1]
    BY <1>5, <2>5
  <2>8. /\ <<Priority(c), c.file>> \in global_fns[n]
        /\ <<Priority(e), e.file>> \in global_fns[n]
        /\ <<Priority(c), c.file>>[1] = <<Priority(e), e.file>>[1]
    BY <1>2, <1>5, <2>4
  <2> QED
    BY <2>6, <2>7, <2>8, Zenon DEF Tied
<1>7. \A e \in F : Priority(e) \in Nat
  BY <1>4
<1>8. \A g \in global_fns[n] :
        (\A h \in global_fns[n] \ {g} : Precedes(g, h)) <=> g = <<Priority(c), c.file>>
  <2> SUFFICES ASSUME NEW e \in F
               PROVE  (\A h \in global_fns[n] \ {<<Priority(e), e.file>>} :
                         Precedes(<<Priority(e), e.file>>, h)) <=>
                        <<Priority(e), e.file>> = <<Priority(c), c.file>>
    BY <1>5
  <2>1. CASE e = c
    <3>1. ASSUME NEW h \in global_fns[n], h # <<Priority(c), c.file>>
          PROVE  Precedes(<<Priority(c), c.file>>, h)
      <4>1. PICK d \in F : h = <<Priority(d), d.file>>
        BY <1>5
      <4>2. Priority(c) < Priority(d)
        BY <1>6, <3>1, <4>1
      <4> QED
        BY <4>1, <4>2 DEF Precedes
    <3> QED
      BY <2>1, <3>1
  <2>2. CASE e # c
    <3>1. Priority(c) < Priority(e) /\ Priority(c) \in Nat /\ Priority(e) \in Nat
      BY <1>2, <1>6, <1>7, <2>2
    <3>2. <<Priority(c), c.file>> \in global_fns[n] \ {<<Priority(e), e.file>>}
      BY <1>2, <1>5, <3>1
    <3>3. ~Precedes(<<Priority(e), e.file>>, <<Priority(c), c.file>>)
      BY <3>1 DEF Precedes
    <3> QED
      BY <3>1, <3>2, <3>3
  <2> QED
    BY <2>1, <2>2
<1>9. Chosen(n) = <<Priority(c), c.file>>
  <2>1. <<Priority(c), c.file>> \in global_fns[n]
    BY <1>2, <1>5
  <2> QED
    BY <1>8, <2>1 DEF Chosen
<1> QED
  BY <1>1, <1>2, <1>5, <1>9

\* A name without a file is completed with that of the linked function.
LEMMA LookedUpAsLinked ==
  ASSUME PassInv, place # "first", NEW n \in Name, n \notin warned,
         Global(n) # {}, LinkerChoice(n).kind = "function"
  PROVE  LookupIfGlobal(<<n, NoFile>>) = {Sig(LinkerChoice(n))}
<1>1. kernel \in Kernel /\ global_fns[n] = GlobalsIn(n, Unit) /\ ~Tied(n)
  BY DEF PassInv
<1>2. LinkerChoice(n).name = n
  BY <1>1, LinkerChooses DEF Global
<1>3. Chosen(n)[2] = LinkerChoice(n).file /\ global_fns[n] # {}
  BY <1>1, ChosenIsLinked
<1>4. LookupIfGlobal(<<n, NoFile>>) = {<<n, Chosen(n)[2]>> : g \in global_fns[n]}
  BY DEF LookupIfGlobal
<1> QED
  BY <1>2, <1>3, <1>4 DEF Sig

\* The file found for a name that a unit uses as a function is that of the
\* definition which the compiler and the linker bind it to.
LEMMA BoundAsLinked ==
  ASSUME PassInv, place # "first", NEW u \in Unit, NEW n \in Name, Told(u, n)
  PROVE  LookupIfGlobal(DeclSig(u, n)) = {Sig(d) : d \in Callee(u, n)}
<1> DEFINE own == {d \in kernel : d.unit = u /\ d.name = n}
<1>1. kernel \in Kernel /\ global_fns[n] = GlobalsIn(n, Unit)
  BY DEF PassInv
<1>2. \A d, e \in own : d = e
  BY <1>1, KernelFacts
<1>3. {d \in kernel : d.unit = u /\ d.name = n /\ Linked(d)} = own
  BY DEF Told
<1>4. CASE own # {}
  <2>1. PICK d \in own : own = {d}
    BY <1>2, <1>4
  <2>2. Callee(u, n) = {d}
    BY <1>3, <2>1 DEF Callee
  <2>3. {e \in MetaFns(u) : e.name = n} = {d}
    BY <2>1, <2>2 DEF MetaFns, Told
  <2>4. DeclSig(u, n) = Sig(d)
    BY <2>3 DEF DeclSig
  <2>5. d.file # NoFile
    <3>1. d.file \in Unit \cup {Header}
      BY <1>1, <2>1, NamesakesApart
    <3> QED
      BY <3>1, UnitAssumption
  <2>6. LookupIfGlobal(DeclSig(u, n)) = {Sig(d)}
    BY <2>4, <2>5 DEF LookupIfGlobal, Sig
  <2> QED
    BY <2>2, <2>6
<1>5. CASE own = {}
  <2>1. DeclSig(u, n) = <<n, NoFile>>
    BY <1>5 DEF DeclSig, MetaFns
  <2>2. Callee(u, n) = IF Global(n) # {} THEN {LinkerChoice(n)} ELSE {}
    BY <1>3, <1>5 DEF Callee
  <2>3. CASE Global(n) = {}
    <3>1. global_fns[n] = {}
      BY <1>1, <2>3 DEF GlobalsIn, Global
    <3>2. LookupIfGlobal(<<n, NoFile>>) = {}
      BY <3>1 DEF LookupIfGlobal
    <3> QED
      BY <2>1, <2>2, <2>3, <3>2
  <2>4. CASE Global(n) # {}
    <3>1. n \notin warned /\ LinkerChoice(n).kind = "function"
      BY <2>2, <2>4 DEF Told
    <3> QED
      BY <2>1, <2>2, <2>4, <3>1, LookedUpAsLinked
  <2> QED
    BY <2>3, <2>4
<1> QED
  BY <1>4, <1>5

THEOREM PassInvariance == Spec => []PassInv
BY PassInit, PassStep, PTL DEF Spec

\* For any kernel: whatever mixture of static, weak and strong definitions has a
\* name, and in whatever order the units are read, every call by the name of a
\* function is attributed to the definition that the linked kernel calls, unless
\* analyze.py warned of the name; and a public function with an alias has a caller
\* outside every file.
THEOREM CallGraphLinked == Spec => []CallsAttributed
<1>1. PassInv => CallsAttributed
  <2> SUFFICES ASSUME PassInv, place = "symtab"
               PROVE  /\ \A u \in Unit : \A n \in UsedAs(u, {"call"}) : Told(u, n) =>
                           {t \in edges : t[1] = u /\ t[2][1] = n} =
                             {<<u, Sig(d)>> : d \in Callee(u, n)}
                      /\ \A a, d \in kernel :
                           /\ a.kind = "alias" /\ a.section # "init"
                           /\ d.kind = "function" /\ d.unit = a.unit /\ d.name = a.of
                           /\ d.bind # "static" /\ Linked(d) /\ d.name \notin warned
                           => <<NoFile, Sig(d)>> \in edges
    BY DEF CallsAttributed
  <2>1. edges = UNION {EdgesOf(v) : v \in Unit}
    BY DEF PassInv
  <2>2. ASSUME NEW u \in Unit, NEW n \in UsedAs(u, {"call"}), Told(u, n)
        PROVE  {t \in edges : t[1] = u /\ t[2][1] = n} =
                 {<<u, Sig(d)>> : d \in Callee(u, n)}
    <3>1. n \in Name
      BY DEF UsedAs
    <3>2. {t \in edges : t[1] = u} = CallsOf(u)
      <4>1. \A v \in Unit : \A t \in EdgesOf(v) : t[1] = u => v = u /\ t \in CallsOf(u)
        BY UnitAssumption DEF EdgesOf, CallsOf, AliasCallsOf
      <4>2. \A t \in CallsOf(u) : t \in EdgesOf(u) /\ t[1] = u
        BY DEF EdgesOf, CallsOf
      <4> QED
        BY <2>1, <4>1, <4>2
    <3>3. ASSUME NEW m \in Name, NEW s \in LookupIfGlobal(DeclSig(u, m))
          PROVE  s[1] = m
      <4>1. DeclSig(u, m)[1] = m
        BY DEF DeclSig, Sig, MetaFns
      <4> QED
        BY <3>3, <4>1 DEF LookupIfGlobal
    <3>4. {t \in CallsOf(u) : t[2][1] = n} = {<<u, s>> : s \in LookupIfGlobal(DeclSig(u, n))}
      <4>1. ASSUME NEW t
            PROVE  t \in CallsOf(u) <=>
                     \E m \in UsedAs(u, {"call"}) :
                       \E s \in LookupIfGlobal(DeclSig(u, m)) : t = <<u, s>>
        BY DEF CallsOf, MetaCalls
      <4>2. ASSUME NEW t, t \in CallsOf(u), t[2][1] = n
            PROVE  \E s \in LookupIfGlobal(DeclSig(u, n)) : t = <<u, s>>
        <5>1. PICK m \in UsedAs(u, {"call"}) :
                \E s \in LookupIfGlobal(DeclSig(u, m)) : t = <<u, s>>
          BY <4>1, <4>2
        <5>2. PICK s \in LookupIfGlobal(DeclSig(u, m)) : t = <<u, s>>
          BY <5>1
        <5>3. m \in Name
          BY DEF UsedAs
        <5>4. m = n
          BY <3>3, <4>2, <5>2, <5>3
        <5> QED
          BY <5>2, <5>4
      <4>3. ASSUME NEW s \in LookupIfGlobal(DeclSig(u, n))
            PROVE  <<u, s>> \in CallsOf(u) /\ <<u, s>>[2][1] = n
        BY <3>1, <3>3, <4>1
      <4> QED
        BY <4>2, <4>3
    <3>5. LookupIfGlobal(DeclSig(u, n)) = {Sig(d) : d \in Callee(u, n)}
      BY <2>2, <3>1, BoundAsLinked
    <3> QED
      BY <3>2, <3>4, <3>5
  <2>3. ASSUME NEW a \in kernel, NEW d \in kernel, a.kind = "alias", a.section # "init",
               d.kind = "function", d.unit = a.unit, d.name = a.of,
               d.bind # "static", Linked(d), d.name \notin warned
        PROVE  <<NoFile, Sig(d)>> \in edges
    <3>1. d.name \in Name /\ a.unit \in Unit
      BY NamesakesApart DEF PassInv
    <3>2. Global(d.name) # {} /\ LinkerChoice(d.name) = d
      BY <2>3 DEF Global, Linked
    <3>3. LookupIfGlobal(<<d.name, NoFile>>) = {Sig(d)}
      BY <2>3, <3>1, <3>2, LookedUpAsLinked
    <3>4. <<d.name, NoFile>> \in MetaAliases(a.unit)
      BY <2>3 DEF MetaAliases
    <3>5. <<NoFile, Sig(d)>> \in EdgesOf(a.unit)
      BY <3>3, <3>4 DEF EdgesOf, AliasCallsOf
    <3> QED
      BY <2>1, <3>1, <3>5
  <2> QED
    BY <2>2, <2>3
<1> QED
  BY <1>1, PassInvariance, PTL

\* For any kernel: no function of the module whose address is taken anywhere under
\* its own name is missing from the callbacks, unless analyze.py warned of the name.
THEOREM CallbacksComplete == Spec => []CallbacksFound
<1>1. PassInv => CallbacksFound
  <2> SUFFICES ASSUME PassInv, place = "symtab", NEW u \in Unit,
                      NEW n \in UsedAs(u, {"address", "initializer"}), Told(u, n),
                      NEW d \in Callee(u, n), d.file \in ModFiles, d.section # "init"
               PROVE  Sig(d) \in callback
    BY DEF CallbacksFound
  <2>1. n \in Name
    BY DEF UsedAs
  <2>2. Sig(d) \in LookupIfGlobal(DeclSig(u, n))
    BY <2>1, BoundAsLinked
  <2>3. ASSUME NEW e \in kernel, e.unit = u, e.name = n
        PROVE  e.section # "init"
    <3>1. Linked(e)
      BY <2>3 DEF Told
    <3>2. d \in kernel /\ d.unit = u /\ d.name = n
      BY <2>3, <3>1 DEF Callee
    <3>3. e = d
      BY <2>3, <3>2, KernelFacts DEF PassInv
    <3> QED
      BY <3>3
  <2>4. DeclSig(u, n) \in MetaCallbacks(u)
    BY <2>3 DEF MetaCallbacks
  <2>5. Sig(d) \in CallbacksOf(u)
    BY <2>2, <2>4 DEF CallbacksOf, Sig
  <2> QED
    BY <2>5 DEF PassInv
<1> QED
  BY <1>1, PassInvariance, PTL

-------------------------------------------------------------------------------
(***************************************************************************)
(* find_in_vmlinux: what the tables hold of the part of the symbol table   *)
(* that has been read.                                                     *)
(***************************************************************************)
Entry(d, k) == [def |-> d, kind |-> k]
Scanned == Symtab \ unscanned

\* The local functions named n in the symbol table (or aliases), those already
\* counted, and those up to d.
Locals(n) ==
  {d \in kernel : /\ d.name = n /\ d.bind = "static" /\ HasSymbol(d)
                  /\ d.kind # "variable"}
ReadLocals(n) == {d \in Locals(n) : Entry(d, "local") \notin unscanned}
UpTo(n, d) == {e \in Locals(n) : UnitPos(e.unit) <= UnitPos(d.unit)}

\* The files that an entry says a function of its name is in, and is exported from.
PresentIn(s) ==
  IF s.kind = "local" THEN LocalFile(s)
  ELSE IF s.kind = "global" THEN AnyOfFirst(s.def.name, AllFiles) ELSE {}
ExportedFrom(s) ==
  IF s.kind = "ksymtab" /\ Exports(s) THEN AnyOfFirst(s.def.name, ModFiles) ELSE {}

FnsInv ==
  fns = {Sig(d) : d \in {d \in kernel : /\ d.kind = "function"
                                        /\ place = "first" => d.unit \notin unread}}

OrderInv ==
  /\ unscanned \subseteq Symtab
  /\ \A s \in Scanned, t \in unscanned : SymtabKey(s) <= SymtabKey(t)

CountInv == fn_pos \in [Name -> Nat] /\ \A n \in Name : fn_pos[n] = Cardinality(ReadLocals(n))

\* A position is the rank, among the local functions of the name, of one that is
\* taken to be in the file.
PositionInv ==
  /\ DOMAIN local_sympos = Name \X AllFiles
  /\ \A n \in Name, f \in AllFiles :
       LET found == {d \in ReadLocals(n) : f \in LocalFile(Entry(d, "local"))} IN
         \/ local_sympos[<<n, f>>] = 0 /\ found = {}
         \/ \E d \in found : local_sympos[<<n, f>>] = Cardinality(UpTo(n, d))

PresenceInv ==
  /\ \A v \in in_vmlinux : \E s \in Scanned : \E f \in PresentIn(s) : v = <<s.def.name, f>>
  /\ \A s \in Scanned :
       PresentIn(s) # {} => \E f \in PresentIn(s) : <<s.def.name, f>> \in in_vmlinux

ExportInv ==
  /\ \A v \in export : \E s \in Scanned : \E f \in ExportedFrom(s) : v = <<s.def.name, f>>
  /\ \A s \in Scanned :
       ExportedFrom(s) # {} => \E f \in ExportedFrom(s) : <<s.def.name, f>> \in export

\* An address in the module is the one the chosen position stands for.
AddressInv ==
  /\ und \subseteq Candidates /\ DOMAIN resolved = Name
  /\ \A n \in Name :
       resolved[n] = {} \/ \E p \in Positions(n) : resolved[n] = Nth(n, Index(p))

Unfilled ==
  /\ fn_pos = [n \in Name |-> 0] /\ local_sympos = [s \in Name \X AllFiles |-> 0]
  /\ in_vmlinux = {} /\ export = {} /\ und = {} /\ resolved = [n \in Name |-> {}]

ScanInv ==
  /\ kernel \in Kernel /\ unread \subseteq Unit
  /\ place \in {"first", "second", "symtab", "resolve", "aborted"}
  /\ FnsInv
  /\ place \in {"first", "second"} => Unfilled
  /\ place = "symtab" => und = {} /\ resolved = [n \in Name |-> {}]
  /\ place \notin {"first", "second"} =>
       OrderInv /\ CountInv /\ PositionInv /\ PresenceInv /\ ExportInv
  /\ place \in {"resolve", "aborted"} => unscanned = {} /\ AddressInv

-------------------------------------------------------------------------------
LEMMA NamesakesFinite ==
  ASSUME kernel \in Kernel, NEW n
  PROVE  IsFiniteSet({d \in kernel : d.name = n})
<1>1. PICK S : S = {d \in kernel : d.name = n}
  OBVIOUS
<1> DEFINE f == [d \in S |-> UnitPos(d.unit)]
           I == 1 .. Len(UnitSeq)
<1>2. \A d \in S : UnitPos(d.unit) \in I
  BY <1>1, NamesakesApart, UnitPosOne
<1>3. \A d, e \in S : UnitPos(d.unit) = UnitPos(e.unit) => d = e
  BY <1>1, NamesakesApart
<1>4. IsFiniteSet(I)
  <2>1. Len(UnitSeq) \in Int /\ 1 \in Int
    BY UnitAssumption
  <2> QED
    BY <2>1, FS_Interval
<1> HIDE DEF I
<1>5. f \in Injection(S, I)
  BY <1>2, <1>3 DEF Injection, IsInjective
<1>6. IsFiniteSet(S)
  <2> HIDE DEF f
  <2> QED
    BY <1>4, <1>5, FS_Injection
<1> QED
  BY <1>1, <1>6

\* The definitions over the kernel and its functions, while these do not change.
LEMMA ScanDefs ==
  ASSUME kernel' = kernel, fns' = fns
  PROVE  /\ Symtab' = Symtab
         /\ \A n : Locals(n)' = Locals(n)
         /\ \A n, d : UpTo(n, d)' = UpTo(n, d)
         /\ \A s : /\ LocalFile(s)' = LocalFile(s) /\ PresentIn(s)' = PresentIn(s)
                   /\ ExportedFrom(s)' = ExportedFrom(s)
         /\ \A n, i : Nth(n, i)' = Nth(n, i)
         /\ \A n : Kallsyms(n)' = Kallsyms(n)
<1>1. \A n : Global(n)' = Global(n)
  BY DEF Global
<1>2. \A n : LinkerChoice(n)' = LinkerChoice(n)
  BY <1>1 DEF LinkerChoice
<1>3. \A d : Linked(d)' = Linked(d) /\ HasSymbol(d)' = HasSymbol(d)
  BY <1>2 DEF Linked, HasSymbol
<1>4. Symtab' = Symtab
  BY <1>3 DEF Symtab
<1>5. \A n : Locals(n)' = Locals(n) /\ Kallsyms(n)' = Kallsyms(n)
  BY <1>3 DEF Locals, Kallsyms
<1>6. \A n, d : UpTo(n, d)' = UpTo(n, d)
  BY <1>5 DEF UpTo
<1>7. \A n, F : AnyOfFirst(n, F)' = AnyOfFirst(n, F)
  BY DEF AnyOfFirst
<1>8. \A s : LocalFile(s)' = LocalFile(s)
  BY <1>7 DEF LocalFile
<1>9. \A s : PresentIn(s)' = PresentIn(s) /\ ExportedFrom(s)' = ExportedFrom(s)
  BY <1>7, <1>8 DEF PresentIn, ExportedFrom, Exports
<1>10. \A n, i : Nth(n, i)' = Nth(n, i)
  BY <1>5 DEF Nth
<1> QED
  BY <1>4, <1>5, <1>6, <1>8, <1>9, <1>10

LEMMA ScanInit ==
  ASSUME Init
  PROVE  ScanInv
<1>1. FnsInv
  BY NamesakesApart DEF Init, FnsInv
<1> QED
  BY <1>1 DEF Init, ScanInv, Unfilled

\* What has been read, after one more entry of the symbol table.
LEMMA ScanOne ==
  ASSUME ScanInv, NEW s \in unscanned, Scanning(s), kernel' = kernel, fns' = fns
  PROVE  /\ Symtab' = Symtab /\ OrderInv' /\ s \in Symtab /\ s \notin Scanned
         /\ Scanned' = Scanned \cup {s}
         /\ s.kind # "local" => \A n : ReadLocals(n)' = ReadLocals(n)
<1>1. OrderInv /\ unscanned' = unscanned \ {s} /\ Symtab' = Symtab
  BY ScanDefs DEF Scanning, ScanInv
<1>2. s \in Symtab /\ s \notin Scanned /\ Scanned' = Scanned \cup {s}
  BY <1>1 DEF OrderInv, Scanned
<1>3. OrderInv'
  BY <1>1, <1>2 DEF OrderInv, Scanning, SymtabKey
<1>4. s.kind # "local" => \A n : ReadLocals(n)' = ReadLocals(n)
  <2> SUFFICES ASSUME s.kind # "local", NEW n
               PROVE  ReadLocals(n)' = ReadLocals(n)
    OBVIOUS
  <2>1. \A d : Entry(d, "local").kind = "local"
    BY DEF Entry
  <2>2. \A d : Entry(d, "local") \in unscanned' <=> Entry(d, "local") \in unscanned
    BY <1>1, <2>1
  <2>3. Locals(n)' = Locals(n)
    BY ScanDefs
  <2> QED
    BY <2>2, <2>3 DEF ReadLocals, Entry
<1> QED
  BY <1>1, <1>2, <1>3, <1>4

\* An entry that is not of a local function leaves the positions alone.
LEMMA PositionUnchanged ==
  ASSUME ScanInv, CountInv, PositionInv, kernel' = kernel, fns' = fns,
         fn_pos' = fn_pos, local_sympos' = local_sympos,
         \A n : ReadLocals(n)' = ReadLocals(n)
  PROVE  CountInv' /\ PositionInv'
<1>1. CountInv'
  BY DEF CountInv
<1>2. PositionInv'
  BY ScanDefs DEF PositionInv
<1> QED
  BY <1>1, <1>2

\* The first definition of an entry of a local function that is read gets the
\* next position, which is its rank.
LEMMA LocalStep ==
  ASSUME ScanInv, CountInv, PositionInv, NEW s \in unscanned, ScanLocal(s)
  PROVE  CountInv' /\ PositionInv'
<1> DEFINE d == s.def
           n == s.def.name
<1>1. /\ Scanning(s) /\ s.kind = "local" /\ kernel' = kernel /\ fns' = fns
      /\ fn_pos' = [fn_pos EXCEPT ![n] = @ + 1]
      /\ local_sympos' =
           [sig \in DOMAIN local_sympos |->
              IF \E f \in LocalFile(s) : sig = <<n, f>> THEN fn_pos'[n]
              ELSE local_sympos[sig]]
  BY DEF ScanLocal, Counted
<1>2. s \in Symtab /\ s \notin Scanned /\ unscanned' = unscanned \ {s} /\ OrderInv
      /\ unscanned \subseteq Symtab
  BY <1>1, ScanOne DEF Scanning, ScanInv, OrderInv
<1>3. d \in Locals(n) /\ s = Entry(d, "local") /\ d \in kernel /\ n \in Name
  <2>1. \E e \in kernel : /\ HasSymbol(e) /\ e.bind = "static" /\ e.kind # "variable"
                           /\ s = Entry(e, "local")
    BY <1>1, <1>2 DEF Symtab, Entry
  <2>2. PICK e \in kernel : /\ HasSymbol(e) /\ e.bind = "static" /\ e.kind # "variable"
                            /\ s = Entry(e, "local")
    BY <2>1
  <2>3. s.def = e
    BY <2>2 DEF Entry
  <2>4. e.name \in Name
    BY <2>2, NamesakesApart DEF ScanInv
  <2> QED
    BY <2>2, <2>3, <2>4 DEF Locals
<1>4. \A m : ReadLocals(m)' = ReadLocals(m) \cup {e \in {d} : m = n}
  <2> SUFFICES ASSUME NEW m
               PROVE  ReadLocals(m)' = ReadLocals(m) \cup {e \in {d} : m = n}
    OBVIOUS
  <2>1. \A e : Entry(e, "local") = s <=> e = d
    BY <1>3 DEF Entry
  <2>2. Locals(m)' = Locals(m)
    BY <1>1, ScanDefs
  <2>3. \A e : Entry(e, "local")' = Entry(e, "local")
    BY DEF Entry
  <2>4. \A e : e \in ReadLocals(m)' <=>
                 e \in Locals(m) /\ (Entry(e, "local") \notin unscanned \/ e = d)
    BY <1>2, <2>1, <2>2, <2>3 DEF ReadLocals
  <2>5. d \in Locals(m) => m = n
    BY DEF Locals
  <2> QED
    BY <1>3, <2>4, <2>5 DEF ReadLocals
<1>5. d \notin ReadLocals(n)
  BY <1>3 DEF ReadLocals
<1>6. \A e \in Locals(n) : /\ Entry(e, "local") \in Symtab
                           /\ SymtabKey(Entry(e, "local")) = UnitPos(e.unit)
                           /\ UnitPos(e.unit) \in Nat
                           /\ e # d => UnitPos(e.unit) # UnitPos(d.unit)
  <2> SUFFICES ASSUME NEW e \in Locals(n)
               PROVE  /\ Entry(e, "local") \in Symtab
                      /\ SymtabKey(Entry(e, "local")) = UnitPos(e.unit)
                      /\ UnitPos(e.unit) \in Nat
                      /\ e # d => UnitPos(e.unit) # UnitPos(d.unit)
    OBVIOUS
  <2>1. /\ e \in kernel /\ e.name = n /\ e.bind = "static" /\ HasSymbol(e)
        /\ e.kind # "variable"
    BY DEF Locals
  <2>2. Entry(e, "local") \in Symtab
    BY <2>1 DEF Symtab, Entry
  <2>3. UnitPos(e.unit) \in Nat /\ (e # d => UnitPos(e.unit) # UnitPos(d.unit))
    BY <1>3, <2>1, NamesakesApart DEF ScanInv
  <2>4. SymtabKey(Entry(e, "local")) = UnitPos(e.unit)
    BY <2>3 DEF SymtabKey, Entry
  <2> QED
    BY <2>2, <2>3, <2>4
<1>7. ReadLocals(n)' = UpTo(n, d)
  <2>1. ASSUME NEW e \in ReadLocals(n)
        PROVE  e \in UpTo(n, d)
    <3>1. e \in Locals(n) /\ Entry(e, "local") \in Scanned
      BY <1>6 DEF ReadLocals, Scanned
    <3>2. SymtabKey(Entry(e, "local")) <= SymtabKey(s)
      BY <1>2, <3>1 DEF OrderInv
    <3> QED
      BY <1>3, <1>6, <3>1, <3>2 DEF UpTo
  <2>2. ASSUME NEW e \in UpTo(n, d), e # d
        PROVE  e \in ReadLocals(n)
    <3>1. e \in Locals(n) /\ UnitPos(e.unit) <= UnitPos(d.unit)
      BY DEF UpTo
    <3>2. ASSUME Entry(e, "local") \in unscanned
          PROVE  FALSE
      <4>1. SymtabKey(s) <= SymtabKey(Entry(e, "local"))
        BY <1>1, <3>2 DEF Scanning
      <4> QED
        BY <1>3, <1>6, <2>2, <3>1, <4>1
    <3> QED
      BY <3>1, <3>2 DEF ReadLocals
  <2>3. d \in UpTo(n, d)
    BY <1>3, <1>6 DEF UpTo
  <2> QED
    BY <1>4, <2>1, <2>2, <2>3
<1>8. fn_pos'[n] = Cardinality(UpTo(n, d)) /\ fn_pos'[n] \in Nat \ {0}
  <2>1. PICK R : R = ReadLocals(n)
    OBVIOUS
  <2>2. IsFiniteSet(R)
    <3>1. PICK S : S = {e \in kernel : e.name = n}
      OBVIOUS
    <3>2. IsFiniteSet(S)
      BY <3>1, NamesakesFinite DEF ScanInv
    <3>3. R \subseteq S
      BY <2>1, <3>1 DEF ReadLocals, Locals
    <3> QED
      BY <3>2, <3>3, FS_Subset
  <2>3. UpTo(n, d) = R \cup {d}
    BY <1>4, <1>7, <2>1
  <2>4. Cardinality(R \cup {d}) = Cardinality(R) + 1
    <3>1. PICK x : x = d
      OBVIOUS
    <3>2. Cardinality(R \cup {x}) = Cardinality(R) + 1
      BY <1>5, <2>1, <2>2, <3>1, FS_AddElement
    <3> QED
      BY <3>1, <3>2
  <2>5. fn_pos[n] = Cardinality(R) /\ fn_pos[n] \in Nat
    BY <1>3, <2>1 DEF CountInv
  <2>6. fn_pos'[n] = fn_pos[n] + 1
    BY <1>1, <1>3 DEF CountInv
  <2> QED
    BY <2>3, <2>4, <2>5, <2>6
<1>9. CountInv'
  <2>1. fn_pos' \in [Name -> Nat]
    BY <1>1, <1>3 DEF CountInv
  <2>2. ASSUME NEW m \in Name
        PROVE  fn_pos'[m] = Cardinality(ReadLocals(m)')
    <3>1. CASE m = n
      BY <1>7, <1>8, <3>1
    <3>2. CASE m # n
      <4>1. ReadLocals(m)' = ReadLocals(m) /\ fn_pos'[m] = fn_pos[m]
        BY <1>1, <1>4, <3>2 DEF CountInv
      <4> QED
        BY <4>1 DEF CountInv
    <3> QED
      BY <3>1, <3>2
  <2> QED
    BY <2>1, <2>2 DEF CountInv
<1>10. PositionInv'
  <2>1. DOMAIN local_sympos' = Name \X AllFiles
    BY <1>1 DEF PositionInv
  <2>2. ASSUME NEW m \in Name, NEW f \in AllFiles
        PROVE  \/ /\ local_sympos'[<<m, f>>] = 0
                  /\ \A e \in ReadLocals(m)' : f \notin LocalFile(Entry(e, "local"))
               \/ \E e \in ReadLocals(m)' :
                    /\ f \in LocalFile(Entry(e, "local"))
                    /\ local_sympos'[<<m, f>>] = Cardinality(UpTo(m, e))
    <3>1. CASE m = n /\ f \in LocalFile(s)
      <4>1. local_sympos'[<<m, f>>] = fn_pos'[n]
        BY <1>1, <3>1 DEF PositionInv
      <4>2. d \in ReadLocals(m)'
        BY <1>4, <3>1
      <4> QED
        BY <1>3, <1>8, <3>1, <4>1, <4>2
    <3>2. CASE ~(m = n /\ f \in LocalFile(s))
      <4>1. local_sympos'[<<m, f>>] = local_sympos[<<m, f>>]
        BY <1>1, <3>2 DEF PositionInv
      <4>2. \A e \in ReadLocals(m)' :
              f \in LocalFile(Entry(e, "local")) => e \in ReadLocals(m)
        BY <1>3, <1>4, <3>2
      <4>3. ReadLocals(m) \subseteq ReadLocals(m)'
        BY <1>4
      <4>4. \/ /\ local_sympos[<<m, f>>] = 0
               /\ \A e \in ReadLocals(m) : f \notin LocalFile(Entry(e, "local"))
            \/ \E e \in ReadLocals(m) :
                 /\ f \in LocalFile(Entry(e, "local"))
                 /\ local_sympos[<<m, f>>] = Cardinality(UpTo(m, e))
        BY DEF PositionInv
      <4> QED
        BY <4>1, <4>2, <4>3, <4>4
    <3> QED
      BY <3>1, <3>2
  <2>3. \A e : LocalFile(Entry(e, "local"))' = LocalFile(Entry(e, "local"))
    <3>1. \A t : LocalFile(t)' = LocalFile(t)
      BY <1>1, ScanDefs
    <3> QED
      BY <3>1 DEF Entry
  <2>4. \A m, e : UpTo(m, e)' = UpTo(m, e)
    BY <1>1, ScanDefs
  <2> QED
    BY <2>1, <2>2, <2>3, <2>4 DEF PositionInv
<1> QED
  BY <1>9, <1>10

\* One more entry is recorded in the table of what vmlinux has ...
LEMMA PresenceAdds ==
  ASSUME PresenceInv, NEW s, Scanned' = Scanned \cup {s}, s \notin Scanned,
         \A t : PresentIn(t)' = PresentIn(t),
         \/ PresentIn(s) = {} /\ in_vmlinux' = in_vmlinux
         \/ \E F \in SUBSET PresentIn(s) :
              F # {} /\ in_vmlinux' = in_vmlinux \cup {<<s.def.name, f>> : f \in F}
  PROVE  PresenceInv'
<1>1. in_vmlinux \subseteq in_vmlinux'
  OBVIOUS
<1>2. \A v \in in_vmlinux' \ in_vmlinux : \E f \in PresentIn(s) : v = <<s.def.name, f>>
  OBVIOUS
<1>3. PresentIn(s) # {} => \E f \in PresentIn(s) : <<s.def.name, f>> \in in_vmlinux'
  OBVIOUS
<1>4. \A v \in in_vmlinux' : \E t \in Scanned' : \E f \in PresentIn(t) : v = <<t.def.name, f>>
  BY <1>2 DEF PresenceInv
<1>5. \A t \in Scanned' :
        PresentIn(t) # {} => \E f \in PresentIn(t) : <<t.def.name, f>> \in in_vmlinux'
  BY <1>1, <1>3 DEF PresenceInv
<1> QED
  BY <1>4, <1>5 DEF PresenceInv

\* ... and in that of the exported functions.
LEMMA ExportAdds ==
  ASSUME ExportInv, NEW s, Scanned' = Scanned \cup {s}, s \notin Scanned,
         \A t : ExportedFrom(t)' = ExportedFrom(t),
         \/ ExportedFrom(s) = {} /\ export' = export
         \/ \E f \in ExportedFrom(s) : export' = export \cup {<<s.def.name, f>>}
  PROVE  ExportInv'
<1>1. export \subseteq export'
  OBVIOUS
<1>2. \A v \in export' \ export : \E f \in ExportedFrom(s) : v = <<s.def.name, f>>
  OBVIOUS
<1>3. ExportedFrom(s) # {} => \E f \in ExportedFrom(s) : <<s.def.name, f>> \in export'
  OBVIOUS
<1>4. \A v \in export' : \E t \in Scanned' : \E f \in ExportedFrom(t) : v = <<t.def.name, f>>
  BY <1>2 DEF ExportInv
<1>5. \A t \in Scanned' :
        ExportedFrom(t) # {} => \E f \in ExportedFrom(t) : <<t.def.name, f>> \in export'
  BY <1>1, <1>3 DEF ExportInv
<1> QED
  BY <1>4, <1>5 DEF ExportInv

LEMMA ScanEntry ==
  ASSUME ScanInv, NEW s \in unscanned,
         ScanClone(s) \/ ScanKsymtab(s) \/ ScanLocal(s) \/ ScanGlobal(s)
  PROVE  ScanInv'
<1>1. /\ Scanning(s) /\ kernel' = kernel /\ fns' = fns /\ unread' = unread
      /\ place = "symtab" /\ place' = place /\ und' = und /\ resolved' = resolved
  BY DEF ScanClone, ScanKsymtab, ScanLocal, ScanGlobal, Scanning
<1>2. CountInv /\ PositionInv /\ PresenceInv /\ ExportInv
  BY <1>1 DEF ScanInv
<1>3. /\ OrderInv' /\ s \notin Scanned /\ Scanned' = Scanned \cup {s}
      /\ s.kind # "local" => \A n : ReadLocals(n)' = ReadLocals(n)
  BY <1>1, ScanOne
<1>4. /\ \A t : PresentIn(t)' = PresentIn(t)
      /\ \A t : ExportedFrom(t)' = ExportedFrom(t)
  BY <1>1, ScanDefs
<1>5. FnsInv'
  BY <1>1 DEF ScanInv, FnsInv, Sig
<1>6. CASE ScanLocal(s)
  <2>1. /\ s.kind = "local" /\ export' = export
        /\ in_vmlinux' = in_vmlinux \cup {<<s.def.name, f>> : f \in LocalFile(s)}
    BY <1>6 DEF ScanLocal
  <2>2. PresentIn(s) = LocalFile(s) /\ ExportedFrom(s) = {}
    BY <2>1 DEF PresentIn, ExportedFrom
  <2>3. \/ PresentIn(s) = {} /\ in_vmlinux' = in_vmlinux
        \/ \E F \in SUBSET PresentIn(s) :
             F # {} /\ in_vmlinux' = in_vmlinux \cup {<<s.def.name, f>> : f \in F}
    <3>1. CASE LocalFile(s) = {}
      BY <2>1, <2>2, <3>1
    <3>2. CASE LocalFile(s) # {}
      BY <2>1, <2>2, <3>2
    <3> QED
      BY <3>1, <3>2
  <2>4. PresenceInv' /\ ExportInv'
    BY <1>2, <1>3, <1>4, <2>1, <2>2, <2>3, PresenceAdds, ExportAdds
  <2> QED
    BY <1>1, <1>2, <1>3, <1>5, <1>6, <2>4, LocalStep DEF ScanInv
<1>7. ASSUME s.kind # "local", UNCHANGED <<fn_pos, local_sympos>>,
             PresenceInv', ExportInv'
      PROVE  ScanInv'
  <2>1. CountInv' /\ PositionInv'
    BY <1>1, <1>2, <1>3, <1>7, PositionUnchanged
  <2> QED
    BY <1>1, <1>3, <1>5, <1>7, <2>1 DEF ScanInv
<1>8. CASE ScanGlobal(s)
  <2>1. s.kind = "global" /\ UNCHANGED <<fn_pos, local_sympos, export>>
    BY <1>8 DEF ScanGlobal
  <2>2. PresentIn(s) = AnyOfFirst(s.def.name, AllFiles) /\ ExportedFrom(s) = {}
    BY <2>1 DEF PresentIn, ExportedFrom
  <2>3. \/ PresentIn(s) = {} /\ in_vmlinux' = in_vmlinux
        \/ \E f \in PresentIn(s) : in_vmlinux' = in_vmlinux \cup {<<s.def.name, f>>}
    BY <1>8, <2>2 DEF ScanGlobal
  <2>4. \/ PresentIn(s) = {} /\ in_vmlinux' = in_vmlinux
        \/ \E F \in SUBSET PresentIn(s) :
             F # {} /\ in_vmlinux' = in_vmlinux \cup {<<s.def.name, f>> : f \in F}
    <3>1. ASSUME NEW g \in PresentIn(s), in_vmlinux' = in_vmlinux \cup {<<s.def.name, g>>}
          PROVE  \E F \in SUBSET PresentIn(s) :
                   F # {} /\ in_vmlinux' = in_vmlinux \cup {<<s.def.name, f>> : f \in F}
      <4> WITNESS {g} \in SUBSET PresentIn(s)
      <4> QED
        BY <3>1
    <3> QED
      BY <2>3, <3>1
  <2>5. PresenceInv' /\ ExportInv'
    BY <1>2, <1>3, <1>4, <2>1, <2>2, <2>4, PresenceAdds, ExportAdds
  <2> QED
    BY <1>7, <2>1, <2>5
<1>9. CASE ScanKsymtab(s)
  <2>1. s.kind = "ksymtab" /\ UNCHANGED <<fn_pos, local_sympos, in_vmlinux>>
    BY <1>9 DEF ScanKsymtab
  <2>2. PresentIn(s) = {}
        /\ ExportedFrom(s) = IF Exports(s) THEN AnyOfFirst(s.def.name, ModFiles) ELSE {}
    BY <2>1 DEF PresentIn, ExportedFrom
  <2>3. \/ ExportedFrom(s) = {} /\ export' = export
        \/ \E f \in ExportedFrom(s) : export' = export \cup {<<s.def.name, f>>}
    BY <1>9, <2>2 DEF ScanKsymtab
  <2>4. PresenceInv' /\ ExportInv'
    BY <1>2, <1>3, <1>4, <2>1, <2>2, <2>3, PresenceAdds, ExportAdds
  <2> QED
    BY <1>7, <2>1, <2>4
<1>10. CASE ScanClone(s)
  <2>1. s.kind = "clone" /\ UNCHANGED <<fn_pos, local_sympos, in_vmlinux, export>>
    BY <1>10 DEF ScanClone
  <2>2. PresentIn(s) = {} /\ ExportedFrom(s) = {}
    BY <2>1 DEF PresentIn, ExportedFrom
  <2>3. PresenceInv' /\ ExportInv'
    BY <1>2, <1>3, <1>4, <2>1, <2>2, PresenceAdds, ExportAdds
  <2> QED
    BY <1>7, <2>1, <2>3
<1> QED
  BY <1>6, <1>8, <1>9, <1>10

\* At the beginning nothing of the symbol table has been read.
LEMMA ScanBegins ==
  ASSUME ScanInv, SecondPassEnd
  PROVE  ScanInv'
<1>1. /\ kernel' = kernel /\ fns' = fns /\ unread' = unread /\ place = "second"
      /\ place' = "symtab" /\ unscanned' = Symtab /\ Unfilled /\ Unfilled'
  BY DEF SecondPassEnd, ScanInv, Unfilled
<1>2. Symtab' = Symtab /\ \A n : Locals(n)' = Locals(n)
  BY <1>1, ScanDefs
<1>3. OrderInv' /\ Scanned' = {}
  BY <1>1, <1>2 DEF OrderInv, Scanned
<1>4. \A n : ReadLocals(n)' = {}
  <2>1. \A n : \A d \in Locals(n) : Entry(d, "local") \in Symtab
    BY DEF Locals, Symtab, Entry
  <2> QED
    BY <1>1, <1>2, <2>1 DEF ReadLocals, Entry
<1>5. CountInv'
  <2>1. fn_pos' = [n \in Name |-> 0]
    BY <1>1 DEF Unfilled
  <2> QED
    BY <1>4, <2>1, FS_EmptySet DEF CountInv
<1>6. PositionInv'
  <2>1. local_sympos' = [s \in Name \X AllFiles |-> 0]
    BY <1>1 DEF Unfilled
  <2> QED
    BY <1>4, <2>1 DEF PositionInv
<1>7. PresenceInv' /\ ExportInv'
  <2>1. in_vmlinux' = {} /\ export' = {}
    BY <1>1 DEF Unfilled
  <2> QED
    BY <1>3, <2>1 DEF PresenceInv, ExportInv
<1>8. FnsInv' /\ und' = {} /\ resolved' = [n \in Name |-> {}]
  BY <1>1 DEF FnsInv, ScanInv, Sig, Unfilled
<1> QED
  BY <1>1, <1>3, <1>5, <1>6, <1>7, <1>8 DEF ScanInv

\* What has been read of the symbol table stays as it is.
LEMMA ScanUnchanged ==
  ASSUME ScanInv, UNCHANGED <<kernel, fns, unread, scanVars>>,
         place \notin {"first", "second"}, place' \in {"symtab", "resolve", "aborted"}
  PROVE  FnsInv' /\ OrderInv' /\ CountInv' /\ PositionInv' /\ PresenceInv' /\ ExportInv'
<1>1. /\ kernel' = kernel /\ fns' = fns /\ unread' = unread /\ unscanned' = unscanned
      /\ fn_pos' = fn_pos /\ local_sympos' = local_sympos /\ in_vmlinux' = in_vmlinux
      /\ export' = export
      /\ OrderInv /\ CountInv /\ PositionInv /\ PresenceInv /\ ExportInv
  BY DEF scanVars, ScanInv
<1>2. /\ Symtab' = Symtab /\ Scanned' = Scanned
      /\ \A n : ReadLocals(n)' = ReadLocals(n)
  BY <1>1, ScanDefs DEF Scanned, ReadLocals, Entry
<1>3. FnsInv'
  BY <1>1 DEF ScanInv, FnsInv, Sig
<1>4. OrderInv'
  BY <1>1, <1>2 DEF OrderInv, SymtabKey
<1>5. CountInv' /\ PositionInv'
  BY <1>1, <1>2, PositionUnchanged
<1>6. PresenceInv' /\ ExportInv'
  BY <1>1, <1>2, ScanDefs DEF PresenceInv, ExportInv
<1> QED
  BY <1>3, <1>4, <1>5, <1>6

LEMMA ScanStep ==
  ASSUME ScanInv, [Next]_vars
  PROVE  ScanInv'
<1>1. ASSUME NEW u \in Unit, FirstPass(u)
      PROVE  ScanInv'
  <2>1. /\ kernel' = kernel /\ place = "first" /\ place' = place
        /\ unread' = unread \ {u} /\ UNCHANGED scanVars /\ UNCHANGED <<und, resolved>>
        /\ fns' = fns \cup {Sig(d) : d \in MetaFns(u)}
    BY <1>1 DEF FirstPass
  <2>2. \A d \in kernel : d.unit \in Unit
    BY NamesakesApart DEF ScanInv
  <2>3. FnsInv'
    <3>1. fns = {Sig(d) : d \in {d \in kernel : d.kind = "function" /\ d.unit \notin unread}}
      BY <2>1 DEF ScanInv, FnsInv
    <3>2. {d \in kernel : d.kind = "function" /\ d.unit \notin unread \ {u}} =
            {d \in kernel : d.kind = "function" /\ d.unit \notin unread} \cup MetaFns(u)
      BY <2>2 DEF MetaFns
    <3>3. fns' = {Sig(d) : d \in {d \in kernel : /\ d.kind = "function"
                                                /\ d.unit \notin unread \ {u}}}
      BY <2>1, <3>1, <3>2
    <3> QED
      BY <2>1, <3>3 DEF FnsInv, Sig
  <2>4. Unfilled'
    BY <2>1 DEF ScanInv, Unfilled, scanVars
  <2> QED
    BY <2>1, <2>3, <2>4 DEF ScanInv
<1>2. CASE FirstPassEnd
  <2>1. /\ kernel' = kernel /\ place = "first" /\ place' = "second" /\ unread = {}
        /\ unread' = Unit /\ UNCHANGED scanVars /\ UNCHANGED <<und, resolved, fns>>
    BY <1>2 DEF FirstPassEnd
  <2>2. FnsInv'
    BY <2>1 DEF ScanInv, FnsInv, Sig
  <2>3. Unfilled'
    BY <2>1 DEF ScanInv, Unfilled, scanVars
  <2> QED
    BY <2>1, <2>2, <2>3 DEF ScanInv
<1>3. ASSUME NEW u \in Unit, SecondPass(u)
      PROVE  ScanInv'
  <2>1. /\ kernel' = kernel /\ place = "second" /\ place' = place
        /\ unread' = unread \ {u} /\ UNCHANGED scanVars /\ UNCHANGED <<und, resolved, fns>>
    BY <1>3 DEF SecondPass
  <2>2. FnsInv'
    BY <2>1 DEF ScanInv, FnsInv, Sig
  <2>3. Unfilled'
    BY <2>1 DEF ScanInv, Unfilled, scanVars
  <2> QED
    BY <2>1, <2>2, <2>3 DEF ScanInv
<1>4. ASSUME NEW s \in unscanned,
             ScanClone(s) \/ ScanKsymtab(s) \/ ScanLocal(s) \/ ScanGlobal(s)
      PROVE  ScanInv'
  BY <1>4, ScanEntry
<1>5. CASE WriteResults
  <2>1. /\ UNCHANGED <<kernel, fns, unread, scanVars>> /\ resolved' = resolved
        /\ unscanned = {} /\ unscanned' = {} /\ place = "symtab" /\ place' = "resolve"
        /\ und' \subseteq Candidates
    BY <1>5 DEF WriteResults, scanVars
  <2>2. resolved' = [n \in Name |-> {}] /\ Candidates' = Candidates
    BY <2>1 DEF ScanInv, Candidates
  <2>3. AddressInv'
    BY <2>1, <2>2 DEF AddressInv
  <2> QED
    BY <2>1, <2>3, ScanUnchanged DEF ScanInv
<1>6. ASSUME NEW n \in Name, ResolveAbort(n) \/ ResolveRef(n)
      PROVE  ScanInv'
  <2>1. /\ UNCHANGED <<kernel, fns, unread, scanVars>> /\ und' = und
        /\ place = "resolve" /\ place' \in {"resolve", "aborted"}
        /\ unscanned' = unscanned /\ local_sympos' = local_sympos
        /\ \/ resolved' = resolved
           \/ \E p \in Positions(n) : resolved' = [resolved EXCEPT ![n] = Nth(n, Index(p))]
    BY <1>6 DEF ResolveAbort, ResolveRef, scanVars
  <2>2. AddressInv
    BY <2>1 DEF ScanInv
  <2>3. \A m : Positions(m)' = Positions(m)
    BY <2>1 DEF Positions
  <2>4. \A m, i : Nth(m, i)' = Nth(m, i)
    BY <2>1, ScanDefs
  <2>5. AddressInv'
    <3>1. Candidates' = Candidates
      BY <2>1 DEF Candidates
    <3>2. ASSUME NEW m \in Name
          PROVE  resolved'[m] = {} \/ \E p \in Positions(m) : resolved'[m] = Nth(m, Index(p))
      <4>1. resolved[m] = {} \/ \E p \in Positions(m) : resolved[m] = Nth(m, Index(p))
        BY <2>2 DEF AddressInv
      <4>2. CASE resolved'[m] = resolved[m]
        BY <4>1, <4>2
      <4>3. ASSUME NEW p \in Positions(n),
                   resolved' = [resolved EXCEPT ![n] = Nth(n, Index(p))],
                   resolved'[m] # resolved[m]
            PROVE  m = n /\ resolved'[m] = Nth(n, Index(p))
        BY <4>3
      <4> QED
        BY <2>1, <4>1, <4>2, <4>3
    <3> QED
      BY <2>1, <2>2, <2>3, <2>4, <3>1, <3>2 DEF AddressInv
  <2> QED
    BY <2>1, <2>5, ScanUnchanged DEF ScanInv
<1>7. CASE UNCHANGED vars
  <2>1. UNCHANGED <<kernel, fns, unread, scanVars, place, und, resolved>>
        /\ unscanned' = unscanned /\ local_sympos' = local_sympos
    BY <1>7 DEF vars, scanVars
  <2>2. FnsInv' /\ (Unfilled => Unfilled')
    BY <2>1 DEF ScanInv, FnsInv, Sig, Unfilled, scanVars
  <2>3. AddressInv => AddressInv'
    <3>1. (\A m : Positions(m)' = Positions(m)) /\ (\A m, i : Nth(m, i)' = Nth(m, i))
      BY <2>1, ScanDefs DEF Positions
    <3> QED
      BY <2>1, <3>1 DEF AddressInv, Candidates
  <2> QED
    BY <2>1, <2>2, <2>3, ScanUnchanged DEF ScanInv
<1> QED
  BY <1>1, <1>2, <1>3, <1>4, <1>5, <1>6, <1>7, ScanBegins DEF Next

THEOREM ScanInvariance == Spec => []ScanInv
BY ScanInit, ScanStep, PTL DEF Spec

-------------------------------------------------------------------------------
(***************************************************************************)
(* Where numbers identify a function there are two cases: all definitions  *)
(* of the name that are not variables are static functions, and kallsyms   *)
(* has the variables behind them; or all are global and one is linked, and *)
(* kallsyms has no other symbol.                                           *)
(***************************************************************************)
Plain(d) ==
  /\ \A h \in Homonym : d.unit # h[1]
  /\ d.file = Header => d.unit \in AllFiles

AllStatic(n) ==
  \A d \in kernel : d.name = n /\ d.kind # "variable" =>
    /\ d.kind = "function" /\ d.bind = "static" /\ Linked(d) /\ Plain(d) /\ n # KernPath
    /\ \A e \in kernel : e.name = n /\ e.kind # "variable" => e.section = d.section
    /\ \A v \in Kallsyms(n) : v.kind = "variable" => Address(d) < Address(v)

OneGlobal(n, d) ==
  /\ d \in kernel /\ d.name = n /\ d = LinkerChoice(n) /\ Linked(d) /\ Plain(d)
  /\ d.kind = "function"
  /\ n = KernPath => d.bind = "strong"
  /\ \A e \in kernel : e.name = n /\ e.kind # "variable" =>
       e.bind # "static" /\ (Linked(e) => e = d)
  /\ \A e, g \in kernel : /\ e.name = n /\ e.kind # "variable" /\ e.file \in AllFiles
                          /\ g.name = n /\ g.kind # "variable" /\ g.file \in AllFiles
                          => e = g
  /\ \A v \in Kallsyms(n) : v.kind # "variable"

LEMMA AtMostOne ==
  ASSUME NEW S, IsFiniteSet(S), Cardinality(S) <= 1
  PROVE  \A x, y \in S : x = y
<1>1. Cardinality(S) \in Nat
  BY FS_CardinalityType
<1>2. Cardinality(S) = 0 \/ Cardinality(S) = 1
  BY <1>1
<1> QED
  BY <1>2, FS_EmptySet, FS_Singleton

LEMMA NumberedCases ==
  ASSUME kernel \in Kernel, NEW n \in Name, Numbered(n)
  PROVE  AllStatic(n) \/ \E d : OneGlobal(n, d)
<1> DEFINE Named == {d \in kernel : d.name = n /\ d.kind # "variable"}
           Public == {d \in Named : d.bind # "static"}
<1>1. Public # {} => /\ LinkerChoice(n) \in Namesakes(n) /\ LinkerChoice(n).bind # "static"
                     /\ LinkerChoice(n) \in kernel /\ LinkerChoice(n).name = n
                     /\ \A e \in Public : Linked(e) => e = LinkerChoice(n)
  <2> SUFFICES ASSUME NEW g \in Public
               PROVE  /\ LinkerChoice(n) \in Namesakes(n) /\ LinkerChoice(n).bind # "static"
                      /\ LinkerChoice(n) \in kernel /\ LinkerChoice(n).name = n
                      /\ \A e \in Public : Linked(e) => e = LinkerChoice(n)
    OBVIOUS
  <2>1. g \in Global(n)
    BY DEF Global
  <2>2. PICK c : c = LinkerChoice(n)
    OBVIOUS
  <2>3. c \in Global(n) /\ (g # c => (c.kind = "variable" <=> g.kind = "variable"))
    BY <2>1, <2>2, LinkerChooses
  <2>4. c.kind # "variable" /\ c \in kernel /\ c.name = n /\ c.bind # "static"
    BY <2>3 DEF Global
  <2>5. c \in Namesakes(n)
    BY <2>2, <2>4 DEF Namesakes, Linked
  <2>6. \A e \in Public : Linked(e) => e = c
    BY <2>2 DEF Linked
  <2> QED
    BY <2>2, <2>4, <2>5, <2>6
<1>2. \A d \in Namesakes(n) :
        /\ Plain(d) /\ d.kind = "function" /\ Linked(d) /\ d \in Named
        /\ n = KernPath => d.bind = "strong"
        /\ \A v \in Kallsyms(n) :
             v.kind = "variable" => d.bind = "static" /\ Address(d) < Address(v)
  BY DEF Numbered, Plain, Namesakes
<1>3. ASSUME NEW d \in Namesakes(n), NEW e \in Namesakes(n), d # e
      PROVE  d.bind = "static" /\ e.bind = "static" /\ d.section = e.section
  <2>1. PICK S, T : S = Namesakes(n) /\ T = {x \in kernel : x.name = n}
    OBVIOUS
  <2>2. IsFiniteSet(T) /\ S \subseteq T
    BY <2>1, NamesakesFinite DEF Namesakes
  <2>3. IsFiniteSet(S)
    BY <2>2, FS_Subset
  <2>4. Cardinality(S) # 1
    BY <1>3, <2>1, <2>3, AtMostOne
  <2> QED
    BY <2>1, <2>4 DEF Numbered
<1>4. CASE Public = {}
  <2>1. \A d \in Named : d.bind = "static" /\ d \in Namesakes(n)
    BY <1>4 DEF Namesakes, Linked
  <2>2. \A d \in Named : n # KernPath
    BY <1>2, <2>1
  <2> QED
    BY <1>2, <1>3, <2>1, <2>2 DEF AllStatic
<1>5. CASE Public # {}
  <2>1. PICK d : d = LinkerChoice(n)
    OBVIOUS
  <2>2. d \in Namesakes(n) /\ d.bind # "static" /\ d \in kernel /\ d.name = n
    BY <1>1, <1>5, <2>1
  <2>3. \A e \in Namesakes(n) : e = d
    BY <1>3, <2>2
  <2>4. \A e \in Named : e.bind # "static"
    BY <2>2, <2>3 DEF Namesakes, Linked
  <2>5. \A e \in Named : Linked(e) => e = d
    BY <1>1, <1>5, <2>1, <2>4
  <2>6. \A e, g \in Named : e.file \in AllFiles /\ g.file \in AllFiles => e = g
    <3>1. PICK G, T : G = {e \in Global(n) : e.file \in AllFiles}
                      /\ T = {x \in kernel : x.name = n}
      OBVIOUS
    <3>2. G \subseteq T /\ IsFiniteSet(T)
      BY <3>1, NamesakesFinite DEF Global
    <3>3. IsFiniteSet(G) /\ Cardinality(G) <= 1
      BY <3>1, <3>2, FS_Subset DEF Numbered
    <3>4. \A e, g \in G : e = g
      BY <3>3, AtMostOne
    <3> QED
      BY <2>4, <3>1, <3>4 DEF Global
  <2>7. \A v \in Kallsyms(n) : v.kind # "variable"
    BY <1>2, <2>2
  <2>8. Plain(d) /\ d.kind = "function" /\ Linked(d) /\ (n = KernPath => d.bind = "strong")
    BY <1>2, <2>2
  <2>9. OneGlobal(n, d)
    BY <2>1, <2>2, <2>4, <2>5, <2>6, <2>7, <2>8 DEF OneGlobal
  <2> QED
    BY <2>9
<1> QED
  BY <1>4, <1>5

\* The functions that the first pass has found.
LEMMA KnownFns ==
  ASSUME ScanInv, place # "first"
  PROVE  \A n, f : <<n, f>> \in fns <=>
                     \E d \in kernel : d.kind = "function" /\ d.name = n /\ d.file = f
<1>1. fns = {Sig(d) : d \in {d \in kernel : d.kind = "function"}}
  BY DEF ScanInv, FnsInv
<1> QED
  BY <1>1 DEF Sig

\* A static function is found in its own file, if that is one of the module's.
LEMMA LocalFileExact ==
  ASSUME ScanInv, place # "first", NEW n \in Name, AllStatic(n),
         NEW d \in kernel, d.name = n, d.kind # "variable"
  PROVE  LocalFile(Entry(d, "local")) = {d.file} \cap AllFiles
<1>1. Plain(d) /\ d.unit \in Unit /\ d.file \in Unit \cup {Header}
      /\ (d.file # d.unit => d.file = Header) /\ d.kind = "function"
  BY NamesakesApart DEF AllStatic, ScanInv
<1>2. FileEntry(d.unit) = d.unit
  BY <1>1 DEF FileEntry, Plain
<1>3. Entry(d, "local").def = d
  BY DEF Entry
<1>4. LocalFile(Entry(d, "local")) =
        IF d.unit \notin AllFiles THEN {}
        ELSE IF <<n, d.unit>> \in fns THEN {d.unit} ELSE AnyOfFirst(n, {Header})
  BY <1>2, <1>3 DEF LocalFile
<1>5. Header \in AllFiles /\ Header \notin Unit
  BY UnitAssumption DEF AllFiles
<1>6. <<n, d.unit>> \in fns <=> d.file = d.unit
  <2>1. ASSUME NEW e \in kernel, e.name = n, e.file = d.unit
        PROVE  e = d
    <3>1. e.file # Header
      BY <1>1, <1>5, <2>1
    <3>2. e.unit = d.unit
      BY <2>1, <3>1, NamesakesApart DEF ScanInv
    <3> QED
      BY <2>1, <3>2, NamesakesApart DEF ScanInv
  <2> QED
    BY <1>1, <2>1, KnownFns
<1>7. CASE d.file = d.unit
  BY <1>4, <1>6, <1>7
<1>8. CASE d.file # d.unit
  <2>1. d.file = Header /\ d.unit \in AllFiles
    BY <1>1, <1>8 DEF Plain
  <2>2. <<n, Header>> \in fns
    BY <1>1, <2>1, KnownFns
  <2>3. AnyOfFirst(n, {Header}) = {Header}
    BY <2>2 DEF AnyOfFirst
  <2> QED
    BY <1>4, <1>5, <1>6, <1>8, <2>1, <2>3
<1> QED
  BY <1>7, <1>8

\* Of a global function, get_in_any finds the only file of the module with a
\* definition, if there is one.
LEMMA GlobalFileExact ==
  ASSUME ScanInv, place # "first", NEW n \in Name, NEW d, OneGlobal(n, d),
         NEW F \in {AllFiles, ModFiles}
  PROVE  AnyOfFirst(n, F) =
           {f \in F : \E e \in kernel : e.kind = "function" /\ e.name = n /\ e.file = f}
<1> DEFINE Found ==
             {f \in F : \E e \in kernel : e.kind = "function" /\ e.name = n /\ e.file = f}
<1>1. F \subseteq AllFiles
  BY DEF AllFiles, ModFiles
<1>2. \A f, g \in Found : f = g
  BY <1>1 DEF OneGlobal
<1>3. Header \notin Found
  <2>1. \A e \in kernel : e.kind = "function" /\ e.name = n => e.file = e.unit /\ e.unit \in Unit
    BY NamesakesApart DEF ScanInv, OneGlobal
  <2> QED
    BY <2>1, UnitAssumption
<1>4. Found \subseteq ModSrc \cup SdcrSrc
  BY <1>1, <1>3 DEF AllFiles
<1>5. \A S : {f \in F \cap S : <<n, f>> \in fns} = Found \cap S
  BY KnownFns
<1> HIDE DEF Found
<1>6. AnyOfFirst(n, F) =
        IF Found \cap {Header} # {} THEN Found \cap {Header}
        ELSE IF Found \cap ModSrc # {} THEN Found \cap ModSrc ELSE Found \cap SdcrSrc
  BY <1>5 DEF AnyOfFirst
<1>7. AnyOfFirst(n, F) = Found
  BY <1>2, <1>3, <1>4, <1>6
<1> QED
  BY <1>7 DEF Found

\* What a name in a file of the module stands for, in each of the two cases.
LEMMA DenotedExact ==
  ASSUME kernel \in Kernel, NEW n \in Name, NEW f,
         NEW g \in kernel, g.kind = "function", Sig(g) = <<n, f>>
  PROVE  /\ \A d \in kernel : Sig(d) = <<n, f>> => d.kind = "function" /\ d.name = n
         /\ AllStatic(n) => Denoted(<<n, f>>) = {d \in kernel : Sig(d) = <<n, f>>}
         /\ \A d : OneGlobal(n, d) => Denoted(<<n, f>>) = {d}
<1> DEFINE own == {d \in kernel : Sig(d) = <<n, f>> /\ Linked(d)}
<1>1. \A d \in kernel : Sig(d) = <<n, f>> <=> d.name = n /\ d.file = f
  BY DEF Sig
<1>2. ASSUME NEW d \in kernel, d.name = n, d.file = f
      PROVE  d.kind = "function"
  <2> SUFFICES ASSUME d.kind # "function" PROVE FALSE
    OBVIOUS
  <2>1. d.unit = f /\ d.unit # Header
    BY <1>2, KernelFacts, NamesakesApart, UnitAssumption
  <2>2. g.unit = f /\ g.name = n
    BY <1>1, <2>1, KernelFacts
  <2> QED
    BY <1>2, <2>1, <2>2, KernelFacts
<1>3. Denoted(<<n, f>>) = IF own = {} THEN {LinkerChoice(n)} ELSE own
  BY DEF Denoted
<1>4. AllStatic(n) => own = {d \in kernel : Sig(d) = <<n, f>>}
  BY <1>1, <1>2 DEF AllStatic
<1>5. ASSUME NEW d, OneGlobal(n, d)
      PROVE  own \subseteq {d} /\ LinkerChoice(n) = d
  BY <1>1, <1>2, <1>5 DEF OneGlobal
<1> QED
  BY <1>1, <1>2, <1>3, <1>4, <1>5

\* When the symbol table has been read, a function is taken to be in vmlinux
\* exactly if it is.
LEMMA PresenceExact ==
  ASSUME ScanInv, place \notin {"first", "second"}, unscanned = {},
         NEW n \in Name, Numbered(n), NEW f
  PROVE  <<n, f>> \in in_vmlinux <=>
           /\ f \in AllFiles /\ \E g \in kernel : g.kind = "function" /\ Sig(g) = <<n, f>>
           /\ \E d \in Denoted(<<n, f>>) : HasSymbol(d)
<1>1. Scanned = Symtab /\ PresenceInv /\ kernel \in Kernel
  BY DEF ScanInv, Scanned
<1>2. <<n, f>> \in in_vmlinux =>
        \E s \in Symtab : s.def.name = n /\ f \in PresentIn(s)
  BY <1>1 DEF PresenceInv
<1>3. \A s \in Symtab : PresentIn(s) # {} =>
        \E g \in PresentIn(s) : <<s.def.name, g>> \in in_vmlinux
  BY <1>1 DEF PresenceInv
<1>4. CASE AllStatic(n)
  <2>1. \A s \in Symtab : s.def.name = n /\ PresentIn(s) # {} =>
          /\ s.def \in kernel /\ s = Entry(s.def, "local") /\ HasSymbol(s.def)
          /\ s.def.kind # "variable"
    <3> SUFFICES ASSUME NEW s \in Symtab, s.def.name = n, PresentIn(s) # {}
                 PROVE  /\ s.def \in kernel /\ s = Entry(s.def, "local")
                        /\ HasSymbol(s.def) /\ s.def.kind # "variable"
      OBVIOUS
    <3>1. s.kind \in {"local", "global"}
      BY DEF PresentIn
    <3>2. PICK e \in kernel :
            /\ HasSymbol(e) /\ e.kind # "variable"
            /\ s = Entry(e, IF e.bind = "static" THEN "local" ELSE "global")
      BY <3>1 DEF Symtab, Entry
    <3>3. s.def = e
      BY <3>2 DEF Entry
    <3>4. e.bind = "static"
      BY <1>4, <3>2, <3>3 DEF AllStatic
    <3> QED
      BY <3>2, <3>3, <3>4
  <2>2. \A d \in kernel : d.name = n /\ d.kind # "variable" =>
          PresentIn(Entry(d, "local")) = {d.file} \cap AllFiles
    BY <1>4, LocalFileExact DEF PresentIn, Entry
  <2>3. \A d \in kernel : d.name = n /\ d.kind # "variable" /\ HasSymbol(d) =>
          Entry(d, "local") \in Symtab
    BY <1>4 DEF Symtab, Entry, AllStatic
  <2>4. \A d : Entry(d, "local").def = d
    BY DEF Entry
  <2>5. <<n, f>> \in in_vmlinux <=>
          \E d \in kernel : /\ d.kind # "variable" /\ d.name = n /\ d.file = f
                            /\ f \in AllFiles /\ HasSymbol(d)
    <3>1. ASSUME <<n, f>> \in in_vmlinux
          PROVE  \E d \in kernel : /\ d.kind # "variable" /\ d.name = n /\ d.file = f
                                   /\ f \in AllFiles /\ HasSymbol(d)
      <4>1. PICK s \in Symtab : s.def.name = n /\ f \in PresentIn(s)
        BY <1>2, <3>1
      <4>2. s.def \in kernel /\ s = Entry(s.def, "local") /\ HasSymbol(s.def)
            /\ s.def.kind # "variable"
        BY <2>1, <4>1
      <4>3. f \in {s.def.file} \cap AllFiles
        BY <2>2, <4>1, <4>2
      <4> QED
        BY <4>1, <4>2, <4>3
    <3>2. ASSUME NEW d \in kernel, d.kind # "variable", d.name = n, d.file = f,
                 f \in AllFiles, HasSymbol(d)
          PROVE  <<n, f>> \in in_vmlinux
      <4>1. PresentIn(Entry(d, "local")) = {f}
        BY <2>2, <3>2
      <4>2. Entry(d, "local") \in Symtab /\ Entry(d, "local").def.name = n
        BY <2>3, <2>4, <3>2
      <4> QED
        BY <1>3, <4>1, <4>2
    <3> QED
      BY <3>1, <3>2
  <2>6. ASSUME NEW g \in kernel, g.kind = "function", Sig(g) = <<n, f>>
        PROVE  /\ Denoted(<<n, f>>) = {d \in kernel : d.name = n /\ d.file = f}
               /\ \A d \in kernel : d.name = n /\ d.file = f => d.kind = "function"
    BY <1>1, <1>4, <2>6, DenotedExact DEF Sig
  <2>7. \A d \in kernel : /\ Sig(d) = <<n, f>> <=> d.name = n /\ d.file = f
                          /\ d.name = n /\ d.kind # "variable" => d.kind = "function"
    BY <1>4 DEF Sig, AllStatic
  <2> QED
    BY <2>5, <2>6, <2>7
<1>5. ASSUME NEW d, OneGlobal(n, d)
      PROVE  <<n, f>> \in in_vmlinux <=>
               /\ f \in AllFiles
               /\ \E g \in kernel : g.kind = "function" /\ Sig(g) = <<n, f>>
               /\ \E e \in Denoted(<<n, f>>) : HasSymbol(e)
  <2> DEFINE Found == {g \in AllFiles : \E e \in kernel :
                         e.kind = "function" /\ e.name = n /\ e.file = g}
  <2>1. d \in kernel /\ d.name = n /\ d.bind # "static" /\ d.kind # "variable"
    BY <1>5 DEF OneGlobal
  <2>2. \A s \in Symtab : s.def.name = n /\ PresentIn(s) # {} =>
          s = Entry(d, "global") /\ HasSymbol(d)
    <3> SUFFICES ASSUME NEW s \in Symtab, s.def.name = n, PresentIn(s) # {}
                 PROVE  s = Entry(d, "global") /\ HasSymbol(d)
      OBVIOUS
    <3>1. s.kind \in {"local", "global"}
      BY DEF PresentIn
    <3>2. PICK e \in kernel :
            /\ HasSymbol(e) /\ e.kind # "variable"
            /\ s = Entry(e, IF e.bind = "static" THEN "local" ELSE "global")
      BY <3>1 DEF Symtab, Entry
    <3>3. e.name = n
      BY <3>2 DEF Entry
    <3>4. e = d
      BY <1>5, <3>2, <3>3 DEF OneGlobal, HasSymbol
    <3> QED
      BY <2>1, <3>2, <3>4
  <2>3. PresentIn(Entry(d, "global")) = Found
    <3>1. PresentIn(Entry(d, "global")) = AnyOfFirst(n, AllFiles)
      BY <2>1 DEF PresentIn, Entry
    <3> QED
      BY <1>5, <3>1, GlobalFileExact
  <2>4. HasSymbol(d) => Entry(d, "global") \in Symtab
    BY <2>1 DEF Symtab, Entry
  <2>5. Entry(d, "global").def.name = n
    BY <2>1 DEF Entry
  <2>6. \A g, h \in Found : g = h
    BY <1>5 DEF OneGlobal
  <2>7. f \in Found <=>
          f \in AllFiles /\ \E g \in kernel : g.kind = "function" /\ Sig(g) = <<n, f>>
    BY DEF Sig
  <2>8. ASSUME f \in Found
        PROVE  Denoted(<<n, f>>) = {d}
    BY <1>1, <1>5, <2>7, <2>8, DenotedExact
  <2> HIDE DEF Found
  <2>9. <<n, f>> \in in_vmlinux <=> f \in Found /\ HasSymbol(d)
    BY <1>2, <1>3, <2>2, <2>3, <2>4, <2>5, <2>6
  <2> QED
    BY <2>7, <2>8, <2>9
<1> QED
  BY <1>1, <1>4, <1>5, NumberedCases

-------------------------------------------------------------------------------
\* An address is a number, and within a section it follows the order of the units.
LEMMA AddressOrder ==
  ASSUME kernel \in Kernel
  PROVE  /\ \A d \in kernel : Address(d) \in Nat
         /\ \A d, e \in kernel : d.section = e.section =>
              (Address(d) <= Address(e) <=> UnitPos(d.unit) <= UnitPos(e.unit))
<1>1. \A s \in Section : SectionPos(s) \in Nat
  <2>1. \A s \in Section : \E i \in 1 .. 5 : SectionSeq[i] = s
    BY DEF Section
  <2> QED
    BY <2>1 DEF SectionPos
<1>2. Len(UnitSeq) \in Nat
  BY UnitAssumption
<1>3. \A s \in Section : SectionPos(s) * Len(UnitSeq) \in Nat
  BY <1>1, <1>2
<1>4. \A d \in kernel : d.section \in Section /\ UnitPos(d.unit) \in Nat
  BY NamesakesApart
<1>5. ASSUME NEW d \in kernel, NEW e \in kernel
      PROVE  /\ Address(d) \in Nat
             /\ d.section = e.section =>
                  (Address(d) <= Address(e) <=> UnitPos(d.unit) <= UnitPos(e.unit))
  <2>1. PICK k, l : k = SectionPos(d.section) * Len(UnitSeq)
                    /\ l = SectionPos(e.section) * Len(UnitSeq)
    OBVIOUS
  <2>2. /\ k \in Nat /\ l \in Nat /\ Address(d) = k + UnitPos(d.unit)
        /\ Address(e) = l + UnitPos(e.unit)
        /\ d.section = e.section => k = l
    BY <1>3, <1>4, <2>1 DEF Address
  <2> QED
    BY <1>4, <2>2
<1> QED
  BY <1>5

LEMMA KallsymsFinite ==
  ASSUME kernel \in Kernel, NEW n
  PROVE  IsFiniteSet(Kallsyms(n)) /\ Cardinality(Kallsyms(n)) \in Nat
<1>1. PICK T, K : T = {x \in kernel : x.name = n} /\ K = Kallsyms(n)
  OBVIOUS
<1>2. IsFiniteSet(T) /\ K \subseteq T
  BY <1>1, NamesakesFinite DEF Kallsyms
<1>3. IsFiniteSet(K)
  BY <1>2, FS_Subset
<1> QED
  BY <1>1, <1>3, FS_CardinalityType

\* A static function is the one that kallsyms lists at its rank.
LEMMA RankExact ==
  ASSUME kernel \in Kernel, NEW n \in Name, AllStatic(n), NEW d \in Locals(n)
  PROVE  /\ Cardinality(UpTo(n, d)) \in Nat \ {0}
         /\ Cardinality(UpTo(n, d)) <= Cardinality(Kallsyms(n))
         /\ Nth(n, Cardinality(UpTo(n, d))) = {d}
<1> DEFINE Before(e) == {x \in Kallsyms(n) : Address(x) <= Address(e)}
<1>1. /\ Locals(n) \subseteq Kallsyms(n)
      /\ \A v \in Kallsyms(n) \ Locals(n) : \A g \in Locals(n) : Address(g) < Address(v)
  <2>1. d \in kernel /\ d.name = n /\ d.kind # "variable"
    BY DEF Locals
  <2>2. n # KernPath
    BY <2>1 DEF AllStatic
  <2>3. Locals(n) \subseteq Kallsyms(n)
    BY <2>2 DEF Kallsyms, Locals
  <2>4. ASSUME NEW v \in Kallsyms(n) \ Locals(n)
        PROVE  v.kind = "variable"
    BY DEF Kallsyms, Locals, AllStatic
  <2>5. \A g \in Locals(n) : g \in kernel /\ g.name = n /\ g.kind # "variable"
    BY DEF Locals
  <2> QED
    BY <2>3, <2>4, <2>5 DEF AllStatic
<1>2. \A e \in Locals(n) : /\ e \in kernel /\ e.name = n /\ e.kind # "variable"
                           /\ UnitPos(e.unit) \in Nat
  BY NamesakesApart DEF Locals
<1>3. \A e, g \in Locals(n) : e # g => UnitPos(e.unit) # UnitPos(g.unit)
  BY <1>2, NamesakesApart
<1>4. \A e, g \in Locals(n) : Address(e) <= Address(g) <=> UnitPos(e.unit) <= UnitPos(g.unit)
  <2>1. \A e, g \in Locals(n) : e.section = g.section
    BY <1>2 DEF AllStatic
  <2> QED
    BY <1>2, <2>1, AddressOrder
<1>5. \A v \in Kallsyms(n) : Address(v) \in Nat
  BY AddressOrder DEF Kallsyms
<1>6. \A g \in Locals(n) : Before(g) = UpTo(n, g)
  BY <1>1, <1>4, <1>5 DEF UpTo
<1>7. \A e \in Kallsyms(n) : IsFiniteSet(Before(e)) /\ e \in Before(e)
  <2> SUFFICES ASSUME NEW e \in Kallsyms(n)
               PROVE  IsFiniteSet(Before(e)) /\ e \in Before(e)
    OBVIOUS
  <2>1. PICK K, B : K = Kallsyms(n) /\ B = Before(e)
    OBVIOUS
  <2>2. IsFiniteSet(K) /\ B \subseteq K
    BY <2>1, KallsymsFinite
  <2>3. IsFiniteSet(B)
    BY <2>2, FS_Subset
  <2> QED
    BY <1>5, <2>1, <2>3
<1>8. ASSUME NEW e \in Kallsyms(n), NEW g \in Kallsyms(n), Address(e) < Address(g)
      PROVE  Cardinality(Before(e)) # Cardinality(Before(g))
  <2>1. PICK E, G : E = Before(e) /\ G = Before(g)
    OBVIOUS
  <2>2. E \subseteq G /\ g \in G /\ g \notin E
    BY <1>5, <1>8, <2>1
  <2>3. IsFiniteSet(G)
    BY <1>7, <2>1
  <2>4. Cardinality(E) # Cardinality(G)
    BY <2>2, <2>3, FS_Subset
  <2> QED
    BY <2>1, <2>4
<1>9. \A g \in Kallsyms(n) : g # d => Address(g) < Address(d) \/ Address(d) < Address(g)
  <2> SUFFICES ASSUME NEW g \in Kallsyms(n), g # d
               PROVE  Address(g) < Address(d) \/ Address(d) < Address(g)
    OBVIOUS
  <2>1. CASE g \in Locals(n)
    <3>1. UnitPos(g.unit) # UnitPos(d.unit)
      BY <1>3, <2>1
    <3>2. /\ Address(g) <= Address(d) <=> UnitPos(g.unit) <= UnitPos(d.unit)
          /\ Address(d) <= Address(g) <=> UnitPos(d.unit) <= UnitPos(g.unit)
      BY <1>4, <2>1
    <3> QED
      BY <1>1, <1>2, <1>5, <2>1, <3>1, <3>2
  <2>2. CASE g \notin Locals(n)
    BY <1>1, <2>2
  <2> QED
    BY <2>1, <2>2
<1>10. \A g \in Kallsyms(n) : Cardinality(Before(g)) = Cardinality(Before(d)) <=> g = d
  BY <1>1, <1>8, <1>9
<1>11. Nth(n, Cardinality(Before(d))) = {d}
  <2> HIDE DEF Before
  <2>1. Nth(n, Cardinality(Before(d))) =
          {g \in Kallsyms(n) : Cardinality(Before(g)) = Cardinality(Before(d))}
    BY DEF Nth, Before
  <2> QED
    BY <1>1, <1>10, <2>1
<1>12. /\ Cardinality(Before(d)) \in Nat \ {0}
       /\ Cardinality(Before(d)) <= Cardinality(Kallsyms(n))
  <2>1. PICK K, B : K = Kallsyms(n) /\ B = Before(d)
    OBVIOUS
  <2>2. IsFiniteSet(K) /\ B \subseteq K /\ IsFiniteSet(B) /\ B # {}
    BY <1>1, <1>7, <2>1, KallsymsFinite
  <2>3. Cardinality(B) \in Nat /\ Cardinality(B) # 0 /\ Cardinality(B) <= Cardinality(K)
    BY <2>2, FS_CardinalityType, FS_EmptySet, FS_Subset
  <2> QED
    BY <2>1, <2>3
<1> QED
  BY <1>6, <1>11, <1>12

\* A global function is the only one that kallsyms lists.
LEMMA SoleExact ==
  ASSUME kernel \in Kernel, NEW n \in Name, NEW d, OneGlobal(n, d)
  PROVE  /\ Kallsyms(n) = {e \in {d} : HasSymbol(e)} /\ Locals(n) = {}
         /\ Cardinality(Kallsyms(n)) \in {0, 1}
         /\ Nth(n, 1) = Kallsyms(n)
<1>1. Kallsyms(n) = {e \in {d} : HasSymbol(e)} /\ Locals(n) = {}
  <2>1. \A e \in Kallsyms(n) : e = d /\ HasSymbol(e)
    BY DEF OneGlobal, Kallsyms, HasSymbol
  <2>2. HasSymbol(d) => d \in Kallsyms(n)
    BY DEF OneGlobal, Kallsyms
  <2>3. Locals(n) = {}
    BY DEF OneGlobal, Locals
  <2> QED
    BY <2>1, <2>2, <2>3
<1>2. Address(d) <= Address(d)
  <2>1. Address(d) \in Nat
    BY AddressOrder DEF OneGlobal
  <2> QED
    BY <2>1
<1>3. CASE HasSymbol(d)
  <2>1. Kallsyms(n) = {d}
    BY <1>1, <1>3
  <2>2. Cardinality({d}) = 1
    BY FS_Singleton
  <2>3. {e \in Kallsyms(n) : Address(e) <= Address(d)} = {d}
    BY <1>2, <2>1
  <2>4. \A e \in Kallsyms(n) :
          Cardinality({x \in Kallsyms(n) : Address(x) <= Address(e)}) = 1
    BY <2>1, <2>2, <2>3
  <2> QED
    BY <1>1, <2>1, <2>2, <2>4 DEF Nth
<1>4. CASE ~HasSymbol(d)
  <2>1. Kallsyms(n) = {}
    BY <1>1, <1>4
  <2> QED
    BY <1>1, <2>1, FS_EmptySet DEF Nth
<1> QED
  BY <1>3, <1>4

\* The position of a function that vmlinux has stands for that function.
LEMMA PositionExact ==
  ASSUME ScanInv, place \notin {"first", "second"}, unscanned = {},
         NEW n \in Name, Numbered(n), NEW f, <<n, f>> \in in_vmlinux
  PROVE  LET p == local_sympos[<<n, f>>] IN
           /\ ~Unresolvable(p, n)
           /\ Nth(n, Index(p)) \subseteq Denoted(<<n, f>>)
           /\ Nth(n, TaintedPosition(<<n, f>>)) \cap Denoted(<<n, f>>) # {}
<1> DEFINE p == local_sympos[<<n, f>>]
<1>1. /\ f \in AllFiles /\ \E g \in kernel : g.kind = "function" /\ Sig(g) = <<n, f>>
      /\ \E d \in Denoted(<<n, f>>) : HasSymbol(d)
  BY PresenceExact
<1>2. kernel \in Kernel /\ ReadLocals(n) = Locals(n)
  BY DEF ScanInv, ReadLocals
<1>3. \/ p = 0 /\ \A d \in Locals(n) : f \notin LocalFile(Entry(d, "local"))
      \/ \E d \in Locals(n) : f \in LocalFile(Entry(d, "local"))
                              /\ p = Cardinality(UpTo(n, d))
  BY <1>1, <1>2 DEF ScanInv, PositionInv
<1>4. TaintedPosition(<<n, f>>) = IF p = 0 THEN 1 ELSE p
  BY DEF TaintedPosition
<1> HIDE DEF p
<1>5. CASE AllStatic(n)
  <2>1. /\ Denoted(<<n, f>>) = {d \in kernel : Sig(d) = <<n, f>>}
        /\ \A d \in Denoted(<<n, f>>) : d.kind = "function" /\ d.name = n
    BY <1>1, <1>2, <1>5, DenotedExact
  <2>2. PICK d \in Denoted(<<n, f>>) : HasSymbol(d)
    BY <1>1
  <2>3. d \in Locals(n) /\ d.file = f
    BY <1>5, <2>1, <2>2 DEF Locals, Sig, AllStatic
  <2>4. \A e \in Locals(n) : LocalFile(Entry(e, "local")) = {e.file} \cap AllFiles
    BY <1>5, LocalFileExact DEF Locals
  <2>5. PICK e \in Locals(n) : f \in LocalFile(Entry(e, "local"))
                               /\ p = Cardinality(UpTo(n, e))
    BY <1>1, <1>3, <2>3, <2>4
  <2>6. e \in Denoted(<<n, f>>)
    BY <2>1, <2>4, <2>5 DEF Locals, Sig
  <2>7. p \in Nat \ {0} /\ p <= Cardinality(Kallsyms(n)) /\ Nth(n, p) = {e}
    BY <1>2, <1>5, <2>5, RankExact
  <2>8. ~Unresolvable(p, n)
    <3>1. Cardinality(Kallsyms(n)) \in Nat
      BY <1>2, KallsymsFinite
    <3> QED
      BY <2>7, <3>1 DEF Unresolvable
  <2> QED
    BY <1>4, <2>6, <2>7, <2>8 DEF Index, p
<1>6. ASSUME NEW d, OneGlobal(n, d)
      PROVE  /\ ~Unresolvable(p, n)
             /\ Nth(n, Index(p)) \subseteq Denoted(<<n, f>>)
             /\ Nth(n, TaintedPosition(<<n, f>>)) \cap Denoted(<<n, f>>) # {}
  <2>1. /\ Kallsyms(n) = {e \in {d} : HasSymbol(e)} /\ Locals(n) = {}
        /\ Cardinality(Kallsyms(n)) \in {0, 1} /\ Nth(n, 1) = Kallsyms(n)
    BY <1>2, <1>6, SoleExact
  <2>2. p = 0
    BY <1>3, <2>1
  <2>3. Denoted(<<n, f>>) = {d} /\ HasSymbol(d)
    BY <1>1, <1>2, <1>6, DenotedExact
  <2>4. ~Unresolvable(p, n)
    BY <2>1, <2>2 DEF Unresolvable
  <2> QED
    BY <1>4, <2>1, <2>2, <2>3, <2>4 DEF Index
<1> QED
  BY <1>2, <1>5, <1>6, NumberedCases DEF p

\* For any kernel that the compiler and the linker accept, and in whatever order
\* functions, clones and exports stand in the symbol table of a unit: a function of
\* the module is taken to be in vmlinux exactly if it is there.
THEOREM PresenceCorrect == Spec => []PresenceHonest
<1>1. ScanInv => PresenceHonest
  <2> SUFFICES ASSUME ScanInv, place = "resolve", NEW sig \in Candidates,
                      Numbered(sig[1])
               PROVE  sig \in in_vmlinux <=> \E d \in Denoted(sig) : HasSymbol(d)
    BY DEF PresenceHonest
  <2>1. PICK g \in kernel : g.kind = "function" /\ sig = Sig(g)
    BY DEF Candidates, ScanInv, FnsInv
  <2>2. sig = <<g.name, g.file>> /\ g.file \in AllFiles /\ g.name \in Name
    BY <2>1, NamesakesApart DEF Candidates, Sig, ScanInv
  <2>3. Numbered(g.name) /\ unscanned = {}
    BY <2>2 DEF ScanInv
  <2>4. <<g.name, g.file>> \in in_vmlinux <=>
          /\ g.file \in AllFiles
          /\ \E h \in kernel : h.kind = "function" /\ Sig(h) = <<g.name, g.file>>
          /\ \E d \in Denoted(<<g.name, g.file>>) : HasSymbol(d)
    BY <2>2, <2>3, PresenceExact
  <2> QED
    BY <2>1, <2>2, <2>4
<1> QED
  BY <1>1, ScanInvariance, PTL

\* For any kernel: the exported functions of the module's files are known, under
\* the file that defines them.
THEOREM ExportsCorrect == Spec => []ExportsFound
<1>1. ScanInv => ExportsFound
  <2> SUFFICES ASSUME ScanInv, place = "resolve", NEW n \in Name, Numbered(n),
                      \A d \in kernel : d.name = n /\ d.export => d.kind = "function"
               PROVE  {s \in export : s[1] = n} =
                        {Sig(d) : d \in {d \in kernel : d.name = n /\ d.export
                                                        /\ d.file \in ModFiles}}
    BY DEF ExportsFound
  <2>1. Scanned = Symtab /\ ExportInv
    BY DEF ScanInv, Scanned
  <2>2. \A d \in kernel : d.export => d.bind = "strong"
    BY KernelFacts DEF ScanInv
  <2>3. ASSUME NEW d \in kernel, d.name = n, d.export
        PROVE  OneGlobal(n, d)
    <3>1. ~AllStatic(n)
      BY <2>2, <2>3 DEF AllStatic
    <3>2. PICK e : OneGlobal(n, e)
      BY <3>1, NumberedCases DEF ScanInv
    <3>3. Linked(d)
      <4>1. d \in Global(n) /\ d.bind = "strong"
        BY <2>2, <2>3 DEF Global
      <4>2. LinkerChoice(n) = d
        BY <4>1, LinkerChooses DEF ScanInv
      <4> QED
        BY <2>3, <4>2 DEF Linked
    <3> QED
      BY <2>3, <3>2, <3>3 DEF OneGlobal
  <2>4. ASSUME NEW d \in kernel, d.name = n, d.export
        PROVE  ExportedFrom(Entry(d, "ksymtab")) = {d.file} \cap ModFiles
    <3>1. OneGlobal(n, d)
      BY <2>3, <2>4
    <3>2. d.file = d.unit /\ d.unit \in Unit /\ FileEntry(d.unit) = d.unit
      BY <3>1, NamesakesApart DEF OneGlobal, Plain, FileEntry, ScanInv
    <3>3. AnyOfFirst(n, ModFiles) =
            {f \in ModFiles :
               \E e \in kernel : e.kind = "function" /\ e.name = n /\ e.file = f}
      BY <3>1, GlobalFileExact
    <3>4. d.kind = "function"
          /\ \A e \in kernel : e.kind = "function" /\ e.name = n /\ e.file \in ModFiles
                               /\ d.file \in ModFiles => e = d
      BY <2>4, <3>1 DEF OneGlobal, AllFiles, ModFiles
    <3>5. Exports(Entry(d, "ksymtab")) <=> d.file \in ModFiles
      BY <3>2 DEF Exports, Entry
    <3>6. ExportedFrom(Entry(d, "ksymtab")) =
            IF d.file \in ModFiles THEN AnyOfFirst(n, ModFiles) ELSE {}
      BY <2>4, <3>5 DEF ExportedFrom, Entry
    <3> QED
      BY <2>4, <3>3, <3>4, <3>6
  <2>5. \A s \in Symtab : s.def.name = n /\ ExportedFrom(s) # {} =>
          s.def \in kernel /\ s = Entry(s.def, "ksymtab") /\ s.def.export
    BY DEF Symtab, Entry, ExportedFrom
  <2>6. \A d \in kernel : d.export => Entry(d, "ksymtab") \in Symtab
    BY DEF Symtab, Entry
  <2>7. ASSUME NEW v \in export, v[1] = n
        PROVE  \E d \in kernel : d.name = n /\ d.export /\ d.file \in ModFiles /\ v = Sig(d)
    <3>1. PICK s \in Symtab : \E f \in ExportedFrom(s) : v = <<s.def.name, f>>
      BY <2>1 DEF ExportInv
    <3>2. PICK f \in ExportedFrom(s) : v = <<s.def.name, f>>
      BY <3>1
    <3>3. s.def.name = n
      BY <2>7, <3>2
    <3>4. s.def \in kernel /\ s = Entry(s.def, "ksymtab") /\ s.def.export
      BY <2>5, <3>2, <3>3
    <3>5. f \in {s.def.file} \cap ModFiles
      BY <2>4, <3>2, <3>3, <3>4
    <3> QED
      BY <3>2, <3>3, <3>4, <3>5 DEF Sig
  <2>8. ASSUME NEW d \in kernel, d.name = n, d.export, d.file \in ModFiles
        PROVE  Sig(d) \in export /\ Sig(d)[1] = n
    <3>1. ExportedFrom(Entry(d, "ksymtab")) = {d.file} /\ Entry(d, "ksymtab") \in Symtab
      BY <2>4, <2>6, <2>8
    <3>2. Entry(d, "ksymtab").def.name = n
      BY <2>8 DEF Entry
    <3>3. <<n, d.file>> \in export
      BY <2>1, <3>1, <3>2 DEF ExportInv
    <3> QED
      BY <2>8, <3>3 DEF Sig
  <2> QED
    BY <2>7, <2>8
<1> QED
  BY <1>1, ScanInvariance, PTL

\* For any kernel and any choice of the undefined functions, where numbers identify
\* a function: symbol_resolve does not abort for functions that vmlinux has, and
\* the address it writes for their name is that of one of them.
THEOREM ResolveCorrect == Spec => []ResolvedToMeant
<1>1. ScanInv => ResolvedToMeant
  <2> SUFFICES ASSUME ScanInv, NEW n \in Name, NEW same, same = {f \in und : f[1] = n},
                      Numbered(n), same # {}, same \subseteq in_vmlinux
               PROVE  /\ \A sympos \in Positions(n) : ~Unresolvable(sympos, n)
                      /\ resolved[n] \subseteq UNION {Denoted(f) : f \in same}
    BY DEF ResolvedToMeant
  <2>1. unscanned = {} /\ place \notin {"first", "second"} /\ AddressInv
    BY DEF ScanInv, Unfilled
  <2>2. \A f \in same : /\ ~Unresolvable(local_sympos[f], n)
                        /\ Nth(n, Index(local_sympos[f])) \subseteq Denoted(f)
    <3> SUFFICES ASSUME NEW f \in same
                 PROVE  /\ ~Unresolvable(local_sympos[f], n)
                        /\ Nth(n, Index(local_sympos[f])) \subseteq Denoted(f)
      OBVIOUS
    <3>1. PICK g \in kernel : f = Sig(g)
      BY <2>1 DEF AddressInv, Candidates, ScanInv, FnsInv
    <3>2. f = <<n, g.file>> /\ f \in in_vmlinux
      BY <3>1 DEF Sig
    <3> QED
      BY <2>1, <3>2, PositionExact
  <2>3. Positions(n) = {local_sympos[f] : f \in same}
    BY DEF Positions
  <2>4. resolved[n] = {} \/ \E f \in same : resolved[n] = Nth(n, Index(local_sympos[f]))
    BY <2>1, <2>3 DEF AddressInv
  <2> QED
    BY <2>2, <2>3, <2>4
<1> QED
  BY <1>1, ScanInvariance, PTL

\* For any kernel: where numbers identify a function, the position written for it in
\* tainted_functions.h is its place among all the symbols of the name that kallsyms
\* lists, variables included.
THEOREM TaintedCorrect == Spec => []TaintedHonest
<1>1. ScanInv => TaintedHonest
  <2> SUFFICES ASSUME ScanInv, place = "resolve", NEW f \in in_vmlinux,
                      Numbered(f[1])
               PROVE  Nth(f[1], TaintedPosition(f)) \cap Denoted(f) # {}
    BY DEF TaintedHonest
  <2>1. unscanned = {} /\ PresenceInv
    BY DEF ScanInv
  <2>2. PICK s \in Symtab : \E g \in PresentIn(s) : f = <<s.def.name, g>>
    BY <2>1 DEF PresenceInv, Scanned
  <2>3. PICK g \in PresentIn(s) : f = <<s.def.name, g>>
    BY <2>2
  <2>4. s.def.name \in Name
    <3>1. s.def \in kernel
      BY DEF Symtab
    <3> QED
      BY <3>1, NamesakesApart DEF ScanInv
  <2> QED
    BY <2>1, <2>3, <2>4, PositionExact
<1> QED
  BY <1>1, ScanInvariance, PTL
===============================================================================
