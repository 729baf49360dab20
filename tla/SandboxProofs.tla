---------------------------- MODULE SandboxProofs ----------------------------
(***************************************************************************)
(* Proofs about the command line tool (Sandbox): what is left behind by    *)
(* any number of runs of init, for any kernels, interrupted anywhere.      *)
(***************************************************************************)
EXTENDS Sandbox, FiniteSetTheorems, WellFoundedInduction, TLAPS

Copied == {"inputs", "pre_patch", "collect", "analyze", "extract", "post_patch",
           "springboard", "done"}
Places == {"idle", "rsync", "rsync_dirs", "tools", "ignore"} \cup Copied

-------------------------------------------------------------------------------
(***************************************************************************)
(* Which kernel the parts of the directory come from.  The .gitignore      *)
(* tells how far the last run came: it is the kernel's from the moment     *)
(* rsync begins to the moment when all scripts and patches are there.      *)
(***************************************************************************)
\* A finished copy is of one kernel, and what was extracted is of the same.
OneKernel ==
  ignore = "plugsched" =>
    /\ tools # None /\ \A d \in Dir : src[d] = tools
    /\ inputs \in {None, tools}
    /\ \A f \in ModFile : mod[f] \in {None, tools}

NoInputs == ignore # "plugsched" => inputs = None

\* What the running init has copied is of its kernel.
Progress ==
  /\ place \in {"rsync_dirs", "tools", "ignore"} => ignore = "kernel"
  /\ place = "rsync_dirs" =>
       /\ \A d \in Dir \ todo : src[d] = arg
       /\ SchedDir \notin todo => \A f \in ModFile : mod[f] = None
  /\ place \in {"tools", "ignore"} =>
       /\ \A d \in Dir : src[d] = arg
       /\ \A f \in ModFile : mod[f] = None
  /\ place = "ignore" => tools = arg
  /\ place \in Copied => ignore = "plugsched" /\ tools = arg

OriginInv ==
  /\ place \in Places /\ arg \in Kernel
  /\ ignore \in {None, "kernel", "plugsched"}
  /\ metas \in [Unit -> Kernel \cup {None}]
  /\ src \in [Dir -> Kernel \cup {None}] /\ mod \in [ModFile -> Kernel \cup {None}]
  /\ OneKernel /\ NoInputs /\ Progress
  /\ \E k : package \subseteq {k}

-------------------------------------------------------------------------------
(***************************************************************************)
(* What make finds: an object file without metadata would be skipped.      *)
(***************************************************************************)
\* While rsync works on the directories it deletes all objects, unless it found
\* the kernel's .gitignore; then there are none, if none were left by an rsync
\* that was cut short.
ObjsGone ==
  /\ place = "rsync_dirs" /\ rules # "kernel" => \A u \in objs : DirOf[u] \in todo
  /\ place = "rsync_dirs" /\ rules = "kernel" /\ ~cut => objs = {}
  /\ place # "rsync_dirs" /\ ignore # "plugsched" /\ ~cut => objs = {}

\* As long as the directory has seen only this kernel, all metadata is of its
\* units, and a unit that is compiled has its metadata.
MetasRight ==
  inited = {arg} =>
    /\ \A u \in Unit : metas[u] # None => metas[u] = arg /\ u \in Units[arg]
    /\ ~cut /\ ignore = "plugsched" => \A u \in objs \ BootStub : metas[u] = arg

Known ==
  /\ inited = {} => analysed = {} /\ objs = {} /\ \A u \in Unit : metas[u] = None
  /\ place # "idle" => arg \in inited
  /\ inited # {} => arg \in inited
  /\ analysed # {} => place # "rsync_dirs" /\ ignore = "plugsched"
  /\ objs \subseteq Unit
  /\ place = "analyze" => Units[arg] \subseteq objs

MetaInv == OriginInv /\ ObjsGone /\ MetasRight /\ Known /\ MetadataComplete

-------------------------------------------------------------------------------
LEMMA OriginInit ==
  ASSUME Init
  PROVE  OriginInv
<1>1. \E k : package \subseteq {k}
  BY DEF Init
<1> QED
  BY <1>1 DEF Init, OriginInv, OneKernel, NoInputs, Progress, Places, Copied, None

\* The actions that leave alone what came from where.
LEMMA OriginUnchanged ==
  ASSUME OriginInv, place' \in Places, arg' \in Kernel,
         UNCHANGED <<ignore, metas, src, mod, tools, inputs, package>>,
         place' = "rsync_dirs" => UNCHANGED <<place, arg, todo>>,
         place' \in {"tools", "ignore"} => UNCHANGED <<place, arg>>,
         place' \in Copied => place \in Copied /\ UNCHANGED arg
  PROVE  OriginInv'
BY DEF OriginInv, OneKernel, NoInputs, Progress, Places, Copied

LEMMA OriginStep ==
  ASSUME OriginInv, [Next]_vars
  PROVE  OriginInv'
<1> USE SandboxAssumption
<1>1. ASSUME NEW k \in Kernel, StartInit(k)
      PROVE  OriginInv'
  BY <1>1, OriginUnchanged DEF StartInit, tree, OriginInv, Places, Copied
<1>2. CASE SyncRoot
  BY <1>2 DEF SyncRoot, OriginInv, OneKernel, NoInputs, Progress, Places, Copied
<1>3. ASSUME NEW d \in Dir, SyncDir(d)
      PROVE  OriginInv'
  <2>1. src' \in [Dir -> Kernel \cup {None}] /\ metas' \in [Unit -> Kernel \cup {None}]
        /\ mod' \in [ModFile -> Kernel \cup {None}]
    BY <1>3 DEF SyncDir, MetasKept, ModKept, OriginInv
  <2>2. Progress'
    BY <1>3 DEF SyncDir, ModKept, OriginInv, Progress, Copied
  <2> QED
    BY <1>3, <2>1, <2>2 DEF SyncDir, OriginInv, OneKernel, NoInputs, Progress
<1>4. CASE SyncEnd
  BY <1>4 DEF SyncEnd, tree, OriginInv, OneKernel, NoInputs, Progress, Places, Copied
<1>5. CASE CopyTools
  BY <1>5 DEF CopyTools, OriginInv, OneKernel, NoInputs, Progress, Places, Copied
<1>6. CASE CopyIgnore
  BY <1>6 DEF CopyIgnore, OriginInv, OneKernel, NoInputs, Progress, Places, Copied
<1>7. CASE CopyInputs
  BY <1>7 DEF CopyInputs, OriginInv, OneKernel, NoInputs, Progress, Places, Copied
<1>8. ASSUME NEW d \in Dir, PreExtractPatch(d)
      PROVE  OriginInv'
  BY <1>8, OriginUnchanged DEF PreExtractPatch, OriginInv, Copied
<1>9. CASE PreExtractPatchEnd \/ CollectEnd \/ Finish
  BY <1>9, OriginUnchanged
     DEF PreExtractPatchEnd, CollectEnd, Finish, tree, OriginInv, Places, Copied
<1>10. ASSUME NEW u \in Unit, Compile(u)
       PROVE  OriginInv'
  <2>1. metas' \in [Unit -> Kernel \cup {None}]
    BY <1>10 DEF Compile, OriginInv, Unit
  <2> QED
    BY <1>10, <2>1 DEF Compile, OriginInv, OneKernel, NoInputs, Progress, Copied
<1>11. CASE RunAnalyze
  <2>1. metas' \in [Unit -> Kernel \cup {None}]
    BY <1>11 DEF RunAnalyze, OriginInv
  <2> QED
    BY <1>11, <2>1
       DEF RunAnalyze, OriginInv, OneKernel, NoInputs, Progress, Places, Copied
<1>12. ASSUME NEW f \in ModFile, RunExtract(f)
       PROVE  OriginInv'
  <2>1. mod' \in [ModFile -> Kernel \cup {None}]
    BY <1>12 DEF RunExtract, OriginInv
  <2> QED
    BY <1>12, <2>1 DEF RunExtract, OriginInv, OneKernel, NoInputs, Progress, Copied
<1>13. CASE Fail
  BY <1>13, OriginUnchanged DEF Fail, tree, OriginInv, Places, Copied
<1>14. CASE Build
  <2>1. ignore = "plugsched" /\ inputs = tools
    BY <1>14 DEF Build, OriginInv, OneKernel, NoInputs
  <2>2. package' \subseteq {tools}
    BY <1>14, <2>1 DEF Build, OriginInv, OneKernel
  <2>3. \E k : package' \subseteq {k}
    BY <2>2
  <2> QED
    BY <1>14, <2>3 DEF Build, tree, OriginInv, OneKernel, NoInputs, Progress, Copied
<1>15. CASE UNCHANGED vars
  BY <1>15 DEF vars, tree, OriginInv, OneKernel, NoInputs, Progress, Copied
<1>16. ASSUME Tool
       PROVE  OriginInv'
  BY <1>16, <1>2, <1>3, <1>4, <1>5, <1>6, <1>7, <1>8, <1>9, <1>10, <1>11, <1>12, Zenon
     DEF Tool
<1> QED
  BY <1>1, <1>13, <1>14, <1>15, <1>16, Zenon DEF Next

THEOREM OriginInvariance == Spec => []OriginInv
BY OriginInit, OriginStep, PTL DEF Spec

\* For any kernels and configurations and however often init was started, for
\* whichever kernels, and wherever it stopped: what cmd_build packs comes from the
\* sources of one kernel.
THEOREM PackagePure == Spec => []PackageOfOneKernel
<1>1. OriginInv => PackageOfOneKernel
  <2> SUFFICES ASSUME NEW k, package \subseteq {k}
               PROVE  Cardinality(package) <= 1
    BY DEF OriginInv, PackageOfOneKernel
  <2>1. package = {} \/ package = {k}
    OBVIOUS
  <2>2. Cardinality({}) = 0 /\ Cardinality({k}) = 1
    BY FS_EmptySet, FS_Singleton
  <2> QED
    BY <2>1, <2>2
<1> QED
  BY <1>1, OriginInvariance, PTL

-------------------------------------------------------------------------------
LEMMA MetaInit ==
  ASSUME Init
  PROVE  MetaInv
BY OriginInit, SandboxAssumption
   DEF Init, MetaInv, ObjsGone, MetasRight, Known, MetadataComplete

\* The actions that leave alone the objects and their metadata.
LEMMA MetaUnchanged ==
  ASSUME MetaInv, OriginInv',
         UNCHANGED <<arg, rules, ignore, objs, metas, analysed, inited>>,
         ~cut' => ~cut,
         place' = "rsync_dirs" => UNCHANGED <<place, todo>>,
         place = "rsync_dirs" /\ place' # "rsync_dirs" => cut' \/ objs = {},
         place' # "idle" => place # "idle",
         place' = "analyze" => Units[arg] \subseteq objs
  PROVE  MetaInv'
<1>1. ObjsGone'
  BY DEF MetaInv, ObjsGone
<1>2. MetasRight'
  BY DEF MetaInv, MetasRight
<1>3. Known'
  BY DEF MetaInv, Known
<1>4. MetadataComplete'
  BY DEF MetaInv, MetadataComplete
<1> QED
  BY <1>1, <1>2, <1>3, <1>4 DEF MetaInv

LEMMA MetaStart ==
  ASSUME MetaInv, OriginInv', NEW k \in Kernel, StartInit(k)
  PROVE  MetaInv'
<1>1. UNCHANGED <<rules, ignore, objs, metas, analysed, cut>>
  BY DEF StartInit, tree
<1>2. inited' = {arg'} => inited = {} \/ (inited = {arg} /\ arg' = arg)
  <2> SUFFICES ASSUME inited' = {arg'}, inited # {}
               PROVE  inited = {arg} /\ arg' = arg
    OBVIOUS
  <2>1. arg \in inited /\ inited' = inited \cup {k} /\ arg' = k
    BY DEF StartInit, MetaInv, Known
  <2> QED
    BY <2>1
<1>3. ObjsGone'
  BY <1>1 DEF MetaInv, ObjsGone, StartInit
<1>4. MetasRight'
  BY <1>1, <1>2 DEF MetaInv, MetasRight, Known
<1>5. Known'
  BY <1>1 DEF MetaInv, Known, StartInit
<1>6. MetadataComplete'
  BY <1>1, <1>2 DEF MetaInv, MetadataComplete, Known
<1> QED
  BY <1>3, <1>4, <1>5, <1>6 DEF MetaInv

LEMMA MetaSyncRoot ==
  ASSUME MetaInv, OriginInv', SyncRoot
  PROVE  MetaInv'
<1>1. ObjsGone'
  <2>1. \A u \in objs : DirOf[u] \in Dir
    BY SandboxAssumption DEF MetaInv, Known, Unit
  <2> QED
    BY <2>1 DEF SyncRoot, MetaInv, ObjsGone
<1>2. MetasRight' /\ Known' /\ MetadataComplete'
  BY DEF SyncRoot, MetaInv, MetasRight, Known, MetadataComplete
<1> QED
  BY <1>1, <1>2 DEF MetaInv

LEMMA MetaSyncDir ==
  ASSUME MetaInv, OriginInv', NEW d \in Dir, SyncDir(d)
  PROVE  MetaInv'
<1>1. ignore = "kernel" /\ ignore' = "kernel"
  BY DEF SyncDir, MetaInv, OriginInv, Progress
<1>2. objs' \subseteq objs /\ \A u \in Unit : metas'[u] \in {metas[u], None}
  BY DEF SyncDir, ObjsKept, MetasKept
<1>3. ObjsGone'
  BY DEF SyncDir, ObjsKept, MetaInv, ObjsGone
<1>4. MetasRight' /\ Known' /\ MetadataComplete'
  BY <1>1, <1>2 DEF SyncDir, MetaInv, MetasRight, Known, MetadataComplete
<1> QED
  BY <1>3, <1>4 DEF MetaInv

LEMMA MetaSyncEnd ==
  ASSUME MetaInv, OriginInv', SyncEnd
  PROVE  MetaInv'
<1>1. ignore = "kernel" /\ ignore' = "kernel"
  BY DEF SyncEnd, tree, MetaInv, OriginInv, Progress
<1>2. ObjsGone'
  BY DEF SyncEnd, tree, MetaInv, ObjsGone
<1>3. MetasRight' /\ Known' /\ MetadataComplete'
  BY <1>1 DEF SyncEnd, tree, MetaInv, MetasRight, Known, MetadataComplete
<1> QED
  BY <1>2, <1>3 DEF MetaInv

LEMMA MetaCopyIgnore ==
  ASSUME MetaInv, OriginInv', CopyIgnore
  PROVE  MetaInv'
<1>1. ignore = "kernel"
  BY DEF CopyIgnore, MetaInv, OriginInv, Progress
<1>2. ~cut => objs = {}
  BY <1>1 DEF CopyIgnore, MetaInv, ObjsGone
<1> QED
  BY <1>1, <1>2
     DEF CopyIgnore, MetaInv, ObjsGone, MetasRight, Known, MetadataComplete

LEMMA MetaCompile ==
  ASSUME MetaInv, OriginInv', NEW u \in Unit, Compile(u)
  PROVE  MetaInv'
<1>1. ignore = "plugsched" /\ src[DirOf[u]] = arg /\ arg # None /\ u \in Units[arg]
  BY SandboxAssumption
     DEF Compile, MetaInv, OriginInv, OneKernel, Progress, Copied, Unit
<1>2. metas' = [metas EXCEPT ![u] = arg] /\ metas \in [Unit -> Kernel \cup {None}]
  BY <1>1 DEF Compile, MetaInv, OriginInv
<1>3. UNCHANGED <<place, arg, ignore, analysed, cut, inited>> /\ objs' = objs \cup {u}
  BY DEF Compile
<1>4. ObjsGone'
  BY <1>1, <1>3 DEF Compile, ObjsGone
<1>5. MetasRight'
  BY <1>1, <1>2, <1>3 DEF MetaInv, MetasRight, Known
<1>6. Known' /\ MetadataComplete'
  BY <1>3 DEF Compile, MetaInv, Known, MetadataComplete
<1> QED
  BY <1>4, <1>5, <1>6 DEF MetaInv

LEMMA MetaAnalyze ==
  ASSUME MetaInv, OriginInv', RunAnalyze
  PROVE  MetaInv'
<1>1. UNCHANGED <<arg, ignore, objs, cut, inited>> /\ ignore = "plugsched"
      /\ Units[arg] \subseteq objs /\ arg \in inited /\ arg # None
  BY SandboxAssumption
     DEF RunAnalyze, MetaInv, OriginInv, Progress, Copied, Known
<1>2. metas' = [u \in Unit |-> IF u \in BootStub THEN None ELSE metas[u]]
  BY DEF RunAnalyze, StubsDropped
<1>3. ObjsGone' /\ Known'
  BY <1>1 DEF RunAnalyze, MetaInv, ObjsGone, Known
<1>4. MetasRight'
  BY <1>1, <1>2 DEF MetaInv, MetasRight, Known
<1>5. MetadataComplete'
  <2> SUFFICES ASSUME ~cut, inited = {arg}
               PROVE  analysed' = {<<u, arg>> : u \in Units[arg] \ BootStub}
    BY <1>1 DEF MetadataComplete
  <2>1. \A u \in Unit : metas'[u] # None <=> u \in Units[arg] \ BootStub
    BY <1>1, <1>2 DEF MetaInv, MetasRight, Known
  <2>2. \A u \in Unit : metas'[u] # None => metas'[u] = arg
    BY <1>2 DEF MetaInv, MetasRight
  <2>3. analysed' = {<<u, metas'[u]>> : u \in {u \in Unit : metas'[u] # None}}
    BY DEF RunAnalyze
  <2>4. Units[arg] \subseteq Unit
    BY <1>1 DEF MetaInv, Known
  <2> QED
    BY <2>1, <2>2, <2>3, <2>4
<1> QED
  BY <1>3, <1>4, <1>5 DEF MetaInv

LEMMA MetaStep ==
  ASSUME MetaInv, [Next]_vars
  PROVE  MetaInv'
<1>1. OriginInv'
  BY OriginStep DEF MetaInv
<1>2. ASSUME NEW k \in Kernel, StartInit(k)
      PROVE  MetaInv'
  BY <1>1, <1>2, MetaStart
<1>3. ASSUME NEW d \in Dir, SyncDir(d) \/ PreExtractPatch(d)
      PROVE  MetaInv'
  <2>1. CASE SyncDir(d)
    BY <1>1, <2>1, MetaSyncDir
  <2>2. CASE PreExtractPatch(d)
    BY <1>1, <2>2, MetaUnchanged DEF PreExtractPatch
  <2> QED
    BY <1>3, <2>1, <2>2
<1>4. CASE CopyTools \/ CopyInputs
  BY <1>1, <1>4, MetaUnchanged DEF CopyTools, CopyInputs
<1>5. CASE PreExtractPatchEnd \/ CollectEnd \/ Finish
  BY <1>1, <1>5, MetaUnchanged DEF PreExtractPatchEnd, CollectEnd, Finish, tree
<1>6. ASSUME NEW u \in Unit, Compile(u)
      PROVE  MetaInv'
  BY <1>1, <1>6, MetaCompile
<1>7. ASSUME NEW f \in ModFile, RunExtract(f)
      PROVE  MetaInv'
  BY <1>1, <1>7, MetaUnchanged DEF RunExtract
<1>8. CASE Fail
  <2>1. ~cut' => ~cut /\ (place # "rsync_dirs" \/ objs = {})
    BY <1>8 DEF Fail
  <2> QED
    BY <1>1, <1>8, <2>1, MetaUnchanged DEF Fail, tree
<1>9. CASE Build
  <2>1. UNCHANGED <<place, todo, arg, tree, cut, inited>>
    BY <1>9 DEF Build
  <2> QED
    BY <1>1, <2>1 DEF tree, MetaInv, ObjsGone, MetasRight, Known, MetadataComplete
<1>10. CASE UNCHANGED vars
  <2>1. UNCHANGED <<place, todo, arg, tree, cut, inited>>
    BY <1>10 DEF vars
  <2> QED
    BY <1>1, <2>1 DEF tree, MetaInv, ObjsGone, MetasRight, Known, MetadataComplete
<1>11. ASSUME Tool
       PROVE  MetaInv'
  BY <1>11, <1>1, <1>3, <1>4, <1>5, <1>6, <1>7, MetaSyncRoot, MetaSyncEnd,
     MetaCopyIgnore, MetaAnalyze, Zenon DEF Tool
<1> QED
  BY <1>2, <1>8, <1>9, <1>10, <1>11, Zenon DEF Next

\* For any kernel, any units and directories, and init killed and started again
\* any number of times: if no rsync over earlier remains was cut short, what
\* analyze.py reads is the metadata of exactly the units that vmlinux is made of.
THEOREM AnalysisOfWholeKernel == Spec => []MetadataComplete
<1>1. MetaInv => MetadataComplete
  BY DEF MetaInv
<1> QED
  BY <1>1, MetaInit, MetaStep, PTL DEF Spec

-------------------------------------------------------------------------------
(***************************************************************************)
(* The choice of the configuration: any directory names with the series of *)
(* the release are totally ordered by Better, so that there is a first one.*)
(***************************************************************************)
\* Every nonempty set of natural numbers has a least element.
LEMMA NatLeast ==
  ASSUME NEW S, S \subseteq Nat, S # {}
  PROVE  \E m \in S : \A k \in S : m <= k
<1> DEFINE R == OpToRel(<, Nat)
<1>1. R = {p \in Nat \X Nat : p[1] < p[2]}
  BY DEF OpToRel
<1>2. IsWellFoundedOn(R, Nat)
  BY ONLY NatLessThanWellFounded, Zenon
<1> HIDE DEF R
<1>3. PICK m \in S : \A k \in S : <<k, m>> \notin R
  BY <1>2, WFMin
<1>4. \A k \in S : ~(k < m)
  BY <1>1, <1>3
<1> QED
  BY <1>4

TotalOrder(B, S) ==
  /\ \A c \in S : <<c, c>> \notin B
  /\ \A c, d \in S : c # d => <<c, d>> \in B \/ <<d, c>> \in B
  /\ \A c, d, e \in S : <<c, d>> \in B /\ <<d, e>> \in B => <<c, e>> \in B

\* A finite set has an element that comes before all others in a total order.
LEMMA FiniteFirst ==
  ASSUME NEW S, IsFiniteSet(S), S # {}, NEW B, TotalOrder(B, S)
  PROVE  \E c \in S : \A d \in S \ {c} : <<c, d>> \in B
<1> DEFINE Rivals(c) == {d \in S : <<d, c>> \in B}
<1>0. /\ \A c \in S : <<c, c>> \notin B
      /\ \A c, d \in S : c # d => <<c, d>> \in B \/ <<d, c>> \in B
      /\ \A c, d, e \in S : <<c, d>> \in B /\ <<d, e>> \in B => <<c, e>> \in B
  BY DEF TotalOrder
<1>1. \A c \in S : IsFiniteSet(Rivals(c)) /\ Cardinality(Rivals(c)) \in Nat
  BY FS_Subset, FS_CardinalityType
<1>2. \E c \in S : \A d \in S : Cardinality(Rivals(c)) <= Cardinality(Rivals(d))
  <2> DEFINE Counts == {Cardinality(Rivals(c)) : c \in S}
  <2> HIDE DEF Rivals
  <2>1. Counts \subseteq Nat /\ Counts # {}
    BY <1>1
  <2>2. PICK m \in Counts : \A k \in Counts : m <= k
    <3> HIDE DEF Counts
    <3> QED
      BY <2>1, NatLeast
  <2> QED
    BY <2>2, Zenon
<1>3. PICK c \in S : \A d \in S : Cardinality(Rivals(c)) <= Cardinality(Rivals(d))
  BY <1>2
<1>4. ASSUME NEW d \in S \ {c}, <<c, d>> \notin B
      PROVE  FALSE
  <2>1. <<d, c>> \in B
    BY <1>0, <1>4
  <2>2. Rivals(d) \subseteq Rivals(c) /\ d \in Rivals(c) /\ d \notin Rivals(d)
    BY <1>0, <2>1
  <2>3. Cardinality(Rivals(d)) < Cardinality(Rivals(c))
    <3> HIDE DEF Rivals
    <3>1. /\ Cardinality(Rivals(d)) <= Cardinality(Rivals(c))
          /\ Cardinality(Rivals(c)) = Cardinality(Rivals(d)) => Rivals(c) = Rivals(d)
      BY <1>1, <2>2, FS_Subset
    <3> QED
      BY <1>1, <2>2, <3>1
  <2>4. Cardinality(Rivals(c)) <= Cardinality(Rivals(d))
    BY <1>3
  <2>5. Cardinality(Rivals(c)) \in Nat /\ Cardinality(Rivals(d)) \in Nat
    BY <1>1
  <2> HIDE DEF Rivals
  <2> QED
    BY <2>3, <2>4, <2>5
<1> QED
  BY <1>4

\* s comes before t in the order of the names because of their ith characters.
Decides(i, s, t) ==
  /\ i \in Nat \ {0} /\ i <= Len(s) + 1 /\ i <= Len(t)
  /\ \A j \in 1 .. i - 1 : s[j] = t[j]
  /\ i <= Len(s) => s[i] < t[i]

LEMMA FirstDifference ==
  ASSUME NEW s \in Seq(Nat), NEW t \in Seq(Nat), Differ(s, t) # {}
  PROVE  /\ FirstDiffer(s, t) \in Differ(s, t)
         /\ \A j \in 1 .. FirstDiffer(s, t) - 1 : s[j] = t[j]
         /\ FirstDiffer(s, t) \in 1 .. Min2(Len(s), Len(t))
<1>1. Len(s) \in Nat /\ Len(t) \in Nat /\ Min2(Len(s), Len(t)) \in Nat
  BY DEF Min2
<1>2. Differ(s, t) \subseteq 1 .. Min2(Len(s), Len(t)) /\ Differ(s, t) \subseteq Nat
  BY <1>1 DEF Differ
<1>3. \E i \in Differ(s, t) : \A j \in Differ(s, t) : i <= j
  BY <1>2, NatLeast
<1>4. FirstDiffer(s, t) \in Differ(s, t) /\ \A j \in Differ(s, t) : FirstDiffer(s, t) <= j
  BY <1>3 DEF FirstDiffer
<1>5. ASSUME NEW j \in 1 .. FirstDiffer(s, t) - 1
      PROVE  s[j] = t[j]
  <2>1. j \notin Differ(s, t) /\ j \in 1 .. Min2(Len(s), Len(t))
    BY <1>1, <1>2, <1>4
  <2> QED
    BY <2>1 DEF Differ
<1> QED
  BY <1>2, <1>4, <1>5

LEMMA BeforeDecided ==
  ASSUME NEW s \in Seq(Nat), NEW t \in Seq(Nat)
  PROVE  Before(s, t) <=> \E i \in Nat : Decides(i, s, t)
<1>1. Len(s) \in Nat /\ Len(t) \in Nat /\ Min2(Len(s), Len(t)) \in Nat
      /\ Min2(Len(s), Len(t)) <= Len(s) /\ Min2(Len(s), Len(t)) <= Len(t)
      /\ (Min2(Len(s), Len(t)) = Len(s) \/ Min2(Len(s), Len(t)) = Len(t))
  BY DEF Min2
<1>2. (\A j \in 1 .. Len(s) : s[j] \in Nat) /\ (\A j \in 1 .. Len(t) : t[j] \in Nat)
  OBVIOUS
<1>3. CASE Differ(s, t) = {}
  <2>1. \A j \in 1 .. Min2(Len(s), Len(t)) : s[j] = t[j]
    BY <1>3 DEF Differ
  <2>2. ASSUME Len(s) < Len(t)
        PROVE  Decides(Len(s) + 1, s, t) /\ Len(s) + 1 \in Nat
    BY <1>1, <2>1, <2>2 DEF Decides
  <2>3. ASSUME NEW i \in Nat, Decides(i, s, t)
        PROVE  Len(s) < Len(t)
    <3>1. CASE i <= Len(s)
      <4>1. i \in 1 .. Min2(Len(s), Len(t)) /\ s[i] \in Nat
        BY <1>1, <1>2, <2>3, <3>1 DEF Decides
      <4> QED
        BY <2>1, <2>3, <3>1, <4>1 DEF Decides
    <3>2. CASE ~(i <= Len(s))
      BY <1>1, <2>3, <3>2 DEF Decides
    <3> QED
      BY <3>1, <3>2
  <2> QED
    BY <1>3, <2>2, <2>3 DEF Before
<1>4. CASE Differ(s, t) # {}
  <2> DEFINE i == FirstDiffer(s, t)
  <2>1. /\ i \in Differ(s, t) /\ i \in 1 .. Min2(Len(s), Len(t))
        /\ \A j \in 1 .. i - 1 : s[j] = t[j]
    BY <1>4, FirstDifference
  <2>2. s[i] # t[i] /\ s[i] \in Nat /\ t[i] \in Nat
    BY <1>1, <1>2, <2>1 DEF Differ
  <2> HIDE DEF i
  <2>3. ASSUME s[i] < t[i]
        PROVE  Decides(i, s, t)
    BY <1>1, <2>1, <2>3 DEF Decides
  <2>4. ASSUME NEW k \in Nat, Decides(k, s, t)
        PROVE  s[i] < t[i]
    <3>1. ~(k < i)
      <4> SUFFICES ASSUME k < i PROVE FALSE
        OBVIOUS
      <4>1. k \in 1 .. i - 1 /\ k <= Len(s) /\ k \in 1 .. Len(s)
        BY <1>1, <2>1, <2>4 DEF Decides
      <4>2. s[k] < t[k] /\ s[k] = t[k] /\ s[k] \in Nat
        BY <1>2, <2>1, <2>4, <4>1 DEF Decides
      <4> QED
        BY <4>2
    <3>2. ~(i < k)
      <4> SUFFICES ASSUME i < k PROVE FALSE
        OBVIOUS
      <4>1. i \in 1 .. k - 1
        BY <1>1, <2>1
      <4> QED
        BY <2>2, <2>4, <4>1 DEF Decides
    <3>3. k = i /\ i <= Len(s)
      BY <1>1, <2>1, <3>1, <3>2
    <3> QED
      BY <2>4, <3>3 DEF Decides
  <2>5. Before(s, t) <=> s[i] < t[i]
    BY <1>4 DEF Before, i
  <2>6. i \in Nat
    BY <2>1
  <2> QED
    BY <2>3, <2>4, <2>5, <2>6
<1> QED
  BY <1>3, <1>4

LEMMA BeforeTransitive ==
  ASSUME NEW s \in Seq(Nat), NEW t \in Seq(Nat), NEW u \in Seq(Nat),
         Before(s, t), Before(t, u)
  PROVE  Before(s, u)
<1>1. PICK p \in Nat : Decides(p, s, t)
  BY BeforeDecided
<1>2. PICK q \in Nat : Decides(q, t, u)
  BY BeforeDecided
<1>3. Len(s) \in Nat /\ Len(t) \in Nat /\ Len(u) \in Nat
  OBVIOUS
<1>4. (\A j \in 1 .. Len(s) : s[j] \in Nat) /\ (\A j \in 1 .. Len(t) : t[j] \in Nat)
      /\ (\A j \in 1 .. Len(u) : u[j] \in Nat)
  OBVIOUS
<1>5. CASE p <= q
  <2>1. \A j \in 1 .. p - 1 : s[j] = u[j]
    BY <1>1, <1>2, <1>5 DEF Decides
  <2>2. p <= Len(t) /\ p <= Len(u) /\ p <= Len(s) + 1 /\ p \in Nat \ {0}
    BY <1>1, <1>2, <1>3, <1>5 DEF Decides
  <2>3. t[p] = u[p] \/ t[p] < u[p]
    BY <1>1, <1>2, <1>3, <1>5 DEF Decides
  <2>4. p <= Len(s) => s[p] < u[p]
    <3> SUFFICES ASSUME p <= Len(s) PROVE s[p] < u[p]
      OBVIOUS
    <3>1. s[p] \in Nat /\ t[p] \in Nat /\ u[p] \in Nat
      BY <1>3, <1>4, <2>2
    <3>2. s[p] < t[p]
      BY <1>1 DEF Decides
    <3> QED
      BY <2>3, <3>1, <3>2
  <2>5. Decides(p, s, u)
    BY <2>1, <2>2, <2>4, Zenon DEF Decides
  <2> QED
    BY <2>5, BeforeDecided
<1>6. CASE q < p
  <2>1. \A j \in 1 .. q : s[j] = t[j]
    BY <1>1, <1>2, <1>6 DEF Decides
  <2>2. \A j \in 1 .. q - 1 : s[j] = u[j]
    BY <1>1, <1>2, <1>6 DEF Decides
  <2>3. q <= Len(u) /\ q <= Len(s) /\ q \in Nat \ {0} /\ q <= Len(t)
    BY <1>1, <1>2, <1>3, <1>6 DEF Decides
  <2>4. s[q] < u[q]
    <3>1. q \in 1 .. q
      BY <2>3
    <3> QED
      BY <1>2, <2>1, <2>3, <3>1 DEF Decides
  <2>5. Decides(q, s, u)
    BY <1>3, <2>2, <2>3, <2>4 DEF Decides
  <2> QED
    BY <2>5, BeforeDecided
<1> QED
  BY <1>5, <1>6

LEMMA BeforeTotal ==
  ASSUME NEW s \in Seq(Nat), NEW t \in Seq(Nat)
  PROVE  /\ ~Before(s, s)
         /\ s # t => Before(s, t) \/ Before(t, s)
<1>1. Len(s) \in Nat /\ Len(t) \in Nat
  OBVIOUS
<1>2. ~Before(s, s)
  <2>1. Differ(s, s) = {}
    BY DEF Differ
  <2> QED
    BY <1>1, <2>1 DEF Before
<1>3. Min2(Len(s), Len(t)) = Min2(Len(t), Len(s))
  BY <1>1 DEF Min2
<1>4. Differ(s, t) = Differ(t, s)
  BY <1>3 DEF Differ
<1>5. CASE Differ(s, t) = {} /\ s # t
  <2>1. ASSUME Len(s) = Len(t)
        PROVE  s = t
    <3>1. \A j \in 1 .. Len(s) : s[j] = t[j]
      BY <1>5, <2>1 DEF Differ, Min2
    <3> QED
      BY <2>1, <3>1
  <2> QED
    BY <1>1, <1>2, <1>4, <1>5, <2>1 DEF Before
<1>6. CASE Differ(s, t) # {}
  <2>1. FirstDiffer(s, t) = FirstDiffer(t, s)
    BY <1>4 DEF FirstDiffer
  <2> DEFINE i == FirstDiffer(s, t)
  <2>2. i \in Differ(s, t) /\ i \in 1 .. Min2(Len(s), Len(t))
    BY <1>6, FirstDifference
  <2>3. s[i] \in Nat /\ t[i] \in Nat /\ s[i] # t[i]
    BY <1>1, <2>2 DEF Differ, Min2
  <2>4. (Before(s, t) <=> s[i] < t[i]) /\ (Before(t, s) <=> t[i] < s[i])
    BY <1>4, <1>6, <2>1 DEF Before
  <2> HIDE DEF i
  <2> QED
    BY <1>2, <2>3, <2>4
<1> QED
  BY <1>2, <1>5, <1>6

LEMMA PrefixLenType ==
  ASSUME NEW s \in Seq(Nat), NEW t \in Seq(Nat)
  PROVE  /\ CommonPrefixLen(s, t) \in Int
         /\ SharedPrefix(s, t) \in Int
         /\ CommonPrefixLen(s, t) <= SharedPrefix(s, t)
         /\ SharedPrefix(s, t) <= CommonPrefixLen(s, t) + 1
<1>1. Len(s) \in Nat /\ Len(t) \in Nat /\ Min2(Len(s), Len(t)) \in Nat
  BY DEF Min2
<1>2. Differ(s, t) # {} => FirstDiffer(s, t) \in Int
  BY <1>1, FirstDifference
<1> QED
  BY <1>1, <1>2 DEF CommonPrefixLen, SharedPrefix

\* The configuration that ConfigDir picks is better than all others.
LEMMA ConfigChosen ==
  ASSUME configs \in Configs, NEW k \in Kernel, Candidates(k) # {}
  PROVE  /\ ConfigDir(k) \in Candidates(k)
         /\ \A d \in Candidates(k) \ {ConfigDir(k)} : Better(k, ConfigDir(k), d)
<1> DEFINE S == Candidates(k)
           B == {p \in S \X S : Better(k, p[1], p[2])}
           a(c) == CommonPrefixLen(Release[k], c)
<1>1. IsFiniteSet(S) /\ \A c \in S : c \in Seq(Nat)
  <2>1. IsFiniteSet(configs) /\ S \subseteq configs /\ \A c \in configs : c \in Seq(Nat)
    BY SandboxAssumption DEF Candidates
  <2> QED
    BY <2>1, FS_Subset
<1>2. \A c \in S : a(c) \in Int
  <2>1. Release[k] \in Seq(Nat)
    BY SandboxAssumption
  <2> QED
    BY <1>1, <2>1, PrefixLenType
<1>3. \A c, d \in S : <<c, d>> \in B <=> a(c) > a(d) \/ (a(c) = a(d) /\ Before(c, d))
  BY DEF Better
<1>4. \A c, d, e \in S : Before(c, d) /\ Before(d, e) => Before(c, e)
  BY <1>1, BeforeTransitive
<1>5. \A c, d \in S : ~Before(c, c) /\ (c # d => Before(c, d) \/ Before(d, c))
  BY <1>1, BeforeTotal
<1> HIDE DEF S, B, a
<1>6. /\ \A c \in S : <<c, c>> \notin B
      /\ \A c, d \in S : c # d => <<c, d>> \in B \/ <<d, c>> \in B
  BY <1>2, <1>3, <1>5
<1>7. \A c, d, e \in S : <<c, d>> \in B /\ <<d, e>> \in B => <<c, e>> \in B
  BY <1>2, <1>3, <1>4
<1>8. \E c \in S : \A d \in S \ {c} : <<c, d>> \in B
  <2>1. TotalOrder(B, S)
    BY <1>6, <1>7 DEF TotalOrder
  <2>2. IsFiniteSet(S) /\ S # {}
    BY <1>1 DEF S
  <2>3. PICK T, R : T = S /\ R = B
    OBVIOUS
  <2>4. IsFiniteSet(T) /\ T # {} /\ TotalOrder(R, T)
    BY <2>1, <2>2, <2>3
  <2>5. \E c \in T : \A d \in T \ {c} : <<c, d>> \in R
    BY <2>4, FiniteFirst
  <2> QED
    BY <2>3, <2>5
<1>9. \E c \in Candidates(k) : \A d \in Candidates(k) \ {c} : Better(k, c, d)
  BY <1>8 DEF S, B
<1> QED
  BY <1>9 DEF ConfigDir

\* The chosen configuration stays the best, since configs/ does not change.
ConfigInv ==
  /\ arg \in Kernel /\ configs \in Configs
  /\ config # <<>> =>
       /\ config \in Candidates(arg)
       /\ \A d \in Candidates(arg) \ {config} : Better(arg, config, d)

LEMMA ConfigStep ==
  ASSUME ConfigInv, [Next]_vars
  PROVE  ConfigInv'
<1>1. ASSUME NEW k \in Kernel, StartInit(k)
      PROVE  ConfigInv'
  <2>1. arg' = k /\ configs' = configs /\ config' = ConfigDir(k) /\ Candidates(k) # {}
    BY <1>1 DEF StartInit
  <2>2. Candidates(arg)' = Candidates(k)
    BY <2>1 DEF Candidates
  <2>3. /\ ConfigDir(k) \in Candidates(k)
        /\ \A d \in Candidates(k) \ {ConfigDir(k)} : Better(k, ConfigDir(k), d)
    BY <2>1, ConfigChosen DEF ConfigInv
  <2>4. \A d : Better(arg, config, d)' <=> Better(k, ConfigDir(k), d)
    BY <2>1 DEF Better
  <2> QED
    BY <2>1, <2>2, <2>3, <2>4 DEF ConfigInv
<1>2. CASE UNCHANGED <<arg, configs, config>>
  <2>1. Candidates(arg)' = Candidates(arg)
    BY <1>2 DEF Candidates
  <2> QED
    BY <1>2, <2>1 DEF ConfigInv, Better
<1>3. CASE Tool
  BY <1>2, <1>3, Zenon
     DEF Tool, SyncRoot, SyncEnd, CopyTools, CopyIgnore, CopyInputs, SyncDir,
         PreExtractPatch, PreExtractPatchEnd, Compile, CollectEnd, RunAnalyze,
         RunExtract, Finish
<1>4. CASE Fail \/ Build \/ UNCHANGED vars
  BY <1>2, <1>4 DEF Fail, Build, vars
<1> QED
  BY <1>1, <1>3, <1>4, Zenon DEF Next

\* For any names in configs/ and any release: the configuration that init takes
\* shares at most one character less with the release than any other.
THEOREM ConfigNearest == Spec => []ConfigClose
<1>1. Init => ConfigInv
  BY DEF Init, ConfigInv
<1>2. ConfigInv => ConfigClose
  <2> SUFFICES ASSUME ConfigInv, config # <<>>, NEW c \in Candidates(arg)
               PROVE  SharedPrefix(Release[arg], config) + 1 >=
                        SharedPrefix(Release[arg], c)
    BY DEF ConfigClose
  <2>1. Release[arg] \in Seq(Nat) /\ config \in Seq(Nat) /\ c \in Seq(Nat)
    BY SandboxAssumption DEF ConfigInv, Candidates
  <2>2. /\ CommonPrefixLen(Release[arg], config) \in Int
        /\ SharedPrefix(Release[arg], config) \in Int
        /\ CommonPrefixLen(Release[arg], config) <= SharedPrefix(Release[arg], config)
    BY <2>1, PrefixLenType
  <2>3. /\ CommonPrefixLen(Release[arg], c) \in Int
        /\ SharedPrefix(Release[arg], c) \in Int
        /\ SharedPrefix(Release[arg], c) <= CommonPrefixLen(Release[arg], c) + 1
    BY <2>1, PrefixLenType
  <2>4. CommonPrefixLen(Release[arg], config) >= CommonPrefixLen(Release[arg], c)
    <3>1. c = config \/ Better(arg, config, c)
      BY DEF ConfigInv
    <3> QED
      BY <2>2, <2>3, <3>1 DEF Better
  <2> QED
    BY <2>2, <2>3, <2>4
<1> QED
  BY <1>1, <1>2, ConfigStep, PTL DEF Spec
===============================================================================
