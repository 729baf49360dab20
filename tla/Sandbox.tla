------------------------------- MODULE Sandbox -------------------------------
(***************************************************************************)
(* The command line tool, src/cli.py: `plugsched-cli init` prepares a      *)
(* working directory from kernel sources in many steps, each of which may  *)
(* fail or be killed; it can be started again in the same directory, for   *)
(* the same or for another kernel, and nothing records how far it came.    *)
(* `plugsched-cli build` makes a package of what is there.                 *)
(*                                                                         *)
(* The make targets are those of src/src/Makefile.plugsched.               *)
(***************************************************************************)
EXTENDS Naturals, Sequences, FiniteSets

CONSTANTS
  Kernel,       \* the kernels, with their
  Release,      \*   uname -r, a sequence of characters (numbers),
  Units,        \*   and the translation units their configuration builds
  DirOf,        \* the directory of each unit
  Dir,          \* the directories, with
  SchedDir,     \*   the one that holds mod/
  BootStub,     \* the units in "compressed" and "libstub", not part of vmlinux
  ModFile,      \* the files extract.py is run for
  Configs,      \* what configs/ may contain: sets of names
  Major,        \* how long the "VERSION.PATCHLEVEL" of a release is
  MaxRuns       \* bound on how often init is started

None == "none"

ASSUME SandboxAssumption ==
  /\ None \notin Kernel
  /\ Release \in [Kernel -> Seq(Nat)] /\ DOMAIN Units = Kernel /\ Major \in Nat
  /\ \A k \in Kernel : Units[k] \subseteq DOMAIN DirOf /\ Len(Release[k]) >= Major
  /\ \A u \in DOMAIN DirOf : DirOf[u] \in Dir
  /\ SchedDir \in Dir /\ BootStub \subseteq DOMAIN DirOf
  /\ \A C \in Configs : IsFiniteSet(C) /\ \A c \in C : c \in Seq(Nat) /\ Len(c) >= 1
  /\ MaxRuns \in Nat \ {0}

Unit == DOMAIN DirOf

VARIABLES
  place,     \* what init is doing
  todo,      \* what rsync, patch or make extract has still to come to
  arg,       \* the kernel init was started for
  configs,   \* the names of the directories in configs/
  config,    \* the one chosen
  rules,     \* the .gitignore rsync found in the root before it deleted
  ignore,    \* the .gitignore in the root of the working directory
  src,       \* per directory, which kernel's sources are there
  patched,   \* the directories pre_extract.patch has been applied to
  tools,     \* working/: the scripts and patches, by kernel
  inputs,    \* vmlinux, .config, Makefile, Module.symvers, by kernel
  objs,      \* the units with an object file, which make does not compile again
  metas,     \* per unit, the kernel whose .boundary file is there
  analysed,  \* <<unit, kernel>>: what boundary_extract.yaml was computed from
  mod,       \* per file in mod/, the kernel it was extracted from
  package,   \* the kernels whose parts the last package was built from
  runs,      \* how often init was started
  cut,       \* objects may be left by an rsync that was cut short
  inited     \* the kernels init was started for

tree == <<rules, ignore, src, patched, tools, inputs, objs, metas, analysed, mod>>
vars == <<place, todo, arg, configs, config, tree, package, runs, cut, inited>>

-------------------------------------------------------------------------------
(***************************************************************************)
(* get_config_dir.                                                         *)
(***************************************************************************)
Min2(a, b) == IF a < b THEN a ELSE b
Differ(s, t) == {i \in 1 .. Min2(Len(s), Len(t)) : s[i] # t[i]}
FirstDiffer(s, t) == CHOOSE i \in Differ(s, t) : \A j \in Differ(s, t) : i <= j

Bug_CommonPrefixLen(s, t) ==
  IF Differ(s, t) # {} THEN FirstDiffer(s, t) - 1 ELSE 0

\* common_prefix_len: the loop variable, counted from 0, when the loop is left at
\* the first difference or has seen all pairs.
CommonPrefixLen(s, t) ==
  IF Differ(s, t) # {} THEN FirstDiffer(s, t) - 1 ELSE Min2(Len(s), Len(t)) - 1

Before(s, t) ==
  IF Differ(s, t) = {} THEN Len(s) < Len(t)
  ELSE s[FirstDiffer(s, t)] < t[FirstDiffer(s, t)]

\* The candidates come in reverse order, and of equal scores the last one counts.
Candidates(k) ==
  {c \in configs : Len(c) >= Major /\ Differ(SubSeq(Release[k], 1, Major), c) = {}}
Better(k, c, d) ==
  LET a == CommonPrefixLen(Release[k], c)
      b == CommonPrefixLen(Release[k], d)
  IN  a > b \/ (a = b /\ Before(c, d))
ConfigDir(k) ==
  CHOOSE c \in Candidates(k) : \A d \in Candidates(k) \ {c} : Better(k, c, d)

-------------------------------------------------------------------------------
Init ==
  /\ place = "idle" /\ todo = {} /\ arg \in Kernel
  /\ configs \in Configs /\ config = <<>>
  /\ rules = None /\ ignore = None
  /\ src = [d \in Dir |-> None] /\ patched = {}
  /\ tools = None /\ inputs = None
  /\ objs = {} /\ metas = [u \in Unit |-> None] /\ analysed = {}
  /\ mod = [f \in ModFile |-> None] /\ package = {}
  /\ runs = 0 /\ cut = FALSE /\ inited = {}

\* cmd_init: Plugsched(...) comes first, then create_sandbox begins.
StartInit(k) ==
  /\ place \in {"idle", "done"} /\ runs < MaxRuns /\ Candidates(k) # {}
  /\ place' = "rsync" /\ arg' = k /\ config' = ConfigDir(k)
  /\ runs' = runs + 1 /\ inited' = inited \cup {k}
  /\ UNCHANGED <<todo, configs, tree, package, cut>>

(***************************************************************************)
(* rsync --archive --delete --filter=':- .gitignore', root first.  What    *)
(* the sources do not have is deleted, unless the .gitignore found in the  *)
(* working directory protects it: the kernel's protects vmlinux, the dot   *)
(* files and the object files, plugsched's the .boundary files.            *)
(***************************************************************************)
SyncRoot ==
  /\ place = "rsync"
  /\ place' = "rsync_dirs" /\ todo' = Dir
  /\ rules' = ignore /\ ignore' = "kernel"
  /\ tools' = None /\ analysed' = {}
  /\ inputs' = IF ignore = "kernel" THEN inputs ELSE None
  /\ UNCHANGED <<arg, configs, config, src, patched, objs, metas, mod, package, runs,
                 cut, inited>>

\* A patched file differs from its source and is copied again; mod/ goes with
\* what the sources do not have.
Bug_Unpatched(d) == patched
Unpatched(d) == patched \ {d}
Bug_ObjsKept(d) == objs
ObjsKept(d) == IF rules = "kernel" THEN objs ELSE {u \in objs : DirOf[u] # d}
MetasKept(d) ==
  [u \in Unit |-> IF DirOf[u] = d /\ rules # "plugsched" THEN None ELSE metas[u]]
Bug_ModKept(d) == mod
ModKept(d) == IF d = SchedDir THEN [f \in ModFile |-> None] ELSE mod

SyncDir(d) ==
  /\ place = "rsync_dirs" /\ d \in todo
  /\ todo' = todo \ {d}
  /\ src' = [src EXCEPT ![d] = arg] /\ patched' = Unpatched(d)
  /\ objs' = ObjsKept(d) /\ metas' = MetasKept(d)
  /\ mod' = ModKept(d)
  /\ UNCHANGED <<place, arg, configs, config, rules, ignore, tools, inputs, analysed,
                 package, runs, cut, inited>>

SyncEnd ==
  /\ place = "rsync_dirs" /\ todo = {}
  /\ place' = "tools" /\ cut' = (cut /\ rules = "kernel")
  /\ UNCHANGED <<todo, arg, configs, config, tree, package, runs, inited>>

\* The files of file_mapping, .gitignore last.
CopyTools ==
  /\ place = "tools"
  /\ place' = "ignore" /\ tools' = arg
  /\ UNCHANGED <<todo, arg, configs, config, rules, ignore, src, patched, inputs,
                 objs, metas, analysed, mod, package, runs, cut, inited>>

CopyIgnore ==
  /\ place = "ignore"
  /\ place' = "inputs" /\ ignore' = "plugsched"
  /\ UNCHANGED <<todo, arg, configs, config, rules, src, patched, tools, inputs,
                 objs, metas, analysed, mod, package, runs, cut, inited>>

CopyInputs ==
  /\ place = "inputs"
  /\ place' = "pre_patch" /\ inputs' = arg /\ todo' = Dir
  /\ UNCHANGED <<arg, configs, config, rules, ignore, src, patched, tools, objs,
                 metas, analysed, mod, package, runs, cut, inited>>

\* patch refuses what it has already been applied to, and the tool ends.
PreExtractPatch(d) ==
  /\ place = "pre_patch" /\ d \in todo /\ d \notin patched
  /\ todo' = todo \ {d} /\ patched' = patched \cup {d}
  /\ UNCHANGED <<place, arg, configs, config, rules, ignore, src, tools, inputs, objs,
                 metas, analysed, mod, package, runs, cut, inited>>

PreExtractPatchEnd ==
  /\ place = "pre_patch" /\ todo = {}
  /\ place' = "collect"
  /\ UNCHANGED <<todo, arg, configs, config, tree, package, runs, cut, inited>>

(***************************************************************************)
(* extract: the make targets collect, analyze and extract, in parallel     *)
(* jobs.                                                                   *)
(***************************************************************************)
\* The plugin writes the metadata when a unit is compiled, and only then.
Compile(u) ==
  /\ place = "collect" /\ u \in Units[arg] \ objs
  /\ objs' = objs \cup {u}
  /\ metas' = [metas EXCEPT ![u] = src[DirOf[u]]]
  /\ UNCHANGED <<place, todo, arg, configs, config, rules, ignore, src, patched, tools,
                 inputs, analysed, mod, package, runs, cut, inited>>

CollectEnd ==
  /\ place = "collect" /\ Units[arg] \subseteq objs
  /\ place' = "analyze"
  /\ UNCHANGED <<todo, arg, configs, config, tree, package, runs, cut, inited>>

\* The metadata of the boot stubs is removed; all_meta_files reads all others.
Bug_StubsRead == {}
StubsDropped == BootStub

RunAnalyze ==
  /\ place = "analyze"
  /\ place' = "extract" /\ todo' = ModFile
  /\ metas' = [u \in Unit |-> IF u \in StubsDropped THEN None ELSE metas[u]]
  /\ analysed' = {<<u, metas'[u]>> : u \in {u \in Unit : metas'[u] # None}}
  /\ UNCHANGED <<arg, configs, config, rules, ignore, src, patched, tools, inputs,
                 objs, mod, package, runs, cut, inited>>

RunExtract(f) ==
  /\ place = "extract" /\ f \in todo
  /\ todo' = todo \ {f} /\ mod' = [mod EXCEPT ![f] = src[SchedDir]]
  /\ UNCHANGED <<place, arg, configs, config, rules, ignore, src, patched, tools,
                 inputs, objs, metas, analysed, package, runs, cut, inited>>

\* post_extract.patch, dynamic_springboard.patch (and its second part where the
\* first left the old form), and the offsets appended to mod's Makefile.
Finish ==
  /\ \/ place = "extract" /\ todo = {} /\ place' = "post_patch"
     \/ place = "post_patch" /\ place' = "springboard"
     \/ place = "springboard" /\ place' = "done"
  /\ UNCHANGED <<todo, arg, configs, config, tree, package, runs, cut, inited>>

-------------------------------------------------------------------------------
\* A command fails or the tool is killed.
Fail ==
  /\ place \notin {"idle", "done"} /\ runs < MaxRuns
  /\ place' = "idle" /\ todo' = {}
  /\ cut' = (cut \/ (place = "rsync_dirs" /\ objs # {}))
  /\ UNCHANGED <<arg, configs, config, tree, package, runs, inited>>

\* cmd_build: working/scheduler.spec and the extracted files must be there.
Build ==
  /\ place \in {"idle", "done"}
  /\ tools # None /\ inputs # None /\ \A f \in ModFile : mod[f] # None
  /\ package' = {tools, inputs} \cup {src[d] : d \in Dir} \cup {mod[f] : f \in ModFile}
  /\ UNCHANGED <<place, todo, arg, configs, config, tree, runs, cut, inited>>

Tool ==
  \/ SyncRoot \/ SyncEnd \/ CopyTools \/ CopyIgnore \/ CopyInputs
  \/ \E d \in Dir : SyncDir(d) \/ PreExtractPatch(d)
  \/ PreExtractPatchEnd
  \/ \E u \in Unit : Compile(u)
  \/ CollectEnd \/ RunAnalyze
  \/ \E f \in ModFile : RunExtract(f)
  \/ Finish

Again == \E k \in Kernel : place = "idle" /\ StartInit(k)

Next == (\E k \in Kernel : StartInit(k)) \/ Tool \/ Fail \/ Build

\* The tool goes on, and whoever started it tries again after a failure.
Spec == Init /\ [][Next]_vars /\ WF_vars(Tool) /\ WF_vars(Again)

-------------------------------------------------------------------------------
\* The analysis sees the metadata of exactly the units that vmlinux consists of,
\* also when init was interrupted anywhere and started again - as long as the
\* directory is used for one kernel and no rsync over the objects of an earlier run
\* was cut short.
MetadataComplete ==
  analysed # {} /\ ~cut /\ inited = {arg} =>
    analysed = {<<u, arg>> : u \in Units[arg] \ BootStub}

\* Whatever init has left behind when it failed, for whichever kernels, a package
\* is never built from the parts of two.
PackageOfOneKernel == Cardinality(package) <= 1

\* Nothing an interrupted run leaves behind keeps the next one from succeeding.
RetrySucceeds == []<>(place = "done")

SharedPrefix(s, t) == IF Differ(s, t) # {} THEN FirstDiffer(s, t) - 1 ELSE Min2(Len(s), Len(t))

\* The configuration chosen shares with the release at most one character less
\* than any other does.
ConfigClose ==
  config # <<>> =>
    \A c \in Candidates(arg) :
      SharedPrefix(Release[arg], config) + 1 >= SharedPrefix(Release[arg], c)

\* "plugsched does Longest Common Prefix (LCP) search"
\* (Support-various-Linux-distros.md:24): no other configuration shares more with
\* the release than the chosen one.
ConfigLongest ==
  config # <<>> =>
    \A c \in Candidates(arg) :
      SharedPrefix(Release[arg], config) >= SharedPrefix(Release[arg], c)
===============================================================================
