# A TLA+ model of plugsched

plugsched replaces the scheduler of a running Linux kernel by one compiled as a
kernel module.  This directory models the parts of it that carry its
correctness, checks them with TLC and proves the main results with TLAPS.

## 1. Inventory

| part | state it keeps | operations | correct when |
|---|---|---|---|
| update protocol, `src/main.c` | `process_id[]`, three barrier counters, `global_error`, `scheduler_enable`, the module's references | `load_sched_routine`, `unload_sched_routine`, one stop_machine handler per CPU | all CPUs decide alike; calls, class tables and queues switch together or not at all; nobody waits for ever |
| stack check, `src/stack_check.h`, `helper.h` | two sorted tables of function addresses and sizes | sort, search, walk of one thread's stack, division of the tasklist | no thread is left inside a replaced function |
| clearing and rebuilding, `src/sched_rebuild.c` | the run queue, `nr_running`, `bak_class`, `dying_task_list` | `clear_sched_state`, `switch_sched_class`, `rebuild_sched_state` | each queued thread is moved once; nothing is left behind |
| redirection, `src/head_jump.h` | the saved and the new heads of the functions | init, install, remove | heads are written only while nothing runs; nobody else's hook is overwritten |
| memory pools, `src/mempool.h` | linear and per-CPU pools | create, recheck, alloc, destroy | no allocation beyond the pool |
| module life and sysfs, `src/main.c` | the sysfs entries, the module's references | `sched_mod_init`, `plugsched_enabled_store`, `sched_mod_exit` | nothing leads into a removed module |
| installer, `module-contrib/` | its counter of attempts | install, uninstall, conflict check | it ends, and tells the truth |
| collector, `boundary/collect.py` | nothing; one `.boundary` file per translation unit | functions, calls, callbacks, variables with their rows and columns | what it names and where it says things are is what the compiler saw |
| analyzer, `boundary/analyze.py` | sets of functions, edges, `local_sympos` | two passes, `find_in_vmlinux`, `inflect`, `sidecar_inflect`, `check_redirect_mangled`, the files of numbers | the call graph is the linked one; no outsider reaches an insider except through the border |
| extractor, `boundary/extract.py` | the rows of one source file | `function_extract`, `var_extract`, `fix_up` | each definition becomes what its class asks for; no other is touched |
| command line tool, `cli.py` | the working directory, with no record of how far a run came | `init`, `dev_init`, `build`, `extract_src` | interrupted and repeated runs end in the same directory as one that succeeds |
| symbol resolver, `tools/symbol_resolve` | the module's undefined symbols | `load_kallsyms`, `resolve_ref` | an address is that of the function meant |
| springboard search, build scripts, configurations, tests | files | | see section 7 |

The parts interact like this.  On the build machine `cli.py` copies the kernel
sources into a directory and runs make three times: *collect* compiles the
kernel with the plugin `collect.py`, *analyze* reads all its metadata together
with the symbol table of `vmlinux`, and *extract* rewrites the scheduler's
files by the lists the analyzer wrote.  The analyzer decides which functions
are replaced (*insiders*) and which get a jump at their head (the *border*:
interfaces and callbacks, and the sidecars); all others (*outsiders*) stay in
the kernel, and the module refers to them by name and number.  `build` compiles
what was extracted.  On the target the resolver turns names and numbers into
addresses, and the installer inserts the module; `sched_mod_init` saves the
heads, sorts the tables, creates the sysfs file `enable` and starts the first
load.  A load or unload stops all CPUs.  Each CPU checks its share of the
threads' stacks, and reports; if no CPU reported an error, each takes the tasks
off its run queue, the first one switches the class tables and the heads, and
each puts its tasks back.  Why the stack check, which looks only for functions
of the border, is enough, depends on what the analyzer computed: this is where
the two halves of the system meet, and `StackCover` composes them.

What is hard here: the interleavings of the handlers between barriers; CPU
hotplug and forks up to the moment the machine stops; error paths that give
back resources; unlocked sysfs writes; loops over kernel lists that are changed
while they are walked; a fixpoint over a call graph that the compiler has
changed by inlining and cloning; functions with one name in many files, counted
in two orders; rows and columns that are used after the file has been rewritten
in part; a preparation that is killed and started again over its own remains.
`PROJECT.json` lists the hazards line by line.

## 2. Modules

| module | models | composes or extends |
|---|---|---|
| `LiveUpdate` | what the system promises: the scheduler is replaced in one step | |
| `SyncSched` | the update protocol with the kernel around it | refines `LiveUpdate` |
| `SyncSchedInd` | its inductive invariant | `SyncSched` |
| `SyncSchedProofs` | the proofs, the refinement's included | `SyncSchedInd` |
| `SchedRebuild`, `SchedRebuildProofs` | the loops of clearing and rebuilding on one CPU, dying tasks included | |
| `Lifecycle`, `LifecycleProofs` | module, sysfs, installer, hotfixes | |
| `Boundary` | the classes and checks of the analyzer | |
| `StackCover` | analyzer, then a thread running along the analysed call graph, then the stack check | `Boundary` |
| `BoundaryProofs` | the proofs about both | `StackCover` |
| `StackSearch`, `StackSearchProofs` | `addr_sort` and `bsearch` | |
| `Symbols`, `SymbolsProofs` | names: collector, both passes, `find_in_vmlinux`, resolver | |
| `Extract`, `ExtractProofs` | the rewriting of one source file | |
| `Sandbox`, `SandboxProofs` | `init` and `build` in a directory | |
| `MC...` | small instances | |

### SyncSched

The variables are the code's globals under their names, with `text` for what
the function heads lead to, `sched_class` for the contents of the class tables
and `holder[t]` for the version whose queues hold task `t`.  One action is one
step between two accesses to what the CPUs share: reporting to a barrier,
leaving it, reading the error word, and each of the calls the first CPU makes
alone.  The updating thread takes one step per call of the (un)load routine.
The rest of the kernel (`Env`, external) may do anything between: fork, exit,
wake, sleep, migrate, enter and leave scheduler functions, and
take CPUs up and down unless `cpu_maps_update_begin` holds them off.

A *frame* is a return address in a function that the check looks for.  A thread
sleeps inside `__schedule`, which the check ignores by giving it size 0, so
sleeping leaves no frame.  Assumptions: one update at a time (see `Lifecycle`
for what happens otherwise), sequentially consistent memory, and a thread leaves
the tasklist only outside scheduler functions (see `SchedRebuild` for the
threads that are off the tasklist and still queued).  The memory pool is that of
the example in `mempool.h`: one object per thread, created with `PoolSlack`
spare ones.  `disable_stack_protector` changes an instruction of one function
that nobody executes then and is part of the redirection; the bandwidth timers
that `rebuild_sched_state` re-arms are left out.

### SchedRebuild

One iteration of a loop is one action.  When `for_each_process_thread` ends, its
cursor is computed from a list head: the model calls it `Junk`.  List links are
explicit (`next`, `prev`), because unlinking the current entry is what matters
in the last loop.  `nr_running` is unsigned and wraps after `MaxRunning`.  It
does wrap, in the loop over the dying tasks that never ends (section 6):
`StopperCounted` speaks of the other loops, and of this one only when it finds
nothing to visit.

### Lifecycle

An update is one step, or an error at any time.  Actors are at a place inside
the module's code or in user space.  The kernel's side is external: module
references (`module_put` stops one below zero), a failed init that frees the
module whatever its reference count, sysfs files whose removal waits for those
who are inside.  `Serialized` is the assumption that users keep their calls
apart; the code does not enforce it, and both values are checked.

`arch` is the architecture of the build.  The `JUMP_INIT_FUNC` of x86 looks for a
jump or call at the head that it saves (`Hooked`), that of ARM64 does not, and
there a hotfix which comes after the script's conflict check is saved as the
original head and overwritten.  `HotfixKept` is therefore stated for x86 only, and
section 6 lists the case of ARM64.  A hotfix applied while plugsched's module is
registered is left out: the tools of the model make the same check the other way
round (`HotfixOn`), against the files of plugsched and its jumps at the head.

### Boundary and StackCover

The input is a record with the sets that the first passes and `find_in_vmlinux`
produce; `Symbols` says how they come about.  The order in which Python walks a
set is left open.  A round of `inflect` is one step; the recursion of
`check_redirect_mangled` is an explicit stack, at most `RecursionLimit` deep as
in Python.

In `StackCover` a thread enters the kernel at an outsider or an interface, makes
direct calls along the edges the analyzer saw, calls through pointers what the
collector reports as callbacks and any function outside the scheduler's files,
and calls methods of the class tables only from inside the scheduler
(`collect.py:246`: "struct sched_class is purely private").  These are the
assumptions under which the stack check is sound; none concerns a particular
program.

### Symbols

A kernel is a set of definitions: functions, aliases of functions and variables,
with their name, unit, the file of the text, binding, section, and what the
optimiser left.  `Compiled` and `Linkable` say which sets are programs; several
weak definitions of a name, of which the first one linked wins, are among them.
The three kinds matter in different places.  The compiler's call graph has
functions, and an alias only as a caller of the function it stands for; the scan
of the symbol table takes functions and aliases; kallsyms lists all three by
address, the sections of variables (`SectionSeq`) before, between and behind
those of functions, and `load_kallsyms` skips what is called `kern_path` and is
not a public function.  Where `sorted(fn_list)` begins with two entries of one
priority the analyzer warns and takes the first by path (`warned`).

The module follows one name from
`collect.py`, where a unit that has only a declaration calls it `(name, ?)`,
through both passes of `analyze.py` and the scan of the symbol table, whose
entries come in the order of `readelf` (local ones unit by unit, then global
ones), to the position in `undefined_functions.h` and the address that
`resolve_ref` takes for it.  The order in which `os.walk` lists the metadata,
and the sets the classes come to (`und`), are left open.  The numbers written
for hotfix tools are `TaintedPosition`.

`ResolvedToMeant`, `TaintedHonest`, `PresenceHonest` and `ExportsFound` ask for
`Numbered(n)`: what vmlinux calls by that name, variables apart, are functions and
no aliases, which are all static and in one section, or there is only one; none
is in a file outside the module with a basename of the module; no two files of
the module define it as weak and strong; a function of a header is compiled into
files of the module only; variables of the name that kallsyms shows are listed
behind static functions; and `kern_path` is a strong function.  For other names
the code does go wrong, see section 6.  If several undefined functions have the
name, `ResolvedToMeant` says that the address is that of one of them, and no more:
the resolver's map has one entry for them all.  `ExportsFound` asks besides that
no variable or alias of the name is exported.

`CallsAttributed` and `CallbacksFound` do not need `Numbered`.  They are stated for
`Told` uses: the analyzer did not warn of the name, the unit has no definition of
its own that is overridden, and what the use is bound to is a function, not an
alias.  An alias's own edge is there if its function is public; it is lost if it
is static (section 6).

### Extract

A file is a sequence of items, each on rows of its own, and a row is a sequence
of tokens: the names, braces, semicolons and keywords the code looks for.  What
the plugin recorded (rows, the column of the left brace) is computed once for
the file as it was, and every pass of `extract.py` works on it in any order of
its list.  An item may take more rows after the rewriting than before, never
fewer; rows are joined and left empty.  `WellFormed` says what the language
guarantees (a definition has its name, a function ends with the brace that
closes its body, a variable with a semicolon), and `Handled` names the layouts
the code is made for: a variable begins on the row of its name or of its
anonymous struct, its declarators are on one row, and its other semicolons are
those of the struct's fields above the name; `__init` is on the first row of its
function, whose braces are closed on its last row and not before; other boot code
is on one row, and the words that mark it are nowhere else.  A static variable of
an anonymous struct type is not marked `__used`, in the model as in the code.  A
word that is deleted inside a row leaves an empty token, so that columns stay
comparable; `ExtractedAsMeant` does not count it.

Three properties say what is written.  `ExtractedAsMeant` compares the tokens of
the whole file with what each item was to become, one after the other, without
looking at rows.  `RowsAsMeant` does look at them: each row is where it was and
holds exactly what its item asks for.  It is stated for the items that end with
a semicolon, a brace, a directive, a comment or an empty row (`Ended`), because
a prototype below takes the rows of any other text as its own beginning, and not
for outsiders, which take such rows.  `BodiesGone` says of these that no row
holds a brace of their body once they were worked on.  `RewrittenAsMeant` is
the two together.

Changes of names inside a row (`struct sched_class`, `atomic_t`) are text and
left out.

### Sandbox

One action is one command of `cmd_init`; `rsync` is one step per directory,
compiling one per unit, extracting one per file.  After any of them `Fail` may
end the run, and `init` may be started again, for the same or another kernel.
What `rsync --delete` spares depends on the `.gitignore` that an earlier run
left: the kernel's names the object files, plugsched's the metadata.  make
compiles what has no object file, and only compiling writes metadata.

`MetadataComplete` leaves out two histories: the directory was used for another
kernel, and an `rsync` into a directory with object files was itself interrupted
(`cut`).  In both the analysis can see stale or missing metadata, see section 6.
An `rsync` into a fresh directory may be interrupted.

A release and the names of the configurations are strings of characters that the
choice of a configuration can tell apart.  `ConfigClose` is what that choice
guarantees; `ConfigLongest` is what the documentation says, and is violated.

## 3. Runs

| run | instance | shows |
|---|---|---|
| `sync_safety` | CPUs {0, 2}, 2 tasks, 1 view, no spare object | the state after any sequence of updates, failed ones included, is consistent |
| `sync_live` | CPUs {0, 2, 3}, 1 task, 1 spare object, with fairness | the three barriers keep the phases apart also for a CPU that is neither first nor last; the machine never stays stopped; the protocol implements `LiveUpdate` |
| `rebuild_live` | 3 threads | live threads are moved once, and the stopper stays counted while they are |
| `rebuild_dying` | 3 threads | two findings, section 6 |
| `stack_cover` | 4 functions in three families: any pair of roles with any calls but self-calls; clones, and sidecars, with up to 4 calls, recursion included; recursion depth 3; stacks up to 4; the analyzer fair | the insiders are the largest closed set, kept sidecar code compiles, clones are safe when results are written, a sleeping thread that passes is clean, the analysis ends |
| `stack_search` | tables up to 4, addresses up to 5, sizes up to 2 | sorting and searching against their definition |
| `life_serial` | both architectures, 2 administrators, installer, 3 attempts, calls apart | nothing leads into a removed module, hotfixes stay on x86, `enable` is true |
| `life_race` | 1 administrator, calls overlap | a finding |
| `symbols` | 5 units and a header; every way their functions can define one name; with up to two of these, a second name, an alias or a variable of the name; `kern_path` | calls, callbacks, exports and presence are attributed to what is linked; resolved addresses and hotfix positions are those of a function meant |
| `extract` | files of 2 and 3 items, in the layouts the kernel's scheduler uses for each class | each item becomes what its class asks for, row by row and in place; recorded positions stay valid; no body is left of what is outside; the program ends |
| `sandbox` | 2 kernels, 2 directories, 4 units, 2 extracted files, 4 starts of `init` | the analysis sees all metadata, packages are of one kernel, the choice of a configuration is at most one character off, a retry succeeds |
| `config_dir` | the configurations of the documentation's examples and a neighbour, releases with the name of the architecture | a finding |

The bounds are chosen so that the interesting cases occur.  CPU numbers have a
hole, so that a CPU number is not its `process_id`.  Two tasks on two CPUs give
both shares of the stack check something to find; three CPUs give barriers a
middle CPU.  With no spare object in the pool a single fork makes the recheck
fail.  Four functions allow a caller outside the scheduler, an intermediate one,
a border function and an insider; three in a row allow a fixpoint of several
rounds.  `RecursionLimit = 3` exceeds no chain without repetition, since only
three functions are in the scheduler's file.  Tables of four entries have a heap
of three levels.  The five units are one of each kind the code tells apart: under
`arch/` with a basename of the module, two files of the module (which share the
header), an unrelated one, a sidecar's.  In three items the middle one is of
each kind that leaves or takes rows of its neighbours.  Four starts of `init`
allow an interrupted run for each kernel, the completion of one, and one more
over its remains.  The attempts of the installer are cut from five to three,
which changes nothing but the length of the runs.

`stack_cover`, `symbols`, `extract`, `sandbox`, `config_dir`, `stack_search` and
the runs of `SchedRebuild` do not check for deadlock, because the programs end
there (or, in `SchedRebuild`, the machine is lost after a fault).  All others
do: an update that got stuck would be found as a deadlock too.

Fairness: handlers run in stopper threads, at the highest priority and with
interrupts off, so each goes on when it can (`WF` per CPU).  The updating
thread, the sort, the analyzer and the extractor are ordinary programs that are
scheduled (`WF`).  In `Sandbox` the tool goes on (`Tool`) and whoever started it
starts it again after a failure (`Again`); that it fails for ever is excluded by
`MaxRuns`, after which the last run succeeds.  Nothing obliges anyone to request
an update, tasks to do anything, or CPUs to come and go.

For each property of a passing run there is a mutant in `PROJECT.json`: a
plausible bug (operators named `Bug_...`) under which the property fails.

## 4. What is proved

For any finite set of CPUs and tasks and any number of views
(`SyncSchedProofs`): all safety properties of `SyncSched`, from
`CPUAssumption`, `TaskAssumption` and `BoundAssumption`.  They are not
inductive: that all CPUs decide alike depends on what the counters count.
`IInv` therefore ties each counter to the number of CPUs before its barrier
(`CounterInv`), derives that no CPU is past a barrier that another has not
reached (`BarrierInv`), that an error word still empty means that every check
so far found nothing (`CheckInv`), and says for each place of a CPU where its
tasks are queued (`QueueInv`) and which version is in force (`VersionInv`).
`Init => IInv` and the preservation by each action are lemmas of their own; the
counters need facts on the cardinality of a set with one element removed.  That
the ranks of the tasklist modulo the number of CPUs hit each process id is the
lemma behind `ChecksPartition`.

`Refinement`: the protocol implements `LiveUpdate` when a
queued task of the stopped machine counts as held by the version in force.  The
step that writes the function heads is the abstract switch; `CheckInv` gives it
its precondition, all others map to kernel steps or to stuttering.

For any program (`BoundaryProofs`): `BoundarySafe` and `BoundaryMaximal`, from an
invariant that keeps every closed set of candidates inside `insiders`;
`SidecarsCompile`, from the closure of what `sidecar_inflect` keeps;
`ClonesChecked`, see below; and `StackCheckSound`, from the invariant that the
innermost frames of a stack are insiders only above a border function: every way
into an insider passes the border, so a stack without border functions has no
insider.  `ClonesSafe` is
defined as an iteration over the call graph, upwards through optimised functions.
A set that no outsider calls and that contains the optimised callers of its
members is never left by it (`Sound`, `Safe`).  The depth-first check shows that
there is such a set for each root: `CheckInv` says of each frame of its stack
that the callers it is through with are no outsiders, and that the optimised
ones among them are safe or in the frame above.

For any finite number of threads, with a counter wide enough for them
(`SchedRebuildProofs`): `LiveSafe` and `StopperSafe`.  The invariant says at
each place which threads `nr_running` counts (`Counted`), and that once the
drain loop has met a dying task the list holds `Junk` and nothing else
(`Strayed`); so the machine runs again only if there was none.  `StopperSafe` does
not cover the endless loop over the dying tasks, where the counter wraps.

For any number of administrators and attempts, if `Serialized` holds
(`LifecycleProofs`): `RemovedSafe`, `HotfixSafe` and `EnableTrue`.  At most one
actor is inside the module, and the invariant gives the module's state for each
place it can be at (`Busy`) and for when nobody is (`Idle`).  An action is then
an entry, a move or a departure, each with a lemma of its own.  `RemovedSafe` and
`EnableTrue` are about both architectures, `HotfixSafe` is about x86.

For any kernels, units and directories and any number of runs of `init`
(`SandboxProofs`): `PackagePure` and `AnalysisOfWholeKernel`.  The `.gitignore`
tells how far the last run came: as long as it is the kernel's there are no
`vmlinux` and `.config` to build with (`NoInputs`), and once it is plugsched's
all that was copied is of one kernel (`OneKernel`).  An object file without
metadata can only stem from an `rsync` that was cut short (`ObjsGone`).
`ConfigNearest`: the order by which the code sorts the candidates is total on the
finite set of configurations, so there is a last one (`ConfigChosen`), and none
shares more than one character more with the release (`ConfigInv`).

For any kernel the compiler and the linker accept (`SymbolsProofs`), with any
number of weak definitions, aliases and variables of a name: `CallGraphLinked` and
`CallbacksComplete`.  What the passes have recorded is a function of the units
read so far, whatever their order (`PassInv`); the core is the lemma
`ChosenIsLinked`, that the head of `sorted(fn_list)` is the definition the linker
takes if that is a function and the analyzer did not warn.  For the linker takes
the strong definition or the first weak one (`LinkerChooses`), and `arch/` is
linked first; an entry of the same priority would have led to the warning.

For the same kernels and `Numbered` names: `PresenceCorrect`, `ExportsCorrect`,
`ResolveCorrect` and `TaintedCorrect`.  `ScanInv` says what `find_in_vmlinux` has
counted when it is part of the way through the symbol table: `fn_pos` is the
number of namesakes met (`CountInv`), a position is the rank of the symbol among
them (`PositionInv`), and what is present or exported is what was met of it
(`PresenceInv`, `ExportInv`).  The resolver counts all symbols of the name, variables too, in the order
of kallsyms, by address.  The two ranks agree (`RankExact`) because, within one
section, the local entries of the table and their addresses both follow the order
in which the units are linked (`AddressOrder`), and variables come behind.

For tables of any length and any addresses and sizes (`StackSearchProofs`):
`SortCorrect` and `SearchCorrect`, from `TableInv`.  Addresses and sizes stay
paired and are those of the functions given (`Paired`); the part of the table
being sifted is a heap but for the node that sinks, whose children are not above
its parent either, and the rest is sorted (`SortInv`); what is below the bounds
of the search is below the target, what is above them above it (`SearchInv`).

For files of any length, with definitions on any rows (`ExtractProofs`):
`PositionsCorrect`, from `FileAssumption`.  `FreshInv` says what the lists ahead
can rely on.  A function's rows are those of the file until its list is worked
on; a static variable's name is on its row; a shared variable has its name or
its type on its first row and a semicolon inside its own rows.  Each pass then
needs the lemma that it stays inside the rows of the item it works on: joining
upwards stops at the semicolon or brace that ends the item before
(`MergeUpKeeps`, `OutsiderKeeps`), joining downwards at the semicolon of the
variable itself (`MergeDownHolds`, `MergeWithin`).  An outsider may take rows of
text or of an initialisation function above it, whose positions nobody uses.

`BodiesRemoved` and `RowsCorrect`, together `RewritingCorrect`, are about what the file holds in the end.
Every step writes only tokens that were on the rows it takes, and takes no row
of an item that is `Ended` but its own.  Hence a brace of an outsider stays on
the outsider's rows until it is worked on, and is then on none (`BodyInv`).  For
the rows of the others: the file has the rows of its items, one after the other
(`LinesInv`); an item is as it was until its list reaches it, and then as the
lists are to leave it (`PlainInv`); a shared variable is joined on its first
row, to which joining it again for a second declarator adds nothing, then
deleted, then declared, the rest of its rows being empty all the while
(`SharedInv`); the words of boot code are nowhere but on the
first rows of boot code (`HomeInv`), so that `fix_up` deletes those items and
nothing else; and the rows `fix_up` has passed are final while those ahead of it
are as the lists left them (`FixInv`).

Induction, where a proof needs it (sums of lengths, `FlattenSeq`, the iteration
of `ClonesSafe`, sifting, finite sets of configurations), is done by least
counterexample: a set of numbers that holds 0 and is closed under successor holds
all (`InductiveSet`), from the well-foundedness of `<` in the library.

Only model-checked: liveness (`UpdateTerminates`, `AnalysisTerminates`,
`SearchTerminates`, `ExtractionEnds`, `RetrySucceeds`), which is out of the
prover's reach; and `ExtractedAsMeant`.  What that adds to `RowsCorrect` is the
text of an outsider's declaration and of what stands right above it, which share
rows in a way that depends on the layout; it would need induction over
`SelectSeq` and `FlattenSeq` of the whole file.

The assumptions on the constants are the `ASSUME`s of the modules, which TLC
evaluates in the runs.  Besides the types they ask that sets are finite which are
finite in the code (the functions, the units, the directories under `configs/`),
and for the shape of the input: what the compiler and the linker accept, and what C
and `Handled` allow.

## 5. Reading the modules against the code

`PROJECT.json` maps each definition to its source lines.  Install and restore
differ only in the recheck of the pool, the allocation and the release, and in
the direction; they share their actions, with `op` telling them apart.  Old and
new version are `Old(op)` and `New(op)`.  In `Sandbox`, `"idle"` is a run that
failed or was never made, `"done"` one that printed "Succeed!".

## 6. Findings

1. `sched_rebuild.c:130`: the drain loop dequeues the stale cursor `p`, not the
   task `next` that it picked.  A thread off the tasklist stays in the replaced
   scheduler's queue (`rebuild_dying`).
2. `sched_rebuild.c:171`: the loop over `dying_task_list` unlinks the entry it
   stands on and never ends (`rebuild_dying`).
3. `main.c:607`: `enable` can be written before the first load; if that load
   fails, the module is freed while it is in force (`life_race`).
4. `cli.py:130`: a configuration directory whose whole name is a prefix of the
   release counts one character less than it shares, so that `4.19.91-12` only
   ties with its neighbour `4.19.91-11` for the kernel `4.19.91-12.x86_64`, and the
   neighbour is chosen.  The documentation says the longest common prefix wins and
   counts 10 for that example (`config_dir`); `ConfigClose` allows one character
   for this reason.

Observations that follow from the code or the models and have no run of their
own:

- `head_jump.h:111`: the change log promises that hooked heads are detected
  (ChangeLog.md:55); the macro for ARM64 does not look at them, so that a hotfix
  that comes between the script's check and `insmod` is saved as the original head.
- `collect.py:303`: an alias names its function without a file, also where that is
  static, which `lookup_if_global` supposes not to happen (`analyze.py:177`); the
  edge is lost, or becomes one to a public function of that name.
- `analyze.py:237`: the check of clones recurses without end on recursive
  functions, and the analysis stops (`recursion_error` in `Boundary`).
- `analyze.py:246` and 263: a callback that the compiler optimised away leaves
  the border and stays a candidate for the insiders, so that it can be written
  out in both classes.
- `analyze.py:92`: a FILE entry of the symbol table is a basename; functions of
  any file of the kernel with a basename of the module are taken for the
  module's.  The other way round (`analyze.py:119`), a static function of a header
  is looked for only under the FILE entries of the module's files, so that a copy
  that another unit got is not found.
- `analyze.py:132`: where files of the module define a function both weak and
  strong, the file it is found in is the first of a Python set.
- `docs/Support-various-Linux-distros.md:24` and 26 contradict each other: by the
  longest common prefix, `4.19.64-5.x86_64` shares `4.19.` with `4.19.91`, which is
  longer than `4.19`, the configuration that line 26 says it matches.
- `collect.py:116`: an alias has no body, so that a call by its name, or its address
  taken, is recorded as `(name, ?)` and dropped by `lookup_if_global` although it is
  neither a built-in nor an assembly function.  The calls in a weak definition that
  is overridden are attributed to it, although it is not linked.
- `analyze.py:377`: of two weak definitions of the same class the first by path is
  taken, with a warning; the linker takes the first in its own order.
- `symbol_resolve.cpp:143`: a variable with the name of a function counts in kallsyms.
  Listed before the function it shifts its position, and beside a public function
  the name is ambiguous and the resolver aborts (line 97).  Of `kern_path` only the
  public function is counted (line 137), so that a static one is lost.
- `README.md:232` tells users that a hotfix of a function that plugsched replaces is
  overwritten; on x86 it is refused instead, by the script or by `jump_init_all`.
- `symbol_resolve.cpp:152`: undefined functions of different files with one name
  share one entry.  `get_func_decl_strs` asserts distinct names only per class
  of the redirected functions.  An interface without a symbol of its own can be
  resolved to a static function of the same name.
- `extract.py:275` and 287: a declaration with declarators on several rows, or an
  `__init` prototype on several rows, takes the next definition with it.
- `cli.py:166`: an `rsync` over the remains of an interrupted run that is itself
  interrupted leaves object files whose metadata is deleted, so that the next
  analysis does not see those units.  A directory used for another kernel keeps
  its metadata.
- `cli.py:218`: `build` does not ask whether `init` has finished: extracted files
  without `post_extract.patch` are packed.
- `cli.py:123`: `KREL` is set only for releases with the name of an architecture;
  without one `build` fails.  `cli.py:132`: the pattern for `6.1` also matches
  `6.15`.
- `scheduler-installer:55`: a refused `rmmod` is reported as success.
- `yaml-diff.py:31` reads the class `outsider`, which the analyzer no longer
  writes.

## 7. Not modelled, and the plan

Not modelled: the report on struct fields (`collect_struct`,
`analyze.py:406-431`) and the text of `export_jump.h`, which nothing but a
reader and the compiler use; the repair of declarations in `collect.py`
(`GccBugs`) and its walk over the compiler's trees; `extract_src`; the search
for the springboard in disassembly; build scripts; configurations (data); tests
and examples; instruction encodings, the kernel's unwinder, the bandwidth
timers.

What could come next:

1. `Mempool`: the address arithmetic of both pools against a set of disjoint
   objects, with widths, and the failing creation of one of several pools.
2. A version of the handshake with the reorderings that relaxed atomics allow.
3. A proof of what `ExtractedAsMeant` adds to `RowsCorrect`: the text of outsiders'
   declarations and of what stands right above them.
