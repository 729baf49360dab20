------------------------------- MODULE Symbols -------------------------------
(***************************************************************************)
(* How functions are identified from the source to the running kernel:     *)
(* boundary/collect.py names them by (name, file), or by (name, ?) where a *)
(* translation unit has only a declaration; boundary/analyze.py completes  *)
(* the names (first and second pass), finds the functions in the symbol    *)
(* table of vmlinux (find_in_vmlinux) and numbers those that share a name; *)
(* tools/symbol_resolve turns name and number into an address.             *)
(*                                                                         *)
(* A name may stand for functions, for aliases of functions and for        *)
(* variables: the compiler's call graph knows bodies only, the symbol      *)
(* table is read for functions and aliases, and kallsyms has all three.    *)
(*                                                                         *)
(* What is wanted of a function (outsider, border, insider) is computed by *)
(* Boundary and is free here.                                              *)
(***************************************************************************)
EXTENDS Naturals, Sequences, FiniteSets

CONSTANTS
  Name,       \* names of functions, aliases and variables
  KernPath,   \* the name "kern_path", of which load_kallsyms takes functions only
  UnitSeq,    \* the translation units, in the order they are linked
  ArchUnit,   \* those under arch/
  FileRank,   \* the place of a unit's path in the order of strings
  ModSrc,     \* the module's source files ...
  SdcrSrc,    \* ... and the files of its sidecars: the kernel's own units
  Header,     \* the module's header, included by the module's sources
  Homonym,    \* <<u, v>>: u is no file of the module, but has the basename of v
  Uses,       \* <<u, n, kind>>: how the code of u that is not __init uses n
  Kernel      \* kernels: sets of definitions

Unit == {UnitSeq[i] : i \in 1 .. Len(UnitSeq)}
AllFiles == ModSrc \cup SdcrSrc \cup {Header}
ModFiles == ModSrc \cup {Header}
UnitPos(u) == CHOOSE i \in 1 .. Len(UnitSeq) : UnitSeq[i] = u

NoFile == "?"   \* a file that the compiler does not know
UseKind == {"call", "address", "initializer", "sched_class", "addressable"}

ASSUME UnitAssumption ==
  /\ Uses \subseteq Unit \X Name \X UseKind
  /\ ArchUnit \subseteq Unit /\ ModSrc \subseteq Unit /\ SdcrSrc \subseteq Unit
  /\ FileRank \in [Unit -> Nat] /\ \A u, v \in Unit : FileRank[u] = FileRank[v] => u = v
  /\ Header \notin Unit /\ NoFile \notin Unit \cup {Header} /\ UnitSeq \in Seq(Unit)
  /\ Homonym \subseteq (Unit \ AllFiles) \X (ModSrc \cup SdcrSrc)
  /\ \A a \in ArchUnit, u \in Unit \ ArchUnit : UnitPos(a) < UnitPos(u)

\* The sections of vmlinux in the order of their addresses: variables come before,
\* between and behind the text of functions and the .init.text.
SectionSeq == <<"percpu", "text", "data", "init", "bss">>
Section == {SectionSeq[i] : i \in 1 .. 5}
SectionPos(s) == CHOOSE i \in 1 .. 5 : SectionSeq[i] = s

\* A definition: what it is, its name and that of the function an alias stands
\* for, the unit it is compiled in, the file its text is in (the unit or the
\* header), its binding and section, whether a symbol of its own is left by the
\* optimiser, whether there is a clone, and whether it is exported to modules.
Definition ==
  [kind : {"function", "alias", "variable"}, name : Name, of : Name, unit : Unit,
   file : Unit \cup {Header}, bind : {"static", "weak", "strong"}, section : Section,
   kept : BOOLEAN, clone : BOOLEAN, export : BOOLEAN]

\* What the compiler accepts: one definition of a name in a unit, where it is a
\* function, an alias of a function of the unit, or a variable; only functions
\* are in headers and have clones.
Compiled(K) ==
  /\ K \subseteq Definition
  /\ \A d, e \in K : d.name = e.name /\ d # e => d.unit # e.unit
  /\ \A d \in K :
       /\ d.file # d.unit => d.file = Header /\ d.bind = "static"
       /\ d.kind # "function" => d.file = d.unit /\ ~d.clone
       /\ d.kind = "variable" <=> d.section \notin {"text", "init"}
       /\ d.kind = "alias" =>
            \E t \in K : /\ t.kind = "function" /\ t.name = d.of
                         /\ t.unit = d.unit /\ t.section = d.section
       /\ d.export => d.bind = "strong"

\* What the linker accepts: a name that is public is that of functions or that of
\* variables, and strong only once.
Linkable(K) ==
  \A d, e \in K : d.name = e.name /\ d # e /\ d.bind # "static" /\ e.bind # "static" =>
    /\ ~(d.bind = "strong" /\ e.bind = "strong")
    /\ d.kind = "variable" <=> e.kind = "variable"

ASSUME KernelAssumption == \A K \in Kernel : Compiled(K) /\ Linkable(K)

VARIABLES
  kernel,        \* the definitions of the kernel that is updated
  place,         \* where the tools are
  unread,        \* the .boundary files the current pass has still to read
  fns,           \* func_class.fn
  global_fns,    \* global_fn_dict: by name, what is public
  warned,        \* the names of which analyze.py can't tell which is linked
  fake_global,   \* func_class.fake_global
  edges,         \* <<calling unit, signature>>; NoFile calls by an alias
  callback,      \* func_class.callback
  unscanned,     \* the entries of vmlinux's symbol table not yet read
  fn_pos, local_sympos, in_vmlinux, mangled, export,   \* as in find_in_vmlinux
  und,           \* func_class.und
  resolved       \* by name, what symbol_resolve puts into the module

scanVars == <<unscanned, fn_pos, local_sympos, in_vmlinux, mangled, export>>
vars == <<kernel, place, unread, fns, global_fns, warned, fake_global, edges, callback,
          scanVars, und, resolved>>

Sig(d) == <<d.name, d.file>>

-------------------------------------------------------------------------------
(***************************************************************************)
(* The linker and the running kernel.                                      *)
(***************************************************************************)
Global(n) == {d \in kernel : d.name = n /\ d.bind # "static"}

\* A strong definition wins over weak ones, the first linked weak one over others.
LinkerChoice(n) ==
  CHOOSE d \in Global(n) :
    IF \E e \in Global(n) : e.bind = "strong" THEN d.bind = "strong"
    ELSE \A e \in Global(n) : UnitPos(d.unit) <= UnitPos(e.unit)

Linked(d) == d.bind = "static" \/ d = LinkerChoice(d.name)

HasSymbol(d) == d.kept /\ Linked(d)

\* A section is laid out in the order the units are linked.  (An alias is where
\* its function is.)
Address(d) == SectionPos(d.section) * Len(UnitSeq) + UnitPos(d.unit)

\* load_kallsyms: by name, the symbols of all types in the order of their
\* addresses; it skips the names with a dot, and everything called kern_path but
\* a public function.
Kallsyms(n) ==
  {d \in kernel : /\ d.name = n /\ HasSymbol(d)
                  /\ n = KernPath => d.kind # "variable" /\ d.bind = "strong"}
Nth(n, i) ==
  {d \in Kallsyms(n) : Cardinality({e \in Kallsyms(n) : Address(e) <= Address(d)}) = i}

\* readelf lists the local symbols unit by unit, then the global ones; aliases are
\* FUNC symbols as functions are, variables are passed over.  What is exported,
\* variables included, has a local __ksymtab_ entry too.
Symtab ==
  {[def |-> d, kind |-> IF d.bind = "static" THEN "local" ELSE "global"] :
     d \in {d \in kernel : HasSymbol(d) /\ d.kind # "variable"}}
  \cup {[def |-> d, kind |-> "clone"] : d \in {d \in kernel : d.clone /\ Linked(d)}}
  \cup {[def |-> d, kind |-> "ksymtab"] : d \in {d \in kernel : d.export}}

SymtabKey(s) == UnitPos(s.def.unit) + IF s.kind = "global" THEN Len(UnitSeq) ELSE 0

-------------------------------------------------------------------------------
(***************************************************************************)
(* collect.py: what the compiler says of one unit.                         *)
(***************************************************************************)
\* collect_fn ignores aliases.
MetaFns(u) == {d \in kernel : d.unit = u /\ d.kind = "function"}

\* decl_sig: a function without a body in this unit, an alias included, has no
\* known file.
DeclSig(u, n) ==
  IF \E d \in MetaFns(u) : d.name = n
    THEN Sig(CHOOSE d \in MetaFns(u) : d.name = n)
    ELSE <<n, NoFile>>

\* The names unit u uses as functions in one of these ways; it has no variables of
\* these names then.
UsedAs(u, kinds) ==
  {n \in Name : /\ \E k \in kinds : <<u, n, k>> \in Uses
                /\ \A d \in kernel : d.unit = u /\ d.name = n => d.kind # "variable"}

MetaCalls(u) == {DeclSig(u, n) : n \in UsedAs(u, {"call"})}

\* An alias calls the function it stands for, of which only the name is known.
MetaAliases(u) ==
  {<<a.of, NoFile>> :
     a \in {a \in kernel : a.unit = u /\ a.kind = "alias" /\ a.section # "init"}}

\* collect_callback: the functions whose address is taken by a statement or by an
\* initialiser, but that of a sched_class, which is private to the scheduler.
MetaCallbacks(u) ==
  {DeclSig(u, n) :
     n \in {n \in UsedAs(u, {"address", "initializer"}) :
              \A d \in kernel : d.unit = u /\ d.name = n => d.section # "init"}}

(***************************************************************************)
(* analyze.py, first pass: all functions, and the public ones by name.     *)
(***************************************************************************)
STRONG == 1
WEAK_ARCH == 2
WEAK_NORM == 3

Bug_PriorityByArch(d) ==
  CASE d.bind = "weak" /\ d.unit \in ArchUnit -> STRONG
    [] d.bind = "weak" /\ d.unit \notin ArchUnit -> WEAK_NORM
    [] d.bind = "strong" -> WEAK_ARCH
Priority(d) ==
  CASE d.bind = "weak" /\ d.unit \in ArchUnit -> WEAK_ARCH
    [] d.bind = "weak" /\ d.unit \notin ArchUnit -> WEAK_NORM
    [] d.bind = "strong" -> STRONG

Init ==
  /\ kernel \in Kernel
  /\ place = "first" /\ unread = Unit
  /\ fns = {} /\ global_fns = [n \in Name |-> {}] /\ warned = {} /\ fake_global = {}
  /\ edges = {} /\ callback = {}
  /\ unscanned = {} /\ fn_pos = [n \in Name |-> 0]
  /\ local_sympos = [s \in Name \X AllFiles |-> 0]
  /\ in_vmlinux = {} /\ mangled = {} /\ export = {} /\ und = {}
  /\ resolved = [n \in Name |-> {}]

FirstPass(u) ==
  /\ place = "first" /\ u \in unread
  /\ unread' = unread \ {u}
  /\ fns' = fns \cup {Sig(d) : d \in MetaFns(u)}
  /\ global_fns' =
       [n \in Name |-> global_fns[n] \cup
          {<<Priority(d), d.file>> : d \in {d \in MetaFns(u) :
                                              d.name = n /\ d.bind # "static"}}]
  /\ UNCHANGED <<kernel, place, warned, fake_global, edges, callback, scanVars,
                 und, resolved>>

\* The head of sorted(fn_list), which orders by priority and then by path.
Precedes(g, h) == g[1] < h[1] \/ (g[1] = h[1] /\ FileRank[g[2]] < FileRank[h[2]])
Chosen(n) == CHOOSE g \in global_fns[n] : \A h \in global_fns[n] \ {g} : Precedes(g, h)

\* Its first two elements have the same priority.
Tied(n) ==
  \E g, h \in global_fns[n] :
    g # h /\ g[1] = h[1] /\ \A k \in global_fns[n] : g[1] <= k[1]

\* "Can't tell which is linked in vmlinux": a warning, and the head is taken.  (main,
\* of which the code does not warn, is the name of host programs, not of the kernel.)
FirstPassEnd ==
  /\ place = "first" /\ unread = {}
  /\ place' = "second" /\ unread' = Unit
  /\ warned' = {n \in Name : Tied(n)}
  /\ fake_global' =
       UNION {{<<n, g[2]>> : g \in {g \in global_fns[n] \ {Chosen(n)} :
                                      g[1] \in {WEAK_ARCH, WEAK_NORM}}} :
                n \in {n \in Name : global_fns[n] # {}}}
  /\ UNCHANGED <<kernel, fns, global_fns, edges, callback, scanVars, und,
                 resolved>>

(***************************************************************************)
(* Second pass: lookup_if_global fills in the files of the calls.          *)
(***************************************************************************)
Bug_LookupAlways(sig) ==
  IF global_fns[sig[1]] = {} THEN {sig} ELSE {<<sig[1], Chosen(sig[1])[2]>>}
LookupIfGlobal(sig) ==
  IF sig[2] # NoFile THEN {sig}
  ELSE {<<sig[1], Chosen(sig[1])[2]>> : g \in global_fns[sig[1]]}

SecondPass(u) ==
  /\ place = "second" /\ u \in unread
  /\ unread' = unread \ {u}
  /\ edges' = edges
       \cup {<<u, t>> : t \in UNION {LookupIfGlobal(s) : s \in MetaCalls(u)}}
       \cup {<<NoFile, t>> : t \in UNION {LookupIfGlobal(s) : s \in MetaAliases(u)}}
  /\ callback' = callback \cup
       {c \in UNION {LookupIfGlobal(s) : s \in MetaCallbacks(u)} : c[2] \in ModFiles}
  /\ UNCHANGED <<kernel, place, fns, global_fns, warned, fake_global, scanVars,
                 und, resolved>>

SecondPassEnd ==
  /\ place = "second" /\ unread = {}
  /\ place' = "symtab" /\ unscanned' = Symtab
  /\ UNCHANGED <<kernel, unread, fns, global_fns, warned, fake_global, edges,
                 callback, fn_pos, local_sympos, in_vmlinux, mangled, export,
                 und, resolved>>

(***************************************************************************)
(* find_in_vmlinux, one entry of the symbol table after the other.         *)
(***************************************************************************)
\* Disagreement 1: a FILE entry is a basename, which fullname turns into a file
\* of the module.
FileEntry(u) ==
  IF \E h \in Homonym : h[1] = u THEN (CHOOSE h \in Homonym : h[1] = u)[2] ELSE u

\* get_in_any: the first of the module's files with a function of that name; the
\* header is asked first and the sidecars' files last, each in arbitrary order.
AnyOfFirst(n, files) ==
  LET found(S) == {f \in files \cap S : <<n, f>> \in fns} IN
    IF found({Header}) # {} THEN found({Header})
    ELSE IF found(ModSrc) # {} THEN found(ModSrc) ELSE found(SdcrSrc)

Scanning(s) ==
  /\ place = "symtab" /\ s \in unscanned
  /\ \A t \in unscanned : SymtabKey(s) <= SymtabKey(t)
  /\ unscanned' = unscanned \ {s}

\* Disagreement 4: the clones, whose entries have a dot in the name.
ScanClone(s) ==
  /\ Scanning(s) /\ s.kind = "clone"
  /\ mangled' = mangled \cup {<<s.def.name, FileEntry(s.def.unit)>>}
  /\ UNCHANGED <<kernel, place, unread, fns, global_fns, warned, fake_global,
                 edges, callback, fn_pos, local_sympos, in_vmlinux, export, und,
                 resolved>>

\* EXPORT_SYMBOL in a file of the module.
Bug_Exports(s) == TRUE
Exports(s) == FileEntry(s.def.unit) \in ModFiles

ScanKsymtab(s) ==
  /\ Scanning(s) /\ s.kind = "ksymtab"
  /\ LET found == AnyOfFirst(s.def.name, ModFiles) IN
       IF Exports(s) /\ found # {}
         THEN \E f \in found : export' = export \cup {<<s.def.name, f>>}
         ELSE UNCHANGED export
  /\ UNCHANGED <<kernel, place, unread, fns, global_fns, warned, fake_global,
                 edges, callback, fn_pos, local_sympos, in_vmlinux, mangled, und,
                 resolved>>

\* Every local function is counted, those of other files too.
Bug_CountsOwnFilesOnly(s) == FileEntry(s.def.unit) \in AllFiles
Counted(s) == TRUE

\* Disagreement 2: the text of a local function may be in the header.
Bug_LocalFile(s) == {FileEntry(s.def.unit)} \cap AllFiles
LocalFile(s) ==
  LET u == FileEntry(s.def.unit) IN
    IF u \notin AllFiles THEN {}
    ELSE IF <<s.def.name, u>> \in fns THEN {u} ELSE AnyOfFirst(s.def.name, {Header})

ScanLocal(s) ==
  LET n == s.def.name IN
  /\ Scanning(s) /\ s.kind = "local"
  /\ fn_pos' = IF Counted(s) THEN [fn_pos EXCEPT ![n] = @ + 1] ELSE fn_pos
  /\ local_sympos' =
       [sig \in DOMAIN local_sympos |->
          IF \E f \in LocalFile(s) : sig = <<n, f>> THEN fn_pos'[n] ELSE local_sympos[sig]]
  /\ in_vmlinux' = in_vmlinux \cup {<<n, f>> : f \in LocalFile(s)}
  /\ UNCHANGED <<kernel, place, unread, fns, global_fns, warned, fake_global,
                 edges, callback, mangled, export, und, resolved>>

\* Disagreement 3: where a global function stands in the symbol table says
\* nothing of its file.
ScanGlobal(s) ==
  /\ Scanning(s) /\ s.kind = "global"
  /\ LET found == AnyOfFirst(s.def.name, AllFiles) IN
       IF found = {} THEN UNCHANGED in_vmlinux
       ELSE \E f \in found : in_vmlinux' = in_vmlinux \cup {<<s.def.name, f>>}
  /\ UNCHANGED <<kernel, place, unread, fns, global_fns, warned, fake_global,
                 edges, callback, fn_pos, local_sympos, mangled, export, und,
                 resolved>>

-------------------------------------------------------------------------------
(***************************************************************************)
(* The results, and symbol_resolve on the machine that is updated.         *)
(***************************************************************************)
\* The functions the module may leave undefined or redirect: those of its files.
Candidates == {s \in fns : s[2] \in AllFiles}

WriteResults ==
  /\ place = "symtab" /\ unscanned = {}
  /\ und' \in SUBSET Candidates
  /\ place' = "resolve"
  /\ UNCHANGED <<kernel, unread, fns, global_fns, warned, fake_global, edges,
                 callback, scanVars, resolved>>

\* undefined_functions.h initialises a std::map: of entries with the same name
\* the first one counts, and they are written in the order of a Python set.
\* Names that are not in it are global: position 0.
Positions(n) ==
  LET same == {s \in und : s[1] = n}
  IN  IF same = {} THEN {0} ELSE {local_sympos[s] : s \in same}

\* Consistent with kpatch: 1 for a global function.
Bug_TaintedPosition(f) == local_sympos[f]
TaintedPosition(f) == IF local_sympos[f] = 0 THEN 1 ELSE local_sympos[f]

Index(sympos) == IF sympos = 0 THEN 1 ELSE sympos
Unresolvable(sympos, n) ==
  \/ sympos = 0 /\ Cardinality(Kallsyms(n)) > 1
  \/ sympos > 0 /\ Cardinality(Kallsyms(n)) < sympos

\* resolve_ref aborts ...
ResolveAbort(n) ==
  /\ place = "resolve" /\ resolved[n] = {} /\ Kallsyms(n) # {}
  /\ \E sympos \in Positions(n) : Unresolvable(sympos, n)
  /\ place' = "aborted"
  /\ UNCHANGED <<kernel, unread, fns, global_fns, warned, fake_global, edges,
                 callback, scanVars, und, resolved>>

\* ... or writes an address into the module; what is not in kallsyms stays
\* undefined and the module is not accepted by the kernel.
ResolveRef(n) ==
  /\ place = "resolve" /\ resolved[n] = {} /\ Kallsyms(n) # {}
  /\ \E sympos \in Positions(n) :
       /\ ~Unresolvable(sympos, n)
       /\ resolved' = [resolved EXCEPT ![n] = Nth(n, Index(sympos))]
  /\ UNCHANGED <<kernel, place, unread, fns, global_fns, warned, fake_global,
                 edges, callback, scanVars, und>>

Next ==
  \/ \E u \in Unit : FirstPass(u) \/ SecondPass(u)
  \/ FirstPassEnd \/ SecondPassEnd
  \/ \E s \in unscanned : ScanClone(s) \/ ScanKsymtab(s) \/ ScanLocal(s) \/ ScanGlobal(s)
  \/ WriteResults
  \/ \E n \in Name : ResolveAbort(n) \/ ResolveRef(n)

Spec == Init /\ [][Next]_vars

-------------------------------------------------------------------------------
(***************************************************************************)
(* Where numbers and basenames identify a function: the namesakes of n are *)
(* functions, all static and in one section, or there is only one; none is *)
(* in another unit with a basename of the module; the files of the module  *)
(* do not define it both weak and strong; if it is a function of the       *)
(* header, it is compiled into files of the module only; the variables of  *)
(* the name that kallsyms shows come behind static functions; and no       *)
(* namesake is a kern_path that load_kallsyms passes over.                 *)
(***************************************************************************)
Namesakes(n) ==
  {d \in kernel : d.name = n /\ Linked(d) /\ d.kind # "variable"}

Numbered(n) ==
  /\ \A d \in Namesakes(n) : d.kind = "function"
  /\ \/ Cardinality(Namesakes(n)) = 1
     \/ \A d, e \in Namesakes(n) : d.bind = "static" /\ d.section = e.section
  /\ \A d \in Namesakes(n), h \in Homonym : d.unit # h[1]
  /\ Cardinality({d \in Global(n) : d.file \in AllFiles}) <= 1
  /\ \A d \in Namesakes(n) : d.file = Header => d.unit \in AllFiles
  /\ \A d \in Namesakes(n), v \in Kallsyms(n) :
       v.kind = "variable" => d.bind = "static" /\ Address(d) < Address(v)
  /\ n = KernPath => \A d \in Namesakes(n) : d.bind = "strong"

\* What a name in a module file stands for: an overridden weak definition for
\* the function that overrides it.
Denoted(sig) ==
  LET own == {d \in kernel : Sig(d) = sig /\ Linked(d)}
  IN  IF own = {} THEN {LinkerChoice(sig[1])} ELSE own

\* The use of n in unit u is bound by the compiler to a definition in the unit
\* and otherwise by the linker.
Callee(u, n) ==
  LET own == {d \in kernel : d.unit = u /\ d.name = n /\ Linked(d)}
  IN  IF own # {} THEN own
      ELSE IF Global(n) # {} THEN {LinkerChoice(n)} ELSE {}

\* What the analysis can tell: analyze.py did not warn of the name, unit u does
\* not use it for an overridden definition of its own, and it is not that of an
\* alias.
Told(u, n) ==
  /\ n \notin warned
  /\ \A d \in kernel : d.unit = u /\ d.name = n => Linked(d)
  /\ \A d \in Callee(u, n) : d.kind = "function"

\* The call graph that the analysis works on is the one that is linked: a call by
\* the name of a function is attributed to the definition it reaches, weak ones
\* that are overridden included; and a public function with an alias has a caller
\* outside every file.  Calls by the name of an alias and the aliases of static
\* functions are lost.
CallsAttributed ==
  place = "symtab" =>
    /\ \A u \in Unit : \A n \in UsedAs(u, {"call"}) :
         Told(u, n) =>
           {t \in edges : t[1] = u /\ t[2][1] = n} = {<<u, Sig(d)>> : d \in Callee(u, n)}
    /\ \A a, d \in kernel :
         /\ a.kind = "alias" /\ a.section # "init"
         /\ d.kind = "function" /\ d.unit = a.unit /\ d.name = a.of
         /\ d.bind # "static" /\ Linked(d) /\ d.name \notin warned
         => <<NoFile, Sig(d)>> \in edges

\* Every function of the module whose address the rest of the kernel may hold is
\* known as a callback, wherever its address is taken, under its own name.
\* (Taken under the name of an alias the address is lost.)
CallbacksFound ==
  place = "symtab" =>
    \A u \in Unit : \A n \in UsedAs(u, {"address", "initializer"}) :
      Told(u, n) =>
        {Sig(d) : d \in {d \in Callee(u, n) : d.file \in ModFiles /\ d.section # "init"}}
          \subseteq callback

\* A function is taken to be in vmlinux exactly if it has a symbol of its own
\* there: otherwise it would be left undefined although nothing provides it, or
\* duplicated although the kernel has it.
PresenceHonest ==
  place = "resolve" =>
    \A sig \in Candidates : Numbered(sig[1]) =>
      (sig \in in_vmlinux <=> \E d \in Denoted(sig) : HasSymbol(d))

\* The functions of the module's files that kernel modules may call are known:
\* those they are linked to, and no namesake.  (An exported variable of the name
\* would be taken for the function.)
ExportsFound ==
  place = "resolve" =>
    \A n \in Name :
      Numbered(n) /\ (\A d \in kernel : d.name = n /\ d.export => d.kind = "function") =>
        {s \in export : s[1] = n} =
          {Sig(d) : d \in {d \in kernel : d.name = n /\ d.export /\ d.file \in ModFiles}}

\* If vmlinux has the undefined functions called n, symbol_resolve does not give up
\* on n, and what it writes into the module is one of them (or a copy of it, if it
\* is a header's): the function meant if only one is called n, and otherwise that
\* whose entry the std::map has kept.
ResolvedToMeant ==
  \A n \in Name :
    LET same == {f \in und : f[1] = n} IN
      Numbered(n) /\ same # {} /\ same \subseteq in_vmlinux =>
        /\ \A sympos \in Positions(n) : ~Unresolvable(sympos, n)
        /\ resolved[n] \subseteq UNION {Denoted(f) : f \in same}

\* The position written to tainted_functions.h is the one a hotfix names the
\* function by: its place among the equal names of kallsyms.
TaintedHonest ==
  place = "resolve" =>
    \A f \in in_vmlinux : Numbered(f[1]) =>
      Nth(f[1], TaintedPosition(f)) \cap Denoted(f) # {}
===============================================================================
