------------------------------- MODULE Extract -------------------------------
(***************************************************************************)
(* boundary/extract.py: one source file of the kernel is rewritten, line   *)
(* by line, into a source file of the scheduler module.  Functions of the  *)
(* outside become declarations, callbacks and interfaces are marked,       *)
(* shared variables become declarations, boot code is deleted.             *)
(*                                                                         *)
(* A file is a sequence of items (functions, variables, other text), each  *)
(* on rows of its own; a row is a sequence of tokens.  Rows and columns    *)
(* were recorded by the compiler plugin for the file as it was, so no row  *)
(* may ever move while the lists are worked through, in the order in which *)
(* the compiler happened to list the definitions.                          *)
(***************************************************************************)
EXTENDS Naturals, Sequences, FiniteSets, SequencesExt

CONSTANTS
  ModFile,   \* the module's source files: sequences of items
  SdcrFile   \* the files of its sidecars

\* An item: what it is for the analysis, and its rows of token kinds.
ItemClass ==
  {"insider", "outsider", "outsider_opt", "callback", "interface", "syscall",
   "sidecar", "init",
   "public", "static", "extra_public", "force_private", "percpu",
   "text", "boot", "include_mod", "include"}

\* The functions and variables that extract.py is told the positions of.
FnClass == {"outsider", "outsider_opt", "callback", "interface", "syscall", "sidecar"}
VarClass == {"public", "static", "extra_public", "force_private", "percpu"}
OnRow(item, r, kind) == \E k \in DOMAIN item.rows[r] : item.rows[r][k] = kind
IsOn(item, kind) == \E r \in DOMAIN item.rows : OnRow(item, r, kind)

\* A definition in C: a function ends with the brace that closes its body, a
\* variable with a semicolon.
WellFormed(item) ==
  /\ item.class \in FnClass \cup VarClass => IsOn(item, "name")
  /\ item.class \in FnClass => IsOn(item, "{")
  /\ item.class \in FnClass \cup {"insider", "init"} => OnRow(item, Len(item.rows), "}")
  /\ item.class \in VarClass => OnRow(item, Len(item.rows), ";")

\* What is for boot only, and the words by which the code knows it.
BootClass == {"init", "boot"}
BootWords == {"__init", "initcall"}
IncludeWords == {"include", "include_mod"}

\* The layouts extract.py can handle: a variable begins with the row of its name
\* or of its anonymous struct, its declarators are on one row, and it has no other
\* semicolon but those of the struct's fields on the rows above its name; an
\* __init function begins with the row that says so, and has no semicolon there
\* unless it is all on that row; what else is for boot only is on one row, with
\* its semicolon.
Handled(item) ==
  /\ item.class \in VarClass =>
       /\ OnRow(item, 1, "struct {") \/ (OnRow(item, 1, "name") /\ ~IsOn(item, "struct {"))
       /\ \A r \in DOMAIN item.rows :
            /\ OnRow(item, r, "name2") => OnRow(item, r, "name")
            /\ OnRow(item, r, ";") =>
                 r = Len(item.rows) \/ (r > 1 /\ \A q \in 1 .. r : ~OnRow(item, q, "name"))
  /\ item.class = "init" =>
       OnRow(item, 1, "__init") /\ (OnRow(item, 1, ";") => Len(item.rows) = 1)
  /\ item.class = "boot" =>
       Len(item.rows) = 1 /\ OnRow(item, 1, ";") /\ \E w \in BootWords : OnRow(item, 1, w)
  /\ item.class \in BootClass => \A w \in IncludeWords : ~OnRow(item, 1, w)
  /\ \A r \in DOMAIN item.rows : \A w \in BootWords :
       OnRow(item, r, w) => item.class \in BootClass /\ r = 1

\* A row as a sequence of tokens, each with the item it belongs to.
Tokens(i, line) == [k \in DOMAIN line |-> <<i, line[k]>>]
OwnRows(F, i) == [r \in DOMAIN F[i].rows |-> Tokens(i, F[i].rows[r])]

\* merge_down_fn: the rows, from r on, at which the braces opened are closed.
Count(tokens, kinds) == Len(SelectSeq(tokens, LAMBDA t : t[2] \in kinds))
Braces(L, from, to, kinds) == Count(FlattenSeq(SubSeq(L, from, to)), kinds)
Opening == {"{", "struct {"}
MergeDownFnEnds(L, r) ==
  {e \in r .. Len(L) : /\ Braces(L, r, e, Opening) > 0
                       /\ Braces(L, r, e, Opening) <= Braces(L, r, e, {"}"})}

\* The braces of a function are closed on its last row, and not before.
ASSUME FileAssumption ==
  \A F \in ModFile \cup SdcrFile :
    /\ F \in Seq([class : ItemClass, rows : Seq(Seq(STRING))])
    /\ \A i \in DOMAIN F :
         /\ WellFormed(F[i]) /\ Handled(F[i])
         /\ F[i].class = "init" => MergeDownFnEnds(OwnRows(F, i), 1) = {Len(F[i].rows)}
         /\ F[i].class = "sidecar" => F \in SdcrFile
         /\ F[i].class \in {"callback", "interface", "syscall", "include_mod"} =>
              F \in ModFile

VARIABLES
  file,    \* the source file
  in_sdcr_srcs,   \* whether it is a sidecar's
  meta,    \* what the compiler plugin recorded of it
  lines,   \* the rows, as rewritten so far
  place,   \* the list or pass being worked on
  todo,    \* what is left of it: items, or <<item, declarator>>
  row      \* the next row of fix_up

vars == <<file, in_sdcr_srcs, meta, lines, place, todo, row>>

Items == DOMAIN file
Token(i, r) == Tokens(i, file[i].rows[r])
ItemTokens(i) == FlattenSeq([r \in DOMAIN file[i].rows |-> Token(i, r)])

Has(line, kinds) == \E k \in DOMAIN line : line[k][2] \in kinds
Min2(S) == CHOOSE n \in S : \A m \in S : n <= m
Max2(S) == CHOOSE n \in S : \A m \in S : n >= m

\* The number of rows above item i + 1.
RowsBefore(F) ==
  LET before[i \in 0 .. Len(F)] == IF i = 0 THEN 0 ELSE before[i - 1] + Len(F[i].rows)
  IN  before

-------------------------------------------------------------------------------
(***************************************************************************)
(* What collect.py records of a file: the rows of a function's name and    *)
(* braces and the column of the left one, and the rows of a variable's     *)
(* name and of the beginning of its declaration (var_decl_start_loc: the   *)
(* name's row, unless the type is an anonymous struct).  0 if there is     *)
(* none.                                                                   *)
(***************************************************************************)
Collected(F) ==
  LET before == RowsBefore(F)
      on(i, kind) == {r \in DOMAIN F[i].rows : OnRow(F[i], r, kind)}
      first(i, kind) == IF on(i, kind) = {} THEN 0 ELSE before[i - 1] + Min2(on(i, kind))
      last(i, kind) == IF on(i, kind) = {} THEN 0 ELSE before[i - 1] + Max2(on(i, kind))
      column(line, kind) == Min2({k \in DOMAIN line : line[k] = kind})
  IN  [i \in DOMAIN F |->
         [name   |-> first(i, "name"),
          lbrace |-> first(i, "{"),
          lcol   |-> IF on(i, "{") = {} THEN 0 ELSE column(F[i].rows[Min2(on(i, "{"))], "{"),
          rbrace |-> last(i, "}"),
          start  |-> IF on(i, "struct {") # {} THEN first(i, "struct {") ELSE first(i, "name"),
          decls  |-> IF on(i, "name2") # {} THEN 1 .. 2 ELSE {1}]]

NameRow(i) == meta[i].name
LBraceRow(i) == meta[i].lbrace
LBraceCol(i) == meta[i].lcol
RBraceRow(i) == meta[i].rbrace
DeclStartRow(i) == meta[i].start

(***************************************************************************)
(* function_location and var_location.                                     *)
(***************************************************************************)
OfClass(C) == {i \in Items : file[i].class \in C}

FnList == OfClass({"outsider", "outsider_opt"})
CallbackList == OfClass({"callback"})
InterfaceList == OfClass({"interface", "syscall", "sidecar"})

SharedClass == IF in_sdcr_srcs THEN VarClass ELSE {"public", "extra_public", "percpu"}
Declared(C) == {v \in OfClass(C) \X (1 .. 2) : v[2] \in meta[v[1]].decls}
SharedVarList == Declared(SharedClass)
StaticVarList == Declared(IF in_sdcr_srcs THEN {} ELSE {"static"})

-------------------------------------------------------------------------------
(***************************************************************************)
(* merge_up_lines, merge_down_var, merge_down_fn: rows are joined and the  *)
(* others left empty, never removed.                                       *)
(***************************************************************************)
Bug_JoinRemoves(L, from, to, at) ==
  SubSeq(L, 1, from - 1) \o <<FlattenSeq(SubSeq(L, from, to))>>
    \o SubSeq(L, to + 1, Len(L))
Join(L, from, to, at) ==
  [r \in DOMAIN L |-> IF r = at THEN FlattenSeq(SubSeq(L, from, to))
                      ELSE IF r \in from .. to THEN <<>> ELSE L[r]]

Bug_Terminator(line) == Has(line, {";", "#", "include", "include_mod", "*/"})
TerminatorWords == {";", "}", "#", "include", "include_mod", "*/"}
Terminator(line) ==
  \/ Has(line, TerminatorWords)
  \/ \E i \in Items : line = <<<<i, "blank">>>>

\* The lines above that belong to the declaration which ends on row r.
MergeUpLines(L, r) ==
  LET top == Max2({1} \cup {t \in 2 .. r : Terminator(L[t - 1])}) IN Join(L, top, r, top)

Bug_MergeDownVarEnds(L, r) == {e \in r + 1 .. Len(L) : Has(L[e], {";"})}
MergeDownVarEnds(L, r) == {e \in r .. Len(L) : Has(L[e], {";"})}
MergeDownVar(L, r) == Join(L, r, Min2(MergeDownVarEnds(L, r)), r)

MergeDownFn(L, r) == Join(L, r, Min2(MergeDownFnEnds(L, r)), r)

Emptied(L, R) == [r \in DOMAIN L |-> IF r \in R THEN <<>> ELSE L[r]]
Rewritten(line, old, new) ==
  [k \in DOMAIN line |-> IF line[k] = old THEN <<old[1], new>> ELSE line[k]]

-------------------------------------------------------------------------------
Init ==
  /\ \/ in_sdcr_srcs = FALSE /\ file \in ModFile
     \/ in_sdcr_srcs = TRUE /\ file \in SdcrFile
  /\ meta = Collected(file)
  /\ lines = FlattenSeq([i \in Items |-> [r \in DOMAIN file[i].rows |-> Token(i, r)]])
  /\ place = "fn" /\ todo = FnList /\ row = 1

\* One element of the current list is worked on.
Work(p, x, L) ==
  /\ place = p /\ x \in todo
  /\ todo' = todo \ {x} /\ lines' = L
  /\ UNCHANGED <<file, in_sdcr_srcs, meta, place, row>>

(***************************************************************************)
(* function_extract.                                                       *)
(***************************************************************************)
\* The body is replaced by a semicolon; what the compiler had optimised away is
\* kept with a warning.
ToDeclaration(L, i) ==
  LET r == LBraceRow(i)
      cut == [L EXCEPT ![r] = SubSeq(@, 1, LBraceCol(i) - 1) \o <<<<i, ";">>>>]
  IN  Emptied(MergeUpLines(cut, r), r + 1 .. RBraceRow(i))

ExtractOutsider(i) ==
  file[i].class = "outsider" /\ Work("fn", i, ToDeclaration(lines, i))

ExtractOptimised(i) ==
  /\ file[i].class = "outsider_opt"
  /\ Work("fn", i, [lines EXCEPT ![RBraceRow(i)] = @ \o <<<<i, "warn">>>>])

ExtractCallback(i) ==
  LET renamed == [lines EXCEPT ![NameRow(i)] = Rewritten(@, <<i, "name">>, "__used __cb_name")]
  IN  Work("callback", i,
           [renamed EXCEPT ![RBraceRow(i)] = @ \o <<<<i, "warn">>, <<i, "extern decl">>>>])

\* System calls need no mark.  Static functions are kept from being optimised.
ExtractInterface(i) ==
  LET used == IF IsOn(file[i], "static")
                THEN [lines EXCEPT ![NameRow(i)] = Rewritten(@, <<i, "name">>, "__used name")]
                ELSE lines
  IN  Work("interface", i,
           IF file[i].class = "syscall" THEN lines
           ELSE [used EXCEPT ![RBraceRow(i)] = @ \o <<<<i, "warn">>>>])

(***************************************************************************)
(* var_extract.                                                            *)
(***************************************************************************)
ExtractStatic(v) ==
  Work("static_var", v,
       [lines EXCEPT ![NameRow(v[1])] = Rewritten(@, <<v[1], "static">>, "static __used")])

\* The rows between are emptied, and the declaration is joined on its first row.
\* If no semicolon followed, Python would stop with an IndexError: no step then.
Between(i) == DeclStartRow(i) + 1 .. NameRow(i) - 1

\* A per-CPU variable is declared there and then; "static" is deleted.
DeclarePerCpu(line, i) ==
  Rewritten(Rewritten(line, <<i, "DEFINE_PER_CPU">>, "DECLARE_PER_CPU"), <<i, "static">>, "")

MergeShared(v) ==
  LET i == v[1]
      s == DeclStartRow(i)
      opened == Emptied(lines, Between(i))
      merged == MergeDownVar(opened, s)
  IN  /\ MergeDownVarEnds(opened, s) # {}
      /\ Work("merge_var", v,
              IF Has(merged[s], {"DEFINE_PER_CPU"})
                THEN [merged EXCEPT ![s] = DeclarePerCpu(@, i)] ELSE merged)

\* Then all definitions are deleted, and only then the declarations written:
\* several variables may have their definition on one row.
StillShared == {v \in SharedVarList : file[v[1]].class # "percpu"}

DeleteShared(v) ==
  Work("delete_var", v, [lines EXCEPT ![DeclStartRow(v[1])] = <<>>])

DeclareShared(v) ==
  Work("declare_var", v,
       [lines EXCEPT ![DeclStartRow(v[1])] = @ \o <<<<v[1], "extern decl">>>>])

After(p) ==
  CASE p = "fn" -> <<"callback", CallbackList>>
    [] p = "callback" -> <<"interface", InterfaceList>>
    [] p = "interface" -> <<"static_var", StaticVarList>>
    [] p = "static_var" -> <<"merge_var", SharedVarList>>
    [] p = "merge_var" -> <<"delete_var", StillShared>>
    [] p = "delete_var" -> <<"declare_var", StillShared>>
    [] p = "declare_var" -> <<"fix_up", {}>>

NextList ==
  /\ place \notin {"fix_up", "done"} /\ todo = {}
  /\ place' = After(place)[1] /\ todo' = After(place)[2]
  /\ UNCHANGED <<file, in_sdcr_srcs, meta, lines, row>>

(***************************************************************************)
(* fix_up, row by row.                                                     *)
(***************************************************************************)
\* fix_include: what is not extracted too is named from the new place.
FixInclude(line) ==
  [k \in DOMAIN line |->
     IF line[k][2] = "include" THEN <<line[k][1], "include from mod">> ELSE line[k]]

Bug_DeletesRowOnly(line) == FALSE
DeletesWhole(line) == Has(line, {"__init"}) /\ ~Has(line, {";"})

FixRow(L) ==
  /\ row' = row + 1 /\ lines' = L
  /\ UNCHANGED <<file, in_sdcr_srcs, meta, place, todo>>

FixUpInclude ==
  Has(lines[row], IncludeWords) /\ FixRow([lines EXCEPT ![row] = FixInclude(@)])

Deletes(line) == Has(line, BootWords) /\ ~Has(line, IncludeWords)

FixUpDelete ==
  /\ Deletes(lines[row])
  /\ ~DeletesWhole(lines[row]) \/ MergeDownFnEnds(lines, row) # {}
  /\ FixRow(Emptied(IF DeletesWhole(lines[row]) THEN MergeDownFn(lines, row) ELSE lines,
                    {row}))

FixUpOther ==
  /\ ~Deletes(lines[row]) /\ ~Has(lines[row], IncludeWords)
  /\ FixRow(lines)

WriteFile ==
  /\ place = "fix_up" /\ row > Len(lines)
  /\ place' = "done"
  /\ UNCHANGED <<file, in_sdcr_srcs, meta, lines, todo, row>>

Step ==
  \/ \E i \in Items : ExtractOutsider(i) \/ ExtractOptimised(i)
                        \/ ExtractCallback(i) \/ ExtractInterface(i)
  \/ \E v \in todo : place \in {"static_var", "merge_var", "delete_var", "declare_var"}
       /\ (ExtractStatic(v) \/ MergeShared(v) \/ DeleteShared(v) \/ DeclareShared(v))
  \/ NextList
  \/ place = "fix_up" /\ row <= Len(lines) /\ (FixUpInclude \/ FixUpDelete \/ FixUpOther)
  \/ WriteFile

Next == Step

\* extract.py is one sequential program.
Spec == Init /\ [][Next]_vars /\ WF_vars(Step)
-------------------------------------------------------------------------------
(***************************************************************************)
(* What the extraction is to make of each item, wherever its rows are.  A  *)
(* static variable is marked where "static" is on the row of its name,     *)
(* which leaves out those of an anonymous struct.                          *)
(***************************************************************************)
Meant(i) ==
  LET T == ItemTokens(i)
      marked(new) == Rewritten(T, <<i, "name">>, new)
      c == file[i].class
      declared == [k \in meta[i].decls |-> <<i, "extern decl">>]
  IN  CASE c = "outsider" ->
             SubSeq(T, 1, Min2({k \in DOMAIN T : T[k][2] = "{"}) - 1) \o <<<<i, ";">>>>
        [] c = "outsider_opt" -> T \o <<<<i, "warn">>>>
        [] c = "callback" ->
             marked("__used __cb_name") \o <<<<i, "warn">>, <<i, "extern decl">>>>
        [] c \in {"interface", "sidecar"} ->
             (IF Has(T, {"static"}) THEN marked("__used name") ELSE T) \o <<<<i, "warn">>>>
        [] c \in {"init", "boot"} -> <<>>
        [] c = "include" -> <<<<i, "include from mod">>>>
        [] c = "percpu" -> <<<<i, "DECLARE_PER_CPU">>, <<i, "name">>, <<i, ";">>>>
        [] c \in SharedClass \ {"percpu"} -> declared
        [] c = "static" /\ ~in_sdcr_srcs /\ DeclStartRow(i) = NameRow(i) ->
             Rewritten(T, <<i, "static">>, "static __used")
        [] OTHER -> T

\* Empty rows, and the place of a word that was deleted, count for nothing.
WithoutBlanks(T) == SelectSeq(T, LAMBDA t : t[2] \notin {"blank", ""})

\* The file that is written consists of what each item was to become, in the
\* order of the source: nothing else was cut, joined away or left behind, in
\* whatever order the definitions were listed.
ExtractedAsMeant ==
  place = "done" =>
    WithoutBlanks(FlattenSeq(lines)) = WithoutBlanks(FlattenSeq([i \in Items |-> Meant(i)]))

(***************************************************************************)
(* The same row by row, for the items whose rows the others cannot take:   *)
(* those that end with what merge_up_lines stops at.  Of an outsider it is *)
(* only said that its body is gone, because its declaration takes rows     *)
(* above it.                                                               *)
(***************************************************************************)
Row(i, r) == RowsBefore(file)[i - 1] + r

Ended(item) ==
  /\ item.rows # <<>>
  /\ \/ \E w \in TerminatorWords : OnRow(item, Len(item.rows), w)
     \/ item.rows[Len(item.rows)] = <<"blank">>

\* Row r of item i as the lists of functions and of variables are to leave it.
ListedRow(i, r) ==
  LET c == file[i].class
      T == Token(i, r)
      warn == <<i, "warn">>
      decl == <<i, "extern decl">>
      renamed(new) == IF Row(i, r) = NameRow(i) THEN Rewritten(T, <<i, "name">>, new) ELSE T
      marked(line, w) == IF Row(i, r) = RBraceRow(i) THEN line \o w ELSE line
      joined == FlattenSeq([q \in DOMAIN file[i].rows |->
                             IF Row(i, q) \in Between(i) THEN <<>> ELSE Token(i, q)])
  IN  CASE c = "outsider_opt" -> marked(T, <<warn>>)
        [] c = "callback" -> marked(renamed("__used __cb_name"), <<warn, decl>>)
        [] c \in {"interface", "sidecar"} ->
             marked(IF IsOn(file[i], "static") THEN renamed("__used name") ELSE T, <<warn>>)
        [] c \in SharedClass /\ Row(i, r) # DeclStartRow(i) -> <<>>
        [] c \in SharedClass /\ Row(i, r) = DeclStartRow(i) ->
             IF c # "percpu" THEN [d \in meta[i].decls |-> decl]
             ELSE IF Has(joined, {"DEFINE_PER_CPU"}) THEN DeclarePerCpu(joined, i) ELSE joined
        [] c = "static" /\ ~in_sdcr_srcs /\ Row(i, r) = NameRow(i) ->
             Rewritten(T, <<i, "static">>, "static __used")
        [] OTHER -> T

FinalRow(i, r) ==
  IF file[i].class \in BootClass THEN <<>> ELSE FixInclude(ListedRow(i, r))

\* Each row of the file that is written has become what its item asks for, and
\* is where it was: an insider, what is private and other text to the letter.
RowsAsMeant ==
  place = "done" => \A i \in Items :
    file[i].class # "outsider" /\ Ended(file[i]) =>
      \A r \in DOMAIN file[i].rows : lines[Row(i, r)] = FinalRow(i, r)

Stands(kind, i, r) == r \in DOMAIN lines /\ Contains(lines[r], <<i, kind>>)

\* Whenever an element of a list is about to be rewritten, the rows and the
\* column recorded for it still hold what the compiler saw there.
PositionsFresh ==
  /\ place = "fn" => \A i \in todo :
       /\ Stands("{", i, LBraceRow(i))
       /\ LBraceCol(i) \in DOMAIN lines[LBraceRow(i)]
       /\ lines[LBraceRow(i)][LBraceCol(i)] = <<i, "{">>
  /\ place \in {"fn", "callback", "interface"} => \A i \in todo :
       Stands("}", i, RBraceRow(i))
  /\ place \in {"callback", "interface"} => \A i \in todo : Stands("name", i, NameRow(i))
  /\ place = "static_var" => \A v \in todo : Stands("name", v[1], NameRow(v[1]))
  /\ place = "merge_var" => \A v \in todo :
       \E k \in {"name", "struct {"} : Stands(k, v[1], DeclStartRow(v[1]))

\* Once an outsider was worked on, no row holds a brace of its body any more: the
\* module has a declaration of it, and no second definition.
BodiesGone ==
  \A i \in OfClass({"outsider"}) :
    (place = "fn" => i \notin todo) => \A r \in DOMAIN lines : ~Stands("{", i, r)

\* The file is rewritten in place: what stays has become what is meant on its own
\* rows, and what is outside has left no body behind.
RewrittenAsMeant == RowsAsMeant /\ BodiesGone

\* The extraction comes to its end: no search for the end of a definition runs
\* past the end of the file.
ExtractionEnds == <>(place = "done")
===============================================================================
