------------------------------ MODULE MCExtract ------------------------------
(***************************************************************************)
(* Files of up to three items, each in some of the layouts of the kernel's *)
(* sources.                                                                *)
(***************************************************************************)
EXTENDS Extract

Item(c, rows) == [class |-> c, rows |-> rows]

\* Functions: all on one row; brace on its own row and nested braces; name and
\* parameters on rows below the type.
FnLayout(static) ==
  {<<static \o <<"type", "name", "{", ";", "}">>>>,
   <<static \o <<"type", "name">>, <<"{">>, <<"{">>, <<";", "}">>, <<"}">>>>,
   <<static \o <<"type">>, <<"name">>, <<"params", "{">>, <<";">>, <<"}">>>>}

InitFn ==
  {<<<<"static", "__init", "name", "{", ";", "}">>>>,
   <<<<"static", "__init", "name">>, <<"params">>, <<"{">>, <<";", "{">>, <<"}">>, <<"}">>>>}

\* Variables: plain, with an initialiser over several rows, of an anonymous
\* struct, and two on one row.
VarLayout(static) ==
  {<<static \o <<"type", "name", ";">>>>,
   <<static \o <<"type", "name", "=", "{">>, <<"value">>, <<"}", ";">>>>,
   <<static \o <<"struct {">>, <<"field", ";">>, <<"}", "name", ";">>>>,
   <<static \o <<"type", "name", "name2", ";">>>>}

Functions(C, static) == {Item(c, l) : c \in C, l \in FnLayout(static)}

FnItems ==
  Functions({"outsider", "callback"}, <<"static">>) \cup Functions({"interface"}, <<>>)
  \cup {Item("init", l) : l \in InitFn}
  \cup {Item(c, <<<<"type", "name">>, <<"{">>, <<";">>, <<"}">>>>) :
          c \in {"insider", "outsider_opt", "syscall"}}
  \cup {Item(c, <<<<"static", "type", "name">>, <<"{">>, <<";">>, <<"}">>>>) :
          c \in {"interface", "sidecar"}}

VarItems ==
  {Item("public", l) : l \in VarLayout(<<>>)}
  \cup {Item(c, l) : c \in {"static", "extra_public"}, l \in VarLayout(<<"static">>)}
  \cup {Item("force_private", <<<<"type", "name", "=">>, <<"value", ";">>>>),
        Item("percpu", <<<<"static", "DEFINE_PER_CPU", "name", ";">>>>)}

OtherItems ==
  {Item("text", <<<<"blank">>>>), Item("text", <<<<"/*">>, <<"*/">>>>),
   Item("text", <<<<"macro()">>>>), Item("text", <<<<"#">>>>),
   Item("boot", <<<<"initcall", ";">>>>), Item("boot", <<<<"__init", "proto", ";">>>>),
   Item("include", <<<<"include">>>>), Item("include_mod", <<<<"include_mod">>>>)}

SmallItems == FnItems \cup VarItems \cup OtherItems

\* What stands between two items: nothing, or one item of every kind that leaves
\* or takes rows of its neighbours.
MiddleItems ==
  {Item("outsider", <<<<"type", "name">>, <<"{">>, <<";">>, <<"}">>>>),
   Item("callback", <<<<"type", "name", "{", ";", "}">>>>),
   Item("init", <<<<"static", "__init", "name">>, <<"{">>, <<";">>, <<"}">>>>),
   Item("public", <<<<"type", "name", "=", "{">>, <<"value">>, <<"}", ";">>>>),
   Item("text", <<<<"blank">>>>)}

SmallFiles ==
  {<<a, b>> : a \in SmallItems, b \in SmallItems}
  \cup {<<a, m, b>> : a \in SmallItems, m \in MiddleItems, b \in SmallItems}

OfFile(F, C) == {f \in F : \A i \in DOMAIN f : f[i].class \in C}

SmallModFiles == OfFile(SmallFiles, ItemClass \ {"sidecar"})
SmallSdcrFiles ==
  OfFile(SmallFiles, ItemClass \ {"callback", "interface", "syscall", "include_mod"})
===============================================================================
