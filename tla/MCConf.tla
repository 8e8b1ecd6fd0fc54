------------------------------- MODULE MCConf -------------------------------
(****************************************************************************)
(* Small programs: bools A, B and D, a tristate T, an int I, a choice CH.   *)
(****************************************************************************)
EXTENDS Conf

MCType ==
  [s \in {"y", "m", "n", "MODULES", "A", "B", "D", "X", "T", "U", "I", "CH", "1", "2", "3"} |->
     CASE s \in {"y", "m", "n", "T", "U"} -> "tristate"
       [] s = "I" -> "int"
       [] s \in {"1", "2", "3"} -> "unknown"
       [] OTHER -> "bool"]
MCNumber == [s \in {"1", "2", "3"} |-> CASE s = "1" -> 1 [] s = "2" -> 2 [] s = "3" -> 3]

Sy(s) == <<"sym", s>>
Or2(a, b) == <<"or", a, b>>
And2(a, b) == <<"and", a, b>>
No(a) == <<"not", a>>

\* Entries as they are parsed.
Prompt(type) == [type |-> type, visible |-> Nothing]
Entry(s, prompt, list) ==
  [sym |-> s, dep |-> Nothing, visibility |-> Nothing, prompt |-> prompt,
   props |-> <<>>, list |-> list]
Config(s) == Entry(s, Prompt("prompt"), <<>>)
Menuconfig(s) == Entry(s, Prompt("menu"), <<>>)
Silent(s) == Entry(s, None, <<>>)
Choice(list) == Entry("CH", Prompt("prompt"), list)
Menu_(list) == Entry(None, Prompt("menu"), list)
Comment == Entry(None, Prompt("comment"), <<>>)
If(cond, list) == [Entry(None, None, list) EXCEPT !.dep = cond]
Dep(e, cond) == [e EXCEPT !.dep = cond]
PromptIf(e, cond) == [e EXCEPT !.prompt.visible = cond]
Prop(e, type, value, cond) ==
  [e EXCEPT !.props = Append(@, [type |-> type, value |-> value, visible |-> cond])]
Select(e, s) == Prop(e, "select", s, Nothing)
Default(e, value, cond) == Prop(e, "default", value, cond)

\* The root, with modules switched on.
Root(list) == Entry(None, Prompt("menu"), <<Default(Silent("MODULES"), symbol_yes, Nothing)>> \o list)

\* B is about A and what A is subject to; A can be set while its prompt is hidden.
Submenu1 ==
  Root(<<Select(Config("D"), "A"), Config("X"),
         If(Sy("X"), <<PromptIf(Config("A"), Nothing), Dep(Config("B"), Or2(Sy("A"), Sy("D")))>>)>>)
Submenu2 ==
  Root(<<Config("X"), PromptIf(Config("A"), Sy("X")), Dep(Config("T"), Sy("A")),
         Dep(Config("B"), <<"=", "T", "m">>)>>)

\* B mentions A but can be seen when A cannot.
Mentioned ==
  Root(<<Config("D"), Config("X"), Dep(Config("A"), Sy("X")), Dep(Config("B"), Or2(Sy("A"), Sy("D")))>>)

\* Promptless symbols and an if within a menu that is visible at times.
Nested ==
  Root(<<Config("X"),
         [Menu_(<<Config("A"), If(Sy("A"), <<Config("B"), Menu_(<<Config("D")>>)>>)>>)
            EXCEPT !.visibility = Sy("X")]>>)
Menus ==
  Root(<<Menu_(<<Dep(Config("A"), Sy("B")), Comment>>), Menuconfig("B"),
         Dep(Config("D"), Sy("B")), Menu_(<<Config("X")>>)>>)

\* What has been passed becomes visible.
Backwards ==
  Root(<<Dep(Config("A"), Sy("B")), Dep(Config("B"), Sy("D")), Config("D")>>)

\* "depends on m", a default that the prompt does not allow.
Modular ==
  [Root(<<Dep(Config("T"), symbol_mod),
          Default(PromptIf(Config("U"), Sy("T")), symbol_yes, Nothing), Comment,
          Dep(Config("D"), Sy("U"))>>)
     EXCEPT !.list[1] = Config("MODULES")]

\* A member that comes and goes; a choice with a default; one with a prompt at
\* times, and one with no member at times.
Choosing ==
  Root(<<Choice(<<Dep(Config("A"), Sy("X")), Config("B"), Config("D")>>), Config("X")>>)
Choosing2 ==
  Root(<<Config("X"), PromptIf(Default(Choice(<<Config("A"), Config("B")>>), "B", Sy("T")), Sy("X")),
         Dep(Config("T"), Sy("A"))>>)
Choosing3 == Root(<<Config("X"), Choice(<<Dep(Config("A"), Sy("X")), Dep(Config("B"), Sy("X"))>>)>>)

\* An int with ranges, of which an implied symbol is the condition.
Ranged ==
  Root(<<Config("X"),
         Default(Prop(Prop(Dep(Config("I"), No(Sy("A"))), "range", <<"1", "2">>, Sy("X")),
                      "range", <<"2", "3">>, Nothing), "1", Nothing),
         Prop(Config("A"), "imply", "X", Nothing), Dep(Config("B"), <<"=", "I", "2">>)>>)

\* Values that depend on themselves: by selects, by a choice, by imply, by
\* defaults.  The last one looks like it only.
Cyclic1 == Root(<<Dep(Config("A"), Sy("B")), Config("B"), Select(Dep(Config("D"), Sy("A")), "B")>>)
Cyclic2 == Root(<<Choice(<<Config("A"), Dep(Config("B"), Sy("X"))>>), Dep(Config("X"), Sy("A"))>>)
Cyclic3 == Root(<<Prop(Dep(Config("A"), Sy("B")), "imply", "B", Nothing), Config("B")>>)
Cyclic4 == Root(<<Default(Silent("A"), Sy("B"), Nothing), Default(Silent("B"), Sy("D"), Sy("A")), Config("D")>>)
Acyclic == Root(<<Dep(Config("A"), And2(Sy("B"), Sy("D"))), Dep(Config("B"), Sy("D")), Config("D")>>)

MCKconfigs ==
  [submenu1 |-> Submenu1, submenu2 |-> Submenu2, mentioned |-> Mentioned, nested |-> Nested, menus |-> Menus,
   backwards |-> Backwards, modular |-> Modular, choosing |-> Choosing,
   choosing2 |-> Choosing2, choosing3 |-> Choosing3, ranged |-> Ranged,
   cyclic1 |-> Cyclic1, cyclic2 |-> Cyclic2, cyclic3 |-> Cyclic3, cyclic4 |-> Cyclic4,
   acyclic |-> Acyclic]
=============================================================================
