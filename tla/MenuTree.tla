------------------------------ MODULE MenuTree ------------------------------
(****************************************************************************)
(* The menu tree (menu.c): what menu_finalize() makes of the entries of a   *)
(* Kconfig program, which the parser has in the order and with the nesting  *)
(* of the text.                                                             *)
(*                                                                          *)
(* An entry is a record: sym (None for a menu, a comment or an if), dep,    *)
(* visibility ("visible if"), prompt (None, or its type "prompt", "menu" or *)
(* "comment" and its condition visible), props (a sequence of type, value   *)
(* and visible) and list, the entries below it.  Nothing is the missing     *)
(* condition, a null pointer in the code.                                   *)
(*                                                                          *)
(* Program() gives the finalised tree as the rules of the symbol engine     *)
(* have it (SymbolRules).                                                   *)
(****************************************************************************)
EXTENDS Expr, SequencesExt

CONSTANTS
  None,     \* no symbol, no prompt
  ChoiceSyms,  \* the symbols of choices
  Modules   \* modules_sym: "n" without "option modules"

sym_is_choice(s) == s \in ChoiceSyms

\* (The same sequence and the same function, with their values computed once:
\* TLC would do so at each use.)
Eager(seq) == seq \o <<>>
Once(f) == f @@ <<>>

\* expr_alloc_and(), expr_alloc_or() when an operand may be missing.
AndAlso(a, b) ==
  IF a = Nothing THEN b ELSE IF b = Nothing THEN a ELSE expr_alloc_and(a, b)
OrElse(a, b) ==
  IF a = Nothing THEN b ELSE IF b = Nothing THEN a ELSE expr_alloc_or(a, b)

----------------------------------------------------------------------------
\* menu_add_prompt(): the prompt of a symbol is subject to the visibility of all
\* menus it is in, the nearest one first.
menu_add_prompt(p, upper) == [p EXCEPT !.visible = FoldLeft(AndAlso, @, upper)]

RECURSIVE Parsed(_, _)
Parsed(e, upper) ==
  LET upperOfList == IF e.visibility = Nothing THEN upper ELSE <<e.visibility>> \o upper
  IN  [e EXCEPT
        !.prompt = IF @ = None \/ e.sym = None THEN @ ELSE menu_add_prompt(@, upper),
        !.list = Eager([i \in DOMAIN @ |-> Parsed(@[i], upperOfList)])]

----------------------------------------------------------------------------
\* 'm' becomes 'm' && MODULES.
RECURSIVE rewrite_m(_)
rewrite_m(e) ==
  CASE Joins(e) -> <<e[1], rewrite_m(e[2]), rewrite_m(e[3])>>
    [] e[1] = "not" -> expr_alloc_not(rewrite_m(e[2]))
    [] e = symbol_mod -> expr_alloc_and(e, <<"sym", Modules>>)
    [] OTHER -> e

\* A condition within one that is simple already.  The programs test no bool for
\* "!= y": what expr_transform() makes of that has no meaning (see Expr).
Rewritten(e) == IF e = Nothing THEN e ELSE expr_transform(rewrite_m(e))
Simplified(e) == IF e = Nothing THEN e ELSE expr_eliminate_dups(e)
Within(outer, e) == Simplified(AndAlso(outer, Rewritten(e)))

\* The dependencies of the parent go to an entry and to all its properties.
WithDep(e, basedep) ==
  [e EXCEPT
    !.dep = basedep,
    !.prompt = IF @ = None THEN @ ELSE [@ EXCEPT !.visible = Within(basedep, @)],
    !.props = Eager([i \in DOMAIN @ |-> [@[i] EXCEPT !.visible = Within(basedep, @)]])]
Propagated(dep, e) == WithDep(e, Within(dep, e.dep))

\* A condition, not "n", in the form in which two are compared.
NotNo(e) ==
  LET test == IF e = Nothing THEN expr_alloc_not(symbol_no) ELSE expr_trans_compare(e, "!=", "n")
  IN  expr_eliminate_dups(expr_transform(test))
PromptDep(e) == IF e.prompt = None THEN Nothing ELSE e.prompt.visible

\* Whether an entry goes to the submenu of the symbol before it: its condition
\* depends on the symbol, or contains it and is a superset of the conditions
\* that the prompt of the symbol has.  The mutant does without the latter.
Mentions(dep, sym) == dep # Nothing /\ expr_contains_symbol(dep, sym)
BelongsAbove(parent, e) ==
  LET dep == IF e.prompt # None THEN e.prompt.visible ELSE e.dep
  IN  Mentions(dep, parent.sym)
BelongsBelow(parent, e) ==
  LET dep == IF e.prompt # None THEN e.prompt.visible ELSE e.dep
      rest == expr_eliminate_eq(NotNo(dep), NotNo(PromptDep(parent)))
  IN  /\ Mentions(dep, parent.sym)
      /\ expr_depends_symbol(dep, parent.sym) \/ rest[2] = symbol_yes

\* An entry without a prompt leaves its place to the entries below it.
RECURSIVE Flattened(_)
Flattened(list) ==
  FlattenSeq([i \in DOMAIN list |->
    IF list[i].list # <<>> /\ list[i].prompt = None
      THEN <<[list[i] EXCEPT !.list = <<>>]>> \o Flattened(list[i].list)
      ELSE <<list[i]>>])

\* _menu_finalize() of an entry and what follows it in the list: the entry as
\* it is then, and what is left of the list.  FinalizeAll(): of a whole list.
\* Submenu(): the entries that go to a submenu, and what is left.  (Then... adds
\* the entries after the first one.)
RECURSIVE Finalize(_, _, _), FinalizeAll(_, _), ThenAll(_, _), Submenu(_, _), ThenSubmenu(_, _)
WithList(parent, split) == <<[parent EXCEPT !.list = Flattened(split[1])], split[2]>>
Finalize(parent, insideChoice, next) ==
  IF parent.list # <<>>
    THEN LET below == Eager([i \in DOMAIN parent.list |-> Propagated(parent.dep, parent.list[i])])
         IN  WithList(parent, <<FinalizeAll(below, sym_is_choice(parent.sym)), next>>)
  ELSE IF ~insideChoice /\ parent.sym # None THEN WithList(parent, Submenu(parent, next))
  ELSE <<parent, next>>

FinalizeAll(list, insideChoice) ==
  IF list = <<>> THEN <<>>
  ELSE ThenAll(Finalize(Head(list), insideChoice, Tail(list)), insideChoice)
ThenAll(one, insideChoice) == <<one[1]>> \o FinalizeAll(one[2], insideChoice)

Submenu(parent, next) ==
  IF next = <<>> \/ ~BelongsBelow(parent, next[1]) THEN <<<<>>, next>>
  ELSE ThenSubmenu(parent, Finalize(Head(next), FALSE, Tail(next)))
ThenSubmenu(parent, one) ==
  LET more == Submenu(parent, one[2]) IN <<<<one[1]>> \o more[1], more[2]>>

menu_finalize(root) == Finalize(Parsed(root, <<>>), FALSE, <<>>)[1]

----------------------------------------------------------------------------
\* menu_next(): the entries of a list and those below them, from top to bottom.
RECURSIVE Entries(_)
Entries(list) == FlattenSeq([i \in DOMAIN list |-> <<list[i]>> \o Entries(list[i].list)])

Visible(e) == IF e = Nothing THEN symbol_yes ELSE e
AnyOf(conds) == IF conds = <<>> THEN symbol_no ELSE FoldLeft(expr_alloc_or, Head(conds), Tail(conds))

\* The finalised tree as a program of SymbolRules.  dir_dep is joined from the
\* definitions of a symbol that have dependencies: one without is left out.
\* ChoiceSyms and their members have none.
Program(root) ==
  LET all == Entries(<<root>>)
      Syms == {e.sym : e \in ToSet(all)} \ {None}
      Of(s) == SelectSeq(all, LAMBDA e : e.sym = s)
      PropsOf(s, type) ==
        LET all_props == FlattenSeq([i \in DOMAIN Of(s) |-> Of(s)[i].props])
        IN  SelectSeq(all_props, LAMBDA p : p.type = type)
      Prompts(s) == SelectSeq(Of(s), LAMBDA e : e.prompt # None)
      Deps(s) == [i \in DOMAIN Of(s) |-> Of(s)[i].dep]
      By(type, t) ==
        FlattenSeq([i \in DOMAIN all |->
          LET to == SelectSeq(all[i].props, LAMBDA p : p.type = type /\ p.value = t)
          IN  [j \in DOMAIN to |-> AndAlso(<<"sym", all[i].sym>>, to[j].visible)]])
      Members(c) ==
        LET below == Entries(Of(c)[1].list)
            withSym == SelectSeq(below, LAMBDA e : e.sym # None)
        IN  [i \in DOMAIN withSym |-> withSym[i].sym]
      AllMembers == UNION {ToSet(Members(c)) : c \in Syms \cap ChoiceSyms}
  IN  [type |-> Type,
       symbols |-> Syms,
       prompt |-> Once([s \in Syms |->
         AnyOf([i \in DOMAIN Prompts(s) |-> Visible(Prompts(s)[i].prompt.visible)])]),
       dir_dep |-> Once([s \in Syms |->
         IF s \in ChoiceSyms \cup AllMembers THEN symbol_yes
         ELSE Visible(FoldLeft(OrElse, Nothing, Deps(s)))]),
       rev_dep |-> Once([s \in Syms |-> AnyOf(By("select", s))]),
       implied |-> Once([s \in Syms |-> AnyOf(By("imply", s))]),
       default |-> Once([s \in Syms |->
         LET d == PropsOf(s, "default")
         IN  Eager([i \in DOMAIN d |-> [cond |-> Visible(d[i].visible), value |-> d[i].value]])]),
       ranges |-> Once([s \in Syms |->
         LET r == PropsOf(s, "range")
         IN  Eager([i \in DOMAIN r |-> [cond |-> Visible(r[i].visible),
                                         lo |-> r[i].value[1], hi |-> r[i].value[2]]])]),
       choices |-> Once([c \in Syms \cap ChoiceSyms |->
         LET d == PropsOf(c, "default")
         IN  [members |-> Eager(Members(c)),
              defaults |-> Eager([i \in DOMAIN d |-> [cond |-> Visible(d[i].visible),
                                                       sym |-> d[i].value]])]]),
       modules |-> Modules]
=============================================================================
