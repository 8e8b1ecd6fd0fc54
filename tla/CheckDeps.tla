----------------------------- MODULE CheckDeps ------------------------------
(****************************************************************************)
(* sym_check_deps() (symbol.c): the search for symbols whose value depends  *)
(* on itself, which the parser runs over a finished program.  It goes down  *)
(* along what a symbol reads, with a mark on the symbols that it is in      *)
(* (SYMBOL_CHECK) and one on those it has been in (SYMBOL_CHECKED).         *)
(*                                                                          *)
(* p is the program (see SymbolRules).  The state st is a record: check and *)
(* checked, the symbols with these marks, and found.  Once something has    *)
(* been found, the search only returns.                                     *)
(****************************************************************************)
EXTENDS Expr, SequencesExt

\* The symbols of an expression, from left to right.
RECURSIVE InOrder(_)
InOrder(e) ==
  CASE Joins(e) -> InOrder(e[2]) \o InOrder(e[3])
    [] e[1] = "not" -> InOrder(e[2])
    [] OTHER -> Tail(e)

ChoicesOf(p, s) == {c \in DOMAIN p.choices : s \in ToSet(p.choices[c].members)}

\* sym_check_sym_deps(): what a symbol reads, in the order in which it is looked
\* at.  Of a choice the conditions of the defaults only; of a range not the
\* bounds.  The mutant does without what implies the symbol.
WithoutImplied(p, s) ==
  InOrder(p.dir_dep[s]) \o InOrder(p.rev_dep[s]) \o InOrder(p.prompt[s])
DepsAndPrompts(p, s) ==
  InOrder(p.dir_dep[s]) \o InOrder(p.rev_dep[s]) \o InOrder(p.implied[s]) \o InOrder(p.prompt[s])
DefaultReads(p, s, d) ==
  CASE s \in DOMAIN p.choices -> <<>>
    [] Type[s] = "int" -> <<d.value>>
    [] OTHER -> InOrder(d.value)
sym_check_sym_deps(p, s) ==
  LET defaults == p.default[s]
      ranges == p.ranges[s]
      reads == DepsAndPrompts(p, s)
                \o FlattenSeq([i \in DOMAIN defaults |->
                                 InOrder(defaults[i].cond) \o DefaultReads(p, s, defaults[i])])
                \o FlattenSeq([i \in DOMAIN ranges |-> InOrder(ranges[i].cond)])
  IN  SelectSeq(reads, LAMBDA t : t \in p.symbols)

\* A choice and its members are looked at together, as one.
RECURSIVE sym_check_deps(_, _, _), CheckAll(_, _, _), sym_check_choice_deps(_, _, _)
sym_check_choice_deps(p, choice, st) ==
  LET members == p.choices[choice].members
      group == {choice} \cup ToSet(members)
      marked == [st EXCEPT !.check = @ \cup group, !.checked = @ \cup group]
      own == [CheckAll(p, sym_check_sym_deps(p, choice), marked) EXCEPT !.check = @ \ {choice}]
      reads == FlattenSeq([i \in DOMAIN members |-> sym_check_sym_deps(p, members[i])])
  IN  [CheckAll(p, reads, own) EXCEPT !.check = @ \ ToSet(members)]

sym_check_deps(p, s, st) ==
  IF s \in st.check THEN [st EXCEPT !.found = TRUE]
  ELSE IF s \in st.checked THEN st
  ELSE IF ChoicesOf(p, s) # {} THEN sym_check_deps(p, CHOOSE c \in ChoicesOf(p, s) : TRUE, st)
  ELSE IF s \in DOMAIN p.choices THEN sym_check_choice_deps(p, s, st)
  ELSE LET marked == [st EXCEPT !.check = @ \cup {s}, !.checked = @ \cup {s}]
       IN  [CheckAll(p, sym_check_sym_deps(p, s), marked) EXCEPT !.check = @ \ {s}]

CheckAll(p, reads, st) ==
  IF reads = <<>> \/ st.found THEN st
  ELSE CheckAll(p, Tail(reads), sym_check_deps(p, Head(reads), st))

\* conf_parse(): every symbol of the menu.
Unmarked == [check |-> {}, checked |-> {}, found |-> FALSE]
conf_parse(p, syms) == CheckAll(p, syms, Unmarked).found
=============================================================================
