---------------------------- MODULE Constraints ----------------------------
(****************************************************************************)
(* The formula that stands for a Kconfig program (cf_constraints.c).        *)
(*                                                                          *)
(* A program is a record, as menu_finalize() leaves it: the prompts and     *)
(* defaults of a symbol carry the conditions around them.  Its fields:      *)
(*   symbols   the symbols, as for_all_symbols() finds them; choices too    *)
(*   prompts   by symbol, a list of conditions                              *)
(*   dir_dep   by symbol, its dependencies                                  *)
(*   selects   by symbol, a list of [sym, cond]                             *)
(*   defaults  by symbol, a list of [cond, value]                           *)
(*   ranges    by symbol, a list of [cond, lo, hi]                          *)
(*   choices   by choice, its members                                       *)
(*   modules   the symbol of "modules"                                      *)
(* A condition may be Nothing.  What the code cannot deal with is left out: *)
(* a second prompt without a condition after one with a condition, and a    *)
(* test of an int for a value only in the condition of a default.  An       *)
(* "imply" makes no constraint.                                             *)
(*                                                                          *)
(* A choice is a bool without a name; who is chosen in it is up to its      *)
(* members.  Besides the fexprs of Formula, <<"sel_y", s>> and              *)
(* <<"sel_both", s>> stand for a symbol that is selected, <<"npc", s>> for  *)
(* one without a visible prompt.                                            *)
(****************************************************************************)
EXTENDS Formula

CONSTANTS
  k,        \* the program
  curr      \* the values of symbols and constants when the formula is built

----------------------------------------------------------------------------
sym_is_choice(s) == s \in DOMAIN k.choices
sym_is_choice_value(s) == \E c \in DOMAIN k.choices : s \in ToSet(k.choices[c])
InChoice(s) == sym_is_choice(s) \/ sym_is_choice_value(s)
HasPrompt(s) == k.prompts[s] # <<>>
\* Somebody selects the symbol.
HasRevDep(s) == \E t \in ToSet(k.symbols) : \E x \in ToSet(k.selects[t]) : x.sym = s

Y(s) == pexf(fexpr_y(s))
SelY(s) == pexf(<<"sel_y", s>>)
SelBoth(s) == pexf(<<"sel_both", s>>)
sym_get_fexpr_sel_y(s) == IF HasRevDep(s) THEN SelY(s) ELSE False
sym_get_fexpr_sel_both(s) ==
  IF ~HasRevDep(s) THEN False
  ELSE IF Type[s] = "tristate" THEN SelBoth(s) ELSE SelY(s)

\* A condition that is missing is "y".
CondY(e) == IF e = Nothing THEN True ELSE expr_calculate_pexpr_y(e)
CondBoth(e) == IF e = Nothing THEN True ELSE expr_calculate_pexpr_both(e)

\* The values of an int, "not set" aside, in a list.
SetValues(s) == LET vals == SetToSortSeq(nb_vals[s], <)
                IN  [i \in DOMAIN vals |-> pexf(fexpr_val(s, vals[i]))]
Unset(s) == pexf(fexpr_val(s, NotSet))

----------------------------------------------------------------------------
\* build_tristate_constraint_clause(): "m" needs modules.
build_tristate_constraint_clause(s) ==
  {pexpr_implies(Y(s), pexf(fexpr_both(s))),
   pexpr_or(Y(k.modules), pexpr_or(pexpr_not(pexf(fexpr_both(s))), Y(s)))}

\* Who selects a symbol, under which condition.
Selectors(t) ==
  LET of(s) == SelectSeq(k.selects[s], LAMBDA x : x.sym = t)
  IN  FlattenSeq([i \in DOMAIN k.symbols |->
        [j \in DOMAIN of(k.symbols[i]) |-> [sym |-> k.symbols[i],
                                            cond |-> of(k.symbols[i])[j].cond]]])

\* When a selector makes t "y", and "m" or "y".  A bool is "y" either way.
SelectsBoth(x) == pexpr_and(CondBoth(x.cond), sym_get_fexpr_both(x.sym))
SelectsY(x, t) ==
  IF Type[t] = "bool" THEN SelectsBoth(x) ELSE pexpr_and(CondY(x.cond), Y(x.sym))

\* add_selects() and build_constraints_select(): t is selected when, and only
\* when, one of the selectors selects it, and is then set.
add_selects(t) ==
  LET by == ToSet(Selectors(t))
  IN  {pexpr_implies(SelectsY(x, t), SelY(t)) : x \in by}
        \cup (IF Type[t] = "bool" THEN {}
              ELSE {pexpr_implies(SelectsBoth(x), SelBoth(t)) : x \in by})
build_constraints_select(t) ==
  LET by == Selectors(t)
  IN  IF InChoice(t) \/ ~HasRevDep(t) THEN {}
      ELSE {pexpr_implies(SelY(t), Y(t)),
            pexpr_implies(SelY(t), OrList([i \in DOMAIN by |-> SelectsY(by[i], t)]))}
             \cup (IF Type[t] = "bool" THEN {}
                   ELSE {pexpr_implies(SelBoth(t), pexf(fexpr_both(t))),
                         pexpr_implies(SelBoth(t),
                           OrList([i \in DOMAIN by |-> SelectsBoth(by[i])]))})

----------------------------------------------------------------------------
\* add_dependencies_bool().  A prompt counts as visible here: what it depends
\* on is asked for its "expr", which prompts do not have.
add_dependencies_bool(s) ==
  LET visible == IF HasPrompt(s) THEN True ELSE False
      dep_both == expr_calculate_pexpr_both(k.dir_dep[s])
      dep_y == expr_calculate_pexpr_y(k.dir_dep[s])
      sel_y == sym_get_fexpr_sel_y(s)
      has_prompt == pexpr_and(visible, pexpr_not(pexpr_and(sel_y, visible)))
      Hidden(e) == pexpr_implies(pexpr_not(has_prompt), e)
      shown == pexpr_implies(has_prompt, visible)
  IN  IF Type[s] = "tristate"
        THEN {pexpr_implies(Y(s), pexpr_and(Hidden(pexpr_or(dep_y, sel_y)), shown)),
              pexpr_implies(pexf(fexpr_both(s)),
                Hidden(pexpr_or(dep_both, sym_get_fexpr_sel_both(s)))),
              pexpr_implies(sym_get_fexpr_m(s),
                pexpr_implies(has_prompt, pexpr_not(sel_y)))}
        ELSE {pexpr_implies(Y(s), pexpr_and(Hidden(pexpr_or(dep_both, Y(s))), shown))}

\* add_dependencies_nonbool(): an int has a value only where it may have one.
add_dependencies_nonbool(s) ==
  {pexpr_implies(OrList(SetValues(s)), expr_calculate_pexpr_both(k.dir_dep[s]))}

\* add_choice_prompt_cond(), add_choice_constraints().  add_choice_dependencies()
\* is for what is both a choice and the member of one: nothing.
add_choice_prompt_cond(c) ==
  LET cond == CondBoth(Head(k.prompts[c]))
  IN  {pexpr_implies(cond, Y(c)), pexpr_implies(Y(c), cond)}
add_choice_constraints(c) ==
  LET m == k.choices[c]
  IN  {pexpr_implies(Y(c), OrList([i \in DOMAIN m |-> Y(m[i])]))}
        \cup {pexpr_implies(Y(m[i]), Y(c)) : i \in DOMAIN m}
        \cup {pexpr_or(pexpr_not(Y(m[p[1]])), pexpr_not(Y(m[p[2]]))) :
                p \in {p \in (DOMAIN m) \X (DOMAIN m) : p[1] < p[2]}}

----------------------------------------------------------------------------
\* add_defaults(): the values of a list of defaults and when they apply, one
\* after the other, without regard to the defaults before them.  ctx is the
\* condition of the int whose defaults are those of another one.
RECURSIVE add_defaults(_, _, _)
YesOrMod(e) == <<<<"y", expr_calculate_pexpr_y(e)>>, <<"m", expr_calculate_pexpr_m(e)>>>>
DefaultName(s, of) ==
  IF of \notin DOMAIN Number THEN IF of \in Triconst THEN of ELSE "y"
  ELSE IF ~IsBoolean(s) THEN Number[of]
  ELSE CASE Number[of] = 0 -> "n" [] Number[of] = 1 -> "m" [] Number[of] = 2 -> "y"
DefaultEntries(s, d, ctx) ==
  LET own == IF d.cond = Nothing THEN symbol_yes ELSE d.cond
      cond == IF ctx = Nothing THEN own ELSE expr_alloc_and(own, ctx)
      of == IF d.value[1] = "sym" THEN d.value[2] ELSE "none"
      constant == of \in Triconst \cup DOMAIN Number
      applies == IF constant THEN cond ELSE expr_alloc_and(d.value, cond)
  IN  IF Type[s] = "int" /\ ~constant THEN add_defaults(s, k.defaults[of], cond)
      ELSE IF Type[s] = "tristate" /\ (of = "y" \/ ~constant) THEN YesOrMod(applies)
      ELSE <<<<DefaultName(s, of), expr_calculate_pexpr_both(applies)>>>>
add_defaults(s, list, ctx) ==
  FlattenSeq([i \in DOMAIN list |-> DefaultEntries(s, list[i], ctx)])

\* updateDefaultList(): a default is used where none before it has been.  The
\* mutant does not look at those before.
CondOf(map, val) == IF val \in DOMAIN map THEN map[val] ELSE False
LastDefault(acc, entry) ==
  [map |-> (entry[1] :> pexpr_or(CondOf(acc.map, entry[1]), entry[2])) @@ acc.map,
   covered |-> True]
updateDefaultList(acc, entry) ==
  [map |-> (entry[1] :> pexpr_or(CondOf(acc.map, entry[1]),
                                 pexpr_and(entry[2], pexpr_not(acc.covered)))) @@ acc.map,
   covered |-> pexpr_or(acc.covered, entry[2])]

\* calc_default_conditions(): by value, when it is the default.
calc_default_conditions(s) ==
  FoldLeft(updateDefaultList, [map |-> <<>>, covered |-> False],
           add_defaults(s, k.defaults[s], Nothing)).map

\* get_default_any(): when a default applies.
get_default_any(s) ==
  OrList([i \in DOMAIN k.defaults[s] |-> CondBoth(k.defaults[s][i].cond)])

----------------------------------------------------------------------------
\* add_invisible_constraints(): a symbol without a visible prompt has its
\* default, or the value it is selected to.  Nobody says when a choice, or the
\* member of one, has no visible prompt.
Prompts(s) == k.prompts[s]
PromptBoth(s) == OrList([i \in DOMAIN Prompts(s) |-> expr_calculate_pexpr_both(Prompts(s)[i])])
PromptY(s) == OrList([i \in DOMAIN Prompts(s) |-> expr_calculate_pexpr_y(Prompts(s)[i])])
AlwaysVisible(s) == HasPrompt(s) /\ Prompts(s)[1] = Nothing

OnlySelected(s, lit, sel) == IF HasRevDep(s) THEN pexpr_implies(lit, sel) ELSE pexpr_not(lit)
HiddenOff(s, default, lit, sel) ==
  pexpr_implies(pexpr_not(default), OnlySelected(s, lit, sel))

RECURSIVE AndNot(_)
AndNot(list) ==
  IF list = <<>> THEN True
  ELSE pexpr_and(AndNot(SubSeq(list, 1, Len(list) - 1)), pexpr_not(list[Len(list)]))

\* What holds of a symbol that is not visible; default is when it has which default.
HiddenConstraints(s, default) ==
  LET default_y == CondOf(default, "y")
      default_m == CondOf(default, "m")
      default_both == pexpr_or(default_y, default_m)
      both == sym_get_fexpr_both(s)
  IN  CASE Type[s] = "tristate" ->
             {pexpr_implies(Y(k.modules), HiddenOff(s, default_y, Y(s), SelY(s))),
              HiddenOff(s, default_both, both, SelBoth(s))}
               \cup (IF default = <<>> THEN {}
                     ELSE {pexpr_implies(default_y, Y(s)), pexpr_implies(default_m, both)})
        [] Type[s] = "bool" ->
             {HiddenOff(s, default_both, Y(s), SelY(s))}
               \cup (IF default = <<>> THEN {} ELSE {pexpr_implies(default_both, Y(s))})
        [] Type[s] = "int" ->
             {pexpr_implies(pexpr_not(get_default_any(s)), AndNot(SetValues(s)))}
               \cup {pexpr_implies(default[n], pexf(fexpr_val(s, n))) : n \in DOMAIN default}

add_invisible_constraints(s) ==
  LET npc == pexf(<<"npc", s>>)
  IN  IF AlwaysVisible(s) THEN {}
      ELSE {pexpr_implies(npc, c) : c \in HiddenConstraints(s, calc_default_conditions(s))}
             \cup (IF InChoice(s) THEN {}
                   ELSE {pexpr_implies(pexpr_not(PromptBoth(s)), npc)})
             \cup (IF Type[s] # "tristate" THEN {}
                   ELSE {pexpr_implies(PromptBoth(s), pexpr_implies(Y(s), PromptY(s)))})

----------------------------------------------------------------------------
\* sym_add_range_constraints(): where a range is the first whose condition
\* holds, the values outside of it are out.  The bounds are read off now.  The
\* mutant lets a value equal to the upper bound out.
OutOfRangeStrict(r, n) == n < curr[r.lo] \/ n >= curr[r.hi]
OutOfRange(r, n) == n < curr[r.lo] \/ n > curr[r.hi]
sym_add_range_constraints(s) ==
  LET ranges == k.ranges[s]
      InForce(i) ==
        FoldLeft(LAMBDA acc, j : pexpr_and(pexpr_not(CondBoth(ranges[j].cond)), acc),
                 CondBoth(ranges[i].cond), [j \in 1 .. i - 1 |-> j])
  IN  UNION {{pexpr_implies(InForce(i), pexpr_not(pexf(fexpr_val(s, n)))) :
                n \in {n \in nb_vals[s] : OutOfRange(ranges[i], n)}} : i \in DOMAIN ranges}

\* sym_add_nonbool_prompt_constraint(): a visible int has a value.
sym_add_nonbool_prompt_constraint(s) ==
  IF HasPrompt(s) THEN {pexpr_implies(CondBoth(Prompts(s)[1]), pexpr_not(Unset(s)))} ELSE {}

\* sym_nonbool_at_least_1(), sym_nonbool_at_most_1().
ExactlyOne(s) ==
  LET all == {fexpr_val(s, n) : n \in nb_vals[s] \cup {NotSet}}
  IN  {pexpr_or(Unset(s), OrList(SetValues(s)))}
        \cup {pexpr_or(pexpr_not(pexf(p[1])), pexpr_not(pexf(p[2]))) :
                p \in {p \in all \X all : p[1] # p[2]}}

----------------------------------------------------------------------------
\* build_constraints_bool(), build_constraints_nonbool(): of one symbol.
build_constraints_bool(s) ==
  (IF Type[s] = "tristate" THEN build_tristate_constraint_clause(s) ELSE {})
    \cup add_selects(s)
    \cup (IF k.dir_dep[s] # Nothing /\ ~InChoice(s) THEN add_dependencies_bool(s) ELSE {})
    \cup (IF sym_is_choice(s) /\ HasPrompt(s)
            THEN add_choice_prompt_cond(s) \cup add_choice_constraints(s) ELSE {})
    \cup add_invisible_constraints(s)

build_constraints_nonbool(s) ==
  sym_add_nonbool_prompt_constraint(s)
    \cup sym_add_range_constraints(s)
    \cup (IF k.dir_dep[s] # Nothing THEN add_dependencies_nonbool(s) ELSE {})
    \cup add_invisible_constraints(s)
    \cup ExactlyOne(s)

\* build_constraints(), sym_add_constraint(): what is always true is left out.
build_constraints ==
  {Construct(c) : c \in
     UNION {IF IsBoolean(s) THEN build_constraints_bool(s) \cup build_constraints_select(s)
            ELSE build_constraints_nonbool(s) : s \in ToSet(k.symbols)}}
    \ {True}
=============================================================================
