---------------------------- MODULE SymbolRules -----------------------------
(****************************************************************************)
(* How the value of a bool, tristate or int symbol follows from the values  *)
(* of the symbols it depends on: the formulas of sym_calc_visibility(),     *)
(* sym_calc_value() and sym_calc_choice() in symbol.c, without their        *)
(* caching.  SymbolCalc evaluates them on the cached values, ApplyFix and   *)
(* SatConf on the configuration as a whole.                                 *)
(*                                                                          *)
(* The program and its state are parameters: the variables of the module    *)
(* that instantiates this one, or a configuration it asks about.            *)
(*                                                                          *)
(* A Kconfig program is a record, as menu_finalize() leaves it: prompts,    *)
(* defaults, selects and implies carry the conditions around them.  The     *)
(* members of a choice carry the condition of the choice.                   *)
(****************************************************************************)
EXTENDS Tristate, Integers, SequencesExt

NoValue == -1

\* Fields of a program: type, prompt, dir_dep, rev_dep, implied by symbol (the
\* last four are conditions), default by symbol (a list of conditions and
\* values, the value for an int being a symbol), if there are ints the ranges
\* by symbol (a list of conditions and two symbols), the choices (members in
\* menu order, defaults as a list of conditions and members) and the symbol
\* modules, "option modules".
CONSTANTS
  Sym,          \* the symbols
  None,         \* no symbol
  k,            \* the program
  user,         \* def[S_DEF_USER], NoValue without SYMBOL_DEF_USER
  order,        \* by choice: choice_members, by priority
  curr,         \* the values of the symbols
  modules_val,  \* the value of modules_sym that is in effect
  expr_calc_value(_, _)  \* of a condition, when the symbols have the values

AllChoices == DOMAIN k.choices
ChoiceOf(s) == {c \in AllChoices : s \in ToSet(k.choices[c].members)}
sym_is_choice_value(s) == ChoiceOf(s) # {}
sym_has_value(s) == user[s] # NoValue

----------------------------------------------------------------------------
\* sym_get_type(): without modules a tristate is a bool.
sym_get_type(s) ==
  IF k.type[s] = "tristate" /\ modules_val = no THEN "bool" ELSE k.type[s]

\* A bool is never "m".
Promoted(s, t) == IF t = mod /\ sym_get_type(s) = "bool" THEN yes ELSE t

\* sym_calc_visibility() for the prompts and for the other three conditions.
\* Choice members have the first only.
Visibility(s) == Promoted(s, expr_calc_value(k.prompt[s], curr))
DirDep(s) == Promoted(s, expr_calc_value(k.dir_dep[s], curr))
RevDep(s) == Promoted(s, expr_calc_value(k.rev_dep[s], curr))
Implied(s) == Promoted(s, expr_calc_value(k.implied[s], curr))

\* The first element of a list that is in S.
First(seq, S) ==
  LET at == {i \in DOMAIN seq : seq[i] \in S}
  IN  IF at = {} THEN None ELSE seq[CHOOSE i \in at : \A j \in at : i <= j]

\* The defaults or ranges of a list whose conditions hold.
InForce(props) == {p \in ToSet(props) : expr_calc_value(p.cond, curr) # no}

\* sym_get_default_prop(): the first default that is visible, and its value.
DefaultValue(s) ==
  LET default == First(k.default[s], InForce(k.default[s]))
  IN  IF default = None THEN no
      ELSE And(expr_calc_value(default.value, curr), expr_calc_value(default.cond, curr))

\* The value without the user's: the default, raised by what implies the
\* symbol, which its own dependencies limit.
Automatic(s) ==
  IF Implied(s) = no THEN DefaultValue(s)
  ELSE And(Or(DefaultValue(s), Implied(s)), DirDep(s))

\* sym_calc_value() of a symbol that is not in a choice.
NewValue(s) ==
  Promoted(s, Or(IF Visibility(s) # no /\ sym_has_value(s)
                   THEN And(user[s], Visibility(s)) ELSE Automatic(s), RevDep(s)))

\* SYMBOL_WRITE: the symbol belongs into .config.  The mutant leaves out those
\* that are not set.
WrittenWhenSet(s) == NewValue(s) # no
Written(s) ==
  \/ Visibility(s) # no
  \/ RevDep(s) # no \/ DefaultValue(s) # no \/ Implied(s) # no

\* sym_get_string_default(): the value without the user's once more, where what
\* implies the symbol is not limited by its dependencies.
sym_get_string_default(s) ==
  Or(Promoted(s, Or(DefaultValue(s), RevDep(s))), Implied(s))

\* sym_is_changeable(): the user can set the symbol.
sym_is_changeable(s) == Visibility(s) > RevDep(s)

----------------------------------------------------------------------------
\* sym_get_range_prop(); sym_validate_range(): a value below the range becomes
\* its lower bound, one above it the upper bound.
sym_get_range_prop(s) == First(k.ranges[s], InForce(k.ranges[s]))
InRange(s, n) ==
  LET r == sym_get_range_prop(s) IN IF r = None THEN TRUE ELSE curr[r.lo] <= n /\ n <= curr[r.hi]
sym_validate_range(s, n) ==
  LET r == sym_get_range_prop(s)
  IN  IF InRange(s, n) THEN n ELSE IF n < curr[r.lo] THEN curr[r.lo] ELSE curr[r.hi]

\* sym_calc_value() of an int.
IntValue(s) ==
  LET default == First(k.default[s], InForce(k.default[s]))
  IN  sym_validate_range(s,
        IF Visibility(s) # no /\ sym_has_value(s) THEN user[s]
        ELSE IF default = None THEN 0 ELSE curr[default.value])

\* sym_choice_default(): the first visible default of the choice whose member
\* is visible, or the first visible member.
ChoiceDefault(c, vis) ==
  LET defaults == k.choices[c].defaults
      d == First(defaults, {e \in InForce(defaults) : vis[e.sym] # no})
  IN  IF d # None THEN d.sym
      ELSE First(k.choices[c].members, {s \in Sym : vis[s] # no})

\* The member that is chosen: the user's "y", else the default unless the user
\* has set it to "n", else the first one the user has not set, else the one
\* whose "n" has the least priority.
Chosen(c, vis) ==
  LET Visible == {s \in Sym : vis[s] # no}
      byUser == First(order[c], {s \in Visible : user[s] = yes})
      default == ChoiceDefault(c, vis)
      unset == First(k.choices[c].members, {s \in Visible : ~sym_has_value(s)})
  IN  IF byUser # None THEN byUser
      ELSE IF default # None /\ user[default] # no THEN default
      ELSE IF unset # None THEN unset
      ELSE First(Reverse(order[c]), Visible)

\* The value of every symbol, choice member or not.
Value(s) ==
  IF k.type[s] = "int" THEN IntValue(s)
  ELSE IF ~sym_is_choice_value(s) THEN NewValue(s)
  ELSE LET c == CHOOSE c \in AllChoices : c \in ChoiceOf(s)
       IN  IF s = Chosen(c, [m \in Sym |-> Visibility(m)]) THEN yes ELSE no
=============================================================================
