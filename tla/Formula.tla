------------------------------ MODULE Formula ------------------------------
(****************************************************************************)
(* What an expression of Kconfig becomes for the solver: a formula that     *)
(* holds when the expression is "y", and one that holds when it is not "n"  *)
(* (cf_expr.c; the tests of symbols in cf_utils.c).                         *)
(*                                                                          *)
(* A fexpr is <<"y", s>> or <<"both", s>> of a symbol: it is "y", it is "m" *)
(* or "y"; or <<"val", s, n>> of an int: its value is n, and NotSet if it   *)
(* has none.                                                                *)
(****************************************************************************)
EXTENDS Expr, PExpr, FiniteSetsExt, SequencesExt

CONSTANTS
  nb_vals,   \* by int: the values that have a fexpr
  Number     \* of a constant: the number it stands for

NotSet == Empty

sym_is_boolean(s) == IsBoolean(s)
sym_is_nonboolean(s) == Type[s] = "int"
sym_is_tristate_constant(s) == s \in Triconst
sym_is_nonbool_constant(s) == Type[s] = "unknown"

----------------------------------------------------------------------------
\* create_constants(), sym_create_fexpr(): the fexprs of a symbol.
fexpr_y(s) ==
  CASE s = "y" -> const_true
    [] s \in {"m", "n"} -> const_false
    [] OTHER -> IF IsBoolean(s) THEN <<"y", s>> ELSE const_false
fexpr_both(s) ==
  CASE s \in {"y", "m"} -> const_true
    [] s = "n" -> const_false
    [] OTHER -> IF Type[s] = "tristate" THEN <<"both", s>> ELSE const_false
fexpr_val(s, n) == <<"val", s, n>>

sym_get_fexpr_both(s) == pexf(IF Type[s] = "tristate" THEN fexpr_both(s) ELSE fexpr_y(s))
sym_get_fexpr_m(s) ==
  IF Type[s] = "tristate"
    THEN pexpr_and(pexf(fexpr_both(s)), pexpr_not(pexf(fexpr_y(s)))) ELSE False

\* expr_can_evaluate_to_mod().
RECURSIVE expr_can_evaluate_to_mod(_)
expr_can_evaluate_to_mod(e) ==
  CASE e[1] = "sym" -> Type[e[2]] = "tristate"
    [] Joins(e) -> expr_can_evaluate_to_mod(e[2]) \/ expr_can_evaluate_to_mod(e[3])
    [] e[1] = "not" -> expr_can_evaluate_to_mod(e[2])
    [] OTHER -> FALSE

----------------------------------------------------------------------------
equiv_pexpr(a, b) == pexpr_or(pexpr_and(a, b), pexpr_and(pexpr_not(a), pexpr_not(b)))

\* expr_calculate_pexpr_y_equals().
expr_calculate_pexpr_y_equals(s, t) ==
  CASE sym_is_tristate_constant(s) /\ sym_is_tristate_constant(t) ->
         IF s = t THEN True ELSE False
    [] sym_is_nonbool_constant(s) /\ sym_is_nonbool_constant(t) ->
         IF s = t THEN True ELSE False
    [] sym_is_boolean(s) /\ sym_is_boolean(t) ->
         pexpr_and(equiv_pexpr(pexf(fexpr_y(s)), pexf(fexpr_y(t))),
                   equiv_pexpr(sym_get_fexpr_m(s), sym_get_fexpr_m(t)))
    [] sym_is_nonboolean(s) /\ sym_is_nonbool_constant(t) -> pexf(fexpr_val(s, Number[t]))
    [] sym_is_nonbool_constant(s) /\ sym_is_nonboolean(t) -> pexf(fexpr_val(t, Number[s]))
    [] sym_is_nonboolean(s) /\ sym_is_nonboolean(t) ->
         LET common == SetToSortSeq(nb_vals[s] \cap nb_vals[t], <)
         IN  OrList([i \in DOMAIN common |->
               pexpr_and(pexf(fexpr_val(s, common[i])), pexf(fexpr_val(t, common[i])))])
    [] OTHER -> False

\* expr_eval_unequal_nonbool_const(): any of the values for which it holds.
expr_eval_unequal_nonbool_const(op, s, n) ==
  LET vals == SetToSortSeq({a \in nb_vals[s] : Compare(op, a, n)}, <)
  IN  OrList([i \in DOMAIN vals |-> pexf(fexpr_val(s, vals[i]))])

\* expr_eval_unequal_bool(): one of the two is more, by what it is at least.
\* The mutant forgets "m" on the left.
LessThanNo(s, t) == pexpr_and(pexpr_not(sym_get_fexpr_both(s)), sym_get_fexpr_both(t))
Less(s, t) ==
  pexpr_or(pexpr_and(pexpr_not(sym_get_fexpr_both(s)), sym_get_fexpr_both(t)),
           pexpr_and(sym_get_fexpr_m(s), pexf(fexpr_y(t))))
LessOrEqual(s, t) ==
  pexpr_or(pexpr_or(pexpr_and(pexf(fexpr_y(s)), pexf(fexpr_y(t))),
                    pexpr_and(sym_get_fexpr_m(s), sym_get_fexpr_both(t))),
           pexpr_not(sym_get_fexpr_both(s)))
expr_eval_unequal_bool(op, s, t) ==
  CASE op = "<"  -> Less(s, t)
    [] op = ">"  -> Less(t, s)
    [] op = "<=" -> LessOrEqual(s, t)
    [] op = ">=" -> LessOrEqual(t, s)

\* expr_calculate_pexpr_y_comp(): a number on the left is put to the right, the
\* relation stays.
expr_calculate_pexpr_y_comp(op, s, t) ==
  CASE sym_is_nonboolean(s) /\ sym_is_nonbool_constant(t) ->
         expr_eval_unequal_nonbool_const(op, s, Number[t])
    [] sym_is_nonboolean(t) /\ sym_is_nonbool_constant(s) ->
         expr_eval_unequal_nonbool_const(op, t, Number[s])
    [] sym_is_boolean(s) /\ sym_is_boolean(t) -> expr_eval_unequal_bool(op, s, t)
    [] OTHER -> False

\* A comparison is never "m".
Comparison(e) ==
  CASE e[1] = "=" -> expr_calculate_pexpr_y_equals(e[2], e[3])
    [] e[1] = "!=" -> pexpr_not(expr_calculate_pexpr_y_equals(e[2], e[3]))
    [] OTHER -> expr_calculate_pexpr_y_comp(e[1], e[2], e[3])

----------------------------------------------------------------------------
\* When e is "y", and when it is "m" or "y".
RECURSIVE expr_calculate_pexpr_y(_), expr_calculate_pexpr_both(_)
expr_calculate_pexpr_y(e) ==
  CASE e[1] = "sym" -> pexf(fexpr_y(e[2]))
    [] e[1] = "and" -> pexpr_and(expr_calculate_pexpr_y(e[2]), expr_calculate_pexpr_y(e[3]))
    [] e[1] = "or" -> pexpr_or(expr_calculate_pexpr_y(e[2]), expr_calculate_pexpr_y(e[3]))
    [] e[1] = "not" -> pexpr_not(expr_calculate_pexpr_both(e[2]))
    [] OTHER -> Comparison(e)

expr_calculate_pexpr_both(e) ==
  IF ~expr_can_evaluate_to_mod(e) THEN expr_calculate_pexpr_y(e)
  ELSE CASE e[1] = "sym" -> pexf(fexpr_both(e[2]))
         [] e[1] = "and" ->
              pexpr_and(expr_calculate_pexpr_both(e[2]), expr_calculate_pexpr_both(e[3]))
         [] e[1] = "or" ->
              pexpr_or(expr_calculate_pexpr_both(e[2]), expr_calculate_pexpr_both(e[3]))
         [] e[1] = "not" -> pexpr_not(expr_calculate_pexpr_y(e[2]))

expr_calculate_pexpr_m(e) ==
  pexpr_and(expr_calculate_pexpr_both(e), pexpr_not(expr_calculate_pexpr_y(e)))
=============================================================================
