------------------------------ MODULE ExprWalk ------------------------------
(****************************************************************************)
(* Expressions as a Kconfig file may hold them: tests of symbols, joined by *)
(* connectives.  Whatever is written, what menu_finalize() makes of it      *)
(* (expr.c) and what the solver gets for it (cf_expr.c) mean the same.      *)
(****************************************************************************)
EXTENDS Formula

CONSTANTS
  Leaves,     \* expressions to begin with
  Small,      \* those that are joined to a longer expression
  Few,        \* those that chains to compare are made of
  Values,     \* the assignments of values to symbols, and to "junk"
  MaxSteps    \* bound: connectives on top of each other

ASSUME LeavesAssumption == Few \cup Small \subseteq Leaves
ASSUME MaxStepsAssumption == MaxSteps \in Nat

VARIABLES e, other, steps
vars == <<e, other, steps>>

\* A single expression that grows, or two to compare.
Chains ==
  UNION {{<<op, a, <<opl, b, c>>>>, <<op, <<opl, a, b>>, c>>} :
           op \in {"and", "or"}, opl \in {"and", "or"}, a \in Few, b \in Few, c \in Few}
Init ==
  \/ e \in Leaves /\ other = Nothing /\ steps = 0
  \/ e \in Chains /\ other \in Chains /\ steps = MaxSteps

Step(f) ==
  /\ steps < MaxSteps
  /\ steps' = steps + 1
  /\ e' = f
  /\ UNCHANGED other

JoinLeaf ==
  \E op \in {"and", "or"}, a \in IF steps = 0 THEN Leaves ELSE Small :
    Step(<<op, e, a>>) \/ Step(<<op, a, e>>)
Negate == e[1] # "not" /\ Step(expr_alloc_not(e))
Next == JoinLeaf \/ Negate

Spec == Init /\ [][Next]_vars

----------------------------------------------------------------------------
Same(a, b) == \A v \in Values : expr_calc_value(a, v) = expr_calc_value(b, v)

\* e tests a bool for "!= y" somewhere.
RECURSIVE TestsBoolNotY(_)
TestsBoolNotY(f) ==
  CASE Joins(f) -> TestsBoolNotY(f[2]) \/ TestsBoolNotY(f[3])
    [] f[1] = "not" -> TestsBoolNotY(f[2])
    [] OTHER -> f[1] = "!=" /\ Type[f[2]] = "bool" /\ f[3] = "y"

\* What menu_finalize() does to every dependency, expr_transform() and then
\* expr_eliminate_dups(), each alone and both, does not change what the
\* expression evaluates to.  Not so for expr_transform() when a bool is tested
\* for "!= y": what A!=y is rewritten to (expr.c:647-650) is the negation of the
\* symbol's memory taken for an expression, and has any value.
RewritingKeepsValue ==
  other = Nothing =>
    /\ Same(expr_eliminate_dups(e), e)
    /\ ~TestsBoolNotY(e) =>
         /\ Same(expr_transform(e), e)
         /\ Same(expr_eliminate_dups(expr_transform(e)), e)

\* Two expressions that expr_eq() takes to be equal, whatever the order of
\* their operands, evaluate to the same.
EqIsSound == other # Nothing /\ expr_eq(e, other) => Same(e, other)

----------------------------------------------------------------------------
\* The fexprs that are true when the symbols have the values v.
Literals(v) ==
  {<<"y", s>> : s \in {s \in DOMAIN Type : IsBoolean(s) /\ v[s] = yes}}
    \cup {<<"both", s>> : s \in {s \in DOMAIN Type : Type[s] = "tristate" /\ v[s] # no}}
    \cup {fexpr_val(s, v[s]) : s \in {s \in DOMAIN Type : sym_is_nonboolean(s)}}

\* The formulas that the solver gets for an expression hold exactly when it
\* evaluates to "y", and to "m" or "y".
FormulaMeansValue ==
  LET y == Construct(expr_calculate_pexpr_y(e))
      both == Construct(expr_calculate_pexpr_both(e))
  IN  other = Nothing => \A v \in Values :
        /\ Holds(y, Literals(v)) <=> expr_calc_value(e, v) = yes
        /\ Holds(both, Literals(v)) <=> expr_calc_value(e, v) # no
=============================================================================
