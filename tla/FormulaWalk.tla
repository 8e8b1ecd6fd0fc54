----------------------------- MODULE FormulaWalk -----------------------------
(****************************************************************************)
(* A formula is built up: whatever the constraints ask for with pexpr_and(),*)
(* pexpr_or(), pexpr_not() and pexpr_implies(), each of which simplifies    *)
(* what it builds (cf_expr.c).  asked is what has been asked for: the sets  *)
(* of fexprs under which the formula has to hold.                           *)
(****************************************************************************)
EXTENDS Cnf

CONSTANTS
  Fexprs,    \* the variables
  MaxSteps   \* bound: how many connectives are put on top of each other

ASSUME FexprsAssumption == {const_true, const_false} \cap Fexprs = {}
ASSUME MaxStepsAssumption == MaxSteps \in Nat

VARIABLES e, asked, steps
vars == <<e, asked, steps>>

Assignments == SUBSET Fexprs
ModelsOf(f) == {v \in Assignments : Holds(f, v)}

Leaves == {pexf(f) : f \in Fexprs}
Literals == Leaves \cup {pexpr_not_share(a) : a \in Leaves}
Constants == {True, False}
Pairs ==
  {<<op, a, b>> : op \in {"and", "or"}, a \in Literals, b \in Literals}
\* The pairs that the simplification leaves as they are.
Simple ==
  {p \in Pairs : p = (IF IsAnd(p) THEN pexpr_and_share(p[2], p[3]) ELSE pexpr_or_share(p[2], p[3]))}

Init ==
  /\ e \in Literals \cup Constants \cup Simple
  /\ asked = ModelsOf(e)
  /\ steps = 0

\* At first any formula, then smaller ones are joined to it.
Operands == IF steps = 0 THEN Literals \cup Simple ELSE Literals \cup Constants

Step(f, models) ==
  /\ steps < MaxSteps
  /\ steps' = steps + 1
  /\ e' = f
  /\ asked' = models

AndWith ==
  \E a \in Operands :
    Step(pexpr_and_share(e, a), asked \cap ModelsOf(a)) \/ Step(pexpr_and_share(a, e), asked \cap ModelsOf(a))
OrWith ==
  \E a \in Operands :
    Step(pexpr_or_share(e, a), asked \cup ModelsOf(a)) \/ Step(pexpr_or_share(a, e), asked \cup ModelsOf(a))
Negate == Step(pexpr_not_share(e), Assignments \ asked)
Implies ==
  \E a \in Operands :
    \/ Step(pexpr_implies_share(e, a), (Assignments \ asked) \cup ModelsOf(a))
    \/ Step(pexpr_implies_share(a, e), (Assignments \ ModelsOf(a)) \cup asked)

Next == AndWith \/ OrWith \/ Negate \/ Implies
Done == steps = MaxSteps /\ UNCHANGED vars

Spec == Init /\ [][Next \/ Done]_vars

----------------------------------------------------------------------------
\* The simplifications of pexpr_and_share(), pexpr_or_share() and
\* pexpr_implies_share() and the test for equality that they rely on, which
\* ignores the order and the nesting of operands, keep the meaning: the formula
\* holds exactly where it has been asked to hold.
Equivalent == ModelsOf(e) = asked

\* The clauses and temporary variables that stand for a constraint admit the
\* assignments that the constraint admits, no more and no fewer, provided that
\* the constraint is not a conjunction.
ClausesEquivalent ==
  ~IsAnd(e) =>
    Models(Closed(construct_cnf_clauses(<<e>>)), Fexprs) = asked

\* A formula is a conjunction or a disjunction only of what is neither constant
\* nor doubly negated: construct_cnf_clauses() sees no constant that it would
\* have to know about, and unfold_cnf_clause() may take what is below a "not"
\* of a clause for a symbol.
RECURSIVE Clean(_)
Clean(f) ==
  CASE IsSymbol(f) -> f[2] \in Fexprs
    [] IsNot(f) -> ~IsNot(f[2]) /\ Clean(f[2])
    [] OTHER -> Clean(f[2]) /\ Clean(f[3])
Simplified == e \in Constants \/ Clean(e)
=============================================================================
