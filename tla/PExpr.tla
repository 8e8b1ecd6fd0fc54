------------------------------- MODULE PExpr -------------------------------
(****************************************************************************)
(* Propositional formulas (struct pexpr, cf_expr.c): how they are built and *)
(* simplified on the way, and when two of them are taken to be equal.       *)
(*                                                                          *)
(* A formula is <<"sym", f>> of a fexpr f, <<"not", a>>, <<"and", a, b>> or *)
(* <<"or", a, b>>.  Formulas are values here: who holds a reference to a    *)
(* node is left out.                                                        *)
(****************************************************************************)
EXTENDS Naturals, Sequences

const_true == <<"true">>
const_false == <<"false">>

\* pexpr_alloc_symbol().
pexf(f) == <<"sym", f>>
True == pexf(const_true)
False == pexf(const_false)

IsAnd(e) == e[1] = "and"
IsOr(e) == e[1] = "or"
IsNot(e) == e[1] = "not"
IsSymbol(e) == e[1] = "sym"

\* What a formula means when the fexprs of v are the true ones.
RECURSIVE Holds(_, _)
Holds(e, v) ==
  CASE e[1] = "sym" -> e[2] \in v \cup {const_true}
    [] e[1] = "not" -> ~Holds(e[2], v)
    [] e[1] = "and" -> Holds(e[2], v) /\ Holds(e[3], v)
    [] e[1] = "or"  -> Holds(e[2], v) \/ Holds(e[3], v)

----------------------------------------------------------------------------
\* pexpr_eliminate_yn(): drop the constants below an "and" or an "or".
RECURSIVE pexpr_eliminate_yn(_)
pexpr_eliminate_yn(e) ==
  IF ~IsAnd(e) /\ ~IsOr(e) THEN e
  ELSE LET l == pexpr_eliminate_yn(e[2])
           r == pexpr_eliminate_yn(e[3])
           unit == IF IsAnd(e) THEN True ELSE False
           zero == IF IsAnd(e) THEN False ELSE True
       IN  IF l = zero \/ r = zero THEN zero
           ELSE IF l = unit THEN r ELSE IF r = unit THEN l ELSE <<e[1], l, r>>

\* __pexpr_eliminate_eq(): replace the operands that the chains a and b of the
\* operator op have in common; the pair of what is left.  pexpr_test_eq(): two
\* chains are equal when nothing is left of either.
RECURSIVE pexpr_eliminate_eq(_, _, _), pexpr_test_eq(_, _)
Rest(a, b) ==
  LET r == pexpr_eliminate_eq(a[1], a, b) IN <<pexpr_eliminate_yn(r[1]), pexpr_eliminate_yn(r[2])>>
SameChain(a, b) ==
  LET r == Rest(a, b) IN IsSymbol(r[1]) /\ r[1] = r[2]

pexpr_eliminate_eq(op, a, b) ==
  IF a[1] = op
    THEN LET l == pexpr_eliminate_eq(op, a[2], b)
             r == pexpr_eliminate_eq(op, a[3], l[2])
         IN  <<<<op, l[1], r[1]>>, r[2]>>
  ELSE IF b[1] = op
    THEN LET l == pexpr_eliminate_eq(op, a, b[2])
             r == pexpr_eliminate_eq(op, l[1], b[3])
         IN  <<r[1], <<op, l[2], r[2]>>>>
  ELSE IF (a = b /\ a \in {True, False}) \/ ~pexpr_test_eq(a, b) THEN <<a, b>>
  ELSE IF op = "and" THEN <<True, True>> ELSE <<False, False>>

pexpr_test_eq(a, b) ==
  /\ a[1] = b[1]
  /\ CASE IsSymbol(a) -> a[2] = b[2]
       [] IsNot(a) -> pexpr_test_eq(a[2], b[2])
       [] OTHER -> SameChain(a, b)

----------------------------------------------------------------------------
\* pexpr_not_share().
pexpr_not_share(a) ==
  CASE a = False -> True
    [] a = True -> False
    [] IsNot(a) -> a[2]
    [] OTHER -> <<"not", a>>

\* The places at which two chains of two operands have one in common, in the
\* order they are looked at.
Common(a, b) ==
  SelectSeq(<<<<2, 2>>, <<3, 3>>, <<2, 3>>, <<3, 2>>>>,
            LAMBDA at : pexpr_test_eq(a[at[1]], b[at[2]]))
Other(i) == 5 - i

\* pexpr_and_share() and pexpr_or_share().  A common operand is factored out:
\* the first that is found by the one, the last by the other.
RECURSIVE pexpr_and_share(_, _), pexpr_or_share(_, _)

\* (A || B) && (C || D) -> A || (B && D), the operand at the places at being
\* common.  The mutant forgets one of the others.
FactoredShort(a, b, at) == pexpr_or_share(a[at[1]], a[Other(at[1])])
Factored(a, b, at) ==
  pexpr_or_share(a[at[1]], pexpr_and_share(a[Other(at[1])], b[Other(at[2])]))

pexpr_and_share(a, b) ==
  IF pexpr_test_eq(a, b) \/ a = False \/ b = True THEN a
  ELSE IF b = False \/ a = True THEN b
  ELSE IF IsAnd(a) /\ pexpr_test_eq(a[3], b) THEN a
  ELSE IF IsAnd(b) /\ pexpr_test_eq(a, b[2]) THEN b
  ELSE IF IsOr(a) /\ IsOr(b) /\ Common(a, b) # <<>> THEN Factored(a, b, Common(a, b)[1])
  ELSE <<"and", a, b>>

\* A || (B && C) -> A if A is one of the two.
Absorbs(a, b) == IsAnd(b) /\ \E i \in {2, 3} : pexpr_test_eq(a, b[i])

pexpr_or_share(a, b) ==
  IF pexpr_test_eq(a, b) THEN a
  ELSE IF a = False \/ b = True THEN b
  ELSE IF b = False \/ a = True \/ Absorbs(a, b) THEN a
  ELSE IF Absorbs(b, a) THEN b
  ELSE IF (IsNot(a) /\ pexpr_test_eq(a[2], b)) \/ (IsNot(b) /\ pexpr_test_eq(a, b[2]))
    THEN True
  ELSE IF IsAnd(a) /\ IsAnd(b) /\ Common(a, b) # <<>>
    THEN LET at == Common(a, b)[Len(Common(a, b))]
         IN  pexpr_and_share(a[at[1]], pexpr_or_share(a[Other(at[1])], b[Other(at[2])]))
  ELSE IF IsAnd(a) /\ IsOr(b) /\ Common(a, b) # <<>> THEN b
  ELSE IF IsOr(a) /\ IsAnd(b) /\ Common(a, b) # <<>> THEN a
  ELSE <<"or", a, b>>

\* pexpr_implies_share().
RECURSIVE pexpr_implies_share(_, _)
pexpr_implies_share(a, b) ==
  IF pexpr_test_eq(a, b) THEN True
  ELSE IF IsAnd(b) /\ pexpr_test_eq(a, b[2]) THEN pexpr_implies_share(a, b[3])
  ELSE IF IsAnd(b) /\ pexpr_test_eq(a, b[3]) THEN pexpr_implies_share(a, b[2])
  ELSE IF IsOr(b) /\ \E i \in {2, 3} : pexpr_test_eq(a, b[i]) THEN True
  ELSE IF Absorbs(b, a) THEN True
  ELSE pexpr_or_share(pexpr_not_share(a), b)

----------------------------------------------------------------------------
\* pexpr_and(), pexpr_or(), pexpr_not(), pexpr_implies(): what a formula is asked
\* for with.  Construct() makes the calls that are written down here, the inner ones
\* first, as the code does.
pexpr_and(a, b) == <<"and", a, b>>
pexpr_or(a, b) == <<"or", a, b>>
pexpr_not(a) == <<"not", a>>
pexpr_implies(a, b) == <<"implies", a, b>>

RECURSIVE Construct(_)
Construct(e) ==
  CASE IsSymbol(e) -> e
    [] IsNot(e) -> pexpr_not_share(Construct(e[2]))
    [] IsAnd(e) -> pexpr_and_share(Construct(e[2]), Construct(e[3]))
    [] IsOr(e) -> pexpr_or_share(Construct(e[2]), Construct(e[3]))
    [] OTHER -> pexpr_implies_share(Construct(e[2]), Construct(e[3]))

\* The disjunction of a list of formulas.
RECURSIVE OrList(_)
OrList(list) ==
  IF list = <<>> THEN False
  ELSE pexpr_or(OrList(SubSeq(list, 1, Len(list) - 1)), list[Len(list)])
=============================================================================
