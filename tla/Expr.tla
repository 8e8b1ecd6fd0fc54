-------------------------------- MODULE Expr --------------------------------
(****************************************************************************)
(* The expressions of Kconfig (struct expr, expr.c): what they evaluate to, *)
(* when two of them are taken to be equal, and how menu_finalize() and the  *)
(* parser rewrite them.                                                     *)
(*                                                                          *)
(* An expression is <<"sym", s>>, <<"not", a>>, <<"and", a, b>>,            *)
(* <<"or", a, b>> or a comparison <<op, s, t>> of two symbols.  "y", "m"    *)
(* and "n" are symbols too.  The hash table that makes equal expressions    *)
(* one node has no counterpart: equal expressions are equal values.         *)
(* <<"junk", s>> is the memory of the symbol s where expr_transform() takes *)
(* it for an expression.                                                    *)
(*                                                                          *)
(* Values.  A bool or a tristate has a member of Tri.  Any other symbol has *)
(* a number, or Empty for the empty string, which compares as less than any *)
(* number: strings that are no numbers are compared as text, all numbers    *)
(* here have one digit, and no text is less than the text of a digit.       *)
(****************************************************************************)
EXTENDS Integers, Sequences

CONSTANT Type   \* of the symbols: "bool", "tristate", "int" or "unknown"

no == 0
mod == 1
yes == 2
Empty == -1

symbol_yes == <<"sym", "y">>
symbol_mod == <<"sym", "m">>
symbol_no == <<"sym", "n">>

Comparisons == {"=", "!=", "<", "<=", ">", ">="}
Compares(e) == e[1] \in Comparisons
Joins(e) == e[1] \in {"and", "or"}
IsBoolean(s) == Type[s] \in {"bool", "tristate"}

expr_alloc_and(a, b) == <<"and", a, b>>
expr_alloc_or(a, b) == <<"or", a, b>>
expr_alloc_not(a) == <<"not", a>>
expr_alloc_comp(op, s, t) == <<op, s, t>>

----------------------------------------------------------------------------
\* The difference that __expr_calc_value() looks at: a tristate counts as 0, 1
\* or 2, whatever it is compared with.
Compare(op, a, b) ==
  CASE op = "="  -> a = b
    [] op = "!=" -> a # b
    [] op = "<"  -> a < b
    [] op = "<=" -> a <= b
    [] op = ">"  -> a > b
    [] op = ">=" -> a >= b

\* expr_calc_value() when the symbols have the values v.  Of a symbol taken for
\* an expression it returns, or computes, whatever lies in its memory: v has an
\* entry "junk" for that.  Only expr_transform() makes such an expression.
RECURSIVE expr_calc_value(_, _)
expr_calc_value(e, v) ==
  CASE e[1] = "sym" -> IF IsBoolean(e[2]) THEN v[e[2]] ELSE no
    [] e[1] = "junk" -> v["junk"]
    [] e[1] = "not" -> 2 - expr_calc_value(e[2], v)
    [] e[1] = "and" ->
         LET a == expr_calc_value(e[2], v)
             b == expr_calc_value(e[3], v)
         IN  IF a <= b THEN a ELSE b
    [] e[1] = "or" ->
         LET a == expr_calc_value(e[2], v)
             b == expr_calc_value(e[3], v)
         IN  IF a <= b THEN b ELSE a
    [] OTHER -> IF Compare(e[1], v[e[2]], v[e[3]]) THEN yes ELSE no

----------------------------------------------------------------------------
\* expr_eliminate_yn(): drop constants below an "and" or an "or".
RECURSIVE expr_eliminate_yn(_)
expr_eliminate_yn(e) ==
  IF ~Joins(e) THEN e
  ELSE LET l == expr_eliminate_yn(e[2])
           r == expr_eliminate_yn(e[3])
           unit == IF e[1] = "and" THEN symbol_yes ELSE symbol_no
           zero == IF e[1] = "and" THEN symbol_no ELSE symbol_yes
       IN  IF zero \in {l, r} THEN zero
           ELSE IF l = unit THEN r
           ELSE IF r = unit THEN l ELSE e

\* __expr_eliminate_eq(): what two chains of operands do not have in common.
\* expr_eliminate_eq(): as chains of the first one's connective, and then of the
\* second one's if it is another one.  expr_eq(): nothing is left of either.
RECURSIVE EliminateCommon(_, _, _), expr_eq(_, _)
EliminateCommon(op, a, b) ==
  IF a[1] = op
    THEN LET l == EliminateCommon(op, a[2], b)
             r == EliminateCommon(op, a[3], l[2])
         IN  <<<<op, l[1], r[1]>>, r[2]>>
  ELSE IF b[1] = op
    THEN LET l == EliminateCommon(op, a, b[2])
             r == EliminateCommon(op, l[1], b[3])
         IN  <<r[1], <<op, l[2], r[2]>>>>
  ELSE IF (a = b /\ a \in {symbol_yes, symbol_no}) \/ ~expr_eq(a, b) THEN <<a, b>>
  ELSE IF op = "and" THEN <<symbol_yes, symbol_yes>> ELSE <<symbol_no, symbol_no>>

expr_eliminate_eq(a, b) ==
  LET one == IF Joins(a) THEN EliminateCommon(a[1], a, b) ELSE <<a, b>>
      two == IF one[1][1] # one[2][1] /\ Joins(one[2])
               THEN EliminateCommon(one[2][1], one[1], one[2]) ELSE one
  IN  <<expr_eliminate_yn(two[1]), expr_eliminate_yn(two[2])>>

\* The mutant is content when nothing is left of the first.
NothingLeftOfFirst(rest) == rest[1] \in {symbol_yes, symbol_no}
NothingLeft(rest) == rest[1][1] = "sym" /\ rest[1] = rest[2]

expr_eq(a, b) ==
  /\ a[1] = b[1]
  /\ CASE Joins(a) -> NothingLeft(expr_eliminate_eq(a, b))
       [] a[1] = "not" -> expr_eq(a[2], b[2])
       [] OTHER -> a = b

----------------------------------------------------------------------------
\* expr_join_or() and expr_join_and(): two operands in one, or nothing.
Nothing == <<"none">>

\* The symbol an operand is about, if it is a symbol or a test of one for
\* equality, or the negation of such.  A second operand may negate a symbol
\* only.
Simple(e) == e[1] \in {"sym", "=", "!="}
About(e, isFirst) ==
  IF Simple(e) THEN e[2]
  ELSE IF e[1] = "not" /\ (IF isFirst THEN Simple(e[2]) ELSE e[2][1] = "sym") THEN e[2][2]
  ELSE "none"
Joinable(a, b) ==
  /\ About(a, TRUE) # "none"
  /\ About(a, TRUE) = About(b, FALSE)
  /\ IsBoolean(About(a, TRUE))

\* The one of "y", "m" and "n" that two others are not.
Triconst == {"y", "m", "n"}
Third(t, u) == CHOOSE w \in Triconst : w \notin {t, u}
TwoTests(a, b, op) ==
  a[1] = op /\ b[1] = op /\ {a[3], b[3]} \subseteq Triconst /\ a[3] # b[3]
Negates(a, b) == a[1] = "not" /\ a[2][1] = "sym" /\ b[1] = "sym"

expr_join_or(a, b) ==
  IF expr_eq(a, b) THEN a
  ELSE IF ~Joinable(a, b) THEN Nothing
  ELSE LET s == About(a, TRUE)
       IN  CASE Type[s] = "tristate" /\ TwoTests(a, b, "=") ->
                  expr_alloc_comp("!=", s, Third(a[3], b[3]))
             [] Type[s] = "bool" /\ (Negates(a, b) \/ Negates(b, a)) -> symbol_yes
             [] OTHER -> Nothing

\* The symbol itself and a test of it.
Both(a, b, op, t) ==
  \/ a[1] = "sym" /\ b[1] = op /\ b[3] = t
  \/ b[1] = "sym" /\ a[1] = op /\ a[3] = t
IsConst(s) == s \in Triconst \/ Type[s] = "unknown"

\* a='b' && a!='c'.  The mutant has the two outcomes swapped.
TestBothSwapped(s, is, isNot) ==
  IF is = isNot THEN expr_alloc_comp("=", s, is) ELSE symbol_no
TestBoth(s, is, isNot) == IF is # isNot THEN expr_alloc_comp("=", s, is) ELSE symbol_no

expr_join_and(a, b) ==
  IF expr_eq(a, b) THEN a
  ELSE IF ~Joinable(a, b) THEN Nothing
  ELSE LET s == About(a, TRUE)
       IN  CASE Both(a, b, "=", "y") -> expr_alloc_comp("=", s, "y")
             [] Both(a, b, "!=", "n") -> <<"sym", s>>
             [] Both(a, b, "!=", "m") -> expr_alloc_comp("=", s, "y")
             [] Type[s] # "tristate" -> Nothing
             [] a[1] = "=" /\ b[1] = "!=" /\ IsConst(a[3]) /\ IsConst(b[3]) ->
                  TestBoth(s, a[3], b[3])
             [] a[1] = "!=" /\ b[1] = "=" /\ IsConst(a[3]) /\ IsConst(b[3]) ->
                  TestBoth(s, b[3], a[3])
             [] TwoTests(a, b, "!=") -> expr_alloc_comp("=", s, Third(a[3], b[3]))
             [] OTHER -> Nothing

\* expr_eliminate_dups1(): every operand of a chain against every one of
\* another; what the join of two is goes to the place of the second.
RECURSIVE eliminate_dups1(_, _, _), expr_eliminate_dups(_)
eliminate_dups1(op, a, b) ==
  IF a[1] = op
    THEN LET l == eliminate_dups1(op, a[2], b)
             r == eliminate_dups1(op, a[3], l[2])
         IN  <<<<op, l[1], r[1]>>, r[2]>>
  ELSE IF b[1] = op
    THEN LET l == eliminate_dups1(op, a, b[2])
             r == eliminate_dups1(op, l[1], b[3])
         IN  <<r[1], <<op, l[2], r[2]>>>>
  ELSE LET j == IF op = "or" THEN expr_join_or(a, b) ELSE expr_join_and(a, b)
       IN  IF j = Nothing THEN <<a, b>>
           ELSE IF op = "or" THEN <<symbol_no, j>> ELSE <<symbol_yes, j>>

\* expr_eliminate_dups(): until nothing is joined any more.  (A join makes the
\* chain shorter, so that it changes the expression.)
DupsOnce(e) ==
  expr_eliminate_yn(
    IF ~Joins(e) THEN e
    ELSE LET lr == eliminate_dups1(e[1], expr_eliminate_dups(e[2]), expr_eliminate_dups(e[3]))
         IN  <<e[1], lr[1], lr[2]>>)
expr_eliminate_dups(e) ==
  IF DupsOnce(e) = e THEN e ELSE expr_eliminate_dups(DupsOnce(e))

----------------------------------------------------------------------------
\* expr_transform(): negations go down to the symbols and tests of a bool
\* become the bool or its negation.
Opposite(op) ==
  CASE op = "=" -> "!=" [] op = "!=" -> "="
    [] op = "<" -> ">=" [] op = ">=" -> "<"
    [] op = ">" -> "<=" [] op = "<=" -> ">"

\* A test of a bool.  A!=y becomes the negation of e->left.expr, which in a
\* comparison is no expression: e->left.sym is there, the symbol itself.
TestOfBool(e) ==
  LET equal == e[1] = "="
      test == e[3]
  IN  CASE test = "m" -> IF equal THEN symbol_no ELSE symbol_yes
        [] (equal /\ test = "y") \/ (~equal /\ test = "n") -> <<"sym", e[2]>>
        [] equal /\ test = "n" -> expr_alloc_not(<<"sym", e[2]>>)
        [] ~equal /\ test = "y" -> expr_alloc_not(<<"junk", e[2]>>)

RECURSIVE expr_transform(_)
TransformNot(a) ==
  CASE a[1] = "not" -> a[2]
    [] Compares(a) -> expr_alloc_comp(Opposite(a[1]), a[2], a[3])
    [] a[1] = "or" -> expr_transform(expr_alloc_and(expr_alloc_not(a[2]), expr_alloc_not(a[3])))
    [] a[1] = "and" -> expr_transform(expr_alloc_or(expr_alloc_not(a[2]), expr_alloc_not(a[3])))
    [] a = symbol_yes -> symbol_no
    [] a = symbol_no -> symbol_yes
    [] a = symbol_mod -> symbol_mod
    [] OTHER -> expr_alloc_not(a)

expr_transform(e) ==
  CASE Joins(e) -> <<e[1], expr_transform(e[2]), expr_transform(e[3])>>
    [] e[1] = "not" -> TransformNot(expr_transform(e[2]))
    [] e[1] \in {"=", "!="} /\ Type[e[2]] = "bool" /\ e[3] \in Triconst -> TestOfBool(e)
    [] OTHER -> e

----------------------------------------------------------------------------
\* expr_contains_symbol().
RECURSIVE expr_contains_symbol(_, _)
expr_contains_symbol(e, s) ==
  CASE Joins(e) -> expr_contains_symbol(e[2], s) \/ expr_contains_symbol(e[3], s)
    [] e[1] = "not" -> expr_contains_symbol(e[2], s)
    [] OTHER -> \E i \in 2 .. Len(e) : e[i] = s

\* expr_depends_symbol(): the expression is "n" unless s is set.
RECURSIVE expr_depends_symbol(_, _)
expr_depends_symbol(e, s) ==
  CASE e[1] = "and" -> expr_depends_symbol(e[2], s) \/ expr_depends_symbol(e[3], s)
    [] e[1] = "sym" -> e[2] = s
    [] e[1] = "=" -> e[2] = s /\ e[3] \in {"y", "m"}
    [] e[1] = "!=" -> e[2] = s /\ e[3] = "n"
    [] OTHER -> FALSE

\* expr_trans_compare(): a test of every symbol of e.
RECURSIVE expr_trans_compare(_, _, _)
expr_trans_compare(e, op, t) ==
  LET dual == IF e[1] = "and" THEN "or" ELSE "and"
      equal == <<(IF t = "n" THEN dual ELSE e[1]),
                 expr_trans_compare(e[2], "=", t), expr_trans_compare(e[3], "=", t)>>
      holds == CASE t = "y" -> e [] t = "m" -> symbol_no [] t = "n" -> expr_alloc_not(e)
      fails == CASE t = "y" -> expr_alloc_not(e) [] t = "m" -> symbol_yes [] t = "n" -> e
  IN  CASE Joins(e) -> IF op = "!=" THEN expr_alloc_not(equal) ELSE equal
        [] e[1] = "not" -> expr_trans_compare(e[2], IF op = "=" THEN "!=" ELSE "=", t)
        [] e[1] = "sym" -> expr_alloc_comp(op, e[2], t)
        [] OTHER -> IF op = "=" THEN holds ELSE fails
=============================================================================
