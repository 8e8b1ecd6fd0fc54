-------------------------------- MODULE Cnf --------------------------------
(****************************************************************************)
(* The clauses that PicoSAT gets for a formula (cf_utils.c).                *)
(*                                                                          *)
(* A literal is <<v, sign>> of a variable: a fexpr, or the formula that a   *)
(* temporary variable stands for.  A formula that occurs twice has one      *)
(* variable here; the code shares it when the two are the same node.        *)
(*                                                                          *)
(* picosat_add() takes one literal after the other and a zero at the end of *)
(* a clause.  What is given to it is a list of writes: literals, and whether*)
(* a zero follows.                                                          *)
(****************************************************************************)
EXTENDS PExpr, SequencesExt

Neg(l) == <<l[1], ~l[2]>>
Clause(lits) == [lits |-> lits, end |-> TRUE]

RECURSIVE pexpr_is_cnf(_), Literal(_), unfold_cnf_clause(_)
RECURSIVE build_cnf_tseytin_tmp(_), build_cnf_tseytin(_)

\* pexpr_is_cnf(): the formula is a clause.
pexpr_is_cnf(e) ==
  \/ IsSymbol(e)
  \/ IsNot(e) /\ IsSymbol(e[2])
  \/ IsOr(e) /\ pexpr_is_cnf(e[2]) /\ pexpr_is_cnf(e[3])

\* satval of a formula: its literal.
Literal(e) ==
  CASE IsSymbol(e) -> <<e[2], TRUE>>
    [] IsNot(e) -> Neg(Literal(e[2]))
    [] OTHER -> <<e, TRUE>>

\* unfold_cnf_clause(): the literals of a formula that is a clause.
unfold_cnf_clause(e) ==
  IF IsOr(e) THEN unfold_cnf_clause(e[2]) \cup unfold_cnf_clause(e[3])
  ELSE {Literal(e)}

\* build_cnf_tseytin_and() and build_cnf_tseytin_or(): c stands for a && b, or
\* for a || b.  The mutant lets c be true when b is not.
DefineAndHalf(a, b, c) == <<Clause({Neg(a), Neg(b), c}), Clause({a, Neg(c)})>>
DefineAnd(a, b, c) ==
  <<Clause({Neg(a), Neg(b), c}), Clause({a, Neg(c)}), Clause({b, Neg(c)})>>
DefineOr(a, b, c) ==
  <<Clause({a, b, Neg(c)}), Clause({Neg(a), c}), Clause({Neg(b), c})>>

\* build_cnf_tseytin_tmp(): what the variables of a formula mean.
build_cnf_tseytin_tmp(e) ==
  CASE IsSymbol(e) -> <<>>
    [] IsNot(e) -> build_cnf_tseytin_tmp(e[2])
    [] OTHER ->
         build_cnf_tseytin_tmp(e[2]) \o build_cnf_tseytin_tmp(e[3])
           \o (IF IsAnd(e) THEN DefineAnd(Literal(e[2]), Literal(e[3]), Literal(e))
               ELSE DefineOr(Literal(e[2]), Literal(e[3]), Literal(e)))

\* build_cnf_tseytin_top_and(): an operand that is a clause is written without
\* the zero at its end.
TopAnd(e) ==
  LET Operand(a) ==
        IF pexpr_is_cnf(a) THEN <<[lits |-> unfold_cnf_clause(a), end |-> FALSE]>>
        ELSE build_cnf_tseytin(a)
  IN  Operand(e[2]) \o Operand(e[3])

\* build_cnf_tseytin().
build_cnf_tseytin(e) ==
  IF IsAnd(e) THEN TopAnd(e)
  ELSE IF IsOr(e)
    THEN build_cnf_tseytin_tmp(e[2]) \o build_cnf_tseytin_tmp(e[3])
           \o <<Clause({Literal(e[2]), Literal(e[3])})>>
  ELSE build_cnf_tseytin_tmp(e) \o <<Clause({Literal(e)})>>

\* create_constants() and construct_cnf_clauses(): the constants, then one
\* constraint after the other.
Constraint(e) ==
  IF pexpr_is_cnf(e) THEN <<Clause(unfold_cnf_clause(e))>> ELSE build_cnf_tseytin(e)
construct_cnf_clauses(list) ==
  <<Clause({<<const_false, FALSE>>}), Clause({<<const_true, TRUE>>})>>
    \o FlattenSeq([i \in DOMAIN list |-> Constraint(list[i])])

----------------------------------------------------------------------------
\* The clauses that PicoSAT has seen the end of.
Closed(writes) ==
  FoldLeft(LAMBDA acc, w :
             IF w.end THEN [open |-> {}, closed |-> acc.closed \cup {acc.open \cup w.lits}]
             ELSE [acc EXCEPT !.open = @ \cup w.lits],
           [open |-> {}, closed |-> {}], writes).closed

\* The assignments of the variables fexprs that some assignment of the others
\* makes a model of the clauses.
Models(clauses, fexprs) ==
  LET others == {l[1] : l \in UNION clauses} \ fexprs
      Satisfied(v) == \A c \in clauses : \E l \in c : (l[1] \in v) = l[2]
  IN  {v \in SUBSET fexprs : \E w \in SUBSET others : Satisfied(v \cup w)}
=============================================================================
