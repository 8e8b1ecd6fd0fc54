----------------------------- MODULE Conditions -----------------------------
(****************************************************************************)
(* Conditions in disjunctive normal form, for the modules that do not look  *)
(* at how an expression is written: a set of terms, each a set of literals  *)
(* <<s, f>> of a symbol and a function from its value to a value.           *)
(* So a symbol, its negation and its comparison with a constant are all     *)
(* literals; {} is the condition "n" and {{}} is "y" or no condition.       *)
(* Since && is the minimum and || the maximum of a chain, every expression  *)
(* over symbols has such a form.                                            *)
(****************************************************************************)
EXTENDS Tristate

\* The functions of literals: s, !s and s = t.
Is == [t \in Tri |-> t]
IsNot == [t \in Tri |-> Not(t)]
Equals(u) == [t \in Tri |-> IF t = u THEN yes ELSE no]

\* The conditions over the symbols S.
ConditionsOver(S) == SUBSET SUBSET (S \X [Tri -> Tri])

\* The value of a term and of a condition when the symbols have the values v:
\* the least of the literals, the greatest of the terms.
Least(V) == CHOOSE a \in Tri : (\A b \in V : a <= b) /\ (a = yes \/ a \in V)
Greatest(V) == CHOOSE a \in Tri : (\A b \in V : b <= a) /\ (a = no \/ a \in V)
Term(t, v) == Least({l[2][v[l[1]]] : l \in t})
expr_calc_value(c, v) == Greatest({Term(t, v) : t \in c})

\* The symbols a condition reads.
Reads(c) == UNION {{l[1] : l \in t} : t \in c}
=============================================================================
