---------------------------- MODULE SymbolValues ----------------------------
(****************************************************************************)
(* The values of all symbols of a program at once: sym_calc_value() for     *)
(* each symbol after those that it depends on, from the rules of            *)
(* SymbolRules.  SymbolCalc is about the order in which the code computes   *)
(* them and about the cache, this module about what comes out.              *)
(****************************************************************************)
EXTENDS Conditions, SequencesExt

CONSTANTS Sym, None  \* see SymbolRules

Rules(p, u, o, v) == INSTANCE SymbolRules WITH k <- p, user <- u, order <- o, curr <- v,
                                               modules_val <- v[p.modules]

Calculated(p, u, o) ==
  LET computed == [v \in [Sym -> Tri], s \in Sym |->
                     [v EXCEPT ![s] = Rules(p, u, o, v)!Value(s)]]
      Compute(v, s) == computed[v, s]
  IN  FoldLeft(Compute, [s \in Sym |-> no], p.sorted)
=============================================================================
