------------------------------ MODULE Tristate ------------------------------
(****************************************************************************)
(* The three-valued logic of Kconfig (expr.h).                              *)
(****************************************************************************)
EXTENDS Naturals

Tri == 0 .. 2
no == 0
mod == 1
yes == 2

\* EXPR_AND, EXPR_OR, EXPR_NOT.
And(a, b) == IF a <= b THEN a ELSE b
Or(a, b) == IF a <= b THEN b ELSE a
Not(a) == 2 - a
=============================================================================
