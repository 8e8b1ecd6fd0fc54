------------------------------ MODULE MCFixGen ------------------------------
(****************************************************************************)
(* Model checking of FixGen: every solver behaviour over a few soft         *)
(* constraints.  The elements of Soft are model values and interchangeable. *)
(****************************************************************************)
EXTENDS FixGen, TLC

Symmetry == Permutations(Soft)
=============================================================================
