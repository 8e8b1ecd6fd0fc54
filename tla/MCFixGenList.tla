---------------------------- MODULE MCFixGenList ----------------------------
(****************************************************************************)
(* Model checking of FixGenList: the list search against the set search.    *)
(****************************************************************************)
EXTENDS FixGenList
=============================================================================
