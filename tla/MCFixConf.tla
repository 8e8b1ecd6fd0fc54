----------------------------- MODULE MCFixConf ------------------------------
(****************************************************************************)
(* Model checking of FixConf on small programs over three bool symbols.     *)
(****************************************************************************)
EXTENDS FixConf

CONSTANTS A, B, C, n, y

MCSym == {A, B, C}
All == [MCSym -> {n, y}]

\* A depends on B or C.
Either == {c \in All : c[A] = y => c[B] = y \/ c[C] = y}

\* A depends on B, and B on !C.
Chain == {c \in All : (c[A] = y => c[B] = y) /\ (c[B] = y => c[C] = n)}

MCPrograms == {Either, Chain}
=============================================================================
