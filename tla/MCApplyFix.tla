----------------------------- MODULE MCApplyFix -----------------------------
(****************************************************************************)
(* Model checking of ApplyFix on small Kconfig programs over the symbols A, *)
(* B, S and MODULES (M).                                                    *)
(****************************************************************************)
EXTENDS ApplyFix

CONSTANTS M, A, B, S

MCSym == {M, A, B, S}

Computing == INSTANCE SymbolValues
MCValues(p, u, o) == Computing!Calculated(p, u, o)

Always == {{}}
Never == {}
Literal(s) == {{<<s, Is>>}}
Without(s) == {{<<s, IsNot>>}}

\* Three bools with prompts; modules are on.
Plain ==
  [type    |-> [s \in MCSym |-> "bool"],
   prompt  |-> [s \in MCSym |-> IF s = M THEN Never ELSE Always],
   dir_dep |-> [s \in MCSym |-> Always],
   rev_dep |-> [s \in MCSym |-> Never],
   implied |-> [s \in MCSym |-> Never],
   default |-> [s \in MCSym |-> IF s = M THEN <<[cond |-> Always, value |-> Always]>>
                                ELSE <<>>],
   choices |-> [c \in {} |-> <<>>],
   modules |-> M,
   sorted  |-> <<M, S, A, B>>]

DependsOn(p, s, c) == [p EXCEPT !.prompt[s] = c, !.dir_dep[s] = c]

\* B depends on A, which depends on S.
Chain == DependsOn(DependsOn(Plain, A, Literal(S)), B, Literal(A))

\* B and A depend on !A and !S; A has a default, on S.
Excluding == DependsOn(DependsOn(Plain, A, Without(S)), B, Without(A))
Defaulted ==
  [DependsOn(Plain, B, Without(A)) EXCEPT
     !.default[A] = <<[cond |-> Literal(S), value |-> Always]>>]

\* Tristates: B depends on A and is selected by the bool S.
Selected ==
  [DependsOn(Plain, B, Literal(A)) EXCEPT
     !.type[A] = "tristate", !.type[B] = "tristate",
     !.rev_dep[B] = Literal(S)]

\* A choice of A, which depends on S, and B; its default is A.
Choice ==
  [DependsOn(Plain, A, Literal(S)) EXCEPT
     !.choices = [c \in {"choice"} |->
        [members |-> <<A, B>>, defaults |-> <<[cond |-> Always, sym |-> A]>>]]]

MCKconfigs == {Chain, Excluding, Defaulted, Selected, Choice}

ASSUME MCConjunctive == {p \in MCKconfigs : Conjunctive(p)} = {Chain, Excluding}
=============================================================================
