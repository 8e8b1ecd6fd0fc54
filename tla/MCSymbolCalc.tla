---------------------------- MODULE MCSymbolCalc ----------------------------
(****************************************************************************)
(* Model checking of SymbolCalc on small Kconfig programs over the symbols  *)
(* MODULES (M), A, B and S.                                                 *)
(****************************************************************************)
EXTENDS SymbolCalc

CONSTANTS M, A, B, S

MCSym == {M, A, B, S}

Always == {{}}
Never == {}
Literal(s) == {{<<s, Is>>}}

\* Symbols of type bool with a prompt that is always visible and nothing else.
Plain ==
  [type    |-> [s \in MCSym |-> "bool"],
   prompt  |-> [s \in MCSym |-> Always],
   dir_dep |-> [s \in MCSym |-> Always],
   rev_dep |-> [s \in MCSym |-> Never],
   implied |-> [s \in MCSym |-> Never],
   default |-> [s \in MCSym |-> <<>>],
   choices |-> [c \in {} |-> <<>>],
   modules |-> M]

\* A tristate B that depends on a tristate A, has a default and is selected by
\* the bool S.
Selected ==
  [Plain EXCEPT
     !.type[A] = "tristate", !.type[B] = "tristate",
     !.prompt[B] = Literal(A), !.dir_dep[B] = Literal(A),
     !.rev_dep[B] = Literal(S),
     !.default[B] = <<[cond |-> Literal(A), value |-> Always]>>]

\* A tristate without a prompt that A implies and that depends on !S; S has
\* two defaults.
ImpliedOne ==
  [Plain EXCEPT
     !.type[A] = "tristate", !.type[B] = "tristate",
     !.prompt[B] = Never, !.dir_dep[B] = {{<<S, IsNot>>}},
     !.implied[B] = Literal(A),
     !.default[S] = <<[cond |-> {{<<A, Equals(mod)>>}}, value |-> Always],
                      [cond |-> Always, value |-> Literal(M)]>>]

\* A choice of A, which depends on S, and B; its default is A.
Choice2 ==
  [Plain EXCEPT
     !.prompt[A] = Literal(S),
     !.choices = [c \in {"choice"} |->
        [members |-> <<A, B>>, defaults |-> <<[cond |-> Always, sym |-> A]>>]]]

\* A choice of A, B and S; the last two depend on MODULES, one way or other.
Choice3 ==
  [Plain EXCEPT
     !.prompt[B] = Literal(M), !.prompt[S] = {{<<M, IsNot>>}},
     !.choices = [c \in {"choice"} |->
        [members |-> <<A, B, S>>, defaults |-> <<>>]]]

MCKconfigs == {Selected, ImpliedOne, Choice2, Choice3}

\* What SavedConfigProofs assumes of them.
ASSUME MCSavable == \A p \in MCKconfigs : Savable(p)
=============================================================================
