----------------------------- MODULE MCExprWalk -----------------------------
(****************************************************************************)
(* Two tristates, a bool and an int.                                        *)
(****************************************************************************)
EXTENDS ExprWalk

MCType ==
  [s \in {"y", "m", "n", "T", "U", "B", "I", "1", "2"} |->
     CASE s \in {"y", "m", "n", "T", "U"} -> "tristate"
       [] s = "B" -> "bool"
       [] s = "I" -> "int"
       [] OTHER -> "unknown"]
MCNumber == [s \in {"1", "2"} |-> IF s = "1" THEN 1 ELSE 2]
MCnb_vals == [s \in {"I"} |-> {0, 1, 2}]

\* The values of the symbols, those of the int out of a set.  What the memory of a
\* symbol holds does not depend on any bool or tristate.
Valuations(ints) ==
  {[s \in DOMAIN MCType \cup {"junk"} |->
      CASE s = "y" -> yes [] s = "m" -> mod [] s = "n" -> no
        [] s = "T" -> t
        [] s = "U" -> u
        [] s = "B" -> b
        [] s \in {"I", "junk"} -> i
        [] OTHER -> MCNumber[s]] :
   t \in 0 .. 2, u \in 0 .. 2, b \in {no, yes}, i \in ints}
MCValues == Valuations(MCnb_vals["I"])

TestsOf(s) == {<<op, s, t>> : op \in {"=", "!="}, t \in Triconst}
MCFew == {<<"sym", "T">>, <<"not", <<"sym", "B">>>>, symbol_yes}
MCSmall == MCFew \cup {<<"sym", "B">>, <<"=", "T", "m">>}
MCLeaves ==
  MCSmall \cup TestsOf("T") \cup TestsOf("B")
    \cup {<<"sym", "U">>, symbol_mod, symbol_no, <<"=", "B", "T">>}
    \cup {<<op, "T", "U">> : op \in {"=", "<", "<=", ">"}}
    \cup {<<op, "I", "1">> : op \in {"=", "<", ">="}}
=============================================================================
