---------------------------- MODULE KnownValues ----------------------------
(****************************************************************************)
(* The values that an int may have for the solver (cf_constraints.c): a     *)
(* fexpr stands for each of them.  See Constraints for the program.         *)
(****************************************************************************)
EXTENDS Expr, SequencesExt

CONSTANT Number   \* of a constant: the number it stands for

\* The comparisons in an expression.
RECURSIVE TestsIn(_)
TestsIn(e) ==
  CASE e[1] \in {"and", "or"} -> TestsIn(e[2]) \cup TestsIn(e[3])
    [] e[1] = "not" -> TestsIn(e[2])
    [] e[1] \in {"=", "!="} -> {<<e[2], e[3]>>}
    [] OTHER -> {}

\* Those that the formulas of prompts, dependencies and selects are made of.
TestsOfProgram(k) ==
  UNION {TestsIn(e) : e \in
    UNION {ToSet(k.prompts[s]) \cup {k.dir_dep[s]}
             \cup {x.cond : x \in ToSet(k.selects[s])} : s \in ToSet(k.symbols)}}

\* find_nonboolean_known_vals(), create_fexpr_nonbool(): every int may be 0 or
\* 1, what it is tested for, what its defaults and ranges name, and what it is
\* when the formula is built.
find_nonboolean_known_vals(k, curr) ==
  LET tests == TestsOfProgram(k)
      Tested(s) == {t \in DOMAIN Number : <<s, t>> \in tests \/ <<t, s>> \in tests}
      Named(s) ==
        UNION {{r.lo, r.hi} : r \in ToSet(k.ranges[s])}
          \cup {d.value[2] : d \in ToSet(k.defaults[s])}
  IN  [s \in {s \in ToSet(k.symbols) : Type[s] = "int"} |->
         {0, 1, curr[s]} \cup {Number[t] : t \in Tested(s)} \cup {curr[t] : t \in Named(s)}]
=============================================================================
