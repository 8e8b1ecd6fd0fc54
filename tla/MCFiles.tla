------------------------------- MODULE MCFiles -------------------------------
(***************************************************************************)
(* Three versions of the Kconfig files.  In the first, A is a tristate     *)
(* symbol, B depends on A and N is an int; in the second B is gone and C   *)
(* has come, y unless the user says no; in the third A and B are bools and *)
(* the members of a choice, C is only mentioned and N is a hex.  Two       *)
(* objects: one reads A in its source, B, C and N in headers, and the      *)
(* rules of its .d file stand in two parts that name two sources; the      *)
(* other is Rust code that reads N.                                        *)
(***************************************************************************)
EXTENDS Files

MCSymbols == {"A", "B", "C", "N"}
MCKconfigs == {1, 2, 3}
MCTypes == <<
    [A |-> "tristate", B |-> "tristate", N |-> "int"],
    [A |-> "tristate", C |-> "bool", N |-> "int"],
    [A |-> "bool", B |-> "bool", C |-> "unknown", N |-> "hex"]>>
MCMembers == <<{}, {}, {"A", "B"}>>

MCValues == {"n", "m", "y", "1", "2", "0x2"}
MCDecimal == {"1", "2"}
MCHexadecimal == {"1", "2", "0x2"}
MCPrefixed == {"0x2"}

\* A value of the wrong type in .config is refused and the default taken.
Given(k, given, s, default) ==
    IF s \in DOMAIN given /\ Fits(MCTypes[k][s], given[s]) THEN given[s] ELSE default

\* The choice: the first of the members that are y; without one, the first of
\* those the user has not said anything about; and the last of the others.
First(S, o) == CHOOSE s \in S : \A t \in S \ {s} : <<s, t>> \in o
Last(S, o) == CHOOSE s \in S : \A t \in S \ {s} : <<t, s>> \in o
Chosen(given, o) ==
    LET ys == {s \in {"A", "B"} : Given(3, given, s, "") = "y"}
    IN CASE ys # {}                       -> First(ys, o)
         [] Given(3, given, "A", "") = "" -> "A"
         [] Given(3, given, "B", "") = "" -> "B"
         [] OTHER                         -> Last({"A", "B"}, o)

MCCalcValues(k, given, o) ==
    LET a == Given(k, given, "A", "n")
        b == IF a = "m" /\ Given(k, given, "B", "n") = "y" THEN "m" ELSE Given(k, given, "B", "n")
        belowA == IF a = "n" THEN Empty ELSE [s \in {"B"} |-> b]
    IN CASE k = 1 -> [A |-> a, N |-> Given(k, given, "N", "1")] @@ belowA
         [] k = 2 -> [A |-> a, C |-> Given(k, given, "C", "y"), N |-> Given(k, given, "N", "1")]
         [] k = 3 -> [s \in {"A", "B"} |-> IF s = Chosen(given, o) THEN "y" ELSE "n"]
                        @@ [N |-> Given(k, given, "N", "1")]

MCEntered == {
    Empty,
    [s \in {"A", "B", "N"} |-> IF s = "N" THEN "2" ELSE "y"],
    [s \in {"A"} |-> "m"],
    [s \in {"A", "C", "N"} |-> IF s = "N" THEN "0x2" ELSE "n"]}

MCObjects == {"a.o", "n.o"}
MCRust == {"n.o"}
MCDepFile == [o \in MCObjects |->
    CASE o = "a.o" -> <<<<"a.c", "b.h", "autoconf.h">>, <<"t.tmp", "c.h", "n.h">>>>
      [] o = "n.o" -> <<<<"n.rs", "lib.rmeta">>, <<"n.rs", "lib.rmeta">>>>]
MCWords == [f \in {"a.c", "b.h", "c.h", "n.h", "n.rs", "lib.rmeta", "t.tmp", "autoconf.h"} |->
    CASE f = "a.c"        -> {Word("A", FALSE), Word("A", TRUE)}
      [] f = "b.h"        -> {Word("B", FALSE), Word("B", TRUE)}
      [] f = "c.h"        -> {Word("C", FALSE)}
      [] f \in {"n.h", "n.rs"} -> {Word("N", FALSE)}
      [] f = "autoconf.h" -> {Word(s, m) : s \in MCSymbols, m \in BOOLEAN}
      [] OTHER            -> {}]
=============================================================================
