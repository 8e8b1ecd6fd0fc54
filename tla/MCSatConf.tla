----------------------------- MODULE MCSatConf ------------------------------
(****************************************************************************)
(* Small programs: bools A, B and D, tristates T and U, an int I, a        *)
(* choice CH.                                                               *)
(****************************************************************************)
EXTENDS SatConf

MCType ==
  [s \in {"y", "m", "n", "MODULES", "A", "B", "D", "T", "U", "I", "CH", "1", "2", "3"} |->
     CASE s \in {"y", "m", "n", "T", "U"} -> "tristate"
       [] s \in {"MODULES", "A", "B", "D", "CH"} -> "bool"
       [] s = "I" -> "int"
       [] OTHER -> "unknown"]
MCNumber == [s \in {"1", "2", "3"} |-> CASE s = "1" -> 1 [] s = "2" -> 2 [] s = "3" -> 3]

Sy(s) == <<"sym", s>>
\* Symbols with a prompt and nothing else; modules are on.
Plain(syms) ==
  LET all == <<"MODULES">> \o syms
      no_list == [s \in ToSet(all) |-> <<>>]
  IN  [symbols |-> all, sorted |-> all, modules |-> "MODULES",
       prompts |-> [s \in ToSet(all) |-> IF s = "MODULES" THEN <<>> ELSE <<Nothing>>],
       dir_dep |-> [s \in ToSet(all) |-> Nothing],
       selects |-> no_list, ranges |-> no_list,
       defaults |-> [no_list EXCEPT !["MODULES"] = <<[cond |-> Nothing, value |-> symbol_yes]>>],
       choices |-> [c \in {} |-> <<>>]]
DependsOn(p, s, e) == [p EXCEPT !.prompts[s] = <<e>>, !.dir_dep[s] = e]

Dependent == DependsOn(DependsOn(Plain(<<"A", "T", "B">>), "T", Sy("A")), "B", <<"=", "T", "m">>)

\* A tristate selects one that depends on A; "option modules" has a prompt.
Selected ==
  [DependsOn(Plain(<<"A", "U", "T">>), "T", Sy("A")) EXCEPT
     !.selects["U"] = <<[sym |-> "T", cond |-> Nothing]>>,
     !.prompts["MODULES"] = <<Nothing>>]

\* A bool selects it under a condition, and it selects another bool.
SelectedIf ==
  [DependsOn(Plain(<<"A", "B", "T", "D">>), "T", Sy("A")) EXCEPT
     !.selects["B"] = <<[sym |-> "T", cond |-> Sy("A")]>>,
     !.selects["T"] = <<[sym |-> "D", cond |-> Nothing]>>,
     !.prompts["D"] = <<Sy("B")>>]

\* T has two defaults and is shown only without A; or it has two prompts.
Defaulted ==
  [Plain(<<"A", "B", "T">>) EXCEPT
     !.prompts["T"] = <<<<"not", Sy("A")>>>>,
     !.defaults["T"] = <<[cond |-> Sy("B"), value |-> symbol_mod],
                         [cond |-> Nothing, value |-> symbol_yes]>>]
Prompted ==
  [Plain(<<"U", "B", "T">>) EXCEPT
     !.prompts["T"] = <<Sy("U"), Sy("B")>>,
     !.defaults["T"] = <<[cond |-> Sy("B"), value |-> Sy("U")]>>]

\* B depends on D, which has no prompt and a default.
Hidden ==
  [DependsOn(Plain(<<"A", "D", "B">>), "B", Sy("D")) EXCEPT
     !.prompts["D"] = <<>>, !.defaults["D"] = <<[cond |-> Sy("A"), value |-> symbol_yes]>>]

\* B depends on what the int I is, whose range is another one without A.  An
\* int that has no value is read only together with what it depends on.
Ranged ==
  [DependsOn(DependsOn(Plain(<<"A", "D", "I", "B">>), "I", Sy("D")),
             "B", <<"and", Sy("D"), <<">=", "I", "2">>>>)
     EXCEPT
       !.ranges["I"] = <<[cond |-> Sy("A"), lo |-> "1", hi |-> "2"],
                         [cond |-> Nothing, lo |-> "2", hi |-> "3"]>>,
       !.defaults["I"] = <<[cond |-> Sy("D"), value |-> Sy("2")]>>]

\* A choice of A and B, D depends on the one; the choice may depend on T.
Choice ==
  [DependsOn(Plain(<<"CH", "A", "B", "D">>), "D", Sy("B")) EXCEPT
     !.sorted = <<"MODULES", "A", "B", "D">>,
     !.choices = [c \in {"CH"} |-> <<"A", "B">>]]
ChoiceIf ==
  LET p == Plain(<<"T", "CH", "A", "B">>)
  IN  [DependsOn(DependsOn(DependsOn(p, "CH", Sy("T")), "A", Sy("T")), "B", Sy("T")) EXCEPT
         !.sorted = <<"MODULES", "T", "A", "B">>,
         !.choices = [c \in {"CH"} |-> <<"A", "B">>],
         !.defaults["CH"] = <<[cond |-> Nothing, value |-> Sy("B")]>>]

MCKconfigs ==
  [n \in {"dependent", "selected", "selected_if", "defaulted", "prompted", "hidden", "ranged",
          "choice", "choice_if"} |->
     CASE n = "dependent" -> Dependent
       [] n = "selected" -> Selected
       [] n = "selected_if" -> SelectedIf
       [] n = "defaulted" -> Defaulted
       [] n = "prompted" -> Prompted
       [] n = "hidden" -> Hidden
       [] n = "ranged" -> Ranged
       [] n = "choice" -> Choice
       [] n = "choice_if" -> ChoiceIf]
=============================================================================
