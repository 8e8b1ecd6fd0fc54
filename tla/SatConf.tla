------------------------------ MODULE SatConf -------------------------------
(****************************************************************************)
(* run_satconf_list() (configfix.c) with the formula it works on: from the  *)
(* values that the user wants to the fixes that are reported.               *)
(*                                                                          *)
(* The values of the configuration are those that the rules of the engine   *)
(* give (SymbolRules), the formula is the one that is built for the program *)
(* (Constraints), and what the solver says of it is computed from its       *)
(* models.  The formula is built at the first run that needs it and then    *)
(* kept, with the values of ints that were known at that time.              *)
(*                                                                          *)
(* How the diagnoses are found is in FixGen: here they are the minimal sets *)
(* of soft literals that differ from what is assumed, of which the code     *)
(* reports the first ones.                                                  *)
(****************************************************************************)
EXTENDS PExpr, KnownValues, FiniteSetsExt

CONSTANTS
  Kconfigs,  \* the programs, by name; see Constraints.  A program also has
             \* its symbols but choices "sorted", each after those it reads
  None,      \* no symbol
  Ints,      \* bound: the numbers that an int is set to
  MaxWanted  \* bound: how many symbols are wanted

VARIABLES
  name,    \* the program
  def,     \* the values that the user has entered
  values,  \* the values of the symbols
  built,   \* the values of the ints when the formula was built; {} before
  sdv,     \* the wanted values, by symbol
  fixes,   \* what run_satconf_list() has reported: values by symbol
  pc       \* "edit", or "shown" after a run

vars == <<name, def, values, built, sdv, fixes, pc>>

NotSet == Empty
NoValue == -1
k == Kconfigs[name]

SymbolsOf(p) == ToSet(p.symbols)
Proper(p) == ToSet(p.sorted)
ChoicesOf(p) == DOMAIN p.choices
IntsOf(p) == {s \in Proper(p) : Type[s] = "int"}
PromptedOf(p) == {s \in Proper(p) : p.prompts[s] # <<>>}

----------------------------------------------------------------------------
\* (The same function, with its values computed once: TLC would do so at each use.)
Once(f) == f @@ <<>>

\* The program as SymbolRules has it: any of the prompts will do, and a symbol
\* is selected by any of its selectors under its condition (menu.c).
OrElse(list) == FoldRight(LAMBDA a, b : IF b = symbol_no THEN a ELSE expr_alloc_or(a, b), list, symbol_no)
Visible(cond) == IF cond = Nothing THEN symbol_yes ELSE cond
Selecting(p, t) ==
  LET by(s) == SelectSeq(p.selects[s], LAMBDA x : x.sym = t)
      Cond(s) == [i \in DOMAIN by(s) |-> expr_alloc_and(<<"sym", s>>, Visible(by(s)[i].cond))]
  IN  OrElse(FlattenSeq([i \in DOMAIN p.sorted |-> Cond(p.sorted[i])]))
Rules(p) ==
  [type |-> Type,
   prompt |-> [s \in SymbolsOf(p) |->
                 OrElse([i \in DOMAIN p.prompts[s] |-> Visible(p.prompts[s][i])])],
   dir_dep |-> [s \in SymbolsOf(p) |-> Visible(p.dir_dep[s])],
   rev_dep |-> [s \in SymbolsOf(p) |-> Selecting(p, s)],
   implied |-> [s \in SymbolsOf(p) |-> symbol_no],
   default |-> [s \in SymbolsOf(p) |->
                  [i \in DOMAIN p.defaults[s] |->
                     [cond |-> Visible(p.defaults[s][i].cond),
                      value |-> IF Type[s] = "int" THEN p.defaults[s][i].value[2]
                                ELSE p.defaults[s][i].value]]],
   ranges |-> [s \in SymbolsOf(p) |->
                 [i \in DOMAIN p.ranges[s] |->
                    [p.ranges[s][i] EXCEPT !.cond = Visible(@)]]],
   choices |-> [c \in ChoicesOf(p) |->
                  [members |-> p.choices[c],
                   defaults |-> [i \in DOMAIN p.defaults[c] |->
                                   [cond |-> Visible(p.defaults[c][i].cond),
                                    sym |-> p.defaults[c][i].value[2]]]]],
   modules |-> p.modules]
AllRules == Once([n \in DOMAIN Kconfigs |-> Rules(Kconfigs[n])])

Engine(r, p, u, v) ==
  INSTANCE SymbolRules WITH
    Sym <- Proper(p), k <- r, user <- u, order <- p.choices, curr <- v,
    modules_val <- v[p.modules]

\* What may be entered, and the values of the symbols then.  A choice has no
\* value of its own.
Domain(s) ==
  CASE Type[s] = "bool" -> {no, yes}
    [] Type[s] = "tristate" -> {no, mod, yes}
    [] Type[s] = "int" -> Ints
EntriesOf(p) ==
  {u \in [Proper(p) -> {NoValue, no, mod, yes} \cup Ints] :
     \A s \in Proper(p) :
       u[s] \in {NoValue} \cup (IF s \in PromptedOf(p) THEN Domain(s) ELSE {})}
Constants ==
  [s \in DOMAIN Number \cup Triconst |->
     CASE s = "y" -> yes [] s = "m" -> mod [] s = "n" -> no [] OTHER -> Number[s]]
ValuesOf(r, p, u) ==
  LET v0 == Constants @@ [s \in SymbolsOf(p) |-> no]
      computed == [v \in [DOMAIN v0 -> {no, mod, yes} \cup Ints], s \in Proper(p) |->
                     [v EXCEPT ![s] = Engine(r, p, u, v)!Value(s)]]
  IN  FoldLeft(LAMBDA v, s : computed[v, s], v0, p.sorted)
EnteredIn(r, p) == Once([u \in EntriesOf(p) |-> ValuesOf(r, p, u)])
Entered == Once([n \in DOMAIN Kconfigs |-> EnteredIn(AllRules[n], Kconfigs[n])])

\* sym_tristate_within_range(), sym_string_within_range().
RangeOf(r, s, v) ==
  IF Type[s] = "int" THEN Engine(r, k, def, values)!InRange(s, v)
  ELSE LET E == Engine(r, k, def, values)!sym_get_type(s)
           visible == Engine(r, k, def, values)!Visibility(s)
           lower == IF Engine(r, k, def, values)!sym_is_choice_value(s) THEN no
                    ELSE Engine(r, k, def, values)!RevDep(s)
       IN  /\ ~(E = "bool" /\ v = mod)
           /\ lower < visible
           /\ lower <= v /\ v <= visible
WithinRange(s, v) == RangeOf(AllRules[name], s, v)

----------------------------------------------------------------------------
\* The formula of a program when its ints have the values at: its constraints,
\* and the models of its constraints in terms of the symbols' values.
AtBuild(p, at) == Constants @@ at @@ [s \in SymbolsOf(p) |-> no]
nb_vals_of(p, at) == find_nonboolean_known_vals(p, AtBuild(p, at))
Formula(p, at_build, vals) ==
  INSTANCE Constraints WITH k <- p, curr <- at_build, nb_vals <- vals
constraints_of(p, at) == Formula(p, AtBuild(p, at), nb_vals_of(p, at))!build_constraints
FexprsOf(p, vals) ==
  [s \in SymbolsOf(p) |->
     CASE Type[s] = "bool" -> {<<"y", s>>}
       [] Type[s] = "tristate" -> {<<"y", s>>, <<"both", s>>}
       [] Type[s] = "int" -> {<<"val", s, n>> : n \in vals[s] \cup {NotSet}}]
Auxiliary(p) == {<<f, s>> : f \in {"sel_y", "sel_both", "npc"}, s \in SymbolsOf(p)}

RECURSIVE FexprsIn(_)
FexprsIn(c) == IF IsSymbol(c) THEN {c[2]} ELSE UNION {FexprsIn(c[i]) : i \in 2 .. Len(c)}
ModelsOf(p, constraints, fexprs) ==
  LET aux == Auxiliary(p) \cap UNION {FexprsIn(c) : c \in constraints}
      direct == {c \in constraints : FexprsIn(c) \cap aux = {}}
      candidates == {m \in SUBSET fexprs : \A c \in direct : Holds(c, m)}
  IN  {m \in candidates :
         \E w \in SUBSET aux : \A c \in constraints \ direct : Holds(c, m \cup w)}

\* By program and values of the ints when the formula is built.
BuiltFor(p, fexprs, constraints) ==
  [models |-> ModelsOf(p, constraints, UNION Range(fexprs)),
   fexprs |-> fexprs, constraints |-> constraints]
Built ==
  Once([n \in DOMAIN Kconfigs |->
     Once([at \in [IntsOf(Kconfigs[n]) -> Ints \cup {0}] |->
        BuiltFor(Kconfigs[n], FexprsOf(Kconfigs[n], nb_vals_of(Kconfigs[n], at)),
                 constraints_of(Kconfigs[n], at))])])
FormulaAt(b) == Built[name][CHOOSE at \in b : TRUE]

----------------------------------------------------------------------------
\* sym_nonbool_has_value_set(): it may have a value and has a prompt or a
\* default that is visible.
sym_nonbool_has_value_set(r, p, s, u, v) ==
  /\ Engine(r, p, u, v)!DirDep(s) # no
  /\ \/ Engine(r, p, u, v)!Visibility(s) # no
     \/ \E d \in ToSet(p.defaults[s]) : expr_calc_value(Visible(d.cond), v) # no

\* The fexprs that are true of a symbol with the value v.
TrueFexprs(s, v) ==
  CASE Type[s] = "bool" -> IF v = yes THEN {<<"y", s>>} ELSE {}
    [] Type[s] = "tristate" ->
         (IF v = yes THEN {<<"y", s>>} ELSE {}) \cup (IF v # no THEN {<<"both", s>>} ELSE {})
    [] Type[s] = "int" -> {<<"val", s, v>>}

\* sym_add_assumption(), fexpr_add_assumption(): the fexprs of a symbol that are
\* assumed, the others being denied; f are the fexprs there are.
ValueIn(r, p, s, u, v) ==
  IF Type[s] = "int" /\ ~sym_nonbool_has_value_set(r, p, s, u, v) THEN NotSet ELSE v[s]
Assumed(f, s, u, v) == TrueFexprs(s, ValueIn(AllRules[name], k, s, u, v)) \cap f[s]

\* sdv_within_range().
sdv_within_range(wanted) ==
  \A s \in DOMAIN wanted : wanted[s] = values[s] \/ WithinRange(s, wanted[s])

\* add_fexpr_to_constraint_set(): the symbols that may be changed.
Soft(wanted) == PromptedOf(k) \ DOMAIN wanted

\* The models that give the wanted symbols their values.
Wanting(F, wanted) ==
  {m \in F.models : \A s \in DOMAIN wanted : m \cap F.fexprs[s] = TrueFexprs(s, wanted[s])}

\* What differs from the assumptions about the soft symbols.
Differing(F, soft, assumed, m) ==
  LET f == UNION {F.fexprs[s] : s \in soft} IN SymDiff(m \cap f, assumed \cap f)
Diagnoses(F, wanted) ==
  LET soft == Soft(wanted)
      assumed == UNION {Assumed(F.fexprs, s, def, values) : s \in SymbolsOf(k)}
      differing == {Differing(F, soft, assumed, m) : m \in Wanting(F, wanted)}
  IN  {d \in differing : ~\E e \in differing : e \subseteq d /\ e # d}

\* The new value of a symbol, from one of its fexprs in the diagnosis: what was
\* assumed is false, and what was not is true.  The mutant takes every symbol
\* for a bool.
OppositeOfAssumed(e, d, assumed) == IF e \in assumed THEN no ELSE yes
calculate_new_tri_val(e, d, assumed) ==
  LET y == <<"y", e[2]>>
      both == <<"both", e[2]>>
  IN  CASE Type[e[2]] = "bool" -> IF e \in assumed THEN no ELSE yes
        [] e = y -> IF y \notin assumed THEN yes ELSE IF both \in d THEN no ELSE mod
        [] OTHER -> IF both \in assumed THEN no
                    ELSE IF (y \in assumed) = (y \in d) THEN mod ELSE yes
calculate_new_string_value(e, d, assumed) ==
  IF e \notin assumed THEN e[3] ELSE (CHOOSE f \in d : f[2] = e[2] /\ f # e)[3]
calculate_new_val(e, d, assumed) ==
  IF Type[e[2]] = "int" THEN calculate_new_string_value(e, d, assumed)
  ELSE calculate_new_tri_val(e, d, assumed)

\* convert_diagnosis(): the wanted values, and one for each symbol that has a
\* fexpr in the diagnosis, from whichever of its fexprs comes first.
convert_diagnosis(d, wanted, assumed) ==
  LET syms == {e[2] : e \in d}
  IN  {wanted @@ [s \in syms |-> calculate_new_val(first[s], d, assumed)] :
         first \in {f \in [syms -> d] : \A s \in syms : f[s][2] = s}}

\* The first solve assumes the value of every other symbol, of those without a
\* prompt and of choices too.
AllKept(F, wanted) ==
  \E m \in Wanting(F, wanted) : \A s \in SymbolsOf(k) \ DOMAIN wanted :
    m \cap F.fexprs[s] = Assumed(F.fexprs, s, def, values)
Solutions(F, wanted) ==
  LET assumed == UNION {Assumed(F.fexprs, s, def, values) : s \in SymbolsOf(k)}
  IN  IF AllKept(F, wanted) THEN {wanted}
      ELSE UNION {convert_diagnosis(d, wanted, assumed) : d \in Diagnoses(F, wanted) \ {{}}}

----------------------------------------------------------------------------
Init ==
  /\ name \in DOMAIN Kconfigs
  /\ def \in DOMAIN Entered[name]
  /\ values = Entered[name][def]
  /\ built = {}
  /\ sdv = <<>> /\ fixes = {} /\ pc = "edit"

\* A symbol is set; so is the member of a choice, and then the others are not.
Edit ==
  /\ \E s \in PromptedOf(k), v \in {no, mod, yes} \cup Ints :
       /\ v \in Domain(s)
       /\ Engine(AllRules[name], k, def, values)!Visibility(s) # no /\ WithinRange(s, v)
       /\ \A c \in ChoicesOf(k) : s \in ToSet(k.choices[c]) => v = yes
       /\ def' = [t \in Proper(k) |->
                     IF t = s THEN v
                     ELSE IF \E c \in ChoicesOf(k) : {s, t} \subseteq ToSet(k.choices[c]) THEN no
                     ELSE def[t]]
  /\ def' # def
  /\ values' = Entered[name][def']
  /\ sdv' = <<>> /\ fixes' = {} /\ pc' = "edit"
  /\ UNCHANGED <<name, built>>

\* The formula is built at the first run, with the values there are then.
AtFirstRun == IF built = {} THEN {[s \in IntsOf(k) |-> values[s]]} ELSE built

Wanted(T) == {w \in [T -> {no, mod, yes}] : \A s \in T : w[s] \in Domain(s)}
run_satconf_list ==
  /\ pc = "edit"
  /\ \E T \in SUBSET {s \in PromptedOf(k) : IsBoolean(s)} :
       /\ Cardinality(T) \in 1 .. MaxWanted
       /\ \E w \in Wanted(T) :
            /\ sdv' = w
            /\ IF sdv_within_range(w)
                 THEN fixes' = {w} /\ UNCHANGED built
                 ELSE built' = AtFirstRun /\ fixes' = Solutions(FormulaAt(AtFirstRun), w)
  /\ pc' = "shown"
  /\ UNCHANGED <<name, def, values>>

Next == Edit \/ run_satconf_list

Spec == Init /\ [][Next]_vars

----------------------------------------------------------------------------
\* A value of an int that has been entered since the formula was built and has
\* no fexpr: the formula knows nothing of it.
KnowsValues(F) ==
  \A s \in IntsOf(k) : \/ ValueIn(AllRules[name], k, s, def, values) = NotSet
                       \/ TrueFexprs(s, values[s]) \subseteq F.fexprs[s]

\* The configuration, as the formula has it: a choice is "y" when its prompt is
\* visible.
AsModel(F, u, v) ==
  UNION {Assumed(F.fexprs, s, u, v) : s \in Proper(k)}
    \cup {<<"y", c>> : c \in {c \in ChoicesOf(k) : expr_calc_value(Visible(k.prompts[c][1]), v) # no}}

\* Whatever the user enters, the configuration is a model of the formula: no
\* constraint excludes what the engine computes.
IsModelOf(F) == KnowsValues(F) => AsModel(F, def, values) \in F.models
ConfigurationIsModel == built # {} => IsModelOf(FormulaAt(built))

\* The values wanted are in conflict with the configuration, and a solution was
\* looked for.
Conflict ==
  pc = "shown" /\ built # {} /\ ~sdv_within_range(sdv) /\ KnowsValues(FormulaAt(built))

\* A fix can be realised: there is something to enter that gives each symbol of
\* the fix its value and every other symbol with a prompt the value it has now.
Seen(n, u, v) == [s \in PromptedOf(Kconfigs[n]) |-> ValueIn(AllRules[n], Kconfigs[n], s, u, v)]
AllSeen == Once([n \in DOMAIN Kconfigs |-> LET E == Entered[n] IN {Seen(n, u, E[u]) : u \in DOMAIN E}])
FixRealizable ==
  Conflict => \A fix \in fixes : fix @@ Seen(name, def, values) \in AllSeen[name]

\* "Calculate Fixes" for a conflict: if the wanted values can be had at all, a
\* solution is reported, when every symbol that can change has a prompt and there
\* is no choice.
Attainable == \E v \in AllSeen[name] : \A s \in DOMAIN sdv : v[s] = sdv[s]
AllPrompted ==
  \A s \in Proper(k) \ PromptedOf(k) : \A d \in ToSet(k.defaults[s]) :
    d.cond = Nothing /\ d.value \in {symbol_yes, symbol_mod}
SolutionForConflict ==
  Conflict /\ Attainable /\ AllPrompted /\ ChoicesOf(k) = {} => fixes # {}
=============================================================================
