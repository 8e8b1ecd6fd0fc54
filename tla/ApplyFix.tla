------------------------------ MODULE ApplyFix ------------------------------
(****************************************************************************)
(* apply_fix() in configfix.c: the symbols of a fix are set one by one, in  *)
(* the order of the list and round after round, since a value may be out of *)
(* range until another one is set.                                          *)
(*                                                                          *)
(* The fix is one that run_satconf_list() reports: the wanted values alone  *)
(* when each is in range, and else a solution.  For a solution the solver's *)
(* formula is taken to be exact and the diagnosis to be minimal, which      *)
(* FixGen shows: there is a configuration that the user can enter in which  *)
(* the symbols of the fix have its values, and every other symbol with a    *)
(* prompt the value it has now, and no smaller set of changes has one.      *)
(*                                                                          *)
(* apply_fix() runs in the GUI thread without interruption, a step for each *)
(* symbol of the list.  Whatever it reads has been computed before and      *)
(* follows from the rules: SymbolCalc is about the cache.                   *)
(****************************************************************************)
EXTENDS Conditions, Integers, SequencesExt

CONSTANTS
  Sym, Kconfigs, None,  \* see SymbolRules; a program also has its symbols
                        \* "sorted", each after those it depends on
  Loaded,   \* the configuration is as read from a .config that was written
            \* by the program: a symbol that is not visible has no entry
  MaxFix,   \* bound: the symbols of a fix
  Values(_, _, _)  \* the values of all symbols of a program when the user has
                   \* entered u and has the choices in the order o; see
                   \* SymbolValues

VARIABLES
  k, user, order, curr, modules_val,  \* see SymbolRules
  fix,               \* the list of <<symbol, value>>
  conflict_syms,     \* those the user asked for
  trivial,           \* run_satconf() has reported the fix as trivial
  edited,            \* history: the user has gone on editing since
  before,            \* history: the values when the fix was found
  pc,                \* "shown", "while", "for", then "applied" or "failed"
  tmp,               \* the copy of the list, without the symbols set
  node,              \* the place in tmp
  no_symbols_set, iterations, manually_changed

INSTANCE SymbolRules

config == <<user, order, curr, modules_val>>
list == <<tmp, node, no_symbols_set>>
counts == <<iterations, manually_changed>>
found == <<k, fix, conflict_syms, trivial, before>>
vars == <<config, list, counts, found, edited, pc>>

PromptsOf(p) == {s \in Sym : p.prompt[s] # {}}
EntriesOf(p) ==
  {u \in [Sym -> Tri \cup {NoValue}] : \A s \in Sym :
     /\ u[s] = mod => p.type[s] = "tristate"
     /\ s \notin PromptsOf(p) => u[s] = NoValue}

Prompts == PromptsOf(k)
Entries == EntriesOf(k)

\* sym_tristate_within_range().
WithinRange(s, v) ==
  LET lower == IF sym_is_choice_value(s) THEN no ELSE RevDep(s)
  IN  /\ ~(sym_get_type(s) = "bool" /\ v = mod)
      /\ lower < Visibility(s)
      /\ lower <= v /\ v <= Visibility(s)

----------------------------------------------------------------------------
\* sdv_within_range(): each wanted value is there or can be entered.
sdv_within_range(wanted) ==
  \A s \in DOMAIN wanted : wanted[s] = curr[s] \/ WithinRange(s, wanted[s])

ListOf(syms, values) == [i \in DOMAIN syms |-> <<syms[i], values[syms[i]]>>]

\* run_satconf_list(): the conflict symbols come first in a solution.
Fixes(wanted, goals) ==
  LET conflict == DOMAIN wanted
      Changed(g) == {s \in Prompts \ conflict : g[s] # curr[s]}
      good == {g \in goals : \A s \in conflict : g[s] = wanted[s]}
      minimal == {g \in good : \A h \in good :
                    Changed(h) \subseteq Changed(g) => Changed(h) = Changed(g)}
  IN  IF sdv_within_range(wanted)
        THEN {ListOf(s, wanted) : s \in SetToSeqs(conflict)}
        ELSE UNION {{ListOf(s \o t, g) : s \in SetToSeqs(conflict),
                                         t \in SetToSeqs(Changed(g))} : g \in minimal}

Init ==
  /\ k \in Kconfigs
  /\ order \in [AllChoices -> UNION {SetToSeqs(ToSet(k.choices[c].members)) : c \in AllChoices}]
  /\ \A c \in AllChoices : ToSet(order[c]) = ToSet(k.choices[c].members)
  /\ \E goals \in {{Values(k, u, order) : u \in Entries}} :
       /\ user \in Entries
       /\ curr = Values(k, user, order)
       /\ modules_val = curr[k.modules]
       /\ Loaded => \A s \in Prompts :
                      user[s] = IF Visibility(s) = no THEN NoValue ELSE curr[s]
       /\ before = curr
       /\ \E C \in SUBSET Prompts \ {{}} : \E wanted \in [C -> Tri] :
            /\ \A s \in C : wanted[s] = mod => k.type[s] = "tristate"
            /\ fix \in {f \in Fixes(wanted, goals) : Len(f) <= MaxFix}
            /\ trivial = sdv_within_range(wanted)
            /\ conflict_syms = C
  /\ edited = FALSE
  /\ pc = "shown" /\ tmp = <<>> /\ node = 1
  /\ no_symbols_set = 0 /\ iterations = 0 /\ manually_changed = 0

----------------------------------------------------------------------------
fix_size == Len(fix)

\* sym_set_tristate_value(); a choice member keeps its priority.  The mutant
\* loses the other entries.
SetOnly(s, v) ==
  LET entered == [t \in Sym |-> IF t = s THEN v ELSE NoValue]
  IN  /\ user' = entered
      /\ curr' = Values(k, entered, order)
      /\ modules_val' = curr'[k.modules]
      /\ UNCHANGED order
SetTo(s, v) ==
  /\ user' = [user EXCEPT ![s] = v]
  /\ curr' = Values(k, user', order)
  /\ modules_val' = curr'[k.modules]
  /\ UNCHANGED order

\* While the fix is shown, the user may edit the configuration.
Edit ==
  /\ pc = "shown" /\ ~edited
  /\ \E s \in Sym, v \in Tri : v # curr[s] /\ WithinRange(s, v) /\ SetTo(s, v)
  /\ edited' = TRUE
  /\ UNCHANGED <<found, list, counts, pc>>

apply_fix ==
  /\ pc = "shown"
  /\ pc' = "while" /\ tmp' = fix
  /\ UNCHANGED <<found, config, counts, edited, node, no_symbols_set>>

syms_have_target_value ==
  \A i \in DOMAIN fix : fix[i][1] \in conflict_syms => curr[fix[i][1]] = fix[i][2]

\* The bound on the rounds; the mutant allows one round.
OneRound == iterations > 0
GiveUp == iterations > fix_size * 2

While ==
  /\ pc = "while"
  /\ pc' = IF no_symbols_set >= fix_size \/ syms_have_target_value THEN "applied"
           ELSE IF GiveUp THEN "failed" ELSE "for"
  /\ node' = 1
  /\ UNCHANGED <<found, config, counts, edited, tmp, no_symbols_set>>

\* The rounds are counted; the mutant does not count them.
SameRound == UNCHANGED iterations
NextRound == iterations' = iterations + 1

EndOfRound ==
  /\ pc = "for" /\ node > Len(tmp)
  /\ pc' = "while"
  /\ NextRound
  /\ UNCHANGED <<found, config, list, edited, manually_changed>>

\* The symbol leaves tmp; or it stays there for the next round, which the
\* mutant counts as set.
ListDel == tmp' = RemoveAt(tmp, node) /\ no_symbols_set' = no_symbols_set + 1 /\ UNCHANGED node
SkipCounted == node' = node + 1 /\ no_symbols_set' = no_symbols_set + 1 /\ UNCHANGED tmp
Skip == node' = node + 1 /\ UNCHANGED <<tmp, no_symbols_set>>

SetSymbol ==
  /\ pc = "for" /\ node <= Len(tmp)
  /\ LET s == tmp[node][1]
         v == tmp[node][2]
     IN  IF curr[s] = v
           THEN ListDel /\ UNCHANGED <<config, manually_changed>>
         ELSE IF WithinRange(s, v)
           THEN ListDel /\ SetTo(s, v) /\ manually_changed' = manually_changed + 1
         ELSE Skip /\ UNCHANGED <<config, manually_changed>>
  /\ UNCHANGED <<found, iterations, edited, pc>>

Terminated == pc \in {"applied", "failed"} /\ UNCHANGED vars

Next == Edit \/ apply_fix \/ While \/ EndOfRound \/ SetSymbol \/ Terminated

\* Once called, apply_fix() runs; the user may never press the button.
Spec == Init /\ [][Next]_vars /\ WF_vars(While \/ EndOfRound \/ SetSymbol)

----------------------------------------------------------------------------
\* The fix is a solution, and the configuration still the one it is for.
Solution == ~trivial /\ ~edited

\* A solution that is applied to the configuration it was found for can be
\* applied: each round makes another value possible, whatever the order of the
\* list, so that the bound of 2 * fix_size rounds is never met.  So it is for
\* Conjunctive programs; an alternative ("depends on A || S") can bring back an
\* old entry of a symbol that has left tmp, and close the way again.
SolutionFits == Solution => pc # "failed" /\ iterations <= fix_size

\* What apply_fix() reports as applied is applied in full, though it stops
\* once the conflict symbols have their values and never looks again at a
\* symbol it has dealt with.  A symbol that is selected may be taken for set
\* and lose its value later, and so may one that depends on an alternative.
SolutionHolds ==
  Solution /\ pc = "applied" =>
    \A i \in DOMAIN fix : k.rev_dep[fix[i][1]] = {} => curr[fix[i][1]] = fix[i][2]

\* A solution changes nothing but what it names, as long as no symbol gets its
\* default when it can be seen again.
OthersKept ==
  Solution /\ pc = "applied" =>
    \A s \in Prompts :
      k.rev_dep[s] = {} /\ (\A i \in DOMAIN fix : fix[i][1] # s) => curr[s] = before[s]

\* apply_fix() ends, also when the configuration has changed under the fix.
Terminates == pc = "while" ~> pc \in {"applied", "failed"}

----------------------------------------------------------------------------
\* Programs in which nothing but the user changes a symbol that has a prompt,
\* and each prompt depends on other symbols and their negations, all of them.
Conjunctive(p) ==
  /\ DOMAIN p.choices = {}
  /\ p.modules \in Sym \ PromptsOf(p)
  /\ p.sorted \in Seq(Sym) /\ ToSet(p.sorted) = Sym
  /\ \A i \in DOMAIN p.sorted :
       Reads(p.prompt[p.sorted[i]]) \subseteq {p.sorted[j] : j \in 1 .. (i - 1)}
  /\ \A s \in Sym : /\ p.type[s] \in {"bool", "tristate"}
                     /\ p.rev_dep[s] = {} /\ p.implied[s] = {}
  /\ \A s \in PromptsOf(p) : /\ p.default[s] = <<>>
                              /\ \E t \in SUBSET (Sym \X {Is, IsNot}) : p.prompt[s] = {t}
  /\ \A s \in Sym \ PromptsOf(p) : \A d \in ToSet(p.default[s]) :
       Reads(d.cond) = {} /\ Reads(d.value) = {}

\* The rules for such a program (SymbolRules), read for a configuration v.
PromotedIn(p, v, s, t) ==
  IF t = mod /\ (p.type[s] = "bool" \/ v[p.modules] = no) THEN yes ELSE t
VisibilityIn(p, v, s) == PromotedIn(p, v, s, expr_calc_value(p.prompt[s], v))
EnteredIn(p, u, v, s) ==
  IF VisibilityIn(p, v, s) # no /\ u[s] # NoValue
    THEN PromotedIn(p, v, s, And(u[s], VisibilityIn(p, v, s))) ELSE no

\* What is computed for such a program follows the rules, and a symbol without
\* a prompt is a constant.
Computed(p) ==
  \A u \in EntriesOf(p), o \in [DOMAIN p.choices -> {<<>>}] :
    /\ Values(p, u, o) \in [Sym -> Tri]
    /\ \A s \in PromptsOf(p) : Values(p, u, o)[s] = EnteredIn(p, u, Values(p, u, o), s)
    /\ \A s \in Sym \ PromptsOf(p) :
         Values(p, u, o)[s] = Values(p, [x \in Sym |-> NoValue], o)[s]

ASSUME ValuesAssumption == \A p \in Kconfigs : Conjunctive(p) => Computed(p)
=============================================================================
