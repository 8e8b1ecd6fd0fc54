------------------------------ MODULE FixConf -------------------------------
(****************************************************************************)
(* cfixconf: the command interpreter of cfixconf.c with its SIGINT handler, *)
(* run_satconf_list() and apply_fix() of configfix.c, and the search of     *)
(* FixGen, from the values the user wants to the values he gets.            *)
(*                                                                          *)
(* There is one thread; the handler may run between any two of its steps.   *)
(* The Kconfig program is the set of the configurations that can be         *)
(* entered, and setting a symbol changes no other: what a symbol does to    *)
(* the ones that depend on it is left to SymbolCalc and ApplyFix.           *)
(****************************************************************************)
EXTENDS Naturals, SequencesExt

CONSTANTS Sym, Val,
          Programs,      \* programs, each a set of configurations [Sym -> Val]
          MaxWanted,     \* bound of the model: symbols in conflict
          MaxDiagnoses

ASSUME SearchAssumption == IsFiniteSet(Sym) /\ MaxDiagnoses \in Nat \ {0}
ASSUME ProgramAssumption == Programs \subseteq SUBSET [Sym -> Val]

VARIABLES
  \* cfixconf.c
  place,          \* the place in read_loop() and handle_solve()
  conflict,       \* the wanted values: a function on a set of symbols
  fixes,          \* the fixes proposed last, a set of such functions
  new_fixes, trivial,
  interrupted, running_cf,
  \* configfix.c
  conflict_syms,
  \* the symbol engine
  config, allowed,
  \* history
  hit,            \* the handler has run while running_cf was set
  latest,         \* the fixes are those of the last run
  solved,         \* the fixes were not reported as trivial
  moved,          \* the configuration has changed since it was started
  \* the search
  consistent, pc, E, R, num_diagnoses, E0, X, todo, status, stop_fixgen

Search == INSTANCE FixGen WITH Soft <- Sym

searchVars == <<consistent, pc, E, R, num_diagnoses, E0, X, todo, status>>
flags == <<interrupted, running_cf, stop_fixgen>>
engine == <<config, allowed>>
history == <<hit, latest, solved, moved>>
lists == <<conflict, fixes, new_fixes, trivial, conflict_syms>>
vars == <<place, lists, flags, engine, history, searchVars>>

Empty == << >>
Places == {"loop", "prompt", "error", "start", "search", "returned", "check"}

\* What can be asked for or proposed: values for some symbols.
Partial == UNION {[S -> Val] : S \in SUBSET Sym}
Has(c, f) == \A s \in DOMAIN f : c[s] = f[s]

Init ==
  /\ place = "loop"
  /\ conflict = Empty /\ fixes = {} /\ new_fixes = {} /\ conflict_syms = {}
  /\ trivial = FALSE /\ solved = FALSE
  /\ interrupted = FALSE /\ running_cf = FALSE /\ stop_fixgen = FALSE
  /\ allowed \in Programs /\ config \in allowed
  /\ hit = FALSE /\ latest = FALSE /\ moved = FALSE
  /\ consistent = {} /\ pc = "done" /\ E = {} /\ R = {} /\ num_diagnoses = 0
  /\ E0 = {} /\ X = {} /\ todo = {} /\ status = "normal"

----------------------------------------------------------------------------
\* on_int(), between any two steps.  At the prompt it makes fgetc() fail.
on_int ==
  /\ interrupted' = TRUE
  /\ stop_fixgen' = (stop_fixgen \/ running_cf)
  /\ hit' = (hit \/ running_cf)
  /\ place' = IF place = "prompt" THEN "error" ELSE place
  /\ UNCHANGED <<lists, running_cf, engine, latest, solved, moved,
       searchVars>>

\* read_loop(): fgetc() waits for a line ...
Prompt ==
  /\ place = "loop"
  /\ place' = "prompt"
  /\ UNCHANGED <<lists, flags, engine, history, searchVars>>

\* ... or fails because of a signal: clearerr(), and an empty line.  The mutant
\* leaves the error, which the next fgetc() finds again.
KeepError == UNCHANGED place
ClearError == place' = "loop"

ReadError ==
  /\ place = "error"
  /\ interrupted' = FALSE
  /\ ClearError
  /\ UNCHANGED <<lists, running_cf, stop_fixgen, engine, history, searchVars>>

----------------------------------------------------------------------------
\* handle_add(): a symbol that is in conflict already gets the new value.
handle_add ==
  /\ place = "prompt"
  /\ \E s \in Sym, v \in Val :
       /\ conflict' = [t \in DOMAIN conflict \cup {s} |->
                         IF t = s THEN v ELSE conflict[t]]
       /\ Cardinality(DOMAIN conflict') <= MaxWanted
  /\ place' = "loop"
  /\ UNCHANGED <<fixes, new_fixes, trivial, conflict_syms, flags, engine, history, searchVars>>

\* handle_rm() and handle_clear().
handle_rm ==
  /\ place = "prompt"
  /\ \E S \in {{s} : s \in DOMAIN conflict} \cup {DOMAIN conflict} :
       conflict' = [t \in DOMAIN conflict \ S |-> conflict[t]]
  /\ place' = "loop"
  /\ UNCHANGED <<fixes, new_fixes, trivial, conflict_syms, flags, engine, history, searchVars>>

\* handle_open(): any other configuration.
handle_open ==
  /\ place = "prompt"
  /\ config' \in allowed
  /\ moved' = (moved \/ config' # config)
  /\ place' = "loop"
  /\ UNCHANGED <<lists, flags, allowed, hit, latest, solved, searchVars>>

----------------------------------------------------------------------------
\* sdv_within_range(): each wanted value is there or can be entered.
CanSet(c, s, v) == [c EXCEPT ![s] = v] \in allowed
sdv_within_range ==
  \A s \in DOMAIN conflict :
    config[s] = conflict[s] \/ CanSet(config, s, conflict[s])

\* handle_solve() before the run; the mutant does not reset the flag.
KeepStop == UNCHANGED stop_fixgen
ResetStop == stop_fixgen' = FALSE

handle_solve ==
  /\ place = "prompt" /\ conflict # Empty
  /\ ResetStop
  /\ place' = "start"
  /\ UNCHANGED <<lists, interrupted, running_cf, engine, history, searchVars>>

\* run_satconf_list() as far as the search; the mutant stores the conflict
\* symbols at the first run only.
StoredOnce == conflict_syms' = IF conflict_syms = {} THEN DOMAIN conflict ELSE conflict_syms
StoredSyms == conflict_syms' = DOMAIN conflict

\* The sets of current values that the solver finds consistent with the wanted
\* ones.
Consistent ==
  {S \in SUBSET Sym : \E c \in allowed :
     Has(c, conflict) /\ \A s \in S \ DOMAIN conflict : c[s] = config[s]}

\* The wanted values are the only fix: they are within range, or in conflict
\* with no other value.
NoSearch ==
  /\ place = "start"
  /\ sdv_within_range \/ Sym \in Consistent
  /\ trivial' = sdv_within_range
  /\ running_cf' = TRUE
  /\ StoredSyms
  /\ new_fixes' = {conflict}
  /\ status' = "normal"
  /\ place' = "returned"
  /\ latest' = FALSE
  /\ UNCHANGED <<conflict, fixes, interrupted, stop_fixgen, engine, hit, solved,
       moved, consistent, pc, E, R, num_diagnoses, E0, X, todo>>

StartSearch ==
  /\ place = "start"
  /\ ~sdv_within_range /\ Sym \notin Consistent
  /\ running_cf' = TRUE
  /\ StoredSyms
  /\ consistent' = Consistent /\ Search!NextRun
  /\ place' = "search"
  /\ latest' = FALSE
  /\ UNCHANGED <<conflict, fixes, new_fixes, trivial, interrupted, engine, hit,
       solved, moved>>

SearchStep ==
  /\ place = "search"
  /\ Search!Step
  /\ UNCHANGED <<place, lists, interrupted, running_cf, engine, history>>

\* convert_diagnosis(): the wanted values, and new ones for the symbols of the
\* diagnosis.
convert_diagnosis(d) ==
  {f \in [d \cup DOMAIN conflict -> Val] :
     \E c \in allowed : /\ Has(c, f) /\ Has(c, conflict)
                        /\ \A s \in Sym \ DOMAIN f : c[s] = config[s]}

\* A solution for each diagnosis.
Solutions ==
  {F \in SUBSET UNION {convert_diagnosis(d) : d \in R} :
     /\ \A d \in R : \E f \in F : f \in convert_diagnosis(d)
     /\ Cardinality(F) = Cardinality(R)}

\* The search returns: its lists are gone.
EndSearch ==
  /\ place = "search" /\ pc = "done"
  /\ new_fixes' \in Solutions
  /\ consistent' = {} /\ E' = {} /\ R' = {} /\ num_diagnoses' = 0
  /\ E0' = {} /\ X' = {} /\ todo' = {}
  /\ place' = "returned"
  /\ UNCHANGED <<conflict, fixes, trivial, conflict_syms, flags, engine, history,
       pc, status>>

\* The flag that the handler looks at goes down; a signal
\* may still come before the flags are looked at.
NotRunning == running_cf' = FALSE

Returned ==
  /\ place = "returned"
  /\ NotRunning
  /\ place' = "check"
  /\ UNCHANGED <<lists, interrupted, stop_fixgen, engine, history, searchVars>>

\* The results are dropped after an interrupt; the mutant drops them when the
\* search has noticed it.
WhenNoticed == status = "canceled"
Dropped == interrupted \/ status = "canceled"

\* The end of handle_solve(), where its variables go.
End ==
  /\ new_fixes' = {} /\ trivial' = FALSE
  /\ status' = "normal"
  /\ hit' = FALSE
  /\ place' = "loop"
  /\ UNCHANGED <<conflict, conflict_syms, running_cf, stop_fixgen,
       consistent, pc, E, R, num_diagnoses, E0, X, todo>>

Drop ==
  /\ place = "check" /\ Dropped
  /\ interrupted' = FALSE
  /\ End
  /\ UNCHANGED <<fixes, engine, latest, solved, moved>>

Propose ==
  /\ place = "check" /\ ~Dropped
  /\ fixes' = new_fixes
  /\ latest' = TRUE /\ solved' = ~trivial /\ moved' = FALSE
  /\ End
  /\ UNCHANGED <<interrupted, engine>>

----------------------------------------------------------------------------
\* apply_fix(): rounds over the list of the fix, until the conflict symbols
\* have their values.
syms_have_target_value(c, f) ==
  \A s \in DOMAIN f \cap conflict_syms : c[s] = f[s]

Applied(f, order) ==
  LET Set(c, s) == IF c[s] # f[s] /\ CanSet(c, s, f[s]) THEN [c EXCEPT ![s] = f[s]] ELSE c
      Round(c, i) == IF syms_have_target_value(c, f) THEN c ELSE FoldLeft(Set, c, order)
  IN  FoldLeft(Round, config, [i \in 1 .. 2 * Len(order) + 1 |-> i])

handle_apply ==
  /\ place = "prompt"
  /\ \E f \in fixes : \E order \in SetToSeqs(DOMAIN f) : config' = Applied(f, order)
  /\ moved' = (moved \/ config' # config)
  /\ place' = "loop"
  /\ UNCHANGED <<lists, flags, allowed, hit, latest, solved, searchVars>>

----------------------------------------------------------------------------
User == handle_add \/ handle_rm \/ handle_open \/ handle_solve \/ handle_apply

Program ==
  \/ Prompt \/ ReadError
  \/ NoSearch \/ StartSearch \/ SearchStep \/ EndSearch \/ Returned
  \/ Drop \/ Propose

Next == on_int \/ User \/ Program

\* The program runs; the user need not type anything.
Spec == Init /\ [][Next]_vars /\ WF_vars(Program)

----------------------------------------------------------------------------
\* A run is cancelled only when the user has interrupted this run: a signal
\* that came while nothing ran, or too late for the last run, is not taken for
\* a wish to stop this one (cfixconf.c:409).
CanceledOnRequest == place = "check" /\ status = "canceled" => hit

\* The results of a run that the user has interrupted are never proposed, also
\* when the search ended before it could notice.
InterruptedNotProposed == [][Propose => ~hit]_vars

With(f) == [s \in Sym |-> IF s \in DOMAIN f THEN f[s] ELSE config[s]]
Applies(f) == \A order \in SetToSeqs(DOMAIN f) : Applied(f, order) = With(f)

\* From the wish to the value, as long as no run and no change has come
\* between: whichever fix the user picks, and however its list is sorted,
\* applying it enters all of its values and nothing else.
FixApplies ==
  place = "prompt" /\ latest /\ solved /\ ~moved => \A f \in fixes : Applies(f)

\* Each command and each signal leads back to the prompt.
PromptReturns == place # "prompt" ~> place = "prompt"
=============================================================================
