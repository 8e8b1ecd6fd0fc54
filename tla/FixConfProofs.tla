---------------------------- MODULE FixConfProofs ----------------------------
(****************************************************************************)
(* Proofs about cfixconf, for every finite set of symbols, every program,   *)
(* every number of wanted values and every moment at which the handler may  *)
(* run: whose run a signal ends, and that the fixes a user is shown are the *)
(* minimal ones the search has found.                                       *)
(****************************************************************************)
EXTENDS FixConf, FiniteSetTheorems, TLAPS

\* The stations of handle_solve() where a run is under way or to be judged.
Judged == {"search", "returned", "check"}

\* The flag of the handler is up while run_satconf_list() runs.  The request to
\* stop, a cancelled search and the note of the handler all belong to the run
\* that is there: the flag is lowered before a run, and the note after it.
Signals ==
  /\ place \in Places
  /\ running_cf <=> place \in {"search", "returned"}
  /\ stop_fixgen /\ place \in {"start", "search"} => hit
  /\ status = "canceled" /\ place \in Judged => hit
  /\ hit => interrupted /\ place \in Judged

LEMMA InitSignals == Init => Signals
  BY DEF Init, Signals, Places, Judged

\* What a step of the search does to the flags.
LEMMA SearchStepFlags ==
  ASSUME Search!Step
  PROVE  /\ stop_fixgen' => stop_fixgen
         /\ status' = "canceled" => status = "canceled" \/ stop_fixgen
BY DEF Search!Step, Search!SolveSat, Search!SolveUnsat, Search!Exhausted, Search!Timeout,
       Search!Cancel, Search!GetCore, Search!MinimiseOne, Search!MinimiseEnd,
       Search!ExpandOne, Search!ExpandEnd, Search!search

LEMMA NextSignals == ASSUME Signals, [Next]_vars PROVE Signals'
<1> USE DEF Signals, Judged, Places
<1>1. CASE on_int
  BY <1>1 DEF on_int, searchVars
<1>2. CASE Prompt
  BY <1>2 DEF Prompt, flags, history, searchVars
<1>3. CASE ReadError
  BY <1>3 DEF ReadError, ClearError, history, searchVars
<1>4. CASE handle_add \/ handle_rm
  BY <1>4 DEF handle_add, handle_rm, flags, history, searchVars
<1>5. CASE handle_open \/ handle_apply
  BY <1>5 DEF handle_open, handle_apply, flags, searchVars
<1>6. CASE handle_solve
  BY <1>6 DEF handle_solve, ResetStop, history, searchVars
<1>7. CASE NoSearch
  BY <1>7 DEF NoSearch
<1>8. CASE StartSearch
  BY <1>8 DEF StartSearch, Search!NextRun
<1>9. CASE SearchStep
  BY <1>9, SearchStepFlags DEF SearchStep, history
<1>10. CASE EndSearch
  BY <1>10 DEF EndSearch, flags, history
<1>11. CASE Returned
  BY <1>11 DEF Returned, NotRunning, history, searchVars
<1>12. CASE Drop
  BY <1>12 DEF Drop, End
<1>13. CASE Propose
  BY <1>13 DEF Propose, End
<1>14. CASE UNCHANGED vars
  BY <1>14 DEF vars, flags, history, searchVars
<1> QED
  BY <1>1, <1>2, <1>3, <1>4, <1>5, <1>6, <1>7, <1>8, <1>9, <1>10, <1>11, <1>12, <1>13, <1>14
  DEF Next, User, Program

\* A signal ends the run it was sent to and no other (cfixconf.c:407-420).
THEOREM CanceledByItsSignal == Spec => []CanceledOnRequest
<1>1. Init => Signals
  BY InitSignals
<1>2. Signals /\ [Next]_vars => Signals'
  BY NextSignals
<1>3. Signals => CanceledOnRequest
  BY DEF Signals, CanceledOnRequest, Judged
<1> QED
  BY <1>1, <1>2, <1>3, PTL DEF Spec

\* The results of a run that got a signal are dropped, whether or not the search
\* noticed (cfixconf.c:413-420).
THEOREM InterruptedDropped == Spec => InterruptedNotProposed
<1>1. Init => Signals
  BY InitSignals
<1>2. Signals /\ [Next]_vars => Signals'
  BY NextSignals
<1>3. Signals => [Propose => ~hit]_vars
  BY DEF Signals, Propose, Dropped
<1> QED
  BY <1>1, <1>2, <1>3, PTL DEF Spec, InterruptedNotProposed

\* A fix enters the wanted values and, of the other symbols, exactly those that
\* it names: there is a configuration that differs from the one there is in them
\* alone, and none that has the wanted values and differs in fewer.
Differing(c) == {s \in Sym \ conflict_syms : c[s] # config[s]}
Minimal(f) ==
  /\ \E c \in allowed : Has(c, f) /\ \A s \in Sym \ DOMAIN f : c[s] = config[s]
  /\ \A c \in allowed :
       /\ \A s \in conflict_syms : c[s] = f[s]
       /\ Differing(c) \subseteq DOMAIN f \ conflict_syms
       => Differing(c) = DOMAIN f \ conflict_syms

\* What the search promises about sets of soft constraints reaches the user: the
\* fixes he is shown change no symbol without need, whatever became of other
\* runs, as long as the configuration is the one they were found for.
FixMinimal == latest /\ solved /\ ~moved => \A f \in fixes : Minimal(f)

----------------------------------------------------------------------------
(* The fixes: what FixGen promises holds of the search that cfixconf runs.  *)

SearchProofs == INSTANCE FixGenProofs WITH Soft <- Sym

LEMMA SearchSame ==
  /\ Search!Step => SearchProofs!Step
  /\ Search!NextRun => SearchProofs!NextRun
<1> USE DEF Search!Sat, SearchProofs!Sat, Search!search, SearchProofs!search
<1>1. Search!SolveSat => SearchProofs!SolveSat
  BY DEF Search!SolveSat, SearchProofs!SolveSat, Search!Keep, SearchProofs!Keep,
         Search!LimitReached, SearchProofs!LimitReached
<1>2. /\ Search!SolveUnsat => SearchProofs!SolveUnsat
      /\ Search!Exhausted => SearchProofs!Exhausted
      /\ Search!Timeout => SearchProofs!Timeout
      /\ Search!Cancel => SearchProofs!Cancel
      /\ Search!GetCore => SearchProofs!GetCore
  BY DEF Search!SolveUnsat, SearchProofs!SolveUnsat, Search!Exhausted, SearchProofs!Exhausted,
         Search!Timeout, SearchProofs!Timeout, Search!Cancel, SearchProofs!Cancel,
         Search!GetCore, SearchProofs!GetCore
<1>3. /\ Search!MinimiseOne => SearchProofs!MinimiseOne
      /\ Search!MinimiseEnd => SearchProofs!MinimiseEnd
  BY DEF Search!MinimiseOne, SearchProofs!MinimiseOne, Search!MinimiseEnd,
         SearchProofs!MinimiseEnd, Search!Minimised, SearchProofs!Minimised,
         Search!HasLength1, SearchProofs!HasLength1
<1>4. /\ Search!ExpandOne => SearchProofs!ExpandOne
      /\ Search!ExpandEnd => SearchProofs!ExpandEnd
  BY DEF Search!ExpandOne, SearchProofs!ExpandOne, Search!ExpandEnd, SearchProofs!ExpandEnd,
         Search!Extensions, SearchProofs!Extensions, Search!Others, SearchProofs!Others
<1>5. Search!NextRun => SearchProofs!NextRun
  BY DEF Search!NextRun, SearchProofs!NextRun, Search!Solvers, SearchProofs!Solvers
<1> QED
  BY <1>1, <1>2, <1>3, <1>4, <1>5 DEF Search!Step, SearchProofs!Step

\* Between two runs nothing is left of the search.
Idle ==
  /\ consistent = {} /\ pc = "done" /\ E = {} /\ R = {} /\ num_diagnoses = 0
  /\ E0 = {} /\ X = {} /\ todo = {}
  /\ status \in SearchProofs!Statuses /\ stop_fixgen \in BOOLEAN

LEMMA IdleInv == Idle => SearchProofs!IInv
<1> SUFFICES ASSUME Idle PROVE SearchProofs!IInv
  OBVIOUS
<1> USE DEF Idle
<1>1. SearchProofs!TypeOK
  <2>1. {} \in SearchProofs!Solvers
    BY DEF SearchProofs!Solvers
  <2>2. 0 \in 0 .. MaxDiagnoses
    BY SearchAssumption
  <2> QED
    BY <2>1, <2>2 DEF SearchProofs!TypeOK, SearchProofs!Places
<1>2. SearchProofs!CorrectionSets = {}
  BY DEF SearchProofs!CorrectionSets, SearchProofs!Sat
<1>3. SearchProofs!Antichain /\ SearchProofs!NothingLost /\ SearchProofs!Sound
  BY <1>2 DEF SearchProofs!Antichain, SearchProofs!NothingLost, SearchProofs!Sound
<1>4. SearchProofs!NoConflict /\ SearchProofs!CoreInv /\ SearchProofs!Progress
  BY DEF SearchProofs!NoConflict, SearchProofs!CoreInv, SearchProofs!Progress, SearchProofs!Sat
<1>5. SearchProofs!Counted
  <2>1. IsFiniteSet({}) /\ Cardinality({}) = 0
    BY FS_EmptySet
  <2>2. SearchProofs!IsFiniteSet({}) /\ SearchProofs!Cardinality({}) = 0
    BY <2>1 DEF IsFiniteSet, SearchProofs!IsFiniteSet, Cardinality, SearchProofs!Cardinality
  <2> QED
    BY <2>2 DEF SearchProofs!Counted, SearchProofs!CounterExact
<1> QED
  BY <1>1, <1>3, <1>4, <1>5 DEF SearchProofs!IInv

LEMMA IdleNext == Idle' => SearchProofs!IInv'
  BY IdleInv, PTL

\* A step of FixGen is one here.
LEMMA SearchKept ==
  ASSUME SearchProofs!IInv,
         Search!Step \/ Search!NextRun \/ Search!Interrupt
           \/ UNCHANGED <<searchVars, stop_fixgen>>
  PROVE  SearchProofs!IInv'
<1>1. Search!Interrupt => SearchProofs!Interrupt
  BY DEF Search!Interrupt, SearchProofs!Interrupt, Search!search, SearchProofs!search
<1>2. [SearchProofs!Next]_(SearchProofs!vars)
  BY <1>1, SearchSame DEF SearchProofs!Next, SearchProofs!vars, searchVars
<1> QED
  BY <1>2, SearchProofs!NextInv, SearchAssumption DEF IsFiniteSet, SearchProofs!IsFiniteSet

\* The reset of the flag before a run is the one step that FixGen does not have:
\* its invariant does not look at it.
LEMMA FlagKept ==
  ASSUME SearchProofs!IInv, UNCHANGED searchVars, stop_fixgen' \in BOOLEAN
  PROVE  SearchProofs!IInv'
BY DEF searchVars, SearchProofs!IInv, SearchProofs!TypeOK, SearchProofs!Antichain,
       SearchProofs!NothingLost, SearchProofs!Sound, SearchProofs!NoConflict,
       SearchProofs!CoreInv, SearchProofs!Progress, SearchProofs!Counted,
       SearchProofs!CounterExact, SearchProofs!CorrectionSets, SearchProofs!Sat,
       SearchProofs!HasLength1

SearchInv ==
  /\ SearchProofs!IInv
  /\ place # "search" => Idle

LEMMA InitSearch == Init => SearchInv
  BY IdleInv DEF Init, Idle, SearchProofs!Statuses, SearchInv

LEMMA NextSearch == ASSUME SearchInv, [Next]_vars PROVE SearchInv'
<1>1. stop_fixgen \in BOOLEAN /\ status \in SearchProofs!Statuses
  BY DEF SearchInv, SearchProofs!IInv, SearchProofs!TypeOK
<1>2. CASE on_int \/ handle_solve
  <2>1. /\ stop_fixgen' \in BOOLEAN /\ UNCHANGED searchVars
        /\ place' # "search" => place # "search"
    <3>1. CASE on_int
      BY <3>1 DEF on_int
    <3>2. CASE handle_solve
      BY <3>2 DEF handle_solve, ResetStop
    <3> QED
      BY <1>2, <3>1, <3>2
  <2>2. SearchProofs!IInv'
    BY <2>1, FlagKept DEF SearchInv
  <2> QED
    BY <2>1, <2>2 DEF SearchInv, Idle, searchVars
<1>3. CASE StartSearch \/ SearchStep
  <2>1. place' = "search" /\ (Search!NextRun \/ Search!Step)
    BY <1>3 DEF StartSearch, SearchStep
  <2> QED
    BY <2>1, SearchKept DEF SearchInv
<1>4. CASE EndSearch \/ NoSearch \/ Drop \/ Propose
  <2>1. EndSearch => Idle'
    BY <1>1 DEF EndSearch, flags, Idle
  <2>2. NoSearch => Idle'
    BY <1>1 DEF NoSearch, SearchInv, Idle, SearchProofs!Statuses
  <2>3. Drop \/ Propose => Idle'
    BY <1>1 DEF Drop, Propose, End, SearchInv, Idle, SearchProofs!Statuses
  <2>4. Idle'
    BY <1>4, <2>1, <2>2, <2>3
  <2> QED
    BY <2>4, IdleNext DEF SearchInv
<1>5. CASE \/ Prompt \/ ReadError \/ handle_add \/ handle_rm \/ handle_open \/ handle_apply
           \/ Returned \/ UNCHANGED vars
  <2>1. UNCHANGED <<searchVars, stop_fixgen>> /\ (place' # "search" => place # "search")
    BY <1>5
    DEF Prompt, ReadError, handle_add, handle_rm, handle_open, handle_apply, Returned, vars, flags
  <2> QED
    BY <2>1, SearchKept DEF SearchInv, Idle, searchVars
<1> QED
  BY <1>2, <1>3, <1>4, <1>5 DEF Next, User, Program

----------------------------------------------------------------------------
\* While the search runs, its constraints are those of the wish, of which the
\* symbols are noted; what it returns is minimal, and so is what is shown.
Wishes ==
  /\ allowed \in Programs
  /\ DOMAIN conflict \subseteq Sym
  /\ place = "search" => consistent = Consistent /\ conflict_syms = DOMAIN conflict
  /\ place \in {"returned", "check"} /\ ~trivial => \A f \in new_fixes : Minimal(f)
  /\ FixMinimal

\* A diagnosis names symbols that are not wanted, and all that must change.
LEMMA DiagnosisExact ==
  ASSUME consistent = Consistent, NEW d \in Search!MinimalCorrectionSets
  PROVE  /\ d \subseteq Sym
         /\ d \cap DOMAIN conflict = {}
         /\ \A c \in allowed :
              Has(c, conflict) /\ {s \in Sym \ DOMAIN conflict : c[s] # config[s]} \subseteq d
                => {s \in Sym \ DOMAIN conflict : c[s] # config[s]} = d
<1> USE DEF Search!MinimalCorrectionSets, Search!CorrectionSets, Search!Sat, Consistent
<1>1. d \subseteq Sym
  OBVIOUS
<1>2. PICK c \in allowed :
        Has(c, conflict) /\ \A s \in (Sym \ d) \ DOMAIN conflict : c[s] = config[s]
  OBVIOUS
<1>3. d \ DOMAIN conflict = d
  <2>1. \A s \in (Sym \ (d \ DOMAIN conflict)) \ DOMAIN conflict : c[s] = config[s]
    BY <1>2
  <2>2. Sym \ (d \ DOMAIN conflict) \in Consistent
    BY <1>2, <2>1
  <2> QED
    BY <1>1, <2>2
<1>4. ASSUME NEW b \in allowed, Has(b, conflict),
             {s \in Sym \ DOMAIN conflict : b[s] # config[s]} \subseteq d
      PROVE  {s \in Sym \ DOMAIN conflict : b[s] # config[s]} = d
  <2> DEFINE D == {s \in Sym \ DOMAIN conflict : b[s] # config[s]}
  <2>1. \A s \in (Sym \ D) \ DOMAIN conflict : b[s] = config[s]
    OBVIOUS
  <2>2. Sym \ D \in Consistent /\ D \subseteq Sym
    BY <1>4, <2>1
  <2> HIDE DEF D
  <2>3. D \subseteq d
    BY <1>4 DEF D
  <2>4. D = d
    BY <2>2, <2>3
  <2> QED
    BY <2>4 DEF D
<1> QED
  BY <1>1, <1>3, <1>4

\* What becomes of a diagnosis is a fix that is minimal.
LEMMA ConvertedMinimal ==
  ASSUME consistent = Consistent, conflict_syms = DOMAIN conflict,
         DOMAIN conflict \subseteq Sym,
         NEW d \in Search!MinimalCorrectionSets, NEW f \in convert_diagnosis(d)
  PROVE  Minimal(f)
<1>1. /\ d \subseteq Sym
      /\ d \cap DOMAIN conflict = {}
      /\ \A c \in allowed :
           Has(c, conflict) /\ {s \in Sym \ DOMAIN conflict : c[s] # config[s]} \subseteq d
             => {s \in Sym \ DOMAIN conflict : c[s] # config[s]} = d
  BY DiagnosisExact
<1>2. PICK c \in allowed :
        Has(c, f) /\ Has(c, conflict) /\ \A s \in Sym \ DOMAIN f : c[s] = config[s]
  BY DEF convert_diagnosis
<1>3. DOMAIN f = d \cup DOMAIN conflict
  BY DEF convert_diagnosis
<1>4. \A s \in DOMAIN conflict : f[s] = conflict[s]
  BY <1>2, <1>3 DEF Has
<1>5. DOMAIN f \ conflict_syms = d
  BY <1>1, <1>3
<1>6. ASSUME NEW b \in allowed, \A s \in conflict_syms : b[s] = f[s],
             Differing(b) \subseteq DOMAIN f \ conflict_syms
      PROVE  Differing(b) = DOMAIN f \ conflict_syms
  <2>1. Has(b, conflict)
    BY <1>4, <1>6 DEF Has
  <2> QED
    BY <1>1, <1>5, <1>6, <2>1 DEF Differing
<1> QED
  BY <1>2, <1>6 DEF Minimal

LEMMA InitWishes == Init => Wishes
  BY DEF Init, Wishes, FixMinimal, Empty

\* What is shown stays minimal while the configuration and the noted symbols do.
LEMMA WishesKept ==
  ASSUME Wishes, UNCHANGED <<engine, conflict_syms>>,
         UNCHANGED <<fixes, latest, solved, moved>> \/ ~latest'
  PROVE  FixMinimal'
<1>1. \A f : Minimal(f)' = Minimal(f)
  BY DEF Minimal, Differing, Has, engine
<1> QED
  BY <1>1 DEF Wishes, FixMinimal

LEMMA NextWishes ==
  ASSUME Signals, SearchInv, Wishes, [Next]_vars
  PROVE  Wishes'
<1>1. CASE on_int \/ Prompt \/ ReadError \/ handle_solve \/ Returned \/ UNCHANGED vars
  <2>1. UNCHANGED <<lists, engine, latest, solved, moved, consistent>>
    BY <1>1 DEF on_int, Prompt, ReadError, handle_solve, Returned, vars, lists, engine,
                history, searchVars
  <2>2. /\ place' = "search" => place = "search"
        /\ place' \in {"returned", "check"} => place \in {"returned", "check"}
    BY <1>1 DEF on_int, Prompt, ReadError, ClearError, handle_solve, Returned, vars
  <2>3. \A f : Minimal(f)' = Minimal(f)
    BY <2>1 DEF Minimal, Differing, Has, engine, lists
  <2>4. Consistent' = Consistent
    BY <2>1 DEF Consistent, Has, engine, lists
  <2> QED
    BY <2>1, <2>2, <2>3, <2>4 DEF Wishes, FixMinimal, engine, lists
<1>2. CASE handle_add \/ handle_rm
  <2>1. UNCHANGED <<fixes, new_fixes, trivial, conflict_syms, engine, latest, solved, moved>>
        /\ place' = "loop"
    BY <1>2 DEF handle_add, handle_rm, history
  <2>2. DOMAIN conflict' \subseteq Sym
    BY <1>2 DEF handle_add, handle_rm, Wishes
  <2>3. FixMinimal'
    BY <2>1, WishesKept
  <2> QED
    BY <2>1, <2>2, <2>3 DEF Wishes, engine
<1>3. CASE handle_open \/ handle_apply
  <2>1. UNCHANGED <<lists, allowed, latest, solved>> /\ place' = "loop"
        /\ moved' = (moved \/ config' # config)
    BY <1>3 DEF handle_open, handle_apply
  <2>2. CASE config' = config
    <3>1. \A f : Minimal(f)' = Minimal(f)
      BY <2>1, <2>2 DEF Minimal, Differing, Has, lists
    <3> QED
      BY <2>1, <2>2, <3>1 DEF Wishes, FixMinimal, lists
  <2>3. CASE config' # config
    BY <2>1, <2>3 DEF Wishes, FixMinimal, lists
  <2> QED
    BY <2>2, <2>3
<1>4. CASE NoSearch
  <2>1. /\ ~latest' /\ place' = "returned" /\ UNCHANGED <<engine, conflict>>
        /\ conflict_syms' = DOMAIN conflict /\ new_fixes' = {conflict}
        /\ trivial' = sdv_within_range
        /\ sdv_within_range \/ Sym \in Consistent
    BY <1>4 DEF NoSearch, StoredSyms
  <2>2. ASSUME ~trivial' PROVE Minimal(conflict)'
    <3>1. PICK c \in allowed :
            Has(c, conflict) /\ \A s \in Sym \ DOMAIN conflict : c[s] = config[s]
      BY <2>1, <2>2 DEF Consistent
    <3>2. DOMAIN conflict \ conflict_syms' = {}
      BY <2>1
    <3> QED
      BY <2>1, <3>1, <3>2 DEF Minimal, Has, engine
  <2> QED
    BY <2>1, <2>2 DEF Wishes, FixMinimal, engine
<1>5. CASE StartSearch
  <2>1. /\ ~latest' /\ place' = "search" /\ UNCHANGED <<engine, conflict>>
        /\ conflict_syms' = DOMAIN conflict /\ consistent' = Consistent
    BY <1>5 DEF StartSearch, StoredSyms
  <2>2. Consistent' = Consistent
    BY <2>1 DEF Consistent, Has, engine
  <2> QED
    BY <2>1, <2>2 DEF Wishes, FixMinimal, engine
<1>6. CASE SearchStep
  <2>1. UNCHANGED <<lists, engine, latest, solved, moved>> /\ place' = "search" /\ place = "search"
    BY <1>6 DEF SearchStep, history
  <2>2. consistent' = consistent
    BY <1>6 DEF SearchStep, Search!Step, Search!SolveSat, Search!SolveUnsat, Search!Exhausted,
                Search!Timeout, Search!Cancel, Search!GetCore, Search!MinimiseOne,
                Search!MinimiseEnd, Search!ExpandOne, Search!ExpandEnd
  <2>3. Consistent' = Consistent
    BY <2>1 DEF Consistent, Has, engine, lists
  <2>4. FixMinimal'
    BY <2>1, WishesKept DEF lists
  <2> QED
    BY <2>1, <2>2, <2>3, <2>4 DEF Wishes, engine, lists
<1>7. CASE EndSearch
  <2>1. /\ place = "search" /\ place' = "returned" /\ new_fixes' \in Solutions
        /\ UNCHANGED <<conflict, fixes, conflict_syms, engine, latest, solved, moved>>
    BY <1>7 DEF EndSearch, history
  <2>2. R \subseteq Search!MinimalCorrectionSets
    <3>1. SearchProofs!DiagnosesMinimal
      BY SearchProofs!InvMinimal, SearchAssumption
      DEF SearchInv, IsFiniteSet, SearchProofs!IsFiniteSet
    <3> QED
      BY <3>1
      DEF SearchProofs!DiagnosesMinimal, SearchProofs!MinimalCorrectionSets,
          Search!MinimalCorrectionSets, SearchProofs!CorrectionSets, Search!CorrectionSets,
          SearchProofs!Sat, Search!Sat
  <2>3. ASSUME NEW f \in new_fixes' PROVE Minimal(f)
    <3>1. PICK d \in R : f \in convert_diagnosis(d)
      BY <2>1 DEF Solutions
    <3> QED
      BY <2>1, <2>2, <3>1, ConvertedMinimal DEF Wishes
  <2>4. \A f : Minimal(f)' = Minimal(f)
    BY <2>1 DEF Minimal, Differing, Has, engine
  <2>5. FixMinimal'
    BY <2>1, WishesKept
  <2> QED
    BY <2>1, <2>3, <2>4, <2>5 DEF Wishes, engine
<1>8. CASE Drop
  <2>1. UNCHANGED <<conflict, conflict_syms, fixes, engine, latest, solved, moved>>
        /\ place' = "loop"
    BY <1>8 DEF Drop, End
  <2>2. FixMinimal'
    BY <2>1, WishesKept
  <2> QED
    BY <2>1, <2>2 DEF Wishes, engine
<1>9. CASE Propose
  <2>1. /\ UNCHANGED <<conflict, conflict_syms, engine>> /\ place' = "loop" /\ place = "check"
        /\ fixes' = new_fixes /\ solved' = ~trivial
    BY <1>9 DEF Propose, End
  <2>2. \A f : Minimal(f)' = Minimal(f)
    BY <2>1 DEF Minimal, Differing, Has, engine
  <2> QED
    BY <2>1, <2>2 DEF Wishes, FixMinimal, engine
<1> QED
  BY <1>1, <1>2, <1>3, <1>4, <1>5, <1>6, <1>7, <1>8, <1>9 DEF Next, User, Program

\* The fixes a user is shown change nothing without need: the search is right
\* about sets of constraints, these are read off the configuration there is, and
\* neither a signal nor an earlier run gets in between (configfix.c:40-205,
\* cfixconf.c:381-432).
THEOREM ShowsMinimalFixes == Spec => []FixMinimal
<1> DEFINE Inv == Signals /\ SearchInv /\ Wishes
<1>1. Init => Inv
  BY InitSignals, InitSearch, InitWishes
<1>2. Inv /\ [Next]_vars => Inv'
  BY NextSignals, NextSearch, NextWishes
<1>3. Inv => FixMinimal
  BY DEF Wishes
<1> QED
  BY <1>1, <1>2, <1>3, PTL DEF Spec
=============================================================================
