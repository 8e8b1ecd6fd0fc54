---------------------------- MODULE FixGenProofs ----------------------------
(****************************************************************************)
(* Proofs about the diagnosis search of FixGen, for every finite set of     *)
(* soft constraints, every solver and every limit on the diagnoses.         *)
(*                                                                          *)
(* The inductive invariant adds to the checked properties what ties them    *)
(* together: the core is unsatisfiable while it is used, the elements of    *)
(* the core that were already tried are needed, only correction sets are    *)
(* reported, and a search that is entered with a satisfiable problem ends   *)
(* at once and without a diagnosis.                                         *)
(****************************************************************************)
EXTENDS FixGen, FiniteSetTheorems, TLAPS

\* What is reported is a correction set.
Sound == R \subseteq CorrectionSets

\* When nothing has to change, the first answer of the solver ends the search.
NoConflict ==
  Sat(Soft) => R = {} /\ E \subseteq {{}} /\ pc \in {"solve", "done"}

\* The core is unsatisfiable, and what minimise_unsat_core() has kept is needed.
CoreInv ==
  /\ pc \in {"minimise", "expand"} => ~Sat(X)
  /\ pc = "minimise" => \A x \in X \ todo : Sat(X \ {x})
  /\ pc = "expand" => HasLength1(X) \/ \A x \in X : Sat(X \ {x})

\* A running search has room for another diagnosis; a search that ended for no
\* other reason has no partial diagnosis left.
Progress ==
  /\ pc # "done" => num_diagnoses < MaxDiagnoses /\ status = "normal"
  /\ pc = "done" /\ status = "normal" /\ num_diagnoses < MaxDiagnoses => E = {}

Counted == IsFiniteSet(R) /\ CounterExact

IInv ==
  /\ TypeOK
  /\ Antichain
  /\ NothingLost
  /\ Sound
  /\ NoConflict
  /\ CoreInv
  /\ Progress
  /\ Counted

----------------------------------------------------------------------------
\* Fewer assumptions stay satisfiable.
LEMMA SolverMonotone ==
  ASSUME NEW F \in Solvers, NEW S \in F, NEW T \in SUBSET S
  PROVE  T \in F
BY DEF Solvers

\* An unsatisfiable core meets every correction set: the reason the search may
\* replace a partial diagnosis by its extensions with elements of the core.
LEMMA CoreMeetsCorrection ==
  ASSUME consistent \in Solvers, NEW Y \in SUBSET Soft, ~Sat(Y),
         NEW D \in CorrectionSets
  PROVE  Y \cap D # {}
<1>1. Soft \ D \in consistent
  BY DEF CorrectionSets, Sat
<1>2. ~(Y \subseteq Soft \ D)
  BY <1>1, SolverMonotone DEF Sat
<1> QED
  BY <1>2

\* The start of a run, and of every later one, satisfies the invariant.
LEMMA StartInv ==
  ASSUME consistent \in Solvers, pc = "solve", E = {{}}, R = {},
         num_diagnoses = 0, E0 = {}, X = {}, todo = {}, status = "normal",
         stop_fixgen \in BOOLEAN
  PROVE  IInv
<1>1. TypeOK
  BY MaxAssumption DEF TypeOK, Places, Statuses
<1>2. Antichain /\ NothingLost
  BY DEF Antichain, NothingLost
<1>3. Sound /\ NoConflict /\ CoreInv
  BY DEF Sound, NoConflict, CoreInv
<1>4. Progress
  BY MaxAssumption DEF Progress
<1>5. Counted
  BY FS_EmptySet DEF Counted, CounterExact
<1> QED
  BY <1>1, <1>2, <1>3, <1>4, <1>5 DEF IInv

\* A step that leaves the solver and the three lists' state alone keeps what
\* is said of them.
LEMMA SearchKept ==
  ASSUME IInv, UNCHANGED <<consistent, search>>
  PROVE  /\ consistent' \in Solvers
         /\ Antichain' /\ NothingLost' /\ Sound' /\ Counted'
<1>1. consistent' \in Solvers
  BY DEF IInv, TypeOK
<1>2. Antichain'
  BY DEF IInv, Antichain, search
<1>3. NothingLost' /\ Sound'
  BY DEF IInv, NothingLost, Sound, CorrectionSets, Sat, search
<1>4. Counted'
  BY DEF IInv, Counted, CounterExact, search
<1> QED
  BY <1>1, <1>2, <1>3, <1>4

\* The solver accepts a partial diagnosis.
LEMMA SolveSatInv ==
  ASSUME IInv, SolveSat
  PROVE  IInv'
<1>1. PICK e \in E :
        /\ Sat(Soft \ e)
        /\ E0' = e
        /\ E' = E \ {e}
        /\ IF e # {}
             THEN R' = R \cup {e} /\ num_diagnoses' = num_diagnoses + 1
             ELSE UNCHANGED <<R, num_diagnoses>>
        /\ pc' = IF LimitReached(num_diagnoses') THEN "done" ELSE "solve"
  BY DEF SolveSat, Keep
<1>2. UNCHANGED <<consistent, X, todo, status, stop_fixgen>> /\ pc = "solve"
  BY DEF SolveSat
<1>3. e \subseteq Soft /\ e \notin R /\ e \in CorrectionSets
  BY <1>1 DEF IInv, TypeOK, Antichain, CorrectionSets
<1>4. num_diagnoses \in Nat /\ num_diagnoses < MaxDiagnoses /\ status = "normal"
  BY <1>2 DEF IInv, TypeOK, Progress
<1>5. num_diagnoses' \in 0 .. MaxDiagnoses
  BY <1>1, <1>4, MaxAssumption
<1>6. TypeOK'
  <2>1. pc' \in Places
    BY <1>1 DEF Places
  <2>2. E' \subseteq SUBSET Soft /\ R' \subseteq SUBSET Soft /\ E0' \subseteq Soft
    BY <1>1, <1>3 DEF IInv, TypeOK
  <2> QED
    BY <2>1, <2>2, <1>2, <1>5 DEF IInv, TypeOK
<1>7. Antichain'
  BY <1>1 DEF IInv, Antichain
<1>8. CorrectionSets' = CorrectionSets /\ (Sat(Soft) <=> Sat(Soft)')
  BY <1>2 DEF CorrectionSets, Sat
<1>9. e = {} => Sat(Soft)
  BY <1>1, Soft \ {} = Soft
<1>10. NothingLost'
  BY <1>1, <1>8, <1>9 DEF IInv, NothingLost
<1>11. Sound'
  BY <1>1, <1>3, <1>8 DEF IInv, Sound
<1>12. NoConflict'
  BY <1>1, <1>2, <1>8 DEF IInv, NoConflict, LimitReached
<1>13. CoreInv'
  BY <1>1 DEF CoreInv, LimitReached
<1>14. Progress'
  BY <1>1, <1>2, <1>4, <1>5, MaxAssumption DEF Progress, LimitReached
<1>15. Counted'
  <2>1. CASE e # {}
    BY <2>1, <1>1, <1>3, FS_AddElement DEF IInv, Counted, CounterExact
  <2>2. CASE e = {}
    BY <2>2, <1>1 DEF IInv, Counted, CounterExact
  <2> QED
    BY <2>1, <2>2
<1> QED
  BY <1>6, <1>7, <1>10, <1>11, <1>12, <1>13, <1>14, <1>15 DEF IInv

\* The expansion of one partial diagnosis: it is replaced by those of its
\* extensions that nothing else subsumes.
LEMMA ExpandOneInv ==
  ASSUME IInv, ExpandOne
  PROVE  IInv'
<1>1. PICK e \in E : e \cap X = {} /\ E' = (E \ {e}) \cup Extensions(e)
  BY DEF ExpandOne
<1>2. /\ UNCHANGED <<consistent, pc, R, num_diagnoses, E0, X, todo, status, stop_fixgen>>
      /\ pc = "expand"
  BY DEF ExpandOne
<1>3. e \subseteq Soft /\ X \subseteq Soft /\ consistent \in Solvers /\ ~Sat(X)
  BY <1>2 DEF IInv, TypeOK, CoreInv
<1>4. ASSUME NEW D \in Extensions(e)
      PROVE  /\ D \subseteq Soft
             /\ e \subseteq D
             /\ \E x \in X : x \notin e /\ D = e \cup {x}
             /\ \A E2 \in Others(e) : ~(E2 \subseteq D)
  BY <1>1, <1>3, <1>4 DEF Extensions
<1>5. TypeOK'
  BY <1>1, <1>2, <1>4 DEF IInv, TypeOK
<1>6. Antichain'
  <2>1. ASSUME NEW a \in E' \cup R, NEW b \in E' \cup R, a \subseteq b
        PROVE  a = b
    <3>1. CASE a \in Others(e) /\ b \in Others(e)
      BY <2>1, <3>1 DEF Others, IInv, Antichain
    <3>2. CASE a \in Others(e) /\ b \in Extensions(e)
      BY <2>1, <3>2, <1>4
    <3>3. CASE a \in Extensions(e) /\ b \in Others(e)
      <4>1. e \subseteq b
        BY <2>1, <3>3, <1>4
      <4>2. b = e
        BY <4>1, <3>3 DEF Others, IInv, Antichain
      <4> QED
        BY <4>2, <3>3 DEF Others, IInv, Antichain
    <3>4. CASE a \in Extensions(e) /\ b \in Extensions(e)
      <4>1. PICK x \in X : x \notin e /\ a = e \cup {x}
        BY <3>4, <1>4
      <4>2. PICK y \in X : y \notin e /\ b = e \cup {y}
        BY <3>4, <1>4
      <4> QED
        BY <4>1, <4>2, <2>1
    <3> QED
      BY <3>1, <3>2, <3>3, <3>4, <1>1 DEF Others
  <2>2. E' \cap R = {}
    <3> SUFFICES ASSUME NEW D \in E', D \in R PROVE FALSE
      OBVIOUS
    <3>1. D \in Others(e)
      BY DEF Others
    <3>2. D \notin Extensions(e)
      BY <3>1, <1>4
    <3> QED
      BY <3>2, <1>1 DEF IInv, Antichain
  <2> QED
    BY <2>1, <2>2, <1>2 DEF Antichain
<1>7. CorrectionSets' = CorrectionSets /\ (Sat(Soft) <=> Sat(Soft)')
  BY <1>2 DEF CorrectionSets, Sat
<1>8. NothingLost'
  <2> SUFFICES ASSUME ~Sat(Soft), NEW D \in CorrectionSets
               PROVE  \E f \in E' \cup R : f \subseteq D
    BY <1>2, <1>7 DEF NothingLost
  <2>1. PICK f \in E \cup R : f \subseteq D
    BY DEF IInv, NothingLost
  <2>2. CASE f \in Others(e)
    BY <2>1, <2>2, <1>1 DEF Others
  <2>3. CASE f \notin Others(e)
    <3>1. f = e
      BY <2>1, <2>3 DEF Others
    <3>2. PICK x \in X : x \in D
      BY <1>3, CoreMeetsCorrection
    <3>3. e \cup {x} \subseteq D
      BY <2>1, <3>1, <3>2
    <3>4. CASE e \cup {x} \in Extensions(e)
      BY <3>3, <3>4, <1>1
    <3>5. CASE e \cup {x} \notin Extensions(e)
      <4>1. PICK E2 \in Others(e) : E2 \subseteq e \cup {x}
        BY <3>5 DEF Extensions
      <4> QED
        BY <4>1, <3>3, <1>1 DEF Others
    <3> QED
      BY <3>4, <3>5
  <2> QED
    BY <2>2, <2>3
<1>9. Sound'
  BY <1>2, <1>7 DEF IInv, Sound
<1>10. NoConflict' /\ Progress' /\ Counted'
  BY <1>2, <1>7 DEF IInv, NoConflict, Progress, Counted, CounterExact
<1>11. CoreInv'
  BY <1>2 DEF IInv, CoreInv, Sat, HasLength1
<1> QED
  BY <1>5, <1>6, <1>8, <1>9, <1>10, <1>11 DEF IInv

\* One element of the core is tried.
LEMMA MinimiseOneInv ==
  ASSUME IInv, MinimiseOne
  PROVE  IInv'
<1>1. PICK c \in todo : X' = Minimised(c) /\ todo' = todo \ {c}
  BY DEF MinimiseOne
<1>2. UNCHANGED <<consistent, pc, search, E0, status, stop_fixgen>> /\ pc = "minimise"
  BY DEF MinimiseOne
<1>3. X \subseteq Soft /\ todo \subseteq X /\ consistent \in Solvers /\ ~Sat(X)
  BY <1>2 DEF IInv, TypeOK, CoreInv
<1>4. TypeOK'
  BY <1>1, <1>2, <1>3 DEF IInv, TypeOK, Minimised, search
<1>5. NoConflict' /\ Progress'
  BY <1>2 DEF IInv, NoConflict, Progress, Sat, search
<1>6. CoreInv'
  <2>1. ~Sat(X')
    BY <1>1, <1>3 DEF Minimised
  <2>2. ASSUME NEW x \in X' \ todo'
        PROVE  Sat(X' \ {x})
    <3>1. CASE x = c
      BY <3>1, <2>2, <1>1 DEF Minimised
    <3>2. CASE x # c
      <4>1. Sat(X \ {x})
        BY <3>2, <2>2, <1>1, <1>2, <1>3 DEF Minimised, IInv, CoreInv
      <4> QED
        BY <4>1, <1>1, <1>3, SolverMonotone, X' \ {x} \subseteq X \ {x}
        DEF Minimised, Sat
    <3> QED
      BY <3>1, <3>2
  <2> QED
    BY <2>1, <2>2, <1>2 DEF CoreInv, Sat
<1> QED
  BY <1>2, <1>4, <1>5, <1>6, SearchKept DEF IInv

\* The other steps of the search change neither the lists nor the solver.
LEMMA QuietStepInv ==
  ASSUME IInv,
         \/ SolveUnsat \/ Exhausted \/ Timeout \/ Cancel \/ GetCore
         \/ MinimiseEnd \/ ExpandEnd \/ Interrupt
  PROVE  IInv'
<1>1. UNCHANGED <<consistent, search>>
  BY DEF SolveUnsat, Exhausted, Timeout, Cancel, GetCore, MinimiseEnd,
         ExpandEnd, Interrupt
<1>2. TypeOK'
  <2>1. E0' \subseteq Soft
    BY DEF SolveUnsat, Exhausted, Timeout, Cancel, GetCore, MinimiseEnd,
           ExpandEnd, Interrupt, IInv, TypeOK
  <2>2. X' \subseteq Soft /\ todo' \subseteq X'
    BY DEF SolveUnsat, Exhausted, Timeout, Cancel, GetCore, MinimiseEnd,
           ExpandEnd, Interrupt, IInv, TypeOK
  <2>3. pc' \in Places /\ status' \in Statuses /\ stop_fixgen' \in BOOLEAN
    BY DEF SolveUnsat, Exhausted, Timeout, Cancel, GetCore, MinimiseEnd,
           ExpandEnd, Interrupt, IInv, TypeOK, Places, Statuses
  <2> QED
    BY <1>1, <2>1, <2>2, <2>3 DEF TypeOK, search, IInv
<1>3. NoConflict'
  BY <1>1 DEF IInv, NoConflict, Sat, search, SolveUnsat, Exhausted, Timeout,
         Cancel, GetCore, MinimiseEnd, ExpandEnd, Interrupt
<1>4. Progress'
  BY <1>1 DEF IInv, Progress, search, SolveUnsat, Exhausted, Timeout,
         Cancel, GetCore, MinimiseEnd, ExpandEnd, Interrupt
<1>5. CoreInv'
  BY <1>1 DEF IInv, CoreInv, Sat, HasLength1, SolveUnsat, Exhausted, Timeout,
         Cancel, GetCore, MinimiseEnd, ExpandEnd, Interrupt, TypeOK
<1> QED
  BY <1>1, <1>2, <1>3, <1>4, <1>5, SearchKept DEF IInv

----------------------------------------------------------------------------
\* The invariant holds at the start and is kept by every step.
LEMMA NextInv == ASSUME IInv, [Next]_vars PROVE IInv'
<1>1. CASE SolveSat
  BY <1>1, SolveSatInv
<1>2. CASE ExpandOne
  BY <1>2, ExpandOneInv
<1>3. CASE MinimiseOne
  BY <1>3, MinimiseOneInv
<1>4. CASE \/ SolveUnsat \/ Exhausted \/ Timeout \/ Cancel \/ GetCore
           \/ MinimiseEnd \/ ExpandEnd \/ Interrupt
  BY <1>4, QuietStepInv
<1>5. CASE NextRun
  <2>1. stop_fixgen' \in BOOLEAN
    BY <1>5 DEF NextRun, IInv, TypeOK
  <2>2. TypeOK'
    BY <1>5, <2>1, MaxAssumption DEF NextRun, TypeOK, Places, Statuses
  <2>3. Antichain' /\ NothingLost' /\ Sound'
    BY <1>5 DEF NextRun, Antichain, NothingLost, Sound
  <2>4. NoConflict' /\ CoreInv'
    BY <1>5 DEF NextRun, NoConflict, CoreInv
  <2>5. Progress' /\ Counted'
    BY <1>5, MaxAssumption, FS_EmptySet
    DEF NextRun, Progress, Counted, CounterExact
  <2> QED
    BY <2>2, <2>3, <2>4, <2>5 DEF IInv
<1>6. CASE UNCHANGED vars
  <2>1. UNCHANGED <<consistent, search>>
    BY <1>6 DEF vars, search
  <2>2. TypeOK' /\ NoConflict' /\ CoreInv' /\ Progress'
    BY <1>6 DEF vars, IInv, TypeOK, NoConflict, CoreInv, Progress, Sat, HasLength1
  <2> QED
    BY <2>1, <2>2, SearchKept DEF IInv
<1> QED
  BY <1>1, <1>2, <1>3, <1>4, <1>5, <1>6 DEF Next, Step

THEOREM InductiveInv == Spec => []IInv
<1>1. Init => IInv
  BY StartInv DEF Init
<1>2. IInv /\ [Next]_vars => IInv'
  BY NextInv
<1> QED
  BY <1>1, <1>2, PTL DEF Spec

\* Type correctness of the search.
THEOREM TypeCorrect == Spec => []TypeOK
<1>1. IInv => TypeOK
  BY DEF IInv
<1> QED
  BY <1>1, InductiveInv, PTL

\* The lists of partial and finished diagnoses never hold two comparable sets:
\* the subset test in the expansion loop of generate_diagnoses() is enough.
THEOREM SearchAntichain == Spec => []Antichain
<1>1. IInv => Antichain
  BY DEF IInv
<1> QED
  BY <1>1, InductiveInv, PTL

\* No correction set gets out of the search's reach.
THEOREM SearchComplete == Spec => []NothingLost
<1>1. IInv => NothingLost
  BY DEF IInv
<1> QED
  BY <1>1, InductiveInv, PTL

\* A set below a reported diagnosis that is itself a correction set is that
\* diagnosis: it would contain a partial or finished one, which the antichain
\* forbids.
LEMMA InvMinimal ==
  ASSUME IInv
  PROVE  DiagnosesMinimal
<1> SUFFICES ASSUME NEW D \in R PROVE D \in MinimalCorrectionSets
  BY DEF DiagnosesMinimal
<1>1. D \in CorrectionSets
  BY DEF IInv, Sound
<1>2. ASSUME NEW D2 \in CorrectionSets, D2 \subseteq D
      PROVE  D2 = D
  <2>1. ~Sat(Soft)
    BY DEF IInv, NoConflict
  <2>2. PICK e \in E \cup R : e \subseteq D2
    BY <2>1 DEF IInv, NothingLost
  <2>3. e = D
    BY <2>2, <1>2 DEF IInv, Antichain
  <2> QED
    BY <2>2, <2>3, <1>2
<1> QED
  BY <1>1, <1>2 DEF MinimalCorrectionSets

\* Every diagnosis the user is shown is minimal, at every moment of the search
\* and however it ends.
THEOREM ReportsMinimal == Spec => []DiagnosesMinimal
BY InvMinimal, InductiveInv, PTL

LEMMA InvExhaustive == ASSUME IInv PROVE ExhaustiveWhenNormal
<1> SUFFICES ASSUME pc = "done", status = "normal",
                    num_diagnoses < MaxDiagnoses, ~Sat(Soft)
             PROVE  R = MinimalCorrectionSets
  BY DEF ExhaustiveWhenNormal
<1>1. E = {}
  BY DEF IInv, Progress
<1>2. R \subseteq MinimalCorrectionSets
  BY InvMinimal DEF DiagnosesMinimal
<1>3. ASSUME NEW D \in MinimalCorrectionSets
      PROVE  D \in R
  <2>1. D \in CorrectionSets
    BY DEF MinimalCorrectionSets
  <2>2. PICK r \in R : r \subseteq D
    BY <2>1, <1>1 DEF IInv, NothingLost
  <2>3. r = D
    BY <2>2 DEF MinimalCorrectionSets, IInv, Sound
  <2> QED
    BY <2>3
<1> QED
  BY <1>2, <1>3

\* A search that ends by itself has found every minimal diagnosis.
THEOREM ReportsAll == Spec => []ExhaustiveWhenNormal
BY InvExhaustive, InductiveInv, PTL

\* num_diagnoses is the length of R.
THEOREM CounterCounts == Spec => []CounterExact
<1>1. IInv => CounterExact
  BY DEF IInv, Counted
<1> QED
  BY <1>1, InductiveInv, PTL

\* The core the expansion uses is unsatisfiable and minimal.
THEOREM ExpandsMinimalCores == Spec => []CoreMinimal
<1>1. IInv => CoreMinimal
  BY DEF IInv, CoreInv, CoreMinimal
<1> QED
  BY <1>1, InductiveInv, PTL

=============================================================================
