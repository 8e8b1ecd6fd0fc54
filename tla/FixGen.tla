------------------------------- MODULE FixGen -------------------------------
(****************************************************************************)
(* Fix generation of ConfigFix: generate_diagnoses() of cf_fixgen.c, the    *)
(* RangeFix search for diagnoses.  A soft constraint says that one          *)
(* changeable symbol literal keeps its current value; a diagnosis is a set  *)
(* of soft constraints whose removal makes the rest satisfiable together    *)
(* with the values the user wants.  The search keeps a list E of partial    *)
(* diagnoses and a list R of finished ones, asks the SAT solver about one   *)
(* element of E at a time, and extends E with every unsatisfiable core.     *)
(*                                                                          *)
(* The lists E, R and the core X are sets here: the search takes "a random  *)
(* diagnosis" (cf_fixgen.c:165), and the order of the others only decides   *)
(* which diagnoses are found first.  FixGenList keeps the lists as they are *)
(* and implements this module.                                              *)
(*                                                                          *)
(* The solver is external.  Its answers for one call are given by the       *)
(* family "consistent" of the sets of soft constraints that are satisfiable *)
(* with the clauses and the wanted values; it is chosen when a run starts.  *)
(****************************************************************************)
EXTENDS Naturals, FiniteSets

CONSTANTS Soft,          \* the constraint set C: the fexpr of the changeable symbols
          MaxDiagnoses   \* MAX_DIAGNOSES

ASSUME SoftAssumption == IsFiniteSet(Soft)
ASSUME MaxAssumption == MaxDiagnoses \in Nat \ {0}

VARIABLES
  consistent,    \* the solver: the satisfiable sets of soft constraints
  pc,            \* the place in generate_diagnoses()
  E,             \* the partial diagnoses
  R,             \* the diagnoses found
  num_diagnoses, \* the counter beside R
  E0,            \* the partial diagnosis the solver was asked about last
  X,             \* the unsatisfiable core
  todo,          \* the elements of X that minimise_unsat_core() has still to try
  status,        \* enum fixgen_exit_status
  stop_fixgen    \* the flag interrupt_fix_generation() sets

search == <<E, R, num_diagnoses>>
vars == <<consistent, pc, E, R, num_diagnoses, E0, X, todo, status, stop_fixgen>>

Statuses == {"normal", "timeout", "canceled"}
Places == {"solve", "check", "minimise", "expand", "done"}

\* What the solver may be: fewer assumptions never turn a satisfiable call
\* into an unsatisfiable one.
Solvers == {F \in SUBSET SUBSET Soft : \A S \in F : SUBSET S \subseteq F}

Sat(S) == S \in consistent

----------------------------------------------------------------------------
\* The entry of generate_diagnoses(): E holds the empty diagnosis.  The flag
\* stop_fixgen is a global that the entry does not
\* touch; it is FALSE when the program starts.
Init ==
  /\ consistent \in Solvers
  /\ pc = "solve"
  /\ E = {{}}
  /\ R = {}
  /\ num_diagnoses = 0
  /\ E0 = {}
  /\ X = {}
  /\ todo = {}
  /\ status = "normal"
  /\ stop_fixgen = FALSE

\* The limit on the diagnoses; the mutant tests it one diagnosis too late.
LateLimit(n) == n > MaxDiagnoses
LimitReached(n) == n >= MaxDiagnoses

\* Only a diagnosis that changes something is kept.
Keep(e) ==
  IF e # {} THEN R' = R \cup {e} /\ num_diagnoses' = num_diagnoses + 1
            ELSE UNCHANGED <<R, num_diagnoses>>

\* The solver accepts C \ E0: the partial diagnosis leaves E and, unless it is
\* empty, joins R; enough diagnoses end the search.
SolveSat ==
  /\ pc = "solve"
  /\ \E e \in E :
       /\ Sat(Soft \ e)
       /\ E0' = e
       /\ E' = E \ {e}
       /\ Keep(e)
       /\ pc' = IF LimitReached(num_diagnoses') THEN "done" ELSE "solve"
  /\ UNCHANGED <<consistent, X, todo, status, stop_fixgen>>

\* The solver rejects C \ E0.
SolveUnsat ==
  /\ pc = "solve"
  /\ \E e \in E : ~Sat(Soft \ e) /\ E0' = e
  /\ pc' = "check"
  /\ UNCHANGED <<consistent, search, X, todo, status, stop_fixgen>>

\* No partial diagnosis is left.
Exhausted ==
  /\ pc = "solve"
  /\ E = {}
  /\ pc' = "done"
  /\ UNCHANGED <<consistent, search, E0, X, todo, status, stop_fixgen>>

\* More than MAX_SECONDS have passed; looked at before the stop flag.
Timeout ==
  /\ pc = "check"
  /\ status' = "timeout"
  /\ pc' = "done"
  /\ UNCHANGED <<consistent, search, E0, X, todo, stop_fixgen>>

\* The user has asked to stop: the request is consumed.
Cancel ==
  /\ pc = "check"
  /\ stop_fixgen
  /\ stop_fixgen' = FALSE
  /\ status' = "canceled"
  /\ pc' = "done"
  /\ UNCHANGED <<consistent, search, E0, X, todo>>

\* get_unsat_core_soft(): the failed assumptions of the last call, a subset of
\* the assumed constraints that is already unsatisfiable.
GetCore ==
  /\ pc = "check"
  /\ ~stop_fixgen
  /\ X' \in SUBSET (Soft \ E0)
  /\ ~Sat(X')
  /\ todo' = X'
  /\ pc' = "minimise"
  /\ UNCHANGED <<consistent, search, E0, status, stop_fixgen>>

\* Dropping c from the core: the solver decides.  The mutant forgets to put c
\* back when the rest turns out to be satisfiable.
DropAlways(c) == X \ {c}
Minimised(c) == IF Sat(X \ {c}) THEN X ELSE X \ {c}

\* fexpr_list_has_length_1(), which is also true of an empty list.
HasLength1(S) == \A x, y \in S : x = y

\* minimise_unsat_core(), one element: it is dropped when the rest is still
\* unsatisfiable.
MinimiseOne ==
  /\ pc = "minimise"
  /\ ~HasLength1(X)
  /\ \E c \in todo :
       /\ X' = Minimised(c)
       /\ todo' = todo \ {c}
  /\ UNCHANGED <<consistent, pc, search, E0, status, stop_fixgen>>

MinimiseEnd ==
  /\ pc = "minimise"
  /\ HasLength1(X) \/ todo = {}
  /\ pc' = "expand"
  /\ UNCHANGED <<consistent, search, E0, X, todo, status, stop_fixgen>>

\* (E \ e) U R, what an extension of e is compared with.  The mutants forget
\* to leave out e itself, forget R, and forget the rest of E.
WithItself(e) == E \cup R
WithoutFound(e) == E \ {e}
WithoutPartial(e) == R
Others(e) == (E \ {e}) \cup R

\* The sets e U {x} that no other partial or finished diagnosis subsumes.  The
\* sets added for the same e never subsume each other, since x is not in e.
Extensions(e) ==
  {D \in {e \cup {x} : x \in X} : \A E2 \in Others(e) : ~(E2 \subseteq D)}

\* The body of the loop over E: a partial diagnosis that misses the core is
\* replaced by its extensions.
ExpandOne ==
  /\ pc = "expand"
  /\ \E e \in E :
       /\ e \cap X = {}
       /\ E' = (E \ {e}) \cup Extensions(e)
  /\ UNCHANGED <<consistent, pc, R, num_diagnoses, E0, X, todo, status, stop_fixgen>>

\* Every partial diagnosis hits the core.
ExpandEnd ==
  /\ pc = "expand"
  /\ \A e \in E : e \cap X # {}
  /\ pc' = "solve"
  /\ UNCHANGED <<consistent, search, E0, X, todo, status, stop_fixgen>>

Step ==
  \/ SolveSat \/ SolveUnsat \/ Exhausted
  \/ Timeout \/ Cancel \/ GetCore
  \/ MinimiseOne \/ MinimiseEnd
  \/ ExpandOne \/ ExpandEnd

----------------------------------------------------------------------------
\* interrupt_fix_generation(), called by the user interface at any time.
Interrupt ==
  /\ stop_fixgen' = TRUE
  /\ UNCHANGED <<consistent, pc, search, E0, X, todo, status>>

\* The next call of fixgen_run().
NextRun ==
  /\ pc = "done"
  /\ consistent' \in Solvers
  /\ pc' = "solve"
  /\ E' = {{}}
  /\ R' = {}
  /\ num_diagnoses' = 0
  /\ E0' = {}
  /\ X' = {}
  /\ todo' = {}
  /\ status' = "normal"
  /\ UNCHANGED stop_fixgen

Next == Step \/ Interrupt \/ NextRun

Spec == Init /\ [][Next]_vars

----------------------------------------------------------------------------
\* Type invariant.
TypeOK ==
  /\ consistent \in Solvers
  /\ pc \in Places
  /\ E \subseteq SUBSET Soft
  /\ R \subseteq SUBSET Soft
  /\ num_diagnoses \in 0 .. MaxDiagnoses
  /\ E0 \subseteq Soft
  /\ X \subseteq Soft
  /\ todo \subseteq X
  /\ status \in Statuses
  /\ stop_fixgen \in BOOLEAN

\* The sets whose removal makes the problem satisfiable, and those of them
\* that contain no smaller one.
CorrectionSets == {D \in SUBSET Soft : Sat(Soft \ D)}
MinimalCorrectionSets ==
  {D \in CorrectionSets : \A D2 \in CorrectionSets : D2 \subseteq D => D2 = D}

\* No partial or finished diagnosis contains another one, over the whole
\* search: the subset test of the expansion loop, which looks only at the
\* lists as they are at that moment, is enough to keep the search free of
\* redundant work (cf_fixgen.c:271-280).
Antichain ==
  /\ \A a, b \in E \cup R : a \subseteq b => a = b
  /\ E \cap R = {}

\* Every diagnosis that is reported is a correction set from which nothing can
\* be left out: the user is never told to change a symbol without need.
DiagnosesMinimal == R \subseteq MinimalCorrectionSets

\* Nothing is lost: whatever cores the solver returns, every correction set is
\* still reachable from a partial diagnosis or contains a reported one.  (If
\* everything can be kept the search ends at its first step with nothing.)
NothingLost ==
  ~Sat(Soft) => \A D \in CorrectionSets : \E e \in E \cup R : e \subseteq D

\* A search that runs to its end without a timeout, a cancellation or the
\* limit reports exactly the minimal correction sets.
ExhaustiveWhenNormal ==
  pc = "done" /\ status = "normal" /\ num_diagnoses < MaxDiagnoses /\ ~Sat(Soft)
    => R = MinimalCorrectionSets

\* The counter that ends the search counts the diagnoses: none is counted
\* twice or reported twice.
CounterExact == num_diagnoses = Cardinality(R)

\* The core the expansion works with is unsatisfiable and, down to one
\* element, no element of it can be missed.
CoreMinimal ==
  pc = "expand" =>
    /\ ~Sat(X)
    /\ HasLength1(X) \/ \A x \in X : Sat(X \ {x})

\* The search ends, whatever cores the solver returns.
Terminates == pc = "solve" ~> pc = "done"

=============================================================================
