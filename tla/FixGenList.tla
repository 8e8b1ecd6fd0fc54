----------------------------- MODULE FixGenList -----------------------------
(****************************************************************************)
(* The diagnosis search of FixGen with the lists of cf_fixgen.c as they     *)
(* are: E is a queue, R and the core X are lists, and the expansion walks   *)
(* E with list_for_each_entry_safe while it deletes from the place it is at *)
(* and appends at the end, one element of the core at a time.  The module   *)
(* implements FixGen: the order of the lists, and when exactly the walk     *)
(* stops, do not change what is found.                                      *)
(****************************************************************************)
EXTENDS Naturals, SequencesExt

CONSTANTS Soft, MaxDiagnoses

ASSUME SoftAssumption == IsFiniteSet(Soft)
ASSUME MaxAssumption == MaxDiagnoses \in Nat \ {0}

VARIABLES
  consistent, pc, num_diagnoses, E0, status, stop_fixgen,
  E,      \* the partial diagnoses, a list of sets
  R,      \* the diagnoses found, a list of sets
  X,      \* the core, a list without repetition
  todo,   \* what minimise_unsat_core() has still to visit, a tail of X
  node,   \* the place in E of the expansion's loop, 0 at the list head
  next,   \* the place the loop goes to after "node", taken before its body
  left,   \* the elements of X that the inner loop has still to visit
  size    \* auxiliary: the length E had when the inner loop began

lists == <<E, R, num_diagnoses>>
walk == <<node, next, left, size>>
vars == <<consistent, pc, E, R, num_diagnoses, E0, X, todo, status, stop_fixgen, walk>>

\* The search with sets instead of lists.  It replaces a partial diagnosis in
\* one step: here that is the step that deletes it, and what the inner loop
\* has appended until then is not yet there.
Settled == IF pc = "extend" THEN {E[i] : i \in 1 .. size} ELSE ToSet(E)

Sets == INSTANCE FixGen WITH
          pc <- IF pc = "extend" THEN "expand" ELSE pc,
          E <- Settled, R <- ToSet(R), X <- ToSet(X), todo <- ToSet(todo)

Sat(S) == S \in consistent

----------------------------------------------------------------------------
Init ==
  /\ consistent \in Sets!Solvers
  /\ pc = "solve"
  /\ E = <<{}>> /\ R = <<>> /\ num_diagnoses = 0
  /\ E0 = {} /\ X = <<>> /\ todo = <<>>
  /\ node = 0 /\ next = 0 /\ left = <<>> /\ size = 0
  /\ status = "normal" /\ stop_fixgen = FALSE

\* MAX_DIAGNOSES.
LimitReached(n) == n >= MaxDiagnoses

\* The first partial diagnosis is asked about; accepted, it moves to the end
\* of R unless it is empty.
SolveSat ==
  /\ pc = "solve"
  /\ E # <<>>
  /\ Sat(Soft \ Head(E))
  /\ E0' = Head(E)
  /\ E' = Tail(E)
  /\ IF Head(E) # {}
       THEN R' = Append(R, Head(E)) /\ num_diagnoses' = num_diagnoses + 1
       ELSE UNCHANGED <<R, num_diagnoses>>
  /\ pc' = IF LimitReached(num_diagnoses') THEN "done" ELSE "solve"
  /\ UNCHANGED <<consistent, X, todo, status, stop_fixgen, walk>>

SolveUnsat ==
  /\ pc = "solve"
  /\ E # <<>>
  /\ ~Sat(Soft \ Head(E))
  /\ E0' = Head(E)
  /\ pc' = "check"
  /\ UNCHANGED <<consistent, lists, X, todo, status, stop_fixgen, walk>>

Exhausted ==
  /\ pc = "solve"
  /\ E = <<>>
  /\ pc' = "done"
  /\ UNCHANGED <<consistent, lists, E0, X, todo, status, stop_fixgen, walk>>

Timeout ==
  /\ pc = "check"
  /\ status' = "timeout"
  /\ pc' = "done"
  /\ UNCHANGED <<consistent, lists, E0, X, todo, stop_fixgen, walk>>

Cancel ==
  /\ pc = "check"
  /\ stop_fixgen
  /\ stop_fixgen' = FALSE
  /\ status' = "canceled"
  /\ pc' = "done"
  /\ UNCHANGED <<consistent, lists, E0, X, todo, walk>>

\* The constraints that were assumed: all of C without those of E0.  The
\* mutant assumes all of C.
AllAssumed == Soft
Assumed == Soft \ E0

\* The failed assumptions of the last call, in the order of the solver.
GetCore ==
  /\ pc = "check"
  /\ ~stop_fixgen
  /\ \E core \in SUBSET Assumed : ~Sat(core) /\ X' \in SetToSeqs(core)
  /\ todo' = X'
  /\ pc' = "minimise"
  /\ UNCHANGED <<consistent, lists, E0, status, stop_fixgen, walk>>

\* One element of the core, from front to back: its node is at the place that
\* leaves "todo" behind it, and is deleted if the rest is unsatisfiable.
MinimiseOne ==
  /\ pc = "minimise"
  /\ Len(X) > 1 /\ todo # <<>>
  /\ X' = IF Sat(ToSet(X) \ {Head(todo)})
             THEN X
             ELSE RemoveAt(X, Len(X) - Len(todo) + 1)
  /\ todo' = Tail(todo)
  /\ UNCHANGED <<consistent, pc, lists, E0, status, stop_fixgen, walk>>

\* The walk over E starts at its first node.
MinimiseEnd ==
  /\ pc = "minimise"
  /\ Len(X) <= 1 \/ todo = <<>>
  /\ pc' = "expand"
  /\ node' = IF E = <<>> THEN 0 ELSE 1
  /\ UNCHANGED <<consistent, lists, E0, X, todo, status, stop_fixgen, next, left, size>>

\* The node after the place p of the list l, or the list head.
Following(l, p) == IF p < Len(l) THEN p + 1 ELSE 0

\* What the loop does with its "next", taken before the body runs: nodes that
\* the body appends to E are reached, except by the last node.  The mutant
\* stops the walk one node too early.
StopEarly(l, p) == IF p + 1 < Len(l) THEN p + 1 ELSE 0
NextNode(l, p) == Following(l, p)

\* A partial diagnosis that meets the core stays.
ExpandSkip ==
  /\ pc = "expand"
  /\ node # 0
  /\ E[node] \cap ToSet(X) # {}
  /\ node' = NextNode(E, node)
  /\ UNCHANGED <<consistent, pc, lists, E0, X, todo, status, stop_fixgen, next, left, size>>

\* The others are extended: the inner loop over the core begins.
ExpandOne ==
  /\ pc = "expand"
  /\ node # 0
  /\ E[node] \cap ToSet(X) = {}
  /\ next' = NextNode(E, node)
  /\ left' = X
  /\ size' = Len(E)
  /\ pc' = "extend"
  /\ UNCHANGED <<consistent, lists, E0, X, todo, status, stop_fixgen, node>>

\* Some other list in E, as it has become, or in R is a subset of D.
Subsumed(D) ==
  \/ \E i \in DOMAIN E \ {node} : E[i] \subseteq D
  \/ \E i \in DOMAIN R : R[i] \subseteq D

\* One element of the core: the extension goes to the end of E.
Extend ==
  /\ pc = "extend"
  /\ left # <<>>
  /\ LET E1 == E[node] \cup {Head(left)}
     IN  E' = IF Subsumed(E1) THEN E ELSE Append(E, E1)
  /\ left' = Tail(left)
  /\ UNCHANGED <<consistent, pc, R, num_diagnoses, E0, X, todo, status, stop_fixgen,
                 node, next, size>>

\* The inner loop is through: the node is deleted, and the places behind it
\* move up by one.
Replace ==
  /\ pc = "extend"
  /\ left = <<>>
  /\ E' = RemoveAt(E, node)
  /\ node' = IF next = 0 THEN 0 ELSE next - 1
  /\ next' = 0 /\ size' = 0
  /\ pc' = "expand"
  /\ UNCHANGED <<consistent, R, num_diagnoses, E0, X, todo, status, stop_fixgen, left>>

ExpandEnd ==
  /\ pc = "expand"
  /\ node = 0
  /\ pc' = "solve"
  /\ UNCHANGED <<consistent, lists, E0, X, todo, status, stop_fixgen, walk>>

Step ==
  \/ SolveSat \/ SolveUnsat \/ Exhausted
  \/ Timeout \/ Cancel \/ GetCore
  \/ MinimiseOne \/ MinimiseEnd
  \/ ExpandSkip \/ ExpandOne \/ Extend \/ Replace \/ ExpandEnd

Interrupt ==
  /\ stop_fixgen' = TRUE
  /\ UNCHANGED <<consistent, pc, lists, E0, X, todo, status, walk>>

NextRun ==
  /\ pc = "done"
  /\ consistent' \in Sets!Solvers
  /\ pc' = "solve"
  /\ E' = <<{}>> /\ R' = <<>> /\ num_diagnoses' = 0
  /\ E0' = {} /\ X' = <<>> /\ todo' = <<>>
  /\ node' = 0 /\ next' = 0 /\ left' = <<>> /\ size' = 0
  /\ status' = "normal"
  /\ UNCHANGED stop_fixgen

Next == Step \/ Interrupt \/ NextRun

\* The worker thread is never starved; nothing is asked of the user.
Spec == Init /\ [][Next]_vars /\ WF_vars(Step)

----------------------------------------------------------------------------
\* Every step of the list search is a step of the set search, or none: the
\* walk over E misses no partial diagnosis although it changes the list under
\* its own cursor, and comparing an extension with those appended before it
\* makes no difference.
ImplementsFixGen == Sets!Spec

\* A run ends, whatever cores the solver returns in whatever order, and
\* however often the user asks to stop.
Terminates == pc = "solve" ~> pc = "done"

=============================================================================
