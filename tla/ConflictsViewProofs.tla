------------------------- MODULE ConflictsViewProofs -------------------------
(****************************************************************************)
(* What ConflictsView checks for three symbols and two soft constraints,    *)
(* proved for every set of symbols, every size of the table and every       *)
(* search: there is one worker at most, and the GUI thread finds the        *)
(* solutions it shows in the array although nothing locks it.               *)
(****************************************************************************)
EXTENDS ConflictsView, FiniteSetTheorems, TLAPS

\* The worker from its start to the moment it queues its results, ends that it
\* may meet there included; and what comes after.
Computing == {"allocate", "rows", "read", "start", "satconf", "search", "emit"}
                \cup Dead
Delivering == {"signal", "exited"}

\* While a worker computes, nothing is on the screen and no results are queued:
\* the array may go.  Results are there when they are queued, and the table of
\* solutions is filled from them only until the worker is joined.
Turns ==
  /\ worker \in {"none"} \cup Computing \cup Delivering
  /\ worker \in Computing => selector = 0 /\ ~shown
  /\ worker \notin Delivering => ~posted /\ gui # "results"
  /\ gui = "results" => ~posted
  /\ worker \in Delivering \cup {"emit"} => output = "valid"

\* The screen shows one of the solutions that there are.
OnScreen ==
  /\ selector \in Nat /\ num_solutions \in Nat
  /\ selector > 0 => output = "valid" /\ selector = num_solutions
  /\ shown => current \in Nat /\ current < selector

\* The diagnoses can be counted.
Countable == IsFiniteSet(R)

IInv == OneWorker /\ Turns /\ OnScreen /\ Countable

\* The flag of the handshake is the one of this run, and a wait is for a worker.
Handshake ==
  /\ satconf_cancelled /\ thread => worker = "exited"
  /\ gui = "waiting" => thread

LEMMA InitInv == Init => IInv
  BY FS_EmptySet DEF Init, IInv, OneWorker, Turns, OnScreen, Countable, Computing, Delivering, Dead

\* Each step of the search leaves a set that can be counted.
LEMMA SearchCountable ==
  ASSUME IsFiniteSet(R), Search!Step \/ Search!NextRun
  PROVE  IsFiniteSet(R')
<1>1. CASE Search!SolveSat
  <2>1. PICK e : R' = R \cup {e} \/ R' = R
    BY <1>1 DEF Search!SolveSat, Search!Keep
  <2> QED
    BY <2>1, FS_AddElement
<1>2. CASE Search!NextRun
  BY <1>2, FS_EmptySet DEF Search!NextRun
<1>3. CASE \/ Search!SolveUnsat \/ Search!Exhausted \/ Search!Timeout \/ Search!Cancel
           \/ Search!GetCore \/ Search!MinimiseOne \/ Search!MinimiseEnd
           \/ Search!ExpandOne \/ Search!ExpandEnd
  BY <1>3 DEF Search!SolveUnsat, Search!Exhausted, Search!Timeout, Search!Cancel,
              Search!GetCore, Search!MinimiseOne, Search!MinimiseEnd,
              Search!ExpandOne, Search!ExpandEnd, Search!search
<1> QED
  BY <1>1, <1>2, <1>3 DEF Search!Step

\* The GUI thread.
LEMMA GuiInv ==
  ASSUME IInv, User \/ WaitEnd \/ UpdateResults \/ Join
  PROVE  IInv'
<1>1. CASE AddSymbol
  BY <1>1 DEF AddSymbol, outVars, searchVars, IInv, OneWorker, Turns, OnScreen, Countable
<1>2. CASE RemoveSymbol
  BY <1>2 DEF RemoveSymbol, outVars, searchVars, IInv, OneWorker, Turns, OnScreen, Countable
<1>3. CASE ShowSolution
  <2>1. /\ UNCHANGED <<gui, selector, thread, worker, outVars, posted, searchVars>>
        /\ shown' /\ current' \in 0 .. selector - 1
    BY <1>3 DEF ShowSolution
  <2>2. selector > 0 /\ current' \in Nat /\ current' < selector
    BY <2>1 DEF IInv, OnScreen
  <2> QED
    BY <2>1, <2>2 DEF outVars, searchVars, IInv, OneWorker, Turns, OnScreen, Countable
<1>4. CASE StartRun
  <2>1. worker = "none" /\ worker' = "allocate" /\ thread'
    BY <1>4 DEF StartRun, IInv, OneWorker
  <2>2. selector' = 0 /\ shown' = FALSE /\ UNCHANGED <<gui, outVars, posted, searchVars>>
    BY <1>4 DEF StartRun, ClearShown
  <2> QED
    BY <2>1, <2>2 DEF outVars, searchVars, IInv, OneWorker, Turns, OnScreen, Countable,
                      Computing, Delivering
<1>5. CASE CancelRun
  BY <1>5 DEF CancelRun, outVars, searchVars, IInv, OneWorker, Turns, OnScreen, Countable
<1>6. CASE WaitEnd
  BY <1>6 DEF WaitEnd, outVars, searchVars, IInv, OneWorker, Turns, OnScreen, Countable
<1>7. CASE UpdateResults
  <2>1. /\ posted /\ posted' = FALSE /\ gui' = "results"
        /\ UNCHANGED <<thread, worker, outVars, searchVars>>
    BY <1>7 DEF UpdateResults
  <2>2. worker \in Delivering /\ output = "valid" /\ num_solutions \in Nat
    BY <2>1 DEF IInv, Turns, OnScreen
  <2>3. CASE num_solutions > 0
    <3>1. selector' = num_solutions /\ shown' = TRUE /\ current' = 0
      BY <1>7, <2>3 DEF UpdateResults
    <3> QED
      BY <2>1, <2>2, <2>3, <3>1 DEF outVars, searchVars, IInv, OneWorker, Turns, OnScreen,
                                  Countable, Computing, Delivering, Dead
  <2>4. CASE ~(num_solutions > 0)
    <3>1. UNCHANGED <<selector, shown, current>>
      BY <1>7, <2>4 DEF UpdateResults
    <3> QED
      BY <2>1, <2>2, <3>1 DEF outVars, searchVars, IInv, OneWorker, Turns, OnScreen,
                            Countable, Computing, Delivering, Dead
  <2> QED BY <2>3, <2>4
<1>8. CASE Join
  <2>1. /\ gui = "results" /\ worker = "exited" /\ worker' = "none" /\ ~thread'
        /\ gui' = "idle"
        /\ UNCHANGED <<selector, shown, current, outVars, posted, searchVars>>
    BY <1>8 DEF Join, JoinThread
  <2> QED
    BY <2>1 DEF outVars, searchVars, IInv, OneWorker, Turns, OnScreen, Countable,
                Computing, Delivering, Dead
<1> QED
  BY <1>1, <1>2, <1>3, <1>4, <1>5, <1>6, <1>7, <1>8 DEF User

\* A step of the worker while it computes, one that does not write the results.
LEMMA ComputingStep ==
  ASSUME IInv, UNCHANGED <<gui, selector, shown, current, thread, num_solutions, posted>>,
         worker \in Computing, worker' \in Computing \ {"emit"}, IsFiniteSet(R')
  PROVE  IInv'
BY DEF IInv, OneWorker, Turns, OnScreen, Countable, Computing, Delivering, Dead

\* The step that writes them.
LEMMA ResultsStep ==
  ASSUME IInv, UNCHANGED <<gui, selector, shown, current, thread, posted, R>>,
         worker \in Computing, worker' = "emit", output' = "valid", num_solutions' \in Nat
  PROVE  IInv'
BY DEF IInv, OneWorker, Turns, OnScreen, Countable, Computing, Delivering, Dead

LEMMA WorkerInv == ASSUME IInv, Worker PROVE IInv'
<1>1. CASE Allocate \/ NextRow \/ ReadRow
  <2>1. /\ UNCHANGED <<gui, selector, shown, current, thread, num_solutions, posted, R>>
        /\ worker \in Computing
        /\ worker' \in Computing \ {"emit"}
    BY <1>1 DEF Allocate, NextRow, ReadRow, guiVars, outVars, searchVars, Computing, Dead
  <2> QED
    BY <2>1, ComputingStep DEF IInv, Countable
<1>2. CASE FreeSolutions
  <2>1. /\ UNCHANGED <<gui, selector, shown, current, thread, num_solutions, posted, R>>
        /\ worker \in Computing /\ worker' \in Computing \ {"emit"}
    BY <1>2 DEF FreeSolutions, guiVars, searchVars, Computing, Dead
  <2> QED
    BY <2>1, ComputingStep DEF IInv, Countable
<1>3. CASE NoSearch
  <2>1. /\ UNCHANGED <<gui, selector, shown, current, thread, posted, R>>
        /\ worker \in Computing /\ worker' = "emit"
        /\ output' = "valid" /\ num_solutions' \in Nat
    BY <1>3 DEF NoSearch, guiVars, searchVars, Computing
  <2> QED
    BY <2>1, ResultsStep
<1>4. CASE EnterSearch \/ SearchStep
  <2>1. /\ UNCHANGED <<gui, selector, shown, current, thread, num_solutions, posted>>
        /\ worker \in Computing /\ worker' \in Computing \ {"emit"}
        /\ Search!Step \/ Search!NextRun
    BY <1>4 DEF EnterSearch, SearchStep, guiVars, outVars, Computing, Dead
  <2> QED
    BY <2>1, SearchCountable, ComputingStep DEF IInv, Countable
<1>5. CASE LeaveSearch
  <2>1. /\ UNCHANGED <<gui, selector, shown, current, thread, posted, R>>
        /\ worker \in Computing /\ worker' = "emit"
        /\ output' = "valid" /\ num_solutions' = Cardinality(R)
    BY <1>5 DEF LeaveSearch, guiVars, searchVars, Computing
  <2>2. num_solutions' \in Nat
    BY <2>1, FS_CardinalityType DEF IInv, Countable
  <2> QED
    BY <2>1, <2>2, ResultsStep
<1>6. CASE Emit
  BY <1>6 DEF Emit, QueueResults, guiVars, outVars, searchVars, IInv, OneWorker, Turns,
              OnScreen, Countable, Computing, Delivering, Dead
<1>7. CASE Signal
  BY <1>7 DEF Signal, guiVars, outVars, searchVars, IInv, OneWorker, Turns, OnScreen,
              Countable, Computing, Delivering, Dead
<1> QED
  BY <1>1, <1>2, <1>3, <1>4, <1>5, <1>6, <1>7 DEF Worker

LEMMA NextInv == ASSUME IInv, [Next]_vars PROVE IInv'
<1>1. CASE UNCHANGED vars
  BY <1>1 DEF vars, guiVars, outVars, searchVars, IInv, OneWorker, Turns, OnScreen, Countable
<1>2. CASE User \/ WaitEnd \/ UpdateResults \/ Join
  BY <1>2, GuiInv
<1>3. CASE Worker
  BY <1>3, WorkerInv
<1> QED
  BY <1>1, <1>2, <1>3 DEF Next

LEMMA HandshakeInv == ASSUME IInv, Handshake, [Next]_vars PROVE Handshake'
<1>1. CASE UNCHANGED vars
  BY <1>1 DEF vars, guiVars, Handshake
<1>2. CASE AddSymbol \/ RemoveSymbol \/ ShowSolution \/ WaitEnd
  BY <1>2 DEF AddSymbol, RemoveSymbol, ShowSolution, WaitEnd, Handshake
<1>3. CASE StartRun
  BY <1>3 DEF StartRun, NotCancelled, Handshake
<1>4. CASE CancelRun
  BY <1>4 DEF CancelRun, Handshake
<1>5. CASE UpdateResults \/ Join
  BY <1>5 DEF UpdateResults, Join, Handshake
<1>6. CASE Allocate \/ NextRow \/ ReadRow \/ FreeSolutions \/ NoSearch \/ EnterSearch
           \/ SearchStep \/ LeaveSearch \/ Emit
  <2>1. /\ UNCHANGED <<satconf_cancelled, thread, gui>>
        /\ worker # "exited"
    BY <1>6 DEF Allocate, NextRow, ReadRow, FreeSolutions, NoSearch, EnterSearch, SearchStep,
                LeaveSearch, Emit, guiVars
  <2> QED
    BY <2>1 DEF Handshake
<1>7. CASE Signal
  BY <1>7 DEF Signal, SignalGui, guiVars, Handshake
<1> QED
  BY <1>1, <1>2, <1>3, <1>4, <1>5, <1>6, <1>7 DEF Next, User, Worker

\* A second worker is never started, and the one there is, is joined
\* (calculateFixes, updateResults, qconf.cc:2348-2379).
THEOREM AlwaysOneWorker == Spec => []OneWorker
<1>1. Init => IInv
  BY InitInv
<1>2. IInv /\ [Next]_vars => IInv'
  BY NextInv
<1>3. IInv => OneWorker
  BY DEF IInv
<1> QED
  BY <1>1, <1>2, <1>3, PTL DEF Spec

\* Whatever the user clicks on while the worker frees and replaces the array of
\* solutions, what is on the screen is in it (qconf.cc:2187, 2296-2309, 2366).
THEOREM ShownStaysValid == Spec => []ShownIsValid
<1>1. Init => IInv
  BY InitInv
<1>2. IInv /\ [Next]_vars => IInv'
  BY NextInv
<1>3. IInv => ShownIsValid
  BY DEF IInv, OnScreen, ShownIsValid
<1> QED
  BY <1>1, <1>2, <1>3, PTL DEF Spec

\* A cancel click comes back only from a worker that has left its last statement
\* (qconf.cc:2372-2379, 2310-2313).
THEOREM CancelWaits == Spec => WaitsForWorker
<1>1. Init => IInv /\ Handshake
  BY InitInv DEF Init, Handshake
<1>2. IInv /\ Handshake /\ [Next]_vars => IInv' /\ Handshake'
  BY NextInv, HandshakeInv
<1>3. IInv /\ Handshake /\ [Next]_vars
        => [gui = "waiting" /\ gui' = "idle" => worker = "exited"]_vars
  <2> SUFFICES ASSUME Handshake, Next, gui = "waiting", gui' = "idle"
               PROVE  worker = "exited"
    OBVIOUS
  <2>1. CASE WaitEnd
    BY <2>1 DEF WaitEnd, Handshake
  <2>2. CASE User \/ UpdateResults \/ Join
    BY <2>2 DEF User, AddSymbol, RemoveSymbol, ShowSolution, StartRun, CancelRun,
                UpdateResults, Join
  <2>3. CASE Worker
    <3>1. gui' = gui
      BY <2>3 DEF Worker, Allocate, NextRow, ReadRow, FreeSolutions, NoSearch, EnterSearch,
                  SearchStep, LeaveSearch, Emit, Signal, guiVars
    <3> QED
      BY <3>1
  <2> QED
    BY <2>1, <2>2, <2>3 DEF Next
<1> QED
  BY <1>1, <1>2, <1>3, PTL DEF Spec, WaitsForWorker

----------------------------------------------------------------------------
\* The search in the resolver: what is proved of FixGen for a search alone holds
\* of the one that the worker runs and the button interrupts.
SearchProofs == INSTANCE FixGenProofs

LEMMA SearchSame ==
  /\ Search!Step => SearchProofs!Step
  /\ Search!NextRun => SearchProofs!NextRun
<1> USE DEF Search!Sat, SearchProofs!Sat, Search!search, SearchProofs!search
<1>1. Search!SolveSat => SearchProofs!SolveSat
  BY DEF Search!SolveSat, SearchProofs!SolveSat, Search!Keep, SearchProofs!Keep,
         Search!LimitReached, SearchProofs!LimitReached
<1>2. /\ Search!SolveUnsat => SearchProofs!SolveUnsat
      /\ Search!Exhausted => SearchProofs!Exhausted
      /\ Search!Timeout => SearchProofs!Timeout
      /\ Search!Cancel => SearchProofs!Cancel
      /\ Search!GetCore => SearchProofs!GetCore
  BY DEF Search!SolveUnsat, SearchProofs!SolveUnsat, Search!Exhausted, SearchProofs!Exhausted,
         Search!Timeout, SearchProofs!Timeout, Search!Cancel, SearchProofs!Cancel,
         Search!GetCore, SearchProofs!GetCore
<1>3. /\ Search!MinimiseOne => SearchProofs!MinimiseOne
      /\ Search!MinimiseEnd => SearchProofs!MinimiseEnd
  BY DEF Search!MinimiseOne, SearchProofs!MinimiseOne, Search!MinimiseEnd,
         SearchProofs!MinimiseEnd, Search!Minimised, SearchProofs!Minimised,
         Search!HasLength1, SearchProofs!HasLength1
<1>4. /\ Search!ExpandOne => SearchProofs!ExpandOne
      /\ Search!ExpandEnd => SearchProofs!ExpandEnd
  BY DEF Search!ExpandOne, SearchProofs!ExpandOne, Search!ExpandEnd, SearchProofs!ExpandEnd,
         Search!Extensions, SearchProofs!Extensions, Search!Others, SearchProofs!Others
<1>5. Search!NextRun => SearchProofs!NextRun
  BY DEF Search!NextRun, SearchProofs!NextRun, Search!Solvers, SearchProofs!Solvers
<1> QED
  BY <1>1, <1>2, <1>3, <1>4, <1>5 DEF Search!Step, SearchProofs!Step

\* The resolver does nothing with the search but what FixGen allows for.
LEMMA StepsOfSearch == [Next]_vars => [SearchProofs!Next]_(SearchProofs!vars)
<1> SUFFICES ASSUME [Next]_vars PROVE SearchProofs!Next \/ UNCHANGED SearchProofs!vars
  OBVIOUS
<1> USE DEF SearchProofs!vars, searchVars
<1>1. CASE UNCHANGED vars
  BY <1>1 DEF vars
<1>2. CASE AddSymbol \/ RemoveSymbol \/ ShowSolution \/ StartRun \/ WaitEnd \/ UpdateResults \/ Join
  BY <1>2 DEF AddSymbol, RemoveSymbol, ShowSolution, StartRun, WaitEnd, UpdateResults, Join
<1>3. CASE CancelRun
  BY <1>3 DEF CancelRun, SearchProofs!Next, SearchProofs!Interrupt, SearchProofs!search
<1>4. CASE Allocate \/ NextRow \/ ReadRow \/ FreeSolutions \/ NoSearch \/ LeaveSearch \/ Emit \/ Signal
  BY <1>4 DEF Allocate, NextRow, ReadRow, FreeSolutions, NoSearch, LeaveSearch, Emit, Signal
<1>5. CASE EnterSearch \/ SearchStep
  BY <1>5, SearchSame DEF EnterSearch, SearchStep, SearchProofs!Next
<1> QED
  BY <1>1, <1>2, <1>3, <1>4, <1>5 DEF Next, User, Worker

LEMMA SearchStarts == Init => SearchProofs!IInv
<1> SUFFICES ASSUME Init PROVE SearchProofs!IInv
  OBVIOUS
<1>1. /\ consistent = {} /\ pc = "done" /\ E = {} /\ R = {} /\ num_diagnoses = 0 /\ E0 = {}
      /\ X = {} /\ todo = {} /\ status = "normal" /\ stop_fixgen = FALSE
  BY DEF Init
<1>2. SearchProofs!TypeOK
  <2>1. {} \in SearchProofs!Solvers
    BY DEF SearchProofs!Solvers
  <2>2. 0 \in 0 .. MaxDiagnoses
    BY SearchAssumption
  <2> QED
    BY <1>1, <2>1, <2>2 DEF SearchProofs!TypeOK, SearchProofs!Places, SearchProofs!Statuses
<1>3. SearchProofs!CorrectionSets = {}
  BY <1>1 DEF SearchProofs!CorrectionSets, SearchProofs!Sat
<1>4. SearchProofs!Antichain /\ SearchProofs!NothingLost /\ SearchProofs!Sound
  BY <1>1, <1>3 DEF SearchProofs!Antichain, SearchProofs!NothingLost, SearchProofs!Sound
<1>5. SearchProofs!NoConflict /\ SearchProofs!CoreInv /\ SearchProofs!Progress
  BY <1>1 DEF SearchProofs!NoConflict, SearchProofs!CoreInv, SearchProofs!Progress, SearchProofs!Sat
<1>6. SearchProofs!Counted
  <2>1. IsFiniteSet({}) /\ Cardinality({}) = 0
    BY FS_EmptySet
  <2>2. SearchProofs!IsFiniteSet({}) /\ SearchProofs!Cardinality({}) = 0
    BY <2>1 DEF IsFiniteSet, SearchProofs!IsFiniteSet, Cardinality, SearchProofs!Cardinality
  <2> QED
    BY <1>1, <2>2 DEF SearchProofs!Counted, SearchProofs!CounterExact
<1> QED
  BY <1>2, <1>4, <1>5, <1>6 DEF SearchProofs!IInv

\* Whatever the user clicks on and whenever a run is cancelled, the diagnoses of
\* a run are minimal, and all of them when it ends by itself (cf_fixgen.c:138-308).
THEOREM ResolverReports == Spec => [](Search!DiagnosesMinimal /\ Search!ExhaustiveWhenNormal)
<1>1. Init => SearchProofs!IInv
  BY SearchStarts
<1>2. SearchProofs!IInv /\ [Next]_vars => SearchProofs!IInv'
  BY StepsOfSearch, SearchProofs!NextInv, SearchAssumption
  DEF IsFiniteSet, SearchProofs!IsFiniteSet
<1>3. SearchProofs!IInv => Search!DiagnosesMinimal /\ Search!ExhaustiveWhenNormal
  <2>1. SearchProofs!IInv => SearchProofs!DiagnosesMinimal /\ SearchProofs!ExhaustiveWhenNormal
    BY SearchProofs!InvMinimal, SearchProofs!InvExhaustive, SearchAssumption
    DEF IsFiniteSet, SearchProofs!IsFiniteSet
  <2> QED
    BY <2>1
    DEF SearchProofs!DiagnosesMinimal, SearchProofs!ExhaustiveWhenNormal,
        Search!DiagnosesMinimal, Search!ExhaustiveWhenNormal,
        SearchProofs!MinimalCorrectionSets, Search!MinimalCorrectionSets,
        SearchProofs!CorrectionSets, Search!CorrectionSets, SearchProofs!Sat, Search!Sat
<1> QED
  BY <1>1, <1>2, <1>3, PTL DEF Spec
=============================================================================
