--------------------------- MODULE ConflictsView ----------------------------
(****************************************************************************)
(* The conflict resolver of xconfig (class ConflictsView of qconf.cc): the  *)
(* GUI thread, the thread that computes the fixes, and between them the     *)
(* table of wanted values, the array of solutions, the flag stop_fixgen and *)
(* the handshake over satconf_cancelled.  The search the worker runs is the *)
(* one of FixGen.                                                           *)
(*                                                                          *)
(* A row of the table is its symbol, the wanted value is left out.  Message *)
(* boxes are modal: while one is open no other button can be pressed.       *)
(****************************************************************************)
EXTENDS Naturals, Sequences, FiniteSets

CONSTANTS BoolSyms,      \* symbols of type bool or tristate
          OtherSyms,     \* symbols of type int, hex or string
          Prefixes,      \* the pairs <<s, r>> of symbols, s's name a prefix of r's
          MaxRows,       \* bound of the model: rows in the table
          Soft, MaxDiagnoses

ASSUME SearchAssumption == IsFiniteSet(Soft) /\ MaxDiagnoses \in Nat \ {0}

VARIABLES
  \* the GUI thread
  gui,             \* idle, waiting (in cv.wait), results (in updateResults)
  conflictsTable,  \* the rows, a list of symbols
  selector,        \* entries of solutionSelector
  shown,           \* does solutionTable have rows?
  current,         \* current_solution_number, -1 as NoSolution
  label,           \* text of the button: calculate or cancel
  thread,          \* runSatConfAsyncThread # nullptr
  \* the worker thread
  worker,          \* its place in runSatConfAsync()
  row, allocated,  \* the loop over the rows, the size of the array p
  \* shared
  output,          \* solution_output: none, valid or freed
  num_solutions, fixgen_status,
  posted,          \* resultsReady is in the event queue of the GUI
  satconf_cancelled,
  requested,       \* history: the button was pressed during this run
  \* the search
  consistent, pc, E, R, num_diagnoses, E0, X, todo, status, stop_fixgen

Search == INSTANCE FixGen

searchVars == <<consistent, pc, E, R, num_diagnoses, E0, X, todo, status>>
guiVars == <<gui, conflictsTable, selector, shown, current, thread, requested>>
outVars == <<output, num_solutions, fixgen_status>>
vars == <<guiVars, label, worker, row, allocated, outVars, posted,
          satconf_cancelled, searchVars, stop_fixgen>>

NoSolution == MaxDiagnoses + 1
Symbols == BoolSyms \cup OtherSyms

\* Ends of the worker that take the program or the thread with them: a failed
\* assertion, an access outside the table or the array, no memory.
Dead == {"aborted", "crashed", "failed"}
Running == worker \notin {"aborted", "crashed"}

Init ==
  /\ gui = "idle" /\ conflictsTable = <<>>
  /\ selector = 0 /\ shown = FALSE /\ current = NoSolution
  /\ label = "calculate" /\ thread = FALSE
  /\ worker = "none" /\ row = 0 /\ allocated = 0
  /\ output = "none" /\ num_solutions = 0 /\ fixgen_status = "normal"
  /\ posted = FALSE /\ satconf_cancelled = FALSE /\ requested = FALSE
  /\ consistent = {} /\ pc = "done" /\ E = {} /\ R = {} /\ num_diagnoses = 0
  /\ E0 = {} /\ X = {} /\ todo = {} /\ status = "normal"
  /\ stop_fixgen = FALSE

----------------------------------------------------------------------------
\* addSymbolFromMenu(): a symbol gets a row, whatever its type is.  QAbstract-
\* ItemModel::match() looks for a row that starts with the symbol's name: such
\* a row counts as the symbol's own, and nothing is added.
AddSymbol ==
  /\ Running /\ gui = "idle" /\ Len(conflictsTable) < MaxRows
  /\ \E s \in Symbols :
       /\ \A i \in DOMAIN conflictsTable :
            conflictsTable[i] # s /\ <<s, conflictsTable[i]>> \notin Prefixes
       /\ conflictsTable' = Append(conflictsTable, s)
  /\ UNCHANGED <<gui, selector, shown, current, thread, requested, label,
       worker, row, allocated, outVars, posted, satconf_cancelled, searchVars,
       stop_fixgen>>

\* removeSymbol(): a block of selected rows.
RemoveSymbol ==
  /\ Running /\ gui = "idle"
  /\ \E i, j \in DOMAIN conflictsTable :
       /\ i <= j
       /\ conflictsTable' = SubSeq(conflictsTable, 1, i - 1)
                            \o SubSeq(conflictsTable, j + 1, Len(conflictsTable))
  /\ UNCHANGED <<gui, selector, shown, current, thread, requested, label,
       worker, row, allocated, outVars, posted, satconf_cancelled, searchVars,
       stop_fixgen>>

\* changeSolutionTable(): the user looks at another solution.
ShowSolution ==
  /\ Running /\ gui = "idle"
  /\ \E i \in 0 .. selector - 1 : current' = i
  /\ output # "none"
  /\ shown' = TRUE
  /\ UNCHANGED <<gui, conflictsTable, selector, thread, requested, label,
       worker, row, allocated, outVars, posted, satconf_cancelled, searchVars,
       stop_fixgen>>

\* What calculateFixes() empties before it starts the worker.  The mutant
\* leaves the old solutions on the screen.
KeepShown == selector' = selector /\ shown' = shown
ClearShown == selector' = 0 /\ shown' = FALSE

\* The handshake starts anew with every run; the mutant keeps what the last
\* run has left.
KeepCancelled == satconf_cancelled
NotCancelled == FALSE

\* calculateFixes() without a worker: start one.
StartRun ==
  /\ Running /\ gui = "idle" /\ conflictsTable # <<>> /\ ~thread
  /\ ClearShown
  /\ satconf_cancelled' = NotCancelled
  /\ thread' = TRUE
  /\ worker' = "allocate"
  /\ requested' = FALSE
  /\ UNCHANGED <<gui, conflictsTable, current, label, row, allocated, outVars,
       posted, searchVars, stop_fixgen>>

\* calculateFixes() with a worker: interrupt_fix_generation(), then wait.
CancelRun ==
  /\ Running /\ gui = "idle" /\ conflictsTable # <<>> /\ thread
  /\ stop_fixgen' = TRUE
  /\ requested' = TRUE
  /\ gui' = "waiting"
  /\ UNCHANGED <<conflictsTable, selector, shown, current, thread, label,
       worker, row, allocated, outVars, posted, satconf_cancelled, searchVars>>

\* The wait ends.
WaitEnd ==
  /\ Running /\ gui = "waiting" /\ satconf_cancelled
  /\ gui' = "idle"
  /\ UNCHANGED <<conflictsTable, selector, shown, current, thread, requested,
       label, worker, row, allocated, outVars, posted, satconf_cancelled,
       searchVars, stop_fixgen>>

\* The text of the button after a run.
ResetLabel == "calculate"

\* updateResults(), up to the join.
UpdateResults ==
  /\ Running /\ gui = "idle" /\ posted
  /\ posted' = FALSE
  /\ gui' = "results"
  /\ label' = ResetLabel
  /\ IF num_solutions > 0
       THEN selector' = num_solutions /\ shown' = TRUE /\ current' = 0
       ELSE UNCHANGED <<selector, shown, current>>
  /\ UNCHANGED <<conflictsTable, thread, requested, worker, row, allocated,
       outVars, satconf_cancelled, searchVars, stop_fixgen>>

\* The worker can be joined when it has returned; the mutant forgets about it
\* without waiting.
Detach == UNCHANGED worker
JoinThread == worker = "exited" /\ worker' = "none"

Join ==
  /\ Running /\ gui = "results" /\ JoinThread
  /\ gui' = "idle"
  /\ thread' = FALSE
  /\ UNCHANGED <<conflictsTable, selector, shown, current, requested, label,
       row, allocated, outVars, posted, satconf_cancelled, searchVars, stop_fixgen>>

----------------------------------------------------------------------------
\* The size of the array is the number of rows at this moment; without memory
\* the worker returns and tells nobody.
Allocate ==
  /\ worker = "allocate"
  /\ \/ allocated' = Len(conflictsTable) /\ row' = 0 /\ worker' = "rows"
     \/ worker' = "failed" /\ UNCHANGED <<allocated, row>>
  /\ UNCHANGED <<guiVars, label, outVars, posted, satconf_cancelled,
       searchVars, stop_fixgen>>

\* The test of the loop over the rows, then the access to the row: the table
\* may have changed in between, and since the array was allocated.
MoreRows == row < Len(conflictsTable)

NextRow ==
  /\ worker = "rows"
  /\ worker' = IF MoreRows THEN "read" ELSE "start"
  /\ UNCHANGED <<guiVars, label, row, allocated, outVars, posted,
       satconf_cancelled, searchVars, stop_fixgen>>

ReadRow ==
  /\ worker = "read"
  /\ worker' = IF row >= Len(conflictsTable) \/ row >= allocated THEN "crashed"
               ELSE IF conflictsTable[row + 1] \in BoolSyms THEN "rows"
               ELSE "aborted"
  /\ row' = row + 1
  /\ UNCHANGED <<guiVars, label, allocated, outVars, posted,
       satconf_cancelled, searchVars, stop_fixgen>>

\* The button becomes a cancel button; the solutions of the last run are freed.
FreeSolutions ==
  /\ worker = "start"
  /\ label' = "cancel"
  /\ output' = IF output = "none" THEN "none" ELSE "freed"
  /\ worker' = "satconf"
  /\ UNCHANGED <<guiVars, row, allocated, num_solutions, fixgen_status, posted,
       satconf_cancelled, searchVars, stop_fixgen>>

\* run_satconf() without a search: every wanted value is within range, or the
\* solver finds no conflict.  One solution: the wanted values.
NoSearch ==
  /\ worker = "satconf"
  /\ output' = "valid" /\ num_solutions' = 1 /\ fixgen_status' = "normal"
  /\ worker' = "emit"
  /\ UNCHANGED <<guiVars, label, row, allocated, posted, satconf_cancelled,
       searchVars, stop_fixgen>>

\* run_satconf() finds a conflict and enters the search ...
EnterSearch ==
  /\ worker = "satconf"
  /\ Search!NextRun
  /\ Soft \notin consistent'
  /\ worker' = "search"
  /\ UNCHANGED <<guiVars, label, row, allocated, outVars, posted, satconf_cancelled>>

\* ... runs it ...
SearchStep ==
  /\ worker = "search"
  /\ Search!Step
  /\ UNCHANGED <<guiVars, label, worker, row, allocated, outVars, posted,
       satconf_cancelled>>

\* ... and returns its diagnoses.
LeaveSearch ==
  /\ worker = "search" /\ pc = "done"
  /\ output' = "valid" /\ num_solutions' = Cardinality(R) /\ fixgen_status' = status
  /\ worker' = "emit"
  /\ UNCHANGED <<guiVars, label, row, allocated, posted, satconf_cancelled,
       searchVars, stop_fixgen>>

\* emit resultsReady() only queues a call of updateResults(); the mutant forgets
\* it when there is no solution.
QueueSome == posted' = (num_solutions > 0)
QueueResults == posted' = TRUE

Emit ==
  /\ worker = "emit"
  /\ QueueResults
  /\ worker' = "signal"
  /\ UNCHANGED <<guiVars, label, row, allocated, outVars, satconf_cancelled,
       searchVars, stop_fixgen>>

\* satconf_cancelled under the mutex, the notification, the return.  The
\* mutant returns without it.
SignalNobody == UNCHANGED satconf_cancelled
SignalGui == satconf_cancelled' = TRUE

Signal ==
  /\ worker = "signal"
  /\ SignalGui
  /\ worker' = "exited"
  /\ UNCHANGED <<guiVars, label, row, allocated, outVars, posted, searchVars,
       stop_fixgen>>

Worker ==
  \/ Allocate \/ NextRow \/ ReadRow \/ FreeSolutions
  \/ NoSearch \/ EnterSearch \/ SearchStep \/ LeaveSearch
  \/ Emit \/ Signal

User == AddSymbol \/ RemoveSymbol \/ ShowSolution \/ StartRun \/ CancelRun

Next == User \/ WaitEnd \/ UpdateResults \/ Join \/ Worker

\* The worker is a thread of the system; the GUI thread returns from a wait or
\* a join that can end, and its event loop takes every posted event in turn:
\* clicks cannot keep it from updateResults() for ever.  The user is free.
Spec ==
  /\ Init /\ [][Next]_vars
  /\ WF_vars(Worker)
  /\ WF_vars(WaitEnd) /\ WF_vars(Join)
  /\ SF_vars(UpdateResults)

----------------------------------------------------------------------------
\* What the user can reach on the screen is in the array of solutions: the
\* worker frees and replaces that array without a lock, and the GUI thread
\* indexes it on every click on a solution and on every change of the
\* configuration (qconf.cc:2000, 2187, 2234).
ShownIsValid ==
  /\ selector > 0 => output = "valid" /\ selector = num_solutions
  /\ shown => output = "valid" /\ current < num_solutions

\* There is never a second worker, and a worker that is gone is joined: the
\* pointer is cleared only after the thread has left its last statement.
OneWorker == worker # "none" <=> thread

\* A cancel click comes back only after the worker has left the search and
\* written the solutions, although the flag it waits for is used for every run.
WaitsForWorker == [][gui = "waiting" /\ gui' = "idle" => worker = "exited"]_vars

\* A click on the button does not freeze the window: the wait for the worker
\* ends unless the worker died (of a failed calloc, which it tells nobody).
WindowReturns == gui = "waiting" ~> (gui # "waiting" \/ worker \in Dead)

\* Every run is delivered and joined, however often it is cancelled.
RunDelivered == thread ~> (~thread \/ worker \in Dead)

\* "abort and return results if cancelled by user" (cf_fixgen.c:216): a run
\* that reports to be cancelled was cancelled by the user.
CanceledOnRequest == fixgen_status = "canceled" /\ posted => requested

=============================================================================
