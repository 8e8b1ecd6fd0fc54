# ConfigFix in TLA+

This directory holds a verification development of ConfigFix, the conflict
resolver for Kconfig in `scripts/kconfig`: TLA+ modules translated from the
source, TLC configurations that check them on small instances, and TLAPS proofs
of what the search, its lists, the two front ends that run it, the value cache,
saving and loading, the application of a fix and the files promise.  Paths below are relative to
`scripts/kconfig` unless they begin with `src/`.

A user of Kconfig wants a symbol to have a value that its dependencies forbid.
ConfigFix translates the Kconfig program into clauses, takes the current values
of all other symbols as soft constraints, and searches for *diagnoses*: minimal
sets of soft constraints to give up (the RangeFix algorithm).  Each diagnosis
becomes a *fix*, a list of symbols with new values, and the user applies one.

## 1. Inventory

| component | source | state | operations | in contact with |
|---|---|---|---|---|
| fix generation | `cf_fixgen.c` | lists of partial and finished diagnoses, unsat core, exit status, flag `stop_fixgen` | `fixgen_run`, `generate_diagnoses`, `minimise_unsat_core`, `convert_diagnoses` | the SAT solver (calls), the front ends (flag, result list) |
| running and applying | `configfix.c` | `init_done`, the solver, the conflict symbols of the last run | `run_satconf`, `run_satconf_list`, `apply_fix`, `interrupt_fix_generation` | fix generation, symbol engine |
| conflict resolver of xconfig | `qconf.cc`, class `ConflictsView` | table of wanted values, solutions, button, worker thread, mutex, condition variable, `satconf_cancelled` | add, remove, calculate or cancel, show, apply | running and applying (in a second thread), symbol engine |
| cfixconf | `cfixconf.c` | conflict list, fixes, `interrupted`, `running_cf` | add, rm, clear, show, solve, apply, open, write; SIGINT | running and applying, `confdata.c` |
| symbol engine | `symbol.c`, `expr.h`, `lkc.h` | per symbol: user value, value, visibility, dependencies, flags; priorities of choice members; `modules_val` | `sym_calc_value`, `sym_calc_choice`, `sym_set_tristate_value`, `choice_set_value`, `sym_clear_all_valid` | everything |
| expressions | `expr.c` | hash-consed trees, cached values | value, simplification, comparison | symbol engine, parser |
| .config | `confdata.c` | the files `.config`, `.config.old`, `auto.conf`, `autoconf.h`, one empty file per symbol, the flag *changed* | `conf_read`, `conf_write`, `conf_write_autoconf`, `conf_write_defconfig` | symbol engine, build system |
| constraint construction | `cf_constraints.c`, `cf_expr.c` | per symbol: formulas (`pexpr`, reference counted) and SAT variables (`fexpr`) | `build_constraints` | menu tree, symbol engine |
| clauses and assumptions | `cf_utils.c`, `picosat_functions.c` | SAT variables, the solver's clauses | `construct_cnf_clauses`, `sym_add_assumption` | solver |
| menu tree | `menu.c` | menus, prompts, properties | `menu_add_*`, `menu_finalize` | parser, symbol engine |
| parser, preprocessor | `parser.y`, `lexer.l`, `preprocess.c` | tokens, variables | `conf_parse`, `expand_string` | menu tree |
| front ends | `conf.c`, `mconf.c`, `nconf.c`, `gconf.c`, rest of `qconf.cc` | what is displayed | ask, show, set | symbol engine, .config |
| build system | `src/Makefile`, `src/scripts/basic/fixdep.c` | times of files, what an object depends on | run `syncconfig`, compile again | .config (files only) |
| lxdialog, scripts | `lxdialog/`, `merge_config.sh`, `streamline_config.pl` | - | - | - |

### What is hard here

* **Threads.**  xconfig computes fixes in a worker thread.  It shares with the
  GUI thread the table, the array of solutions, the text of the button, a
  global stop flag and the flag of a condition variable; only the last is
  locked.
* **Requests that outlive their run.**  A stop flag is consumed by the search
  alone; conflict symbols and the formula are statics that outlive a run.
* **A list changed under its own cursor** in the expansion of the search, and a
  subsumption test against a list that changes meanwhile.
* **Caches.**  Values, visibilities and expression values are cached under one
  flag that is dropped for all symbols or not at all; the type of a tristate
  depends on a value that is computed in the same pass.
* **Order and rounds** when a fix is applied: each symbol becomes settable only
  after others, and setting one can undo another.
* **Three meanings of one program**: the engine evaluates it, the menu tree
  rewrites its conditions, the solver gets it as clauses.  They must agree on
  every configuration.
* **Crashes and full disks** between the steps of a save or a syncconfig, when
  the next step is taken by another program that sees only the files.

### What makes each part right

* search: reports minimal correction sets only, all of them if it ends by
  itself, never redundant ones; ends;
* conflict resolver: nothing freed is on the screen, one worker at most, the
  window never freezes, each run is delivered, a cancellation hits its run;
* symbol engine: a cached value is what computing it again would give; what is
  set sticks; saving and loading, in full or minimal, is neutral; a dependency
  cycle is found before anything is computed;
* applying: a solution fits in any order, holds in full, touches nothing else;
* constraint construction: a configuration satisfies the formula if and only if
  the user can enter it; the clauses mean what the formula means; the fix can
  be entered;
* expressions and menus: a condition keeps its value when it is rewritten, and
  an entry that is visible can be reached;
* conf: asks all that is new, keeps all that is not, respects what
  KCONFIG_ALLCONFIG says, and ends;
* cfixconf: the fixes shown are the ones applied, an interrupt ends its run and
  no other;
* .config and the build: a crash leaves the old or the new file; after a build
  every object is what the configuration asks for.

`PROJECT.json` lists the hazards with the line where each bites and the
property that would catch it.

## 2. Modules

| module | models | notes |
|---|---|---|
| `FixGen` | `generate_diagnoses()` | sets instead of lists; any solver, any core |
| `FixGenProofs` | theorems about `FixGen` | TLAPS |
| `FixGenList` | the same function on its lists | implements `FixGen` |
| `FixGenListProofs` | theorems about `FixGenList` | TLAPS, composes `FixGenProofs` |
| `ConflictsView` | `class ConflictsView` and its worker | composes `FixGen` |
| `ConflictsViewProofs` | theorems about `ConflictsView` | TLAPS, composes `FixGenProofs` |
| `Tristate`, `Conditions` | `n`, `m`, `y`; conditions in normal form | pure |
| `SymbolRules` | formulas of `sym_calc_value()` | pure, a parameterised module |
| `SymbolCalc` | `symbol.c`, reading and writing values | instantiates `SymbolRules` with its variables |
| `SymbolCalcProofs` | theorems about `SymbolCalc` | TLAPS |
| `SavedConfigProofs` | theorems about `SymbolCalc`, continued: saving and loading | TLAPS |
| `SymbolValues` | the values of all symbols at once | pure, composes `SymbolRules` |
| `ApplyFix` | `apply_fix()` and what leads to it | composes `SymbolRules`; the instance takes `Values` from `SymbolValues` |
| `ApplyFixProofs` | theorems about `ApplyFix` | TLAPS |
| `FixConf` | `cfixconf.c` with its SIGINT handler | composes `FixGen` |
| `FixConfProofs` | theorems about `FixConf` | TLAPS, composes `FixGenProofs` |
| `Expr` | expressions and their rewriting, `expr.c` | pure, recursive |
| `PExpr` | propositional formulas, `cf_expr.c` | pure, recursive |
| `Formula` | from an expression to a formula, `cf_expr.c`, `cf_utils.c` | extends `Expr`, `PExpr` |
| `Cnf` | from a formula to clauses, `cf_utils.c` | extends `PExpr` |
| `FormulaWalk`, `ExprWalk` | building up formulas, expressions | drive `Cnf`, `Formula` |
| `KnownValues`, `Constraints` | the formula of a program, `cf_constraints.c` | extend `Expr`, `Formula` |
| `SatConf` | `run_satconf_list()`, assumptions, diagnoses to fixes | composes `Constraints`, `KnownValues`, `SymbolRules` |
| `MenuTree` | `menu_finalize()` and visibility of menus, `menu.c` | extends `Expr` |
| `CheckDeps` | `sym_check_deps()`, end of `conf_parse()` | extends `Expr` |
| `Conf` | `conf.c` | composes `MenuTree`, `CheckDeps`, `SymbolRules` |
| `Files` | `.config`, `auto.conf`, touched files, `fixdep`, make | stands alone |
| `FilesProofs` | theorems about `Files` | TLAPS |
| `MC...` | instances for TLC | |

### FixGen and FixGenList

The solver is external: the family `consistent` of satisfiable sets of soft
constraints, closed under subsets, chosen arbitrarily for each run.  `E`, `R`,
`X`, `E0`, `num_diagnoses` and `status` are the variables of the C function;
`pc` is the place in its loop: `solve` (the call of the solver), `check`
(timeout, stop flag, core), `minimise` (`minimise_unsat_core()`, one element a
step), `expand` (the walk over `E`, one element a step), `done`.  `Interrupt`
may set the flag between any two steps; `NextRun` starts again with the flag as
it is, as the code does.  In `FixGen` the place in `E` the search continues at,
and the core, are chosen freely.

`FixGenList` has the lists, the cursor of `list_for_each_entry_safe` (`node`,
`next`) and the inner loop over the core, one element and one append a step
(`left`).  It implements `FixGen`: `R`, `X` and `todo` stand for the sets of
their elements, and so does `E`, except while a partial diagnosis is being
extended.  `FixGen` replaces it in one step, the lists do so when the node is
deleted; until then only the first `size` elements count (`Settled`; `size` is
an auxiliary variable, the length `E` had).

### ConflictsView

`gui` and `worker` are the places of the two threads.  The worker's statements
that touch shared state are steps of their own: the test of a row, the access
to it, freeing the solutions, storing the new ones, the signal, the
notification.  A queued Qt signal is the flag `posted`.  `Search == INSTANCE
FixGen` runs inside the worker's step `search`, and the cancel click sets its
`stop_fixgen`.  Modal boxes belong to the step that shows them.  A worker that
aborts, reads out of range or gets no memory is in one of the states `Dead`.

### Tristate, SymbolRules, SymbolCalc

A condition is a set of terms, a term a set of literals, a literal a symbol and
a function from its value.  `&&` is the minimum and `||` the maximum, so every
expression over symbols has this form.  A Kconfig program is a record as
`menu_finalize()` leaves it.  `SymbolRules` says what a symbol's value is when
the others have theirs; `SymbolCalc` has the cache: a symbol is computed by a
step of its own once what it reads is valid, in any order, and
`sym_clear_all_valid()` drops all flags and makes `modules_sym` the first to be
computed.  The members of a choice are computed together, from visibilities
that `sym_calc_choice()` has looked at or found.  `sym_set_tristate_value`,
`choice_set_value`, `conf_read`, and a `conf_write` or `conf_write_defconfig`
followed by `conf_read` act on computed symbols, as the front ends do.

`KconfigAssumption` says what a program is: typed, without recursion (which
`sym_check_deps()` refuses), with choices whose members are bools and belong to
one choice, and with a `MODULES` that is in no choice and depends on no
tristate.  Kconfig does not check the last two.  If `MODULES` depends on
a tristate the cache is wrong (section 5).

### ApplyFix

The initial states are all situations in which a fix is offered: a program, a
configuration, wanted values, and either the wanted values alone (when
`sdv_within_range()` accepts them) or a solution, which differs from the
configuration in a minimal set of symbols.  That the formula is exact is assumed
here; that the diagnosis is minimal is what `FixGen` shows.  `apply_fix` has a
step for each turn of its loops; the engine's cache is replaced by its result,
the constant operator `Values`.  TLC gets it from `SymbolValues`, which computes
one symbol after the other from `SymbolRules`; the proofs know of it only what
`Computed` says.
`Loaded` says that the configuration is one just read from a `.config`.

### FixConf

A session of cfixconf.  `place` is the place of the only thread: waiting in
`fgetc()` (`prompt`), about to wait (`loop`), after a failed `fgetc()`
(`error`), and the stations of `handle_solve()`.  The other commands are one
step each.  The handler `on_int` may run between any two steps.  `Search ==
INSTANCE FixGen` runs with the symbols as soft constraints and with the solver
that the program, the configuration and the wanted values determine
(`Consistent`); its diagnoses become fixes, and `apply_fix()` enters a fix round
by round.  Here a Kconfig program is the set of its configurations, so that
setting a symbol changes no other; `ApplyFix` is about programs in which it
does.  The lists of the search and the variables of `handle_solve()` are reset
when their functions return.

### Expr, ExprWalk

An expression is a tuple of its operator and operands; the operators of the
module are the functions of `expr.c` that rewrite conditions:
`expr_eliminate_eq`, `expr_eliminate_dups`, `expr_transform`,
`expr_trans_compare`, `expr_contains_symbol`, `expr_depends_symbol`.  The C code
works in place on shared nodes; here a function returns what the place holds
afterwards.  `ExprWalk` builds expressions step by step from a few leaves and
asks in each state what rewriting, comparing and translating do to the value.
What `expr_transform()` makes of a bool compared with `!= y` is the negation of
the symbol's own memory read as an expression (`expr.c:649`): `<<"junk", s>>`,
which may have any value.  `RewritingKeepsValue` holds for the expressions
without such a test; for `B != y` it is false of the code.

### PExpr, Formula, Cnf, FormulaWalk

`PExpr` has the propositional formulas of `cf_expr.c` with the simplifications
their constructors make (`Construct` builds a whole tree through them), `Formula` the translation of a condition: one formula
for "is y", one for "is not n".  `Cnf` is the transformation into clauses,
including the case distinction for what already is in normal form and the way a
clause is ended for PicoSAT, literal by literal.  The variable PicoSAT gives to
a part of a formula is the part itself.

### KnownValues, Constraints, SatConf

`KnownValues` collects the numbers that a program mentions of an int symbol,
`Constraints` has the constraints of `cf_constraints.c`, one operator per
function, for a program as the menu tree leaves it.  `SatConf` is a session:
the user enters values (`Edit`) and asks for wanted ones
(`run_satconf_list`).  The formula is built at the first run that needs it and
kept, with the numbers known then (`built`).  Its models are computed from the
constraints; a diagnosis is a minimal set of soft literals to give up, which is
what `FixGen` finds, and becomes a fix through `convert_diagnosis`.  What the
user can enter comes from the other side, `SymbolRules`, so that the two
meanings of a program meet here.

### MenuTree, CheckDeps, Conf

`MenuTree` turns entries as parsed into entries as `_menu_finalize()` leaves
them: dependencies are handed down and conjoined, prompts become parents of the
entries behind them that depend on them.  `CheckDeps` is the search for
recursive dependencies.  `Conf` is `main()` of `conf.c` around them: `Parse`,
`Read` (any `.config`, and for the modes that set symbols any
`KCONFIG_ALLCONFIG`), then `SetAll`, or the walk.  `conf()` and `check_conf()`
call each other recursively, and what they see changes with each answer; the
variable `todo` holds the calls that are still to be made, the next one first.
A question is a step that takes any answer accepted; a refused one changes
nothing.

### Files

One program runs at a time, and `pc` is the system call it makes next: the
steps of `conf_write` (write `tmp`, compare, rename twice) and of
`conf_write_autoconf` (`auto.conf.cmd`, reading the old `auto.conf`, touching a
file for each changed symbol, the two headers, `auto.conf` last).  The values a
program writes are `calculated` from what was entered (`user`) and from the order
in which the members of a choice stand (`order`).  Reading `auto.conf` moves the
members it mentions to the front and makes every value one to calculate again
(`ReadAutoConf`, `VanishedTouched`): what is touched and generated after that
need not be what has just been written to `.config`.  The order that the lines of
`.config` leave, and the one that the lines of `auto.conf` leave among the
members they mention, may be any (`Orders`, `Moved`): the first depends on where
the members stand in the menus, the second on a hash table.  A value has the text it has
in `auto.conf`; the macro of `autoconf.h` and the flags of `rustc_cfg` show its
type besides (`Macro`, `Flags`: the suffix of an `m`, the quotes of a string, the
`0x` of a hex).  A program
may be killed before any of them, a write of `.config` may be cut short by a
full disk, the touch of a vanished symbol's file may fail.  make sees times
only: `outdated` holds the generated files older than `.config` or a Kconfig
file, `newer` for each object the symbols whose file is newer.  `fixdep` is a
function from an object's `.d` file and the words of its sources.  make also
runs a rule again when its command has changed (`cmd-check` in
`Kbuild.include`); the commands are taken not to change.  `mine`, `damage`,
`unnoticed`, `strayed` and `version` record what has happened, for the
properties.  `Rebuilt` has two halves: an object is what the compiler would make
of the headers, but for the symbols in `unnoticed`, and the headers say what
`.config` says, but for those in `strayed`.  Both sets are filled by the steps
that overlook a change, and a later touch takes a symbol out of `unnoticed`.
`KCONFIG_OVERWRITECONFIG` is not set, `KCONFIG_DEFCONFIG_LIST` names no
existing file, and a temporary file left by a dead process is not used again.

## 3. Runs

| run | instance | shows |
|---|---|---|
| `fixgen_safety` | 4 soft constraints, limit 3 (`MAX_DIAGNOSES`) | type, antichain, minimality, completeness |
| `fixgenlist` | 3 soft constraints, limit 2 | refinement of `FixGen`, termination |
| `conflicts` | two bool symbols and an int symbol, 2 rows, search over 2 constraints | shared solutions, one worker, waits, liveness |
| `conflicts_stale_stop` | as `conflicts` | **violated**: a late cancel click cancels the next run |
| `symbolcalc` | 4 programs over 4 symbols | cache coherence, choices, setting, save and load |
| `applyfix` | 5 programs over 4 symbols, fixes of up to 3 | a solution fits, holds, touches nothing else; termination |
| `fixconf` | 2 programs over 3 symbols, 2 wanted values, limit 2 | a signal ends its run and no other; a proposed fix can be applied in full; the prompt returns |
| `formulas` | every formula of up to two connectives | constructors and clauses keep the meaning |
| `expressions` | two tristates, a bool, an int; up to two connectives | rewriting keeps the value, comparing is sound, the formula means the value |
| `satconf` | 9 programs over up to 5 symbols, 2 wanted values, numbers 1 to 3 | formula against engine, fixes can be entered, attainable wishes get one |
| `conf` | 16 programs, 9 modes, numbers 1 to 3 | cycles found, nothing hidden, all asked, answers kept, the walk ends |
| `files` | 3 versions of the Kconfig files, 2 objects, 2 edits of a configured tree, 1 fault | the configuration survives, what is built fits it |

A violated run states what a comment of the code says; `findings` in
`PROJECT.json` quotes it.

**Bounds.**  With four soft constraints the minimal correction sets can overlap
in every way that matters to the subset test (two elements shared, one not),
there are up to six of them, and the limit of three cuts real searches.  Three
suffice for the lists: an expansion appends up to three nodes behind the
cursor.  Two rows are enough for a table that shrinks or grows under the
worker.  The programs of `symbolcalc` and `applyfix` contain one of each
construct (tristate dependency, select, imply, conditional default, choice with
and without default, comparison with a constant, dependence on `MODULES` either
way), and four symbols let each interact with a condition above it.  In
`fixconf` one program has two diagnoses for a wish, and so a choice between
fixes, the other is a chain, where the order of a fix matters; two wanted values
can need or exclude each other.  The programs of `symbolcalc` are all `Savable`
(section 4), which the instance asserts: of others `RoundTrip` is false.  Two of
those of `applyfix` are `Conjunctive` (section 4); the other three, with a
conditional default, a selected tristate and a choice, show that the properties
also hold of some programs outside of the theorems.

The rules of `expr.c` and `cf_expr.c` look two levels deep, at an operator and
those of its operands; two steps of a walk make every tree of that depth, and
`compare` and `and`/`or` combine any two of them.  The programs of `satconf` are
one per kind of constraint, each with a condition to make it matter; three
numbers are one inside, one at the bound and one outside of each range.  Those
of `conf` cover what `_menu_finalize()` distinguishes (submenu by a prompt, by a
menuconfig, `if`, nested menus, choices that lose members) and a cycle through
each kind of property.  In `files` one edit makes a value stale and the second
one can make it as it was; the three versions let a symbol vanish, stay
as a mere mention, turn from tristate to bool and from int to hex, and let two
symbols become the members of one choice, with two `y` in `.config`.  The two
exceptions are needed: without either of them TLC finds `Rebuilt` violated.
There are 2.7 million states.  A second fault would leave `.config.old` the only
copy to lose, which the code does not claim to prevent.

**Fairness.**  Weak fairness of the worker (`Step` in the search, `Worker` in
`ConflictsView`) says that the thread is scheduled.  `WaitEnd` and `Join` are
blocking calls that return once they can.  `UpdateResults` gets strong
fairness: the event queue is first-in first-out, so a posted event cannot be
overtaken for ever by clicks that disable it for a while.  `Program` in
`FixConf` is the only thread of a process; a handler that returns does not stop
it.  In `ApplyFix` the function runs once called.  `Conf` is one process: it
runs, and the user answers its questions with something it accepts in the end.
Nothing is assumed of a user who is not being asked.

`CHECK_DEADLOCK FALSE` in the runs of `ConflictsView` (after an abort the
program is gone, and a GUI that waits for a worker without memory is stuck), in
`expressions` (a walk ends at its bound) and in `files` (an up-to-date tree with
no edits left to make).

## 4. Proofs

`FixGenProofs` proves for every finite set of soft constraints, every limit,
every solver and every schedule: `TypeCorrect`, `SearchAntichain`,
`SearchComplete`, `ReportsMinimal`, `ReportsAll`, `CounterCounts`,
`ExpandsMinimalCores`.  Assumptions: `SoftAssumption` (finite) and
`MaxAssumption` (a positive number).

All follow from one inductive invariant, `IInv`.  Minimality of what is
reported is not inductive: that a partial diagnosis accepted by the solver is
minimal needs that every smaller correction set would already be above another
element of `E` or `R` (`NothingLost`), and that it is not (`Antichain`).  Both
must hold in the middle of the expansion, where part of `E` hits the core and
part does not yet, so the invariant also says that the core is unsatisfiable
(`CoreMeetsCorrection`: every correction set meets it).  The proof has a step
for each action, and lemmas for the three that change the lists
(`SolveSatInv`, `ExpandOneInv`, `MinimiseOneInv`).

`FilesProofs` is about every Kconfig program, every set of objects and every
number of edits and faults.  `Survives` (`ConfigSurvives`) needs to know where
the last complete configuration is at each step: `Kept` says it by the number
of writes that have failed since.  `IsRebuilt` (`Rebuilt`) looks at the end of
a build only, and rests on what holds in the middle of one (`BuildInv`): what
is generated is out of date as a whole until `auto.conf` is written, and then
agrees with `.config` but for what has strayed (`InTurn`, `Agree`); an object
differs from what `auto.conf` printed, in the version of the Kconfig files it was
written from, only in symbols that are unnoticed or whose touched file is newer
than it (`ObjectsFit`); and before `auto.conf` is replaced each line that will
make another macro or flag has been touched or is unnoticed (`ChangesShown`).
`StraysOnlyInChoices` bounds the second exception: calculating again gives a
symbol another value only if the Kconfig files have a choice, and only if what
was entered is not itself the result.  Once a `.config` has been written and read
again as it is, the next syncconfig makes the headers follow it.
That is what the comment at `confdata.c:1105` is about: with `auto.conf` earlier
in the order `ChangesShown` fails.  Assumed are that the engine calculates
values of the right type and calculates the same ones when it reads them again,
in whatever order the members of a choice stand (`CalcAssumption`; `RoundTrip` of `SymbolCalc` checks this for the engine), that
users enter values (`EnteredAssumption`), that a missing file is none
(`NothingAssumption`), and that the files `fixdep` does not look into name no
symbols (`NoParseAssumption`).

`ConflictsViewProofs` proves `AlwaysOneWorker`, `ShownStaysValid` and
`CancelWaits` for every set of symbols and every size of the table.  No lock
protects the array of solutions; what protects it is whose turn it is (`Turns`):
while a worker computes, nothing is on the screen and no results are queued, and
the window shows them only until it joins the worker.  A wait is for a worker
that exists, and a set flag belongs to one that has left (`Handshake`).
`ResolverReports` carries the theorems about the search over: each step of the
resolver is a step of `FixGen` or leaves it alone (`StepsOfSearch`), so that
`FixGenProofs`, used here through INSTANCE, gives minimality and completeness in
the presence of the second thread and its late cancellations.  The assumption is
that of `FixGen` (`SearchAssumption`).

`FixGenListProofs` proves that `FixGenList` implements `FixGen`
(`ListsImplementSets`), for every finite set of soft constraints, every limit
and every order in which the solver returns a core.  `ListsReportMinimal`
carries the theorems about sets over to the lists.  What the mapping needs is
`ListInv`: no set is twice in `E`, the core has no repetition, `todo` and `left`
lie within it, and what the walk has passed meets the core (`Walked`).  In the
inner loop, what lies behind `size` are exactly the extensions, so far, that no
older set is a subset of (`Extending`).  `FixGen` compares an extension with the
older sets alone, the code also with the extensions it has just appended; that
makes no difference, because they are the same set with one new element each,
and none of these is a subset of another.
Assumptions: `SoftAssumption`, `MaxAssumption`.

`FixConfProofs` is about cfixconf, for every finite set of symbols, all values
and every family of programs.  `CanceledByItsSignal` (`CanceledOnRequest`) and
`InterruptedDropped` follow from `Signals`, which ties the two flags of the
handler and `stop_fixgen` to the place in the session: a request to stop that is
there while a run is under way was sent to that run.  `ShowsMinimalFixes` is what
the user gets from it: as long as the configuration is the one the last run was
for, each fix on display leads to a configuration of the program, and no other
configuration with the wanted values differs from the present one in some of
the fix's symbols only (`FixMinimal`, stated in the proof module).  The search is
composed with the session as in `ConflictsViewProofs`: a step is a step of
`FixGen`, or leaves it alone, or resets its flag.
Assumptions: finitely many symbols and a positive limit (`SearchAssumption`); a
program is a set of configurations (`ProgramAssumption`).

`SymbolCalcProofs` is about every family of programs, finite or not, of the kind
described in section 2 (`KconfigAssumption`), and about every sequence of
changes.  `CalcInvariant` states the inductive invariant:

* `CacheInv`.  What a valid symbol reads is valid, and its value, visibility and
  limits are what computing it would give (`SymbolInv`); of the members of a
  choice that are valid, the one that `sym_calc_choice()` chooses has `y`
  (`MemberInv`).  `CacheIsCoherent` and `ChoiceIsCoherent` follow.  The step that
  could break it computes `modules_sym`, which changes the type of every
  tristate: at that moment only bools are valid.
* `StickInv`.  That the cache is right does not say that a value sticks: the
  flags are dropped as soon as it is set.  But the values in the dropped cache
  are still there, and everything the symbol depends on, over any number of
  symbols (`DeepReads`), has the value that computing it again will give
  (`Fits`), since none of it depends on the symbol that was set; from these the
  rules give the accepted value (`Gives`).  `AcceptedValueSticks` follows.  The
  mode is among what the symbol depends on, unless the mode depends on it.

The rules of `SymbolRules` enter through a few lemmas: a condition, a visibility,
a value and a choice depend on nothing but the symbols in `ReadsOf`, and a value
within the limits of a symbol, once it is the user's, is the one they give
(`SetGives`).  `None` is no symbol (`NoneAssumption`).

`SavedConfigProofs` goes on from there: `SavedIsRead` says that a configuration
that is saved and read, in full or as a minimal one, is the same configuration
(`RoundTrip`), whatever the user has set before, for every family of programs
that are `Savable`.  In such a program a condition of a prompt or of a default
implies the symbol's dependencies (as `menu_finalize()` leaves it), for a tristate
the dependencies also imply the prompt's condition, and nothing selects a member
of a choice.  Without the converse the theorem is false: a default above the visibility of its prompt
is written as `y`, and the line is cut to `m` when it is read (section 5).
The argument is the one for a value that sticks, for all symbols at once: when
the lines have been read the flags are dropped, but the old values are still in
the cache, and `RoundInv` says that they are what the new user's values give
(`Fits`).  For a symbol that is left out this rests on arithmetic
(`ResultWithout`: what `conf_write_defconfig()` takes a symbol to be without a
line is what the rules then give it); for a choice on `WriteInv`, that a member
without a line is not visible, and on the order of the lines, from which
`conf_read()` makes the new priorities (`SavedChoice`).

`ApplyFixProofs` proves `SolutionsFit`, `SolutionsHold` and
`NothingElseChanges` (`SolutionFits`, `SolutionHolds`, `OthersKept`) for any
number of symbols, fixes of any length and lists in any order, of every program
that is `Conjunctive`: bools and tristates without choices, `select` and
`imply`, where a symbol with a prompt has no default, a symbol without one is a
constant, and each prompt depends on a conjunction of other symbols and their
negations, without recursion.  The configuration is one just read (`Loaded`).
Of the computation of values `ValuesAssumption` says that for such a program its
result follows the rules; TLC evaluates it for the programs of the instance, and
`RuleIs` shows that these rules are those of `SymbolRules`.

That the invariant `IInv` is inductive needs that each value that is set, though
it may change any number of other symbols, moves none of them away from the
solution `g`:

* `OnWay`: each symbol lies between its value before and its value in `g`
  (`Toward`), and what the user has entered for it is its value, or is limited
  by something that can only fall from here (`Fine`, `Way`).  That a step keeps
  this (`OneStep`, `Follows`, `Reaches`) is shown for the first symbol, in the
  order of the dependencies, for which it would fail; a literal moves as its
  symbol does, and so does the least of several.
* `Counted`, `Skipped`: what has left `tmp` has its value in `g`, and as long as
  the round has set no symbol, none of those it has seen can be set.  At the end
  of a round that sets none the first symbol of `tmp` in the order of the
  dependencies could be set all the same (`Settable`): so there is no such
  round, and there are no more rounds than symbols in the fix.
* `Waiting`: what has been seen and is still in `tmp` has its old value.  If the
  loop stops with such symbols because the conflict symbols have their values
  (`syms_have_target_value`), then the configuration reached changes less than
  `g` does, and has what the user asked for: against minimality, so that none is
  left (`AllThere`).

With an alternative in a condition the first two can be false, with a default the
third (section 5).

Only model-checked, and why:

* termination and all liveness (TLAPS has no `ENABLED`), in every module;
* `FixApplies` of `FixConf`: entering a fix round by round is a fold over the
  list of symbols, so that its result is an induction over data; it is false for
  programs whose configurations cannot be reached from one another symbol by
  symbol;
* `SolutionFits`, `SolutionHolds`, `OthersKept` of `ApplyFix` for programs that
  are not `Conjunctive`; that `SymbolValues` satisfies `ValuesAssumption` is a
  statement about a fold, and is evaluated by TLC;
* the modules that walk trees with `RECURSIVE` operators, which TLAPS cannot
  reason about: `Expr`, `PExpr`, `Formula`, `Cnf`, `FormulaWalk`, `ExprWalk`,
  `KnownValues`, `Constraints`, `SatConf`, `MenuTree`, `CheckDeps`, `Conf`.

## 5. What the models showed

Writing the models against the code, and letting TLC look for properties that
hold, turned up behaviour that the code's authors may not intend.  Each of
these was a counterexample of a property that was then stated more narrowly, a
program left out of an instance, or a step the source allows.

*Conflict resolver.*

* A click on Cancel that comes too late for its run leaves `stop_fixgen` set and
  cancels the next run (`cf_fixgen.c:217`, run `conflicts_stale_stop`).
* An int symbol in the table reaches the assertion of the worker
  (`qconf.cc:2291`).
* A worker without memory returns without the signal another thread may wait for
  (`qconf.cc:2277`).
* After a run that was interrupted, cfixconf still offers the fixes of the one
  before, for conflict symbols that are no longer in place: `apply` then enters
  part of a fix (`configfix.c:91`, `cfixconf.c:413-420`, `663`).

*Fixes.*

* "Fixes successfully applied." can be false: a conflict symbol that had its
  value when it was looked at may lose it to a later entry
  (`configfix.c:262-315`).
* Applying a solution can fail, or be reported as applied when it is not, if a
  condition has an alternative.  Let `M` depend on `!A`, `S` and `!B`, and `B` on
  `A || S`, with `A` and `B` set.  A solution for `M` sets `A` and `B` to `n` and
  `S` to `y`.  With `A` at `n`, `B` is no longer visible and counts as set
  (`configfix.c:262-267`) with its old entry in place; with `S` at `y` that entry
  is back, `M` cannot be set, and the rounds are used up (`configfix.c:251`).  If
  `M` depends on `S` alone, and the user wants all four values, the loop ends with
  "Fixes successfully applied." and `B` at `y` (`configfix.c:250`, `315`).  The
  attempt to prove `SolutionFits` for all programs led here; `Conjunctive` is what
  is left of them.
* A symbol without an entry that becomes visible gets its default, though in the
  solution, which does not name it, it stays at `n`: applying a solution can
  change more than it says.
* Wanted values that can each be entered are taken to be possible together; two
  that exclude one another get a trivial, wrong answer (`configfix.c:42`, `331`).
* The first solve assumes symbols without a prompt and unnamed choices, though
  these follow from others: wishes that can be had get no solution
  (`configfix.c:153`).
* The formula is kept, so an int entered after it was built is unknown to it
  (`configfix.c:107`), as is an int whose default copies one.
* A fix may set an int to "not set".

*Constraints.*

* A number on the left of `<` is treated as if on the right: the converse
  (`cf_expr.c:793-800`).
* `add_choice_dependencies` returns before it does anything;
  `add_dependencies_bool` looks at `prompt->expr`, which is empty, so its
  condition never applies; `P_IMPLY` has no constraint.
* A default outside of a symbol's range contradicts the range constraint; the
  engine moves the value instead.  An int with no value counts as 0 in the
  engine, not as "not set".
* The variable for a violated prompt condition is not forced to false for
  choices and their members.
* A conjunction with disjunctions as operands at the top of a formula is written
  without the zero that ends a clause.
* A second prompt without a condition, after one with a condition, dereferences
  a null pointer.

*Engine and menus.*

* If `MODULES` depends on a tristate, that tristate keeps a value computed under
  the old `MODULES`, marked valid (`symbol.c:519-537`, `expr.h:100`).
* A symbol defined twice, once without dependencies, still depends on the other
  definition's (`menu.c`).
* Rewriting a condition that negates a tristate (`!T`) into a comparison is not
  exact, nor is the "superset" of `menu.c:424`: a visible prompt can lie below
  one that is not.  A default above a prompt's visibility makes the same happen.
* `sym_check_deps` does not look at the bounds of a range.
* A condition that compares a bool with `!= y` becomes the negation of a pointer
  to the symbol where one to an expression is expected (`expr.c:649`; 618, 629
  and 638 make an expression of it first).  The comment at `expr.c:648` says
  `A!=y -> !A`.  No program of `conf` has such a test, so that `NothingHidden`
  and `CyclesFound` say nothing of one.

*conf and the files.*

* A choice none of whose members is visible makes `conf_choice` ask for ever, and
  a default above a prompt's visibility makes `conf_sym` refuse Enter for ever
  (`conf.c:403-419`).
* A symbol whose default exceeds its prompt's visibility is saved as `y` and read
  back as `m`, from `.config` and from a minimal configuration alike.
* `conf_write` does not look for write errors: a full disk leaves a truncated
  `.config`, with the old one in `.config.old`, and the build goes on with an
  `auto.conf` that says something else.  Between the two renames there is no
  `.config` at all.
* Whether the file of a vanished symbol could be touched is not looked at
  (`confdata.c:451`), and a line of `auto.conf` that does not fit the symbol's
  new type is skipped: an int that has become an unset bool is not touched, nor
  is a symbol that is gone but still mentioned in some condition.
  Objects then keep what they were compiled with.
* Old and new value are compared without their type (`confdata.c:988-998`): when
  an int becomes a hex, `10` becomes `0x10` in `autoconf.h`, and when it becomes
  a string it gets quotes, and nothing is compiled again for it.
* Reading `auto.conf` changes the order of the members of a choice and has all
  values calculated again (`confdata.c:388`, `472`, `970`) after `.config` was
  written.  Let A and B be bools with `y`, and a change of the Kconfig files put
  both in one choice: syncconfig writes `.config` with one of them, and `auto.conf`
  and the headers may get the other.  make then has nothing left to do.  It
  agrees again once `.config` is newer: it then has one `y` only.

## 6. Not modelled, and why

Parsing and preprocessing map text to trees, which TLC would only enumerate;
what follows them in `conf_parse()` is in `Conf`.  The terminal and GTK front
ends and lxdialog only present.  Of the build system the part that reads the
configuration is in `Files`; the other rules of the kernel build and the
scripts around `.config` keep no state of the configuration system.
`minimise_diagnoses()` is switched off at compile time; `cfoutconfig` writes
one file.  Strings and hexadecimal numbers behave like ints but for their text,
which no property but `Rebuilt` is about (`Files` has it).  The reference counts
of formulas and the sharing of expression nodes are memory management: no formula
or value depends on
them.  Two configurators at once are not modelled (`Files` has one program at a
time), nor symbols whose name ends in `_MODULE`, which `fixdep` takes for
another symbol.  Timing is abstract: a timeout may strike at any look at the
clock.  Integer overflow cannot occur in the modelled counters, which the
limits keep below 64.

## 7. Plan

What remains, in this order:

1. Theorems: `FixApplies` for families of configurations that can be exchanged
   symbol by symbol; `ApplyFix` for programs with defaults and `select`.
2. `PexprRefs`: the reference counts of `pexpr`.
3. Two programs at once in `Files`; the names of the files that cfixconf opens
   and writes.
4. Strings and hexadecimal numbers in `SatConf` and `Conf`.
