-------------------------------- MODULE Conf --------------------------------
(****************************************************************************)
(* conf (conf.c), from the parsed program to the moment at which .config is *)
(* written: the modes that give all new symbols a value at once, and the    *)
(* walks over the menu tree that ask for them.                              *)
(*                                                                          *)
(* conf() and check_conf() call each other recursively.  todo holds the     *)
(* calls that are still to be made, the next one first: a call is replaced  *)
(* by those that it makes itself.  A menu is its path from the root.        *)
(*                                                                          *)
(* The values of the symbols are those that the rules of the engine give    *)
(* (SymbolRules) for the finalised menu tree (MenuTree); its caching is in  *)
(* SymbolCalc.                                                              *)
(****************************************************************************)
EXTENDS MenuTree, CheckDeps

CONSTANTS
  Kconfigs,  \* the programs, by name: the root entries as parsed
  Number,    \* the numbers of the symbols that are numbers
  Ints,      \* bound: the numbers that the user enters
  Modes      \* the modes of the command line

VARIABLES
  name,       \* the program
  mode,       \* input_mode
  pc,         \* "parse", "read", "set", "walk", "end" or "error"
  rootmenu,   \* the finalised menu tree
  program,    \* the same, as the rules of the engine have it
  read,       \* the user's values as read from .config or KCONFIG_ALLCONFIG
  def,        \* the user's values
  choice_members,  \* by choice: its members, by priority
  values,     \* the values of the symbols
  todo,       \* the calls of conf() and check_conf() to be made
  rootEntry,  \* the menu whose questions are asked
  conf_cnt    \* 0, or 1 if the pass over the tree has asked for something

vars == <<name, mode, pc, rootmenu, program, read, def, choice_members, values, todo, rootEntry, conf_cnt>>

Asking == {"oldaskconfig", "oldconfig"}  \* syncconfig asks like oldconfig
Listing == {"listnewconfig"}             \* and helpnewconfig
Setting == {"allnoconfig", "allyesconfig", "allmodconfig", "alldefconfig", "randconfig"}
Rewriting == {"yes2modconfig", "mod2yesconfig", "mod2noconfig"}

NoValue == -1
\* The entries of the menu that have a symbol, from top to bottom.
SymbolsBelow(root) ==
  LET withSym == SelectSeq(Entries(<<root>>), LAMBDA e : e.sym # None)
  IN  [i \in DOMAIN withSym |-> withSym[i].sym]
Checked(root, prog) ==
  [root |-> root, prog |-> prog, fails |-> conf_parse(prog, SymbolsBelow(root))]
Load(root) == Checked(root, Program(root))
Loaded == Once([n \in DOMAIN Kconfigs |-> Load(menu_finalize(Kconfigs[n]))])

Symbols == program.symbols \ ChoiceSyms

----------------------------------------------------------------------------
\* The values of the symbols: from the constants, until all follow from others.
Engine(u, o, v) ==
  INSTANCE SymbolRules WITH
    Sym <- Symbols, k <- program, user <- u, order <- o, curr <- v, modules_val <- v[Modules]
Constants ==
  [s \in DOMAIN Number \cup Triconst |->
     CASE s = "y" -> yes [] s = "m" -> mod [] s = "n" -> no [] OTHER -> Number[s]]
Unset == Constants @@ [s \in program.symbols |-> no]
ValuesOf(u, o) ==
  LET Given == {[user |-> u, order |-> o]}
      settle[x \in Given, v \in [DOMAIN Unset -> {no, mod, yes} \cup Ints]] ==
        LET next == Constants @@ [s \in program.symbols |->
                      IF s \in ChoiceSyms THEN no ELSE Engine(x.user, x.order, v)!Value(s)]
        IN  IF next = v THEN v ELSE settle[x, next]
  IN  settle[[user |-> u, order |-> o], Unset]

E == INSTANCE SymbolRules WITH
       Sym <- Symbols, k <- program, user <- def, order <- choice_members, curr <- values,
       modules_val <- values[Modules]
Value(cond) == expr_calc_value(Visible(cond), values)
Members(c) == ToSet(program.choices[c].members)
IsMember(s) == \E c \in DOMAIN program.choices : s \in Members(c)

\* sym_is_changeable() and sym_tristate_within_range(), sym_string_within_range().
RevDep(s) == IF IsMember(s) \/ Type[s] = "int" THEN no ELSE E!RevDep(s)
sym_is_changeable(s) == ~sym_is_choice(s) /\ E!Visibility(s) > RevDep(s)
WithinRange(s, v) ==
  /\ sym_is_changeable(s)
  /\ IF Type[s] = "int" THEN E!InRange(s, v)
     ELSE /\ ~(E!sym_get_type(s) = "bool" /\ v = mod)
          /\ RevDep(s) <= v /\ v <= E!Visibility(s)
sym_has_value(s) == ~sym_is_choice(s) /\ def[s] # NoValue

----------------------------------------------------------------------------
\* The entry at a path, and the paths of the entries below it.
RECURSIVE At(_, _)
At(e, path) == IF path = <<>> THEN e ELSE At(e.list[Head(path)], Tail(path))
Menu(m) == At(rootmenu, m)
Below(m) == [i \in DOMAIN Menu(m).list |-> Append(m, i)]

\* menu_is_visible(): the prompt is visible, or the symbol is set and something
\* below is visible.
RECURSIVE IsVisible(_)
IsVisible(e) ==
  /\ e.prompt # None
  /\ Value(e.visibility) # no
  /\ \/ Value(e.prompt.visible) # no
     \/ /\ e.sym # None
        /\ values[e.sym] # no
        /\ \E i \in DOMAIN e.list : IsVisible(e.list[i])
menu_is_visible(m) == IsVisible(Menu(m))

IsMenu(m) == Menu(m).prompt # None /\ Menu(m).prompt.type = "menu"
RECURSIVE menu_get_parent_menu(_)
menu_get_parent_menu(m) == IF m = <<>> \/ IsMenu(m) THEN m ELSE menu_get_parent_menu(Front(m))

----------------------------------------------------------------------------
\* What .config may hold, and choice_members then: those with a value first, in
\* any order, as they stand in the file.
Domain(s) ==
  CASE Type[s] = "bool" -> {no, yes}
    [] Type[s] = "tristate" -> {no, mod, yes}
    [] Type[s] = "int" -> Ints
Entered ==
  {u \in [Symbols -> {NoValue, no, mod, yes} \cup Ints] :
     \A s \in Symbols : u[s] = NoValue \/ (program.prompt[s] # symbol_no /\ u[s] \in Domain(s))}
Valued(c, u) == {s \in Members(c) : u[s] # NoValue}
Unvalued(c, u) == SelectSeq(program.choices[c].members, LAMBDA s : u[s] = NoValue)
OrdersOf(u) ==
  {o \in [DOMAIN program.choices -> UNION {SetToSeqs(Members(c)) : c \in DOMAIN program.choices}] :
     \A c \in DOMAIN o : \E p \in SetToSeqs(Valued(c, u)) : o[c] = p \o Unvalued(c, u)}

Init ==
  /\ name \in DOMAIN Kconfigs
  /\ mode \in Modes
  /\ pc = "parse"
  /\ rootmenu = None /\ program = None
  /\ read = <<>> /\ def = <<>> /\ choice_members = <<>> /\ values = <<>>
  /\ todo = <<>> /\ rootEntry = <<>> /\ conf_cnt = 0

\* conf_parse() ends the program when a symbol depends on itself.
ParseInto(loaded) ==
  /\ rootmenu' = loaded.root /\ program' = loaded.prog
  /\ pc' = IF loaded.fails THEN "error" ELSE "read"
Parse ==
  /\ pc = "parse" /\ ParseInto(Loaded[name])
  /\ UNCHANGED <<name, mode, read, def, choice_members, values, todo, rootEntry, conf_cnt>>

\* conf_read(): of .config, or of KCONFIG_ALLCONFIG.
Read ==
  /\ pc = "read" /\ pc' = "set"
  /\ read' \in Entered /\ def' = read' /\ choice_members' \in OrdersOf(read')
  /\ values' = ValuesOf(read', choice_members')
  /\ UNCHANGED <<name, mode, rootmenu, program, todo, rootEntry, conf_cnt>>

\* The values change, and all that follows from them.
SetValues(d, o) ==
  /\ def' = d /\ choice_members' = o
  /\ values' = IF d = def /\ o = choice_members THEN values ELSE ValuesOf(d, o)

----------------------------------------------------------------------------
\* conf_set_all_new_symbols(): the bools and tristates with a prompt that have no
\* value get one.  Choices are left to the engine, or get an order at random.
New == {s \in Symbols :
          /\ program.prompt[s] # symbol_no /\ ~sym_has_value(s)
          /\ IsBoolean(s) /\ ~IsMember(s)}
SetNew ==
  /\ mode \in {"allnoconfig", "allyesconfig", "allmodconfig"}
  /\ LET val == CASE mode = "allnoconfig" -> no [] mode = "allyesconfig" -> yes [] OTHER -> mod
     IN  SetValues([s \in DOMAIN def |-> IF s \in New THEN val ELSE def[s]], choice_members)

\* randomize_choice_values(): the members that have no value become "y" one after
\* the other and go to the end of the list.  The mutant moves them to the front.
ToFront(members, p) == Reverse(p) \o members
ToTail(members, p) == members \o p
randomize_choice_values(c, p) ==
  ToTail(SelectSeq(choice_members[c], LAMBDA s : sym_has_value(s)), p)

SetRandom ==
  /\ mode = "randconfig"
  /\ \E val \in [New -> {no, mod, yes}], o \in [DOMAIN choice_members -> UNION {SetToSeqs(ToSet(Unvalued(c, def))) : c \in DOMAIN choice_members}] :
       /\ \A s \in New : val[s] \in Domain(s)
       /\ \A c \in DOMAIN choice_members : ToSet(o[c]) = ToSet(Unvalued(c, def))
       /\ SetValues([s \in DOMAIN def |->
                       CASE s \in New -> val[s]
                         [] IsMember(s) /\ ~sym_has_value(s) -> yes
                         [] OTHER -> def[s]],
                    [c \in DOMAIN choice_members |-> randomize_choice_values(c, o[c])])

\* conf_rewrite_tristates().
Rewrite ==
  /\ mode \in Rewriting
  /\ LET old == IF mode = "yes2modconfig" THEN yes ELSE mod
         new == CASE mode = "yes2modconfig" -> mod [] mode = "mod2yesconfig" -> yes [] OTHER -> no
     IN  SetValues([s \in DOMAIN def |->
                      IF E!sym_get_type(s) = "tristate" /\ def[s] = old THEN new ELSE def[s]], choice_members)

\* alldefconfig, olddefconfig: nothing is set.
SetNothing == mode \in {"alldefconfig", "olddefconfig"} /\ UNCHANGED <<def, choice_members, values>>

SetAll ==
  /\ pc = "set"
  /\ SetNew \/ SetRandom \/ Rewrite \/ SetNothing
  /\ pc' = "end"
  /\ UNCHANGED <<name, mode, rootmenu, program, read, todo, rootEntry, conf_cnt>>

----------------------------------------------------------------------------
\* main(): oldaskconfig starts with conf(), the others with check_conf(), which
\* is called until a pass has asked for nothing.
StartWalk ==
  /\ pc = "set" /\ mode \in Asking \cup Listing
  /\ pc' = "walk"
  /\ todo' = <<<<IF mode = "oldaskconfig" THEN "conf" ELSE "check", <<>>>>>>
  /\ UNCHANGED <<name, mode, rootmenu, program, read, def, choice_members, values, rootEntry, conf_cnt>>

Again == mode = "oldaskconfig" \/ conf_cnt # 0
EndOfPass ==
  /\ pc = "walk" /\ todo = <<>>
  /\ mode' = IF mode = "oldaskconfig" THEN "oldconfig" ELSE mode
  /\ conf_cnt' = 0
  /\ IF Again THEN todo' = <<<<"check", <<>>>>>> /\ pc' = pc ELSE pc' = "end" /\ todo' = todo
  /\ UNCHANGED <<name, rootmenu, program, read, def, choice_members, values, rootEntry>>

\* The next call, and the calls that it makes for the entries below.
Calling(op, m) == pc = "walk" /\ todo # <<>> /\ Head(todo) = <<op, m>>
Calls(op, m) == [i \in DOMAIN Below(m) |-> <<op, Below(m)[i]>>]
GoOn(calls) == todo' = calls \o Tail(todo)

Skip ==
  /\ pc = "walk" /\ todo # <<>>
  /\ ~menu_is_visible(Head(todo)[2])
  /\ GoOn(<<>>)
  /\ UNCHANGED <<name, mode, rootmenu, program, pc, read, def, choice_members, values, rootEntry, conf_cnt>>

\* check_conf(): a symbol without a value that can be changed makes conf() ask
\* for the whole menu it is in.  The mutant does not take notice of it.
IsNew(m) ==
  LET s == Menu(m).sym IN s # None /\ ~sym_has_value(s) /\ sym_is_changeable(s)
Unnoticed == conf_cnt
Noticed == 1
check_conf(m) ==
  /\ Calling("check", m) /\ menu_is_visible(m)
  /\ IF IsNew(m) /\ mode \notin Listing
       THEN /\ rootEntry' = menu_get_parent_menu(m)
            /\ conf_cnt' = Noticed
            /\ GoOn(<<<<"conf", rootEntry'>>>> \o Calls("check", m))
       ELSE GoOn(Calls("check", m)) /\ UNCHANGED <<rootEntry, conf_cnt>>
  /\ UNCHANGED <<name, mode, rootmenu, program, pc, read, def, choice_members, values>>

\* conf() of an entry that has nothing to ask: of another menu, only what is new
\* is looked for.
conf_menu(m) ==
  /\ Calling("conf", m) /\ menu_is_visible(m)
  /\ \/ /\ IsMenu(m) /\ mode # "oldaskconfig" /\ rootEntry # m
        /\ GoOn(<<<<"check", m>>>>)
     \/ /\ Menu(m).sym = None
        /\ ~(IsMenu(m) /\ mode # "oldaskconfig" /\ rootEntry # m)
        /\ GoOn(Calls("conf", m))
  /\ UNCHANGED <<name, mode, rootmenu, program, pc, read, def, choice_members, values, rootEntry, conf_cnt>>

\* conf_askvalue(): whether the user is asked.
conf_askvalue(s) == sym_is_changeable(s) /\ (mode = "oldconfig" => ~sym_has_value(s))

\* conf_sym(), conf_string(): an answer out of range is asked for again; an empty
\* one stands for the value that the symbol has.
conf_sym(m) ==
  LET s == Menu(m).sym
  IN  /\ Calling("conf", m) /\ menu_is_visible(m)
      /\ s # None /\ ~sym_is_choice(s)
      /\ ~(IsMenu(m) /\ mode # "oldaskconfig" /\ rootEntry # m)
      /\ GoOn(Calls("conf", m))
      /\ IF conf_askvalue(s)
           THEN \E v \in Domain(s) \cup {values[s]} :
                  WithinRange(s, v) /\ SetValues([def EXCEPT ![s] = v], choice_members)
           ELSE UNCHANGED <<def, choice_members, values>>
      /\ UNCHANGED <<name, mode, rootmenu, program, pc, read, rootEntry, conf_cnt>>

----------------------------------------------------------------------------
\* choice_set_value(): the visible members become "y" or "n", and go to the front
\* of choice_members one after the other.  The mutant sets the chosen one only.
SetChosenOnly(c, s) == {s}
SetVisible(c, s) == {t \in Members(c) : E!Visibility(t) # no}
choice_set_value(c, s) ==
  LET set == SetVisible(c, s)
      moved == SelectSeq(program.choices[c].members, LAMBDA t : t \in set)
      rest == SelectSeq(choice_members[c], LAMBDA t : t \notin set)
  IN  SetValues([t \in DOMAIN def |-> IF t \in set THEN (IF t = s THEN yes ELSE no) ELSE def[t]],
                [choice_members EXCEPT ![c] = Reverse(moved) \o rest])

\* conf_choice(): the members that are shown, numbered from 1.  A choice with one
\* is not asked for; without a new member only oldaskconfig asks.  The mutant
\* takes the number of the current member from the list of all.
Offered(m) ==
  LET shown == SelectSeq(Below(m), LAMBDA c : Menu(c).sym # None /\ menu_is_visible(c))
  IN  [i \in DOMAIN shown |-> Menu(shown[i]).sym]
ChosenOf(m) == E!Chosen(Menu(m).sym, [t \in Symbols |-> E!Visibility(t)])
NumberInList(m) ==
  CHOOSE i \in DOMAIN Offered(m) :
    \/ Menu(Below(m)[i]).sym = ChosenOf(m)
    \/ \A j \in DOMAIN Offered(m) : Menu(Below(m)[j]).sym # ChosenOf(m)
NumberShown(m) == CHOOSE i \in DOMAIN Offered(m) : Offered(m)[i] = ChosenOf(m)
ChoiceIsNew(m) == \E i \in DOMAIN Offered(m) : ~sym_has_value(Offered(m)[i])
AskedFor(m) == Len(Offered(m)) > 1 /\ (mode = "oldaskconfig" \/ ChoiceIsNew(m))
Chooses(m) == Calling("conf", m) /\ menu_is_visible(m) /\ sym_is_choice(Menu(m).sym)
conf_choice(m) ==
  /\ Chooses(m) /\ Offered(m) # <<>>
  /\ GoOn(<<>>)
  /\ \E i \in IF AskedFor(m) THEN DOMAIN Offered(m)
              ELSE IF Len(Offered(m)) = 1 THEN {1} ELSE {NumberShown(m)} :
       choice_set_value(Menu(m).sym, Offered(m)[i])
  /\ UNCHANGED <<name, mode, rootmenu, program, pc, read, rootEntry, conf_cnt>>

\* With no member to show there is no number that conf_choice() accepts: it goes
\* on asking, or, in oldconfig, goes on without asking.
NothingOffered == pc = "walk" /\ todo # <<>> /\ Chooses(Head(todo)[2]) /\ Offered(Head(todo)[2]) = <<>>
Stuck == NothingOffered /\ UNCHANGED vars

Ended == pc \in {"end", "error"} /\ UNCHANGED vars

Walk ==
  \/ Skip \/ Stuck
  \/ /\ pc = "walk" /\ todo # <<>>
     /\ LET m == Head(todo)[2] IN check_conf(m) \/ conf_menu(m) \/ conf_sym(m) \/ conf_choice(m)
Next == Parse \/ Read \/ SetAll \/ StartWalk \/ EndOfPass \/ Walk \/ Ended

\* The program runs by itself, and the user answers in the end with a value that
\* is accepted.
Spec == Init /\ [][Next]_vars /\ WF_vars(Next)

----------------------------------------------------------------------------
\* conf_parse() lets a program pass only if no value depends on itself, which
\* sym_calc_value() would not notice: the closure of what the rules of the engine
\* read, a choice and its members being one, is free of cycles.  (The bounds of
\* ranges are read as well but not looked at.)
ReadBy(s) ==
  LET conds == <<program.dir_dep[s], program.rev_dep[s], program.implied[s], program.prompt[s]>>
      of == {d.cond : d \in ToSet(program.default[s])}
              \cup {d.value : d \in IF s \in ChoiceSyms \/ Type[s] = "int" THEN {}
                                    ELSE ToSet(program.default[s])}
              \cup {r.cond : r \in ToSet(program.ranges[s])}
  IN  {t \in program.symbols : \E c \in ToSet(conds) \cup of : expr_contains_symbol(c, t)}
GroupOf(s) == {s} \cup UNION {{c} \cup Members(c) : c \in {c \in DOMAIN program.choices : s = c \/ s \in Members(c)}}
RECURSIVE Reached(_)
Reached(syms) ==
  LET next == syms \cup UNION {UNION {GroupOf(t) : t \in ReadBy(s)} : s \in syms}
  IN  IF next = syms THEN syms ELSE Reached(next)
MeetsItself(s) ==
  \E g \in GroupOf(s) : \E t \in ReadBy(g) : s \in Reached(GroupOf(t))
CyclesFound ==
  /\ pc = "error" => \E s \in program.symbols : MeetsItself(s)
  /\ pc = "read" => \A s \in program.symbols : ~MeetsItself(s)

\* Whatever the values are, the menu tree that menu_finalize() has built leads to
\* each prompt that is visible: every entry above it is visible too.  A symbol
\* whose prompt is not visible has its submenu reached all the same, if it is set.
\* (The members of a choice whose prompt is not visible are not meant to be set.)
RECURSIVE HiddenBelow(_, _)
HiddenBelow(e, above) ==
  \/ /\ e.sym # None /\ e.prompt # None /\ ~above
     /\ Value(e.prompt.visible) # no
  \/ /\ ~sym_is_choice(e.sym)
     /\ \E i \in DOMAIN e.list : HiddenBelow(e.list[i], above /\ IsVisible(e))
NothingHidden == pc \in {"set", "walk", "end"} => ~HiddenBelow(rootmenu, TRUE)

\* When oldconfig ends, no symbol that the user could set is without an answer,
\* also when the answer to one question has made another one visible that had
\* been passed before.
Askable(s) ==
  /\ sym_is_changeable(s)
  /\ \A c \in DOMAIN program.choices : s \in Members(c) => Value(program.prompt[c]) # no
AllAnswered ==
  pc = "end" /\ mode = "oldconfig" => \A s \in Symbols : Askable(s) => def[s] # NoValue

\* oldconfig keeps the answers that there are, and where it does not ask, no
\* value changes: in particular it confirms the member of a choice that the
\* engine has chosen, by its number among those that are shown.
Asks ==
  /\ todo # <<>> /\ Head(todo)[1] = "conf"
  /\ LET m == Head(todo)[2]
     IN  CASE Menu(m).sym = None -> FALSE
           [] Menu(m).sym \in ChoiceSyms -> ChoiceIsNew(m)
           [] OTHER -> ~sym_has_value(Menu(m).sym)
KeepsAnswers ==
  [][pc = "walk" /\ mode = "oldconfig" =>
       /\ \A s \in Symbols : ~IsMember(s) /\ def[s] # NoValue => def'[s] = def[s]
       /\ ~Asks => values' = values]_vars

\* A member of a choice that KCONFIG_ALLCONFIG sets to "y" is the one that is
\* chosen, whatever the mode makes of the others; one that it sets to "n" is not,
\* unless all that are visible are.
AllconfigRespected ==
  pc = "end" /\ mode \in Setting =>
    \A c \in DOMAIN program.choices :
      LET visible == {s \in Members(c) : E!Visibility(s) # no}
          given(v) == {s \in visible : read[s] = v}
          chosen == {s \in visible : values[s] = yes}
      IN  IF given(yes) # {} THEN chosen \subseteq given(yes)
          ELSE given(no) # visible => chosen \cap given(no) = {}

\* The walk ends, unless a choice has nothing to offer.
Terminates == <>(pc \in {"end", "error"} \/ NothingOffered)
=============================================================================
