----------------------------- MODULE SymbolCalc -----------------------------
(****************************************************************************)
(* The values of bool and tristate symbols: symbol.c.  A symbol's value is  *)
(* computed from the user's value, its visibility, its defaults and the     *)
(* symbols that select or imply it, and is cached under SYMBOL_VALID until  *)
(* a change of the configuration clears the flags of all symbols.           *)
(*                                                                          *)
(* sym_calc_value() is recursive: it computes what it reads on the way.     *)
(* Here each symbol is computed by a step of its own that is enabled once   *)
(* the symbols it reads are valid; the front ends may ask for the symbols   *)
(* in any order.  Expression values (expr.c:968) are cached and dropped     *)
(* together with the flags, and so are no state of their own.               *)
(****************************************************************************)
EXTENDS Conditions, Integers, SequencesExt

CONSTANTS Sym,       \* the symbols
          Kconfigs,  \* the programs
          None       \* no symbol, no history

\* The symbols whose values sym_calc_value() reads, of the program p: for a
\* symbol by itself, for a member of the choice c, and for any symbol s.
DefaultReads(d) == Reads(d.cond) \cup Reads(d.value)
SymReads(p, s) ==
  (UNION {Reads(p.prompt[s]), Reads(p.dir_dep[s]), Reads(p.rev_dep[s]), Reads(p.implied[s])})
  \cup (UNION {DefaultReads(d) : d \in ToSet(p.default[s])})
Members(p, c) == ToSet(p.choices[c].members)
ChoiceReads(p, c) ==
  (UNION {Reads(p.prompt[m]) : m \in Members(p, c)})
  \cup (UNION {Reads(d.cond) : d \in ToSet(p.choices[c].defaults)})
ReadsOf(p, s) ==
  LET choices == {c \in DOMAIN p.choices : s \in Members(p, c)}
  IN  IF choices = {} THEN SymReads(p, s) ELSE UNION {ChoiceReads(p, c) : c \in choices}

\* The symbols that the values of S depend on, S with them.
Upstream(p, S) ==
  {s \in Sym : \A T \in SUBSET Sym :
     S \subseteq T /\ (\A t \in T : ReadsOf(p, t) \subseteq T) => s \in T}

\* What sym_clear_all_valid() computes.
Needed(p) == Upstream(p, {p.modules})

----------------------------------------------------------------------------
(* The programs.  Kconfig refuses a symbol that depends on itself, by way of *)
(* a choice or not; the members of a choice are bools, and are in no other.  *)
(* It does not check that modules_sym is in no choice, or that none of the   *)
(* symbols it depends on is a tristate: a change of the mode would not reach *)
(* modules_val in the one case, in the other the tristate would keep a value *)
(* of the mode before.                                                       *)

Typed(p) ==
  /\ p.modules \in Sym
  /\ p.type \in [Sym -> {"bool", "tristate"}]
  /\ p.prompt \in [Sym -> ConditionsOver(Sym)]
  /\ p.dir_dep \in [Sym -> ConditionsOver(Sym)]
  /\ p.rev_dep \in [Sym -> ConditionsOver(Sym)]
  /\ p.implied \in [Sym -> ConditionsOver(Sym)]
  /\ \A s \in Sym :
       p.default[s] \in Seq([cond : ConditionsOver(Sym), value : ConditionsOver(Sym)])
  /\ \A c \in DOMAIN p.choices :
       /\ p.choices[c].members \in Seq(Sym)
       /\ p.choices[c].defaults \in Seq([cond : ConditionsOver(Sym), sym : Members(p, c)])

ChoicesApart(p) ==
  /\ \A c \in DOMAIN p.choices : \A m \in Members(p, c) :
       p.type[m] = "bool" /\ m # p.modules
  /\ \A c, d \in DOMAIN p.choices : c # d => Members(p, c) \cap Members(p, d) = {}

NoRecursion(p) ==
  /\ \A s \in Sym : s \notin Upstream(p, ReadsOf(p, s))
  /\ \A c \in DOMAIN p.choices : Members(p, c) \cap Upstream(p, ChoiceReads(p, c)) = {}

ModulesByBools(p) == \A s \in Needed(p) : p.type[s] = "bool"

ASSUME KconfigAssumption ==
  \A p \in Kconfigs : Typed(p) /\ ChoicesApart(p) /\ NoRecursion(p) /\ ModulesByBools(p)
ASSUME NoneAssumption == None \notin Sym

----------------------------------------------------------------------------
VARIABLES
  k,            \* the program
  user,         \* def[S_DEF_USER], NoValue without SYMBOL_DEF_USER
  order,        \* by choice: choice_members, by priority
  curr,         \* the values of the symbols
  modules_val,  \* the value of modules_sym that is in effect
  valid,        \* the symbols with SYMBOL_VALID
  write,        \* the symbols with SYMBOL_WRITE
  visible, dir_dep, rev_dep, implied,
  clearing,     \* sym_clear_all_valid() is computing modules_sym
  last,         \* history: the last value set by the user, <<s, v>>
  saved         \* history: the values when .config was written

INSTANCE SymbolRules

values == <<valid, write, curr, visible, dir_dep, rev_dep, implied, modules_val>>
vars == <<k, user, values, order, clearing, last, saved>>

\* While sym_clear_all_valid() computes modules_sym, only what that needs is
\* computed.
Asked(s) == s \notin valid /\ (clearing => s \in Needed(k))

\* The end of sym_calc_value(): the value of modules_sym takes effect at once.
NewModulesVal(s, t) == IF s = k.modules THEN t ELSE modules_val

CalcValue ==
  /\ \E s \in Sym :
       /\ Asked(s) /\ ~sym_is_choice_value(s)
       /\ SymReads(k, s) \subseteq valid
       /\ valid' = valid \cup {s}
       /\ write' = IF Written(s) THEN write \cup {s} ELSE write \ {s}
       /\ curr' = [curr EXCEPT ![s] = NewValue(s)]
       /\ visible' = [visible EXCEPT ![s] = Visibility(s)]
       /\ dir_dep' = [dir_dep EXCEPT ![s] = DirDep(s)]
       /\ rev_dep' = [rev_dep EXCEPT ![s] = RevDep(s)]
       /\ implied' = [implied EXCEPT ![s] = Implied(s)]
       /\ modules_val' = NewModulesVal(s, NewValue(s))
       /\ clearing' = (clearing /\ s # k.modules)
  /\ UNCHANGED <<k, user, order, last, saved>>

----------------------------------------------------------------------------
\* sym_calc_choice(): the members are looked at by priority up to the first
\* one that is visible and that the user has set to "y".
Hits(c) ==
  {i \in DOMAIN order[c] : Visibility(order[c][i]) # no /\ user[order[c][i]] = yes}
LookedAt(c) ==
  IF Hits(c) = {} THEN DOMAIN order[c]
  ELSE LET hit == CHOOSE i \in Hits(c) : \A j \in Hits(c) : i <= j IN 1 .. hit

\* The members sym_calc_choice() gives a value: those that are not marked
\* invisible, whether it has looked at their visibility or not.
CalcChoiceMember ==
  /\ \E s \in Sym : \E c \in ChoiceOf(s) :
       LET seen == {s} \cup {order[c][i] : i \in LookedAt(c)}
           vis == [m \in Sym |-> IF m \in seen THEN Visibility(m) ELSE visible[m]]
           res == Chosen(c, vis)
           set == {m \in Members(k, c) : vis[m] # no}
       IN  /\ Asked(s)
           /\ ChoiceReads(k, c) \subseteq valid
           /\ visible' = vis
           /\ curr' = [m \in Sym |-> IF m \in set THEN IF m = res THEN yes ELSE no
                                     ELSE IF m = s THEN no ELSE curr[m]]
           /\ valid' = valid \cup {s} \cup set
           /\ write' = (write \ {s}) \cup set
  /\ UNCHANGED <<k, user, dir_dep, rev_dep, implied, modules_val, order,
                 clearing, last, saved>>

----------------------------------------------------------------------------
\* sym_clear_all_valid(): every flag is cleared, then modules_sym computed.
sym_clear_all_valid == valid' = {} /\ clearing' = TRUE
KeepAllValid == UNCHANGED <<valid, clearing>>

\* sym_tristate_within_range(); the mutant forgets the lower limit that a
\* select sets.
NoLowerLimit(s, v) ==
  visible[s] # no /\ v <= visible[s] /\ ~(sym_get_type(s) = "bool" /\ v = mod)
WithinRange(s, v) ==
  /\ visible[s] # no
  /\ ~(sym_get_type(s) = "bool" /\ v = mod)
  /\ rev_dep[s] < visible[s]
  /\ rev_dep[s] <= v /\ v <= visible[s]

\* Is the cache to be cleared when v is set and the value was t?
NeverStale(t, v) == FALSE
Stale(t, v) == t # v

\* sym_set_tristate_value(): what every front end calls on a symbol it has
\* just shown.
sym_set_tristate_value ==
  /\ ~clearing
  /\ \E s \in valid, v \in Tri :
       /\ WithinRange(s, v)
       /\ user' = [user EXCEPT ![s] = v]
       /\ last' = IF sym_is_choice_value(s) THEN None ELSE <<s, v>>
       /\ IF Stale(curr[s], v) THEN sym_clear_all_valid ELSE KeepAllValid
  /\ saved' = None
  /\ UNCHANGED <<k, write, curr, visible, dir_dep, rev_dep, implied,
                 modules_val, order>>

\* list_move() to the head of the list.
ToFront(l, m) == <<m>> \o RemoveAt(l, CHOOSE i \in DOMAIN l : l[i] = m)

\* choice_set_value(): the members in ms move, one by one, to the front.
Moved(c, ms) ==
  LET members == k.choices[c].members
      moved[i \in 0 .. Len(members)] ==
        IF i = 0 THEN order[c]
        ELSE IF members[i] \in ms THEN ToFront(moved[i - 1], members[i]) ELSE moved[i - 1]
  IN  moved[Len(members)]

choice_set_value ==
  /\ ~clearing
  /\ \E c \in AllChoices :
       LET set == {m \in Members(k, c) : visible[m] # no}
       IN  /\ Members(k, c) \subseteq valid
           /\ \E s \in set :
                /\ user' = [m \in Sym |-> IF m \in set THEN IF m = s THEN yes ELSE no
                                          ELSE user[m]]
                /\ last' = IF Visibility(s) = no THEN None ELSE <<s, yes>>
                /\ IF \E m \in set : Stale(curr[m], IF m = s THEN yes ELSE no)
                     THEN sym_clear_all_valid ELSE KeepAllValid
           /\ order' = [order EXCEPT ![c] = Moved(c, set)]
  /\ saved' = None
  /\ UNCHANGED <<k, write, curr, visible, dir_dep, rev_dep, implied, modules_val>>

\* conf_read(): the user's values are those of the lines of the file; a choice
\* member with a line gets the highest priority.  The first symbol computed is
\* modules_sym.
Load(lines) ==
  /\ user' = lines
  /\ valid' = {}
  /\ clearing' = TRUE
  /\ last' = None
  /\ UNCHANGED <<k, write, curr, visible, dir_dep, rev_dep, implied, modules_val>>

\* A file with the symbols in menu order.
InMenuOrder(lines) ==
  order' = [c \in AllChoices |-> Moved(c, {m \in Sym : lines[m] # NoValue})]

\* A .config from elsewhere.
conf_read ==
  /\ ~clearing
  /\ \E lines \in [Sym -> Tri \cup {NoValue}] :
       /\ \A s \in Sym : lines[s] = mod => k.type[s] = "tristate"
       /\ Load(lines) /\ InMenuOrder(lines)
  /\ saved' = None

\* conf_write(), and conf_read() of what it has written.
conf_write_and_read ==
  /\ ~clearing /\ valid = Sym
  /\ LET lines == [s \in Sym |-> IF s \in write THEN curr[s] ELSE NoValue]
     IN  Load(lines) /\ InMenuOrder(lines)
  /\ saved' = curr

\* conf_write_defconfig(): what a user could have set, and what differs from
\* the value the symbol has by itself.  A choice has its default by itself.
Minimal ==
  {s \in write :
     /\ sym_is_changeable(s)
     /\ IF sym_is_choice_value(s)
        THEN LET Visible == [m \in Sym |-> Visibility(m)]
             IN  curr[s] = yes /\ \A c \in ChoiceOf(s) : s # ChoiceDefault(c, Visible)
        ELSE curr[s] # sym_get_string_default(s)}

\* savedefconfig, and defconfig with what it has written.
conf_write_defconfig_and_read ==
  /\ ~clearing /\ valid = Sym
  /\ LET lines == [s \in Sym |-> IF s \in Minimal THEN curr[s] ELSE NoValue]
     IN  Load(lines) /\ InMenuOrder(lines)
  /\ saved' = curr

----------------------------------------------------------------------------
Init ==
  /\ k \in Kconfigs
  /\ user = [s \in Sym |-> NoValue]
  /\ valid = {} /\ write = {}
  /\ curr = [s \in Sym |-> no] /\ visible = [s \in Sym |-> no]
  /\ dir_dep = [s \in Sym |-> no] /\ rev_dep = [s \in Sym |-> no]
  /\ implied = [s \in Sym |-> no]
  /\ modules_val = no
  /\ order = [c \in AllChoices |-> k.choices[c].members]
  /\ clearing = TRUE
  /\ last = None /\ saved = None

Next ==
  \/ CalcValue \/ CalcChoiceMember
  \/ sym_set_tristate_value \/ choice_set_value
  \/ conf_read \/ conf_write_and_read \/ conf_write_defconfig_and_read

Spec == Init /\ [][Next]_vars

----------------------------------------------------------------------------
Settled(s) == s \in valid /\ ~clearing

\* A cached value is what computing it again would give: the flag of a symbol
\* is only kept where nothing it depends on has changed, although setting a
\* symbol to the value it has leaves the cache alone.
CacheCoherent ==
  \A s \in Sym :
    Settled(s) /\ ~sym_is_choice_value(s) =>
      /\ curr[s] = NewValue(s)
      /\ visible[s] = Visibility(s) /\ rev_dep[s] = RevDep(s)
      /\ s \in write <=> Written(s)

\* A choice, once computed, is what computing it again would give.
ChoiceCoherent ==
  \A c \in AllChoices :
    LET vis == [m \in Sym |-> Visibility(m)]
    IN  Members(k, c) \subseteq valid /\ ~clearing =>
          \A m \in Members(k, c) : curr[m] = yes <=> m = Chosen(c, vis)

\* The user gets what was accepted: the value set last is the value computed.
SetSticks ==
  last # None /\ Settled(last[1]) => curr[last[1]] = last[2]

\* What was written to .config is what is read from it (conf_write), and so is
\* what was written to a minimal configuration, which leaves out what a symbol
\* has by itself (conf_write_defconfig).
RoundTrip == saved # None => \A s \in Sym : Settled(s) => curr[s] = saved[s]

\* Which programs this is true of.  As menu_finalize() leaves it, the condition
\* of a prompt implies the dependencies of the symbol, as does that of a default.
\* For a tristate the converse is needed: with a condition of its own, a prompt
\* may be less visible than its default, and "m" is read where "y" was saved.
\* And members of a choice are not selected.
AtMost(c, d) == \A v \in [Sym -> Tri] : expr_calc_value(c, v) <= expr_calc_value(d, v)
Savable(p) ==
  \A s \in Sym :
    IF \E c \in DOMAIN p.choices : s \in Members(p, c) THEN p.rev_dep[s] = {}
    ELSE /\ AtMost(p.prompt[s], p.dir_dep[s])
         /\ p.type[s] = "tristate" /\ p.prompt[s] # {} =>
              /\ AtMost(p.dir_dep[s], p.prompt[s])
              /\ \A d \in ToSet(p.default[s]) : AtMost(d.cond, p.dir_dep[s])

=============================================================================
