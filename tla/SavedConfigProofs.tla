------------------------- MODULE SavedConfigProofs -------------------------
(****************************************************************************)
(* Proofs about SymbolCalc, continued: a configuration that is saved and    *)
(* read again, in full or as a minimal one, is the same configuration, for  *)
(* every program that Savable describes.                                    *)
(*                                                                          *)
(* What is read is not what was computed: lines are left out, and those     *)
(* there are take the place of the user's values.  The values in the cache  *)
(* are still there when its flags are dropped, and RoundInv says that they  *)
(* are also what the new user's values give, so that filling the cache      *)
(* again changes nothing.                                                   *)
(****************************************************************************)
EXTENDS SymbolCalcProofs

\* A member of a choice without a line is not visible.
WriteInv == \A m \in valid : sym_is_choice_value(m) => m \in write \/ visible[m] = no

RoundInv == saved # None => saved = curr /\ \A s \in Sym : Fits(s)

----------------------------------------------------------------------------
(* The arithmetic of sym_calc_value(): a symbol with the visibility vis, the *)
(* lower limit rev and the value auto by itself, for the user's value u.     *)

Result(type, vis, rev, auto, u) ==
  LET t == Or(IF vis # no /\ u # NoValue THEN And(u, vis) ELSE auto, rev)
  IN  IF t = mod /\ type = "bool" THEN yes ELSE t

\* With the value it has as the user's, a symbol keeps it.
LEMMA ResultAgain ==
  ASSUME NEW type, NEW vis \in Tri, NEW rev \in Tri, NEW auto \in Tri,
         NEW u \in Tri \cup {NoValue},
         type = "bool" => vis # mod /\ rev # mod,
         vis # no => auto <= vis
  PROVE  LET t == Result(type, vis, rev, auto, u) IN Result(type, vis, rev, auto, t) = t
<1>1. CASE type = "bool"
  BY <1>1 DEF Result, And, Or, Tri, NoValue, no, mod, yes
<1>2. CASE type # "bool"
  BY <1>2 DEF Result, And, Or, Tri, NoValue, no, mod, yes
<1> QED
  BY <1>1, <1>2

\* The value by itself, from the default, from what implies the symbol and from
\* its dependencies; and what conf_write_defconfig() takes for it.
ByItself(def, imp, dep) == IF imp = no THEN def ELSE And(Or(def, imp), dep)
TakenFor(type, def, imp, rev) ==
  LET t == Or(def, rev) IN Or(IF t = mod /\ type = "bool" THEN yes ELSE t, imp)

\* A symbol that a minimal configuration leaves out has the same value by itself:
\* the user could not set it, or it has the value it is taken to have.
LEMMA ResultWithout ==
  ASSUME NEW type, NEW vis \in Tri, NEW rev \in Tri, NEW def \in Tri,
         NEW imp \in Tri, NEW dep \in Tri, NEW u \in Tri \cup {NoValue},
         type = "bool" => vis # mod /\ rev # mod /\ imp # mod /\ dep # mod,
         vis <= dep,
         vis # no => ByItself(def, imp, dep) <= vis,
         \/ ~(vis > rev)
         \/ Result(type, vis, rev, ByItself(def, imp, dep), u) = TakenFor(type, def, imp, rev)
  PROVE  Result(type, vis, rev, ByItself(def, imp, dep), NoValue)
           = Result(type, vis, rev, ByItself(def, imp, dep), u)
<1>1. CASE type = "bool"
  BY <1>1 DEF Result, ByItself, TakenFor, And, Or, Tri, NoValue, no, mod, yes
<1>2. CASE type # "bool"
  BY <1>2 DEF Result, ByItself, TakenFor, And, Or, Tri, NoValue, no, mod, yes
<1> QED
  BY <1>1, <1>2

----------------------------------------------------------------------------
(* A symbol that is in no choice. *)

LEMMA NothingIsNo == ASSUME NEW v PROVE expr_calc_value({}, v) = no
<1>1. {Term(t, v) : t \in {}} = {}
  OBVIOUS
<1>2. Greatest({}) = no
  <2>1. no \in Tri
    BY DEF Tri, no
  <2>2. \A a \in Tri : ((\A b \in {} : b <= a) /\ (a = no \/ a \in {})) <=> a = no
    OBVIOUS
  <2> QED
    BY <2>1, <2>2 DEF Greatest
<1> QED
  BY <1>1, <1>2 DEF expr_calc_value

LEMMA DefaultIs ==
  ASSUME TypeInv, NEW s \in Sym
  PROVE  \/ DefaultValue(s) = no
         \/ \E d \in ToSet(k.default[s]) :
              /\ expr_calc_value(d.value, curr) \in Tri /\ expr_calc_value(d.cond, curr) \in Tri
              /\ DefaultValue(s) = And(expr_calc_value(d.value, curr), expr_calc_value(d.cond, curr))
<1> DEFINE ds == k.default[s]
           Default == [cond : ConditionsOver(Sym), value : ConditionsOver(Sym)]
           d == First(ds, InForce(ds))
<1>1. Typed(k) /\ curr \in [Sym -> Tri] /\ ds \in Seq(Default)
  BY KconfigAssumption DEF TypeInv, Typed
<1>2. d = None \/ (d \in ToSet(ds) /\ d \in Default)
  <2> HIDE DEF ds, Default
  <2>1. d = None \/ \E i \in DOMAIN ds : d = ds[i]
    BY <1>1, FirstIs
  <2> QED
    BY <1>1, <2>1 DEF ToSet
<1>3. d \in Default => expr_calc_value(d.cond, curr) \in Tri /\ expr_calc_value(d.value, curr) \in Tri
  <2>1. d \in Default => d.cond \in ConditionsOver(Sym) /\ d.value \in ConditionsOver(Sym)
    OBVIOUS
  <2> HIDE DEF d, Default
  <2> QED
    BY <1>1, <2>1, ConditionType
<1>4. DefaultValue(s) = IF d = None THEN no
        ELSE And(expr_calc_value(d.value, curr), expr_calc_value(d.cond, curr))
  BY DEF DefaultValue
<1> HIDE DEF d, Default
<1> QED
  BY <1>2, <1>3, <1>4

\* By itself, a symbol has no value that the user could not have given it.
LEMMA AutomaticInside ==
  ASSUME TypeInv, Savable(k), NEW s \in Sym, ~sym_is_choice_value(s)
  PROVE  /\ DefaultValue(s) \in Tri /\ Automatic(s) \in Tri
         /\ sym_get_type(s) = "bool" =>
              /\ Visibility(s) # mod /\ RevDep(s) # mod
              /\ Implied(s) # mod /\ DirDep(s) # mod
         /\ Visibility(s) <= DirDep(s)
         /\ Visibility(s) # no => Automatic(s) <= Visibility(s)
<1>1. Typed(k) /\ curr \in [Sym -> Tri]
  BY KconfigAssumption DEF TypeInv
<1>2. /\ expr_calc_value(k.prompt[s], curr) \in Tri
      /\ expr_calc_value(k.dir_dep[s], curr) \in Tri
  BY <1>1, ConditionType DEF Typed
<1>3. /\ Visibility(s) \in Tri /\ DirDep(s) \in Tri /\ RevDep(s) \in Tri /\ Implied(s) \in Tri
  BY RuleTypes
<1>4. DefaultValue(s) \in Tri
  BY DefaultIs, TriOps DEF Tri, no
<1>5. Automatic(s) \in Tri
  BY <1>3, <1>4, TriOps DEF Automatic
<1>6. sym_get_type(s) = "bool" =>
        Visibility(s) # mod /\ RevDep(s) # mod /\ Implied(s) # mod /\ DirDep(s) # mod
  BY DEF Visibility, RevDep, Implied, DirDep, Promoted, mod, yes
<1>7. /\ AtMost(k.prompt[s], k.dir_dep[s])
      /\ k.type[s] = "tristate" /\ k.prompt[s] # {} =>
           /\ AtMost(k.dir_dep[s], k.prompt[s])
           /\ \A d \in ToSet(k.default[s]) : AtMost(d.cond, k.dir_dep[s])
  BY ChoiceOfIs DEF Savable, AllChoices
<1>8. expr_calc_value(k.prompt[s], curr) <= expr_calc_value(k.dir_dep[s], curr)
  BY <1>1, <1>7 DEF AtMost
<1>9. Visibility(s) <= DirDep(s)
  BY <1>2, <1>8 DEF Visibility, DirDep, Promoted, Tri, mod, yes
<1>10. ASSUME Visibility(s) # no PROVE Automatic(s) <= Visibility(s)
  <2>1. CASE sym_get_type(s) = "bool"
    BY <1>3, <1>5, <1>6, <1>10, <2>1 DEF Tri, no, mod
  <2>2. CASE sym_get_type(s) # "bool"
    <3>1. k.type[s] = "tristate"
      BY <1>1, <2>2 DEF Typed, sym_get_type
    <3>2. /\ Visibility(s) = expr_calc_value(k.prompt[s], curr)
          /\ DirDep(s) = expr_calc_value(k.dir_dep[s], curr)
      BY <2>2 DEF Visibility, DirDep, Promoted
    <3>3. k.prompt[s] # {}
      BY <1>10, <3>2, NothingIsNo
    <3>4. DirDep(s) <= Visibility(s)
      BY <1>1, <1>7, <3>1, <3>2, <3>3 DEF AtMost
    <3>5. \A d \in ToSet(k.default[s]) : expr_calc_value(d.cond, curr) <= DirDep(s)
      BY <1>1, <1>7, <3>1, <3>2, <3>3 DEF AtMost
    <3>6. DefaultValue(s) <= DirDep(s)
      <4>1. CASE DefaultValue(s) = no
        BY <1>3, <4>1 DEF Tri, no
      <4>2. ASSUME NEW d \in ToSet(k.default[s]),
                   expr_calc_value(d.value, curr) \in Tri, expr_calc_value(d.cond, curr) \in Tri,
                   DefaultValue(s) = And(expr_calc_value(d.value, curr), expr_calc_value(d.cond, curr))
            PROVE  DefaultValue(s) <= DirDep(s)
        BY <1>3, <3>5, <4>2 DEF And, Tri
      <4> QED
        BY <4>1, <4>2, DefaultIs
    <3>7. Automatic(s) <= DirDep(s)
      <4>1. Or(DefaultValue(s), Implied(s)) \in Tri
        BY <1>3, <1>4, TriOps
      <4> QED
        BY <1>3, <3>6, <4>1 DEF Automatic, And, Tri
    <3> QED
      BY <1>3, <1>5, <3>4, <3>7 DEF Tri
  <2> QED
    BY <2>1, <2>2
<1> QED
  BY <1>4, <1>5, <1>6, <1>9, <1>10

\* The line of a symbol, or that there is none, gives it the value it has.
LEMMA SavedSymbol ==
  ASSUME TypeInv, Savable(k), NEW s \in Sym, ~sym_is_choice_value(s), SymbolInv(s),
         k' = k, curr' = curr, modules_val' = modules_val,
         \/ user'[s] = curr[s]
         \/ /\ user'[s] = NoValue
            /\ s \notin write \/ ~sym_is_changeable(s) \/ curr[s] = sym_get_string_default(s)
  PROVE  NewValue(s)' = curr[s]
<1> DEFINE type == sym_get_type(s)
<1>1. /\ sym_get_type(s)' = sym_get_type(s)
      /\ Visibility(s)' = Visibility(s) /\ RevDep(s)' = RevDep(s) /\ DirDep(s)' = DirDep(s)
      /\ Implied(s)' = Implied(s) /\ DefaultValue(s)' = DefaultValue(s)
  BY DEF sym_get_type, Visibility, RevDep, DirDep, Implied, DefaultValue, Promoted, InForce
<1>2. Automatic(s)' = Automatic(s)
  BY <1>1 DEF Automatic
<1>3. NewValue(s) = Result(type, Visibility(s), RevDep(s), Automatic(s), user[s])
  BY DEF NewValue, Promoted, sym_has_value, Result
<1>4. NewValue(s)' = Result(type, Visibility(s), RevDep(s), Automatic(s), user'[s])
  BY <1>1, <1>2 DEF NewValue, Promoted, sym_has_value, Result
<1>5. Automatic(s) = ByItself(DefaultValue(s), Implied(s), DirDep(s))
  BY DEF Automatic, ByItself
<1>6. sym_get_string_default(s) = TakenFor(type, DefaultValue(s), Implied(s), RevDep(s))
  BY DEF sym_get_string_default, Promoted, TakenFor
<1>7. /\ Visibility(s) \in Tri /\ RevDep(s) \in Tri /\ DirDep(s) \in Tri
      /\ Implied(s) \in Tri /\ DefaultValue(s) \in Tri /\ Automatic(s) \in Tri
      /\ user[s] \in Tri \cup {NoValue}
      /\ type = "bool" => /\ Visibility(s) # mod /\ RevDep(s) # mod
                            /\ Implied(s) # mod /\ DirDep(s) # mod
      /\ Visibility(s) <= DirDep(s)
      /\ Visibility(s) # no => Automatic(s) <= Visibility(s)
  BY RuleTypes, AutomaticInside DEF TypeInv
<1>8. curr[s] = NewValue(s)
  BY DEF SymbolInv
<1> HIDE DEF type
<1>9. CASE user'[s] = curr[s]
  BY <1>3, <1>4, <1>7, <1>8, <1>9, ResultAgain
<1>10. CASE /\ user'[s] = NoValue
            /\ s \notin write \/ ~sym_is_changeable(s) \/ curr[s] = sym_get_string_default(s)
  <2>1. \/ ~(Visibility(s) > RevDep(s))
        \/ NewValue(s) = TakenFor(type, DefaultValue(s), Implied(s), RevDep(s))
    <3>1. CASE s \notin write
      <4>1. Visibility(s) = no
        BY <3>1 DEF SymbolInv, Written
      <4> QED
        BY <1>7, <4>1 DEF Tri, no
    <3>2. CASE ~sym_is_changeable(s)
      BY <3>2 DEF sym_is_changeable
    <3>3. CASE curr[s] = sym_get_string_default(s)
      BY <1>6, <1>8, <3>3
    <3> QED
      BY <1>10, <3>1, <3>2, <3>3
  <2> DEFINE auto == ByItself(DefaultValue(s), Implied(s), DirDep(s))
  <2>2. /\ Visibility(s) # no => auto <= Visibility(s)
        /\ \/ ~(Visibility(s) > RevDep(s))
           \/ Result(type, Visibility(s), RevDep(s), auto, user[s])
                = TakenFor(type, DefaultValue(s), Implied(s), RevDep(s))
    BY <1>3, <1>5, <1>7, <2>1
  <2>3. Result(type, Visibility(s), RevDep(s), auto, NoValue)
          = Result(type, Visibility(s), RevDep(s), auto, user[s])
    BY ONLY <1>7, <2>2, ResultWithout
  <2> QED
    BY <1>3, <1>4, <1>5, <1>8, <1>10, <2>3
<1> QED
  BY <1>9, <1>10

----------------------------------------------------------------------------
(* A choice. *)

\* Without a member that is visible, none is chosen.
LEMMA ChosenNobody ==
  ASSUME TypeInv, k' = k, curr' = curr, NEW c \in AllChoices,
         \A m \in Members(k, c) : Visibility(m) = no,
         order'[c] \in Seq(Sym), ToSet(order'[c]) = Members(k, c)
  PROVE  ChosenOne(c)' = None
<1>1. k \in Kconfigs /\ Members(k, c) \subseteq Sym
  BY ChoiceLists DEF TypeInv
<1>2. \A m \in Members(k, c) : Fresh'[m] = no
  <2>1. \A m \in Members(k, c) : Visibility(m)' = no
    BY <1>1, VisibilityKept DEF Agree
  <2> QED
    BY <1>1, <2>1 DEF Fresh
<1>3. ASSUME NEW w, \A m \in Members(k, c) : w[m] = no PROVE Chosen(c, w)' = None
  <2>1. \A m \in Members(k, c) : m \notin VisibleIn(w)
    BY <1>3 DEF VisibleIn
  <2>2. ASSUME NEW l \in Seq(Sym), \A i \in DOMAIN l : l[i] \in Members(k, c),
               NEW S, S \subseteq VisibleIn(w)
        PROVE  First(l, S) = None
    BY <2>1, <2>2, FirstIs
  <2>3. ByUser(c, w)' = None
    <3>1. \A i \in DOMAIN order'[c] : order'[c][i] \in Members(k, c)
      BY DEF ToSet
    <3>2. {s \in VisibleIn(w) : user'[s] = yes} \subseteq VisibleIn(w)
      OBVIOUS
    <3> QED
      BY <2>2, <3>1, <3>2 DEF ByUser
  <2>4. Unset(c, w)' = None
    <3>1. {s \in VisibleIn(w) : ~(user'[s] # NoValue)} \subseteq VisibleIn(w)
      OBVIOUS
    <3>2. First(k.choices[c].members, {s \in VisibleIn(w) : ~(user'[s] # NoValue)}) = None
      BY <1>1, <2>2, <3>1, ChoiceLists
    <3> QED
      BY <3>2 DEF Unset, sym_has_value
  <2>5. LeastNo(c, w)' = None
    <3> DEFINE o == order'[c]
    <3>1. o \in Seq(Sym) /\ \A i \in DOMAIN o : o[i] \in Members(k, c)
      BY DEF ToSet
    <3>2. LeastNo(c, w)' = First(Reverse(o), VisibleIn(w))
      BY DEF LeastNo
    <3> HIDE DEF o
    <3>3. Reverse(o) \in Seq(Sym)
      BY <3>1 DEF Reverse
    <3>4. ASSUME NEW i \in DOMAIN Reverse(o) PROVE Reverse(o)[i] \in Members(k, c)
      <4>1. i \in 1 .. Len(o) /\ Reverse(o)[i] = o[(Len(o) - i) + 1]
        BY <3>1 DEF Reverse
      <4>2. (Len(o) - i) + 1 \in DOMAIN o
        BY <3>1, <4>1
      <4> QED
        BY <3>1, <4>1, <4>2
    <3> QED
      BY <2>2, <3>2, <3>3, <3>4
  <2>6. ChoiceDefault(c, w)' = None
    <3>1. First(k.choices[c].members, VisibleIn(w)) = None
      BY <1>1, <2>2, ChoiceLists
    <3> DEFINE ds == k.choices[c].defaults
    <3>2. First(ds, DefaultsIn(c, w)) = None
      <4>1. ds \in Seq([cond : ConditionsOver(Sym), sym : Members(k, c)])
        BY <1>1, ChoiceLists
      <4>2. \A i \in DOMAIN ds : ds[i] \notin DefaultsIn(c, w)
        BY <1>1, <1>3, ChoiceLists DEF DefaultsIn
      <4> HIDE DEF ds
      <4> QED
        BY <4>1, <4>2, FirstIs
    <3>3. ChoiceDefault(c, w) = None
      BY <3>1, <3>2, ChoiceDefaultIs
    <3>4. ChoiceDefault(c, w)' = ChoiceDefault(c, w)
      BY DEF ChoiceDefault, InForce
    <3> QED
      BY <3>3, <3>4
  <2>7. Chosen(c, w)' =
          IF ByUser(c, w)' # None THEN ByUser(c, w)'
          ELSE IF ChoiceDefault(c, w)' # None /\ user'[ChoiceDefault(c, w)'] # no
            THEN ChoiceDefault(c, w)'
          ELSE IF Unset(c, w)' # None THEN Unset(c, w)'
          ELSE LeastNo(c, w)'
    BY DEF Chosen, ByUser, Unset, LeastNo, VisibleIn
  <2> QED
    BY <2>3, <2>4, <2>5, <2>6, <2>7
<1>4. Chosen(c, Fresh)' = None
  BY <1>2, <1>3
<1> QED
  BY <1>4 DEF ChosenOne

\* Without a value of the user's, the default is chosen.
LEMMA ChosenDefault ==
  ASSUME TypeInv, k' = k, curr' = curr, modules_val' = modules_val,
         NEW c \in AllChoices, NEW s \in Members(k, c),
         s = ChoiceDefault(c, Fresh),
         \A m \in Members(k, c) : user'[m] = NoValue,
         order'[c] \in Seq(Sym), ToSet(order'[c]) = Members(k, c)
  PROVE  ChosenOne(c)' = s
<1>1. k \in Kconfigs /\ Members(k, c) \subseteq Sym /\ None \notin Sym
  BY ChoiceLists, NoneAssumption DEF TypeInv
<1>2. Fresh' = Fresh
  BY DEF Fresh, Visibility, Promoted, sym_get_type
<1>3. ASSUME NEW w, s = ChoiceDefault(c, w) PROVE Chosen(c, w)' = s
  <2>1. ChoiceDefault(c, w)' = s
    BY <1>3 DEF ChoiceDefault, InForce
  <2>2. ByUser(c, w)' = None
    <3> DEFINE o == order'[c]
               T == {m \in VisibleIn(w) : user'[m] = yes}
    <3>1. o \in Seq(Sym) /\ \A i \in DOMAIN o : o[i] \in Members(k, c)
      BY DEF ToSet
    <3>2. \A m \in Members(k, c) : m \notin T
      BY DEF yes, NoValue
    <3>3. First(o, T) = None
      <4> HIDE DEF o, T
      <4> QED BY <3>1, <3>2, FirstIs
    <3> QED
      BY <3>3 DEF ByUser
  <2>3. ByUser(c, w)' = None /\ ChoiceDefault(c, w)' # None
          /\ user'[ChoiceDefault(c, w)'] # no => Chosen(c, w)' = ChoiceDefault(c, w)'
    BY DEF Chosen, ByUser, Unset, LeastNo, VisibleIn
  <2>4. user'[s] # no
    BY DEF NoValue, no
  <2> QED
    BY <1>1, <2>1, <2>2, <2>3, <2>4
<1>4. s = ChoiceDefault(c, Fresh')
  BY <1>2
<1>5. Chosen(c, Fresh)' = s
  BY <1>3, <1>4
<1> QED
  BY <1>5 DEF ChosenOne

\* Of the members that are visible one is chosen.
LEMMA SomebodyChosen ==
  ASSUME k \in Kconfigs, NEW c \in AllChoices, Typical(c), NEW v, Chosen(c, v) = None,
         NEW m \in Members(k, c)
  PROVE  v[m] = no
<1>1. m \in Sym
  BY ChoiceLists
<1> DEFINE o == order[c]
<1>2. o \in Seq(Sym) /\ ToSet(o) = Members(k, c)
  BY DEF Typical
<1>3. First(Reverse(o), VisibleIn(v)) = None
  BY ChosenIs DEF LeastNo
<1> HIDE DEF o
<1>4. PICK i \in DOMAIN o : o[i] = m
  BY <1>2 DEF ToSet
<1>5. Reverse(o) \in Seq(Sym) /\ (Len(o) - i) + 1 \in DOMAIN Reverse(o)
  BY <1>2, <1>4 DEF Reverse
<1>6. Reverse(o)[(Len(o) - i) + 1] = m
  <2>1. (Len(o) - ((Len(o) - i) + 1)) + 1 = i /\ (Len(o) - i) + 1 \in 1 .. Len(o)
    BY <1>2, <1>4
  <2> QED
    BY <1>4, <2>1 DEF Reverse
<1>7. \A j \in DOMAIN Reverse(o) : Reverse(o)[j] \notin VisibleIn(v)
  <2>1. \A j \in DOMAIN Reverse(o) : Reverse(o)[j] # None
    BY <1>5, NoneAssumption
  <2> QED
    BY <1>3, <1>5, <2>1, FirstIs
<1> QED
  BY <1>1, <1>5, <1>6, <1>7 DEF VisibleIn

\* The lines of the members, or that there are none, let the same one be chosen.
LEMMA SavedChoice ==
  ASSUME TypeInv, CacheInv, WriteInv, Savable(k), valid = Sym,
         k' = k, curr' = curr, modules_val' = modules_val, NEW c \in AllChoices,
         NEW W, W = write \/ W = Minimal,
         \A m \in Members(k, c) : user'[m] = IF m \in W THEN curr[m] ELSE NoValue,
         order'[c] \in Seq(Sym), ToSet(order'[c]) = Members(k, c)
  PROVE  ChosenOne(c)' = ChosenOne(c)
<1> DEFINE s == ChosenOne(c)
<1>1. /\ k \in Kconfigs /\ Typical(c) /\ Members(k, c) \subseteq Sym
      /\ \A m \in Members(k, c) : MemberInv(c, m)
  BY ChoiceLists DEF TypeInv, CacheInv
<1>2. \A m \in Members(k, c) : curr[m] = IF m = s THEN yes ELSE no
  BY <1>1 DEF MemberInv
<1>3. CASE s = None
  <2>1. \A m \in Members(k, c) : Fresh[m] = no
    BY <1>1, <1>3, SomebodyChosen DEF ChosenOne
  <2>2. \A m \in Members(k, c) : Visibility(m) = no
    BY <1>1, <2>1 DEF Fresh
  <2> QED
    BY <1>3, <2>2, ChosenNobody
<1>4. CASE s # None
  <2>1. s \in Members(k, c) /\ Fresh[s] # no
    BY <1>1, <1>4, ChosenVisible DEF ChosenOne
  <2>2. Visibility(s) # no /\ s \in Sym /\ curr[s] = yes
    BY <1>1, <1>2, <2>1 DEF Fresh
  <2> HIDE DEF s
  <2>3. s \in write
    <3>1. sym_is_choice_value(s) /\ visible[s] # no
      BY <1>1, <2>1, <2>2, ChoiceOfIs DEF MemberInv
    <3> QED
      BY <2>2, <3>1 DEF WriteInv
  <2>4. CASE s \in W
    <3>1. user'[s] = yes
      BY <2>1, <2>2, <2>4
    <3>2. \A m \in Members(k, c) : m # s => user'[m] # yes
      BY <1>2 DEF yes, no, NoValue
    <3> QED
      BY <2>1, <2>2, <3>1, <3>2, ChosenSet DEF s
  <2>5. CASE s \notin W
    <3>1. W = Minimal /\ sym_is_choice_value(s)
      BY <2>1, <2>3, <2>5, ChoiceOfIs
    <3>2. sym_is_changeable(s)
      <4>1. k.rev_dep[s] = {}
        BY <2>1, <2>2 DEF Savable, AllChoices
      <4>2. RevDep(s) = no
        BY <4>1, NothingIsNo DEF RevDep, Promoted, no, mod
      <4>3. Visibility(s) \in Tri
        BY <2>2, RuleTypes
      <4> QED
        BY <2>2, <4>2, <4>3 DEF sym_is_changeable, Tri, no
    <3>3. \E d \in ChoiceOf(s) : s = ChoiceDefault(d, Fresh)
      BY <2>2, <2>3, <2>5, <3>1, <3>2 DEF Minimal, Fresh
    <3>4. s = ChoiceDefault(c, Fresh)
      BY <1>1, <2>1, <3>3, ChoiceOfIs, MembersApart
    <3>5. ASSUME NEW m \in Members(k, c) PROVE user'[m] = NoValue
      <4>1. CASE m = s
        BY <2>5, <4>1
      <4>2. CASE m # s
        <5>1. curr[m] # yes /\ sym_is_choice_value(m)
          BY <1>2, <4>2, ChoiceOfIs DEF yes, no
        <5>2. m \notin Minimal
          BY <5>1 DEF Minimal
        <5> QED
          BY <3>1, <5>2
      <4> QED
        BY <4>1, <4>2
    <3> QED
      BY <2>1, <3>4, <3>5, ChosenDefault DEF s
  <2> QED
    BY <2>4, <2>5
<1> QED
  BY <1>3, <1>4

\* After reading what was written, the cache has the values that filling it
\* again gives.
LEMMA SavedFits ==
  ASSUME CalcInv, WriteInv, Savable(k), valid = Sym,
         NEW lines \in [Sym -> Tri \cup {NoValue}], NEW W, W = write \/ W = Minimal,
         \A s \in Sym : lines[s] = IF s \in W THEN curr[s] ELSE NoValue,
         Load(lines), InMenuOrder(lines), NEW s \in Sym
  PROVE  Fits(s)'
<1>1. TypeInv /\ CacheInv /\ k \in Kconfigs
  BY DEF CalcInv, TypeInv
<1>2. /\ k' = k /\ user' = lines /\ curr' = curr /\ modules_val' = modules_val
  BY DEF Load
<1>3. CalcInv'
  BY <1>1, LoadStep
<1>4. CASE ~sym_is_choice_value(s)
  <2>1. SymbolInv(s)
    BY <1>1, <1>4 DEF CacheInv
  <2>2. \/ user'[s] = curr[s]
        \/ /\ user'[s] = NoValue
           /\ s \notin write \/ ~sym_is_changeable(s) \/ curr[s] = sym_get_string_default(s)
    <3>1. CASE s \in W
      BY <1>2, <3>1
    <3>2. CASE s \notin W
      <4>1. s \notin Minimal => \/ s \notin write \/ ~sym_is_changeable(s)
                                \/ curr[s] = sym_get_string_default(s)
        BY <1>4 DEF Minimal
      <4> QED
        BY <1>2, <3>2, <4>1
    <3> QED
      BY <3>1, <3>2
  <2>3. NewValue(s)' = curr[s]
    BY <1>1, <1>2, <1>4, <2>1, <2>2, SavedSymbol
  <2> QED
    BY <1>2, <1>4, <2>3, ProgramKept DEF Fits
<1>5. CASE sym_is_choice_value(s)
  <2>1. ASSUME NEW c \in ChoiceOf(s) PROVE curr'[s] = IF s = ChosenOne(c)' THEN yes ELSE no
    <3>1. c \in AllChoices /\ s \in Members(k, c)
      BY ChoiceOfIs
    <3>2. order'[c] \in Seq(Sym) /\ ToSet(order'[c]) = Members(k, c)
      BY <1>2, <1>3, <3>1, ProgramKept DEF CalcInv, TypeInv, Typical
    <3>3. \A m \in Members(k, c) : user'[m] = IF m \in W THEN curr[m] ELSE NoValue
      BY <1>1, <1>2, <3>1, ChoiceLists
    <3>4. ChosenOne(c)' = ChosenOne(c)
      BY <1>1, <1>2, <3>1, <3>2, <3>3, SavedChoice
    <3>5. curr[s] = IF s = ChosenOne(c) THEN yes ELSE no
      BY <1>1, <3>1 DEF CacheInv, MemberInv
    <3> QED
      BY <1>2, <3>4, <3>5
  <2> QED
    BY <1>2, <1>5, <2>1, ProgramKept DEF Fits
<1> QED
  BY <1>4, <1>5

----------------------------------------------------------------------------
(* The steps. *)

\* What CalcChoiceMember does: it computes the members in S of the choice c.
LEMMA ChoiceComputed ==
  ASSUME CalcInv, CalcChoiceMember
  PROVE  \E c \in AllChoices, S \in SUBSET Sym :
           /\ S \subseteq Members(k, c) /\ valid' = valid \cup S
           /\ curr' = [m \in Sym |-> IF m \in S THEN IF m = ChosenOne(c) THEN yes ELSE no
                                     ELSE curr[m]]
           /\ \A m \in Members(k, c) : m \in write' \/ visible'[m] = no
           /\ \A m \in Sym \ Members(k, c) :
                (m \in write' <=> m \in write) /\ visible'[m] = visible[m]
<1>1. TypeInv /\ CacheInv /\ k \in Kconfigs
  BY DEF CalcInv, TypeInv
<1> DEFINE Seen(s, c) == {s} \cup {order[c][i] : i \in LookedAt(c)}
           SetIn(c, vis) == {m \in Members(k, c) : vis[m] # no}
           Vis(seen) == [m \in Sym |-> IF m \in seen THEN Visibility(m) ELSE visible[m]]
<1>2. PICK s, c, vis, set :
       /\ s \in Sym /\ c \in ChoiceOf(s)
       /\ vis = Vis(Seen(s, c))
       /\ set = SetIn(c, vis)
       /\ visible' = vis
       /\ curr' = [m \in Sym |-> IF m \in set THEN IF m = Chosen(c, vis) THEN yes ELSE no
                                 ELSE IF m = s THEN no ELSE curr[m]]
       /\ valid' = valid \cup {s} \cup set
       /\ write' = (write \ {s}) \cup set
  <2>1. PICK s, c :
       /\ s \in Sym /\ c \in ChoiceOf(s)
       /\ visible' = Vis(Seen(s, c))
       /\ curr' = [m \in Sym |-> IF m \in SetIn(c, Vis(Seen(s, c)))
                                 THEN IF m = Chosen(c, Vis(Seen(s, c))) THEN yes ELSE no
                                 ELSE IF m = s THEN no ELSE curr[m]]
       /\ valid' = valid \cup {s} \cup SetIn(c, Vis(Seen(s, c)))
       /\ write' = (write \ {s}) \cup SetIn(c, Vis(Seen(s, c)))
    BY DEF CalcChoiceMember
  <2> HIDE DEF Vis, Seen, SetIn
  <2> QED
    BY <2>1
<1>3. /\ c \in AllChoices /\ s \in Members(k, c) /\ Members(k, c) \subseteq Sym
      /\ Typical(c) /\ None \notin Sym
  BY <1>1, <1>2, ChoiceOfIs, ChoiceLists, NoneAssumption DEF TypeInv
<1> DEFINE seen == Seen(s, c)
<1>4. seen \subseteq Members(k, c) /\ \A i \in LookedAt(c) : order[c][i] \in seen
  BY <1>3, LookedAtIs, OrderList
<1>5. Chosen(c, vis) = ChosenOne(c)
  BY <1>1, <1>2, <1>3, <1>4, ChosenInTime
<1>6. ChosenOne(c) = None \/ ChosenOne(c) \in set
  BY <1>1, <1>2, <1>3, <1>5, ChosenVisible
<1> DEFINE S == set \cup {s}
<1>7. S \subseteq Members(k, c) /\ S \in SUBSET Sym /\ valid' = valid \cup S
  BY <1>2, <1>3
<1>8. curr' = [m \in Sym |-> IF m \in S THEN IF m = ChosenOne(c) THEN yes ELSE no
                             ELSE curr[m]]
  BY <1>2, <1>3, <1>5, <1>6
<1>9. \A m \in Members(k, c) : m \in write' \/ visible'[m] = no
  BY <1>2
<1>10. \A m \in Sym \ Members(k, c) : visible'[m] = visible[m]
  BY <1>2, <1>4
<1>11. \A m \in Sym \ Members(k, c) : m \in write' <=> m \in write
  BY <1>2, <1>3
<1> HIDE DEF S
<1> QED
  BY <1>3, <1>7, <1>8, <1>9, <1>10, <1>11

LEMMA WriteSteps == CalcInv /\ WriteInv /\ [Next]_vars => WriteInv'
<1> SUFFICES ASSUME CalcInv, WriteInv, [Next]_vars,
                    NEW m \in valid', sym_is_choice_value(m)'
             PROVE  m \in write' \/ visible'[m] = no
  BY DEF WriteInv
<1>1. TypeInv /\ valid \subseteq Sym
  BY DEF CalcInv, TypeInv
<1>2. k' = k
  BY DEF Next, vars, CalcValue, CalcChoiceMember, sym_set_tristate_value, choice_set_value,
         conf_read, conf_write_and_read, conf_write_defconfig_and_read, Load
<1>3. sym_is_choice_value(m)
  BY <1>2, ProgramKept
<1>4. CASE CalcValue
  <2>1. PICK s \in Sym :
          /\ ~sym_is_choice_value(s) /\ valid' = valid \cup {s}
          /\ write' = IF Written(s) THEN write \cup {s} ELSE write \ {s}
          /\ visible' = [visible EXCEPT ![s] = Visibility(s)]
    BY <1>4 DEF CalcValue
  <2>2. m # s /\ m \in valid /\ m \in Sym
    BY <1>1, <1>3, <2>1
  <2>3. visible'[m] = visible[m] /\ (m \in write' <=> m \in write)
    BY <1>1, <2>1, <2>2 DEF TypeInv
  <2> QED
    BY <1>3, <2>2, <2>3 DEF WriteInv
<1>5. CASE CalcChoiceMember
  <2>1. PICK c \in AllChoices, S \in SUBSET Sym :
          /\ S \subseteq Members(k, c) /\ valid' = valid \cup S
          /\ \A t \in Members(k, c) : t \in write' \/ visible'[t] = no
          /\ \A t \in Sym \ Members(k, c) :
               (t \in write' <=> t \in write) /\ visible'[t] = visible[t]
    BY <1>5, ChoiceComputed
  <2>2. CASE m \in Members(k, c)
    BY <2>1, <2>2
  <2>3. CASE m \notin Members(k, c)
    BY <1>1, <1>3, <2>1, <2>3 DEF WriteInv
  <2> QED
    BY <2>2, <2>3
<1>6. CASE ~CalcValue /\ ~CalcChoiceMember
  <2>1. write' = write /\ visible' = visible /\ (valid' = {} \/ valid' = valid)
    BY <1>6 DEF Next, vars, values, sym_set_tristate_value, choice_set_value, sym_clear_all_valid,
                KeepAllValid, conf_read, conf_write_and_read, conf_write_defconfig_and_read, Load
  <2> QED
    BY <1>3, <2>1 DEF WriteInv
<1> QED
  BY <1>4, <1>5, <1>6

\* The cache is filled again with the values that are still there.
LEMMA RoundCalc ==
  ASSUME CalcInv, RoundInv, saved # None, CalcValue \/ CalcChoiceMember
  PROVE  RoundInv'
<1>1. TypeInv /\ CacheInv /\ saved = curr /\ \A s \in Sym : Fits(s)
  BY DEF CalcInv, RoundInv
<1>2. /\ k' = k /\ user' = user /\ order' = order /\ saved' = saved
  BY DEF CalcValue, CalcChoiceMember
<1>3. curr' = curr /\ modules_val' = modules_val
  <2>1. CASE CalcValue
    <3>1. PICK s \in Sym :
            /\ ~sym_is_choice_value(s) /\ curr' = [curr EXCEPT ![s] = NewValue(s)]
            /\ modules_val' = NewModulesVal(s, NewValue(s))
      BY <2>1 DEF CalcValue
    <3>2. curr[s] = NewValue(s)
      BY <1>1, <3>1 DEF Fits
    <3> QED
      BY <1>1, <3>1, <3>2 DEF TypeInv, NewModulesVal
  <2>2. CASE CalcChoiceMember
    <3>1. PICK c \in AllChoices, S \in SUBSET Sym :
            /\ S \subseteq Members(k, c)
            /\ curr' = [m \in Sym |-> IF m \in S THEN IF m = ChosenOne(c) THEN yes ELSE no
                                      ELSE curr[m]]
      BY <2>2, ChoiceComputed
    <3>2. ASSUME NEW m \in S PROVE curr[m] = IF m = ChosenOne(c) THEN yes ELSE no
      <4>1. m \in Sym /\ sym_is_choice_value(m) /\ c \in ChoiceOf(m)
        BY <3>1, ChoiceOfIs
      <4> QED
        BY <1>1, <4>1 DEF Fits
    <3>3. curr' = curr
      BY <1>1, <3>1, <3>2 DEF TypeInv
    <3> QED
      BY <2>2, <3>3 DEF CalcChoiceMember
  <2> QED
    BY <2>1, <2>2
<1>4. ASSUME NEW s \in Sym PROVE Fits(s)'
  <2>1. Unmoved(s)
    BY <1>2, <1>3 DEF Unmoved, Agree
  <2> QED
    BY <1>1, <1>3, <2>1, FitsKept
<1> QED
  BY <1>1, <1>2, <1>3, <1>4 DEF RoundInv

LEMMA RoundSteps ==
  CalcInv /\ WriteInv /\ Savable(k) /\ RoundInv /\ [Next]_vars => RoundInv'
<1> SUFFICES ASSUME CalcInv, WriteInv, Savable(k), RoundInv, [Next]_vars PROVE RoundInv'
  OBVIOUS
<1>1. TypeInv
  BY DEF CalcInv
<1>2. CASE CalcValue \/ CalcChoiceMember
  <2>1. saved' = saved
    BY <1>2 DEF CalcValue, CalcChoiceMember
  <2> QED
    BY <1>2, <2>1, RoundCalc DEF RoundInv
<1>3. CASE sym_set_tristate_value \/ choice_set_value \/ conf_read
  BY <1>3 DEF sym_set_tristate_value, choice_set_value, conf_read, RoundInv
<1>4. CASE conf_write_and_read
  <2> DEFINE lines == [s \in Sym |-> IF s \in write THEN curr[s] ELSE NoValue]
  <2>1. lines \in [Sym -> Tri \cup {NoValue}]
    BY <1>1 DEF TypeInv
  <2>2. Load(lines) /\ InMenuOrder(lines) /\ valid = Sym /\ saved' = curr /\ curr' = curr
    BY <1>4 DEF conf_write_and_read, Load
  <2>3. \A s \in Sym : lines[s] = IF s \in write THEN curr[s] ELSE NoValue
    OBVIOUS
  <2> HIDE DEF lines
  <2>4. \A s \in Sym : Fits(s)'
    BY <2>1, <2>2, <2>3, SavedFits
  <2> QED
    BY <2>2, <2>4 DEF RoundInv
<1>5. CASE conf_write_defconfig_and_read
  <2> DEFINE lines == [s \in Sym |-> IF s \in Minimal THEN curr[s] ELSE NoValue]
  <2>1. lines \in [Sym -> Tri \cup {NoValue}]
    BY <1>1 DEF TypeInv
  <2>2. Load(lines) /\ InMenuOrder(lines) /\ valid = Sym /\ saved' = curr /\ curr' = curr
    BY <1>5 DEF conf_write_defconfig_and_read, Load
  <2>3. \A s \in Sym : lines[s] = IF s \in Minimal THEN curr[s] ELSE NoValue
    OBVIOUS
  <2> HIDE DEF lines
  <2>4. \A s \in Sym : Fits(s)'
    BY <2>1, <2>2, <2>3, SavedFits
  <2> QED
    BY <2>2, <2>4 DEF RoundInv
<1>6. CASE UNCHANGED vars
  <2>1. /\ k' = k /\ user' = user /\ order' = order /\ curr' = curr
        /\ modules_val' = modules_val /\ saved' = saved
    BY <1>6 DEF vars, values
  <2>2. \A s \in Sym : Unmoved(s)
    BY <2>1 DEF Unmoved, Agree
  <2>3. \A s \in Sym : Fits(s) => Fits(s)'
    BY <1>1, <2>1, <2>2, FitsKept
  <2> QED
    BY <2>1, <2>3 DEF RoundInv
<1> QED
  BY <1>2, <1>3, <1>4, <1>5, <1>6 DEF Next

----------------------------------------------------------------------------
(* The theorem. *)

\* Whatever the user has set before, a configuration that is saved and read
\* again is the same one, although conf_write() leaves out the symbols without
\* SYMBOL_WRITE and conf_write_defconfig() (confdata.c) also those it takes to
\* have their values without a line.
THEOREM SavedIsRead ==
  ASSUME \A p \in Kconfigs : Savable(p)
  PROVE  Spec => []RoundTrip
<1>1. Init => WriteInv /\ RoundInv
  BY DEF Init, WriteInv, RoundInv
<1>2. CalcInv => Savable(k)
  BY DEF CalcInv, TypeInv
<1>3. WriteInv /\ RoundInv /\ CalcInv /\ [Next]_vars => (WriteInv /\ RoundInv)'
  BY <1>2, WriteSteps, RoundSteps
<1>4. RoundInv => RoundTrip
  BY DEF RoundInv, RoundTrip
<1> QED
  BY <1>1, <1>3, <1>4, CalcInvariant, PTL DEF Spec
=============================================================================
