-------------------------- MODULE SymbolCalcProofs --------------------------
(****************************************************************************)
(* Proofs about the values of symbols and their cache, for every program    *)
(* that satisfies KconfigAssumption and every sequence of changes.          *)
(****************************************************************************)
EXTENDS SymbolCalc, WellFoundedInduction, TLAPS

----------------------------------------------------------------------------
(* Numbers, conditions and lists. *)

\* The smallest element of a set of numbers.
LEMMA Smallest ==
  ASSUME NEW T, T \subseteq Nat, T # {}
  PROVE  \E n \in T : \A m \in T : n <= m
<1>1. PICK n \in T : \A m \in T : <<m, n>> \notin OpToRel(<, Nat)
  BY NatLessThanWellFounded, WFMin
<1>2. ASSUME NEW m \in T PROVE n <= m
  <2>1. m \in Nat /\ n \in Nat
    OBVIOUS
  <2>2. m < n => <<m, n>> \in OpToRel(<, Nat)
    BY <2>1 DEF OpToRel
  <2>3. <<m, n>> \notin OpToRel(<, Nat)
    BY <1>1
  <2>4. ~(m < n)
    BY <2>2, <2>3
  <2> QED
    BY ONLY <2>1, <2>4
<1> QED
  BY <1>2

LEMMA LeastType == ASSUME NEW V \in SUBSET Tri PROVE Least(V) \in Tri
<1>1. \E a \in Tri : (\A b \in V : a <= b) /\ (a = yes \/ a \in V)
  <2>1. CASE 0 \in V
    BY <2>1 DEF Tri, yes
  <2>2. CASE 0 \notin V /\ 1 \in V
    BY <2>2 DEF Tri, yes
  <2>3. CASE 0 \notin V /\ 1 \notin V
    BY <2>3 DEF Tri, yes
  <2> QED
    BY <2>1, <2>2, <2>3
<1> QED
  BY <1>1 DEF Least

LEMMA GreatestType == ASSUME NEW V \in SUBSET Tri PROVE Greatest(V) \in Tri
<1>1. \E a \in Tri : (\A b \in V : b <= a) /\ (a = no \/ a \in V)
  <2>1. CASE 2 \in V
    BY <2>1 DEF Tri, no
  <2>2. CASE 2 \notin V /\ 1 \in V
    BY <2>2 DEF Tri, no
  <2>3. CASE 2 \notin V /\ 1 \notin V
    BY <2>3 DEF Tri, no
  <2> QED
    BY <2>1, <2>2, <2>3
<1> QED
  BY <1>1 DEF Greatest

LEMMA ConditionType ==
  ASSUME NEW c \in ConditionsOver(Sym), NEW v \in [Sym -> Tri]
  PROVE  /\ expr_calc_value(c, v) \in Tri
         /\ Reads(c) \subseteq Sym
<1>1. ASSUME NEW t \in c PROVE Term(t, v) \in Tri
  <2>1. \A l \in t : l[1] \in Sym /\ l[2] \in [Tri -> Tri]
    BY <1>1 DEF ConditionsOver
  <2>2. {l[2][v[l[1]]] : l \in t} \in SUBSET Tri
    BY <2>1
  <2> QED
    BY <2>2, LeastType DEF Term
<1>2. {Term(t, v) : t \in c} \in SUBSET Tri
  BY <1>1
<1>3. expr_calc_value(c, v) \in Tri
  BY <1>2, GreatestType DEF expr_calc_value
<1>4. Reads(c) \subseteq Sym
  BY DEF ConditionsOver, Reads
<1> QED
  BY <1>3, <1>4

\* A condition is a function of what it reads.
LEMMA ConditionSame ==
  ASSUME NEW c, NEW v, NEW w, \A s \in Reads(c) : v[s] = w[s]
  PROVE  expr_calc_value(c, v) = expr_calc_value(c, w)
<1>1. ASSUME NEW t \in c PROVE Term(t, v) = Term(t, w)
  <2>1. \A l \in t : v[l[1]] = w[l[1]]
    BY DEF Reads
  <2>2. {l[2][v[l[1]]] : l \in t} = {l[2][w[l[1]]] : l \in t}
    BY <2>1
  <2> QED
    BY <2>2 DEF Term
<1>2. {Term(t, v) : t \in c} = {Term(t, w) : t \in c}
  BY <1>1
<1> QED
  BY <1>2 DEF expr_calc_value

LEMMA FirstSame ==
  ASSUME NEW l, NEW S, NEW T, \A i \in DOMAIN l : l[i] \in S <=> l[i] \in T
  PROVE  First(l, S) = First(l, T)
<1> DEFINE Of(at) == IF at = {} THEN None ELSE l[CHOOSE i \in at : \A j \in at : i <= j]
<1>1. {i \in DOMAIN l : l[i] \in S} = {i \in DOMAIN l : l[i] \in T}
  OBVIOUS
<1>2. /\ First(l, S) = Of({i \in DOMAIN l : l[i] \in S})
      /\ First(l, T) = Of({i \in DOMAIN l : l[i] \in T})
  BY DEF First
<1> HIDE DEF Of
<1> QED
  BY <1>1, <1>2

LEMMA FirstIs ==
  ASSUME NEW A, NEW l \in Seq(A), NEW S
  PROVE  \/ First(l, S) = None /\ \A i \in DOMAIN l : l[i] \notin S
         \/ \E i \in DOMAIN l : /\ First(l, S) = l[i] /\ l[i] \in S
                                /\ \A j \in DOMAIN l : j < i => l[j] \notin S
<1> DEFINE at == {i \in DOMAIN l : l[i] \in S}
<1>1. CASE at = {}
  BY <1>1 DEF First
<1>2. CASE at # {}
  <2>1. at \subseteq Nat
    OBVIOUS
  <2>2. \E i \in at : \A j \in at : i <= j
    BY <1>2, <2>1, Smallest
  <2> DEFINE m == CHOOSE i \in at : \A j \in at : i <= j
  <2>3. m \in at /\ \A j \in at : m <= j
    BY <2>2
  <2>4. First(l, S) = l[m]
    BY <1>2 DEF First
  <2>5. \A j \in DOMAIN l : j < m => l[j] \notin S
    <3> HIDE DEF m
    <3> QED BY <2>1, <2>3
  <2> HIDE DEF m
  <2> QED
    BY <2>3, <2>4, <2>5
<1> QED
  BY <1>1, <1>2

LEMMA FirstUnique ==
  ASSUME NEW A, NEW l \in Seq(A), NEW S, NEW i \in DOMAIN l, l[i] \in S,
         \A j \in DOMAIN l : j < i => l[j] \notin S
  PROVE  First(l, S) = l[i]
<1>1. PICK m \in DOMAIN l : /\ First(l, S) = l[m] /\ l[m] \in S
                            /\ \A j \in DOMAIN l : j < m => l[j] \notin S
  BY FirstIs
<1>2. m = i
  <2>1. m \in Nat /\ i \in Nat
    OBVIOUS
  <2> QED
    BY <1>1, <2>1
<1> QED
  BY <1>1, <1>2

----------------------------------------------------------------------------
(* The rules are functions of what they read. *)

\* The steps that change no value the symbols of S have.
Agree(S) == \A s \in S : curr'[s] = curr[s]

LEMMA RulesKept ==
  ASSUME k \in Kconfigs, k' = k, NEW s \in Sym,
         Agree(SymReads(k, s)), user'[s] = user[s],
         k.type[s] = "bool" \/ modules_val' = modules_val
  PROVE  /\ Visibility(s)' = Visibility(s) /\ DirDep(s)' = DirDep(s)
         /\ RevDep(s)' = RevDep(s) /\ Implied(s)' = Implied(s)
         /\ NewValue(s)' = NewValue(s)
         /\ Written(s)' = Written(s)
<1>1. sym_get_type(s)' = sym_get_type(s)
  BY DEF sym_get_type
<1>2. /\ expr_calc_value(k.prompt[s], curr') = expr_calc_value(k.prompt[s], curr)
      /\ expr_calc_value(k.dir_dep[s], curr') = expr_calc_value(k.dir_dep[s], curr)
      /\ expr_calc_value(k.rev_dep[s], curr') = expr_calc_value(k.rev_dep[s], curr)
      /\ expr_calc_value(k.implied[s], curr') = expr_calc_value(k.implied[s], curr)
  BY ConditionSame DEF Agree, SymReads
<1>3. /\ Visibility(s)' = Visibility(s) /\ DirDep(s)' = DirDep(s)
      /\ RevDep(s)' = RevDep(s) /\ Implied(s)' = Implied(s)
  BY <1>1, <1>2 DEF Visibility, DirDep, RevDep, Implied, Promoted
<1>4. \A d \in ToSet(k.default[s]) :
        /\ expr_calc_value(d.cond, curr') = expr_calc_value(d.cond, curr)
        /\ expr_calc_value(d.value, curr') = expr_calc_value(d.value, curr)
  <2>1. ASSUME NEW d \in ToSet(k.default[s])
        PROVE  Reads(d.cond) \subseteq SymReads(k, s) /\ Reads(d.value) \subseteq SymReads(k, s)
    <3>1. UNION {DefaultReads(e) : e \in ToSet(k.default[s])} \subseteq SymReads(k, s)
      BY DEF SymReads
    <3>2. DefaultReads(d) \subseteq SymReads(k, s)
      BY <3>1
    <3> QED
      BY <3>2 DEF DefaultReads
  <2> QED
    BY <2>1, ConditionSame DEF Agree
<1>5. InForce(k.default[s])' = InForce(k.default[s])
  BY <1>4 DEF InForce
<1>6. DefaultValue(s)' = DefaultValue(s)
  <2> DEFINE d == First(k.default[s], InForce(k.default[s]))
  <2>1. d' = d
    BY <1>5 DEF First
  <2>2. d # None => d \in ToSet(k.default[s])
    BY KconfigAssumption, FirstIs DEF Typed, ToSet
  <2>3. DefaultValue(s) = IF d = None THEN no
          ELSE And(expr_calc_value(d.value, curr), expr_calc_value(d.cond, curr))
    BY DEF DefaultValue
  <2>4. DefaultValue(s)' = IF d' = None THEN no
          ELSE And(expr_calc_value(d'.value, curr'), expr_calc_value(d'.cond, curr'))
    BY DEF DefaultValue
  <2> HIDE DEF d
  <2> QED
    BY <1>4, <2>1, <2>2, <2>3, <2>4
<1>7. Automatic(s)' = Automatic(s)
  BY <1>3, <1>6 DEF Automatic
<1>8. NewValue(s)' = NewValue(s)
  BY <1>1, <1>3, <1>7 DEF NewValue, Promoted, sym_has_value
<1>9. Written(s)' = Written(s)
  BY <1>3, <1>6 DEF Written
<1> QED
  BY <1>3, <1>8, <1>9
----------------------------------------------------------------------------
(* Which member of a choice is chosen. *)

Typical(c) == order[c] \in Seq(Sym) /\ ToSet(order[c]) = Members(k, c)

\* The candidates sym_calc_choice() tries, one after the other.
VisibleIn(v) == {s \in Sym : v[s] # no}
ByUser(c, v) == First(order[c], {s \in VisibleIn(v) : user[s] = yes})
Unset(c, v) == First(k.choices[c].members, {s \in VisibleIn(v) : ~sym_has_value(s)})
LeastNo(c, v) == First(Reverse(order[c]), VisibleIn(v))
DefaultsIn(c, v) == {e \in InForce(k.choices[c].defaults) : v[e.sym] # no}

LEMMA ChosenIs ==
  ASSUME NEW c, NEW v
  PROVE  Chosen(c, v) =
           IF ByUser(c, v) # None THEN ByUser(c, v)
           ELSE IF ChoiceDefault(c, v) # None /\ user[ChoiceDefault(c, v)] # no
             THEN ChoiceDefault(c, v)
           ELSE IF Unset(c, v) # None THEN Unset(c, v)
           ELSE LeastNo(c, v)
BY DEF Chosen, ByUser, Unset, LeastNo, VisibleIn

LEMMA ChoiceDefaultIs ==
  ASSUME NEW c, NEW v
  PROVE  ChoiceDefault(c, v) =
           IF First(k.choices[c].defaults, DefaultsIn(c, v)) # None
             THEN First(k.choices[c].defaults, DefaultsIn(c, v)).sym
           ELSE First(k.choices[c].members, VisibleIn(v))
BY DEF ChoiceDefault, DefaultsIn, VisibleIn

\* The lists of a choice.
LEMMA ChoiceLists ==
  ASSUME k \in Kconfigs, NEW c \in AllChoices
  PROVE  /\ k.choices[c].members \in Seq(Sym)
         /\ \A i \in DOMAIN k.choices[c].members : k.choices[c].members[i] \in Members(k, c)
         /\ \A i \in DOMAIN k.choices[c].defaults :
              k.choices[c].defaults[i].sym \in Members(k, c)
         /\ k.choices[c].defaults \in Seq([cond : ConditionsOver(Sym), sym : Members(k, c)])
         /\ Members(k, c) \subseteq Sym
<1>1. /\ k.choices[c].members \in Seq(Sym)
      /\ k.choices[c].defaults \in Seq([cond : ConditionsOver(Sym), sym : Members(k, c)])
  BY KconfigAssumption DEF Typed, AllChoices
<1>2. \A i \in DOMAIN k.choices[c].members : k.choices[c].members[i] \in Members(k, c)
  BY DEF Members, ToSet
<1>3. Members(k, c) \subseteq Sym
  BY <1>1 DEF Members, ToSet
<1>4. ASSUME NEW i \in DOMAIN k.choices[c].defaults
      PROVE  k.choices[c].defaults[i].sym \in Members(k, c)
  <2> DEFINE Default == [cond : ConditionsOver(Sym), sym : Members(k, c)]
  <2>1. k.choices[c].defaults \in Seq(Default)
    BY <1>1
  <2>2. k.choices[c].defaults[i] \in Default
    <3> HIDE DEF Default
    <3> QED BY <2>1
  <2> QED
    BY <2>2
<1> QED
  BY <1>1, <1>2, <1>3, <1>4

LEMMA OrderList ==
  ASSUME NEW c, Typical(c)
  PROVE  /\ \A i \in DOMAIN order[c] : order[c][i] \in Members(k, c)
         /\ Reverse(order[c]) \in Seq(Sym)
         /\ \A i \in DOMAIN Reverse(order[c]) : Reverse(order[c])[i] \in Members(k, c)
<1>1. \A i \in DOMAIN order[c] : order[c][i] \in Members(k, c)
  BY DEF Typical, ToSet
<1>2. order[c] \in Seq(Sym)
  BY DEF Typical
<1>3. Reverse(order[c]) \in Seq(Sym)
  BY <1>2 DEF Reverse
<1>4. ASSUME NEW i \in DOMAIN Reverse(order[c]) PROVE Reverse(order[c])[i] \in Members(k, c)
  <2>1. i \in 1 .. Len(order[c]) /\ Reverse(order[c])[i] = order[c][(Len(order[c]) - i) + 1]
    BY <1>2 DEF Reverse
  <2>2. (Len(order[c]) - i) + 1 \in DOMAIN order[c]
    BY <1>2, <2>1
  <2> QED
    BY <1>1, <2>1, <2>2
<1> QED
  BY <1>1, <1>3, <1>4

\* Only the visibility of the members matters.
LEMMA ChosenSame ==
  ASSUME k \in Kconfigs, NEW c \in AllChoices, Typical(c), NEW v, NEW w,
         \A m \in Members(k, c) : v[m] = w[m]
  PROVE  Chosen(c, v) = Chosen(c, w)
<1>1. ASSUME NEW m \in Members(k, c) PROVE m \in VisibleIn(v) <=> m \in VisibleIn(w)
  BY DEF VisibleIn
<1>2. ByUser(c, v) = ByUser(c, w)
  <2>1. \A i \in DOMAIN order[c] :
          order[c][i] \in {s \in VisibleIn(v) : user[s] = yes}
            <=> order[c][i] \in {s \in VisibleIn(w) : user[s] = yes}
    BY <1>1, OrderList
  <2> QED
    BY <2>1, FirstSame DEF ByUser
<1>3. First(k.choices[c].members, VisibleIn(v)) = First(k.choices[c].members, VisibleIn(w))
  <2>1. \A i \in DOMAIN k.choices[c].members :
          k.choices[c].members[i] \in VisibleIn(v) <=> k.choices[c].members[i] \in VisibleIn(w)
    BY <1>1, ChoiceLists
  <2> QED
    BY <2>1, FirstSame
<1>4. Unset(c, v) = Unset(c, w)
  <2>1. \A i \in DOMAIN k.choices[c].members :
          k.choices[c].members[i] \in {s \in VisibleIn(v) : ~sym_has_value(s)}
            <=> k.choices[c].members[i] \in {s \in VisibleIn(w) : ~sym_has_value(s)}
    BY <1>1, ChoiceLists
  <2> QED
    BY <2>1, FirstSame DEF Unset
<1>5. LeastNo(c, v) = LeastNo(c, w)
  <2>1. \A i \in DOMAIN Reverse(order[c]) :
          Reverse(order[c])[i] \in VisibleIn(v) <=> Reverse(order[c])[i] \in VisibleIn(w)
    BY <1>1, OrderList
  <2> QED
    BY <2>1, FirstSame DEF LeastNo
<1>6. First(k.choices[c].defaults, DefaultsIn(c, v))
        = First(k.choices[c].defaults, DefaultsIn(c, w))
  <2>1. \A i \in DOMAIN k.choices[c].defaults :
          k.choices[c].defaults[i] \in DefaultsIn(c, v)
            <=> k.choices[c].defaults[i] \in DefaultsIn(c, w)
    BY ChoiceLists DEF DefaultsIn
  <2> QED
    BY <2>1, FirstSame
<1>7. ChoiceDefault(c, v) = ChoiceDefault(c, w)
  BY <1>3, <1>6, ChoiceDefaultIs
<1> QED
  BY <1>2, <1>4, <1>5, <1>7, ChosenIs

\* The chosen member is visible.
LEMMA ChosenVisible ==
  ASSUME k \in Kconfigs, NEW c \in AllChoices, Typical(c), NEW v
  PROVE  Chosen(c, v) = None \/ (Chosen(c, v) \in Members(k, c) /\ v[Chosen(c, v)] # no)
<1> DEFINE Good(s) == s = None \/ (s \in Members(k, c) /\ v[s] # no)
<1>1. ASSUME NEW l \in Seq(Sym), \A i \in DOMAIN l : l[i] \in Members(k, c),
             NEW S, S \subseteq VisibleIn(v)
      PROVE  Good(First(l, S))
  <2>1. First(l, S) = None \/ \E i \in DOMAIN l : First(l, S) = l[i] /\ l[i] \in S
    BY FirstIs
  <2> QED
    BY <1>1, <2>1 DEF VisibleIn
<1>2. Good(ByUser(c, v))
  <2>1. {s \in VisibleIn(v) : user[s] = yes} \subseteq VisibleIn(v)
    OBVIOUS
  <2> HIDE DEF Good
  <2> QED
    BY <1>1, <2>1, OrderList DEF ByUser, Typical
<1>3. Good(First(k.choices[c].members, VisibleIn(v)))
  <2> HIDE DEF Good
  <2> QED
    BY <1>1, ChoiceLists
<1>4. Good(Unset(c, v))
  <2>1. {s \in VisibleIn(v) : ~sym_has_value(s)} \subseteq VisibleIn(v)
    OBVIOUS
  <2> HIDE DEF Good
  <2> QED
    BY <1>1, <2>1, ChoiceLists DEF Unset
<1>5. Good(LeastNo(c, v))
  <2> HIDE DEF Good
  <2> QED
    BY <1>1, OrderList DEF LeastNo
<1>6. Good(ChoiceDefault(c, v))
  <2> DEFINE ds == k.choices[c].defaults
  <2>1. \/ First(ds, DefaultsIn(c, v)) = None
        \/ \E i \in DOMAIN ds : First(ds, DefaultsIn(c, v)) = ds[i] /\ ds[i] \in DefaultsIn(c, v)
    <3>1. ds \in Seq([cond : ConditionsOver(Sym), sym : Members(k, c)])
      BY ChoiceLists
    <3> HIDE DEF ds
    <3> QED
      BY <3>1, FirstIs
  <2>2. First(ds, DefaultsIn(c, v)) # None =>
          /\ First(ds, DefaultsIn(c, v)).sym \in Members(k, c)
          /\ v[First(ds, DefaultsIn(c, v)).sym] # no
    BY <2>1, ChoiceLists DEF DefaultsIn
  <2> QED
    BY <1>3, <2>2, ChoiceDefaultIs
<1> HIDE DEF Good
<1>7. Good(Chosen(c, v))
  BY <1>2, <1>4, <1>5, <1>6, ChosenIs
<1> QED
  BY <1>7 DEF Good
Fresh == [m \in Sym |-> Visibility(m)]
ChosenOne(c) == Chosen(c, Fresh)

LEMMA ChoiceDefaultMember ==
  ASSUME k \in Kconfigs, NEW c \in AllChoices, NEW v
  PROVE  ChoiceDefault(c, v) # None => ChoiceDefault(c, v) \in Members(k, c)
<1>1. \/ First(k.choices[c].members, VisibleIn(v)) = None
      \/ First(k.choices[c].members, VisibleIn(v)) \in Members(k, c)
  <2>1. /\ k.choices[c].members \in Seq(Sym)
        /\ \A i \in DOMAIN k.choices[c].members : k.choices[c].members[i] \in Members(k, c)
    BY ChoiceLists
  <2>2. \/ First(k.choices[c].members, VisibleIn(v)) = None
        \/ \E i \in DOMAIN k.choices[c].members :
              First(k.choices[c].members, VisibleIn(v)) = k.choices[c].members[i]
    BY <2>1, FirstIs
  <2> QED
    BY <2>1, <2>2
<1> DEFINE ds == k.choices[c].defaults
<1>2. ds \in Seq([cond : ConditionsOver(Sym), sym : Members(k, c)])
  BY ChoiceLists
<1>3. \/ First(ds, DefaultsIn(c, v)) = None
      \/ \E i \in DOMAIN ds : First(ds, DefaultsIn(c, v)) = ds[i]
  <2> HIDE DEF ds
  <2> QED BY <1>2, FirstIs
<1> QED
  BY <1>1, <1>3, ChoiceLists, ChoiceDefaultIs

LEMMA VisibilityKept ==
  ASSUME k \in Kconfigs, k' = k, NEW c \in AllChoices, Agree(ChoiceReads(k, c)),
         NEW m \in Members(k, c)
  PROVE  Visibility(m)' = Visibility(m)
<1>1. k.type[m] = "bool"
  BY KconfigAssumption DEF ChoicesApart, AllChoices
<1>2. sym_get_type(m)' = "bool" /\ sym_get_type(m) = "bool"
  BY <1>1 DEF sym_get_type
<1>3. Reads(k.prompt[m]) \subseteq ChoiceReads(k, c)
  BY DEF ChoiceReads
<1>4. expr_calc_value(k.prompt[m], curr') = expr_calc_value(k.prompt[m], curr)
  BY <1>3, ConditionSame DEF Agree
<1> QED
  BY <1>2, <1>4 DEF Visibility, Promoted

LEMMA ChosenKept ==
  ASSUME k \in Kconfigs, k' = k, NEW c \in AllChoices, Typical(c), order'[c] = order[c],
         Agree(ChoiceReads(k, c)), \A m \in Members(k, c) : user'[m] = user[m]
  PROVE  /\ ChosenOne(c)' = ChosenOne(c)
         /\ \A m \in Members(k, c) : Visibility(m)' = Visibility(m)
<1>1. \A m \in Members(k, c) : Visibility(m)' = Visibility(m)
  BY VisibilityKept
<1>2. InForce(k.choices[c].defaults)' = InForce(k.choices[c].defaults)
  <2>1. ASSUME NEW d \in ToSet(k.choices[c].defaults)
        PROVE  expr_calc_value(d.cond, curr') = expr_calc_value(d.cond, curr)
    <3>1. UNION {Reads(e.cond) : e \in ToSet(k.choices[c].defaults)} \subseteq ChoiceReads(k, c)
      BY DEF ChoiceReads
    <3>2. Reads(d.cond) \subseteq ChoiceReads(k, c)
      BY <3>1
    <3> QED
      BY <3>2, ConditionSame DEF Agree
  <2> QED
    BY <2>1 DEF InForce
<1>3. ASSUME NEW v PROVE Chosen(c, v)' = Chosen(c, v)
  <2>1. ByUser(c, v)' = ByUser(c, v)
    <3>1. \A i \in DOMAIN order[c] :
            order[c][i] \in {s \in VisibleIn(v) : user'[s] = yes}
              <=> order[c][i] \in {s \in VisibleIn(v) : user[s] = yes}
      BY OrderList
    <3>2. First(order[c], {s \in VisibleIn(v) : user'[s] = yes})
            = First(order[c], {s \in VisibleIn(v) : user[s] = yes})
      BY <3>1, FirstSame
    <3> QED
      BY <3>2 DEF ByUser
  <2>2. ChoiceDefault(c, v)' = ChoiceDefault(c, v)
    BY <1>2, ChoiceDefaultIs DEF ChoiceDefault
  <2>3. ChoiceDefault(c, v) # None => ChoiceDefault(c, v) \in Members(k, c)
    BY ChoiceDefaultMember
  <2>4. Unset(c, v)' = Unset(c, v)
    <3>1. \A i \in DOMAIN k.choices[c].members :
            k.choices[c].members[i] \in {s \in VisibleIn(v) : user'[s] # NoValue}
              <=> k.choices[c].members[i] \in {s \in VisibleIn(v) : user[s] # NoValue}
      BY ChoiceLists
    <3>2. \A i \in DOMAIN k.choices[c].members :
            k.choices[c].members[i] \in {s \in VisibleIn(v) : ~(user'[s] # NoValue)}
              <=> k.choices[c].members[i] \in {s \in VisibleIn(v) : ~(user[s] # NoValue)}
      BY <3>1
    <3>3. First(k.choices[c].members, {s \in VisibleIn(v) : ~(user'[s] # NoValue)})
            = First(k.choices[c].members, {s \in VisibleIn(v) : ~(user[s] # NoValue)})
      BY <3>2, FirstSame
    <3> QED
      BY <3>3 DEF Unset, sym_has_value
  <2>5. LeastNo(c, v)' = LeastNo(c, v)
    BY DEF LeastNo
  <2>6. Chosen(c, v)' =
          IF ByUser(c, v)' # None THEN ByUser(c, v)'
          ELSE IF ChoiceDefault(c, v)' # None /\ user'[ChoiceDefault(c, v)'] # no
            THEN ChoiceDefault(c, v)'
          ELSE IF Unset(c, v)' # None THEN Unset(c, v)'
          ELSE LeastNo(c, v)'
    BY DEF Chosen, ByUser, Unset, LeastNo, VisibleIn
  <2> QED
    BY <2>1, <2>2, <2>3, <2>4, <2>5, <2>6, ChosenIs
<1>4. Chosen(c, Fresh)' = Chosen(c, Fresh')
  BY <1>3
<1>5. \A m \in Members(k, c) : Fresh'[m] = Fresh[m]
  BY <1>1, ChoiceLists DEF Fresh
<1>6. Chosen(c, Fresh') = Chosen(c, Fresh)
  BY <1>5, ChosenSame
<1> QED
  BY <1>1, <1>4, <1>6 DEF ChosenOne
----------------------------------------------------------------------------
(* The lists of choice_set_value() keep their members. *)

LEMMA ToFrontSet ==
  ASSUME NEW A, NEW l \in Seq(A), NEW m \in ToSet(l)
  PROVE  ToFront(l, m) \in Seq(A) /\ ToSet(ToFront(l, m)) = ToSet(l)
<1> DEFINE at == CHOOSE i \in DOMAIN l : l[i] = m
<1>1. at \in DOMAIN l /\ l[at] = m
  BY DEF ToSet
<1>2. ToFront(l, m) = <<m>> \o (SubSeq(l, 1, at - 1) \o SubSeq(l, at + 1, Len(l)))
  BY DEF ToFront, RemoveAt
<1> HIDE DEF at
<1> DEFINE a == SubSeq(l, 1, at - 1)
           b == SubSeq(l, at + 1, Len(l))
<1>3. at \in 1 .. Len(l) /\ Len(l) \in Nat
  BY <1>1
<1>4. /\ a \in Seq(A) /\ Len(a) = at - 1 /\ \A i \in 1 .. at - 1 : a[i] = l[i]
      /\ b \in Seq(A) /\ Len(b) = Len(l) - at /\ \A i \in 1 .. Len(l) - at : b[i] = l[at + i]
  BY <1>3
<1> HIDE DEF a, b
<1> DEFINE ab == a \o b
<1>5. /\ ab \in Seq(A) /\ Len(ab) = Len(l) - 1
      /\ \A i \in 1 .. Len(l) - 1 : ab[i] = IF i < at THEN l[i] ELSE l[i + 1]
  <2>1. ab \in Seq(A) /\ Len(ab) = Len(l) - 1
    <3>1. a \in Seq(A) /\ b \in Seq(A)
      BY <1>4
    <3>2. ab \in Seq(A) /\ Len(ab) = Len(a) + Len(b)
      BY <3>1
    <3> QED
      BY <1>3, <1>4, <3>2
  <2>2. ASSUME NEW i \in 1 .. Len(l) - 1, i < at PROVE ab[i] = l[i]
    BY <1>3, <1>4, <2>2
  <2>3. ASSUME NEW i \in 1 .. Len(l) - 1, ~(i < at) PROVE ab[i] = l[i + 1]
    <3>1. i - (at - 1) \in 1 .. Len(b) /\ at + (i - (at - 1)) = i + 1
      BY <1>3, <1>4, <2>3
    <3>2. ab[i] = b[i - (at - 1)]
      BY <1>3, <1>4, <2>3
    <3> QED
      BY <1>4, <3>1, <3>2
  <2> HIDE DEF ab
  <2> QED
    BY <2>1, <2>2, <2>3
<1> HIDE DEF ab
<1> DEFINE r == <<m>> \o ab
<1>6. /\ r \in Seq(A) /\ Len(r) = Len(l) /\ r[1] = m
      /\ \A i \in 2 .. Len(l) : r[i] = ab[i - 1]
  BY <1>1, <1>3, <1>5
<1> HIDE DEF r
<1>7. ASSUME NEW i \in 1 .. Len(l) PROVE r[i] \in ToSet(l)
  <2>1. CASE i = 1
    BY <1>6, <2>1
  <2>2. CASE i # 1
    <3>1. i - 1 \in 1 .. Len(l) - 1 /\ i \in 2 .. Len(l)
      BY <1>3, <2>2
    <3>2. r[i] = IF i - 1 < at THEN l[i - 1] ELSE l[i]
      BY <1>5, <1>6, <3>1
    <3>3. i - 1 \in DOMAIN l /\ i \in DOMAIN l
      BY <1>3, <3>1
    <3> QED
      BY <3>2, <3>3 DEF ToSet
  <2> QED
    BY <2>1, <2>2
<1>8. ASSUME NEW j \in DOMAIN l PROVE \E i \in 1 .. Len(l) : r[i] = l[j]
  <2>1. j \in 1 .. Len(l)
    OBVIOUS
  <2>2. CASE j = at
    BY <1>1, <1>3, <1>6, <2>2
  <2>3. CASE j < at
    <3>1. j \in 1 .. Len(l) - 1 /\ j + 1 \in 2 .. Len(l) /\ (j + 1) - 1 = j
      BY <1>3, <2>1, <2>3
    <3>2. r[j + 1] = l[j]
      BY <1>5, <1>6, <2>3, <3>1
    <3>3. j + 1 \in 1 .. Len(l)
      BY <1>3, <3>1
    <3> QED
      BY <3>2, <3>3
  <2>4. CASE at < j
    <3>1. j - 1 \in 1 .. Len(l) - 1 /\ j \in 2 .. Len(l) /\ (j - 1) + 1 = j /\ ~(j - 1 < at)
      BY <1>3, <2>1, <2>4
    <3>2. r[j] = l[j]
      BY <1>5, <1>6, <3>1
    <3> QED
      BY <2>1, <3>2
  <2> QED
    BY <1>3, <2>1, <2>2, <2>3, <2>4
<1>9. ToSet(r) = ToSet(l)
  <2>1. DOMAIN r = 1 .. Len(l)
    BY <1>3, <1>6
  <2> QED
    BY <1>7, <1>8, <2>1 DEF ToSet
<1> QED
  BY <1>2, <1>6, <1>9 DEF r, ab, a, b

\* The lists f on the way, after each of the first n members in l.
IsMoved(f, c, ms, l, n) ==
  f = [i \in 0 .. n |->
         IF i = 0 THEN order[c]
         ELSE IF l[i] \in ms THEN ToFront(f[i - 1], l[i]) ELSE f[i - 1]]

LEMMA MovedExists ==
  ASSUME NEW c, NEW ms, NEW n \in Nat, NEW l
  PROVE  \E f : IsMoved(f, c, ms, l, n)
<1> DEFINE Step(f, i) == IF l[i] \in ms THEN ToFront(f[i - 1], l[i]) ELSE f[i - 1]
           Upto(f, j) == f = [i \in 0 .. j |-> IF i = 0 THEN order[c] ELSE Step(f, i)]
           bad == {j \in 0 .. n : ~ \E f : Upto(f, j)}
<1>1. ASSUME bad # {} PROVE FALSE
  <2>1. bad \subseteq Nat
    OBVIOUS
  <2>2. PICK j \in bad : \A i \in bad : j <= i
    <3> HIDE DEF bad
    <3> QED BY <1>1, <2>1, Smallest
  <2>3. CASE j = 0
    <3>1. Upto([i \in 0 .. 0 |-> order[c]], 0)
      OBVIOUS
    <3> QED
      BY <2>2, <2>3, <3>1
  <2>4. CASE j # 0
    <3>1. j - 1 \in 0 .. n /\ j \in Nat /\ ~(j <= j - 1)
      BY <2>2, <2>4
    <3>2. PICK f : Upto(f, j - 1)
      BY <2>2, <3>1
    <3> DEFINE g == [i \in 0 .. j |-> IF i = j THEN Step(f, j) ELSE f[i]]
    <3>3. ASSUME NEW i \in 0 .. j PROVE g[i] = IF i = 0 THEN order[c] ELSE Step(g, i)
      <4>1. CASE i = 0
        BY <2>4, <3>1, <3>2, <4>1
      <4>2. CASE i # 0 /\ i = j
        <5>1. j - 1 \in 0 .. j /\ j - 1 # j /\ g[j - 1] = f[j - 1]
          BY <3>1
        <5> QED
          BY <4>2, <5>1
      <4>3. CASE i # 0 /\ i # j
        <5>1. i \in 0 .. j - 1 /\ i - 1 \in 0 .. j /\ i - 1 # j
          BY <3>1, <4>3
        <5>2. g[i] = f[i] /\ g[i - 1] = f[i - 1]
          BY <4>3, <5>1
        <5>3. f[i] = Step(f, i)
          BY <3>2, <4>3, <5>1
        <5> HIDE DEF g
        <5> QED
          BY <4>3, <5>2, <5>3
      <4> QED
        BY <4>1, <4>2, <4>3
    <3>4. Upto(g, j)
      <4>1. g = [i \in 0 .. j |-> g[i]]
        OBVIOUS
      <4> HIDE DEF g
      <4> QED
        BY <3>3, <4>1
    <3> QED
      BY <2>2, <3>4
  <2> QED
    BY <2>3, <2>4
<1>2. n \in 0 .. n
  OBVIOUS
<1>3. \E f : Upto(f, n)
  BY <1>1, <1>2
<1> QED
  BY <1>3 DEF IsMoved

LEMMA MovedSet ==
  ASSUME k \in Kconfigs, NEW c \in AllChoices, Typical(c), NEW ms
  PROVE  Moved(c, ms) \in Seq(Sym) /\ ToSet(Moved(c, ms)) = Members(k, c)
<1> DEFINE l == k.choices[c].members
           n == Len(l)
           moved == CHOOSE f : IsMoved(f, c, ms, l, n)
<1>1. l \in Seq(Sym) /\ n \in Nat /\ \A i \in 1 .. n : l[i] \in Members(k, c)
  <2>1. l \in Seq(Sym) /\ \A i \in DOMAIN l : l[i] \in Members(k, c)
    BY ChoiceLists
  <2> HIDE DEF l
  <2> QED
    BY <2>1
<1>2. Moved(c, ms) = moved[n]
  BY DEF Moved, IsMoved
<1>3. IsMoved(moved, c, ms, l, n)
  <2>1. \E f : IsMoved(f, c, ms, l, n)
    <3>1. n \in Nat
      BY <1>1
    <3> HIDE DEF l, n
    <3> QED BY <3>1, MovedExists
  <2> HIDE DEF l, n
  <2> QED
    BY <2>1
<1>4. /\ moved[0] = order[c]
      /\ \A i \in 1 .. n : \/ moved[i] = moved[i - 1]
                           \/ moved[i] = ToFront(moved[i - 1], l[i])
  <2> HIDE DEF l, n, moved
  <2> QED
    BY <1>1, <1>3 DEF IsMoved
<1> HIDE DEF l, n, moved
<1> DEFINE Good(i) == moved[i] \in Seq(Sym) /\ ToSet(moved[i]) = Members(k, c)
           bad == {i \in 0 .. n : ~Good(i)}
<1>5. ASSUME bad # {} PROVE FALSE
  <2>1. bad \subseteq Nat
    BY <1>1
  <2>2. PICK i \in bad : \A j \in bad : i <= j
    <3> HIDE DEF bad
    <3> QED BY <1>5, <2>1, Smallest
  <2>3. CASE i = 0
    BY <1>4, <2>2, <2>3 DEF Typical
  <2>4. CASE i # 0
    <3>1. i \in 1 .. n /\ i - 1 \in 0 .. n /\ ~(i <= i - 1)
      BY <1>1, <2>2, <2>4
    <3>2. Good(i - 1)
      BY <2>2, <3>1
    <3>3. l[i] \in ToSet(moved[i - 1])
      BY <1>1, <3>1, <3>2
    <3>4. Good(i)
      BY <1>4, <3>1, <3>2, <3>3, ToFrontSet
    <3> QED
      BY <2>2, <3>4
  <2> QED
    BY <2>3, <2>4
<1>6. Good(n)
  BY <1>1, <1>5
<1> QED
  BY <1>2, <1>6
----------------------------------------------------------------------------
(* The invariant: types, the cache, and why the value set last stays. *)

TypeInv ==
  /\ k \in Kconfigs
  /\ user \in [Sym -> Tri \cup {NoValue}]
  /\ curr \in [Sym -> Tri]
  /\ visible \in [Sym -> Tri] /\ rev_dep \in [Sym -> Tri]
  /\ modules_val = curr[k.modules]
  /\ order \in [AllChoices -> Seq(Sym)]
  /\ \A c \in AllChoices : Typical(c)
  /\ valid \subseteq Sym
  /\ clearing \in BOOLEAN
  /\ clearing => \A s \in valid : k.type[s] = "bool"
  /\ ~clearing => k.modules \in valid

\* What CacheCoherent says, also while modules_sym is computed, and that what
\* a valid symbol reads is valid.
SymbolInv(s) ==
  /\ SymReads(k, s) \subseteq valid
  /\ curr[s] = NewValue(s)
  /\ visible[s] = Visibility(s) /\ rev_dep[s] = RevDep(s)
  /\ s \in write <=> Written(s)

\* A member of a choice may be valid before its visibility has been looked at,
\* but only if it is marked visible.
MemberInv(c, m) ==
  /\ ChoiceReads(k, c) \subseteq valid
  /\ curr[m] = IF m = ChosenOne(c) THEN yes ELSE no
  /\ visible[m] = no => Visibility(m) = no

CacheInv ==
  /\ \A s \in valid : ~sym_is_choice_value(s) => SymbolInv(s)
  /\ \A c \in AllChoices : \A m \in Members(k, c) \cap valid : MemberInv(c, m)

\* The values that the symbols of a choice, or a symbol by itself, depend on;
\* with the mode, unless modules_sym depends on them.
Own(s) ==
  IF sym_is_choice_value(s) THEN {m \in Sym : ChoiceOf(m) = ChoiceOf(s)} ELSE {s}
DeepReads(s) ==
  Upstream(k, ReadsOf(k, s) \cup (IF Own(s) \cap Needed(k) # {} THEN {} ELSE {k.modules}))

\* A symbol has the value that computing it would give.
Fits(s) ==
  IF sym_is_choice_value(s)
  THEN \A c \in ChoiceOf(s) : curr[s] = IF s = ChosenOne(c) THEN yes ELSE no
  ELSE curr[s] = NewValue(s)

\* Computing the symbol would give v.
Gives(s, v) ==
  IF sym_is_choice_value(s) THEN v = yes /\ \A c \in ChoiceOf(s) : s = ChosenOne(c)
  ELSE v = NewValue(s)

StickInv ==
  last # None =>
    /\ last[1] \in Sym
    /\ \A t \in DeepReads(last[1]) : Fits(t)
    /\ Gives(last[1], last[2])

CalcInv == TypeInv /\ CacheInv /\ StickInv

----------------------------------------------------------------------------
(* The types of what the rules compute. *)

LEMMA TriOps ==
  ASSUME NEW a \in Tri, NEW b \in Tri
  PROVE  And(a, b) \in Tri /\ Or(a, b) \in Tri
BY DEF And, Or

LEMMA PromotedType ==
  ASSUME NEW s, NEW t \in Tri PROVE Promoted(s, t) \in Tri
BY DEF Promoted, Tri, yes

LEMMA RuleTypes ==
  ASSUME TypeInv, NEW s \in Sym
  PROVE  /\ Visibility(s) \in Tri /\ DirDep(s) \in Tri /\ RevDep(s) \in Tri
         /\ Implied(s) \in Tri /\ NewValue(s) \in Tri
<1>1. Typed(k) /\ curr \in [Sym -> Tri]
  BY KconfigAssumption DEF TypeInv
<1>2. /\ expr_calc_value(k.prompt[s], curr) \in Tri
      /\ expr_calc_value(k.dir_dep[s], curr) \in Tri
      /\ expr_calc_value(k.rev_dep[s], curr) \in Tri
      /\ expr_calc_value(k.implied[s], curr) \in Tri
  BY <1>1, ConditionType DEF Typed
<1>3. /\ Visibility(s) \in Tri /\ DirDep(s) \in Tri /\ RevDep(s) \in Tri /\ Implied(s) \in Tri
  BY <1>2, PromotedType DEF Visibility, DirDep, RevDep, Implied
<1>4. DefaultValue(s) \in Tri
  <2> DEFINE ds == k.default[s]
             Default == [cond : ConditionsOver(Sym), value : ConditionsOver(Sym)]
             d == First(ds, InForce(ds))
  <2>1. ds \in Seq(Default)
    BY <1>1 DEF Typed
  <2>2. d = None \/ d \in Default
    <3> HIDE DEF ds, Default
    <3> QED BY <2>1, FirstIs
  <2>3. d # None => expr_calc_value(d.cond, curr) \in Tri /\ expr_calc_value(d.value, curr) \in Tri
    <3>1. d # None => d.cond \in ConditionsOver(Sym) /\ d.value \in ConditionsOver(Sym)
      BY <2>2
    <3> HIDE DEF d
    <3> QED
      BY <1>1, <3>1, ConditionType
  <2>4. DefaultValue(s) = IF d = None THEN no
          ELSE And(expr_calc_value(d.value, curr), expr_calc_value(d.cond, curr))
    BY DEF DefaultValue
  <2> HIDE DEF d
  <2> QED
    BY <2>3, <2>4, TriOps DEF Tri, no
<1>5. Automatic(s) \in Tri
  BY <1>3, <1>4, TriOps DEF Automatic
<1>6. sym_has_value(s) => user[s] \in Tri
  BY DEF TypeInv, sym_has_value
<1>7. NewValue(s) \in Tri
  BY <1>3, <1>5, <1>6, TriOps, PromotedType DEF NewValue
<1> QED
  BY <1>3, <1>7

----------------------------------------------------------------------------
(* The chosen member when a choice is computed and when the user sets one. *)

\* It is enough to look at the members up to the first "y" of the user that is
\* visible.
LEMMA ChosenInTime ==
  ASSUME k \in Kconfigs, NEW c \in AllChoices, Typical(c),
         NEW seen, \A i \in LookedAt(c) : order[c][i] \in seen,
         NEW v, v = [m \in Sym |-> IF m \in seen THEN Visibility(m) ELSE visible[m]]
  PROVE  Chosen(c, v) = ChosenOne(c)
<1>1. order[c] \in Seq(Sym) /\ \A i \in DOMAIN order[c] : order[c][i] \in Sym
  BY DEF Typical
<1>2. CASE Hits(c) = {}
  <2>1. \A m \in Members(k, c) : m \in Sym /\ m \in seen
    BY <1>1, <1>2 DEF LookedAt, Typical, ToSet
  <2>2. \A m \in Members(k, c) : v[m] = Fresh[m]
    BY <2>1 DEF Fresh
  <2> QED
    BY <2>2, ChosenSame DEF ChosenOne
<1>3. CASE Hits(c) # {}
  <2> DEFINE hit == CHOOSE i \in Hits(c) : \A j \in Hits(c) : i <= j
  <2>1. hit \in Hits(c) /\ \A j \in Hits(c) : hit <= j
    <3>1. Hits(c) \subseteq Nat
      BY <1>1 DEF Hits
    <3> QED
      BY <1>3, <3>1, Smallest
  <2>2. LookedAt(c) = 1 .. hit
    BY <1>3 DEF LookedAt
  <2> HIDE DEF hit
  <2>3. /\ hit \in DOMAIN order[c] /\ hit \in Nat /\ hit >= 1
        /\ Visibility(order[c][hit]) # no /\ user[order[c][hit]] = yes
    BY <1>1, <2>1 DEF Hits
  <2>4. ASSUME NEW j \in DOMAIN order[c], j < hit
        PROVE  ~(Visibility(order[c][j]) # no /\ user[order[c][j]] = yes)
    <3>1. j \in Nat /\ j \notin Hits(c)
      BY <1>1, <2>1, <2>3, <2>4
    <3> QED
      BY <3>1 DEF Hits
  <2>5. ASSUME NEW w, \A j \in 1 .. hit : w[order[c][j]] = Visibility(order[c][j])
        PROVE  Chosen(c, w) = order[c][hit]
    <3> DEFINE S == {s \in VisibleIn(w) : user[s] = yes}
    <3>1. order[c][hit] \in S
      BY <1>1, <2>3, <2>5 DEF VisibleIn
    <3>2. \A j \in DOMAIN order[c] : j < hit => order[c][j] \notin S
      BY <1>1, <2>3, <2>4, <2>5 DEF VisibleIn
    <3>3. First(order[c], S) = order[c][hit]
      <4> HIDE DEF S
      <4> QED BY <1>1, <2>3, <3>1, <3>2, FirstUnique
    <3>4. ByUser(c, w) = order[c][hit] /\ order[c][hit] # None
      BY <1>1, <2>3, <3>3, NoneAssumption DEF ByUser
    <3> QED
      BY <3>4, ChosenIs
  <2>6. \A j \in 1 .. hit : j \in DOMAIN order[c]
    BY <1>1, <2>3
  <2>7. \A j \in 1 .. hit : v[order[c][j]] = Visibility(order[c][j])
    BY <1>1, <2>2, <2>6
  <2>8. \A j \in 1 .. hit : Fresh[order[c][j]] = Visibility(order[c][j])
    BY <1>1, <2>6 DEF Fresh
  <2> QED
    BY <2>5, <2>7, <2>8 DEF ChosenOne
<1> QED
  BY <1>2, <1>3

LEMMA FirstWithout ==
  ASSUME NEW A, NEW l \in Seq(A), NEW S, NEW T, NEW s,
         First(l, S) # s, T \subseteq S, S \ {s} \subseteq T
  PROVE  First(l, T) = First(l, S)
<1>1. CASE First(l, S) = None /\ \A i \in DOMAIN l : l[i] \notin S
  <2>1. \A i \in DOMAIN l : l[i] \in T <=> l[i] \in S
    BY <1>1
  <2> QED
    BY <2>1, FirstSame
<1>2. CASE \E i \in DOMAIN l : /\ First(l, S) = l[i] /\ l[i] \in S
                               /\ \A j \in DOMAIN l : j < i => l[j] \notin S
  <2>1. PICK i \in DOMAIN l : /\ First(l, S) = l[i] /\ l[i] \in S
                              /\ \A j \in DOMAIN l : j < i => l[j] \notin S
    BY <1>2
  <2>2. l[i] \in T /\ \A j \in DOMAIN l : j < i => l[j] \notin T
    BY <2>1
  <2> QED
    BY <2>1, <2>2, FirstUnique
<1> QED
  BY <1>1, <1>2, FirstIs
\* A member is set to the value it has.
LEMMA ChosenReset ==
  ASSUME TypeInv, k' = k, curr' = curr, order' = order,
         NEW c \in AllChoices, NEW s \in Members(k, c), NEW v,
         user' = [user EXCEPT ![s] = v], v = IF s = ChosenOne(c) THEN yes ELSE no
  PROVE  ChosenOne(c)' = ChosenOne(c)
<1>1. /\ k \in Kconfigs /\ Typical(c) /\ order[c] \in Seq(Sym) /\ s \in Sym
      /\ Members(k, c) \subseteq Sym /\ k.choices[c].members \in Seq(Sym)
      /\ user \in [Sym -> Tri \cup {NoValue}] /\ None \notin Sym
  BY ChoiceLists, NoneAssumption DEF TypeInv, Typical
<1>2. user'[s] = v /\ \A m \in Sym : m # s => user'[m] = user[m]
  BY <1>1
<1>3. ASSUME NEW w, v = IF s = Chosen(c, w) THEN yes ELSE no PROVE Chosen(c, w)' = Chosen(c, w)
  <2> DEFINE S == {m \in VisibleIn(w) : user[m] = yes}
             T == {m \in VisibleIn(w) : user'[m] = yes}
  <2>1. ByUser(c, w) = First(order[c], S) /\ ByUser(c, w)' = First(order[c], T)
    BY DEF ByUser
  <2>2. ChoiceDefault(c, w)' = ChoiceDefault(c, w)
    BY DEF ChoiceDefault, InForce
  <2>3. LeastNo(c, w)' = LeastNo(c, w)
    BY DEF LeastNo
  <2>4. Chosen(c, w)' =
          IF ByUser(c, w)' # None THEN ByUser(c, w)'
          ELSE IF ChoiceDefault(c, w)' # None /\ user'[ChoiceDefault(c, w)'] # no
            THEN ChoiceDefault(c, w)'
          ELSE IF Unset(c, w)' # None THEN Unset(c, w)'
          ELSE LeastNo(c, w)'
    BY DEF Chosen, ByUser, Unset, LeastNo, VisibleIn
  <2>5. CASE s = Chosen(c, w)
    <3>1. v = yes /\ s \in VisibleIn(w) /\ s \in T
      BY <1>1, <1>2, <1>3, <2>5, ChosenVisible DEF VisibleIn
    <3>2. S \subseteq T /\ T \subseteq S \cup {s}
      BY <1>1, <1>2, <3>1 DEF VisibleIn
    <3>3. \A i \in DOMAIN order[c] : order[c][i] # None
      BY <1>1
    <3>4. \E i \in DOMAIN order[c] : order[c][i] = s
      BY <1>1 DEF Typical, ToSet
    <3> HIDE DEF S, T
    <3>5. First(order[c], T) = s
      <4>1. CASE First(order[c], S) = None /\ \A i \in DOMAIN order[c] : order[c][i] \notin S
        BY <1>1, <3>1, <3>2, <3>4, <4>1, FirstIs
      <4>2. CASE \E i \in DOMAIN order[c] :
                   First(order[c], S) = order[c][i] /\ order[c][i] \in S
        <5>1. First(order[c], S) = s /\ s \in S
          BY <2>1, <2>5, <3>3, <4>2, ChosenIs
        <5>2. T = S
          BY <3>2, <5>1
        <5> QED
          BY <5>1, <5>2
      <4> QED
        BY <1>1, <4>1, <4>2, FirstIs
    <3> QED
      BY <1>1, <2>1, <2>4, <2>5, <3>5
  <2>6. CASE s # Chosen(c, w)
    <3>1. v = no
      BY <1>3, <2>6
    <3>2. T \subseteq S /\ S \ {s} \subseteq T
      BY <1>1, <1>2, <3>1 DEF VisibleIn, yes, no
    <3>3. ByUser(c, w) # s
      BY <1>1, <2>6, ChosenIs
    <3>4. ByUser(c, w)' = ByUser(c, w)
      <4> HIDE DEF S, T
      <4> QED BY <1>1, <2>1, <3>2, <3>3, FirstWithout
    <3>5. CASE ByUser(c, w) # None
      BY <2>4, <3>4, <3>5, ChosenIs
    <3>6. CASE ByUser(c, w) = None
      <4> DEFINE d == ChoiceDefault(c, w)
      <4>1. d # None => d \in Sym
        BY <1>1, ChoiceDefaultMember
      <4>2. (d # None /\ user'[d] # no) <=> (d # None /\ user[d] # no)
        <5>1. CASE d = s
          <6>1. ~(user[d] # no)
            BY <1>1, <2>6, <3>6, <5>1, ChosenIs
          <6> QED
            BY <1>2, <3>1, <5>1, <6>1
        <5>2. CASE d # s
          BY <1>2, <4>1, <5>2
        <5> QED
          BY <5>1, <5>2
      <4>3. CASE d # None /\ user[d] # no
        BY <2>2, <2>4, <3>4, <3>6, <4>2, <4>3, ChosenIs
      <4>4. CASE ~(d # None /\ user[d] # no)
        <5> DEFINE U == {m \in VisibleIn(w) : ~(user[m] # NoValue)}
                   V == {m \in VisibleIn(w) : ~(user'[m] # NoValue)}
        <5>1. /\ Unset(c, w) = First(k.choices[c].members, U)
              /\ Unset(c, w)' = First(k.choices[c].members, V)
          BY DEF Unset, sym_has_value
        <5>2. V \subseteq U /\ U \ {s} \subseteq V
          BY <1>1, <1>2, <3>1 DEF VisibleIn, no, NoValue
        <5>3. Unset(c, w) # s
          BY <1>1, <2>6, <3>6, <4>4, ChosenIs
        <5>4. Unset(c, w)' = Unset(c, w)
          <6> HIDE DEF U, V
          <6> QED BY <1>1, <5>1, <5>2, <5>3, FirstWithout
        <5> QED
          BY <2>2, <2>3, <2>4, <3>4, <3>6, <4>2, <4>4, <5>4, ChosenIs
      <4> QED
        BY <4>3, <4>4
    <3> QED
      BY <3>5, <3>6
  <2> QED
    BY <2>5, <2>6
<1>4. \A m \in Members(k, c) : Visibility(m)' = Visibility(m)
  BY <1>1, VisibilityKept DEF Agree
<1>5. \A m \in Members(k, c) : Fresh'[m] = Fresh[m]
  BY <1>1, <1>4 DEF Fresh
<1>6. Chosen(c, Fresh') = Chosen(c, Fresh)
  BY <1>1, <1>5, ChosenSame
<1>7. v = IF s = Chosen(c, Fresh') THEN yes ELSE no
  BY <1>6 DEF ChosenOne
<1>8. Chosen(c, Fresh)' = Chosen(c, Fresh')
  BY <1>3, <1>7
<1> QED
  BY <1>6, <1>8 DEF ChosenOne

\* Of the members that are visible, the user sets one to "y" and the others to
\* "n".
LEMMA ChosenSet ==
  ASSUME TypeInv, k' = k, curr' = curr, NEW c \in AllChoices, NEW s \in Members(k, c),
         Visibility(s) # no, user'[s] = yes,
         \A m \in Members(k, c) : m # s /\ Visibility(m) # no => user'[m] # yes,
         order'[c] \in Seq(Sym), ToSet(order'[c]) = Members(k, c)
  PROVE  ChosenOne(c)' = s
<1>1. k \in Kconfigs /\ s \in Sym /\ None \notin Sym /\ Members(k, c) \subseteq Sym
  BY ChoiceLists, NoneAssumption DEF TypeInv
<1>2. \A m \in Members(k, c) : Fresh'[m] = Visibility(m)
  BY <1>1, VisibilityKept DEF Fresh, Agree
<1>3. ASSUME NEW w, \A m \in Members(k, c) : w[m] = Visibility(m)
      PROVE  Chosen(c, w)' = s
  <2> DEFINE l == order'[c]
             T == {m \in VisibleIn(w) : user'[m] = yes}
  <2>1. ByUser(c, w)' = First(l, T)
    BY DEF ByUser
  <2>2. s \in T
    BY <1>1, <1>3 DEF VisibleIn
  <2>3. \A m \in Members(k, c) : m \in T => m = s
    BY <1>3 DEF VisibleIn
  <2>4. l \in Seq(Sym) /\ \A i \in DOMAIN l : l[i] \in Members(k, c)
    BY DEF ToSet
  <2>5. \E i \in DOMAIN l : l[i] = s
    BY DEF ToSet
  <2>6. First(l, T) = s
    <3> HIDE DEF l, T
    <3> QED BY <2>2, <2>3, <2>4, <2>5, FirstIs
  <2>7. ByUser(c, w)' # None => Chosen(c, w)' = ByUser(c, w)'
    BY DEF Chosen, ByUser, VisibleIn
  <2> QED
    BY <1>1, <2>1, <2>6, <2>7
<1>4. Chosen(c, Fresh)' = s
  BY <1>2, <1>3
<1> QED
  BY <1>4 DEF ChosenOne
----------------------------------------------------------------------------
(* What a value depends on. *)

LEMMA ReadsOfIs ==
  ASSUME NEW p \in Kconfigs, NEW s \in Sym
  PROVE  /\ ReadsOf(p, s) \subseteq Sym
         /\ (\A c \in DOMAIN p.choices : s \notin Members(p, c)) => ReadsOf(p, s) = SymReads(p, s)
         /\ \A c \in DOMAIN p.choices :
              s \in Members(p, c) => ReadsOf(p, s) = ChoiceReads(p, c)
<1>1. Typed(p) /\ ChoicesApart(p)
  BY KconfigAssumption
<1>2. SymReads(p, s) \subseteq Sym
  <2>1. /\ p.prompt[s] \in ConditionsOver(Sym) /\ p.dir_dep[s] \in ConditionsOver(Sym)
        /\ p.rev_dep[s] \in ConditionsOver(Sym) /\ p.implied[s] \in ConditionsOver(Sym)
    BY <1>1 DEF Typed
  <2>2. \A e \in ConditionsOver(Sym) : Reads(e) \subseteq Sym
    BY DEF ConditionsOver, Reads
  <2>3. ASSUME NEW d \in ToSet(p.default[s]) PROVE DefaultReads(d) \subseteq Sym
    <3> DEFINE Default == [cond : ConditionsOver(Sym), value : ConditionsOver(Sym)]
    <3>1. p.default[s] \in Seq(Default)
      BY <1>1 DEF Typed
    <3>2. d \in Default
      <4> HIDE DEF Default
      <4> QED BY <3>1 DEF ToSet
    <3> QED
      BY <2>2, <3>2 DEF DefaultReads
  <2> QED
    BY <2>1, <2>2, <2>3 DEF SymReads
<1>3. ASSUME NEW c \in DOMAIN p.choices PROVE ChoiceReads(p, c) \subseteq Sym
  <2>1. \A e \in ConditionsOver(Sym) : Reads(e) \subseteq Sym
    BY DEF ConditionsOver, Reads
  <2>2. Members(p, c) \subseteq Sym
    <3>1. p.choices[c].members \in Seq(Sym)
      BY <1>1 DEF Typed
    <3> QED
      BY <3>1 DEF Members, ToSet
  <2>3. \A m \in Members(p, c) : p.prompt[m] \in ConditionsOver(Sym)
    BY <1>1, <2>2 DEF Typed
  <2>4. ASSUME NEW d \in ToSet(p.choices[c].defaults) PROVE Reads(d.cond) \subseteq Sym
    <3> DEFINE Default == [cond : ConditionsOver(Sym), sym : Members(p, c)]
    <3>1. p.choices[c].defaults \in Seq(Default)
      BY <1>1 DEF Typed
    <3>2. d \in Default
      <4> HIDE DEF Default
      <4> QED BY <3>1 DEF ToSet
    <3> QED
      BY <2>1, <3>2
  <2> QED
    BY <2>1, <2>3, <2>4 DEF ChoiceReads
<1>4. ASSUME NEW c \in DOMAIN p.choices, s \in Members(p, c)
      PROVE  {d \in DOMAIN p.choices : s \in Members(p, d)} = {c}
  BY <1>1, <1>4 DEF ChoicesApart
<1>5. ASSUME NEW c \in DOMAIN p.choices, s \in Members(p, c)
      PROVE  ReadsOf(p, s) = ChoiceReads(p, c)
  BY <1>4, <1>5 DEF ReadsOf
<1>6. (\A c \in DOMAIN p.choices : s \notin Members(p, c)) => ReadsOf(p, s) = SymReads(p, s)
  BY DEF ReadsOf
<1> QED
  BY <1>2, <1>3, <1>5, <1>6

LEMMA UpstreamIs ==
  ASSUME NEW p \in Kconfigs, NEW S \in SUBSET Sym
  PROVE  /\ S \subseteq Upstream(p, S) /\ Upstream(p, S) \subseteq Sym
         /\ \A t \in Upstream(p, S) : ReadsOf(p, t) \subseteq Upstream(p, S)
<1>1. S \subseteq Upstream(p, S) /\ Upstream(p, S) \subseteq Sym
  BY DEF Upstream
<1>2. ASSUME NEW t \in Upstream(p, S), NEW r \in ReadsOf(p, t) PROVE r \in Upstream(p, S)
  <2>1. t \in Sym /\ r \in Sym
    BY ReadsOfIs DEF Upstream
  <2>2. ASSUME NEW T \in SUBSET Sym, S \subseteq T, \A u \in T : ReadsOf(p, u) \subseteq T
        PROVE  r \in T
    BY <2>2 DEF Upstream
  <2> QED
    BY <2>1, <2>2 DEF Upstream
<1> QED
  BY <1>1, <1>2

LEMMA UpstreamLeast ==
  ASSUME NEW p, NEW S, NEW T \in SUBSET Sym, S \subseteq T,
         \A t \in T : ReadsOf(p, t) \subseteq T
  PROVE  Upstream(p, S) \subseteq T
BY DEF Upstream

LEMMA UpstreamUnion ==
  ASSUME NEW p \in Kconfigs, NEW A \in SUBSET Sym, NEW B \in SUBSET Sym
  PROVE  Upstream(p, A \cup B) \subseteq Upstream(p, A) \cup Upstream(p, B)
<1>1. /\ A \subseteq Upstream(p, A) /\ Upstream(p, A) \subseteq Sym
      /\ B \subseteq Upstream(p, B) /\ Upstream(p, B) \subseteq Sym
      /\ \A t \in Upstream(p, A) : ReadsOf(p, t) \subseteq Upstream(p, A)
      /\ \A t \in Upstream(p, B) : ReadsOf(p, t) \subseteq Upstream(p, B)
  BY UpstreamIs
<1> QED
  BY <1>1, UpstreamLeast

\* Choice or not.
LEMMA ChoiceOfIs ==
  ASSUME NEW s
  PROVE  /\ \A c : c \in ChoiceOf(s) <=> c \in AllChoices /\ s \in Members(k, c)
         /\ sym_is_choice_value(s) <=> \E c \in AllChoices : s \in Members(k, c)
BY DEF ChoiceOf, sym_is_choice_value, Members

LEMMA MembersApart ==
  ASSUME k \in Kconfigs, NEW c \in AllChoices, NEW m \in Members(k, c)
  PROVE  /\ k.type[m] = "bool" /\ m # k.modules /\ m \in Sym
         /\ \A d \in AllChoices : m \in Members(k, d) => d = c
<1>1. ChoicesApart(k) /\ c \in DOMAIN k.choices
  BY KconfigAssumption DEF AllChoices
<1> QED
  BY <1>1, ChoiceLists DEF ChoicesApart, AllChoices

\* The value of a symbol depends on none of the symbols set with it, and is
\* that of a bool or depends on the mode.
LEMMA DeepReadsIs ==
  ASSUME k \in Kconfigs, NEW s \in Sym
  PROVE  /\ DeepReads(s) \subseteq Sym /\ ReadsOf(k, s) \subseteq DeepReads(s)
         /\ \A t \in DeepReads(s) : ReadsOf(k, t) \subseteq DeepReads(s)
         /\ Own(s) \cap DeepReads(s) = {}
         /\ k.modules \in DeepReads(s) \/ \A t \in DeepReads(s) \cup {s} : k.type[t] = "bool"
<1>1. /\ Typed(k) /\ NoRecursion(k) /\ ModulesByBools(k) /\ k.modules \in Sym
      /\ ReadsOf(k, s) \in SUBSET Sym
  BY KconfigAssumption, ReadsOfIs DEF Typed
<1> DEFINE M == IF Own(s) \cap Needed(k) # {} THEN {} ELSE {k.modules}
           R == ReadsOf(k, s) \cup M
<1>2. R \in SUBSET Sym /\ M \in SUBSET Sym
  BY <1>1
<1>3. DeepReads(s) = Upstream(k, R)
  BY DEF DeepReads
<1>4. /\ DeepReads(s) \subseteq Sym /\ ReadsOf(k, s) \cup M \subseteq DeepReads(s)
      /\ \A t \in DeepReads(s) : ReadsOf(k, t) \subseteq DeepReads(s)
  <2>1. /\ Upstream(k, R) \subseteq Sym /\ R \subseteq Upstream(k, R)
        /\ \A t \in Upstream(k, R) : ReadsOf(k, t) \subseteq Upstream(k, R)
    <3> HIDE DEF R
    <3> QED BY <1>2, UpstreamIs
  <2> QED
    BY <1>3, <2>1
<1>5. /\ Needed(k) = Upstream(k, {k.modules}) /\ Needed(k) \in SUBSET Sym
      /\ \A t \in Needed(k) : k.type[t] = "bool" /\ ReadsOf(k, t) \subseteq Needed(k)
  <2>1. {k.modules} \in SUBSET Sym /\ Needed(k) = Upstream(k, {k.modules})
    BY <1>1 DEF Needed
  <2>2. Needed(k) \subseteq Sym /\ \A t \in Needed(k) : ReadsOf(k, t) \subseteq Needed(k)
    BY <2>1, UpstreamIs
  <2> QED
    BY <1>1, <2>1, <2>2 DEF ModulesByBools
<1>6. ASSUME NEW m \in Own(s)
      PROVE  m \in Sym /\ ReadsOf(k, m) = ReadsOf(k, s) /\ m \notin Upstream(k, ReadsOf(k, s))
  <2>1. CASE sym_is_choice_value(s)
    <3>1. PICK c \in AllChoices : s \in Members(k, c)
      BY <2>1, ChoiceOfIs
    <3>2. m \in Sym /\ m \in Members(k, c)
      BY <2>1, <3>1, ChoiceOfIs DEF Own
    <3>3. ReadsOf(k, s) = ChoiceReads(k, c) /\ ReadsOf(k, m) = ChoiceReads(k, c)
      BY <3>1, <3>2, ReadsOfIs DEF AllChoices
    <3> QED
      BY <1>1, <3>2, <3>3 DEF NoRecursion, AllChoices
  <2>2. CASE ~sym_is_choice_value(s)
    BY <1>1, <2>2 DEF Own, NoRecursion
  <2> QED
    BY <2>1, <2>2
<1>7. CASE Own(s) \cap Needed(k) # {}
  <2>1. M = {} /\ DeepReads(s) = Upstream(k, ReadsOf(k, s))
    BY <1>3, <1>7
  <2>2. PICK m \in Own(s) : m \in Needed(k)
    BY <1>7
  <2>3. ReadsOf(k, s) \subseteq Needed(k)
    BY <1>5, <1>6, <2>2
  <2>4. DeepReads(s) \subseteq Needed(k)
    <3>1. Upstream(k, ReadsOf(k, s)) \subseteq Needed(k)
      BY <1>5, <2>3, UpstreamLeast
    <3> QED
      BY <2>1, <3>1
  <2>5. k.type[s] = "bool"
    <3>1. CASE sym_is_choice_value(s)
      BY <3>1, ChoiceOfIs, MembersApart
    <3>2. CASE ~sym_is_choice_value(s)
      BY <1>5, <2>2, <3>2 DEF Own
    <3> QED
      BY <3>1, <3>2
  <2> QED
    BY <1>4, <1>5, <1>6, <2>1, <2>4, <2>5
<1>8. CASE Own(s) \cap Needed(k) = {}
  <2>1. M = {k.modules}
    BY <1>8
  <2>2. DeepReads(s) \subseteq Upstream(k, ReadsOf(k, s)) \cup Needed(k)
    BY <1>1, <1>3, <1>5, <2>1, UpstreamUnion
  <2> QED
    BY <1>4, <1>6, <1>8, <2>1, <2>2
<1> QED
  BY <1>7, <1>8
----------------------------------------------------------------------------
(* What a step keeps. *)

\* A step that changes nothing the value of s is computed from.
Unmoved(s) ==
  /\ k' = k /\ Agree(ReadsOf(k, s))
  /\ k.type[s] = "bool" \/ modules_val' = modules_val
  /\ ~sym_is_choice_value(s) => user'[s] = user[s]
  /\ \A c \in ChoiceOf(s) :
       order'[c] = order[c] /\ \A m \in Members(k, c) : user'[m] = user[m]

LEMMA ProgramKept ==
  ASSUME k' = k, NEW s
  PROVE  /\ AllChoices' = AllChoices /\ ChoiceOf(s)' = ChoiceOf(s)
         /\ sym_is_choice_value(s)' = sym_is_choice_value(s)
         /\ DeepReads(s)' = DeepReads(s)
BY DEF AllChoices, ChoiceOf, sym_is_choice_value, DeepReads, Own

LEMMA UnmovedKeeps ==
  ASSUME TypeInv, NEW s \in Sym, Unmoved(s)
  PROVE  /\ ~sym_is_choice_value(s) =>
              /\ NewValue(s)' = NewValue(s) /\ Visibility(s)' = Visibility(s)
              /\ RevDep(s)' = RevDep(s) /\ Written(s)' = Written(s)
         /\ \A c \in ChoiceOf(s) :
              ChosenOne(c)' = ChosenOne(c) /\ Visibility(s)' = Visibility(s)
<1>1. k \in Kconfigs /\ k' = k
  BY DEF TypeInv, Unmoved
<1>2. ASSUME ~sym_is_choice_value(s)
      PROVE  /\ NewValue(s)' = NewValue(s) /\ Visibility(s)' = Visibility(s)
             /\ RevDep(s)' = RevDep(s) /\ Written(s)' = Written(s)
  <2>1. ReadsOf(k, s) = SymReads(k, s)
    BY <1>1, <1>2, ReadsOfIs, ChoiceOfIs DEF AllChoices
  <2> QED
    BY <1>1, <1>2, <2>1, RulesKept DEF Unmoved
<1>3. ASSUME NEW c \in ChoiceOf(s)
      PROVE  ChosenOne(c)' = ChosenOne(c) /\ Visibility(s)' = Visibility(s)
  <2>1. c \in AllChoices /\ s \in Members(k, c)
    BY ChoiceOfIs
  <2>2. ReadsOf(k, s) = ChoiceReads(k, c)
    BY <1>1, <2>1, ReadsOfIs DEF AllChoices
  <2>3. Typical(c)
    BY <2>1 DEF TypeInv
  <2>4. order'[c] = order[c] /\ \A m \in Members(k, c) : user'[m] = user[m]
    BY DEF Unmoved
  <2>5. Agree(ChoiceReads(k, c))
    BY <2>2 DEF Unmoved
  <2> QED
    BY <1>1, <2>1, <2>3, <2>4, <2>5, ChosenKept
<1> QED
  BY <1>2, <1>3

LEMMA FitsKept ==
  ASSUME TypeInv, NEW s \in Sym, Unmoved(s), curr'[s] = curr[s]
  PROVE  Fits(s) => Fits(s)'
<1>1. k' = k
  BY DEF Unmoved
<1> QED
  BY <1>1, UnmovedKeeps, ProgramKept DEF Fits

LEMMA GivesKept ==
  ASSUME TypeInv, NEW s \in Sym, Unmoved(s), NEW v
  PROVE  Gives(s, v) => Gives(s, v)'
<1>1. k' = k
  BY DEF Unmoved
<1> QED
  BY <1>1, UnmovedKeeps, ProgramKept DEF Gives

\* What is computed does not depend on what is not.
LEMMA ValidClosed ==
  ASSUME TypeInv, CacheInv, NEW t \in valid
  PROVE  /\ ReadsOf(k, t) \subseteq valid
         /\ Fits(t)
         /\ ~clearing => DeepReads(t) \subseteq valid
<1>1. k \in Kconfigs /\ valid \subseteq Sym
  BY DEF TypeInv
<1>2. ASSUME NEW s \in valid PROVE ReadsOf(k, s) \subseteq valid /\ Fits(s)
  <2>1. CASE sym_is_choice_value(s)
    <3>1. PICK c \in AllChoices : s \in Members(k, c)
      BY <2>1, ChoiceOfIs
    <3>2. ReadsOf(k, s) = ChoiceReads(k, c)
      BY <1>1, <3>1, ReadsOfIs DEF AllChoices
    <3>3. \A d \in ChoiceOf(s) : MemberInv(d, s)
      BY ChoiceOfIs DEF CacheInv
    <3>4. ReadsOf(k, s) \subseteq valid
      BY <3>1, <3>2 DEF CacheInv, MemberInv
    <3> QED
      BY <2>1, <3>3, <3>4 DEF MemberInv, Fits
  <2>2. CASE ~sym_is_choice_value(s)
    <3>1. ReadsOf(k, s) = SymReads(k, s)
      BY <1>1, <2>2, ReadsOfIs, ChoiceOfIs DEF AllChoices
    <3> QED
      BY <2>2, <3>1 DEF CacheInv, SymbolInv, Fits
  <2> QED
    BY <2>1, <2>2
<1>3. ASSUME ~clearing PROVE DeepReads(t) \subseteq valid
  <2> DEFINE R == ReadsOf(k, t) \cup (IF Own(t) \cap Needed(k) # {} THEN {} ELSE {k.modules})
  <2>1. R \subseteq valid
    BY <1>2, <1>3 DEF TypeInv
  <2>2. Upstream(k, R) \subseteq valid
    <3> HIDE DEF R
    <3> QED BY <1>1, <1>2, <2>1, UpstreamLeast
  <2> QED
    BY <2>2 DEF DeepReads
<1> QED
  BY <1>2, <1>3

\* A step that computes values.
LEMMA CalcUnmoved ==
  ASSUME TypeInv, CacheInv, k' = k, user' = user, order' = order, Agree(valid),
         modules_val' = modules_val \/ \A s \in valid : k.type[s] = "bool",
         NEW t \in valid
  PROVE  Unmoved(t)
BY ValidClosed DEF Unmoved, Agree

LEMMA StickKept ==
  ASSUME TypeInv, StickInv, k' = k, user' = user, order' = order, last' = last,
         modules_val' = curr'[k.modules],
         last # None => Agree(DeepReads(last[1]))
  PROVE  StickInv'
<1> SUFFICES ASSUME last # None
             PROVE  /\ last[1] \in Sym
                    /\ \A t \in DeepReads(last[1])' : Fits(t)'
                    /\ Gives(last[1], last[2])'
  BY DEF StickInv
<1> PICK s, v : s \in Sym /\ s = last[1] /\ v = last[2]
  BY DEF StickInv
<1>1. /\ k \in Kconfigs /\ Gives(s, v) /\ last' = last
      /\ \A t \in DeepReads(s) : Fits(t)
      /\ modules_val = curr[k.modules]
  BY DEF TypeInv, StickInv
<1>2. /\ DeepReads(s) \subseteq Sym /\ ReadsOf(k, s) \subseteq DeepReads(s)
      /\ \A t \in DeepReads(s) : ReadsOf(k, t) \subseteq DeepReads(s)
      /\ k.modules \in DeepReads(s) \/ \A t \in DeepReads(s) \cup {s} : k.type[t] = "bool"
  BY <1>1, DeepReadsIs
<1>3. modules_val' = modules_val \/ \A t \in DeepReads(s) \cup {s} : k.type[t] = "bool"
  BY <1>1, <1>2 DEF Agree
<1>4. ASSUME NEW t \in DeepReads(s) \cup {s} PROVE Unmoved(t)
  <2>1. ReadsOf(k, t) \subseteq DeepReads(s)
    BY <1>2
  <2> QED
    BY <1>3, <2>1 DEF Unmoved, Agree
<1>5. ASSUME NEW t \in DeepReads(s) PROVE Fits(t)'
  BY <1>1, <1>2, <1>4, FitsKept DEF Agree
<1>6. Gives(s, v)'
  BY <1>1, <1>4, GivesKept
<1>7. DeepReads(s)' = DeepReads(s)
  BY ProgramKept
<1> QED
  BY <1>1, <1>5, <1>6, <1>7
----------------------------------------------------------------------------
(* The steps. *)

LEMMA InitCalc == Init => CalcInv
<1> SUFFICES ASSUME Init PROVE CalcInv
  OBVIOUS
<1>1. Typed(k) /\ k \in Kconfigs
  BY KconfigAssumption DEF Init
<1>2. \A c \in AllChoices : k.choices[c].members \in Seq(Sym)
  BY <1>1 DEF Typed, AllChoices
<1>3. TypeInv
  BY <1>1, <1>2 DEF Init, TypeInv, Typical, Members, Typed, Tri, no, NoValue
<1>4. CacheInv /\ StickInv
  BY DEF Init, CacheInv, StickInv
<1> QED
  BY <1>3, <1>4 DEF CalcInv

LEMMA CalcValueStep == CalcInv /\ CalcValue => CalcInv'
<1> SUFFICES ASSUME CalcInv, CalcValue PROVE CalcInv'
  OBVIOUS
<1>1. TypeInv /\ CacheInv /\ StickInv
  BY DEF CalcInv
<1>2. PICK s \in Sym :
       /\ Asked(s) /\ ~sym_is_choice_value(s)
       /\ SymReads(k, s) \subseteq valid
       /\ valid' = valid \cup {s}
       /\ write' = IF Written(s) THEN write \cup {s} ELSE write \ {s}
       /\ curr' = [curr EXCEPT ![s] = NewValue(s)]
       /\ visible' = [visible EXCEPT ![s] = Visibility(s)]
       /\ rev_dep' = [rev_dep EXCEPT ![s] = RevDep(s)]
       /\ modules_val' = NewModulesVal(s, NewValue(s))
       /\ clearing' = (clearing /\ s # k.modules)
  BY DEF CalcValue
<1>3. /\ k' = k /\ user' = user /\ order' = order /\ last' = last /\ k \in Kconfigs
      /\ k.modules \in Sym
      /\ \A t \in Needed(k) : k.type[t] = "bool"
      /\ k.modules \in Needed(k)
  <2>1. k.modules \in Sym /\ k \in Kconfigs
    BY <1>1, KconfigAssumption DEF TypeInv, Typed
  <2>2. k.modules \in Needed(k)
    BY <2>1, UpstreamIs DEF Needed
  <2> QED
    BY <2>1, <2>2, KconfigAssumption DEF CalcValue, ModulesByBools
<1>4. /\ Visibility(s) \in Tri /\ RevDep(s) \in Tri /\ NewValue(s) \in Tri
  BY <1>1, RuleTypes
<1>5. s \notin valid /\ Agree(valid)
  BY <1>1, <1>2 DEF Asked, Agree, TypeInv
<1>6. \/ modules_val' = modules_val
      \/ k.type[s] = "bool" /\ \A t \in valid : k.type[t] = "bool"
  BY <1>1, <1>2, <1>3, <1>5 DEF TypeInv, NewModulesVal
<1>7. modules_val' = curr'[k.modules]
  BY <1>1, <1>2, <1>3 DEF TypeInv, NewModulesVal
<1>8. TypeInv'
  <2>1. curr' \in [Sym -> Tri] /\ visible' \in [Sym -> Tri] /\ rev_dep' \in [Sym -> Tri]
    BY <1>1, <1>2, <1>4 DEF TypeInv
  <2>2. clearing' => \A t \in valid' : k.type[t] = "bool"
    BY <1>1, <1>2, <1>3 DEF TypeInv, Asked
  <2>3. ~clearing' => k.modules \in valid'
    BY <1>1, <1>2 DEF TypeInv
  <2>4. valid' \subseteq Sym /\ clearing' \in BOOLEAN
    BY <1>1, <1>2 DEF TypeInv
  <2>5. /\ order' \in [AllChoices' -> Seq(Sym)] /\ user' \in [Sym -> Tri \cup {NoValue}]
        /\ \A c \in AllChoices' : Typical(c)'
    BY <1>1, <1>3, ProgramKept DEF TypeInv, Typical
  <2> QED
    BY <1>3, <1>7, <2>1, <2>2, <2>3, <2>4, <2>5 DEF TypeInv
<1>9. \A t \in valid : Unmoved(t)
  BY <1>1, <1>3, <1>5, <1>6, CalcUnmoved
<1>10. Unmoved(s)
  <2>1. ReadsOf(k, s) = SymReads(k, s)
    BY <1>2, <1>3, ReadsOfIs, ChoiceOfIs DEF AllChoices
  <2> QED
    BY <1>2, <1>3, <1>5, <1>6, <2>1 DEF Unmoved, Agree
<1>11. ASSUME NEW t \in valid', ~sym_is_choice_value(t)' PROVE SymbolInv(t)'
  <2>1. /\ ~sym_is_choice_value(t) /\ t \in Sym /\ t \in valid \cup {s}
        /\ SymReads(k, t)' = SymReads(k, t)
    BY <1>1, <1>2, <1>3, <1>11, ProgramKept DEF TypeInv
  <2>2. /\ NewValue(t)' = NewValue(t) /\ Visibility(t)' = Visibility(t)
        /\ RevDep(t)' = RevDep(t) /\ Written(t)' = Written(t)
    BY <1>1, <1>9, <1>10, <2>1, UnmovedKeeps
  <2>3. CASE t = s
    BY <1>1, <1>2, <2>1, <2>2, <2>3 DEF SymbolInv, TypeInv
  <2>4. CASE t # s
    <3>1. t \in valid /\ SymbolInv(t)
      BY <1>1, <2>1, <2>4 DEF CacheInv
    <3>2. /\ curr'[t] = curr[t] /\ visible'[t] = visible[t] /\ rev_dep'[t] = rev_dep[t]
          /\ t \in write' <=> t \in write
      BY <1>1, <1>2, <2>1, <2>4 DEF TypeInv
    <3> QED
      BY <1>2, <2>1, <2>2, <3>1, <3>2 DEF SymbolInv
  <2> QED
    BY <2>3, <2>4
<1>12. ASSUME NEW c \in AllChoices', NEW m \in (Members(k, c) \cap valid)' PROVE MemberInv(c, m)'
  <2>1. c \in AllChoices /\ m \in Members(k, c) /\ m # s /\ m \in valid /\ m \in Sym
    BY <1>1, <1>2, <1>3, <1>12, ProgramKept, ChoiceOfIs DEF TypeInv
  <2>2. MemberInv(c, m) /\ c \in ChoiceOf(m)
    BY <1>1, <2>1, ChoiceOfIs DEF CacheInv
  <2>3. ChosenOne(c)' = ChosenOne(c) /\ Visibility(m)' = Visibility(m)
    BY <1>1, <1>9, <2>1, <2>2, UnmovedKeeps
  <2>4. curr'[m] = curr[m] /\ visible'[m] = visible[m]
    BY <1>1, <1>2, <2>1 DEF TypeInv
  <2> QED
    BY <1>2, <1>3, <2>2, <2>3, <2>4 DEF MemberInv
<1>13. CacheInv'
  BY <1>11, <1>12 DEF CacheInv
<1>14. StickInv'
  <2>1. ASSUME last # None PROVE Agree(DeepReads(last[1]))
    <3>1. \A t \in DeepReads(last[1]) : Fits(t)
      BY <1>1, <2>1 DEF StickInv
    <3>2. s \in DeepReads(last[1]) => curr[s] = NewValue(s)
      BY <1>2, <3>1 DEF Fits
    <3>3. \A t \in DeepReads(last[1]) : t \in Sym
      BY <1>1, <1>3, <2>1, DeepReadsIs DEF StickInv
    <3> QED
      BY <1>1, <1>2, <3>2, <3>3 DEF Agree, TypeInv
  <2> QED
    BY <1>1, <1>3, <1>7, <2>1, StickKept
<1> QED
  BY <1>8, <1>13, <1>14 DEF CalcInv
LEMMA LookedAtIs ==
  ASSUME NEW c, Typical(c)
  PROVE  LookedAt(c) \subseteq DOMAIN order[c]
<1>1. order[c] \in Seq(Sym)
  BY DEF Typical
<1>2. CASE Hits(c) = {}
  BY <1>2 DEF LookedAt
<1>3. CASE Hits(c) # {}
  <2> DEFINE hit == CHOOSE i \in Hits(c) : \A j \in Hits(c) : i <= j
  <2>1. hit \in Hits(c)
    <3>1. Hits(c) \subseteq Nat
      BY <1>1 DEF Hits
    <3> QED
      BY <1>3, <3>1, Smallest
  <2>2. LookedAt(c) = 1 .. hit
    BY <1>3 DEF LookedAt
  <2> HIDE DEF hit
  <2> QED
    BY <1>1, <2>1, <2>2 DEF Hits
<1> QED
  BY <1>2, <1>3

LEMMA CalcChoiceStep == CalcInv /\ CalcChoiceMember => CalcInv'
<1> SUFFICES ASSUME CalcInv, CalcChoiceMember PROVE CalcInv'
  OBVIOUS
<1>1. TypeInv /\ CacheInv /\ StickInv
  BY DEF CalcInv
<1> DEFINE Seen(s, c) == {s} \cup {order[c][i] : i \in LookedAt(c)}
           SetIn(c, vis) == {m \in Members(k, c) : vis[m] # no}
           Vis(seen) == [m \in Sym |-> IF m \in seen THEN Visibility(m) ELSE visible[m]]
<1>2. PICK s, c, seen, vis, res, set :
       /\ s \in Sym /\ c \in ChoiceOf(s)
       /\ seen = Seen(s, c)
       /\ vis = Vis(seen)
       /\ res = Chosen(c, vis)
       /\ set = SetIn(c, vis)
       /\ Asked(s) /\ ChoiceReads(k, c) \subseteq valid
       /\ visible' = vis
       /\ curr' = [m \in Sym |-> IF m \in set THEN IF m = res THEN yes ELSE no
                                 ELSE IF m = s THEN no ELSE curr[m]]
       /\ valid' = valid \cup {s} \cup set
       /\ write' = (write \ {s}) \cup set
  <2>1. PICK s, c :
       /\ s \in Sym /\ c \in ChoiceOf(s)
       /\ Asked(s) /\ ChoiceReads(k, c) \subseteq valid
       /\ visible' = Vis(Seen(s, c))
       /\ curr' = [m \in Sym |-> IF m \in SetIn(c, Vis(Seen(s, c)))
                                 THEN IF m = Chosen(c, Vis(Seen(s, c))) THEN yes ELSE no
                                 ELSE IF m = s THEN no ELSE curr[m]]
       /\ valid' = valid \cup {s} \cup SetIn(c, Vis(Seen(s, c)))
       /\ write' = (write \ {s}) \cup SetIn(c, Vis(Seen(s, c)))
    BY DEF CalcChoiceMember
  <2> HIDE DEF Vis, Seen, SetIn
  <2> QED
    BY <2>1
<1>3. /\ k' = k /\ user' = user /\ order' = order /\ last' = last /\ k \in Kconfigs
      /\ modules_val' = modules_val /\ clearing' = clearing /\ rev_dep' = rev_dep
  BY <1>1 DEF CalcChoiceMember, TypeInv
<1>4. /\ c \in AllChoices /\ s \in Members(k, c) /\ Members(k, c) \subseteq Sym
      /\ Typical(c) /\ None \notin Sym
  BY <1>1, <1>2, <1>3, ChoiceOfIs, ChoiceLists, NoneAssumption DEF TypeInv
<1>5. /\ seen \subseteq Members(k, c) /\ s \in seen
      /\ \A i \in LookedAt(c) : order[c][i] \in seen
  BY <1>2, <1>4, LookedAtIs, OrderList
<1>6. res = ChosenOne(c)
  BY <1>2, <1>3, <1>4, <1>5, ChosenInTime
<1>7. res = None \/ res \in set
  BY <1>2, <1>3, <1>4, ChosenVisible
<1>8. \A m \in set \cup {s} : curr'[m] = IF m = ChosenOne(c) THEN yes ELSE no
  BY <1>2, <1>4, <1>6, <1>7
<1>9. \A m \in Sym : m \notin set \cup {s} => curr'[m] = curr[m]
  BY <1>2
<1>10. set \cup {s} \subseteq Members(k, c)
  BY <1>2, <1>4
<1>11. \A t \in Sym : t \notin Members(k, c) => visible'[t] = visible[t]
  BY <1>2, <1>5
<1>12. Agree(valid)
  <2>1. ASSUME NEW t \in valid, t \in set \cup {s} PROVE curr'[t] = curr[t]
    <3>1. MemberInv(c, t)
      BY <1>1, <1>4, <1>10, <2>1 DEF CacheInv
    <3> QED
      BY <1>8, <2>1, <3>1 DEF MemberInv
  <2> QED
    BY <1>1, <1>9, <2>1 DEF Agree, TypeInv
<1>13. \A t \in valid : Unmoved(t)
  BY <1>1, <1>3, <1>12, CalcUnmoved
<1>14. ASSUME NEW m \in Members(k, c) PROVE Unmoved(m)
  <2>1. ReadsOf(k, m) = ChoiceReads(k, c)
    BY <1>3, <1>4, ReadsOfIs DEF AllChoices
  <2> QED
    BY <1>2, <1>3, <1>12, <2>1 DEF Unmoved, Agree
<1>15. k.modules \in Sym /\ k.modules \notin Members(k, c)
  BY <1>3, <1>4, MembersApart, KconfigAssumption DEF Typed
<1>16. modules_val' = curr'[k.modules]
  BY <1>1, <1>3, <1>9, <1>10, <1>15 DEF TypeInv
<1>17. TypeInv'
  <2>1. curr' \in [Sym -> Tri]
    BY <1>1, <1>2 DEF TypeInv, Tri, yes, no
  <2>2. visible' \in [Sym -> Tri] /\ rev_dep' \in [Sym -> Tri]
    BY <1>1, <1>2, <1>3, RuleTypes DEF TypeInv
  <2>3. valid' \subseteq Sym /\ clearing' \in BOOLEAN /\ (~clearing' => k.modules \in valid')
    BY <1>1, <1>2, <1>3, <1>4, <1>10 DEF TypeInv
  <2>4. clearing' => \A t \in valid' : k.type[t] = "bool"
    BY <1>1, <1>2, <1>3, <1>4, <1>10, MembersApart DEF TypeInv
  <2>5. /\ order' \in [AllChoices' -> Seq(Sym)] /\ user' \in [Sym -> Tri \cup {NoValue}]
        /\ \A d \in AllChoices' : Typical(d)'
    BY <1>1, <1>3, ProgramKept DEF TypeInv, Typical
  <2> QED
    BY <1>3, <1>16, <2>1, <2>2, <2>3, <2>4, <2>5 DEF TypeInv
<1>18. ASSUME NEW t \in valid', ~sym_is_choice_value(t)' PROVE SymbolInv(t)'
  <2>1. /\ ~sym_is_choice_value(t) /\ t \notin Members(k, c)
        /\ SymReads(k, t)' = SymReads(k, t)
    BY <1>3, <1>4, <1>18, ProgramKept, ChoiceOfIs
  <2>2. t \in valid /\ t \in Sym /\ SymbolInv(t)
    BY <1>1, <1>2, <1>10, <2>1 DEF CacheInv, TypeInv
  <2>3. /\ NewValue(t)' = NewValue(t) /\ Visibility(t)' = Visibility(t)
        /\ RevDep(t)' = RevDep(t) /\ Written(t)' = Written(t)
    BY <1>1, <1>13, <2>1, <2>2, UnmovedKeeps
  <2>4. /\ curr'[t] = curr[t] /\ visible'[t] = visible[t] /\ rev_dep'[t] = rev_dep[t]
        /\ t \in write' <=> t \in write
    BY <1>2, <1>3, <1>9, <1>10, <1>11, <2>1, <2>2
  <2> QED
    BY <1>2, <2>1, <2>2, <2>3, <2>4 DEF SymbolInv
<1>19. ASSUME NEW d \in AllChoices', NEW m \in (Members(k, d) \cap valid)' PROVE MemberInv(d, m)'
  <2>1. /\ d \in AllChoices /\ m \in Members(k, d) /\ m \in valid' /\ m \in Sym
        /\ d \in ChoiceOf(m)
    BY <1>1, <1>2, <1>3, <1>4, <1>10, ProgramKept, ChoiceOfIs DEF TypeInv
  <2>2. CASE d = c
    <3>1. ChosenOne(c)' = ChosenOne(c) /\ Visibility(m)' = Visibility(m)
      BY <1>1, <1>14, <2>1, <2>2, UnmovedKeeps
    <3>2. curr'[m] = IF m = ChosenOne(c) THEN yes ELSE no
      <4>1. CASE m \in set \cup {s}
        BY <1>8, <4>1
      <4>2. CASE m \notin set \cup {s}
        <5>1. m \in valid /\ MemberInv(c, m)
          BY <1>1, <1>2, <2>1, <2>2, <4>2 DEF CacheInv
        <5> QED
          BY <1>12, <5>1 DEF MemberInv, Agree
      <4> QED
        BY <4>1, <4>2
    <3>3. visible'[m] = no => Visibility(m) = no
      <4>1. CASE m \in seen
        BY <1>2, <2>1, <4>1
      <4>2. CASE m \notin seen
        <5>1. visible'[m] = visible[m] /\ m # s
          BY <1>2, <1>5, <2>1, <4>2
        <5>2. visible'[m] = no => m \in valid
          BY <1>2, <2>1, <5>1
        <5>3. m \in valid => MemberInv(c, m)
          BY <1>1, <2>1, <2>2 DEF CacheInv
        <5> QED
          BY <5>1, <5>2, <5>3 DEF MemberInv
      <4> QED
        BY <4>1, <4>2
    <3>4. ChoiceReads(k, c) \subseteq valid'
      BY <1>2
    <3> QED
      BY <1>3, <2>2, <3>1, <3>2, <3>3, <3>4 DEF MemberInv
  <2>3. CASE d # c
    <3>1. m \notin Members(k, c)
      BY <1>3, <1>4, <2>1, <2>3, MembersApart
    <3>2. m \in valid /\ MemberInv(d, m)
      BY <1>1, <1>2, <1>10, <2>1, <3>1 DEF CacheInv
    <3>3. ChosenOne(d)' = ChosenOne(d) /\ Visibility(m)' = Visibility(m)
      BY <1>1, <1>13, <2>1, <3>2, UnmovedKeeps
    <3>4. curr'[m] = curr[m] /\ visible'[m] = visible[m]
      BY <1>9, <1>10, <1>11, <2>1, <3>1
    <3> QED
      BY <1>2, <1>3, <3>2, <3>3, <3>4 DEF MemberInv
  <2> QED
    BY <2>2, <2>3
<1>20. CacheInv'
  BY <1>18, <1>19 DEF CacheInv
<1>21. StickInv'
  <2>1. ASSUME last # None PROVE Agree(DeepReads(last[1]))
    <3>1. \A t \in DeepReads(last[1]) : Fits(t) /\ t \in Sym
      BY <1>1, <1>3, <2>1, DeepReadsIs DEF StickInv
    <3>2. ASSUME NEW t \in DeepReads(last[1]) PROVE curr'[t] = curr[t]
      <4>1. CASE t \in set \cup {s}
        <5>1. c \in ChoiceOf(t) /\ sym_is_choice_value(t)
          BY <1>4, <1>10, <4>1, ChoiceOfIs
        <5>2. curr[t] = IF t = ChosenOne(c) THEN yes ELSE no
          BY <3>1, <5>1 DEF Fits
        <5> QED
          BY <1>8, <4>1, <5>2
      <4>2. CASE t \notin set \cup {s}
        BY <1>9, <3>1, <4>2
      <4> QED
        BY <4>1, <4>2
    <3> QED
      BY <3>2 DEF Agree
  <2> QED
    BY <1>1, <1>3, <1>16, <2>1, StickKept
<1> QED
  BY <1>17, <1>20, <1>21 DEF CalcInv
\* A value within the range is the one the symbol gets.
LEMMA SetGives ==
  ASSUME TypeInv, NEW s \in Sym, SymbolInv(s), NEW v \in Tri, WithinRange(s, v),
         k' = k, curr' = curr, modules_val' = modules_val, user'[s] = v
  PROVE  /\ NewValue(s)' = v /\ Visibility(s)' = Visibility(s)
         /\ RevDep(s)' = RevDep(s) /\ Written(s)' = Written(s)
<1>1. /\ sym_get_type(s)' = sym_get_type(s)
      /\ Visibility(s)' = Visibility(s) /\ RevDep(s)' = RevDep(s)
      /\ Implied(s)' = Implied(s) /\ DefaultValue(s)' = DefaultValue(s)
  BY DEF sym_get_type, Visibility, RevDep, Implied, DefaultValue, Promoted, InForce
<1>2. Written(s)' = Written(s)
  BY <1>1 DEF Written
<1>3. /\ Visibility(s) \in Tri /\ RevDep(s) \in Tri
      /\ Visibility(s) # no /\ RevDep(s) <= v /\ v <= Visibility(s)
      /\ ~(sym_get_type(s) = "bool" /\ v = mod)
  BY RuleTypes DEF SymbolInv, WithinRange
<1>4. And(v, Visibility(s)) = v /\ Or(v, RevDep(s)) = v
  BY <1>3 DEF And, Or, Tri
<1>5. v # NoValue
  BY DEF Tri, NoValue
<1>6. NewValue(s)' = IF v = mod /\ sym_get_type(s) = "bool" THEN yes ELSE v
  BY <1>1, <1>3, <1>4, <1>5 DEF NewValue, sym_has_value, Promoted
<1> QED
  BY <1>1, <1>2, <1>3, <1>6

LEMMA SetStep == CalcInv /\ sym_set_tristate_value => CalcInv'
<1> SUFFICES ASSUME CalcInv, sym_set_tristate_value PROVE CalcInv'
  OBVIOUS
<1>1. TypeInv /\ CacheInv /\ StickInv
  BY DEF CalcInv
<1>2. PICK s \in valid, v \in Tri :
        /\ WithinRange(s, v)
        /\ user' = [user EXCEPT ![s] = v]
        /\ last' = IF sym_is_choice_value(s) THEN None ELSE <<s, v>>
        /\ IF Stale(curr[s], v) THEN sym_clear_all_valid ELSE KeepAllValid
  BY DEF sym_set_tristate_value
<1>3. /\ k' = k /\ write' = write /\ curr' = curr /\ visible' = visible
      /\ rev_dep' = rev_dep /\ modules_val' = modules_val /\ order' = order
      /\ k \in Kconfigs /\ s \in Sym /\ ~clearing
  BY <1>1 DEF sym_set_tristate_value, TypeInv
<1>4. \/ valid' = {} /\ clearing' = TRUE
      \/ valid' = valid /\ clearing' = clearing /\ v = curr[s]
  BY <1>2 DEF Stale, sym_clear_all_valid, KeepAllValid
<1>5. user'[s] = v /\ \A t \in Sym : t # s => user'[t] = user[t]
  BY <1>1, <1>2, <1>3 DEF TypeInv
<1>6. ~sym_is_choice_value(s) =>
        /\ NewValue(s)' = v /\ Visibility(s)' = Visibility(s)
        /\ RevDep(s)' = RevDep(s) /\ Written(s)' = Written(s)
  BY <1>1, <1>2, <1>3, <1>5, SetGives DEF CacheInv
<1>7. ASSUME NEW t \in Sym, t # s, \A c \in ChoiceOf(t) : s \notin Members(k, c)
      PROVE  Unmoved(t)
  <2>1. ASSUME NEW c \in ChoiceOf(t), NEW m \in Members(k, c) PROVE user'[m] = user[m]
    <3>1. m \in Sym /\ m # s
      BY <1>3, <1>7, ChoiceOfIs, ChoiceLists
    <3> QED
      BY <1>5, <3>1
  <2> QED
    BY <1>3, <1>5, <1>7, <2>1 DEF Unmoved, Agree
<1>8. TypeInv'
  <2>1. user' \in [Sym -> Tri \cup {NoValue}]
    BY <1>1, <1>2 DEF TypeInv
  <2>2. order' \in [AllChoices' -> Seq(Sym)] /\ \A c \in AllChoices' : Typical(c)'
    BY <1>1, <1>3, ProgramKept DEF TypeInv, Typical
  <2>3. /\ valid' \subseteq Sym /\ clearing' \in BOOLEAN
        /\ clearing' => \A t \in valid' : k'.type[t] = "bool"
        /\ ~clearing' => k'.modules \in valid'
    <3>1. CASE valid' = {} /\ clearing' = TRUE
      BY <3>1
    <3>2. CASE valid' = valid /\ clearing' = clearing
      <4>1. /\ valid \subseteq Sym /\ clearing \in BOOLEAN /\ ~clearing
            /\ k.modules \in valid /\ k' = k
        BY <1>1, <1>3 DEF TypeInv
      <4> QED
        BY <3>2, <4>1
    <3> QED
      BY <1>4, <3>1, <3>2
  <2>4. modules_val' = curr'[k'.modules]
    BY <1>1, <1>3 DEF TypeInv
  <2> QED
    BY <1>1, <1>3, <2>1, <2>2, <2>3, <2>4 DEF TypeInv
<1>9. CacheInv'
  <2>1. CASE valid' = {}
    BY <2>1 DEF CacheInv
  <2>2. CASE valid' = valid /\ v = curr[s]
    <3>1. ASSUME NEW t \in valid', ~sym_is_choice_value(t)' PROVE SymbolInv(t)'
      <4>1. t \in valid /\ t \in Sym /\ ~sym_is_choice_value(t) /\ SymbolInv(t)
        BY <1>1, <1>3, <2>2, <3>1, ProgramKept DEF CacheInv, TypeInv
      <4>2. t # s => Unmoved(t)
        BY <1>7, <4>1 DEF sym_is_choice_value
      <4>3. /\ NewValue(t)' = curr[t] /\ Visibility(t)' = Visibility(t)
            /\ RevDep(t)' = RevDep(t) /\ Written(t)' = Written(t)
        BY <1>1, <1>6, <2>2, <4>1, <4>2, UnmovedKeeps DEF SymbolInv
      <4> QED
        BY <1>3, <2>2, <4>1, <4>3 DEF SymbolInv
    <3>2. ASSUME NEW c \in AllChoices', NEW m \in (Members(k, c) \cap valid)'
          PROVE  MemberInv(c, m)'
      <4>1. /\ c \in AllChoices /\ m \in Members(k, c) /\ m \in valid /\ m \in Sym
            /\ MemberInv(c, m) /\ c \in ChoiceOf(m)
        BY <1>1, <1>3, <2>2, ProgramKept, ChoiceOfIs DEF CacheInv, TypeInv
      <4>2. ChosenOne(c)' = ChosenOne(c)
        <5>1. CASE s \in Members(k, c)
          <6>1. MemberInv(c, s)
            BY <1>1, <4>1, <5>1 DEF CacheInv
          <6>2. v = IF s = ChosenOne(c) THEN yes ELSE no
            BY <2>2, <6>1 DEF MemberInv
          <6> QED
            BY <1>1, <1>2, <1>3, <4>1, <5>1, <6>2, ChosenReset
        <5>2. CASE s \notin Members(k, c)
          <6>1. \A d \in ChoiceOf(m) : d = c
            BY <1>3, <4>1, MembersApart, ChoiceOfIs
          <6>2. Unmoved(m)
            BY <1>7, <4>1, <5>2, <6>1
          <6> QED
            BY <1>1, <4>1, <6>2, UnmovedKeeps
        <5> QED
          BY <5>1, <5>2
      <4>3. Visibility(m)' = Visibility(m)
        BY <1>3, <4>1, VisibilityKept DEF Agree
      <4> QED
        BY <1>3, <2>2, <4>1, <4>2, <4>3 DEF MemberInv
    <3> QED
      BY <3>1, <3>2 DEF CacheInv
  <2> QED
    BY <1>4, <2>1, <2>2
<1>10. StickInv'
  <2>1. CASE sym_is_choice_value(s)
    BY <1>2, <2>1 DEF StickInv
  <2>2. CASE ~sym_is_choice_value(s)
    <3>1. DeepReads(s) \subseteq valid /\ DeepReads(s) \subseteq Sym /\ s \notin DeepReads(s)
      BY <1>1, <1>3, <2>2, ValidClosed, DeepReadsIs DEF Own
    <3>2. ASSUME NEW t \in DeepReads(s) PROVE Fits(t)'
      <4>1. t \in Sym /\ t # s /\ Fits(t)
        BY <1>1, <3>1, ValidClosed
      <4>2. Unmoved(t)
        BY <1>7, <2>2, <4>1, ChoiceOfIs
      <4> QED
        BY <1>1, <1>3, <4>1, <4>2, FitsKept
    <3>3. Gives(s, v)'
      BY <1>3, <1>6, <2>2, ProgramKept DEF Gives
    <3>4. last' = <<s, v>> /\ DeepReads(s)' = DeepReads(s)
      BY <1>2, <1>3, <2>2, ProgramKept
    <3>5. last'[1] = s /\ last'[2] = v
      BY <3>4
    <3> QED
      BY <1>3, <3>2, <3>3, <3>4, <3>5 DEF StickInv
  <2> QED
    BY <2>1, <2>2
<1> QED
  BY <1>8, <1>9, <1>10 DEF CalcInv
LEMMA ChoiceSetStep == CalcInv /\ choice_set_value => CalcInv'
<1> SUFFICES ASSUME CalcInv, choice_set_value PROVE CalcInv'
  OBVIOUS
<1>1. TypeInv /\ CacheInv /\ StickInv
  BY DEF CalcInv
<1> DEFINE SetIn(c) == {m \in Members(k, c) : visible[m] # no}
<1>2. PICK c \in AllChoices, s \in Sym :
        /\ s \in SetIn(c) /\ Members(k, c) \subseteq valid
        /\ user' = [m \in Sym |-> IF m \in SetIn(c) THEN IF m = s THEN yes ELSE no
                                  ELSE user[m]]
        /\ last' = IF Visibility(s) = no THEN None ELSE <<s, yes>>
        /\ IF \E m \in SetIn(c) : Stale(curr[m], IF m = s THEN yes ELSE no)
             THEN sym_clear_all_valid ELSE KeepAllValid
        /\ order' = [order EXCEPT ![c] = Moved(c, SetIn(c))]
  <2>1. PICK c \in AllChoices :
          /\ Members(k, c) \subseteq valid
          /\ \E s \in SetIn(c) :
               /\ user' = [m \in Sym |-> IF m \in SetIn(c) THEN IF m = s THEN yes ELSE no
                                         ELSE user[m]]
               /\ last' = IF Visibility(s) = no THEN None ELSE <<s, yes>>
               /\ IF \E m \in SetIn(c) : Stale(curr[m], IF m = s THEN yes ELSE no)
                    THEN sym_clear_all_valid ELSE KeepAllValid
          /\ order' = [order EXCEPT ![c] = Moved(c, SetIn(c))]
    BY DEF choice_set_value
  <2>2. SetIn(c) \subseteq Sym
    BY <1>1, ChoiceLists DEF TypeInv
  <2> QED
    BY <2>1, <2>2
<1> DEFINE set == SetIn(c)
<1>3. /\ k' = k /\ write' = write /\ curr' = curr /\ visible' = visible
      /\ rev_dep' = rev_dep /\ modules_val' = modules_val
      /\ k \in Kconfigs /\ ~clearing
  BY <1>1 DEF choice_set_value, TypeInv
<1>4. /\ set \subseteq Members(k, c) /\ Members(k, c) \subseteq Sym
      /\ s \in set /\ None \notin Sym /\ Typical(c)
  BY <1>1, <1>2, <1>3, ChoiceLists, NoneAssumption DEF TypeInv
<1>5. \/ valid' = {} /\ clearing' = TRUE
      \/ /\ valid' = valid /\ clearing' = clearing
         /\ \A m \in set : curr[m] = IF m = s THEN yes ELSE no
  BY <1>2 DEF Stale, sym_clear_all_valid, KeepAllValid
<1>6. /\ user'[s] = yes
      /\ \A m \in set : m # s => user'[m] = no
      /\ \A m \in Sym : m \notin Members(k, c) => user'[m] = user[m]
  BY <1>2, <1>4
<1>7. Moved(c, set) \in Seq(Sym) /\ ToSet(Moved(c, set)) = Members(k, c)
  <2> HIDE DEF set
  <2> QED BY <1>3, <1>4, MovedSet
<1>8. /\ order'[c] = Moved(c, set) /\ order' \in [AllChoices -> Seq(Sym)]
      /\ \A d \in AllChoices : d # c => order'[d] = order[d]
  BY <1>1, <1>2, <1>7 DEF TypeInv
<1>9. Visibility(s) # no => ChosenOne(c)' = s
  <2>1. ASSUME NEW m \in Members(k, c), m # s, Visibility(m) # no PROVE user'[m] = no
    <3>1. visible[m] # no
      BY <1>1, <1>2, <2>1 DEF CacheInv, MemberInv
    <3> QED
      BY <1>6, <2>1, <3>1
  <2> QED
    BY <1>1, <1>3, <1>4, <1>6, <1>7, <1>8, <2>1, ChosenSet DEF yes, no
<1>10. ASSUME NEW t \in Sym, t \notin Members(k, c) PROVE Unmoved(t)
  <2>1. ASSUME NEW d \in ChoiceOf(t)
        PROVE  order'[d] = order[d] /\ \A m \in Members(k, d) : user'[m] = user[m]
    <3>1. d \in AllChoices /\ d # c
      BY <1>10, ChoiceOfIs
    <3>2. \A m \in Members(k, d) : m \in Sym /\ m \notin Members(k, c)
      BY <1>3, <3>1, MembersApart
    <3> QED
      BY <1>6, <1>8, <3>1, <3>2
  <2> QED
    BY <1>3, <1>6, <1>10, <2>1 DEF Unmoved, Agree
<1>11. TypeInv'
  <2>1. user' \in [Sym -> Tri \cup {NoValue}]
    <3>1. \A m \in Sym : user'[m] \in Tri \cup {NoValue}
      BY <1>1, <1>2 DEF TypeInv, Tri, yes, no
    <3> QED
      BY <1>2, <3>1
  <2>2. \A d \in AllChoices : order'[d] \in Seq(Sym) /\ ToSet(order'[d]) = Members(k, d)
    BY <1>1, <1>7, <1>8 DEF TypeInv, Typical
  <2>3. order' \in [AllChoices' -> Seq(Sym)] /\ \A d \in AllChoices' : Typical(d)'
    BY <1>3, <1>8, <2>2, ProgramKept DEF Typical
  <2>4. /\ valid' \subseteq Sym /\ clearing' \in BOOLEAN
        /\ clearing' => \A t \in valid' : k'.type[t] = "bool"
        /\ ~clearing' => k'.modules \in valid'
    <3>1. CASE valid' = {} /\ clearing' = TRUE
      BY <3>1
    <3>2. CASE valid' = valid /\ clearing' = clearing
      <4>1. /\ valid \subseteq Sym /\ clearing \in BOOLEAN /\ ~clearing
            /\ k.modules \in valid /\ k' = k
        BY <1>1, <1>3 DEF TypeInv
      <4> QED
        BY <3>2, <4>1
    <3> QED
      BY <1>5, <3>1, <3>2
  <2>5. modules_val' = curr'[k'.modules]
    BY <1>1, <1>3 DEF TypeInv
  <2> QED
    BY <1>1, <1>3, <2>1, <2>3, <2>4, <2>5 DEF TypeInv
<1>12. CacheInv'
  <2>1. CASE valid' = {}
    BY <2>1 DEF CacheInv
  <2>2. CASE valid' = valid /\ \A m \in set : curr[m] = IF m = s THEN yes ELSE no
    <3>1. ASSUME NEW t \in valid', ~sym_is_choice_value(t)' PROVE SymbolInv(t)'
      <4>1. t \in valid /\ t \in Sym /\ ~sym_is_choice_value(t) /\ SymbolInv(t)
        BY <1>1, <1>3, <2>2, <3>1, ProgramKept DEF CacheInv, TypeInv
      <4>2. Unmoved(t)
        BY <1>10, <4>1, ChoiceOfIs
      <4>3. /\ NewValue(t)' = NewValue(t) /\ Visibility(t)' = Visibility(t)
            /\ RevDep(t)' = RevDep(t) /\ Written(t)' = Written(t)
        BY <1>1, <4>1, <4>2, UnmovedKeeps
      <4> QED
        BY <1>3, <2>2, <4>1, <4>3 DEF SymbolInv
    <3>2. ASSUME NEW d \in AllChoices', NEW m \in (Members(k, d) \cap valid)'
          PROVE  MemberInv(d, m)'
      <4>1. /\ d \in AllChoices /\ m \in Members(k, d) /\ m \in valid /\ m \in Sym
            /\ MemberInv(d, m) /\ d \in ChoiceOf(m)
        BY <1>1, <1>3, <2>2, ProgramKept, ChoiceOfIs DEF CacheInv, TypeInv
      <4>2. ChosenOne(d)' = ChosenOne(d)
        <5>1. CASE d = c
          <6>1. curr[s] = yes /\ MemberInv(c, s)
            BY <1>1, <1>2, <1>4, <2>2 DEF CacheInv
          <6>2. s = ChosenOne(c)
            BY <6>1 DEF MemberInv, yes, no
          <6>3. Fresh[s] # no
            BY <1>3, <1>4, <6>2, ChosenVisible DEF ChosenOne
          <6>4. Visibility(s) # no
            BY <1>4, <6>3 DEF Fresh
          <6> QED
            BY <1>9, <5>1, <6>2, <6>4
        <5>2. CASE d # c
          <6>1. m \notin Members(k, c)
            BY <1>3, <4>1, <5>2, MembersApart
          <6> QED
            BY <1>1, <1>10, <4>1, <6>1, UnmovedKeeps
        <5> QED
          BY <5>1, <5>2
      <4>3. Visibility(m)' = Visibility(m)
        BY <1>3, <4>1, VisibilityKept DEF Agree
      <4> QED
        BY <1>3, <2>2, <4>1, <4>2, <4>3 DEF MemberInv
    <3> QED
      BY <3>1, <3>2 DEF CacheInv
  <2> QED
    BY <1>5, <2>1, <2>2
<1>13. StickInv'
  <2>1. CASE Visibility(s) = no
    BY <1>2, <2>1 DEF StickInv
  <2>2. CASE Visibility(s) # no
    <3>1. s \in valid /\ c \in ChoiceOf(s) /\ sym_is_choice_value(s) /\ s \in Sym
      BY <1>2, <1>4, ChoiceOfIs
    <3>2. Members(k, c) \subseteq Own(s)
      <4>1. ASSUME NEW m \in Members(k, c) PROVE ChoiceOf(m) = ChoiceOf(s) /\ m \in Sym
        BY <1>3, <1>4, ChoiceOfIs, MembersApart
      <4> QED
        BY <3>1, <4>1 DEF Own
    <3>3. /\ DeepReads(s) \subseteq valid /\ DeepReads(s) \subseteq Sym
          /\ Members(k, c) \cap DeepReads(s) = {}
      BY <1>1, <1>3, <3>1, <3>2, ValidClosed, DeepReadsIs
    <3>4. ASSUME NEW t \in DeepReads(s) PROVE Fits(t)'
      <4>1. t \in Sym /\ t \notin Members(k, c) /\ Fits(t)
        BY <1>1, <3>3, ValidClosed
      <4> QED
        BY <1>1, <1>3, <1>10, <4>1, FitsKept
    <3>5. Gives(s, yes)'
      <4>1. \A d \in ChoiceOf(s) : d = c
        BY <1>3, <1>4, ChoiceOfIs, MembersApart
      <4> QED
        BY <1>3, <1>9, <2>2, <3>1, <4>1, ProgramKept DEF Gives
    <3>6. last' = <<s, yes>> /\ DeepReads(s)' = DeepReads(s)
      BY <1>2, <1>3, <2>2, ProgramKept
    <3>7. last'[1] = s /\ last'[2] = yes
      BY <3>6
    <3> QED
      BY <3>1, <3>4, <3>5, <3>6, <3>7 DEF StickInv
  <2> QED
    BY <2>1, <2>2
<1> QED
  BY <1>11, <1>12, <1>13 DEF CalcInv

\* A file starts anew.
LEMMA LoadStep ==
  ASSUME TypeInv, NEW lines \in [Sym -> Tri \cup {NoValue}], Load(lines), InMenuOrder(lines)
  PROVE  CalcInv'
<1>1. /\ k' = k /\ k \in Kconfigs /\ user' = lines /\ valid' = {} /\ clearing' = TRUE
      /\ last' = None /\ curr' = curr /\ visible' = visible /\ rev_dep' = rev_dep
      /\ modules_val' = modules_val
  BY DEF Load, TypeInv
<1> DEFINE ms == {m \in Sym : lines[m] # NoValue}
<1>2. \A c \in AllChoices : Moved(c, ms) \in Seq(Sym) /\ ToSet(Moved(c, ms)) = Members(k, c)
  <2> HIDE DEF ms
  <2> QED BY <1>1, MovedSet DEF TypeInv
<1>3. order' = [c \in AllChoices |-> Moved(c, ms)]
  BY DEF InMenuOrder
<1>4. /\ order' \in [AllChoices -> Seq(Sym)]
      /\ \A c \in AllChoices : ToSet(order'[c]) = Members(k, c)
  <2> HIDE DEF ms
  <2> QED BY <1>2, <1>3
<1>5. order' \in [AllChoices' -> Seq(Sym)] /\ \A c \in AllChoices' : Typical(c)'
  BY <1>1, <1>4, ProgramKept DEF Typical
<1>6. TypeInv'
  BY <1>1, <1>5 DEF TypeInv
<1> QED
  BY <1>1, <1>6 DEF CalcInv, CacheInv, StickInv

LEMMA ReadSteps ==
  CalcInv /\ (conf_read \/ conf_write_and_read \/ conf_write_defconfig_and_read) => CalcInv'
<1>1. ASSUME CalcInv, conf_read PROVE CalcInv'
  BY <1>1, LoadStep DEF conf_read, CalcInv
<1>2. ASSUME CalcInv, conf_write_and_read PROVE CalcInv'
  <2> DEFINE lines == [s \in Sym |-> IF s \in write THEN curr[s] ELSE NoValue]
  <2>1. lines \in [Sym -> Tri \cup {NoValue}] /\ TypeInv
    BY <1>2 DEF CalcInv, TypeInv
  <2>2. Load(lines) /\ InMenuOrder(lines)
    BY <1>2 DEF conf_write_and_read
  <2> HIDE DEF lines
  <2> QED
    BY <2>1, <2>2, LoadStep
<1>3. ASSUME CalcInv, conf_write_defconfig_and_read PROVE CalcInv'
  <2> DEFINE lines == [s \in Sym |-> IF s \in Minimal THEN curr[s] ELSE NoValue]
  <2>1. lines \in [Sym -> Tri \cup {NoValue}] /\ TypeInv
    BY <1>3 DEF CalcInv, TypeInv
  <2>2. Load(lines) /\ InMenuOrder(lines)
    BY <1>3 DEF conf_write_defconfig_and_read
  <2> HIDE DEF lines
  <2> QED
    BY <2>1, <2>2, LoadStep
<1> QED
  BY <1>1, <1>2, <1>3

LEMMA CalcStutters == CalcInv /\ UNCHANGED vars => CalcInv'
<1> SUFFICES ASSUME CalcInv, UNCHANGED vars PROVE CalcInv'
  OBVIOUS
<1>1. TypeInv /\ CacheInv /\ StickInv
  BY DEF CalcInv
<1>2. /\ k' = k /\ user' = user /\ order' = order /\ curr' = curr /\ valid' = valid
      /\ visible' = visible /\ rev_dep' = rev_dep /\ write' = write
      /\ modules_val' = modules_val /\ clearing' = clearing /\ last' = last
  BY DEF vars, values
<1>3. \A s : Unmoved(s)
  BY <1>2 DEF Unmoved, Agree
<1>4. TypeInv'
  BY <1>1, <1>2 DEF TypeInv, Typical, AllChoices
<1>5. ASSUME NEW t \in valid', ~sym_is_choice_value(t)' PROVE SymbolInv(t)'
  <2>1. t \in Sym /\ ~sym_is_choice_value(t) /\ SymbolInv(t)
    BY <1>1, <1>2, <1>5, ProgramKept DEF CacheInv, TypeInv
  <2>2. /\ NewValue(t)' = NewValue(t) /\ Visibility(t)' = Visibility(t)
        /\ RevDep(t)' = RevDep(t) /\ Written(t)' = Written(t)
    BY <1>1, <1>3, <2>1, UnmovedKeeps
  <2> QED
    BY <1>2, <2>1, <2>2 DEF SymbolInv
<1>6. ASSUME NEW c \in AllChoices', NEW m \in (Members(k, c) \cap valid)' PROVE MemberInv(c, m)'
  <2>1. m \in Sym /\ MemberInv(c, m) /\ c \in ChoiceOf(m)
    BY <1>1, <1>2, ProgramKept, ChoiceOfIs DEF CacheInv, TypeInv
  <2>2. ChosenOne(c)' = ChosenOne(c) /\ Visibility(m)' = Visibility(m)
    BY <1>1, <1>3, <2>1, UnmovedKeeps
  <2> QED
    BY <1>2, <2>1, <2>2 DEF MemberInv
<1>7. CacheInv'
  BY <1>5, <1>6 DEF CacheInv
<1>8. StickInv'
  <2>1. modules_val' = curr'[k.modules]
    BY <1>1, <1>2 DEF TypeInv
  <2> QED
    BY <1>1, <1>2, <2>1, StickKept DEF Agree
<1> QED
  BY <1>4, <1>7, <1>8 DEF CalcInv

----------------------------------------------------------------------------
(* The theorems. *)

\* The invariant: what is cached is what computing it would give, and the
\* values that the symbol set last depends on do not change while the cache is
\* filled again.
THEOREM CalcInvariant == Spec => []CalcInv
<1>1. Init => CalcInv
  BY InitCalc
<1>2. CalcInv /\ [Next]_vars => CalcInv'
  BY CalcValueStep, CalcChoiceStep, SetStep, ChoiceSetStep, ReadSteps, CalcStutters DEF Next
<1> QED
  BY <1>1, <1>2, PTL DEF Spec

\* sym_calc_value() leaves out the symbols with SYMBOL_VALID: their values,
\* visibilities and limits are what it would compute, for every program and
\* after every sequence of changes, although a symbol set to the value it has
\* leaves the flags alone (symbol.c, sym_set_tristate_value()).
THEOREM CacheIsCoherent == Spec => []CacheCoherent
<1>1. CalcInv => CacheCoherent
  <2> SUFFICES ASSUME CalcInv, NEW s \in Sym, Settled(s), ~sym_is_choice_value(s)
               PROVE  /\ curr[s] = NewValue(s)
                      /\ visible[s] = Visibility(s) /\ rev_dep[s] = RevDep(s)
                      /\ s \in write <=> Written(s)
    BY DEF CacheCoherent
  <2> QED
    BY DEF CalcInv, CacheInv, SymbolInv, Settled
<1> QED
  BY <1>1, CalcInvariant, PTL

\* Of the members of a choice that have a value exactly the one sym_calc_choice()
\* chooses has "y", although it stops looking at the visibility of the members
\* at the first "y" of the user (symbol.c, sym_calc_choice()).
THEOREM ChoiceIsCoherent == Spec => []ChoiceCoherent
<1>1. CalcInv => ChoiceCoherent
  <2> SUFFICES ASSUME CalcInv, NEW c \in AllChoices, Members(k, c) \subseteq valid,
                      NEW m \in Members(k, c)
               PROVE  curr[m] = yes <=> m = Chosen(c, [t \in Sym |-> Visibility(t)])
    BY DEF ChoiceCoherent
  <2>1. curr[m] = IF m = ChosenOne(c) THEN yes ELSE no
    BY DEF CalcInv, CacheInv, MemberInv
  <2> QED
    BY <2>1 DEF ChosenOne, Fresh, yes, no
<1> QED
  BY <1>1, CalcInvariant, PTL

\* A value that sym_set_tristate_value() or choice_set_value() has accepted is
\* the value the symbol gets: neither what selects or limits it nor the mode
\* is another one after the symbols are computed anew.
THEOREM AcceptedValueSticks == Spec => []SetSticks
<1>1. CalcInv => SetSticks
  <2> SUFFICES ASSUME CalcInv, last # None, Settled(last[1])
               PROVE  curr[last[1]] = last[2]
    BY DEF SetSticks
  <2>1. last[1] \in valid /\ Gives(last[1], last[2]) /\ Fits(last[1])
    BY ValidClosed DEF CalcInv, StickInv, Settled
  <2> QED
    BY <2>1 DEF Gives, Fits, sym_is_choice_value
<1> QED
  BY <1>1, CalcInvariant, PTL
=============================================================================
