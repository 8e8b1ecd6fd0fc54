--------------------------- MODULE ApplyFixProofs ---------------------------
(****************************************************************************)
(* Proofs about apply_fix(), for every program whose prompts depend on      *)
(* other symbols and their negations without alternatives, every number of  *)
(* symbols, every solution and every order of its list.                     *)
(*                                                                          *)
(* The heart is that each value that is set moves no symbol away from what  *)
(* it has in the solution: what has been reached is kept, and the first     *)
(* symbol of the list in the order of the dependencies can be set in each   *)
(* round.                                                                   *)
(****************************************************************************)
EXTENDS ApplyFix, FiniteSetTheorems, WellFoundedInduction, TLAPS

----------------------------------------------------------------------------
(* Numbers and conditions. *)

\* The smallest element of a set of numbers.
LEMMA Smallest ==
  ASSUME NEW T, T \subseteq Nat, T # {}
  PROVE  \E n \in T : \A m \in T : n <= m
<1>1. PICK n \in T : \A m \in T : <<m, n>> \notin OpToRel(<, Nat)
  BY NatLessThanWellFounded, WFMin
<1>2. ASSUME NEW m \in T PROVE n <= m
  <2>1. m \in Nat /\ n \in Nat
    OBVIOUS
  <2>2. m < n => <<m, n>> \in OpToRel(<, Nat)
    BY <2>1 DEF OpToRel
  <2>3. <<m, n>> \notin OpToRel(<, Nat)
    BY <1>1
  <2>4. ~(m < n)
    BY <2>2, <2>3
  <2> QED
    BY ONLY <2>1, <2>4
<1> QED
  BY <1>2

\* b is on the way from a to c.
Toward(a, b, c) == (a <= b /\ b <= c) \/ (c <= b /\ b <= a)

LEMMA TowardTri ==
  ASSUME NEW a \in Tri, NEW b \in Tri, NEW c \in Tri, NEW d \in Tri
  PROVE  /\ Toward(a, a, c)
         /\ Toward(c, b, c) => b = c
         /\ Toward(a, b, d) /\ Toward(b, c, d) => Toward(a, c, d)
  BY DEF Toward, Tri

LEMMA LeastIs ==
  ASSUME NEW V \in SUBSET Tri
  PROVE  /\ Least(V) \in Tri
         /\ \A b \in V : Least(V) <= b
         /\ Least(V) = yes \/ Least(V) \in V
<1>1. \E a \in Tri : (\A b \in V : a <= b) /\ (a = yes \/ a \in V)
  <2>1. CASE 0 \in V
    BY <2>1 DEF Tri, yes
  <2>2. CASE 0 \notin V /\ 1 \in V
    BY <2>2 DEF Tri, yes
  <2>3. CASE 0 \notin V /\ 1 \notin V
    BY <2>3 DEF Tri, yes
  <2> QED
    BY <2>1, <2>2, <2>3
<1> QED
  BY <1>1 DEF Least

LEMMA GreatestOfOne == ASSUME NEW a \in Tri PROVE Greatest({a}) = a
<1>1. (\A b \in {a} : b <= a) /\ (a = no \/ a \in {a})
  BY DEF Tri
<1>2. ASSUME NEW c \in Tri, \A b \in {a} : b <= c, c = no \/ c \in {a} PROVE c = a
  BY <1>2 DEF Tri, no
<1> QED
  BY <1>1, <1>2 DEF Greatest

\* Without terms a condition is "n".
LEMMA NothingIsNo == ASSUME NEW v PROVE expr_calc_value({}, v) = no
<1>1. Greatest({}) = no
  BY DEF Greatest, Tri, no
<1> QED
  BY <1>1 DEF expr_calc_value

Literals == Sym \X {Is, IsNot}
LitValue(l, v) == l[2][v[l[1]]]

\* A condition of one term is the least of its literals.
LEMMA TermIs ==
  ASSUME NEW t \in SUBSET Literals, NEW v \in [Sym -> Tri]
  PROVE  /\ expr_calc_value({t}, v) \in Tri
         /\ \A l \in t : expr_calc_value({t}, v) <= LitValue(l, v)
         /\ \/ expr_calc_value({t}, v) = yes
            \/ \E l \in t : expr_calc_value({t}, v) = LitValue(l, v)
<1> DEFINE V == {l[2][v[l[1]]] : l \in t}
<1>1. V \in SUBSET Tri
  BY DEF Literals, Is, IsNot, Not, Tri
<1>2. {Term(x, v) : x \in {t}} = {Least(V)}
  BY DEF Term
<1>3. Least(V) \in Tri /\ (\A b \in V : Least(V) <= b) /\ (Least(V) = yes \/ Least(V) \in V)
  BY <1>1, LeastIs
<1>4. expr_calc_value({t}, v) = Least(V)
  BY <1>2, <1>3, GreatestOfOne DEF expr_calc_value
<1> HIDE DEF V
<1>5. \A l \in t : LitValue(l, v) \in V
  BY DEF V, LitValue
<1>6. \A b \in V : \E l \in t : b = LitValue(l, v)
  BY DEF V, LitValue
<1> QED
  BY <1>3, <1>4, <1>5, <1>6

----------------------------------------------------------------------------
(* The rules of a conjunctive program. *)

LitsOf(p, s) == UNION p.prompt[s]
Lit(p, v, s, l) == PromotedIn(p, v, s, LitValue(l, v))

\* Two configurations have the same type for each symbol.
SameTypes(p, v, w) == v[p.modules] = w[p.modules]

LEMMA PromotedIs ==
  ASSUME NEW p, NEW v, NEW s, NEW a \in Tri, NEW b \in Tri
  PROVE  /\ PromotedIn(p, v, s, a) \in Tri
         /\ a <= b => PromotedIn(p, v, s, a) <= PromotedIn(p, v, s, b)
         /\ PromotedIn(p, v, s, no) = no /\ PromotedIn(p, v, s, yes) = yes
         /\ PromotedIn(p, v, s, PromotedIn(p, v, s, a)) = PromotedIn(p, v, s, a)
         /\ And(a, b) \in {a, b} /\ And(a, b) <= a /\ And(a, b) <= b
  BY DEF PromotedIn, Tri, no, mod, yes, And

\* The literals of a prompt.
LEMMA LitsAre ==
  ASSUME NEW p, Conjunctive(p), NEW s \in PromptsOf(p)
  PROVE  /\ LitsOf(p, s) \in SUBSET Literals
         /\ p.prompt[s] = {LitsOf(p, s)}
         /\ Reads(p.prompt[s]) = {l[1] : l \in LitsOf(p, s)}
<1>1. PICK t \in SUBSET Literals : p.prompt[s] = {t}
  BY DEF Conjunctive, Literals
<1>2. LitsOf(p, s) = t
  BY <1>1 DEF LitsOf
<1>3. Reads({t}) = {l[1] : l \in t}
  BY DEF Reads
<1> QED
  BY <1>1, <1>2, <1>3

LEMMA LitIs ==
  ASSUME NEW p, NEW s, NEW v \in [Sym -> Tri], NEW l \in Literals
  PROVE  Lit(p, v, s, l) \in Tri /\ LitValue(l, v) \in Tri
<1>1. LitValue(l, v) \in Tri
  BY DEF Literals, LitValue, Is, IsNot, Not, Tri
<1> QED
  BY <1>1, PromotedIs DEF Lit

\* A prompt is as visible as the least of its literals.
LEMMA VisibilityIs ==
  ASSUME NEW p, Conjunctive(p), NEW s \in PromptsOf(p), NEW v \in [Sym -> Tri]
  PROVE  /\ VisibilityIn(p, v, s) \in Tri
         /\ PromotedIn(p, v, s, VisibilityIn(p, v, s)) = VisibilityIn(p, v, s)
         /\ \A l \in LitsOf(p, s) : VisibilityIn(p, v, s) <= Lit(p, v, s, l)
         /\ \/ VisibilityIn(p, v, s) = yes
            \/ \E l \in LitsOf(p, s) : VisibilityIn(p, v, s) = Lit(p, v, s, l)
<1> DEFINE e == expr_calc_value(p.prompt[s], v)
<1>1. /\ e \in Tri
      /\ \A l \in LitsOf(p, s) : e <= LitValue(l, v)
      /\ e = yes \/ \E l \in LitsOf(p, s) : e = LitValue(l, v)
  <2>1. LitsOf(p, s) \in SUBSET Literals /\ p.prompt[s] = {LitsOf(p, s)}
    BY LitsAre
  <2>2. e = expr_calc_value({LitsOf(p, s)}, v)
    BY <2>1
  <2> HIDE DEF e
  <2> QED
    BY <2>1, <2>2, TermIs
<1>2. VisibilityIn(p, v, s) = PromotedIn(p, v, s, e)
  BY DEF VisibilityIn
<1> HIDE DEF e
<1>3. ASSUME NEW l \in LitsOf(p, s) PROVE PromotedIn(p, v, s, e) <= Lit(p, v, s, l)
  <2>1. LitValue(l, v) \in Tri /\ e <= LitValue(l, v)
    BY <1>1, LitsAre, LitIs
  <2> QED
    BY <1>1, <2>1, PromotedIs DEF Lit
<1>4. \/ PromotedIn(p, v, s, e) = yes
      \/ \E l \in LitsOf(p, s) : PromotedIn(p, v, s, e) = Lit(p, v, s, l)
  BY <1>1, PromotedIs DEF Lit, yes, Tri
<1> QED
  BY <1>1, <1>2, <1>3, <1>4, PromotedIs

\* A literal follows its symbol.
LEMMA LitToward ==
  ASSUME NEW p, NEW s, NEW l \in Literals,
         NEW v \in [Sym -> Tri], NEW w \in [Sym -> Tri], NEW g \in [Sym -> Tri],
         SameTypes(p, v, g), SameTypes(p, w, g), Toward(v[l[1]], w[l[1]], g[l[1]])
  PROVE  Toward(Lit(p, v, s, l), Lit(p, w, s, l), Lit(p, g, s, l))
<1>1. v[l[1]] \in Tri /\ w[l[1]] \in Tri /\ g[l[1]] \in Tri
  BY DEF Literals
<1>2. Toward(LitValue(l, v), LitValue(l, w), LitValue(l, g))
  <2>1. CASE l[2] = Is
    BY <1>1, <2>1 DEF LitValue, Toward, Is
  <2>2. CASE l[2] = IsNot
    BY <1>1, <2>2 DEF LitValue, Toward, IsNot, Not, Tri
  <2> QED
    BY <2>1, <2>2 DEF Literals
<1>3. LitValue(l, v) \in Tri /\ LitValue(l, w) \in Tri /\ LitValue(l, g) \in Tri
  BY LitIs
<1>4. \A a : PromotedIn(p, v, s, a) = PromotedIn(p, g, s, a)
             /\ PromotedIn(p, w, s, a) = PromotedIn(p, g, s, a)
  BY DEF SameTypes, PromotedIn
<1> QED
  BY <1>2, <1>3, <1>4, PromotedIs DEF Lit, Toward

----------------------------------------------------------------------------
(* One symbol on the way to the solution. *)

\* What has been entered, u, is the value, or limited to what can still be
\* seen: by the value of the solution, or by a literal that only falls.
Fine(p, u, w, g, s) ==
  \/ u = NoValue \/ u <= w[s] \/ u <= g[s]
  \/ \E l \in LitsOf(p, s) : /\ Lit(p, w, s, l) <= w[s] \/ Lit(p, w, s, l) <= g[s]
                             /\ Lit(p, g, s, l) <= Lit(p, w, s, l)

\* The value of a symbol of which u has been entered, and is a value that it
\* can have.
Limited(p, u, w, s) == IF u = NoValue THEN no ELSE And(u, VisibilityIn(p, w, s))

LEMMA EnteredIs ==
  ASSUME NEW p, Conjunctive(p), NEW s \in PromptsOf(p), NEW w \in [Sym -> Tri],
         NEW u, u[s] \in Tri \cup {NoValue}
  PROVE  /\ EnteredIn(p, u, w, s) \in Tri
         /\ EnteredIn(p, u, w, s) <= VisibilityIn(p, w, s)
         /\ PromotedIn(p, w, s, EnteredIn(p, u, w, s)) = EnteredIn(p, u, w, s)
         /\ u[s] = NoValue \/ PromotedIn(p, w, s, u[s]) = u[s]
              => EnteredIn(p, u, w, s) = Limited(p, u[s], w, s)
<1> DEFINE vis == VisibilityIn(p, w, s)
<1>1. vis \in Tri /\ PromotedIn(p, w, s, vis) = vis
  BY VisibilityIs
<1>2. EnteredIn(p, u, w, s) =
        IF vis # no /\ u[s] # NoValue THEN PromotedIn(p, w, s, And(u[s], vis)) ELSE no
  BY DEF EnteredIn
<1>3. Limited(p, u[s], w, s) = IF u[s] = NoValue THEN no ELSE And(u[s], vis)
  BY DEF Limited
<1> HIDE DEF vis
<1>4. CASE vis = no \/ u[s] = NoValue
  <2>1. EnteredIn(p, u, w, s) = no
    BY <1>2, <1>4
  <2>2. u[s] # NoValue => And(u[s], no) = no
    BY DEF And, no, Tri
  <2> QED
    BY <1>1, <1>3, <1>4, <2>1, <2>2, PromotedIs DEF no, Tri, vis
<1>5. CASE vis # no /\ u[s] # NoValue
  <2>1. u[s] \in Tri
    BY <1>5
  <2>2. And(u[s], vis) \in Tri /\ And(u[s], vis) <= vis /\ And(u[s], vis) \in {u[s], vis}
    BY <1>1, <2>1, PromotedIs
  <2>3. EnteredIn(p, u, w, s) = PromotedIn(p, w, s, And(u[s], vis))
    BY <1>2, <1>5
  <2>4. PromotedIn(p, w, s, And(u[s], vis)) \in Tri
    BY <2>2, PromotedIs
  <2>5. PromotedIn(p, w, s, And(u[s], vis)) <= vis
    BY <1>1, <2>2, PromotedIs
  <2>6. PromotedIn(p, w, s, PromotedIn(p, w, s, And(u[s], vis))) = PromotedIn(p, w, s, And(u[s], vis))
    BY <2>2, PromotedIs
  <2>7. PromotedIn(p, w, s, u[s]) = u[s] => PromotedIn(p, w, s, And(u[s], vis)) = And(u[s], vis)
    BY <1>1, <2>2
  <2> QED
    BY <1>3, <1>5, <2>3, <2>4, <2>5, <2>6, <2>7 DEF vis
<1> QED
  BY <1>4, <1>5

\* The prompt is at least as visible on the way as at one of the ends.
LEMMA VisibilityBetween ==
  ASSUME NEW p, Conjunctive(p), NEW s \in PromptsOf(p),
         NEW w \in [Sym -> Tri], NEW x \in [Sym -> Tri], NEW g \in [Sym -> Tri],
         SameTypes(p, w, g), SameTypes(p, x, g),
         \A z \in Reads(p.prompt[s]) : Toward(w[z], x[z], g[z])
  PROVE  /\ \A l \in LitsOf(p, s) : Toward(Lit(p, w, s, l), Lit(p, x, s, l), Lit(p, g, s, l))
         /\ \/ VisibilityIn(p, w, s) <= VisibilityIn(p, x, s)
            \/ VisibilityIn(p, g, s) <= VisibilityIn(p, x, s)
<1>1. ASSUME NEW l \in LitsOf(p, s)
      PROVE  /\ l \in Literals
             /\ Toward(Lit(p, w, s, l), Lit(p, x, s, l), Lit(p, g, s, l))
  <2>1. LitsOf(p, s) \in SUBSET Literals /\ Reads(p.prompt[s]) = {m[1] : m \in LitsOf(p, s)}
    BY LitsAre
  <2>2. l \in Literals /\ l[1] \in Reads(p.prompt[s])
    BY <2>1
  <2> QED
    BY <2>2, LitToward
<1>2. VisibilityIn(p, x, s) = yes => VisibilityIn(p, w, s) <= VisibilityIn(p, x, s)
  <2>1. VisibilityIn(p, w, s) \in Tri
    BY VisibilityIs
  <2> QED
    BY <2>1 DEF yes, Tri
<1>3. ASSUME NEW l \in LitsOf(p, s), VisibilityIn(p, x, s) = Lit(p, x, s, l)
      PROVE  \/ VisibilityIn(p, w, s) <= VisibilityIn(p, x, s)
             \/ VisibilityIn(p, g, s) <= VisibilityIn(p, x, s)
  <2>1. VisibilityIn(p, w, s) <= Lit(p, w, s, l) /\ VisibilityIn(p, g, s) <= Lit(p, g, s, l)
    BY VisibilityIs
  <2>2. /\ VisibilityIn(p, w, s) \in Tri /\ VisibilityIn(p, g, s) \in Tri
        /\ Lit(p, w, s, l) \in Tri /\ Lit(p, x, s, l) \in Tri /\ Lit(p, g, s, l) \in Tri
    BY <1>1, VisibilityIs, LitIs
  <2>3. Toward(Lit(p, w, s, l), Lit(p, x, s, l), Lit(p, g, s, l))
    BY <1>1
  <2> QED
    BY <1>3, <2>1, <2>2, <2>3 DEF Toward, Tri
<1> QED
  BY <1>1, <1>2, <1>3, VisibilityIs

\* A symbol that is not set itself: its value falls or rises toward the
\* solution, as what it depends on does.
LEMMA Follows ==
  ASSUME NEW p, Conjunctive(p), NEW s \in PromptsOf(p),
         NEW w \in [Sym -> Tri], NEW x \in [Sym -> Tri], NEW g \in [Sym -> Tri],
         SameTypes(p, w, g), SameTypes(p, x, g),
         \A z \in Reads(p.prompt[s]) : Toward(w[z], x[z], g[z]),
         g[s] <= VisibilityIn(p, g, s),
         NEW u \in Tri \cup {NoValue}, w[s] = Limited(p, u, w, s), x[s] = Limited(p, u, x, s),
         Fine(p, u, w, g, s)
  PROVE  Toward(w[s], x[s], g[s]) /\ Fine(p, u, x, g, s)
<1>1. s \in Sym /\ w[s] \in Tri /\ x[s] \in Tri /\ g[s] \in Tri
  BY DEF PromptsOf
<1>2. CASE u = NoValue
  BY <1>1, <1>2 DEF Limited, Fine, Toward, no, Tri
<1>3. CASE u # NoValue
  <2> DEFINE vw == VisibilityIn(p, w, s)
             vx == VisibilityIn(p, x, s)
             vg == VisibilityIn(p, g, s)
  <2>1. /\ u \in Tri /\ vw \in Tri /\ vx \in Tri /\ vg \in Tri
        /\ w[s] = And(u, vw) /\ x[s] = And(u, vx)
        /\ vw <= vx \/ vg <= vx
        /\ g[s] <= vg
    BY <1>3, VisibilityIs, VisibilityBetween DEF Limited
  <2>2. \A l \in LitsOf(p, s) :
          /\ vw <= Lit(p, w, s, l) /\ vx <= Lit(p, x, s, l)
          /\ Lit(p, w, s, l) \in Tri /\ Lit(p, x, s, l) \in Tri /\ Lit(p, g, s, l) \in Tri
          /\ Toward(Lit(p, w, s, l), Lit(p, x, s, l), Lit(p, g, s, l))
    BY VisibilityIs, VisibilityBetween, LitsAre, LitIs
  <2>3. vx = yes \/ \E l \in LitsOf(p, s) : vx = Lit(p, x, s, l)
    BY VisibilityIs
  <2> HIDE DEF vw, vx, vg
  <2>4. Toward(w[s], x[s], g[s])
    <3>1. CASE u <= w[s] \/ u <= g[s]
      BY <1>1, <2>1, <3>1 DEF And, Toward, Tri
    <3>2. ASSUME NEW l \in LitsOf(p, s),
                 Lit(p, w, s, l) <= w[s] \/ Lit(p, w, s, l) <= g[s],
                 Lit(p, g, s, l) <= Lit(p, w, s, l)
          PROVE  Toward(w[s], x[s], g[s])
      BY <1>1, <2>1, <2>2, <3>2 DEF And, Toward, Tri
    <3> QED
      BY <1>3, <3>1, <3>2 DEF Fine
  <2>5. Fine(p, u, x, g, s)
    <3>1. CASE u <= x[s] \/ u <= g[s]
      BY <3>1 DEF Fine
    <3>2. CASE ~(u <= x[s]) /\ ~(u <= g[s])
      <4>1. vx # yes /\ x[s] = vx
        BY <1>1, <2>1, <3>2 DEF And, Tri, yes
      <4>2. PICK m \in LitsOf(p, s) : vx = Lit(p, x, s, m)
        BY <2>3, <4>1
      <4>3. CASE Lit(p, g, s, m) <= Lit(p, x, s, m)
        BY <1>1, <4>1, <4>2, <4>3 DEF Fine, Tri
      <4>4. CASE ~(Lit(p, g, s, m) <= Lit(p, x, s, m))
        <5>1. Lit(p, w, s, m) <= Lit(p, x, s, m)
          BY <2>2, <4>4 DEF Toward, Tri
        <5>2. w[s] <= x[s] /\ ~(u <= w[s])
          BY <1>1, <2>1, <2>2, <3>2, <4>1, <4>2, <5>1 DEF And, Tri
        <5>3. PICK l \in LitsOf(p, s) :
                /\ Lit(p, w, s, l) <= w[s] \/ Lit(p, w, s, l) <= g[s]
                /\ Lit(p, g, s, l) <= Lit(p, w, s, l)
          BY <1>3, <3>2, <5>2 DEF Fine
        <5>4. Lit(p, x, s, l) <= Lit(p, w, s, l) /\ Lit(p, g, s, l) <= Lit(p, x, s, l)
          BY <2>2, <5>3 DEF Toward, Tri
        <5>5. Lit(p, x, s, l) <= x[s] \/ Lit(p, x, s, l) <= g[s]
          BY <1>1, <2>2, <5>2, <5>3, <5>4 DEF Tri
        <5> QED
          BY <5>4, <5>5 DEF Fine
      <4> QED
        BY <4>3, <4>4
    <3> QED
      BY <3>1, <3>2
  <2> QED
    BY <2>4, <2>5
<1> QED
  BY <1>2, <1>3

\* The symbol that is set gets its value.
LEMMA Reaches ==
  ASSUME NEW p, Conjunctive(p), NEW s \in PromptsOf(p),
         NEW w \in [Sym -> Tri], NEW x \in [Sym -> Tri], NEW g \in [Sym -> Tri],
         SameTypes(p, w, g), SameTypes(p, x, g),
         \A z \in Reads(p.prompt[s]) : Toward(w[z], x[z], g[z]),
         g[s] <= VisibilityIn(p, g, s), g[s] <= VisibilityIn(p, w, s),
         x[s] = Limited(p, g[s], x, s)
  PROVE  x[s] = g[s] /\ Fine(p, g[s], x, g, s)
<1>1. s \in Sym /\ g[s] \in Tri /\ VisibilityIn(p, x, s) \in Tri
  BY VisibilityIs DEF PromptsOf
<1>2. g[s] <= VisibilityIn(p, x, s)
  BY <1>1, VisibilityBetween, VisibilityIs DEF Tri
<1>3. x[s] = g[s]
  BY <1>1, <1>2 DEF Limited, And, NoValue, Tri
<1> QED
  BY <1>1, <1>3 DEF Fine, Tri

----------------------------------------------------------------------------
(* Configurations. *)

Orders(p) == [DOMAIN p.choices -> {<<>>}]

\* w is what the entries u lead to.
Leads(p, o, u, w) == o \in Orders(p) /\ u \in EntriesOf(p) /\ w = Values(p, u, o)

LEMMA ConfigIs ==
  ASSUME NEW p \in Kconfigs, Conjunctive(p), NEW o, NEW u, NEW w, Leads(p, o, u, w)
  PROVE  /\ w \in [Sym -> Tri]
         /\ \A s \in Sym \ PromptsOf(p) : w[s] = Values(p, [x \in Sym |-> NoValue], o)[s]
         /\ \A s \in PromptsOf(p) :
              /\ w[s] <= VisibilityIn(p, w, s)
              /\ PromotedIn(p, w, s, w[s]) = w[s]
              /\ u[s] = NoValue \/ PromotedIn(p, w, s, u[s]) = u[s]
                   => w[s] = Limited(p, u[s], w, s)
<1>1. /\ w \in [Sym -> Tri]
      /\ \A s \in PromptsOf(p) : w[s] = EnteredIn(p, u, w, s)
      /\ \A s \in Sym \ PromptsOf(p) : w[s] = Values(p, [x \in Sym |-> NoValue], o)[s]
  <2>1. u \in EntriesOf(p) /\ o \in [DOMAIN p.choices -> {<<>>}] /\ w = Values(p, u, o)
    BY DEF Leads, Orders
  <2>2. Computed(p)
    BY ValuesAssumption
  <2> QED
    BY <2>1, <2>2 DEF Computed
<1>2. ASSUME NEW s \in PromptsOf(p) PROVE u[s] \in Tri \cup {NoValue}
  BY DEF EntriesOf, PromptsOf, Leads
<1> QED
  BY <1>1, <1>2, EnteredIs

\* Configurations differ in symbols with a prompt only.
LEMMA ConfigsAlike ==
  ASSUME NEW p \in Kconfigs, Conjunctive(p), NEW o,
         NEW u, NEW w, Leads(p, o, u, w), NEW e, NEW g, Leads(p, o, e, g)
  PROVE  /\ \A s \in Sym \ PromptsOf(p) : w[s] = g[s]
         /\ SameTypes(p, w, g)
         /\ \A s, t : PromotedIn(p, w, s, t) = PromotedIn(p, g, s, t)
<1>1. \A s \in Sym \ PromptsOf(p) : w[s] = g[s]
  BY ConfigIs
<1>2. w[p.modules] = g[p.modules]
  BY <1>1 DEF Conjunctive
<1> QED
  BY <1>1, <1>2 DEF SameTypes, PromotedIn

\* Of some symbols, one comes first in the order of the dependencies.
LEMMA FirstOf ==
  ASSUME NEW p, Conjunctive(p), NEW S \in SUBSET Sym, S # {}
  PROVE  \E s \in S : Reads(p.prompt[s]) \subseteq Sym \ S
<1> DEFINE at == {i \in DOMAIN p.sorted : p.sorted[i] \in S}
<1>1. p.sorted \in Seq(Sym) /\ ToSet(p.sorted) = Sym
  BY DEF Conjunctive
<1>2. at \subseteq Nat /\ at # {}
  BY <1>1 DEF ToSet
<1>3. PICK i \in at : \A j \in at : i <= j
  <2> HIDE DEF at
  <2> QED BY <1>2, Smallest
<1>4. i \in DOMAIN p.sorted /\ p.sorted[i] \in S /\ i \in 1 .. Len(p.sorted)
  BY <1>1, <1>3
<1>5. ASSUME NEW z \in Reads(p.prompt[p.sorted[i]]) PROVE z \in Sym \ S
  <2>0. Reads(p.prompt[p.sorted[i]]) \subseteq {p.sorted[j] : j \in 1 .. (i - 1)}
    BY <1>4 DEF Conjunctive
  <2>1. PICK j \in 1 .. (i - 1) : z = p.sorted[j]
    BY <2>0
  <2>2. j \in DOMAIN p.sorted /\ ~(i <= j)
    BY <1>1, <1>4, <2>1
  <2>3. j \notin at
    BY <1>3, <2>2
  <2> QED
    BY <1>1, <2>1, <2>2, <2>3
<1> QED
  BY <1>4, <1>5

\* What has been entered on the way to g.
Way(p, u, w, g) ==
  \A s \in PromptsOf(p) :
    /\ u[s] = NoValue \/ PromotedIn(p, g, s, u[s]) = u[s]
    /\ Fine(p, u[s], w, g, s)

\* A value of a configuration can be entered in another one.
LEMMA EntryFits ==
  ASSUME NEW p \in Kconfigs, Conjunctive(p), NEW o, NEW u, u \in EntriesOf(p),
         NEW e, NEW g, Leads(p, o, e, g), NEW s \in PromptsOf(p)
  PROVE  [u EXCEPT ![s] = g[s]] \in EntriesOf(p)
<1>1. g \in [Sym -> Tri] /\ PromotedIn(p, g, s, g[s]) = g[s]
  BY ConfigIs
<1>2. g[s] = mod => p.type[s] = "tristate"
  BY <1>1 DEF PromotedIn, Conjunctive, PromptsOf, mod, yes
<1> QED
  BY <1>1, <1>2 DEF EntriesOf, PromptsOf

\* Setting a symbol to its value in g moves nothing away from g.
LEMMA OneStep ==
  ASSUME NEW p \in Kconfigs, Conjunctive(p), NEW o,
         NEW u, NEW w, Leads(p, o, u, w), NEW e, NEW g, Leads(p, o, e, g),
         Way(p, u, w, g),
         NEW s \in PromptsOf(p), g[s] <= VisibilityIn(p, w, s),
         NEW v, NEW x, Leads(p, o, v, x),
         v[s] = g[s], \A t \in Sym \ {s} : v[t] = u[t]
  PROVE  /\ Way(p, v, x, g)
         /\ x[s] = g[s]
         /\ \A t \in Sym : Toward(w[t], x[t], g[t])
<1>1. /\ g \in [Sym -> Tri] /\ w \in [Sym -> Tri]
      /\ s \in Sym /\ u \in [Sym -> Tri \cup {NoValue}]
      /\ \A t \in PromptsOf(p) : g[t] <= VisibilityIn(p, g, t) /\ PromotedIn(p, g, t, g[t]) = g[t]
  <2>1. /\ g \in [Sym -> Tri]
        /\ \A t \in PromptsOf(p) : g[t] <= VisibilityIn(p, g, t) /\ PromotedIn(p, g, t, g[t]) = g[t]
    BY ConfigIs
  <2>2. w \in [Sym -> Tri]
    BY ConfigIs
  <2> QED
    BY <2>1, <2>2 DEF PromptsOf, EntriesOf, Leads
<1>2. x \in [Sym -> Tri]
  BY ConfigIs
<1>3. /\ SameTypes(p, w, g) /\ SameTypes(p, x, g)
      /\ \A t \in Sym \ PromptsOf(p) : w[t] = g[t] /\ x[t] = g[t]
      /\ \A t, a : PromotedIn(p, w, t, a) = PromotedIn(p, g, t, a)
                   /\ PromotedIn(p, x, t, a) = PromotedIn(p, g, t, a)
  <2>1. /\ SameTypes(p, w, g) /\ \A t \in Sym \ PromptsOf(p) : w[t] = g[t]
        /\ \A t, a : PromotedIn(p, w, t, a) = PromotedIn(p, g, t, a)
    BY ConfigsAlike
  <2>2. /\ SameTypes(p, x, g) /\ \A t \in Sym \ PromptsOf(p) : x[t] = g[t]
        /\ \A t, a : PromotedIn(p, x, t, a) = PromotedIn(p, g, t, a)
    BY ConfigsAlike
  <2> QED
    BY <2>1, <2>2
<1>4. ASSUME NEW t \in PromptsOf(p)
      PROVE  /\ t \in Sym
             /\ v[t] = NoValue \/ PromotedIn(p, g, t, v[t]) = v[t]
             /\ w[t] = Limited(p, u[t], w, t)
             /\ x[t] = Limited(p, v[t], x, t)
  <2>1. t \in Sym
    BY DEF PromptsOf
  <2>2. v[t] = NoValue \/ PromotedIn(p, g, t, v[t]) = v[t]
    <3>1. CASE t = s
      BY <1>1, <3>1
    <3>2. CASE t # s
      BY <2>1, <3>2 DEF Way
    <3> QED
      BY <3>1, <3>2
  <2>3. w[t] = Limited(p, u[t], w, t)
    <3>1. u[t] = NoValue \/ PromotedIn(p, w, t, u[t]) = u[t]
      BY <1>3 DEF Way
    <3>2. \A r \in PromptsOf(p) : u[r] = NoValue \/ PromotedIn(p, w, r, u[r]) = u[r]
                                   => w[r] = Limited(p, u[r], w, r)
      BY ConfigIs
    <3> QED
      BY <3>1, <3>2
  <2>4. x[t] = Limited(p, v[t], x, t)
    <3>1. v[t] = NoValue \/ PromotedIn(p, x, t, v[t]) = v[t]
      BY <1>3, <2>2
    <3>2. \A r \in PromptsOf(p) : v[r] = NoValue \/ PromotedIn(p, x, r, v[r]) = v[r]
                                   => x[r] = Limited(p, v[r], x, r)
      BY ConfigIs
    <3> QED
      BY <3>1, <3>2
  <2> QED
    BY <2>1, <2>2, <2>3, <2>4
<1>5. ASSUME NEW t \in PromptsOf(p), \A z \in Reads(p.prompt[t]) : Toward(w[z], x[z], g[z])
      PROVE  /\ Toward(w[t], x[t], g[t]) /\ Fine(p, v[t], x, g, t)
             /\ t = s => x[t] = g[t]
  <2>1. t \in Sym /\ w[t] \in Tri /\ x[t] \in Tri /\ g[t] \in Tri /\ g[t] <= VisibilityIn(p, g, t)
    BY <1>1, <1>2, <1>4
  <2>2. CASE t = s
    <3>1. x[s] = Limited(p, g[s], x, s)
      BY <1>4, <2>2
    <3>2. x[s] = g[s] /\ Fine(p, g[s], x, g, s)
      <4>1. /\ SameTypes(p, w, g) /\ SameTypes(p, x, g)
            /\ \A z \in Reads(p.prompt[s]) : Toward(w[z], x[z], g[z])
            /\ g[s] <= VisibilityIn(p, g, s)
        BY <1>3, <1>5, <2>1, <2>2
      <4> QED
        BY <1>1, <1>2, <3>1, <4>1, Reaches
    <3>3. Toward(w[t], x[t], g[t])
      BY <2>1, <2>2, <3>2 DEF Toward, Tri
    <3> QED
      BY <2>2, <3>2, <3>3
  <2>3. CASE t # s
    <3>1. u[t] \in Tri \cup {NoValue} /\ v[t] = u[t]
      BY <1>1, <2>1, <2>3
    <3>2. Fine(p, u[t], w, g, t)
      BY DEF Way
    <3>3. w[t] = Limited(p, u[t], w, t) /\ x[t] = Limited(p, u[t], x, t)
      BY <1>4, <3>1
    <3>4. Toward(w[t], x[t], g[t]) /\ Fine(p, u[t], x, g, t)
      BY <1>1, <1>2, <1>3, <1>5, <2>1, <3>1, <3>2, <3>3, Follows
    <3> QED
      BY <2>3, <3>1, <3>4
  <2> QED
    BY <2>2, <2>3
<1>6. \A t \in Sym : Toward(w[t], x[t], g[t])
  <2> DEFINE S == {t \in Sym : ~Toward(w[t], x[t], g[t])}
  <2>1. SUFFICES ASSUME S # {} PROVE FALSE
    OBVIOUS
  <2>2. PICK t \in S : Reads(p.prompt[t]) \subseteq Sym \ S
    <3>1. S \in SUBSET Sym
      OBVIOUS
    <3> HIDE DEF S
    <3> QED BY <2>1, <3>1, FirstOf
  <2>3. t \in Sym /\ ~Toward(w[t], x[t], g[t])
    BY <2>2
  <2>4. t \in PromptsOf(p)
    <3>1. w[t] \in Tri /\ (t \notin PromptsOf(p) => w[t] = g[t] /\ x[t] = g[t])
      BY <1>1, <1>3, <2>3
    <3> QED
      BY <2>3, <3>1 DEF Toward, Tri
  <2>5. \A z \in Reads(p.prompt[t]) : Toward(w[z], x[z], g[z])
    BY <2>2
  <2> HIDE DEF S
  <2> QED
    BY <1>5, <2>3, <2>4, <2>5
<1>7. \A t \in PromptsOf(p) : \A z \in Reads(p.prompt[t]) : z \in Sym
  <2>1. ASSUME NEW t \in PromptsOf(p) PROVE Reads(p.prompt[t]) \subseteq Sym
    BY LitsAre DEF Literals
  <2> QED
    BY <2>1
<1>8. Way(p, v, x, g)
  BY <1>4, <1>5, <1>6, <1>7 DEF Way
<1>9. x[s] = g[s]
  BY <1>5, <1>6, <1>7
<1> QED
  BY <1>6, <1>8, <1>9

----------------------------------------------------------------------------
(* What the symbol engine says of the configuration. *)

\* The rule of SymbolRules comes down to EnteredIn, which ValuesAssumption is
\* about.
LEMMA RuleIs ==
  ASSUME Conjunctive(k), modules_val = curr[k.modules], curr \in [Sym -> Tri],
         NEW s \in PromptsOf(k), user[s] \in Tri \cup {NoValue}
  PROVE  Value(s) = EnteredIn(k, user, curr, s)
<1>1. /\ k.type[s] \in {"bool", "tristate"} /\ ~sym_is_choice_value(s)
      /\ k.rev_dep[s] = {} /\ k.implied[s] = {} /\ k.default[s] = <<>>
  BY DEF Conjunctive, PromptsOf, sym_is_choice_value, ChoiceOf, AllChoices
<1>2. \A t : Promoted(s, t) = PromotedIn(k, curr, s, t)
  BY <1>1 DEF Promoted, PromotedIn, sym_get_type
<1>3. RevDep(s) = no /\ Implied(s) = no /\ Visibility(s) = VisibilityIn(k, curr, s)
  BY <1>1, <1>2, NothingIsNo
  DEF RevDep, Implied, Visibility, VisibilityIn, Promoted, no, mod
<1>4. Automatic(s) = no
  BY <1>1, <1>3 DEF Automatic, DefaultValue, First
<1>5. Value(s) = NewValue(s)
  BY <1>1 DEF Value
<1> DEFINE vis == VisibilityIn(k, curr, s)
           a == IF vis # no /\ user[s] # NoValue THEN And(user[s], vis) ELSE no
<1>6. vis \in Tri
  BY VisibilityIs
<1>7. NewValue(s) = PromotedIn(k, curr, s, Or(a, no))
  BY <1>2, <1>3, <1>4 DEF NewValue, sym_has_value
<1>8. EnteredIn(k, user, curr, s) = PromotedIn(k, curr, s, a)
  BY PromotedIs DEF EnteredIn, no, Tri
<1>9. a \in Tri
  BY <1>6 DEF And, no, Tri
<1> HIDE DEF a
<1>10. Or(a, no) = a
  BY <1>9 DEF Or, no, Tri
<1> QED
  BY <1>5, <1>7, <1>8, <1>10

\* What sym_tristate_within_range() accepts.
LEMMA RangeIs ==
  ASSUME Conjunctive(k), modules_val = curr[k.modules], curr \in [Sym -> Tri],
         NEW s \in PromptsOf(k), NEW v \in Tri
  PROVE  /\ WithinRange(s, v) => v <= VisibilityIn(k, curr, s)
         /\ /\ v <= VisibilityIn(k, curr, s) /\ VisibilityIn(k, curr, s) # no
            /\ PromotedIn(k, curr, s, v) = v
            => WithinRange(s, v)
<1>1. /\ k.type[s] \in {"bool", "tristate"} /\ ~sym_is_choice_value(s) /\ k.rev_dep[s] = {}
  BY DEF Conjunctive, PromptsOf, sym_is_choice_value, ChoiceOf, AllChoices
<1>2. \A t : Promoted(s, t) = PromotedIn(k, curr, s, t)
  BY <1>1 DEF Promoted, PromotedIn, sym_get_type
<1>3. RevDep(s) = no /\ Visibility(s) = VisibilityIn(k, curr, s)
  BY <1>1, <1>2, NothingIsNo DEF RevDep, Visibility, VisibilityIn, Promoted, no, mod
<1>4. VisibilityIn(k, curr, s) \in Tri
  BY VisibilityIs
<1>5. PromotedIn(k, curr, s, v) = v => ~(sym_get_type(s) = "bool" /\ v = mod)
  BY <1>1 DEF PromotedIn, sym_get_type, mod, yes
<1> QED
  BY <1>1, <1>3, <1>4, <1>5 DEF WithinRange, no, Tri

\* A symbol can be set when what it depends on has the values of the solution.
LEMMA Settable ==
  ASSUME k \in Kconfigs, Conjunctive(k), Leads(k, order, user, curr),
         modules_val = curr[k.modules], NEW e, NEW g, Leads(k, order, e, g),
         NEW s \in PromptsOf(k), \A z \in Reads(k.prompt[s]) : curr[z] = g[z]
  PROVE  curr[s] = g[s] \/ WithinRange(s, g[s])
<1>1. curr \in [Sym -> Tri] /\ g \in [Sym -> Tri] /\ s \in Sym
  BY ConfigIs DEF PromptsOf
<1>2. SameTypes(k, curr, g) /\ SameTypes(k, g, curr)
  BY ConfigsAlike
<1>3. /\ curr[s] <= VisibilityIn(k, curr, s) /\ g[s] <= VisibilityIn(k, g, s)
      /\ PromotedIn(k, g, s, g[s]) = g[s]
  BY ConfigIs
<1>4. \A z \in Reads(k.prompt[s]) : z \in Sym
  BY LitsAre DEF Literals
<1>5. VisibilityIn(k, g, s) <= VisibilityIn(k, curr, s)
  <2>1. \A z \in Reads(k.prompt[s]) : Toward(g[z], curr[z], g[z])
    BY <1>1, <1>4, TowardTri
  <2>2. SameTypes(k, g, g)
    BY DEF SameTypes
  <2> QED
    BY <1>1, <1>2, <2>1, <2>2, VisibilityBetween
<1>6. VisibilityIn(k, curr, s) <= VisibilityIn(k, g, s)
  <2>1. \A z \in Reads(k.prompt[s]) : Toward(curr[z], g[z], curr[z])
    BY <1>1, <1>4, TowardTri
  <2>2. SameTypes(k, curr, curr)
    BY DEF SameTypes
  <2> QED
    BY <1>1, <1>2, <2>1, <2>2, VisibilityBetween
<1>7. VisibilityIn(k, curr, s) \in Tri /\ VisibilityIn(k, g, s) \in Tri
  BY <1>1, VisibilityIs
<1>8. PromotedIn(k, curr, s, g[s]) = g[s]
  BY <1>2, <1>3 DEF PromotedIn, SameTypes
<1>9. CASE VisibilityIn(k, curr, s) = no
  BY <1>1, <1>3, <1>5, <1>6, <1>7, <1>9 DEF no, Tri
<1>10. CASE VisibilityIn(k, curr, s) # no
  <2>1. g[s] <= VisibilityIn(k, curr, s) /\ g[s] \in Tri
    BY <1>1, <1>3, <1>5, <1>7 DEF Tri
  <2> QED
    BY <1>1, <1>8, <1>10, <2>1, RangeIs
<1> QED
  BY <1>9, <1>10

----------------------------------------------------------------------------
(* The state. *)

SymbolsIn(l) == {l[i][1] : i \in DOMAIN l}
Configs == {Values(k, u, order) : u \in EntriesOf(k)}

\* The list of a solution g: the conflict symbols, one of which has another
\* value, and what g changes.  No configuration changes less.
Changed(h) == {s \in PromptsOf(k) \ conflict_syms : h[s] # before[s]}
SolutionOf(g) ==
  /\ fix \in Seq(PromptsOf(k) \X Tri)
  /\ \A i \in DOMAIN fix : fix[i][2] = g[fix[i][1]]
  /\ SymbolsIn(fix) = conflict_syms \cup Changed(g)
  /\ conflict_syms \subseteq PromptsOf(k)
  /\ \E s \in conflict_syms : before[s] # g[s]
  /\ \A h \in Configs : (\A s \in conflict_syms : h[s] = g[s])
                        /\ Changed(h) \subseteq Changed(g) => Changed(h) = Changed(g)

\* The configuration is on the way from before to g.  A symbol that has not been
\* set has its old entry, if any.
OnWay(g) ==
  /\ Leads(k, order, user, curr) /\ modules_val = curr[k.modules]
  /\ Way(k, user, curr, g)
  /\ before \in [Sym -> Tri]
  /\ \A s \in Sym : Toward(before[s], curr[s], g[s])
  /\ \A s \in PromptsOf(k) : user[s] \in {NoValue, before[s]} \/ curr[s] = g[s]

\* What is not in tmp has its value, and each round that has ended has set a
\* symbol.
Counted(g) ==
  /\ tmp \in Seq(PromptsOf(k) \X Tri)
  /\ \A i \in DOMAIN tmp : tmp[i][2] = g[tmp[i][1]]
  /\ \A s \in PromptsOf(k) \ SymbolsIn(tmp) : curr[s] = g[s]
  /\ node \in Nat \ {0} /\ no_symbols_set \in Nat /\ iterations \in Nat
  /\ Len(tmp) + no_symbols_set = Len(fix)
  /\ iterations <= no_symbols_set
  /\ pc = "while" /\ iterations = 0 => curr = before

\* As long as the round has set none, none of those it has seen can be set.
Stuck(s, v) == curr[s] # v /\ ~WithinRange(s, v)
Skipped ==
  pc = "for" /\ iterations = no_symbols_set =>
    /\ no_symbols_set < Len(fix)
    /\ \A i \in DOMAIN tmp : i < node => Stuck(tmp[i][1], tmp[i][2])

\* A symbol that has been seen and is still in tmp has its old value, below the
\* new one.
Old(g, s) ==
  curr[s] = before[s] /\ before[s] < g[s] /\ user[s] \in {NoValue, before[s]}
Waiting(g) ==
  \A i \in DOMAIN tmp : iterations > 0 \/ (pc = "for" /\ i < node) =>
    curr[tmp[i][1]] = g[tmp[i][1]] \/ Old(g, tmp[i][1])

Applying(g) ==
  /\ SolutionOf(g)
  /\ OnWay(g)
  /\ pc # "failed"
  /\ pc = "shown" => curr = before /\ no_symbols_set = 0 /\ iterations = 0 /\ node = 1
  /\ pc # "shown" => Counted(g) /\ Skipped /\ Waiting(g)
  /\ pc = "applied" => \A s \in PromptsOf(k) : curr[s] = g[s]

IInv ==
  /\ k \in Kconfigs
  /\ pc \in {"shown", "while", "for", "applied", "failed"}
  /\ Loaded /\ Conjunctive(k) /\ Solution =>
       order \in Orders(k) /\ \E g \in Configs : Applying(g)

----------------------------------------------------------------------------
(* Lists. *)

LEMMA RemovedIs ==
  ASSUME NEW T, NEW l \in Seq(T), NEW n \in 1 .. Len(l)
  PROVE  /\ RemoveAt(l, n) \in Seq(T)
         /\ Len(RemoveAt(l, n)) = Len(l) - 1
         /\ \A i \in DOMAIN RemoveAt(l, n) :
              /\ i < n => i \in DOMAIN l /\ RemoveAt(l, n)[i] = l[i]
              /\ ~(i < n) => i + 1 \in DOMAIN l /\ RemoveAt(l, n)[i] = l[i + 1]
         /\ \A i \in DOMAIN l : i # n =>
              \E j \in DOMAIN RemoveAt(l, n) : RemoveAt(l, n)[j] = l[i]
<1> DEFINE a == SubSeq(l, 1, n - 1)
           b == SubSeq(l, n + 1, Len(l))
           r == RemoveAt(l, n)
<1>1. /\ a \in Seq(T) /\ Len(a) = n - 1 /\ \A i \in 1 .. (n - 1) : a[i] = l[i]
      /\ b \in Seq(T) /\ Len(b) = Len(l) - n /\ \A i \in 1 .. (Len(l) - n) : b[i] = l[n + i]
  OBVIOUS
<1>2. r = a \o b
  BY DEF RemoveAt
<1> HIDE DEF a, b, r
<1>3. /\ r \in Seq(T) /\ Len(r) = Len(l) - 1 /\ DOMAIN r = 1 .. (Len(l) - 1)
      /\ \A i \in 1 .. (Len(l) - 1) : r[i] = IF i <= n - 1 THEN a[i] ELSE b[i - (n - 1)]
  BY <1>1, <1>2
<1>4. ASSUME NEW i \in DOMAIN r
      PROVE  IF i < n THEN i \in DOMAIN l /\ r[i] = l[i]
             ELSE i + 1 \in DOMAIN l /\ r[i] = l[i + 1]
  <2>1. i \in 1 .. (Len(l) - 1) /\ DOMAIN l = 1 .. Len(l) /\ Len(l) \in Nat
        /\ r[i] = IF i <= n - 1 THEN a[i] ELSE b[i - (n - 1)]
    BY <1>3
  <2>2. CASE i < n
    <3>1. i \in 1 .. (n - 1) /\ i \in DOMAIN l /\ i <= n - 1
      BY <2>1, <2>2
    <3> QED
      BY <1>1, <2>1, <2>2, <3>1
  <2>3. CASE ~(i < n)
    <3>1. /\ ~(i <= n - 1) /\ i + 1 \in DOMAIN l
          /\ i - (n - 1) \in 1 .. (Len(l) - n) /\ n + (i - (n - 1)) = i + 1
      BY <2>1, <2>3
    <3>2. b[i - (n - 1)] = l[n + (i - (n - 1))]
      BY <1>1, <3>1
    <3> QED
      BY <2>1, <2>3, <3>1, <3>2
  <2> QED
    BY <2>2, <2>3
<1>5. ASSUME NEW i \in DOMAIN l, i # n PROVE \E j \in DOMAIN r : r[j] = l[i]
  <2>1. CASE i < n
    BY <1>3, <1>4, <2>1
  <2>2. CASE ~(i < n)
    <3>1. i - 1 \in DOMAIN r /\ ~(i - 1 < n) /\ (i - 1) + 1 = i
      BY <1>3, <1>5, <2>2
    <3> QED
      BY <1>4, <3>1
  <2> QED
    BY <2>1, <2>2
<1> QED
  BY <1>3, <1>4, <1>5 DEF r

\* The lists of a set name each of its elements.
LEMMA ListsAll ==
  ASSUME NEW S, IsFiniteSet(S), NEW l \in SetToSeqs(S)
  PROVE  l \in Seq(S) /\ {l[i] : i \in DOMAIN l} = S
<1> DEFINE D == 1 .. Cardinality(S)
<1>1. Cardinality(S) \in Nat
  BY FS_CardinalityType
<1>2. l \in [D -> S] /\ \A i, j \in D : i # j => l[i] # l[j]
  BY DEF SetToSeqs
<1>3. l \in Injection(D, S)
  BY <1>2 DEF Injection, IsInjective
<1>4. IsFiniteSet(D) /\ Cardinality(D) = Cardinality(S)
  BY <1>1, FS_Interval
<1>5. l \in Surjection(D, S)
  BY <1>3, <1>4, FS_Injection
<1>6. \A x \in S : \E i \in D : l[i] = x
  BY <1>5 DEF Surjection
<1>7. l \in Seq(S) /\ DOMAIN l = D
  BY <1>1, <1>2
<1> QED
  BY <1>2, <1>6, <1>7

LEMMA SymFinite == ASSUME NEW p, Conjunctive(p) PROVE IsFiniteSet(Sym)
<1>1. p.sorted \in Seq(Sym) /\ ToSet(p.sorted) = Sym
  BY DEF Conjunctive
<1>2. p.sorted \in Surjection(1 .. Len(p.sorted), Sym)
  BY <1>1 DEF Surjection, ToSet
<1>3. IsFiniteSet(1 .. Len(p.sorted))
  BY <1>1, FS_Interval
<1> QED
  BY <1>2, <1>3, FS_Surjection

----------------------------------------------------------------------------
(* The first state. *)

LEMMA InitInv == Init => IInv
<1> SUFFICES ASSUME Init PROVE IInv
  OBVIOUS
<1>1. k \in Kconfigs /\ pc = "shown" /\ edited = FALSE
  BY DEF Init
<1> SUFFICES ASSUME Loaded, Conjunctive(k), Solution
             PROVE  order \in Orders(k) /\ \E g \in Configs : Applying(g)
  BY <1>1 DEF IInv
<1>2. order \in Orders(k)
  <2>1. DOMAIN k.choices = {}
    BY DEF Conjunctive
  <2>2. \E X : order \in [{} -> X]
    BY <2>1 DEF Init, AllChoices
  <2> QED
    BY <2>1, <2>2 DEF Orders
<1>3. /\ user \in EntriesOf(k) /\ curr = Values(k, user, order) /\ modules_val = curr[k.modules]
      /\ before = curr
      /\ no_symbols_set = 0 /\ iterations = 0 /\ node = 1
      /\ \A s \in Prompts : user[s] = IF Visibility(s) = no THEN NoValue ELSE curr[s]
  BY DEF Init, Entries
<1>4. PICK C \in SUBSET Prompts \ {{}} : \E wanted \in [C -> Tri] :
        /\ fix \in Fixes(wanted, Configs)
        /\ trivial = sdv_within_range(wanted)
        /\ conflict_syms = C
  BY DEF Init, Entries, Configs
<1>5. PICK wanted \in [C -> Tri] : fix \in Fixes(wanted, Configs) /\ ~sdv_within_range(wanted)
  BY <1>4 DEF Solution
<1> DEFINE Diff(h) == {s \in Prompts \ C : h[s] # curr[s]}
           Good == {h \in Configs : \A s \in C : h[s] = wanted[s]}
<1>6. PICK g \in Good :
        /\ \A h \in Good : Diff(h) \subseteq Diff(g) => Diff(h) = Diff(g)
        /\ \E s \in SetToSeqs(C), t \in SetToSeqs(Diff(g)) : fix = ListOf(s \o t, g)
  BY <1>5 DEF Fixes
<1>7. PICK l \in SetToSeqs(C), m \in SetToSeqs(Diff(g)) : fix = ListOf(l \o m, g)
  BY <1>6
<1>8. /\ Leads(k, order, user, curr) /\ \E e : Leads(k, order, e, g)
      /\ g \in Configs /\ \A s \in C : g[s] = wanted[s]
      /\ Prompts = PromptsOf(k) /\ C \subseteq PromptsOf(k)
  BY <1>2, <1>3 DEF Leads, Configs, Prompts
<1>9. /\ curr \in [Sym -> Tri] /\ g \in [Sym -> Tri] /\ PromptsOf(k) \subseteq Sym
      /\ \A s \in PromptsOf(k) : PromotedIn(k, g, s, curr[s]) = curr[s]
  <2>1. /\ curr \in [Sym -> Tri]
        /\ \A s \in PromptsOf(k) : PromotedIn(k, curr, s, curr[s]) = curr[s]
    BY <1>1, <1>8, ConfigIs
  <2>2. g \in [Sym -> Tri]
    BY <1>1, <1>8, ConfigIs
  <2>3. \A s, t : PromotedIn(k, curr, s, t) = PromotedIn(k, g, s, t)
    BY <1>1, <1>8, ConfigsAlike
  <2> QED
    BY <2>1, <2>2, <2>3 DEF PromptsOf
<1> HIDE DEF Diff, Good
<1>10. SolutionOf(g)
  <2>1. Diff(g) \subseteq PromptsOf(k) /\ \A h : Changed(h) = Diff(h)
    BY <1>3, <1>4, <1>8 DEF Diff, Changed
  <2>2. /\ l \in Seq(C) /\ {l[i] : i \in DOMAIN l} = C
        /\ m \in Seq(Diff(g)) /\ {m[i] : i \in DOMAIN m} = Diff(g)
    <3>1. IsFiniteSet(C) /\ IsFiniteSet(Diff(g))
      BY <1>8, <1>9, <2>1, SymFinite, FS_Subset
    <3> QED
      BY <1>7, <3>1, ListsAll
  <2>3. l \in Seq(PromptsOf(k)) /\ m \in Seq(PromptsOf(k))
    BY <1>8, <2>1, <2>2
  <2> DEFINE n == l \o m
  <2>4. /\ n \in Seq(PromptsOf(k))
        /\ \A i \in DOMAIN l : i \in DOMAIN n /\ n[i] = l[i]
        /\ \A i \in DOMAIN m : Len(l) + i \in DOMAIN n /\ n[Len(l) + i] = m[i]
        /\ \A i \in DOMAIN n : \/ i \in DOMAIN l /\ n[i] = l[i]
                               \/ i - Len(l) \in DOMAIN m /\ n[i] = m[i - Len(l)]
    BY <2>3
  <2> HIDE DEF n
  <2>5. {n[i] : i \in DOMAIN n} = C \cup Diff(g)
    <3>1. ASSUME NEW x \in C \cup Diff(g) PROVE \E i \in DOMAIN n : n[i] = x
      <4>1. CASE x \in C
        BY <2>2, <2>4, <4>1
      <4>2. CASE x \in Diff(g)
        BY <2>2, <2>4, <4>2
      <4> QED
        BY <4>1, <4>2
    <3>2. ASSUME NEW i \in DOMAIN n PROVE n[i] \in C \cup Diff(g)
      BY <2>2, <2>4
    <3> QED
      BY <3>1, <3>2
  <2>6. /\ DOMAIN fix = DOMAIN n
        /\ \A i \in DOMAIN n : fix[i] = <<n[i], g[n[i]]>>
    BY <1>7 DEF ListOf, n
  <2>7. fix \in Seq(PromptsOf(k) \X Tri)
    <3>1. \A i \in DOMAIN n : n[i] \in PromptsOf(k) /\ g[n[i]] \in Tri
      BY <1>9, <2>4
    <3>2. fix = [i \in DOMAIN n |-> <<n[i], g[n[i]]>>]
      BY <1>7 DEF ListOf, n
    <3>3. DOMAIN n = 1 .. Len(n) /\ Len(n) \in Nat
      BY <2>4
    <3> QED
      BY <3>1, <3>2, <3>3
  <2>8. \A i \in DOMAIN fix : fix[i][1] = n[i] /\ fix[i][2] = g[fix[i][1]]
    BY <2>6
  <2>9. SymbolsIn(fix) = conflict_syms \cup Changed(g)
    BY <1>4, <2>1, <2>5, <2>6, <2>8 DEF SymbolsIn
  <2>10. \E s \in conflict_syms : before[s] # g[s]
    <3>1. DOMAIN wanted = C
      OBVIOUS
    <3>2. PICK s \in C : wanted[s] # curr[s]
      BY <1>5, <3>1 DEF sdv_within_range
    <3> QED
      BY <1>3, <1>4, <1>8, <3>2
  <2>11. ASSUME NEW h \in Configs, \A s \in conflict_syms : h[s] = g[s],
                Changed(h) \subseteq Changed(g)
         PROVE  Changed(h) = Changed(g)
    <3>1. h \in Good
      BY <1>4, <1>8, <2>11 DEF Good
    <3> QED
      BY <1>6, <2>1, <2>11, <3>1
  <2> QED
    BY <1>4, <1>8, <2>7, <2>8, <2>9, <2>10, <2>11 DEF SolutionOf
<1>11. OnWay(g)
  <2>1. ASSUME NEW s \in PromptsOf(k)
        PROVE  /\ user[s] = NoValue \/ user[s] = curr[s]
               /\ user[s] = NoValue \/ PromotedIn(k, g, s, user[s]) = user[s]
               /\ Fine(k, user[s], curr, g, s)
    <3>1. user[s] = NoValue \/ user[s] = curr[s]
      BY <1>3, <1>8
    <3>2. curr[s] \in Tri
      BY <1>9
    <3> QED
      BY <1>9, <3>1, <3>2 DEF Fine, Tri
  <2>2. \A s \in Sym : Toward(before[s], curr[s], g[s])
    BY <1>3, <1>9, TowardTri
  <2> QED
    BY <1>3, <1>8, <1>9, <2>1, <2>2 DEF OnWay, Way
<1>12. Applying(g)
  BY <1>1, <1>3, <1>10, <1>11 DEF Applying
<1> QED
  BY <1>2, <1>8, <1>12

----------------------------------------------------------------------------
(* The steps. *)

\* What a step that sets nothing leaves as it is.
LEMMA SameConfig ==
  ASSUME UNCHANGED <<found, config>>, NEW g
  PROVE  /\ \A s, v : WithinRange(s, v)' = WithinRange(s, v)
         /\ SolutionOf(g)' = SolutionOf(g)
         /\ OnWay(g)' = OnWay(g)
         /\ \A s : Old(g, s)' = Old(g, s)
         /\ \A s, v : Stuck(s, v)' = Stuck(s, v)
         /\ Configs' = Configs
<1>1. UNCHANGED <<k, user, order, curr, modules_val, fix, conflict_syms, before>>
  BY DEF found, config
<1>2. \A s, v : WithinRange(s, v)' = WithinRange(s, v)
  BY <1>1
  DEF WithinRange, sym_is_choice_value, ChoiceOf, AllChoices, RevDep, Visibility, Promoted,
      sym_get_type
<1>3. Configs' = Configs
  BY <1>1 DEF Configs
<1>4. \A h : Changed(h)' = Changed(h)
  BY <1>1 DEF Changed
<1>5. SolutionOf(g)' = SolutionOf(g)
  BY <1>1, <1>3, <1>4 DEF SolutionOf, SymbolsIn
<1>6. OnWay(g)' = OnWay(g)
  BY <1>1 DEF OnWay
<1>7. \A s : Old(g, s)' = Old(g, s)
  BY <1>1 DEF Old
<1>8. \A s, v : Stuck(s, v)' = Stuck(s, v)
  BY <1>1, <1>2 DEF Stuck
<1> QED
  BY <1>2, <1>3, <1>5, <1>6, <1>7, <1>8

\* The first symbol of tmp, in the order of the dependencies, can be set.
LEMMA OneFits ==
  ASSUME k \in Kconfigs, Conjunctive(k), NEW g \in Configs, order \in Orders(k),
         OnWay(g), Counted(g), Len(tmp) > 0
  PROVE  \E i \in DOMAIN tmp : ~Stuck(tmp[i][1], tmp[i][2])
<1>1. PICK e : Leads(k, order, e, g)
  BY DEF Configs, Leads
<1>2. /\ tmp \in Seq(PromptsOf(k) \X Tri)
      /\ \A i \in DOMAIN tmp : tmp[i][1] \in PromptsOf(k) /\ tmp[i][2] = g[tmp[i][1]]
  BY DEF Counted
<1> DEFINE S == SymbolsIn(tmp)
<1>3. S \in SUBSET Sym /\ S # {}
  <2>1. 1 \in DOMAIN tmp
    BY <1>2
  <2> QED
    BY <1>2, <2>1 DEF SymbolsIn, PromptsOf
<1>4. PICK s \in S : Reads(k.prompt[s]) \subseteq Sym \ S
  <2> HIDE DEF S
  <2> QED BY <1>3, FirstOf
<1>5. PICK i \in DOMAIN tmp : s = tmp[i][1]
  BY <1>4 DEF SymbolsIn
<1>6. \A z \in Reads(k.prompt[s]) : curr[z] = g[z]
  <2>1. \A z \in Sym \ PromptsOf(k) : curr[z] = g[z]
    BY <1>1, ConfigsAlike DEF OnWay
  <2>2. \A z \in PromptsOf(k) \ S : curr[z] = g[z]
    BY DEF Counted
  <2> QED
    BY <1>4, <2>1, <2>2
<1>7. s \in PromptsOf(k) /\ tmp[i][2] = g[s]
  BY <1>2, <1>5
<1>8. Leads(k, order, user, curr) /\ modules_val = curr[k.modules]
  BY DEF OnWay
<1>9. curr[s] = g[s] \/ WithinRange(s, g[s])
  BY <1>1, <1>6, <1>7, <1>8, Settable
<1> QED
  BY <1>5, <1>7, <1>9 DEF Stuck

LEMMA ApplyStep ==
  ASSUME k \in Kconfigs, Conjunctive(k), NEW g \in Configs, order \in Orders(k),
         Applying(g), apply_fix
  PROVE  Applying(g)'
<1>1. /\ pc = "shown" /\ pc' = "while" /\ tmp' = fix
      /\ UNCHANGED <<found, config, counts, node, no_symbols_set>>
  BY DEF apply_fix
<1>2. /\ SolutionOf(g) /\ OnWay(g) /\ SolutionOf(g)' /\ OnWay(g)'
      /\ curr = before /\ no_symbols_set = 0 /\ iterations = 0 /\ node = 1
  BY <1>1, SameConfig DEF Applying
<1>3. /\ fix \in Seq(PromptsOf(k) \X Tri)
      /\ \A i \in DOMAIN fix : fix[i][2] = g[fix[i][1]]
      /\ \A s \in PromptsOf(k) \ SymbolsIn(fix) : curr[s] = g[s]
  <2>1. ASSUME NEW s \in PromptsOf(k) \ SymbolsIn(fix) PROVE curr[s] = g[s]
    BY <1>2 DEF SolutionOf, Changed
  <2> QED
    BY <1>2, <2>1 DEF SolutionOf
<1>4. UNCHANGED <<k, curr, before, fix, iterations>>
  BY <1>1 DEF found, config, counts
<1>5. SymbolsIn(tmp)' = SymbolsIn(fix)
  BY <1>1 DEF SymbolsIn
<1>6. Counted(g)'
  BY <1>1, <1>2, <1>3, <1>4, <1>5 DEF Counted
<1>7. Skipped' /\ Waiting(g)'
  BY <1>1, <1>2, <1>4 DEF Skipped, Waiting
<1> QED
  BY <1>1, <1>2, <1>6, <1>7 DEF Applying

LEMMA EndOfRoundStep ==
  ASSUME k \in Kconfigs, Conjunctive(k), NEW g \in Configs, order \in Orders(k),
         Applying(g), EndOfRound
  PROVE  Applying(g)'
<1>1. /\ pc = "for" /\ node > Len(tmp) /\ pc' = "while" /\ iterations' = iterations + 1
      /\ UNCHANGED <<found, config, list>>
  BY DEF EndOfRound, NextRound
<1>2. /\ SolutionOf(g)' /\ OnWay(g)' /\ OnWay(g)
      /\ Counted(g) /\ Skipped /\ Waiting(g)
  BY <1>1, SameConfig DEF Applying
<1>3. UNCHANGED <<k, curr, before, fix, user, tmp, node, no_symbols_set>>
  BY <1>1 DEF found, config, list
<1>4. tmp \in Seq(PromptsOf(k) \X Tri) /\ iterations \in Nat /\ no_symbols_set \in Nat /\ node \in Nat
  BY <1>2 DEF Counted
<1>5. iterations # no_symbols_set
  <2>1. SUFFICES ASSUME iterations = no_symbols_set PROVE FALSE
    OBVIOUS
  <2>2. no_symbols_set < Len(fix) /\ \A i \in DOMAIN tmp : i < node => Stuck(tmp[i][1], tmp[i][2])
    BY <1>1, <1>2, <2>1 DEF Skipped
  <2>3. Len(tmp) + no_symbols_set = Len(fix) /\ Len(tmp) \in Nat
    BY <1>2, <1>4 DEF Counted
  <2>4. Len(tmp) > 0
    BY <1>4, <2>2, <2>3
  <2>5. \A i \in DOMAIN tmp : i < node
    BY <1>1, <1>4
  <2> QED
    BY <1>2, <2>2, <2>4, <2>5, OneFits
<1>6. Counted(g)'
  <2>1. SymbolsIn(tmp)' = SymbolsIn(tmp)
    BY <1>3 DEF SymbolsIn
  <2>2. iterations + 1 <= no_symbols_set /\ iterations + 1 \in Nat /\ iterations + 1 # 0
    BY <1>2, <1>4, <1>5 DEF Counted
  <2> QED
    BY <1>1, <1>2, <1>3, <2>1, <2>2 DEF Counted
<1>7. Waiting(g)'
  <2>1. \A i \in DOMAIN tmp : i < node
    BY <1>1, <1>4
  <2>2. \A i \in DOMAIN tmp : curr[tmp[i][1]] = g[tmp[i][1]] \/ Old(g, tmp[i][1])
    BY <1>1, <1>2, <2>1 DEF Waiting
  <2>3. \A s : Old(g, s)' = Old(g, s)
    BY <1>1, SameConfig
  <2> QED
    BY <1>3, <2>2, <2>3 DEF Waiting
<1>8. Skipped'
  BY <1>1 DEF Skipped
<1> QED
  BY <1>1, <1>2, <1>6, <1>7, <1>8 DEF Applying

\* When apply_fix() stops, all values are there: either each has been set, or
\* the conflict symbols have theirs and nothing less than the fix will do.
LEMMA AllThere ==
  ASSUME k \in Kconfigs, Conjunctive(k), NEW g \in Configs, order \in Orders(k),
         Applying(g), pc = "while", no_symbols_set >= fix_size \/ syms_have_target_value
  PROVE  \A s \in PromptsOf(k) : curr[s] = g[s]
<1>1. SolutionOf(g) /\ OnWay(g) /\ Counted(g) /\ Waiting(g)
  BY DEF Applying
<1>2. tmp \in Seq(PromptsOf(k) \X Tri) /\ fix \in Seq(PromptsOf(k) \X Tri)
  BY <1>1 DEF Counted, SolutionOf
<1>3. CASE no_symbols_set >= fix_size
  <2>1. Len(tmp) = 0
    BY <1>1, <1>2, <1>3 DEF Counted, fix_size
  <2>2. SymbolsIn(tmp) = {}
    BY <1>2, <2>1 DEF SymbolsIn
  <2> QED
    BY <1>1, <2>2 DEF Counted
<1>4. CASE syms_have_target_value
  <2>1. ASSUME NEW s \in conflict_syms PROVE curr[s] = g[s]
    <3>1. PICK i \in DOMAIN fix : fix[i][1] = s
      BY <1>1 DEF SolutionOf, SymbolsIn
    <3> QED
      BY <1>1, <1>4, <3>1 DEF syms_have_target_value, SolutionOf
  <2>2. iterations > 0
    <3>1. curr # before
      BY <1>1, <2>1 DEF SolutionOf
    <3> QED
      BY <1>1, <3>1 DEF Counted
  <2>3. curr \in Configs
    BY <1>1 DEF OnWay, Leads, Configs
  <2>4. /\ curr \in [Sym -> Tri] /\ g \in [Sym -> Tri] /\ before \in [Sym -> Tri]
        /\ PromptsOf(k) \subseteq Sym
    <3>1. \E e : Leads(k, order, e, g)
      BY DEF Leads, Configs
    <3> QED
      BY <1>1, <3>1, ConfigIs DEF OnWay, PromptsOf
  <2>5. Changed(curr) \subseteq Changed(g)
    <3>1. ASSUME NEW s \in PromptsOf(k), g[s] = before[s] PROVE curr[s] = before[s]
      BY <1>1, <2>4, <3>1, TowardTri DEF OnWay
    <3> QED
      BY <3>1 DEF Changed
  <2>6. Changed(curr) = Changed(g)
    BY <1>1, <2>1, <2>3, <2>5 DEF SolutionOf
  <2>7. ASSUME NEW s \in PromptsOf(k), s \notin conflict_syms, curr[s] # g[s] PROVE FALSE
    <3>1. s \in SymbolsIn(tmp)
      BY <1>1, <2>7 DEF Counted
    <3>2. PICK i \in DOMAIN tmp : tmp[i][1] = s
      BY <3>1 DEF SymbolsIn
    <3>3. Old(g, s)
      BY <1>1, <2>2, <2>7, <3>2 DEF Waiting
    <3>4. s \in Changed(g) /\ s \notin Changed(curr)
      BY <2>4, <2>7, <3>3 DEF Old, Changed, Tri
    <3> QED
      BY <2>6, <3>4
  <2> QED
    BY <2>1, <2>7
<1> QED
  BY <1>3, <1>4

LEMMA WhileStep ==
  ASSUME k \in Kconfigs, Conjunctive(k), NEW g \in Configs, order \in Orders(k),
         Applying(g), While
  PROVE  Applying(g)'
<1>1. /\ pc = "while" /\ node' = 1
      /\ UNCHANGED <<found, config, counts, tmp, no_symbols_set>>
      /\ \/ pc' = "applied" /\ (no_symbols_set >= fix_size \/ syms_have_target_value)
         \/ pc' = "failed" /\ GiveUp
         \/ pc' = "for" /\ ~(no_symbols_set >= fix_size)
  BY DEF While
<1>2. SolutionOf(g)' /\ OnWay(g)' /\ OnWay(g) /\ SolutionOf(g) /\ Counted(g) /\ Waiting(g)
  BY <1>1, SameConfig DEF Applying
<1>3. UNCHANGED <<k, curr, before, fix, user, tmp, no_symbols_set, iterations>>
  BY <1>1 DEF found, config, counts
<1>4. /\ tmp \in Seq(PromptsOf(k) \X Tri) /\ iterations \in Nat /\ no_symbols_set \in Nat
      /\ Len(fix) \in Nat /\ iterations <= no_symbols_set /\ no_symbols_set <= Len(fix)
  <2>1. /\ tmp \in Seq(PromptsOf(k) \X Tri) /\ fix \in Seq(PromptsOf(k) \X Tri)
        /\ iterations \in Nat /\ no_symbols_set \in Nat /\ iterations <= no_symbols_set
        /\ Len(tmp) + no_symbols_set = Len(fix)
    BY <1>2 DEF Counted, SolutionOf
  <2> QED
    BY <2>1
<1>5. pc' # "failed"
  BY <1>1, <1>4 DEF GiveUp, fix_size
<1>6. Counted(g)'
  <2>1. SymbolsIn(tmp)' = SymbolsIn(tmp)
    BY <1>3 DEF SymbolsIn
  <2>2. pc' # "while"
    BY <1>1
  <2> QED
    BY <1>1, <1>2, <1>3, <2>1, <2>2 DEF Counted
<1>7. Skipped'
  <2>1. pc' = "for" => no_symbols_set < Len(fix)
    BY <1>1, <1>4 DEF fix_size
  <2>2. \A i \in DOMAIN tmp : ~(i < 1)
    BY <1>4
  <2> QED
    BY <1>1, <1>3, <2>1, <2>2 DEF Skipped
<1>8. Waiting(g)'
  <2>1. \A i \in DOMAIN tmp : ~(i < 1)
    BY <1>4
  <2>2. \A s : Old(g, s)' = Old(g, s)
    BY <1>1, SameConfig
  <2> QED
    BY <1>1, <1>2, <1>3, <2>1, <2>2 DEF Waiting
<1>9. pc' = "applied" => \A s \in PromptsOf(k)' : curr'[s] = g[s]
  BY <1>1, <1>3, AllThere
<1> QED
  BY <1>1, <1>2, <1>5, <1>6, <1>7, <1>8, <1>9 DEF Applying

\* Setting the symbol of the list: everything else keeps what it has reached,
\* and what waits goes on waiting.
LEMMA SetKeeps ==
  ASSUME k \in Kconfigs, Conjunctive(k), NEW g \in Configs, order \in Orders(k),
         OnWay(g), UNCHANGED found, NEW s \in PromptsOf(k), WithinRange(s, g[s]), SetTo(s, g[s])
  PROVE  /\ OnWay(g)'
         /\ curr'[s] = g[s]
         /\ \A t \in Sym : curr[t] = g[t] => curr'[t] = g[t]
         /\ \A t \in PromptsOf(k) : Old(g, t) => Old(g, t)' \/ curr'[t] = g[t]
<1>1. PICK e : Leads(k, order, e, g)
  BY DEF Configs, Leads
<1>2. UNCHANGED <<k, order, before>>
  BY DEF found, SetTo
<1>3. Leads(k, order, user, curr) /\ modules_val = curr[k.modules] /\ Way(k, user, curr, g)
  BY DEF OnWay
<1>4. /\ g \in [Sym -> Tri] /\ curr \in [Sym -> Tri] /\ before \in [Sym -> Tri]
      /\ s \in Sym /\ user \in EntriesOf(k) /\ user \in [Sym -> Tri \cup {NoValue}]
  <2>1. g \in [Sym -> Tri] /\ curr \in [Sym -> Tri]
    BY <1>1, <1>3, ConfigIs
  <2> QED
    BY <1>3, <2>1 DEF OnWay, PromptsOf, Leads, EntriesOf
<1>5. user' = [user EXCEPT ![s] = g[s]]
  BY DEF SetTo
<1>6. Leads(k, order, user', curr')
  <2>1. user' \in EntriesOf(k)
    BY <1>1, <1>4, <1>5, EntryFits
  <2> QED
    BY <2>1 DEF Leads, SetTo
<1>7. user'[s] = g[s] /\ \A t \in Sym \ {s} : user'[t] = user[t]
  BY <1>4, <1>5
<1>8. g[s] <= VisibilityIn(k, curr, s)
  BY <1>3, <1>4, RangeIs
<1>9. /\ Way(k, user', curr', g)
      /\ curr'[s] = g[s]
      /\ \A t \in Sym : Toward(curr[t], curr'[t], g[t])
  BY <1>1, <1>3, <1>6, <1>7, <1>8, OneStep
<1>10. curr' \in [Sym -> Tri]
  BY <1>6, ConfigIs
<1>11. ASSUME NEW t \in Sym, curr[t] = g[t] PROVE curr'[t] = g[t]
  BY <1>4, <1>9, <1>10, <1>11, TowardTri
<1>12. \A t \in Sym : Toward(before[t], curr'[t], g[t])
  <2>1. \A t \in Sym : Toward(before[t], curr[t], g[t])
    BY DEF OnWay
  <2> QED
    BY <1>4, <1>9, <1>10, <2>1, TowardTri
<1>13. \A t \in PromptsOf(k) : user'[t] \in {NoValue, before[t]} \/ curr'[t] = g[t]
  <2>1. ASSUME NEW t \in PromptsOf(k), t # s
        PROVE  user'[t] \in {NoValue, before[t]} \/ curr'[t] = g[t]
    <3>1. t \in Sym /\ user'[t] = user[t]
      BY <1>7, <2>1 DEF PromptsOf
    <3> QED
      BY <1>11, <3>1 DEF OnWay
  <2> QED
    BY <1>9, <2>1
<1>14. OnWay(g)'
  BY <1>2, <1>4, <1>6, <1>9, <1>12, <1>13 DEF OnWay, SetTo
<1>15. ASSUME NEW t \in PromptsOf(k), t # s, Old(g, t) PROVE Old(g, t)'
  <2>1. t \in Sym /\ user'[t] = user[t] /\ user[t] \in {NoValue, before[t]} /\ before[t] < g[t]
    BY <1>7, <1>15 DEF Old, PromptsOf
  <2>2. Toward(before[t], curr'[t], g[t]) /\ curr'[t] \in Tri /\ before[t] \in Tri /\ g[t] \in Tri
    BY <1>4, <1>10, <1>12, <2>1
  <2>3. VisibilityIn(k, curr', t) \in Tri
    BY <1>10, VisibilityIs
  <2>4. curr'[t] = Limited(k, user'[t], curr', t)
    <3>1. user'[t] = NoValue \/ PromotedIn(k, curr', t, user'[t]) = user'[t]
      <4>1. \A a : PromotedIn(k, curr', t, a) = PromotedIn(k, g, t, a)
        BY <1>1, <1>6, ConfigsAlike
      <4> QED
        BY <1>9, <4>1 DEF Way
    <3>2. \A r \in PromptsOf(k) : user'[r] = NoValue \/ PromotedIn(k, curr', r, user'[r]) = user'[r]
                                    => curr'[r] = Limited(k, user'[r], curr', r)
      BY <1>6, ConfigIs
    <3> QED
      BY <3>1, <3>2
  <2>5. curr'[t] <= before[t]
    BY <2>1, <2>2, <2>3, <2>4 DEF Limited, And, no, Tri
  <2>6. curr'[t] = before[t]
    BY <2>1, <2>2, <2>5 DEF Toward, Tri
  <2> QED
    BY <1>2, <2>1, <2>6 DEF Old
<1> QED
  BY <1>9, <1>11, <1>14, <1>15

\* The symbol leaves tmp, as it has its value.
LEMMA DelStep ==
  ASSUME NEW g, Counted(g), Waiting(g), pc = "for", pc' = "for", node <= Len(tmp), ListDel,
         UNCHANGED <<found, iterations>>, curr'[tmp[node][1]] = g[tmp[node][1]],
         \A t \in PromptsOf(k) : curr[t] = g[t] => curr'[t] = g[t],
         \A t \in PromptsOf(k) : Old(g, t) => Old(g, t)' \/ curr'[t] = g[t]
  PROVE  Counted(g)' /\ Skipped' /\ Waiting(g)'
<1>1. /\ tmp \in Seq(PromptsOf(k) \X Tri) /\ node \in 1 .. Len(tmp)
      /\ iterations \in Nat /\ no_symbols_set \in Nat /\ iterations <= no_symbols_set
      /\ Len(tmp) + no_symbols_set = Len(fix)
      /\ \A i \in DOMAIN tmp : tmp[i][1] \in PromptsOf(k) /\ tmp[i][2] = g[tmp[i][1]]
  BY DEF Counted
<1>2. /\ tmp' = RemoveAt(tmp, node) /\ no_symbols_set' = no_symbols_set + 1 /\ node' = node
      /\ k' = k /\ fix' = fix
  BY DEF ListDel, found
<1>3. /\ tmp' \in Seq(PromptsOf(k) \X Tri)
      /\ Len(tmp') = Len(tmp) - 1
      /\ \A i \in DOMAIN tmp' :
           /\ i < node => i \in DOMAIN tmp /\ tmp'[i] = tmp[i]
           /\ ~(i < node) => i + 1 \in DOMAIN tmp /\ tmp'[i] = tmp[i + 1]
      /\ \A i \in DOMAIN tmp : i # node => \E j \in DOMAIN tmp' : tmp'[j] = tmp[i]
  BY <1>1, <1>2, RemovedIs
<1>4. ASSUME NEW s \in PromptsOf(k), s \notin SymbolsIn(tmp)' PROVE curr'[s] = g[s]
  <2>1. CASE s \notin SymbolsIn(tmp)
    BY <2>1 DEF Counted
  <2>2. CASE s \in SymbolsIn(tmp)
    <3>1. PICK i \in DOMAIN tmp : tmp[i][1] = s
      BY <2>2 DEF SymbolsIn
    <3>2. i = node
      BY <1>3, <1>4, <3>1 DEF SymbolsIn
    <3> QED
      BY <3>1, <3>2
  <2> QED
    BY <2>1, <2>2
<1>5. Counted(g)'
  <2>1. ASSUME NEW i \in DOMAIN tmp' PROVE tmp'[i][2] = g[tmp'[i][1]]
    <3>1. PICK j \in DOMAIN tmp : tmp'[i] = tmp[j]
      BY <1>3
    <3>2. tmp[j][2] = g[tmp[j][1]]
      BY <1>1
    <3> QED
      BY <3>1, <3>2
  <2>2. /\ no_symbols_set' \in Nat /\ iterations' \in Nat /\ iterations' <= no_symbols_set'
        /\ Len(tmp') + no_symbols_set' = Len(fix')
    BY <1>1, <1>2, <1>3
  <2>3. node' \in Nat \ {0}
    BY <1>1, <1>2
  <2> QED
    BY <1>2, <1>3, <1>4, <2>1, <2>2, <2>3 DEF Counted
<1>6. Skipped'
  BY <1>1, <1>2 DEF Skipped
<1>7. Waiting(g)'
  <2>1. ASSUME NEW i \in DOMAIN tmp', iterations > 0 \/ i < node, NEW t, t = tmp'[i][1]
        PROVE  curr'[t] = g[t] \/ Old(g, t)'
    <3>1. PICK j \in DOMAIN tmp : tmp'[i] = tmp[j] /\ (iterations > 0 \/ j < node)
      BY <1>3, <2>1
    <3>2. curr[tmp[j][1]] = g[tmp[j][1]] \/ Old(g, tmp[j][1])
      BY <3>1 DEF Waiting
    <3>3. t \in PromptsOf(k) /\ t = tmp[j][1]
      BY <1>1, <2>1, <3>1
    <3> QED
      BY <3>2, <3>3
  <2> QED
    BY <1>2, <2>1 DEF Waiting, Old, found
<1> QED
  BY <1>5, <1>6, <1>7

\* The symbol stays: it cannot be set yet, and waits with its old value.
LEMMA SkipStep ==
  ASSUME k \in Kconfigs, Conjunctive(k), NEW g \in Configs, order \in Orders(k),
         OnWay(g), Counted(g), Skipped, Waiting(g), pc = "for", pc' = "for", node <= Len(tmp),
         Skip, UNCHANGED <<found, config, iterations>>, Stuck(tmp[node][1], tmp[node][2])
  PROVE  Counted(g)' /\ Skipped' /\ Waiting(g)'
<1>1. /\ tmp \in Seq(PromptsOf(k) \X Tri) /\ node \in 1 .. Len(tmp)
      /\ iterations \in Nat /\ no_symbols_set \in Nat /\ iterations <= no_symbols_set
      /\ Len(tmp) + no_symbols_set = Len(fix)
      /\ \A i \in DOMAIN tmp : tmp[i][1] \in PromptsOf(k) /\ tmp[i][2] = g[tmp[i][1]]
  BY DEF Counted
<1>2. UNCHANGED <<k, user, curr, before, fix, tmp, no_symbols_set, iterations>> /\ node' = node + 1
  BY DEF Skip, found, config
<1>3. \A s, v : Stuck(s, v)' = Stuck(s, v)
  BY SameConfig
<1>4. \A s : Old(g, s)' = Old(g, s)
  BY SameConfig
<1> DEFINE s == tmp[node][1]
<1>5. s \in PromptsOf(k) /\ s \in Sym /\ tmp[node][2] = g[s]
  BY <1>1 DEF PromptsOf
<1> HIDE DEF s
<1>6. PICK e : Leads(k, order, e, g)
  BY DEF Configs, Leads
<1>7. Leads(k, order, user, curr) /\ modules_val = curr[k.modules]
  BY DEF OnWay
<1>8. /\ curr \in [Sym -> Tri] /\ g \in [Sym -> Tri]
      /\ curr[s] <= VisibilityIn(k, curr, s) /\ PromotedIn(k, g, s, g[s]) = g[s]
  <2>1. curr \in [Sym -> Tri] /\ curr[s] <= VisibilityIn(k, curr, s)
    BY <1>5, <1>7, ConfigIs
  <2>2. g \in [Sym -> Tri] /\ PromotedIn(k, g, s, g[s]) = g[s]
    BY <1>5, <1>6, ConfigIs
  <2> QED
    BY <2>1, <2>2
<1>9. curr[s] \in Tri /\ g[s] \in Tri /\ before[s] \in Tri /\ VisibilityIn(k, curr, s) \in Tri
  BY <1>5, <1>8, VisibilityIs DEF OnWay
<1>10. curr[s] < g[s]
  <2>1. curr[s] # g[s] /\ ~WithinRange(s, g[s])
    BY <1>5 DEF Stuck, s
  <2>2. PromotedIn(k, curr, s, g[s]) = g[s]
    BY <1>6, <1>7, <1>8, ConfigsAlike
  <2>3. ~(g[s] <= VisibilityIn(k, curr, s)) \/ VisibilityIn(k, curr, s) = no
    BY <1>5, <1>7, <1>8, <1>9, <2>1, <2>2, RangeIs
  <2> QED
    BY <1>8, <1>9, <2>1, <2>3 DEF no, Tri
<1>11. Old(g, s)
  <2>1. Toward(before[s], curr[s], g[s]) /\ user[s] \in {NoValue, before[s]}
    <3>1. user[s] \in {NoValue, before[s]} \/ curr[s] = g[s]
      BY <1>5 DEF OnWay
    <3> QED
      BY <1>5, <1>9, <1>10, <3>1 DEF OnWay, Tri
  <2>2. before[s] <= curr[s]
    BY <1>9, <1>10, <2>1 DEF Toward, Tri
  <2>3. curr[s] = Limited(k, user[s], curr, s)
    <3>1. user[s] = NoValue \/ PromotedIn(k, curr, s, user[s]) = user[s]
      <4>1. \A a : PromotedIn(k, curr, s, a) = PromotedIn(k, g, s, a)
        BY <1>6, <1>7, ConfigsAlike
      <4> QED
        BY <1>5, <4>1 DEF OnWay, Way
    <3>2. \A r \in PromptsOf(k) : user[r] = NoValue \/ PromotedIn(k, curr, r, user[r]) = user[r]
                                    => curr[r] = Limited(k, user[r], curr, r)
      BY <1>7, ConfigIs
    <3> QED
      BY <1>5, <3>1, <3>2
  <2>4. curr[s] <= before[s]
    BY <1>9, <2>1, <2>3 DEF Limited, And, no, Tri
  <2>5. curr[s] = before[s]
    BY <1>9, <2>2, <2>4 DEF Tri
  <2> QED
    BY <1>10, <2>1, <2>5 DEF Old
<1>12. Counted(g)'
  <2>1. SymbolsIn(tmp)' = SymbolsIn(tmp)
    BY <1>2 DEF SymbolsIn
  <2>2. node' \in Nat \ {0}
    BY <1>1, <1>2
  <2> QED
    BY <1>2, <2>1, <2>2 DEF Counted
<1>13. ASSUME NEW i \in DOMAIN tmp, i < node + 1 PROVE i < node \/ tmp[i] = tmp[node]
  BY <1>1, <1>13
<1>14. Skipped'
  BY <1>2, <1>3, <1>13 DEF Skipped
<1>15. Waiting(g)'
  BY <1>2, <1>4, <1>11, <1>13 DEF Waiting, s
<1> QED
  BY <1>12, <1>14, <1>15

LEMMA SetSymbolStep ==
  ASSUME k \in Kconfigs, Conjunctive(k), NEW g \in Configs, order \in Orders(k),
         Applying(g), SetSymbol
  PROVE  Applying(g)'
<1> DEFINE s == tmp[node][1]
           v == tmp[node][2]
<1>1. /\ pc = "for" /\ pc' = "for" /\ node <= Len(tmp) /\ UNCHANGED <<found, iterations>>
      /\ \/ curr[s] = v /\ ListDel /\ UNCHANGED config
         \/ WithinRange(s, v) /\ ListDel /\ SetTo(s, v)
         \/ Stuck(s, v) /\ Skip /\ UNCHANGED config
  BY DEF SetSymbol, Stuck
<1>2. SolutionOf(g) /\ OnWay(g) /\ Counted(g) /\ Skipped /\ Waiting(g)
  BY <1>1 DEF Applying
<1>3. s \in PromptsOf(k) /\ v = g[s]
  <2>1. tmp \in Seq(PromptsOf(k) \X Tri) /\ node \in DOMAIN tmp
    BY <1>1, <1>2 DEF Counted
  <2> QED
    BY <1>2, <2>1 DEF Counted
<1>4. SolutionOf(g)'
  <2>1. UNCHANGED <<k, order, fix, conflict_syms, before>>
    BY <1>1 DEF found, config, SetTo
  <2>2. \A h : Changed(h)' = Changed(h)
    BY <2>1 DEF Changed
  <2>3. Configs' = Configs
    BY <2>1 DEF Configs
  <2>4. SymbolsIn(fix)' = SymbolsIn(fix)
    BY <2>1 DEF SymbolsIn
  <2>5. SolutionOf(g)' = SolutionOf(g)
    BY <2>1, <2>2, <2>3, <2>4 DEF SolutionOf
  <2> QED
    BY <1>2, <2>5
<1>5. OnWay(g)' /\ Counted(g)' /\ Skipped' /\ Waiting(g)'
  <2>1. CASE curr[s] = v /\ ListDel /\ UNCHANGED config
    <3>1. OnWay(g)' /\ \A t : Old(g, t)' = Old(g, t)
      BY <1>1, <1>2, <2>1, SameConfig
    <3>2. curr' = curr
      BY <2>1 DEF config
    <3> QED
      BY <1>1, <1>2, <1>3, <2>1, <3>1, <3>2, DelStep
  <2>2. CASE WithinRange(s, v) /\ ListDel /\ SetTo(s, v)
    <3>1. WithinRange(s, g[s]) /\ SetTo(s, g[s])
      BY <1>3, <2>2
    <3> HIDE DEF s
    <3>2. /\ OnWay(g)'
          /\ curr'[s] = g[s]
          /\ \A t \in Sym : curr[t] = g[t] => curr'[t] = g[t]
          /\ \A t \in PromptsOf(k) : Old(g, t) => Old(g, t)' \/ curr'[t] = g[t]
      BY <1>1, <1>2, <1>3, <3>1, SetKeeps
    <3>3. \A t \in PromptsOf(k) : curr[t] = g[t] => curr'[t] = g[t]
      BY <3>2 DEF PromptsOf
    <3>4. curr'[tmp[node][1]] = g[tmp[node][1]]
      BY <3>2 DEF s
    <3> QED
      BY <1>1, <1>2, <2>2, <3>2, <3>3, <3>4, DelStep
  <2>3. CASE Stuck(s, v) /\ Skip /\ UNCHANGED config
    <3>1. OnWay(g)'
      BY <1>1, <1>2, <2>3, SameConfig
    <3>2. Counted(g)' /\ Skipped' /\ Waiting(g)'
      BY <1>1, <1>2, <2>3, SkipStep
    <3> QED
      BY <3>1, <3>2
  <2> QED
    BY <1>1, <2>1, <2>2, <2>3
<1> QED
  BY <1>1, <1>4, <1>5 DEF Applying

LEMMA NextInv == IInv /\ [Next]_vars => IInv'
<1> SUFFICES ASSUME IInv, [Next]_vars PROVE IInv'
  OBVIOUS
<1>1. k' = k /\ trivial' = trivial /\ (edited => edited')
  BY DEF Next, Edit, apply_fix, While, EndOfRound, SetSymbol, Terminated, vars, found
<1>2. pc' \in {"shown", "while", "for", "applied", "failed"} /\ order' = order
  BY DEF IInv, Next, Edit, apply_fix, While, EndOfRound, SetSymbol, SetTo, Terminated, vars, config
<1> SUFFICES ASSUME Loaded, Conjunctive(k), Solution'
             PROVE  order' \in Orders(k') /\ \E g \in Configs' : Applying(g)'
  BY <1>1, <1>2 DEF IInv
<1>3. Solution /\ k \in Kconfigs /\ order \in Orders(k) /\ Configs' = Configs
  BY <1>1, <1>2 DEF IInv, Solution, Configs
<1>4. PICK g \in Configs : Applying(g)
  BY <1>3 DEF IInv
<1>5. ~Edit
  BY DEF Edit, Solution
<1>6. CASE UNCHANGED vars
  <2>1. UNCHANGED <<found, config, tmp, node, no_symbols_set, iterations, pc>>
    BY <1>6 DEF vars, found, config, list, counts
  <2>2. /\ SolutionOf(g)' = SolutionOf(g) /\ OnWay(g)' = OnWay(g)
        /\ \A s : Old(g, s)' = Old(g, s)
        /\ \A s, v : Stuck(s, v)' = Stuck(s, v)
    BY <2>1, SameConfig
  <2>3. UNCHANGED <<k, curr, before, fix>>
    BY <2>1 DEF found, config
  <2>4. Counted(g)' = Counted(g)
    BY <2>1, <2>3 DEF Counted, SymbolsIn
  <2>5. Skipped' = Skipped
    BY <2>1, <2>2, <2>3 DEF Skipped
  <2>6. Waiting(g)' = Waiting(g)
    BY <2>1, <2>2, <2>3 DEF Waiting
  <2>7. Applying(g)'
    BY <1>4, <2>1, <2>2, <2>3, <2>4, <2>5, <2>6 DEF Applying
  <2> QED
    BY <1>1, <1>2, <1>3, <2>7
<1>7. ASSUME apply_fix PROVE Applying(g)'
  BY <1>3, <1>4, <1>7, ApplyStep
<1>8. ASSUME While PROVE Applying(g)'
  BY <1>3, <1>4, <1>8, WhileStep
<1>9. ASSUME EndOfRound PROVE Applying(g)'
  BY <1>3, <1>4, <1>9, EndOfRoundStep
<1>10. ASSUME SetSymbol PROVE Applying(g)'
  BY <1>3, <1>4, <1>10, SetSymbolStep
<1>11. Applying(g)' \/ UNCHANGED vars
  BY <1>5, <1>7, <1>8, <1>9, <1>10 DEF Next, Terminated
<1> QED
  BY <1>1, <1>2, <1>3, <1>6, <1>11

----------------------------------------------------------------------------
(* What apply_fix() does with a solution. *)

\* The configuration stays on the way to the one that the solver found.
LEMMA Inductive == Spec => []IInv
<1>1. Init => IInv
  BY InitInv
<1>2. IInv /\ [Next]_vars => IInv'
  BY NextInv
<1> QED
  BY <1>1, <1>2, PTL DEF Spec

LEMMA FitsInv == IInv => (Loaded /\ Conjunctive(k) => SolutionFits)
<1> SUFFICES ASSUME IInv, Loaded, Conjunctive(k), Solution
             PROVE  pc # "failed" /\ iterations <= fix_size
  BY DEF SolutionFits
<1>1. PICK g \in Configs : Applying(g)
  BY DEF IInv
<1>2. pc # "failed"
  BY <1>1 DEF Applying
<1>3. Len(fix) \in Nat
  BY <1>1 DEF Applying, SolutionOf
<1>4. iterations <= Len(fix)
  <2>1. CASE pc = "shown"
    BY <1>1, <1>3, <2>1 DEF Applying
  <2>2. CASE pc # "shown"
    <3>1. /\ tmp \in Seq(PromptsOf(k) \X Tri) /\ no_symbols_set \in Nat /\ iterations \in Nat
          /\ Len(tmp) + no_symbols_set = Len(fix) /\ iterations <= no_symbols_set
      BY <1>1, <2>2 DEF Applying, Counted
    <3>2. Len(tmp) \in Nat
      BY <3>1
    <3> QED
      BY <1>3, <3>1, <3>2
  <2> QED
    BY <2>1, <2>2
<1> QED
  BY <1>2, <1>4 DEF fix_size

LEMMA HoldsInv == IInv => (Loaded /\ Conjunctive(k) => SolutionHolds)
<1> SUFFICES ASSUME IInv, Loaded, Conjunctive(k), Solution, pc = "applied", NEW i \in DOMAIN fix
             PROVE  curr[fix[i][1]] = fix[i][2]
  BY DEF SolutionHolds
<1>1. PICK g \in Configs : Applying(g)
  BY DEF IInv
<1>2. fix \in Seq(PromptsOf(k) \X Tri) /\ fix[i][2] = g[fix[i][1]]
  BY <1>1 DEF Applying, SolutionOf
<1>3. fix[i][1] \in PromptsOf(k)
  BY <1>2
<1> QED
  BY <1>1, <1>2, <1>3 DEF Applying

LEMMA OthersInv == IInv => (Loaded /\ Conjunctive(k) => OthersKept)
<1> SUFFICES ASSUME IInv, Loaded, Conjunctive(k), Solution, pc = "applied", NEW s \in PromptsOf(k),
                    \A i \in DOMAIN fix : fix[i][1] # s
             PROVE  curr[s] = before[s]
  BY DEF OthersKept, Prompts
<1>1. PICK g \in Configs : Applying(g)
  BY DEF IInv
<1>2. curr[s] = g[s]
  BY <1>1 DEF Applying
<1>3. s \notin conflict_syms \cup Changed(g)
  BY <1>1 DEF Applying, SolutionOf, SymbolsIn
<1> QED
  BY <1>2, <1>3 DEF Changed

\* A solution for a program whose prompts depend on other symbols and their
\* negations, without alternatives, can be applied whatever the number of its
\* symbols and the order of its list: the loop of apply_fix() never uses up
\* its rounds, and not even half of them, since each sets a symbol.
THEOREM SolutionsFit == Spec => [](Loaded /\ Conjunctive(k) => SolutionFits)
  BY Inductive, FitsInv, PTL

\* For such a program, a solution that apply_fix() reports as applied is there
\* in full, also when the loop has stopped because the conflict symbols have
\* their values and symbols are left in tmp: as no smaller set of changes gives
\* them their values, none can be left.
THEOREM SolutionsHold == Spec => [](Loaded /\ Conjunctive(k) => SolutionHolds)
  BY Inductive, HoldsInv, PTL

\* For such a program, no symbol has changed in the end but those of the list,
\* though each value that is set is propagated at once.
THEOREM NothingElseChanges == Spec => [](Loaded /\ Conjunctive(k) => OthersKept)
  BY Inductive, OthersInv, PTL
=============================================================================
