-------------------------- MODULE FixGenListProofs --------------------------
(****************************************************************************)
(* The list search implements the set search, for every finite set of soft  *)
(* constraints, every solver and every order in which it returns a core.    *)
(*                                                                          *)
(* The refinement needs three facts about the lists: no list occurs twice   *)
(* in E and no constraint twice in X; "todo" is the tail of X behind the    *)
(* place of minimise_unsat_core(); and what the walk over E leaves behind   *)
(* meets the core.  In the inner loop, the lists behind "size" are exactly  *)
(* the extensions, so far, that nothing older subsumes: an extension never  *)
(* subsumes another one of the same diagnosis.                              *)
(****************************************************************************)
EXTENDS FixGenList, FiniteSetTheorems, TLAPS

Distinct(l) == \A i, j \in DOMAIN l : l[i] = l[j] => i = j

ListTypes ==
  /\ E \in Seq(SUBSET Soft)
  /\ R \in Seq(SUBSET Soft)
  /\ X \in Seq(Soft)
  /\ todo \in Seq(Soft)
  /\ left \in Seq(Soft)
  /\ node \in Nat /\ next \in Nat /\ size \in Nat

\* minimise_unsat_core() has "todo" still before it.
TailOfCore ==
  /\ Len(todo) <= Len(X)
  /\ \A i \in 1 .. Len(todo) : todo[i] = X[Len(X) - Len(todo) + i]

\* The loop over E has left behind only lists that meet the core.
Walked ==
  pc \in {"expand", "extend"} =>
    /\ node <= Len(E)
    /\ \A i \in DOMAIN E : node = 0 \/ i < node => E[i] \cap ToSet(X) # {}

\* No older list than those the inner loop appends subsumes D.
Fresh(D) ==
  /\ \A i \in (1 .. size) \ {node} : ~(E[i] \subseteq D)
  /\ \A i \in DOMAIN R : ~(R[i] \subseteq D)

\* The elements of the core the inner loop has visited.
Visited == ToSet(X) \ ToSet(left)

\* Behind "size" are the extensions by the elements visited that are fresh.
Extending ==
  pc = "extend" =>
    /\ node \in 1 .. size /\ size <= Len(E)
    /\ E[node] \cap ToSet(X) = {}
    /\ next = IF node < size THEN node + 1 ELSE 0
    /\ Distinct(left) /\ ToSet(left) \subseteq ToSet(X)
    /\ \A i \in (size + 1) .. Len(E) :
         \E x \in Visited : E[i] = E[node] \cup {x} /\ Fresh(E[i])
    /\ \A x \in Visited :
         Fresh(E[node] \cup {x}) => \E i \in (size + 1) .. Len(E) : E[i] = E[node] \cup {x}

ListInv ==
  /\ ListTypes
  /\ Distinct(E)
  /\ Distinct(X)
  /\ TailOfCore
  /\ Walked
  /\ Extending

----------------------------------------------------------------------------
(* What the operations on lists do to the sets of their elements. *)

LEMMA ListElements == ASSUME NEW S, NEW l \in Seq(S)
                      PROVE  /\ DOMAIN l = 1 .. Len(l) /\ Len(l) \in Nat
                             /\ \A i \in 1 .. Len(l) : l[i] \in S
                             /\ ToSet(l) \subseteq S
                             /\ l = <<>> <=> ToSet(l) = {}
<1>1. DOMAIN l = 1 .. Len(l) /\ Len(l) \in Nat /\ \A i \in 1 .. Len(l) : l[i] \in S
  OBVIOUS
<1>2. l # <<>> => 1 \in DOMAIN l
  OBVIOUS
<1>3. l = <<>> => DOMAIN l = {}
  OBVIOUS
<1> QED
  BY <1>1, <1>2, <1>3 DEF ToSet

LEMMA FirstLists == ToSet(<<{}>>) = {{}} /\ ToSet(<<>>) = {}
<1>1. DOMAIN <<{}>> = {1} /\ <<{}>>[1] = {} /\ DOMAIN <<>> = {}
  OBVIOUS
<1> QED
  BY <1>1 DEF ToSet

LEMMA TailElements ==
  ASSUME NEW S, NEW l \in Seq(S), l # <<>>, Distinct(l)
  PROVE  /\ Tail(l) \in Seq(S) /\ Distinct(Tail(l)) /\ Head(l) \in ToSet(l)
         /\ Len(Tail(l)) = Len(l) - 1
         /\ \A i \in 1 .. Len(l) - 1 : Tail(l)[i] = l[i + 1]
         /\ ToSet(Tail(l)) = ToSet(l) \ {Head(l)}
<1>1. /\ Tail(l) \in Seq(S) /\ Len(l) \in Nat \ {0} /\ Len(Tail(l)) = Len(l) - 1
      /\ \A i \in 1 .. Len(l) - 1 : Tail(l)[i] = l[i + 1]
      /\ Head(l) = l[1] /\ DOMAIN l = 1 .. Len(l) /\ DOMAIN Tail(l) = 1 .. Len(l) - 1
  OBVIOUS
<1>2. Distinct(Tail(l))
  BY <1>1 DEF Distinct
<1>3. ToSet(Tail(l)) \subseteq ToSet(l) \ {Head(l)}
  BY <1>1 DEF ToSet, Distinct
<1>4. ASSUME NEW x \in ToSet(l) \ {Head(l)} PROVE x \in ToSet(Tail(l))
  <2>1. PICK i \in 1 .. Len(l) : x = l[i] /\ i # 1
    BY <1>1 DEF ToSet
  <2>2. i - 1 \in 1 .. Len(l) - 1 /\ Tail(l)[i - 1] = x
    BY <1>1, <2>1
  <2> QED
    BY <1>1, <2>2 DEF ToSet
<1>5. Head(l) \in ToSet(l)
  BY <1>1 DEF ToSet
<1> QED
  BY <1>1, <1>2, <1>3, <1>4, <1>5

LEMMA AppendElements ==
  ASSUME NEW S, NEW l \in Seq(S), NEW D \in S
  PROVE  /\ Append(l, D) \in Seq(S) /\ Len(Append(l, D)) = Len(l) + 1
         /\ \A i \in 1 .. Len(l) : Append(l, D)[i] = l[i]
         /\ Append(l, D)[Len(l) + 1] = D
         /\ ToSet(Append(l, D)) = ToSet(l) \cup {D}
<1>1. /\ Append(l, D) \in Seq(S) /\ Len(Append(l, D)) = Len(l) + 1 /\ Len(l) \in Nat
      /\ \A i \in 1 .. Len(l) : Append(l, D)[i] = l[i]
      /\ Append(l, D)[Len(l) + 1] = D
      /\ DOMAIN l = 1 .. Len(l) /\ DOMAIN Append(l, D) = 1 .. Len(l) + 1
  OBVIOUS
<1>2. ToSet(Append(l, D)) \subseteq ToSet(l) \cup {D}
  BY <1>1 DEF ToSet
<1>3. ToSet(l) \cup {D} \subseteq ToSet(Append(l, D))
  BY <1>1 DEF ToSet
<1> QED
  BY <1>1, <1>2, <1>3

\* The list r is the list l without its place p.
Without(S, l, p, r) ==
  /\ r \in Seq(S) /\ Len(r) = Len(l) - 1
  /\ \A i \in 1 .. Len(l) - 1 : r[i] = IF i < p THEN l[i] ELSE l[i + 1]
  /\ Distinct(r)
  /\ ToSet(r) = ToSet(l) \ {l[p]}

LEMMA RemoveAtElements ==
  ASSUME NEW S, NEW l \in Seq(S), NEW p \in 1 .. Len(l), Distinct(l)
  PROVE  Without(S, l, p, RemoveAt(l, p))
<1> DEFINE a == SubSeq(l, 1, p - 1)
           b == SubSeq(l, p + 1, Len(l))
           r == RemoveAt(l, p)
<1>1. /\ a \in Seq(S) /\ Len(a) = p - 1 /\ \A i \in 1 .. p - 1 : a[i] = l[i]
  OBVIOUS
<1>2. /\ b \in Seq(S) /\ Len(b) = Len(l) - p
      /\ \A i \in 1 .. Len(l) - p : b[i] = l[p + i]
  OBVIOUS
<1>3. r = a \o b
  BY DEF RemoveAt
<1>4. r \in Seq(S) /\ Len(r) = Len(l) - 1
  <2> HIDE DEF a, b
  <2> QED BY <1>1, <1>2, <1>3
<1>5. \A i \in 1 .. Len(l) - 1 : r[i] = IF i < p THEN l[i] ELSE l[i + 1]
  <2> SUFFICES ASSUME NEW i \in 1 .. Len(l) - 1
               PROVE  r[i] = IF i < p THEN l[i] ELSE l[i + 1]
    OBVIOUS
  <2>1. CASE i < p
    <3> HIDE DEF a, b
    <3> QED BY <1>1, <1>2, <1>3, <2>1
  <2>2. CASE i >= p
    <3>1. i - (p - 1) \in 1 .. Len(l) - p
      BY <2>2
    <3>2. r[i] = b[i - (p - 1)]
      <4> HIDE DEF a, b
      <4> QED BY <1>1, <1>2, <1>3, <2>2
    <3>3. b[i - (p - 1)] = l[p + (i - (p - 1))]
      BY <1>2, <3>1
    <3> QED
      BY <2>2, <3>2, <3>3
  <2> QED
    BY <2>1, <2>2
<1> HIDE DEF r
<1>6. DOMAIN l = 1 .. Len(l) /\ DOMAIN r = 1 .. Len(l) - 1 /\ Len(l) \in Nat
  BY <1>4
<1>7. Distinct(r)
  <2> SUFFICES ASSUME NEW i \in 1 .. Len(l) - 1, NEW j \in 1 .. Len(l) - 1, r[i] = r[j]
               PROVE  i = j
    BY <1>6 DEF Distinct
  <2> DEFINE old(k) == IF k < p THEN k ELSE k + 1
  <2>1. old(i) \in 1 .. Len(l) /\ old(j) \in 1 .. Len(l)
    BY <1>6
  <2>2. r[i] = l[old(i)] /\ r[j] = l[old(j)]
    BY <1>5
  <2>3. old(i) = old(j)
    <3> HIDE DEF old
    <3> QED BY <1>6, <2>1, <2>2 DEF Distinct
  <2> QED
    BY <2>3
<1>8. ToSet(r) \subseteq ToSet(l) \ {l[p]}
  BY <1>5, <1>6 DEF ToSet, Distinct
<1>9. ASSUME NEW x \in ToSet(l) \ {l[p]} PROVE x \in ToSet(r)
  <2>1. PICK i \in 1 .. Len(l) : x = l[i] /\ i # p
    BY <1>6 DEF ToSet
  <2>2. CASE i < p
    BY <1>5, <1>6, <2>1, <2>2 DEF ToSet
  <2>3. CASE i > p
    <3>1. i - 1 \in 1 .. Len(l) - 1 /\ r[i - 1] = x
      BY <1>5, <2>1, <2>3
    <3> QED
      BY <1>6, <3>1 DEF ToSet
  <2> QED
    BY <2>1, <2>2, <2>3
<1> QED
  BY <1>4, <1>5, <1>7, <1>8, <1>9 DEF r, Without

\* The order in which the solver returns a core does not matter: the list has
\* each of its elements once.
LEMMA CoreList ==
  ASSUME NEW core \in SUBSET Soft, NEW l \in SetToSeqs(core)
  PROVE  l \in Seq(Soft) /\ Distinct(l) /\ ToSet(l) = core
<1> DEFINE n == Cardinality(core)
<1>1. IsFiniteSet(core) /\ n \in Nat
  BY SoftAssumption, FS_Subset, FS_CardinalityType
<1>2. l \in [1 .. n -> core] /\ \A i, j \in 1 .. n : i # j => l[i] # l[j]
  BY DEF SetToSeqs
<1>3. IsFiniteSet(1 .. n) /\ Cardinality(1 .. n) = n
  BY <1>1, FS_Interval
<1>4. l \in Injection(1 .. n, core)
  BY <1>2 DEF Injection, IsInjective
<1>5. l \in Surjection(1 .. n, core)
  BY <1>1, <1>3, <1>4, FS_Injection
<1>6. ToSet(l) = core
  BY <1>2, <1>5 DEF Surjection, ToSet
<1>7. l \in Seq(Soft)
  BY <1>1, <1>2
<1>8. Distinct(l)
  BY <1>2 DEF Distinct
<1> QED
  BY <1>6, <1>7, <1>8

\* fexpr_list_has_length_1().
LEMMA LengthOne ==
  ASSUME NEW l \in Seq(Soft), Distinct(l)
  PROVE  Len(l) <= 1 <=> Sets!HasLength1(ToSet(l))
<1>1. DOMAIN l = 1 .. Len(l) /\ Len(l) \in Nat
  OBVIOUS
<1>2. CASE Len(l) <= 1
  BY <1>1, <1>2 DEF ToSet, Sets!HasLength1
<1>3. CASE Len(l) > 1
  <2>1. 1 \in DOMAIN l /\ 2 \in DOMAIN l
    BY <1>1, <1>3
  <2>2. l[1] # l[2] /\ l[1] \in ToSet(l) /\ l[2] \in ToSet(l)
    BY <2>1 DEF Distinct, ToSet
  <2> QED
    BY <1>1, <1>3, <2>2 DEF Sets!HasLength1
<1> QED
  BY <1>1, <1>2, <1>3

----------------------------------------------------------------------------
(* The invariant. *)

LEMMA StartList ==
  ASSUME pc = "solve", E = <<{}>>, R = <<>>, X = <<>>, todo = <<>>, left = <<>>,
         node = 0, next = 0, size = 0
  PROVE  ListInv
BY DEF ListInv, ListTypes, Distinct, TailOfCore, Walked, Extending

\* A step that leaves the lists and the walk alone, and is not the beginning of
\* a walk, keeps the invariant.
LEMMA ListsKept ==
  ASSUME ListInv, UNCHANGED <<E, R, X, todo, walk>>,
         pc' = pc \/ pc' \notin {"expand", "extend"}
  PROVE  ListInv'
<1> UNCHANGED <<E, R, X, todo, node, next, left, size>>
  BY DEF walk
<1>1. ListTypes' /\ Distinct(E)' /\ Distinct(X)' /\ TailOfCore'
  BY DEF ListInv, ListTypes, Distinct, TailOfCore
<1>2. Walked'
  BY DEF ListInv, Walked, ToSet
<1>3. Extending'
  <2>1. Visited' = Visited /\ \A D : Fresh(D)' <=> Fresh(D)
    BY DEF Visited, Fresh
  <2>2. Distinct(left)' <=> Distinct(left)
    BY DEF Distinct
  <2> QED
    BY <2>1, <2>2 DEF ListInv, Extending
<1> QED
  BY <1>1, <1>2, <1>3 DEF ListInv

\* The first partial diagnosis is asked about and leaves E.
LEMMA SolveSatStep ==
  ASSUME ListInv, SolveSat
  PROVE  ListInv' /\ Sets!SolveSat
<1> DEFINE e == Head(E)
<1>1. /\ Tail(E) \in Seq(SUBSET Soft) /\ Distinct(Tail(E)) /\ e \in ToSet(E)
      /\ ToSet(Tail(E)) = ToSet(E) \ {e} /\ e \in SUBSET Soft
  BY TailElements, ListElements DEF ListInv, ListTypes, SolveSat
<1>2. /\ pc = "solve" /\ pc' \in {"done", "solve"} /\ E' = Tail(E) /\ E0' = e
      /\ UNCHANGED <<X, todo, node, next, left, size>>
  BY DEF SolveSat, walk
<1>3. /\ R' \in Seq(SUBSET Soft)
      /\ ToSet(R') = IF e # {} THEN ToSet(R) \cup {e} ELSE ToSet(R)
  <2>1. R \in Seq(SUBSET Soft)
    BY DEF ListInv, ListTypes
  <2>2. CASE e # {}
    <3>1. R' = Append(R, e) /\ e \in SUBSET Soft
      BY <1>1, <2>2 DEF SolveSat
    <3>2. Append(R, e) \in Seq(SUBSET Soft) /\ ToSet(Append(R, e)) = ToSet(R) \cup {e}
      <4> HIDE DEF e
      <4> QED BY <2>1, <3>1, AppendElements
    <3> QED
      BY <2>2, <3>1, <3>2
  <2>3. CASE e = {}
    BY <2>1, <2>3 DEF SolveSat
  <2> QED
    BY <2>2, <2>3
<1>4. ListTypes' /\ Distinct(E)' /\ Distinct(X)' /\ TailOfCore'
  BY <1>1, <1>2, <1>3 DEF ListInv, ListTypes, Distinct, TailOfCore
<1>5. Walked' /\ Extending'
  BY <1>2 DEF Walked, Extending
<1>6. Settled = ToSet(E) /\ Settled' = ToSet(E) \ {e}
  BY <1>1, <1>2 DEF Settled
<1>7. Sets!Keep(e)
  BY <1>3 DEF SolveSat, Sets!Keep
<1>8. Sets!SolveSat
  BY <1>1, <1>2, <1>6, <1>7
     DEF SolveSat, Sets!SolveSat, Sat, Sets!Sat, LimitReached, Sets!LimitReached
<1> QED
  BY <1>4, <1>5, <1>8 DEF ListInv

LEMMA GetCoreStep ==
  ASSUME ListInv, GetCore
  PROVE  ListInv' /\ Sets!GetCore
<1>1. PICK core \in SUBSET (Soft \ E0) : ~Sat(core) /\ X' \in SetToSeqs(core)
  BY DEF GetCore, Assumed
<1>2. X' \in Seq(Soft) /\ Distinct(X') /\ ToSet(X') = core
  BY <1>1, CoreList
<1>3. pc = "check" /\ pc' = "minimise" /\ todo' = X'
      /\ UNCHANGED <<E, R, node, next, left, size>>
  BY DEF GetCore, lists, walk
<1>4. ListTypes' /\ Distinct(E)' /\ Distinct(X)'
  BY <1>2, <1>3 DEF ListInv, ListTypes, Distinct
<1>5. TailOfCore'
  BY <1>2, <1>3 DEF TailOfCore
<1>6. Walked' /\ Extending'
  BY <1>3 DEF Walked, Extending
<1>7. Sets!GetCore
  BY <1>1, <1>2, <1>3 DEF GetCore, lists, Sets!GetCore, Sets!search, Settled, Sat, Sets!Sat
<1> QED
  BY <1>4, <1>5, <1>6, <1>7 DEF ListInv

LEMMA MinimiseOneStep ==
  ASSUME ListInv, MinimiseOne
  PROVE  ListInv' /\ Sets!MinimiseOne
<1> DEFINE c == Head(todo)
           p == Len(X) - Len(todo) + 1
<1>1. X \in Seq(Soft) /\ todo \in Seq(Soft) /\ Distinct(X) /\ TailOfCore
  BY DEF ListInv, ListTypes
<1>2. /\ Len(X) \in Nat /\ Len(todo) \in Nat \ {0} /\ Len(todo) <= Len(X)
      /\ DOMAIN X = 1 .. Len(X) /\ DOMAIN todo = 1 .. Len(todo)
  BY <1>1 DEF MinimiseOne, TailOfCore
<1>3. p \in 1 .. Len(X) /\ X[p] = c /\ c = todo[1]
  BY <1>1, <1>2 DEF TailOfCore
<1>4. Distinct(todo)
  <2> SUFFICES ASSUME NEW i \in 1 .. Len(todo), NEW j \in 1 .. Len(todo), todo[i] = todo[j]
               PROVE  i = j
    BY <1>2 DEF Distinct
  <2>1. X[Len(X) - Len(todo) + i] = X[Len(X) - Len(todo) + j]
    BY <1>1 DEF TailOfCore
  <2>2. Len(X) - Len(todo) + i \in 1 .. Len(X) /\ Len(X) - Len(todo) + j \in 1 .. Len(X)
    BY <1>2
  <2>3. Len(X) - Len(todo) + i = Len(X) - Len(todo) + j
    BY <1>1, <1>2, <2>1, <2>2 DEF Distinct
  <2> QED
    BY <1>2, <2>3
<1>5. /\ todo' = Tail(todo) /\ todo' \in Seq(Soft) /\ Len(todo') = Len(todo) - 1
      /\ \A i \in 1 .. Len(todo) - 1 : todo'[i] = todo[i + 1]
      /\ c \in ToSet(todo) /\ ToSet(todo') = ToSet(todo) \ {c}
  BY <1>1, <1>2, <1>4, TailElements DEF MinimiseOne
<1>6. /\ pc = "minimise" /\ pc' = pc /\ UNCHANGED <<E, R, node, next, left, size>>
  BY DEF MinimiseOne, lists, walk
<1>7. /\ X' \in Seq(Soft) /\ Distinct(X')
      /\ ToSet(X') = IF Sat(ToSet(X) \ {c}) THEN ToSet(X) ELSE ToSet(X) \ {c}
  <2>1. CASE Sat(ToSet(X) \ {c})
    BY <1>1, <2>1 DEF MinimiseOne
  <2>2. CASE ~Sat(ToSet(X) \ {c})
    <3>1. X' = RemoveAt(X, p)
      BY <2>2 DEF MinimiseOne
    <3>2. Without(Soft, X, p, RemoveAt(X, p))
      BY <1>1, <1>3, RemoveAtElements
    <3> QED
      BY <1>3, <2>2, <3>1, <3>2 DEF Without
  <2> QED
    BY <2>1, <2>2
<1>8. TailOfCore'
  <2>1. CASE X' = X
    BY <1>1, <1>2, <1>5, <2>1 DEF TailOfCore
  <2>2. CASE X' = RemoveAt(X, p)
    <3>1. /\ Len(X') = Len(X) - 1
          /\ \A i \in 1 .. Len(X) - 1 : X'[i] = IF i < p THEN X[i] ELSE X[i + 1]
      <4>1. Without(Soft, X, p, RemoveAt(X, p))
        BY <1>1, <1>3, RemoveAtElements
      <4> QED
        BY <2>2, <4>1 DEF Without
    <3>2. ASSUME NEW i \in 1 .. Len(todo')
          PROVE  todo'[i] = X'[Len(X') - Len(todo') + i]
      <4>1. i \in 1 .. Len(todo) - 1 /\ i + 1 \in 1 .. Len(todo)
        BY <1>2, <1>5
      <4>2. todo'[i] = X[Len(X) - Len(todo) + (i + 1)]
        BY <1>1, <1>5, <4>1 DEF TailOfCore
      <4>3. Len(X') - Len(todo') + i = Len(X) - Len(todo) + i
        BY <1>2, <1>5, <3>1
      <4>4. /\ Len(X) - Len(todo) + i \in 1 .. Len(X) - 1
            /\ ~(Len(X) - Len(todo) + i < p)
            /\ Len(X) - Len(todo) + i + 1 = Len(X) - Len(todo) + (i + 1)
        BY <1>2, <4>1
      <4> QED
        BY <3>1, <4>2, <4>3, <4>4
    <3> QED
      BY <1>2, <1>5, <3>1, <3>2 DEF TailOfCore
  <2> QED
    BY <2>1, <2>2 DEF MinimiseOne
<1>9. ListTypes' /\ Distinct(E)' /\ Distinct(X)' /\ Walked' /\ Extending'
  BY <1>5, <1>6, <1>7 DEF ListInv, ListTypes, Distinct, Walked, Extending
<1>10. ~Sets!HasLength1(ToSet(X))
  BY <1>1, <1>2, LengthOne DEF MinimiseOne
<1>11. Sets!MinimiseOne
  BY <1>5, <1>6, <1>7, <1>10
     DEF MinimiseOne, lists, Sets!MinimiseOne, Sets!Minimised, Sets!search, Settled, Sat, Sets!Sat
<1> QED
  BY <1>8, <1>9, <1>11 DEF ListInv

LEMMA MinimiseEndStep ==
  ASSUME ListInv, MinimiseEnd
  PROVE  ListInv' /\ Sets!MinimiseEnd
<1>1. /\ pc = "minimise" /\ pc' = "expand" /\ node' = IF E = <<>> THEN 0 ELSE 1
      /\ UNCHANGED <<E, R, X, todo, next, left, size>>
  BY DEF MinimiseEnd, lists
<1>2. E \in Seq(SUBSET Soft) /\ X \in Seq(Soft) /\ todo \in Seq(Soft) /\ Distinct(X)
  BY DEF ListInv, ListTypes
<1>3. ListTypes' /\ Distinct(E)' /\ Distinct(X)' /\ TailOfCore' /\ Extending'
  BY <1>1 DEF ListInv, ListTypes, Distinct, TailOfCore, Extending
<1>4. Walked'
  <2>1. DOMAIN E = 1 .. Len(E) /\ Len(E) \in Nat /\ (E = <<>> <=> Len(E) = 0)
    BY <1>2
  <2> QED
    BY <1>1, <2>1 DEF Walked
<1>5. Sets!HasLength1(ToSet(X)) \/ ToSet(todo) = {}
  BY <1>2, LengthOne, ListElements DEF MinimiseEnd
<1>6. Sets!MinimiseEnd
  BY <1>1, <1>5 DEF MinimiseEnd, lists, Sets!MinimiseEnd, Sets!search, Settled
<1> QED
  BY <1>3, <1>4, <1>6 DEF ListInv

LEMMA ExpandSkipStep ==
  ASSUME ListInv, ExpandSkip
  PROVE  ListInv' /\ UNCHANGED Sets!vars
<1>1. /\ pc = "expand" /\ pc' = pc /\ node # 0 /\ E[node] \cap ToSet(X) # {}
      /\ node' = IF node < Len(E) THEN node + 1 ELSE 0
      /\ UNCHANGED <<consistent, E, R, num_diagnoses, E0, X, todo, status, stop_fixgen,
                     next, left, size>>
  BY DEF ExpandSkip, NextNode, Following, lists
<1>2. ListTypes' /\ Distinct(E)' /\ Distinct(X)' /\ TailOfCore' /\ Extending'
  BY <1>1 DEF ListInv, ListTypes, Distinct, TailOfCore, Extending
<1>3. Walked'
  <2>1. E \in Seq(SUBSET Soft) /\ DOMAIN E = 1 .. Len(E) /\ Len(E) \in Nat /\ node \in Nat
    BY DEF ListInv, ListTypes
  <2>2. node <= Len(E) /\ \A i \in DOMAIN E : i < node => E[i] \cap ToSet(X) # {}
    BY <1>1 DEF ListInv, Walked
  <2>3. \A i \in DOMAIN E : i <= node => E[i] \cap ToSet(X) # {}
    BY <1>1, <2>1, <2>2
  <2>4. node' <= Len(E)
    BY <1>1, <2>1
  <2>5. \A i \in DOMAIN E : node' = 0 \/ i < node' => i <= node
    BY <1>1, <2>1, <2>2
  <2> QED
    BY <1>1, <2>3, <2>4, <2>5 DEF Walked
<1>4. UNCHANGED Sets!vars
  BY <1>1 DEF Sets!vars, Settled
<1> QED
  BY <1>2, <1>3, <1>4 DEF ListInv

\* Nothing has been visited yet, and nothing appended.
LEMMA ExpandOneStep ==
  ASSUME ListInv, ExpandOne
  PROVE  ListInv' /\ UNCHANGED Sets!vars
<1>1. /\ pc = "expand" /\ pc' = "extend" /\ node # 0 /\ E[node] \cap ToSet(X) = {}
      /\ next' = IF node < Len(E) THEN node + 1 ELSE 0
      /\ left' = X /\ size' = Len(E)
      /\ UNCHANGED <<consistent, E, R, num_diagnoses, E0, X, todo, status, stop_fixgen, node>>
  BY DEF ExpandOne, NextNode, Following, lists
<1>2. /\ E \in Seq(SUBSET Soft) /\ DOMAIN E = 1 .. Len(E) /\ Len(E) \in Nat
      /\ X \in Seq(Soft) /\ Distinct(X) /\ node \in 1 .. Len(E)
  BY <1>1 DEF ListInv, ListTypes, Walked
<1>3. ListTypes' /\ Distinct(E)' /\ Distinct(X)' /\ TailOfCore' /\ Walked'
  BY <1>1, <1>2 DEF ListInv, ListTypes, Distinct, TailOfCore, Walked
<1>4. Visited' = {} /\ (size + 1)' .. Len(E)' = {}
  BY <1>1, <1>2 DEF Visited
<1>5. Extending'
  BY <1>1, <1>2, <1>4 DEF Extending, Distinct
<1>6. Settled' = Settled
  BY <1>1, <1>2 DEF Settled, ToSet
<1>7. UNCHANGED Sets!vars
  BY <1>1, <1>6 DEF Sets!vars
<1> QED
  BY <1>3, <1>5, <1>7 DEF ListInv

\* One element of the core.  An extension is compared with the lists appended
\* before it too; none of them subsumes it, since they differ from it in an
\* element of the core, which the diagnosis at "node" misses.
LEMMA ExtendStep ==
  ASSUME ListInv, Extend
  PROVE  ListInv' /\ UNCHANGED Sets!vars
<1> DEFINE e == E[node]
           x == Head(left)
           E1 == e \cup {x}
<1>1. /\ pc = "extend" /\ pc' = pc
      /\ E' = IF Subsumed(E1) THEN E ELSE Append(E, E1)
      /\ left' = Tail(left) /\ left # <<>>
      /\ UNCHANGED <<consistent, R, num_diagnoses, E0, X, todo, status, stop_fixgen,
                     node, next, size>>
  BY DEF Extend
<1>2. /\ E \in Seq(SUBSET Soft) /\ DOMAIN E = 1 .. Len(E) /\ Len(E) \in Nat
      /\ R \in Seq(SUBSET Soft) /\ X \in Seq(Soft) /\ left \in Seq(Soft)
      /\ Distinct(E) /\ size \in Nat
  BY DEF ListInv, ListTypes
<1>3. /\ node \in 1 .. size /\ size <= Len(E) /\ e \cap ToSet(X) = {}
      /\ next = IF node < size THEN node + 1 ELSE 0
      /\ Distinct(left) /\ ToSet(left) \subseteq ToSet(X)
  BY <1>1 DEF ListInv, Extending
<1>4. \A i \in (size + 1) .. Len(E) : \E y \in Visited : E[i] = e \cup {y} /\ Fresh(E[i])
  BY <1>1 DEF ListInv, Extending
<1>5. \A y \in Visited :
        Fresh(e \cup {y}) => \E i \in (size + 1) .. Len(E) : E[i] = e \cup {y}
  BY <1>1 DEF ListInv, Extending
<1>6. /\ left' \in Seq(Soft) /\ Distinct(left') /\ x \in ToSet(left)
      /\ ToSet(left') = ToSet(left) \ {x}
  BY <1>1, <1>2, <1>3, TailElements
<1>7. x \in ToSet(X) /\ x \notin e /\ x \notin Visited /\ x \in Soft
  BY <1>2, <1>3, <1>6, ListElements DEF Visited
<1>8. Visited' = Visited \cup {x} /\ Visited \subseteq ToSet(X)
  BY <1>1, <1>6, <1>7 DEF Visited
<1>9. e \in SUBSET Soft /\ E1 \in SUBSET Soft
  BY <1>2, <1>3, <1>7
<1>10. Subsumed(E1) <=> ~Fresh(E1)
  <2>1. ~Fresh(E1) => Subsumed(E1)
    <3>1. (1 .. size) \ {node} \subseteq DOMAIN E \ {node}
      BY <1>2, <1>3
    <3> HIDE DEF E1
    <3> QED BY <3>1 DEF Fresh, Subsumed
  <2>2. ASSUME Fresh(E1), NEW i \in DOMAIN E \ {node}, E[i] \subseteq E1 PROVE FALSE
    <3>1. i \in (size + 1) .. Len(E)
      BY <1>2, <1>3, <2>2 DEF Fresh
    <3>2. PICK y \in Visited : E[i] = e \cup {y}
      BY <1>4, <3>1
    <3>3. y \in e \cup {x} /\ y \in ToSet(X)
      BY <1>8, <2>2, <3>2
    <3>4. y = x
      <4>1. y \notin e
        BY <1>3, <3>3
      <4> HIDE DEF e, x
      <4> QED BY <3>3, <4>1
    <3> QED
      BY <1>7, <3>2, <3>4
  <2>3. Subsumed(E1) => ~Fresh(E1)
    BY <2>2 DEF Fresh, Subsumed
  <2> QED
    BY <2>1, <2>3
<1> HIDE DEF E1, x, e
<1>11. /\ E' \in Seq(SUBSET Soft) /\ Len(E') \in {Len(E), Len(E) + 1}
       /\ \A i \in 1 .. Len(E) : E'[i] = E[i]
       /\ Len(E') = IF Fresh(E1) THEN Len(E) + 1 ELSE Len(E)
       /\ Fresh(E1) => E'[Len(E) + 1] = E1
       /\ DOMAIN E' = 1 .. Len(E')
  BY <1>1, <1>2, <1>9, <1>10, AppendElements
<1>12. /\ E'[node] = e
       /\ \A i \in 1 .. size : E'[i] = E[i]
  BY <1>2, <1>3, <1>11 DEF e
<1>13. \A D : Fresh(D)' <=> Fresh(D)
  BY <1>1, <1>12 DEF Fresh
<1>14. ListTypes' /\ Distinct(X)' /\ TailOfCore'
  BY <1>1, <1>6, <1>11 DEF ListInv, ListTypes, Distinct, TailOfCore
<1>15. Distinct(E')
  <2>1. CASE ~Fresh(E1)
    BY <1>1, <1>2, <1>10, <2>1
  <2>2. CASE Fresh(E1)
    <3>1. \A i \in 1 .. Len(E) : E[i] # E1
      <4>1. e # E1
        BY <1>7 DEF E1
      <4>2. ~Subsumed(E1)
        BY <1>10, <2>2
      <4> QED
        BY <1>2, <4>1, <4>2 DEF Subsumed, e
    <3>2. \A i \in 1 .. Len(E) : E'[i] = E[i] /\ E'[i] # E1
      BY <1>11, <3>1
    <3>3. DOMAIN E' = 1 .. Len(E) + 1 /\ E'[Len(E) + 1] = E1
      BY <1>11, <2>2
    <3> QED
      BY <1>2, <3>2, <3>3 DEF Distinct
  <2> QED
    BY <2>1, <2>2
<1>16. Walked'
  <2>1. \A i \in DOMAIN E' : i < node => E[i] \cap ToSet(X) # {} /\ E'[i] = E[i]
    BY <1>1, <1>2, <1>3, <1>11 DEF ListInv, Walked
  <2> QED
    BY <1>1, <1>2, <1>3, <1>11, <2>1 DEF Walked
<1>17. \A i \in (size + 1)' .. Len(E') :
         \E y \in Visited' : E'[i] = e \cup {y} /\ Fresh(E'[i])
  <2> SUFFICES ASSUME NEW i \in (size + 1) .. Len(E')
               PROVE  \E y \in Visited' : E'[i] = e \cup {y} /\ Fresh(E'[i])
    BY <1>1
  <2>1. CASE i \in (size + 1) .. Len(E)
    BY <1>2, <1>4, <1>8, <1>11, <2>1
  <2>2. CASE i = Len(E) + 1 /\ Fresh(E1)
    BY <1>8, <1>11, <2>2 DEF E1
  <2> QED
    BY <1>2, <1>11, <2>1, <2>2
<1>18. \A y \in Visited' :
         Fresh(e \cup {y}) => \E i \in (size + 1)' .. Len(E') : E'[i] = e \cup {y}
  <2> SUFFICES ASSUME NEW y \in Visited', Fresh(e \cup {y})
               PROVE  \E i \in (size + 1) .. Len(E') : E'[i] = e \cup {y}
    BY <1>1
  <2>1. CASE y \in Visited
    <3>1. PICK i \in (size + 1) .. Len(E) : E[i] = e \cup {y}
      BY <1>5, <2>1 DEF e
    <3>2. i \in (size + 1) .. Len(E') /\ E'[i] = e \cup {y}
      BY <1>2, <1>11, <3>1
    <3> QED
      BY <3>2
  <2>2. CASE y = x
    <3>1. Len(E) + 1 \in (size + 1) .. Len(E') /\ E'[Len(E) + 1] = e \cup {y}
      BY <1>2, <1>3, <1>11, <2>2 DEF E1
    <3> QED
      BY <3>1
  <2> QED
    BY <1>8, <2>1, <2>2
<1>19. Extending'
  <2>1. /\ node' \in 1 .. size' /\ size' <= Len(E') /\ E'[node'] \cap ToSet(X') = {}
        /\ next' = IF node' < size' THEN node' + 1 ELSE 0
        /\ Distinct(left') /\ ToSet(left') \subseteq ToSet(X')
    BY <1>1, <1>2, <1>3, <1>6, <1>11, <1>12
  <2>2. E'[node'] = e
    BY <1>1, <1>12
  <2> QED
    BY <1>13, <1>17, <1>18, <2>1, <2>2 DEF Extending
<1>20. Settled' = Settled
  BY <1>1, <1>12 DEF Settled
<1>21. UNCHANGED Sets!vars
  BY <1>1, <1>20 DEF Sets!vars
<1> QED
  BY <1>14, <1>15, <1>16, <1>19, <1>21 DEF ListInv

\* The inner loop is through: what it has appended are the extensions that the
\* set search puts in the place of the diagnosis.
LEMMA ReplaceStep ==
  ASSUME ListInv, Replace
  PROVE  ListInv' /\ Sets!ExpandOne
<1> DEFINE e == E[node]
<1>1. /\ pc = "extend" /\ pc' = "expand" /\ left = <<>>
      /\ E' = RemoveAt(E, node)
      /\ node' = IF next = 0 THEN 0 ELSE next - 1
      /\ next' = 0 /\ size' = 0
      /\ UNCHANGED <<consistent, R, num_diagnoses, E0, X, todo, status, stop_fixgen, left>>
  BY DEF Replace
<1>2. /\ E \in Seq(SUBSET Soft) /\ DOMAIN E = 1 .. Len(E) /\ Len(E) \in Nat
      /\ R \in Seq(SUBSET Soft) /\ X \in Seq(Soft) /\ Distinct(E) /\ size \in Nat
  BY DEF ListInv, ListTypes
<1>3. /\ node \in 1 .. size /\ size <= Len(E) /\ e \cap ToSet(X) = {}
      /\ next = IF node < size THEN node + 1 ELSE 0
  BY <1>1 DEF ListInv, Extending
<1>4. Visited = ToSet(X)
  BY <1>1 DEF Visited, ToSet
<1>5. /\ \A i \in (size + 1) .. Len(E) :
           \E y \in ToSet(X) : E[i] = e \cup {y} /\ Fresh(E[i])
      /\ \A y \in ToSet(X) :
           Fresh(e \cup {y}) => \E i \in (size + 1) .. Len(E) : E[i] = e \cup {y}
  BY <1>1, <1>4 DEF ListInv, Extending
<1>6. /\ E' \in Seq(SUBSET Soft) /\ Len(E') = Len(E) - 1
      /\ \A i \in 1 .. Len(E) - 1 : E'[i] = IF i < node THEN E[i] ELSE E[i + 1]
      /\ Distinct(E') /\ ToSet(E') = ToSet(E) \ {e}
  <2>1. node \in 1 .. Len(E)
    BY <1>2, <1>3
  <2>2. Without(SUBSET Soft, E, node, E')
    <3> DEFINE lists_of == SUBSET Soft
    <3>1. E \in Seq(lists_of) /\ Distinct(E)
      BY <1>2
    <3> HIDE DEF lists_of
    <3>2. Without(lists_of, E, node, RemoveAt(E, node))
      BY ONLY <2>1, <3>1, RemoveAtElements
    <3> QED
      BY <1>1, <3>2 DEF lists_of
  <2> QED
    BY <2>2 DEF Without
<1>7. node' \in Nat /\ node' <= Len(E')
  BY <1>1, <1>2, <1>3, <1>6
<1>8. ListTypes' /\ Distinct(X)' /\ TailOfCore' /\ Extending'
  BY <1>1, <1>6, <1>7 DEF ListInv, ListTypes, Distinct, TailOfCore, Extending
<1>9. Walked'
  <2> SUFFICES ASSUME NEW i \in 1 .. Len(E) - 1, node' = 0 \/ i < node'
               PROVE  E'[i] \cap ToSet(X) # {}
    BY <1>1, <1>2, <1>6, <1>7 DEF Walked
  <2>1. CASE i < node
    <3>1. i \in DOMAIN E /\ E'[i] = E[i]
      BY <1>2, <1>6, <2>1
    <3>2. E[i] \cap ToSet(X) # {}
      BY <1>1, <2>1, <3>1 DEF ListInv, Walked
    <3> QED
      BY <3>1, <3>2
  <2>2. CASE i >= node
    <3>1. i + 1 \in (size + 1) .. Len(E)
      BY <1>1, <1>2, <1>3, <2>2
    <3>2. PICK y \in ToSet(X) : E[i + 1] = e \cup {y}
      BY <1>5, <3>1
    <3>3. E'[i] = e \cup {y}
      BY <1>2, <1>3, <1>6, <2>2, <3>2
    <3> QED
      BY <3>3
  <2> QED
    BY <1>2, <1>3, <2>1, <2>2
<1>10. \A i \in 1 .. Len(E) : E[i] = e <=> i = node
  BY <1>2, <1>3 DEF Distinct
<1>11. \A D : Fresh(D) <=> \A E2 \in Sets!Others(e) : ~(E2 \subseteq D)
  <2>1. Settled = {E[i] : i \in 1 .. size} /\ ToSet(R) = {R[i] : i \in DOMAIN R}
    BY <1>1 DEF Settled, ToSet
  <2>2. Settled \ {e} = {E[i] : i \in (1 .. size) \ {node}}
    BY <1>2, <1>3, <1>10, <2>1
  <2> QED
    BY <2>1, <2>2 DEF Fresh, Sets!Others
<1>12. Sets!Extensions(e) = {E[i] : i \in (size + 1) .. Len(E)}
  <2>1. ASSUME NEW D \in Sets!Extensions(e) PROVE \E i \in (size + 1) .. Len(E) : D = E[i]
    <3>1. PICK y \in ToSet(X) : D = e \cup {y}
      BY DEF Sets!Extensions
    <3>2. Fresh(D)
      BY <1>11 DEF Sets!Extensions
    <3> QED
      BY <1>5, <3>1, <3>2
  <2>2. ASSUME NEW i \in (size + 1) .. Len(E) PROVE E[i] \in Sets!Extensions(e)
    BY <1>5, <1>11 DEF Sets!Extensions
  <2> QED
    BY <2>1, <2>2
<1>13. ToSet(E) = {E[i] : i \in 1 .. size} \cup {E[i] : i \in (size + 1) .. Len(E)}
  <2>1. DOMAIN E = (1 .. size) \cup ((size + 1) .. Len(E))
    BY <1>2, <1>3
  <2> QED
    BY <2>1 DEF ToSet
<1>14. e \in Settled /\ Settled' = (Settled \ {e}) \cup Sets!Extensions(e)
  <2>1. Settled = {E[i] : i \in 1 .. size} /\ Settled' = ToSet(E) \ {e}
    BY <1>1, <1>6 DEF Settled
  <2>2. e \notin {E[i] : i \in (size + 1) .. Len(E)}
    BY <1>2, <1>3, <1>10
  <2>3. e \in {E[i] : i \in 1 .. size}
    BY <1>3
  <2> QED
    BY <1>12, <1>13, <2>1, <2>2, <2>3
<1>15. Sets!ExpandOne
  BY <1>1, <1>3, <1>14 DEF Sets!ExpandOne
<1> QED
  BY <1>6, <1>8, <1>9, <1>15 DEF ListInv

----------------------------------------------------------------------------
\* Every step of the lists keeps the invariant and is a step of the set search,
\* or none.
LEMMA ListStep ==
  ASSUME ListInv, [Next]_vars
  PROVE  ListInv' /\ [Sets!Next]_(Sets!vars)
<1>1. CASE SolveSat
  BY <1>1, SolveSatStep DEF Sets!Next, Sets!Step
<1>2. CASE SolveUnsat
  <2>1. E \in Seq(SUBSET Soft) /\ Head(E) \in ToSet(E)
    BY <1>2, TailElements DEF ListInv, ListTypes, SolveUnsat
  <2>2. Sets!SolveUnsat
    BY <1>2, <2>1 DEF SolveUnsat, lists, Sets!SolveUnsat, Sets!search, Settled, Sat, Sets!Sat
  <2> QED
    BY <1>2, <2>2, ListsKept DEF SolveUnsat, lists, Sets!Next, Sets!Step
<1>3. CASE Exhausted
  <2>1. Sets!Exhausted
    BY <1>3 DEF Exhausted, lists, Sets!Exhausted, Sets!search, Settled, ToSet
  <2> QED
    BY <1>3, <2>1, ListsKept DEF Exhausted, lists, Sets!Next, Sets!Step
<1>4. CASE Timeout
  <2>1. Sets!Timeout
    BY <1>4 DEF Timeout, lists, Sets!Timeout, Sets!search, Settled
  <2> QED
    BY <1>4, <2>1, ListsKept DEF Timeout, lists, Sets!Next, Sets!Step
<1>5. CASE Cancel
  <2>1. Sets!Cancel
    BY <1>5 DEF Cancel, lists, Sets!Cancel, Sets!search, Settled
  <2> QED
    BY <1>5, <2>1, ListsKept DEF Cancel, lists, Sets!Next, Sets!Step
<1>6. CASE GetCore
  BY <1>6, GetCoreStep DEF Sets!Next, Sets!Step
<1>7. CASE MinimiseOne
  BY <1>7, MinimiseOneStep DEF Sets!Next, Sets!Step
<1>8. CASE MinimiseEnd
  BY <1>8, MinimiseEndStep DEF Sets!Next, Sets!Step
<1>9. CASE ExpandSkip
  BY <1>9, ExpandSkipStep
<1>10. CASE ExpandOne
  BY <1>10, ExpandOneStep
<1>11. CASE Extend
  BY <1>11, ExtendStep
<1>12. CASE Replace
  BY <1>12, ReplaceStep DEF Sets!Next, Sets!Step
<1>13. CASE ExpandEnd
  <2>1. \A e \in ToSet(E) : e \cap ToSet(X) # {}
    BY <1>13 DEF ExpandEnd, ListInv, Walked, ToSet
  <2>2. Sets!ExpandEnd
    BY <1>13, <2>1 DEF ExpandEnd, lists, Sets!ExpandEnd, Sets!search, Settled
  <2> QED
    BY <1>13, <2>2, ListsKept DEF ExpandEnd, lists, Sets!Next, Sets!Step
<1>14. CASE Interrupt
  <2>1. Sets!Interrupt
    BY <1>14 DEF Interrupt, lists, walk, Sets!Interrupt, Sets!search, Settled
  <2> QED
    BY <1>14, <2>1, ListsKept DEF Interrupt, lists, Sets!Next
<1>15. CASE NextRun
  <2>1. ListInv'
    BY <1>15 DEF NextRun, ListInv, ListTypes, Distinct, TailOfCore, Walked, Extending
  <2>2. Sets!NextRun
    BY <1>15, FirstLists DEF NextRun, Sets!NextRun, Settled
  <2> QED
    BY <2>1, <2>2 DEF Sets!Next
<1>16. CASE UNCHANGED vars
  <2>1. UNCHANGED <<E, R, X, todo, walk, pc>>
    BY <1>16 DEF vars
  <2>2. UNCHANGED Sets!vars
    BY <1>16, <2>1 DEF vars, walk, Sets!vars, Settled
  <2> QED
    BY <2>1, <2>2, ListsKept
<1> QED
  BY <1>1, <1>2, <1>3, <1>4, <1>5, <1>6, <1>7, <1>8, <1>9, <1>10, <1>11, <1>12, <1>13,
     <1>14, <1>15, <1>16 DEF Next, Step

LEMMA ListStart == Init => ListInv /\ Sets!Init
<1> SUFFICES ASSUME Init PROVE ListInv /\ Sets!Init
  OBVIOUS
<1>1. ListInv
  BY StartList DEF Init
<1>2. Sets!Init
  BY FirstLists DEF Init, Sets!Init, Settled
<1> QED
  BY <1>1, <1>2

\* What the set search relies on about the lists it is played with holds
\* throughout.
THEOREM ListsInvariant == Spec => []ListInv
<1>1. Init => ListInv
  BY ListStart
<1>2. ListInv /\ [Next]_vars => ListInv'
  BY ListStep
<1> QED
  BY <1>1, <1>2, PTL DEF Spec

\* The search on its linked lists (cf_fixgen.c:164-298) implements the search
\* on sets: the walk over E that deletes and appends under its own cursor
\* misses no partial diagnosis, and comparing an extension with those appended
\* before it makes no difference.
THEOREM ListsImplementSets == Spec => ImplementsFixGen
<1>1. Init => Sets!Init
  BY ListStart
<1>2. ListInv /\ [Next]_vars => [Sets!Next]_(Sets!vars)
  BY ListStep
<1> QED
  BY <1>1, <1>2, ListsInvariant, PTL DEF Spec, ImplementsFixGen, Sets!Spec

----------------------------------------------------------------------------
(* What is proved of the set search holds of the lists. *)

SetProofs == INSTANCE FixGenProofs WITH
               pc <- IF pc = "extend" THEN "expand" ELSE pc,
               E <- Settled, R <- ToSet(R), X <- ToSet(X), todo <- ToSet(todo)

LEMMA SameSearch ==
  /\ Sets!Init => SetProofs!Init
  /\ [Sets!Next]_(Sets!vars) => [SetProofs!Next]_(SetProofs!vars)
<1> USE DEF Sets!Sat, SetProofs!Sat, Sets!search, SetProofs!search
<1>1. Sets!Init => SetProofs!Init
  BY DEF Sets!Init, SetProofs!Init, Sets!Solvers, SetProofs!Solvers
<1>2. Sets!SolveSat => SetProofs!SolveSat
  BY DEF Sets!SolveSat, SetProofs!SolveSat, Sets!Keep, SetProofs!Keep,
         Sets!LimitReached, SetProofs!LimitReached
<1>3. /\ Sets!SolveUnsat => SetProofs!SolveUnsat
      /\ Sets!Exhausted => SetProofs!Exhausted
      /\ Sets!Timeout => SetProofs!Timeout
      /\ Sets!Cancel => SetProofs!Cancel
      /\ Sets!GetCore => SetProofs!GetCore
  BY DEF Sets!SolveUnsat, SetProofs!SolveUnsat, Sets!Exhausted, SetProofs!Exhausted,
         Sets!Timeout, SetProofs!Timeout, Sets!Cancel, SetProofs!Cancel,
         Sets!GetCore, SetProofs!GetCore
<1>4. /\ Sets!MinimiseOne => SetProofs!MinimiseOne
      /\ Sets!MinimiseEnd => SetProofs!MinimiseEnd
  BY DEF Sets!MinimiseOne, SetProofs!MinimiseOne, Sets!MinimiseEnd, SetProofs!MinimiseEnd,
         Sets!Minimised, SetProofs!Minimised, Sets!HasLength1, SetProofs!HasLength1
<1>5. /\ Sets!ExpandOne => SetProofs!ExpandOne
      /\ Sets!ExpandEnd => SetProofs!ExpandEnd
  BY DEF Sets!ExpandOne, SetProofs!ExpandOne, Sets!ExpandEnd, SetProofs!ExpandEnd,
         Sets!Extensions, SetProofs!Extensions, Sets!Others, SetProofs!Others
<1>6. /\ Sets!Interrupt => SetProofs!Interrupt
      /\ Sets!NextRun => SetProofs!NextRun
  BY DEF Sets!Interrupt, SetProofs!Interrupt, Sets!NextRun, SetProofs!NextRun,
         Sets!Solvers, SetProofs!Solvers
<1>7. UNCHANGED Sets!vars => UNCHANGED SetProofs!vars
  BY DEF Sets!vars, SetProofs!vars
<1> QED
  BY <1>1, <1>2, <1>3, <1>4, <1>5, <1>6, <1>7
     DEF Sets!Next, Sets!Step, SetProofs!Next, SetProofs!Step

\* Whatever the order in which the solver returns its cores, the lists that
\* fixgen_run() hands on are minimal correction sets, and all of them unless
\* the run was cut short.
THEOREM ListsReportMinimal == Spec => [](SetProofs!DiagnosesMinimal /\ SetProofs!ExhaustiveWhenNormal)
<1>1. Spec => SetProofs!Spec
  BY ListsImplementSets, SameSearch, PTL DEF ImplementsFixGen, Sets!Spec, SetProofs!Spec
<1>2. SetProofs!Spec => [](SetProofs!DiagnosesMinimal /\ SetProofs!ExhaustiveWhenNormal)
  BY SetProofs!ReportsMinimal, SetProofs!ReportsAll, SoftAssumption, MaxAssumption, PTL
     DEF IsFiniteSet, SetProofs!IsFiniteSet
<1> QED
  BY <1>1, <1>2, PTL
=============================================================================
