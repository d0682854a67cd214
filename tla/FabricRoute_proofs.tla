------------------------- MODULE FabricRoute_proofs -------------------------
(***************************************************************************)
(* What enumeratePaths and computeRoute return, for every typed snapshot   *)
(* that passed checkIntegrity.                                             *)
(*                                                                         *)
(* The search is a function by recursion over the levels of the frontier,  *)
(* and each level is a FlattenSeq of lists of edges.  So the facts build   *)
(* up from below: sorted adjacency lists hold each edge once; FlattenSeq   *)
(* draws every element from one of its lists, in order; a step of the      *)
(* search takes a simple prefix to a simple prefix; hence every level has  *)
(* only simple prefixes, no two alike, and so has the list of paths        *)
(* (EnumeratedOK).  Conversely a walk over usable links is found level by  *)
(* level: each holds the prefix that follows it (AllFound).  The ranking   *)
(* is a strict order on the candidates, so there is a best one and it is a *)
(* candidate (BestChosen), and no measured rate moves it (BestAlike).      *)
(* DecisionMade says what computeRoute makes of these, DecisionSound and   *)
(* DecisionAlike what that means for its outcome.                          *)
(***************************************************************************)
EXTENDS FabricRoute, TLAPS, FiniteSetTheorems, NaturalsInduction

-----------------------------------------------------------------------------
(* Numbers and finite sets.  The induction principles of the library take an *)
(* operator; here the property is the set of the numbers that have it.       *)

\* A nonempty set of numbers has a least element.
LEMMA LeastNumber ==
    ASSUME NEW S \in SUBSET Nat, S # {}
    PROVE  \E x \in S : \A y \in S : x <= y
  <1> DEFINE R == OpToRel(<, Nat)
  <1>1. IsWellFoundedOn(R, Nat)  BY NatLessThanWellFounded, Zenon
  <1>2. \A x, y \in Nat : <<y, x>> \notin R => x <= y  BY DEF OpToRel
  <1> HIDE DEF R
  <1>3. PICK x \in S : \A y \in S : <<y, x>> \notin R  BY <1>1, WFMin
  <1>4. QED  BY <1>2, <1>3

\* Induction over the numbers.
LEMMA SetInduction ==
    ASSUME NEW S, 0 \in S, \A n \in Nat : n \in S => n + 1 \in S
    PROVE  Nat \subseteq S
  <1> DEFINE T == Nat \ S
  <1>1. SUFFICES ASSUME T # {}  PROVE FALSE  OBVIOUS
  <1>2. PICK x \in T : \A y \in T : x <= y
    <2>1. T \in SUBSET Nat  OBVIOUS
    <2>2. QED  BY <1>1, <2>1, LeastNumber
  <1>3. x # 0 /\ x - 1 \in Nat  BY <1>2
  <1>4. x - 1 \notin T  BY <1>2, <1>3
  <1>5. QED  BY <1>3, <1>4

\* What is below x in the relation R.
Below(R, S, x) == {y \in S : <<y, x>> \in R}

Rank(R, S, x) == Cardinality(Below(R, S, x))

StrictOrder(R, S) ==
    /\ \A x \in S : <<x, x>> \notin R
    /\ \A x, y, z \in S : <<x, y>> \in R /\ <<y, z>> \in R => <<x, z>> \in R

\* The rank grows along a strict order and stays below the size of the set.
LEMMA RankGrows ==
    ASSUME NEW R, NEW S, IsFiniteSet(S), StrictOrder(R, S), NEW x \in S
    PROVE  /\ Rank(R, S, x) \in 0 .. (Cardinality(S) - 1)
           /\ \A y \in S : <<y, x>> \in R => Rank(R, S, y) < Rank(R, S, x)
  <1>1. Below(R, S, x) \in SUBSET (S \ {x})  BY DEF Below, StrictOrder
  <1>2. IsFiniteSet(S \ {x}) /\ Cardinality(S \ {x}) = Cardinality(S) - 1  BY FS_RemoveElement
  <1>3. /\ IsFiniteSet(Below(R, S, x)) /\ Rank(R, S, x) <= Cardinality(S) - 1
        /\ Rank(R, S, x) \in Nat /\ Cardinality(S) \in Nat
    BY <1>1, <1>2, FS_Subset, FS_CardinalityType DEF Rank
  <1>4. ASSUME NEW y \in S, <<y, x>> \in R  PROVE Rank(R, S, y) < Rank(R, S, x)
    <2>1. Below(R, S, y) \in SUBSET (Below(R, S, x) \ {y})  BY <1>4 DEF Below, StrictOrder
    <2>2. y \in Below(R, S, x)  BY <1>4 DEF Below
    <2>3. /\ IsFiniteSet(Below(R, S, x) \ {y})
          /\ Cardinality(Below(R, S, x) \ {y}) = Rank(R, S, x) - 1
      BY <1>3, <2>2, FS_RemoveElement DEF Rank
    <2>4. Rank(R, S, y) <= Rank(R, S, x) - 1 /\ Rank(R, S, y) \in Nat
      BY <2>1, <2>3, FS_Subset, FS_CardinalityType DEF Rank
    <2>5. QED  BY <1>3, <2>4
  <1>5. QED  BY <1>3, <1>4

\* A nonempty finite set has a minimal element in every strict order.
LEMMA MinimalElement ==
    ASSUME NEW R, NEW S, IsFiniteSet(S), S # {}, StrictOrder(R, S)
    PROVE  \E x \in S : \A y \in S : <<y, x>> \notin R
  <1> DEFINE ranks == {Rank(R, S, x) : x \in S}
  <1>1. ranks \in SUBSET Nat /\ ranks # {}
    <2>1. \A x \in S : Rank(R, S, x) \in Nat
      BY RankGrows, FS_CardinalityType
    <2>2. QED  BY <2>1
  <1>2. PICK r \in ranks : \A q \in ranks : r <= q  BY <1>1, LeastNumber
  <1>3. PICK x \in S : r = Rank(R, S, x)  OBVIOUS
  <1>4. ASSUME NEW y \in S, <<y, x>> \in R  PROVE FALSE
    <2>1. Rank(R, S, y) < Rank(R, S, x)  BY <1>4, RankGrows
    <2>2. Rank(R, S, y) \in Nat /\ Rank(R, S, x) \in Nat  BY <1>1
    <2>3. Rank(R, S, x) <= Rank(R, S, y)  BY <1>2, <1>3
    <2>4. QED  BY <2>1, <2>2, <2>3
  <1>5. QED  BY <1>3, <1>4

\* The least and the largest element of a finite set of integers.
LEMMA MinMax ==
    ASSUME NEW S \in SUBSET Int, IsFiniteSet(S), S # {}
    PROVE  /\ Min(S) \in S /\ \A x \in S : Min(S) <= x
           /\ Max(S) \in S /\ \A x \in S : x <= Max(S)
  <1> DEFINE Lt == {p \in S \X S : p[1] < p[2]}
             Gt == {p \in S \X S : p[2] < p[1]}
  <1>1. \E x \in S : \A y \in S : x <= y
    <2>1. StrictOrder(Lt, S)  BY DEF StrictOrder
    <2>2. \A x, y \in S : <<y, x>> \notin Lt => x <= y  OBVIOUS
    <2> HIDE DEF Lt
    <2>3. QED  BY <2>1, <2>2, MinimalElement
  <1>2. \E x \in S : \A y \in S : x >= y
    <2>1. StrictOrder(Gt, S)  BY DEF StrictOrder
    <2>2. \A x, y \in S : <<y, x>> \notin Gt => x >= y  OBVIOUS
    <2> HIDE DEF Gt
    <2>3. QED  BY <2>1, <2>2, MinimalElement
  <1>3. Min(S) \in S /\ \A y \in S : Min(S) <= y  BY <1>1 DEF Min
  <1>4. Max(S) \in S /\ \A y \in S : Max(S) >= y  BY <1>2 DEF Max
  <1>5. QED  BY <1>3, <1>4

-----------------------------------------------------------------------------
(* The adjacency lists. *)

\* What the search needs of a snapshot.
Searchable(t) == IsTopology(t) /\ CheckIntegrity(t)

LEMMA SearchableFacts ==
    ASSUME NEW t, Searchable(t)
    PROVE  /\ IsFiniteSet(DOMAIN t.links) /\ IsFiniteSet(DOMAIN t.switches)
           /\ DOMAIN t.links \subseteq LinkIds /\ DOMAIN t.switches \subseteq SwitchIds
           /\ \A l \in DOMAIN t.links :
                 /\ l \in Nat
                 /\ t.links[l] \in LinkRecord
                 /\ t.links[l].port \in PortIds /\ t.links[l].port[1] = t.links[l].rootSwitch
                 /\ t.links[l].port[1] \in Nat /\ t.links[l].port[2] \in Nat
                 /\ t.links[l].rootSwitch \in DOMAIN t.switches
  <1>1. IsMap(t.links, LinkIds, LinkRecord) /\ IsMap(t.switches, SwitchIds, SwitchRecord)
    BY DEF Searchable, IsTopology
  <1>2. /\ DOMAIN t.links \subseteq LinkIds /\ DOMAIN t.switches \subseteq SwitchIds
        /\ \A l \in DOMAIN t.links : t.links[l] \in LinkRecord
    BY <1>1 DEF IsMap
  <1>3. IsFiniteSet(DOMAIN t.links) /\ IsFiniteSet(DOMAIN t.switches)
    BY <1>2, IdWidthAssumption, FS_Subset
  <1>4. ASSUME NEW l \in DOMAIN t.links
        PROVE  /\ t.links[l].port[1] = t.links[l].rootSwitch
               /\ t.links[l].rootSwitch \in DOMAIN t.switches
    BY DEF Searchable, CheckIntegrity, LinkIntegrity
  <1>5. ASSUME NEW rec \in LinkRecord
        PROVE  rec.port \in PortIds /\ rec.port[1] \in Nat /\ rec.port[2] \in Nat
    BY IdAssumption DEF LinkRecord, PortIds
  <1>6. QED  BY <1>2, <1>3, <1>4, <1>5, IdAssumption

EdgeRel(t) == {p \in (DOMAIN t.links) \X (DOMAIN t.links) : EdgeBefore(t, p[1], p[2])}

\* (port, link) orders the links of a snapshot totally.
LEMMA EdgesOrdered ==
    ASSUME NEW t, Searchable(t)
    PROVE  /\ \A k, l \in DOMAIN t.links : <<k, l>> \in EdgeRel(t) <=> EdgeBefore(t, k, l)
           /\ \A S \in SUBSET DOMAIN t.links : StrictOrder(EdgeRel(t), S)
           /\ \A k, l \in DOMAIN t.links :
                 k # l => EdgeBefore(t, k, l) \/ EdgeBefore(t, l, k)
  <1>1. \A k, l \in DOMAIN t.links : <<k, l>> \in EdgeRel(t) <=> EdgeBefore(t, k, l)
    BY DEF EdgeRel
  <1>2. \A l \in DOMAIN t.links :
           /\ l \in Nat /\ t.links[l].port = <<t.links[l].port[1], t.links[l].port[2]>>
           /\ t.links[l].port[1] \in Nat /\ t.links[l].port[2] \in Nat
    BY SearchableFacts DEF PortIds
  <1>3. \A l \in DOMAIN t.links : ~ EdgeBefore(t, l, l)
    BY <1>2 DEF EdgeBefore
  <1>4. \A k, l, m \in DOMAIN t.links :
           EdgeBefore(t, k, l) /\ EdgeBefore(t, l, m) => EdgeBefore(t, k, m)
    BY <1>2 DEF EdgeBefore
  <1>5. \A k, l \in DOMAIN t.links : k # l => EdgeBefore(t, k, l) \/ EdgeBefore(t, l, k)
    BY <1>2 DEF EdgeBefore
  <1>6. \A S \in SUBSET DOMAIN t.links : StrictOrder(EdgeRel(t), S)
    BY <1>1, <1>3, <1>4 DEF StrictOrder
  <1>7. QED  BY <1>1, <1>5, <1>6

\* e lists the elements of S, none of them twice.
Lists(e, S) ==
    /\ e \in Seq(S)
    /\ S # {} => Len(e) >= 1
    /\ \A x \in S : \E i \in 1 .. Len(e) : e[i] = x
    /\ \A i, j \in 1 .. Len(e) : i # j => e[i] # e[j]

\* e is a list of n entries.
Listing(e, n) == e = [i \in 1 .. n |-> e[i]]

\* A list by rank has every element of S, each once.
LEMMA RankedLists ==
    ASSUME NEW R, NEW S, IsFiniteSet(S), StrictOrder(R, S),
           \A x, y \in S : x # y => <<x, y>> \in R \/ <<y, x>> \in R,
           NEW e, Listing(e, Cardinality(S)),
           \A i \in 1 .. Cardinality(S) : \A x \in S :
              Rank(R, S, x) = i - 1 => e[i] \in S /\ Rank(R, S, e[i]) = i - 1
    PROVE  Lists(e, S) /\ Len(e) = Cardinality(S)
  <1> DEFINE n == Cardinality(S)
             f == [x \in S |-> Rank(R, S, x)]
  <1>1. n \in Nat /\ (S # {} => n >= 1)  BY FS_CardinalityType, FS_EmptySet
  <1>2. \A x \in S : Rank(R, S, x) \in 0 .. (n - 1)  BY RankGrows
  <1> HIDE DEF n
  <1>3. \A x, y \in S : x # y => Rank(R, S, x) # Rank(R, S, y)
    <2> SUFFICES ASSUME NEW x \in S, NEW y \in S, x # y  PROVE Rank(R, S, x) # Rank(R, S, y)
      OBVIOUS
    <2>1. Rank(R, S, x) < Rank(R, S, y) \/ Rank(R, S, y) < Rank(R, S, x)  BY RankGrows
    <2>2. QED  BY <1>1, <1>2, <2>1
  <1>4. f \in Surjection(S, 0 .. (n - 1))
    <2>1. f \in Injection(S, 0 .. (n - 1))
      BY <1>2, <1>3 DEF Injection, IsInjective
    <2>2. IsFiniteSet(0 .. (n - 1)) /\ Cardinality(0 .. (n - 1)) = n
      BY <1>1, FS_Interval
    <2> HIDE DEF f
    <2>3. QED  BY <2>1, <2>2, FS_Injection DEF n
  <1>5. ASSUME NEW i \in 1 .. n  PROVE e[i] \in S /\ Rank(R, S, e[i]) = i - 1
    <2>1. PICK x \in S : Rank(R, S, x) = i - 1
      <3>1. i - 1 \in 0 .. (n - 1)  BY <1>1
      <3>2. QED  BY <1>4, <3>1 DEF Surjection
    <2>2. QED  BY <2>1 DEF n
  <1>6. e \in [1 .. n -> S]
    <2>1. e = [i \in 1 .. n |-> e[i]]  BY DEF n, Listing
    <2>2. QED  BY <1>5, <2>1
  <1>7. ASSUME NEW i \in 1 .. n, NEW j \in 1 .. n, i # j  PROVE e[i] # e[j]
    <2>1. i - 1 # j - 1  BY <1>1, <1>7
    <2>2. QED  BY <1>5, <2>1, Zenon
  <1>8. ASSUME NEW x \in S  PROVE \E i \in 1 .. n : e[i] = x
    <2> DEFINE i == Rank(R, S, x) + 1
    <2>1. i \in 1 .. n /\ i - 1 = Rank(R, S, x)  BY <1>1, <1>2
    <2> HIDE DEF i
    <2>2. e[i] \in S /\ Rank(R, S, e[i]) = Rank(R, S, x)  BY <1>5, <2>1
    <2>3. e[i] = x  BY <1>3, <2>2, Zenon
    <2>4. QED  BY <2>1, <2>3
  <1>9. e \in Seq(S) /\ Len(e) = n  BY <1>1, <1>6
  <1>10. Lists(e, S)  BY <1>1, <1>7, <1>8, <1>9 DEF Lists
  <1>11. QED  BY <1>9, <1>10 DEF n

\* A sorted list holds the edges of the set it was made from, none of them twice.
LEMMA InEdgeOrderLists ==
    ASSUME NEW t, Searchable(t), NEW S, S \subseteq DOMAIN t.links
    PROVE  Lists(InEdgeOrder(t, S), S)
  <1> DEFINE R == EdgeRel(t)
             n == Cardinality(S)
             e == InEdgeOrder(t, S)
  <1>1. IsFiniteSet(S)  BY SearchableFacts, FS_Subset
  <1>2. StrictOrder(R, S)  BY EdgesOrdered
  <1>3. \A x, y \in S : x # y => <<x, y>> \in R \/ <<y, x>> \in R  BY EdgesOrdered
  <1>4. \A x \in S : Rank(R, S, x) = Cardinality({y \in S : EdgeBefore(t, y, x)})
    <2> SUFFICES ASSUME NEW x \in S
                 PROVE  Below(R, S, x) = {y \in S : EdgeBefore(t, y, x)}
      BY DEF Rank
    <2>1. QED  BY EdgesOrdered DEF Below
  <1>5. e = [i \in 1 .. n |-> CHOOSE x \in S : Cardinality({y \in S : EdgeBefore(t, y, x)}) = i - 1]
    BY DEF InEdgeOrder, Ordered
  <1>6. ASSUME NEW i \in 1 .. n, NEW x \in S, Rank(R, S, x) = i - 1
        PROVE  e[i] \in S /\ Rank(R, S, e[i]) = i - 1
    <2>1. Cardinality({y \in S : EdgeBefore(t, y, x)}) = i - 1  BY <1>4, <1>6
    <2>2. e[i] = CHOOSE z \in S : Cardinality({y \in S : EdgeBefore(t, y, z)}) = i - 1
      BY <1>5
    <2>3. e[i] \in S /\ Cardinality({y \in S : EdgeBefore(t, y, e[i])}) = i - 1
      BY <2>1, <2>2
    <2>4. QED  BY <1>4, <2>3
  <1>7. Listing(e, n)  BY <1>5 DEF Listing
  <1> HIDE DEF e, R
  <1>8. Lists(e, S)  BY <1>1, <1>2, <1>3, <1>6, <1>7, RankedLists
  <1>9. QED  BY <1>8 DEF e

-----------------------------------------------------------------------------
(* FlattenSeq. *)

\* Concatenation, for the provers to leave folded.
Cat(a, b) == a \o b

LEMMA CatSeq ==
    ASSUME NEW X, NEW a \in Seq(X), NEW b \in Seq(X)
    PROVE  Cat(a, b) \in Seq(X)
  BY DEF Cat

LEMMA CatFacts ==
    ASSUME NEW X, NEW a \in Seq(X), NEW b \in Seq(X), NEW c, c = Cat(a, b)
    PROVE  /\ Len(a) \in Nat /\ Len(b) \in Nat /\ Len(c) = Len(a) + Len(b)
           /\ \A k \in 1 .. Len(a) : c[k] = a[k]
           /\ \A k \in 1 .. Len(b) : c[Len(a) + k] = b[k]
  BY DEF Cat

\* e is a, of m elements, and then b, of n.
TwoParts(e, a, b, m, n) ==
    /\ Len(e) = m + n
    /\ \A k \in 1 .. m : e[k] = a[k]
    /\ \A k \in 1 .. n : e[m + k] = b[k]

LEMMA TwoJoined ==
    ASSUME NEW X, NEW a \in Seq(X), NEW b \in Seq(X), NEW m \in Nat, NEW n \in Nat,
           m = Len(a), n = Len(b), NEW e, e = Cat(a, b)
    PROVE  e \in Seq(X) /\ TwoParts(e, a, b, m, n)
  <1>1. e \in Seq(X)  BY CatSeq
  <1>2. Len(e) = m + n  BY CatFacts
  <1>3. \A k \in 1 .. m : e[k] = a[k]  BY CatFacts
  <1>4. \A k \in 1 .. n : e[m + k] = b[k]  BY CatFacts
  <1>5. QED  BY <1>1, <1>2, <1>3, <1>4 DEF TwoParts

\* g holds the concatenations of the first i sequences of s, for i up to m.
Partial(g, s, m) == \A i \in 1 .. m : g[i] = IF i = 1 THEN s[i] ELSE Cat(g[i - 1], s[i])

LEMMA PartialStep ==
    ASSUME NEW X, NEW m \in Nat \ {0}, NEW s, s[m + 1] \in Seq(X),
           NEW g \in [1 .. m -> Seq(X)], Partial(g, s, m)
    PROVE  \E h \in [1 .. (m + 1) -> Seq(X)] : Partial(h, s, m + 1)
  <1> DEFINE last == Cat(g[m], s[m + 1])
             h == [i \in 1 .. (m + 1) |-> IF i = m + 1 THEN last ELSE g[i]]
  <1>1. m \in 1 .. m /\ m + 1 \in 1 .. (m + 1) /\ m + 1 # 1 /\ (m + 1) - 1 = m  OBVIOUS
  <1>2. \A i \in 1 .. m : i \in 1 .. (m + 1) /\ i # m + 1  OBVIOUS
  <1>3. \A i \in 1 .. m : i # 1 => i - 1 \in 1 .. m  OBVIOUS
  <1>4. \A i \in 1 .. (m + 1) : i \in 1 .. m \/ i = m + 1  OBVIOUS
  <1>5. last \in Seq(X)  BY <1>1, CatSeq
  <1> HIDE DEF last
  <1>6. h \in [1 .. (m + 1) -> Seq(X)]  BY <1>4, <1>5
  <1>7. h[m + 1] = last /\ \A i \in 1 .. m : h[i] = g[i]  BY <1>1, <1>2
  <1> HIDE DEF h
  <1>8. ASSUME NEW i \in 1 .. m  PROVE h[i] = IF i = 1 THEN s[i] ELSE Cat(h[i - 1], s[i])
    BY <1>3, <1>7, Zenon DEF Partial
  <1>9. h[m + 1] = IF m + 1 = 1 THEN s[m + 1] ELSE Cat(h[(m + 1) - 1], s[m + 1])
    BY <1>1, <1>7, Zenon DEF last
  <1>10. Partial(h, s, m + 1)  BY <1>4, <1>8, <1>9, Zenon DEF Partial
  <1>11. QED  BY <1>6, <1>10

\* The partial concatenations exist, and FlattenSeq returns the last of them.
LEMMA FlattenRecursion ==
    ASSUME NEW X, NEW N \in Nat \ {0}, NEW s \in [1 .. N -> Seq(X)]
    PROVE  \E g \in [1 .. N -> Seq(X)] : FlattenSeq(s) = g[N] /\ Partial(g, s, N)
  <1> DEFINE Exists(m) == \E g \in [1 .. m -> Seq(X)] : Partial(g, s, m)
             S == {m \in Nat : m >= 1 /\ m <= N => Exists(m)}
  <1>1. 0 \in S  OBVIOUS
  <1>2. ASSUME NEW m \in Nat, m \in S  PROVE m + 1 \in S
    <2>1. ASSUME m + 1 <= N  PROVE Exists(m + 1)
      <3>1. CASE m = 0
        <4> DEFINE g == [i \in 1 .. 1 |-> s[1]]
        <4>1. g \in [1 .. 1 -> Seq(X)] /\ g[1] = s[1]  BY <2>1
        <4>2. \A i \in 1 .. 1 : i = 1  OBVIOUS
        <4> HIDE DEF g
        <4>3. Partial(g, s, 1)  BY <4>1, <4>2 DEF Partial
        <4>4. 0 + 1 = 1  OBVIOUS
        <4>5. QED  BY <3>1, <4>1, <4>3, <4>4
      <3>2. CASE m # 0
        <4>1. Exists(m)  BY <1>2, <2>1, <3>2
        <4>2. m \in Nat \ {0} /\ m + 1 \in 1 .. N  BY <2>1, <3>2
        <4>3. s[m + 1] \in Seq(X)  BY <4>2
        <4>4. PICK g \in [1 .. m -> Seq(X)] : Partial(g, s, m)  BY <4>1
        <4>5. QED  BY <4>2, <4>3, <4>4, PartialStep
      <3>3. QED  BY <3>1, <3>2
    <2> HIDE DEF Exists
    <2>2. QED  BY <2>1
  <1>3. Exists(N)
    <2> HIDE DEF S, Exists
    <2>1. Nat \subseteq S  BY <1>1, <1>2, SetInduction
    <2>2. QED  BY <2>1 DEF S
  <1>4. PICK g \in [1 .. N -> Seq(X)] : Partial(g, s, N)  BY <1>3
  <1> DEFINE Fixed(f) == f = [i \in 1 .. N |-> IF i = 1 THEN s[i] ELSE f[i - 1] \o s[i]]
             chosen == CHOOSE f : Fixed(f)
  <1>5. Fixed(g)
    <2>1. g = [i \in 1 .. N |-> g[i]]  BY <1>4
    <2>2. \A i \in 1 .. N : g[i] = IF i = 1 THEN s[i] ELSE g[i - 1] \o s[i]
      BY <1>4, Zenon DEF Partial, Cat
    <2>3. QED  BY <2>1, <2>2, Zenon
  <1>6. Fixed(chosen)
    <2> HIDE DEF Fixed
    <2>1. QED  BY <1>5
  <1>7. FlattenSeq(s) = chosen[N]
    <2>1. Len(s) = N /\ N # 0  OBVIOUS
    <2>2. FlattenSeq(s) = IF Len(s) = 0 THEN s
             ELSE (CHOOSE f : f = [i \in 1 .. Len(s) |->
                                      IF i = 1 THEN s[i] ELSE f[i - 1] \o s[i]])[Len(s)]
      BY Zenon DEF FlattenSeq
    <2>3. QED  BY <2>1, <2>2, Zenon
  <1> HIDE DEF chosen
  <1>8. Partial(chosen, s, N)
    <2>1. \A i \in 1 .. N : chosen[i] = IF i = 1 THEN s[i] ELSE chosen[i - 1] \o s[i]
      BY <1>6, Zenon
    <2>2. QED  BY <2>1, Zenon DEF Partial, Cat
  <1> DEFINE T == {m \in Nat : m >= 1 /\ m <= N => chosen[m] \in Seq(X)}
  <1>9. \A m \in 1 .. N : chosen[m] \in Seq(X)
    <2>1. 0 \in T  OBVIOUS
    <2>2. ASSUME NEW m \in Nat, m \in T  PROVE m + 1 \in T
      <3>1. ASSUME m + 1 <= N  PROVE chosen[m + 1] \in Seq(X)
        <4>1. m + 1 \in 1 .. N /\ (m + 1) - 1 = m  BY <3>1
        <4>2. s[m + 1] \in Seq(X)  BY <4>1
        <4>3. chosen[m + 1] = IF m + 1 = 1 THEN s[m + 1] ELSE Cat(chosen[(m + 1) - 1], s[m + 1])
          BY <1>8, <4>1, Zenon DEF Partial
        <4>4. CASE m = 0  BY <4>2, <4>3, <4>4
        <4>5. CASE m # 0
          <5>1. chosen[m] \in Seq(X) /\ m + 1 # 1  BY <2>2, <3>1, <4>5
          <5>2. chosen[m + 1] = Cat(chosen[m], s[m + 1])  BY <4>1, <4>3, <5>1
          <5>3. Cat(chosen[m], s[m + 1]) \in Seq(X)  BY <4>2, <5>1, CatSeq
          <5>4. QED  BY <5>2, <5>3
        <4>6. QED  BY <4>4, <4>5
      <3>2. QED  BY <3>1
    <2> HIDE DEF T
    <2>3. Nat \subseteq T  BY <2>1, <2>2, SetInduction
    <2>4. QED  BY <2>3 DEF T
  <1>10. chosen \in [1 .. N -> Seq(X)]
    <2>1. chosen = [m \in 1 .. N |-> chosen[m]]  BY <1>6, Zenon
    <2>2. QED  BY <1>9, <2>1
  <1>11. QED  BY <1>7, <1>8, <1>10

\* F is s[1], ..., s[n] one after the other: s[i] follows the first at[i - 1] elements.
Layout(at, F, s, n) ==
    /\ at[0] = 0 /\ at[n] = Len(F)
    /\ \A i \in 1 .. n :
          /\ at[i - 1] \in Nat /\ at[i] = at[i - 1] + Len(s[i]) /\ at[i] <= at[n]
          /\ \A k \in 1 .. Len(s[i]) : F[at[i - 1] + k] = s[i][k]

\* Where each sequence of s is in FlattenSeq(s).
LEMMA FlattenLayout ==
    ASSUME NEW X, NEW N \in Nat, NEW s \in [1 .. N -> Seq(X)]
    PROVE  FlattenSeq(s) \in Seq(X) /\ \E at \in [0 .. N -> Nat] : Layout(at, FlattenSeq(s), s, N)
  <1>1. \E g : /\ g[0] = <<>> /\ g[N] = FlattenSeq(s) /\ \A i \in 0 .. N : g[i] \in Seq(X)
               /\ \A i \in 1 .. N : g[i] = Cat(g[i - 1], s[i])
    <2>1. CASE N = 0
      <3>1. s = <<>> /\ Len(s) = 0 /\ s \in Seq(X)  BY <2>1
      <3>2. FlattenSeq(s) = s  BY <3>1, Zenon DEF FlattenSeq
      <3> DEFINE g == [i \in 0 .. 0 |-> s]
      <3>3. \A i \in 0 .. N : g[i] = s  BY <2>1
      <3>4. 0 \in 0 .. N /\ N \in 0 .. N /\ 1 .. N = {}  BY <2>1
      <3> HIDE DEF g
      <3>5. g[0] = <<>> /\ g[N] = FlattenSeq(s) /\ \A i \in 0 .. N : g[i] \in Seq(X)
        BY <3>1, <3>2, <3>3, <3>4, Zenon
      <3>6. \A i \in 1 .. N : g[i] = Cat(g[i - 1], s[i])  BY <3>4, Zenon
      <3>7. QED  BY <3>5, <3>6, Zenon
    <2>2. CASE N # 0
      <3>1. PICK h \in [1 .. N -> Seq(X)] : FlattenSeq(s) = h[N] /\ Partial(h, s, N)
        <4>1. N \in Nat \ {0}  BY <2>2
        <4>2. QED  BY <4>1, FlattenRecursion, Zenon
      <3> DEFINE g == [i \in 0 .. N |-> IF i = 0 THEN <<>> ELSE h[i]]
      <3>2. g[0] = <<>> /\ \A i \in 1 .. N : g[i] = h[i]  OBVIOUS
      <3> HIDE DEF g
      <3>3. \A i \in 0 .. N : g[i] \in Seq(X)
        <4>1. \A i \in 0 .. N : i = 0 \/ i \in 1 .. N  OBVIOUS
        <4>2. <<>> \in Seq(X)  OBVIOUS
        <4>3. \A i \in 1 .. N : h[i] \in Seq(X)  OBVIOUS
        <4>4. QED  BY <3>2, <4>1, <4>2, <4>3, Zenon
      <3>4. g[N] = FlattenSeq(s)
        <4>1. N \in 1 .. N  BY <2>2
        <4>2. QED  BY <3>1, <3>2, <4>1, Zenon
      <3>5. ASSUME NEW i \in 1 .. N  PROVE g[i] = Cat(g[i - 1], s[i])
        <4>1. h[i] = IF i = 1 THEN s[i] ELSE Cat(h[i - 1], s[i])  BY <3>1, Zenon DEF Partial
        <4>2. CASE i = 1
          <5>1. i - 1 = 0 /\ s[i] \in Seq(X)  BY <4>2
          <5> DEFINE z == s[i]
          <5>2. z \in Seq(X)  BY <5>1
          <5> HIDE DEF z
          <5>3. Cat(<<>>, z) = z  BY <5>2 DEF Cat
          <5>4. g[i] = z /\ g[i - 1] = <<>>  BY <3>2, <4>1, <4>2, <5>1, Zenon DEF z
          <5>5. QED  BY <5>3, <5>4, Zenon DEF z
        <4>3. CASE i # 1
          <5>1. i - 1 \in 1 .. N  BY <4>3
          <5>2. QED  BY <3>2, <4>1, <4>3, <5>1, Zenon
        <4>4. QED  BY <4>2, <4>3
      <3>6. QED  BY <3>2, <3>3, <3>4, <3>5, Zenon
    <2>3. QED  BY <2>1, <2>2
  <1>2. PICK g : /\ g[0] = <<>> /\ g[N] = FlattenSeq(s) /\ \A i \in 0 .. N : g[i] \in Seq(X)
                 /\ \A i \in 1 .. N : g[i] = Cat(g[i - 1], s[i])
    BY <1>1
  <1> DEFINE at == [i \in 0 .. N |-> Len(g[i])]
  <1>3. at \in [0 .. N -> Nat] /\ \A i \in 0 .. N : at[i] = Len(g[i])  BY <1>2
  <1> HIDE DEF at
  <1>4. at[0] = 0  BY <1>2, <1>3
  <1>5. ASSUME NEW i \in 1 .. N
        PROVE  /\ at[i] = at[i - 1] + Len(s[i]) /\ at[i - 1] \in Nat /\ at[i] \in Nat /\ Len(s[i]) \in Nat
               /\ \A k \in 1 .. at[i - 1] : g[i][k] = g[i - 1][k]
               /\ \A k \in 1 .. Len(s[i]) : g[i][at[i - 1] + k] = s[i][k]
    <2> DEFINE a == g[i - 1]
               b == s[i]
               c == g[i]
    <2>1. i - 1 \in 0 .. N /\ i \in 0 .. N /\ s[i] \in Seq(X)  OBVIOUS
    <2>2. a \in Seq(X) /\ b \in Seq(X) /\ c = Cat(a, b) /\ at[i] = Len(c) /\ at[i - 1] = Len(a)
      BY <1>2, <1>3, <2>1, Zenon
    <2> HIDE DEF a, b, c
    <2>3. /\ Len(a) \in Nat /\ Len(b) \in Nat /\ Len(c) = Len(a) + Len(b)
          /\ \A k \in 1 .. Len(a) : c[k] = a[k]
          /\ \A k \in 1 .. Len(b) : c[Len(a) + k] = b[k]
      <3>1. Len(a) \in Nat /\ Len(b) \in Nat /\ Len(a) = Len(a) /\ Len(b) = Len(b)  BY <2>2
      <3>2. TwoParts(c, a, b, Len(a), Len(b))  BY <2>2, <3>1, TwoJoined, Zenon
      <3>3. QED  BY <3>1, <3>2, Zenon DEF TwoParts
    <2>4. at[i] = at[i - 1] + Len(b) /\ at[i - 1] \in Nat /\ at[i] \in Nat
      BY <1>3, <2>1, <2>2, <2>3
    <2>5. QED  BY <2>2, <2>3, <2>4, Zenon DEF a, b, c
  <1> DEFINE P(m) == \A i \in 1 .. m :
                        /\ at[i] <= at[m]
                        /\ \A k \in 1 .. Len(s[i]) : g[m][at[i - 1] + k] = s[i][k]
             S == {m \in Nat : m <= N => P(m)}
  <1>6. 0 \in S
    <2>1. 1 .. 0 = {}  OBVIOUS
    <2>2. QED  BY <2>1
  <1>7. ASSUME NEW m \in Nat, m \in S  PROVE m + 1 \in S
    <2>1. ASSUME m + 1 <= N  PROVE P(m + 1)
      <3>1. P(m) /\ m + 1 \in 1 .. N /\ (m + 1) - 1 = m  BY <1>7, <2>1
      <3> HIDE DEF P
      <3> DEFINE M == m + 1
      <3>2. /\ at[M] = at[m] + Len(s[M]) /\ at[m] \in Nat /\ at[M] \in Nat /\ Len(s[M]) \in Nat
            /\ \A k \in 1 .. at[m] : g[M][k] = g[m][k]
            /\ \A k \in 1 .. Len(s[M]) : g[M][at[m] + k] = s[M][k]
        BY <1>5, <3>1
      <3>3. ASSUME NEW i \in 1 .. M
            PROVE  at[i] <= at[M] /\ \A k \in 1 .. Len(s[i]) : g[M][at[i - 1] + k] = s[i][k]
        <4>1. CASE i = M
          <5>1. at[i] = at[M] /\ at[M] <= at[M]  BY <3>2, <4>1
          <5>2. i - 1 = m  BY <4>1
          <5> HIDE DEF M
          <5>3. QED  BY <3>2, <4>1, <5>1, <5>2, Zenon
        <4>2. CASE i # M
          <5>1. i \in 1 .. m /\ i \in 1 .. N  BY <2>1, <4>2
          <5> HIDE DEF M
          <5>2. at[i] <= at[m] /\ \A k \in 1 .. Len(s[i]) : g[m][at[i - 1] + k] = s[i][k]
            BY <3>1, <5>1, Zenon DEF P
          <5>3. at[i] = at[i - 1] + Len(s[i]) /\ at[i - 1] \in Nat /\ at[i] \in Nat /\ Len(s[i]) \in Nat
            BY <1>5, <5>1
          <5>4. at[i] <= at[M]  BY <3>2, <5>2, <5>3
          <5>5. \A k \in 1 .. Len(s[i]) : at[i - 1] + k \in 1 .. at[m]
            <6> DEFINE p == at[i - 1]
                       q == at[i]
                       w == Len(s[i])
                       l == at[m]
            <6>1. q = p + w /\ p \in Nat /\ w \in Nat /\ q <= l /\ l \in Nat  BY <3>2, <5>2, <5>3
            <6> HIDE DEF p, q, w, l
            <6>2. \A k \in 1 .. w : p + k \in 1 .. l  BY <6>1
            <6>3. QED  BY <6>2 DEF p, w, l
          <5>6. QED  BY <3>2, <5>2, <5>4, <5>5, Zenon
        <4>3. QED  BY <4>1, <4>2
      <3>4. QED  BY <3>3, Zenon DEF P
    <2> HIDE DEF P
    <2>2. QED  BY <2>1
  <1>8. P(N)
    <2> HIDE DEF S, P
    <2>1. Nat \subseteq S  BY <1>6, <1>7, SetInduction
    <2>2. QED  BY <2>1 DEF S
  <1>9. Layout(at, FlattenSeq(s), s, N)
    <2>1. N \in 0 .. N /\ at[N] = Len(g[N])  BY <1>3
    <2>2. QED  BY <1>2, <1>4, <1>5, <1>8, <2>1, ZenonT(40) DEF Layout
  <1>10. FlattenSeq(s) \in Seq(X)
    <2>1. N \in 0 .. N  OBVIOUS
    <2>2. QED  BY <1>2, <2>1
  <1>11. QED  BY <1>3, <1>9, <1>10

\* G is made of elements of s[1], ..., s[n], in the order of the positions
\* they come from.
Drawn(G, s, n) ==
    /\ \A k \in 1 .. Len(G) : \E a \in 1 .. n : \E b \in 1 .. Len(s[a]) : G[k] = s[a][b]
    /\ \A j, k \in 1 .. Len(G) : j < k =>
          \E a, c \in 1 .. n : \E b \in 1 .. Len(s[a]), d \in 1 .. Len(s[c]) :
              /\ G[j] = s[a][b] /\ G[k] = s[c][d]
              /\ a < c \/ (a = c /\ b < d)

LEMMA DrawnStep ==
    ASSUME NEW X, NEW n \in Nat \ {0}, NEW s, NEW m, m = n + 1, s[m] \in Seq(X),
           NEW G \in Seq(X), Drawn(G, s, n)
    PROVE  Drawn(Cat(G, s[m]), s, m)
  <1> DEFINE L == Len(G)
             e == s[m]
             H == Cat(G, e)
  <1>1. /\ L \in Nat /\ Len(e) \in Nat /\ Len(H) = L + Len(e)
        /\ \A k \in 1 .. L : H[k] = G[k]
        /\ \A k \in 1 .. Len(e) : H[L + k] = e[k]
    <2>1. L \in Nat /\ Len(e) \in Nat /\ L = Len(G) /\ Len(e) = Len(e) /\ e \in Seq(X)  OBVIOUS
    <2> HIDE DEF e, L
    <2>2. TwoParts(H, G, e, L, Len(e))  BY <2>1, TwoJoined
    <2>3. QED  BY <2>1, <2>2, Zenon DEF TwoParts
  <1>2. m \in 1 .. m /\ 1 .. n \subseteq 1 .. m /\ \A a \in 1 .. n : a < m
    OBVIOUS
  <1> HIDE DEF L, e, H
  <1>3. \A k \in 1 .. Len(H) : k \notin 1 .. L => \E b \in 1 .. Len(e) : k = L + b /\ H[k] = e[b]
    <2> SUFFICES ASSUME NEW k \in 1 .. Len(H), k \notin 1 .. L
                 PROVE  \E b \in 1 .. Len(e) : k = L + b /\ H[k] = e[b]
      OBVIOUS
    <2>1. k - L \in 1 .. Len(e) /\ k = L + (k - L)  BY <1>1
    <2>2. QED  BY <1>1, <2>1
  <1>4. ASSUME NEW k \in 1 .. Len(H)
        PROVE  \E a \in 1 .. m : \E b \in 1 .. Len(s[a]) : H[k] = s[a][b]
    <2>1. CASE k \in 1 .. L
      <3>1. PICK a \in 1 .. n : \E b \in 1 .. Len(s[a]) : G[k] = s[a][b]
        BY <2>1, Zenon DEF Drawn, L
      <3>2. H[k] = G[k] /\ a \in 1 .. m  BY <1>1, <1>2, <2>1
      <3>3. QED  BY <3>1, <3>2, Zenon
    <2>2. CASE k \notin 1 .. L
      BY <1>2, <1>3, <2>2, Zenon DEF e
    <2>3. QED  BY <2>1, <2>2
  <1>5. ASSUME NEW j \in 1 .. Len(H), NEW k \in 1 .. Len(H), j < k
        PROVE  \E a, c \in 1 .. m : \E b \in 1 .. Len(s[a]), d \in 1 .. Len(s[c]) :
                  /\ H[j] = s[a][b] /\ H[k] = s[c][d]
                  /\ a < c \/ (a = c /\ b < d)
    <2>1. CASE k \in 1 .. L
      <3>1. j \in 1 .. L /\ H[j] = G[j] /\ H[k] = G[k]  BY <1>1, <1>5, <2>1
      <3>2. PICK a \in 1 .. n, c \in 1 .. n : \E b \in 1 .. Len(s[a]), d \in 1 .. Len(s[c]) :
                  /\ G[j] = s[a][b] /\ G[k] = s[c][d]
                  /\ a < c \/ (a = c /\ b < d)
        BY <1>5, <2>1, <3>1, ZenonT(40) DEF Drawn, L
      <3>3. a \in 1 .. m /\ c \in 1 .. m  BY <1>2
      <3>4. QED  BY <3>1, <3>2, <3>3, Zenon
    <2>2. CASE k \notin 1 .. L /\ j \in 1 .. L
      <3>1. PICK d \in 1 .. Len(e) : H[k] = e[d]  BY <1>3, <2>2
      <3>2. PICK a \in 1 .. n : \E b \in 1 .. Len(s[a]) : G[j] = s[a][b]
        BY <2>2, Zenon DEF Drawn, L
      <3>3. H[j] = G[j] /\ a \in 1 .. m /\ a < m /\ m \in 1 .. m  BY <1>1, <1>2, <2>2
      <3>4. QED  BY <3>1, <3>2, <3>3, Zenon DEF e
    <2>3. CASE k \notin 1 .. L /\ j \notin 1 .. L
      <3>1. PICK d \in 1 .. Len(e) : k = L + d /\ H[k] = e[d]  BY <1>3, <2>3
      <3>2. PICK b \in 1 .. Len(e) : j = L + b /\ H[j] = e[b]  BY <1>3, <2>3
      <3>3. b < d  BY <1>1, <1>5, <3>1, <3>2
      <3>4. QED  BY <1>2, <3>1, <3>2, <3>3, Zenon DEF e
    <2>4. j \in 1 .. L \/ k \notin 1 .. L  BY <1>1, <1>5
    <2>5. QED  BY <2>1, <2>2, <2>3, <2>4
  <1>6. Drawn(H, s, m)  BY <1>4, <1>5, Zenon DEF Drawn
  <1>7. QED  BY <1>6 DEF H, e

\* Every element of s[1], ..., s[n] is in G.
AllDrawn(G, s, n) ==
    \A a \in 1 .. n : \A b \in 1 .. Len(s[a]) : \E k \in 1 .. Len(G) : G[k] = s[a][b]

LEMMA AllDrawnStep ==
    ASSUME NEW X, NEW n \in Nat \ {0}, NEW s, NEW m, m = n + 1, s[m] \in Seq(X),
           NEW G \in Seq(X), AllDrawn(G, s, n)
    PROVE  AllDrawn(Cat(G, s[m]), s, m)
  <1> DEFINE L == Len(G)
             e == s[m]
             H == Cat(G, e)
  <1>1. /\ L \in Nat /\ Len(e) \in Nat /\ Len(H) = L + Len(e)
        /\ \A k \in 1 .. L : H[k] = G[k]
        /\ \A k \in 1 .. Len(e) : H[L + k] = e[k]
    <2>1. L \in Nat /\ Len(e) \in Nat /\ L = Len(G) /\ Len(e) = Len(e) /\ e \in Seq(X)  OBVIOUS
    <2> HIDE DEF e, L
    <2>2. TwoParts(H, G, e, L, Len(e))  BY <2>1, TwoJoined
    <2>3. QED  BY <2>1, <2>2, Zenon DEF TwoParts
  <1>2. \A a \in 1 .. m : a \in 1 .. n \/ a = m  OBVIOUS
  <1> HIDE DEF L, e, H
  <1>3. /\ \A k \in 1 .. L : k \in 1 .. Len(H)
        /\ \A k \in 1 .. Len(e) : L + k \in 1 .. Len(H)
    BY <1>1
  <1>4. ASSUME NEW a \in 1 .. m, NEW b \in 1 .. Len(s[a])
        PROVE  \E k \in 1 .. Len(H) : H[k] = s[a][b]
    <2>1. CASE a \in 1 .. n
      <3>1. PICK k \in 1 .. L : G[k] = s[a][b]  BY <2>1, Zenon DEF AllDrawn, L
      <3>2. QED  BY <1>1, <1>3, <3>1, Zenon
    <2>2. CASE a = m
      <3>1. b \in 1 .. Len(e) /\ s[a][b] = e[b]  BY <2>2, Zenon DEF e
      <3>2. QED  BY <1>1, <1>3, <3>1, Zenon
    <2>3. QED  BY <1>2, <2>1, <2>2
  <1>5. QED  BY <1>4, Zenon DEF AllDrawn, H, e

\* What FlattenSeq returns.
LEMMA FlattenFacts ==
    ASSUME NEW X, NEW N \in Nat, NEW s \in [1 .. N -> Seq(X)]
    PROVE  /\ FlattenSeq(s) \in Seq(X)
           /\ Drawn(FlattenSeq(s), s, N)
           /\ AllDrawn(FlattenSeq(s), s, N)
           /\ N # 0 /\ Len(s[1]) >= 1 => Len(FlattenSeq(s)) >= 1
  <1>1. CASE N = 0
    <2>1. s = <<>> /\ Len(s) = 0 /\ 1 .. Len(s) = {} /\ s \in Seq(X)  BY <1>1
    <2>2. FlattenSeq(s) = s  BY <2>1, Zenon DEF FlattenSeq
    <2>3. Drawn(s, s, N)  BY <2>1, Zenon DEF Drawn
    <2>4. AllDrawn(s, s, N)
      <3>1. 1 .. N = {}  BY <1>1
      <3>2. QED  BY <3>1, Zenon DEF AllDrawn
    <2>5. QED  BY <1>1, <2>1, <2>2, <2>3, <2>4, Zenon
  <1>2. CASE N # 0
    <2>1. PICK g \in [1 .. N -> Seq(X)] : FlattenSeq(s) = g[N] /\ Partial(g, s, N)
      <3>1. N \in Nat \ {0}  BY <1>2
      <3>2. QED  BY <3>1, FlattenRecursion, Zenon
    <2> DEFINE Good(m) == /\ Drawn(g[m], s, m) /\ AllDrawn(g[m], s, m)
                          /\ Len(s[1]) >= 1 => Len(g[m]) >= 1
               S == {m \in Nat : m >= 1 /\ m <= N => Good(m)}
    <2>2. 0 \in S  OBVIOUS
    <2>3. ASSUME NEW m \in Nat, m \in S  PROVE m + 1 \in S
      <3>1. ASSUME m + 1 <= N  PROVE Good(m + 1)
        <4>1. 1 \in 1 .. N /\ m + 1 \in 1 .. N /\ (m + 1) - 1 = m  BY <3>1
        <4>2. s[1] \in Seq(X) /\ s[m + 1] \in Seq(X)  BY <4>1
        <4>3. g[m + 1] = IF m + 1 = 1 THEN s[m + 1] ELSE Cat(g[(m + 1) - 1], s[m + 1])
          BY <2>1, <4>1, Zenon DEF Partial
        <4>4. CASE m = 0
          <5>1. g[1] = s[1] /\ m + 1 = 1  BY <4>3, <4>4
          <5>2. 1 .. 1 = {1} /\ 1 \in 1 .. 1  OBVIOUS
          <5>3. Drawn(g[1], s, 1)  BY <5>1, <5>2, Zenon DEF Drawn
          <5>4. AllDrawn(g[1], s, 1)  BY <5>1, <5>2, Zenon DEF AllDrawn
          <5>5. QED  BY <5>1, <5>3, <5>4, Zenon
        <4>5. CASE m # 0
          <5>1. m + 1 # 1 /\ m \in Nat \ {0} /\ m \in 1 .. N  BY <3>1, <4>5
          <5>2. g[m + 1] = Cat(g[m], s[m + 1])  BY <4>1, <4>3, <5>1, Zenon
          <5>3. g[m] \in Seq(X)  BY <5>1
          <5>4. Good(m)  BY <2>3, <3>1, <5>1
          <5>5. Drawn(g[m + 1], s, m + 1)
            BY <4>2, <5>1, <5>2, <5>3, <5>4, DrawnStep
          <5>6. AllDrawn(g[m + 1], s, m + 1)
            BY <4>2, <5>1, <5>2, <5>3, <5>4, AllDrawnStep
          <5>7. Len(g[m]) >= 1 => Len(g[m + 1]) >= 1
            <6> DEFINE a == g[m]
                       b == g[m + 1]
                       c == s[m + 1]
            <6>1. a \in Seq(X) /\ c \in Seq(X) /\ b = Cat(a, c)  BY <4>2, <5>2, <5>3
            <6> HIDE DEF a, b, c
            <6>2. Len(b) = Len(a) + Len(c) /\ Len(a) \in Nat /\ Len(c) \in Nat
              BY <6>1, CatFacts
            <6>3. Len(a) >= 1 => Len(b) >= 1  BY <6>2
            <6>4. QED  BY <6>3 DEF a, b
          <5>8. QED  BY <5>4, <5>5, <5>6, <5>7, Zenon
        <4>6. QED  BY <4>4, <4>5
      <3> HIDE DEF Good
      <3>2. QED  BY <3>1
    <2> HIDE DEF S
    <2>4. Nat \subseteq S  BY <2>2, <2>3, SetInduction
    <2>5. Good(N) /\ g[N] \in Seq(X)
      <3>1. N \in S /\ N >= 1 /\ N <= N  BY <1>2, <2>4
      <3> HIDE DEF Good
      <3>2. QED  BY <3>1 DEF S
    <2>6. QED  BY <2>1, <2>5, Zenon
  <1>3. QED  BY <1>1, <1>2, Zenon

-----------------------------------------------------------------------------
(* Prefixes and paths. *)

Hop == [sw : SwitchIds, inPort : PortIds \cup {UnknownPort},
        outPort : PortIds \cup {UnknownPort}, exit : {"none", "switch", "device"}]

\* Link l is rooted at switch sw, leads to far and can be used.
Joins(t, l, sw, far) ==
    /\ l \in DOMAIN t.links
    /\ t.links[l].rootSwitch = sw
    /\ t.links[l].otherEnd = far
    /\ EdgeUsable(t, l)

DistinctHops(hops) == \A i, j \in 1 .. Len(hops) : hops[i].sw = hops[j].sw => i = j

\* Hop i of p leads over the next link to the switch of hop i + 1.
Inner(t, p, i) ==
    /\ Joins(t, p.links[i + 1], p.hops[i].sw, SwitchEnd(p.hops[i + 1].sw))
    /\ p.hops[i].outPort = t.links[p.links[i + 1]].port

\* Hop i of p names the port it is entered through.
Enters(t, p, i) ==
    p.hops[i].inPort = IF i = 1 THEN t.links[p.links[1]].port
                                ELSE InboundPort(t, p.hops[i].sw, p.hops[i - 1].sw)

\* The prefixes with n switches the search may have in its frontier.
Frontier(t, src, D, n) ==
    {p \in [hops : Seq(Hop), links : Seq(DOMAIN t.links)] :
        /\ n <= D /\ Len(p.hops) = n /\ Len(p.links) = n
        /\ Joins(t, p.links[1], p.hops[1].sw, DeviceEnd(src))
        /\ \A i \in 1 .. (n - 1) : Inner(t, p, i)
        /\ \A i \in 1 .. n : Enters(t, p, i)
        /\ DistinctHops(p.hops)}

\* The paths with n switches it may return.
Paths(t, src, dst, D, n) ==
    {p \in [hops : Seq(Hop), links : Seq(DOMAIN t.links), state : {"UP", "DEGRADED"}] :
        /\ n <= D /\ Len(p.hops) = n /\ Len(p.links) = n + 1
        /\ Joins(t, p.links[1], p.hops[1].sw, DeviceEnd(src))
        /\ \A i \in 1 .. (n - 1) : Inner(t, p, i)
        /\ Joins(t, p.links[n + 1], p.hops[n].sw, DeviceEnd(dst))
        /\ p.hops[n].outPort = t.links[p.links[n + 1]].port
        /\ \A i \in 1 .. n : Enters(t, p, i)
        /\ DistinctHops(p.hops)
        /\ p.state = PathState(t, p.links)}

LinksDiffer(q) == \A j, k \in 1 .. Len(q) : j < k => q[j].links # q[k].links

LEMMA FlattenDistinct ==
    ASSUME NEW Q, NEW N \in Nat, NEW s \in [1 .. N -> Seq(Q)],
           \A a, c \in 1 .. N : \A b \in 1 .. Len(s[a]), d \in 1 .. Len(s[c]) :
              a < c \/ (a = c /\ b < d) => s[a][b].links # s[c][d].links
    PROVE  FlattenSeq(s) \in Seq(Q) /\ LinksDiffer(FlattenSeq(s))
  <1>1. FlattenSeq(s) \in Seq(Q) /\ Drawn(FlattenSeq(s), s, N)  BY FlattenFacts, Zenon
  <1> DEFINE F == FlattenSeq(s)
  <1> HIDE DEF F
  <1>2. ASSUME NEW j \in 1 .. Len(F), NEW k \in 1 .. Len(F), j < k  PROVE F[j].links # F[k].links
    <2>1. PICK a \in 1 .. N, c \in 1 .. N : \E b \in 1 .. Len(s[a]), d \in 1 .. Len(s[c]) :
              /\ F[j] = s[a][b] /\ F[k] = s[c][d]
              /\ a < c \/ (a = c /\ b < d)
      BY <1>1, <1>2, Zenon DEF Drawn, F
    <2>2. PICK b \in 1 .. Len(s[a]), d \in 1 .. Len(s[c]) :
              /\ F[j] = s[a][b] /\ F[k] = s[c][d]
              /\ a < c \/ (a = c /\ b < d)
      BY <2>1, Zenon
    <2>3. s[a][b].links # s[c][d].links  BY <2>2, Zenon
    <2>4. QED  BY <2>2, <2>3
  <1>3. QED  BY <1>1, <1>2, Zenon DEF LinksDiffer, F

LEMMA AppendFacts ==
    ASSUME NEW X, NEW u \in Seq(X), NEW x \in X
    PROVE  /\ Append(u, x) \in Seq(X) /\ Len(u) \in Nat /\ Len(Append(u, x)) = Len(u) + 1
           /\ \A i \in 1 .. Len(u) : Append(u, x)[i] = u[i]
           /\ Append(u, x)[Len(u) + 1] = x
  OBVIOUS

LEMMA AppendInjective ==
    ASSUME NEW X, NEW u \in Seq(X), NEW v \in Seq(X), Len(u) = Len(v), NEW x \in X, NEW y \in X,
           Append(u, x) = Append(v, y)
    PROVE  u = v /\ x = y
  <1> DEFINE a == Append(u, x)
             b == Append(v, y)
  <1>1. /\ Len(u) \in Nat
        /\ \A i \in 1 .. Len(u) : a[i] = u[i] /\ b[i] = v[i]
        /\ a[Len(u) + 1] = x /\ b[Len(u) + 1] = y
    BY AppendFacts
  <1>2. a = b  OBVIOUS
  <1> HIDE DEF a, b
  <1>3. x = y /\ \A i \in 1 .. Len(u) : u[i] = v[i]  BY <1>1, <1>2
  <1>4. QED  BY <1>3

\* q is p with link l appended and the last hop, but not its switch, changed.
Left(t, p, l, n, q) ==
    /\ q.hops \in Seq(Hop) /\ Len(q.hops) = n
    /\ q.links \in Seq(DOMAIN t.links) /\ Len(q.links) = n + 1
    /\ q.links = Append(p.links, l)
    /\ \A i \in 1 .. n : /\ q.links[i] = p.links[i]
                           /\ q.hops[i].sw = p.hops[i].sw /\ q.hops[i].inPort = p.hops[i].inPort
    /\ \A i \in 1 .. (n - 1) : q.hops[i] = p.hops[i]
    /\ q.links[n + 1] = l
    /\ q.hops[n].outPort = t.links[l].port

LEMMA LeavingFacts ==
    ASSUME NEW t, Searchable(t), NEW src, NEW D, NEW n \in Nat \ {0},
           NEW p \in Frontier(t, src, D, n),
           NEW l \in DOMAIN t.links, NEW exit \in {"switch", "device"},
           NEW q, q = Leaving(t, p, l, exit)
    PROVE  Left(t, p, l, n, q)
  <1>1. p.hops \in Seq(Hop) /\ Len(p.hops) = n /\ p.links \in Seq(DOMAIN t.links) /\ Len(p.links) = n
    BY DEF Frontier
  <1> DEFINE port == t.links[l].port
             h == p.hops
             last == [h[n] EXCEPT !.outPort = port, !.exit = exit]
             g == [h EXCEPT ![n] = last]
  <1>2. port \in PortIds  BY SearchableFacts
  <1>3. q.hops = g /\ q.links = Append(p.links, l)
    BY <1>1 DEF Leaving
  <1> HIDE DEF port, h
  <1>4. h \in Seq(Hop) /\ Len(h) = n  BY <1>1 DEF h
  <1>5. last \in Hop /\ last.sw = h[n].sw /\ last.inPort = h[n].inPort /\ last.outPort = port
    <2>1. h[n] \in Hop  BY <1>4
    <2>2. QED  BY <1>2, <2>1 DEF Hop
  <1> HIDE DEF last
  <1>6. /\ g \in Seq(Hop) /\ Len(g) = n /\ g[n] = last
        /\ \A i \in 1 .. (n - 1) : g[i] = h[i]
    BY <1>4, <1>5
  <1> HIDE DEF g
  <1>7. \A i \in 1 .. n : g[i].sw = h[i].sw /\ g[i].inPort = h[i].inPort
    <2> SUFFICES ASSUME NEW i \in 1 .. n  PROVE g[i].sw = h[i].sw /\ g[i].inPort = h[i].inPort  OBVIOUS
    <2>1. i = n \/ i \in 1 .. (n - 1)  OBVIOUS
    <2>2. QED  BY <1>5, <1>6, <2>1
  <1> DEFINE k == Append(p.links, l)
  <1>8. k \in Seq(DOMAIN t.links) /\ Len(k) = n + 1 /\ k[n + 1] = l
        /\ \A i \in 1 .. n : k[i] = p.links[i]
    <2> DEFINE L == DOMAIN t.links
               u == p.links
    <2>1. u \in Seq(L) /\ Len(u) = n /\ l \in L /\ k = Append(u, l)  BY <1>1
    <2> HIDE DEF L, u, k
    <2>2. k \in Seq(L) /\ Len(k) = n + 1 /\ k[n + 1] = l /\ \A i \in 1 .. n : k[i] = u[i]
      BY <2>1
    <2>3. QED  BY <2>2 DEF L, u
  <1> HIDE DEF k
  <1>9. q.links = k  BY <1>3 DEF k
  <1>10. QED  BY <1>3, <1>5, <1>6, <1>7, <1>8, <1>9 DEF h, port, Left

-----------------------------------------------------------------------------
(* The search. *)

\* A prefix of n switches extended over link l.
Extended(t, p, l) ==
    LET nxt == t.links[l].otherEnd.id
        q == Leaving(t, p, l, "switch")
    IN  [q EXCEPT !.hops = Append(@, Entering(nxt, InboundPort(t, nxt, CurrentSwitch(p))))]

TakenEdges(t, p, cfg) ==
    {l \in SwitchEdges(t, CurrentSwitch(p)) :
        /\ EdgeUsable(t, l)
        /\ t.links[l].otherEnd.kind = "Switch"
        /\ cfg.allowSwitchSwitching
        /\ ~ Visited(p, t.links[l].otherEnd.id)
        /\ Len(p.hops) < cfg.maxDepth}

\* A path completed over link l.
Completed(t, p, l) ==
    LET q == Leaving(t, p, l, "device")
    IN  [hops |-> q.hops, links |-> q.links, state |-> PathState(t, q.links)]

EndingEdges(t, p, dst) ==
    {l \in SwitchEdges(t, CurrentSwitch(p)) :
        EdgeUsable(t, l) /\ t.links[l].otherEnd = DeviceEnd(dst)}

\* The port a switch is entered through.
LEMMA InboundTyped ==
    ASSUME NEW t, Searchable(t), NEW nxt, NEW cur
    PROVE  InboundPort(t, nxt, cur) \in (PortIds \cap DOMAIN t.ports) \cup {UnknownPort}
  <1> DEFINE back == {l \in SwitchEdges(t, nxt) : t.links[l].otherEnd = SwitchEnd(cur)}
             e == InEdgeOrder(t, back)
  <1>1. back \subseteq DOMAIN t.links  BY DEF SwitchEdges
  <1>2. back # {} => e[1] \in back
    <2> HIDE DEF back
    <2>1. Lists(e, back)  BY <1>1, InEdgeOrderLists
    <2> HIDE DEF e
    <2>2. QED  BY <2>1 DEF Lists
  <1>3. InboundPort(t, nxt, cur) = IF back = {} THEN UnknownPort ELSE t.links[e[1]].port
    BY DEF InboundPort
  <1> HIDE DEF back, e
  <1>4. \A l \in DOMAIN t.links : t.links[l].port \in DOMAIN t.ports
    BY DEF Searchable, CheckIntegrity, LinkIntegrity
  <1>5. QED  BY <1>1, <1>2, <1>3, <1>4, SearchableFacts

\* The search goes on over link l.
Takes(t, p, l, D) ==
    /\ l \in SwitchEdges(t, CurrentSwitch(p)) /\ EdgeUsable(t, l)
    /\ t.links[l].otherEnd.kind = "Switch" /\ ~ Visited(p, t.links[l].otherEnd.id)
    /\ Len(p.hops) < D

\* One step of the search from a prefix gives a prefix: the switch it enters is
\* not on it yet.
LEMMA ExtendedOK ==
    ASSUME NEW t, Searchable(t), NEW src, NEW D \in Nat, NEW n \in Nat \ {0}, NEW m, m = n + 1,
           NEW p \in Frontier(t, src, D, n), NEW l, Takes(t, p, l, D)
    PROVE  Extended(t, p, l) \in Frontier(t, src, D, m)
  <1> DEFINE q == Leaving(t, p, l, "switch")
             nxt == t.links[l].otherEnd.id
             new == Entering(nxt, InboundPort(t, nxt, CurrentSwitch(p)))
             x == Extended(t, p, l)
             h == x.hops
             k == x.links
  <1>1. /\ p.hops \in Seq(Hop) /\ Len(p.hops) = n /\ n <= D
        /\ p.links \in Seq(DOMAIN t.links) /\ Len(p.links) = n
        /\ Joins(t, p.links[1], p.hops[1].sw, DeviceEnd(src))
        /\ \A i \in 1 .. (n - 1) : Inner(t, p, i)
        /\ \A i \in 1 .. n : Enters(t, p, i)
        /\ DistinctHops(p.hops)
    BY DEF Frontier
  <1>2. /\ l \in DOMAIN t.links /\ t.links[l].rootSwitch = CurrentSwitch(p)
        /\ EdgeUsable(t, l) /\ t.links[l].otherEnd.kind = "Switch"
        /\ nxt \notin HopSwitches(p) /\ Len(p.hops) < D
    BY Zenon DEF Takes, SwitchEdges, Visited
  <1>3. t.links[l].otherEnd = SwitchEnd(nxt) /\ nxt \in SwitchIds
    <2>1. t.links[l].otherEnd \in LinkEnds
      <3>1. t.links[l] \in LinkRecord  BY <1>2, SearchableFacts
      <3>2. QED  BY <3>1 DEF LinkRecord
    <2>2. QED  BY <1>2, <2>1 DEF LinkEnds, SwitchEnd
  <1>4. CurrentSwitch(p) = p.hops[n].sw  BY <1>1 DEF CurrentSwitch
  <1>5. new \in Hop /\ new.sw = nxt /\ new.inPort = InboundPort(t, nxt, CurrentSwitch(p))
    BY <1>3, InboundTyped DEF Entering, Hop
  <1>qx. /\ q = Leaving(t, p, l, "switch")
         /\ x = [q EXCEPT !.hops = Append(@, new)]
    BY Zenon DEF Extended
  <1> HIDE DEF q, nxt, new, x
  <1>6. /\ q.hops \in Seq(Hop) /\ Len(q.hops) = n
        /\ q.links \in Seq(DOMAIN t.links) /\ Len(q.links) = n + 1
        /\ q.links = Append(p.links, l)
        /\ \A i \in 1 .. n : /\ q.links[i] = p.links[i]
                               /\ q.hops[i].sw = p.hops[i].sw /\ q.hops[i].inPort = p.hops[i].inPort
        /\ \A i \in 1 .. (n - 1) : q.hops[i] = p.hops[i]
        /\ q.links[n + 1] = l
        /\ q.hops[n].outPort = t.links[l].port
    <2>1. Left(t, p, l, n, q)  BY <1>2, <1>qx, LeavingFacts
    <2>2. QED  BY <2>1 DEF Left
  <1>7. x = [hops |-> Append(q.hops, new), links |-> q.links]
    <2>1. q = [hops |-> q.hops, links |-> q.links]  BY <1>qx DEF Leaving
    <2> DEFINE a == Append(q.hops, new)
    <2>2. x = [q EXCEPT !.hops = a]  BY <1>qx, Zenon
    <2> HIDE DEF a
    <2>3. x = [hops |-> a, links |-> q.links]  BY <2>1, <2>2
    <2>4. QED  BY <2>3 DEF a
  <1>8. x \in [hops : Seq(Hop), links : Seq(DOMAIN t.links)] /\ h = Append(q.hops, new) /\ k = q.links
    <2>1. Append(q.hops, new) \in Seq(Hop)  BY <1>5, <1>6, AppendFacts
    <2>2. QED  BY <1>6, <1>7, <2>1
  <1>9. /\ Len(h) = n + 1 /\ \A i \in 1 .. n : h[i] = q.hops[i]
        /\ h[n + 1] = new
    BY <1>5, <1>6, <1>8, AppendFacts
  <1> HIDE DEF h, k
  <1>10. /\ n \in 1 .. n /\ 1 \in 1 .. n
         /\ \A i \in 1 .. ((n + 1) - 1) : i \in 1 .. n /\ (i = n \/ (i \in 1 .. (n - 1) /\ i + 1 \in 1 .. n))
         /\ \A i \in 1 .. (n + 1) : i \in 1 .. n \/ i = n + 1
    OBVIOUS
  <1>11. \A i \in 1 .. n : k[i] = p.links[i] /\ h[i].sw = p.hops[i].sw /\ h[i].inPort = p.hops[i].inPort
    BY <1>6, <1>8, <1>9
  <1>12. h[n + 1].sw = nxt /\ k[n + 1] = l /\ h[n].outPort = t.links[l].port
    BY <1>5, <1>6, <1>8, <1>9, <1>10
  <1>13. Joins(t, k[1], h[1].sw, DeviceEnd(src))  BY <1>1, <1>10, <1>11
  <1>14. ASSUME NEW i \in 1 .. ((n + 1) - 1)  PROVE Inner(t, x, i)
    <2>1. CASE i = n
      <3>1. Joins(t, l, p.hops[n].sw, SwitchEnd(nxt))  BY <1>2, <1>3, <1>4 DEF Joins
      <3>2. QED  BY <1>10, <1>11, <1>12, <2>1, <3>1 DEF Inner, h, k
    <2>2. CASE i \in 1 .. (n - 1) /\ i + 1 \in 1 .. n
      <3>1. Inner(t, p, i)  BY <1>1, <2>2
      <3>2. /\ h[i] = p.hops[i] /\ h[i + 1].sw = p.hops[i + 1].sw
            /\ k[i + 1] = p.links[i + 1]
        BY <1>6, <1>9, <1>10, <1>11, <2>2
      <3>3. QED  BY <3>1, <3>2 DEF Inner, h, k
    <2>3. QED  BY <1>10, <2>1, <2>2
  <1>15. DistinctHops(h)
    <2>1. \A i \in 1 .. n : p.hops[i].sw \in HopSwitches(p)
      BY <1>1 DEF HopSwitches
    <2>2. \A i \in 1 .. n : h[i].sw # nxt  BY <1>2, <1>11, <2>1
    <2>3. \A i, j \in 1 .. n : h[i].sw = h[j].sw => i = j  BY <1>1, <1>11 DEF DistinctHops
    <2>4. QED  BY <1>9, <1>10, <1>12, <2>2, <2>3 DEF DistinctHops
  <1>16. n + 1 <= D  BY <1>1, <1>2
  <1>17. Len(k) = n + 1  BY <1>6, <1>8
  <1>18. ASSUME NEW i \in 1 .. (n + 1)  PROVE Enters(t, x, i)
    <2>1. CASE i \in 1 .. n
      <3>1. i = 1 \/ (i # 1 /\ i - 1 \in 1 .. n)  BY <2>1
      <3>2. Enters(t, p, i)  BY <1>1, <2>1
      <3>3. QED  BY <1>10, <1>11, <2>1, <3>1, <3>2, Zenon DEF Enters, h, k
    <2>2. CASE i = n + 1
      <3>1. i # 1 /\ i - 1 = n  BY <2>2
      <3>2. h[i].inPort = InboundPort(t, h[i].sw, h[i - 1].sw)
        BY <1>4, <1>5, <1>9, <1>10, <1>11, <1>12, <2>2, <3>1, Zenon
      <3>3. QED  BY <3>1, <3>2, Zenon DEF Enters, h
    <2>3. QED  BY <1>10, <2>1, <2>2
  <1>19. x \in Frontier(t, src, D, n + 1)
    BY <1>8, <1>9, <1>13, <1>14, <1>15, <1>16, <1>17, <1>18, Zenon DEF Frontier, h, k
  <1>20. QED  BY <1>19 DEF x

\* A prefix completed is a path.
LEMMA CompletedOK ==
    ASSUME NEW t, Searchable(t), NEW src, NEW dst, NEW D, NEW n \in Nat \ {0},
           NEW p \in Frontier(t, src, D, n), NEW l \in EndingEdges(t, p, dst)
    PROVE  /\ Completed(t, p, l) \in Paths(t, src, dst, D, n)
           /\ Completed(t, p, l).links = Append(p.links, l)
  <1> DEFINE q == Leaving(t, p, l, "device")
             x == Completed(t, p, l)
             h == x.hops
             k == x.links
             st == PathState(t, q.links)
  <1>1. /\ p.hops \in Seq(Hop) /\ Len(p.hops) = n /\ n <= D
        /\ p.links \in Seq(DOMAIN t.links) /\ Len(p.links) = n
        /\ Joins(t, p.links[1], p.hops[1].sw, DeviceEnd(src))
        /\ \A i \in 1 .. (n - 1) : Inner(t, p, i)
        /\ \A i \in 1 .. n : Enters(t, p, i)
        /\ DistinctHops(p.hops)
    BY DEF Frontier
  <1>2. /\ l \in DOMAIN t.links /\ t.links[l].rootSwitch = CurrentSwitch(p)
        /\ EdgeUsable(t, l) /\ t.links[l].otherEnd = DeviceEnd(dst)
    BY DEF EndingEdges, SwitchEdges
  <1>3. CurrentSwitch(p) = p.hops[n].sw  BY <1>1 DEF CurrentSwitch
  <1>qx. /\ q = Leaving(t, p, l, "device")
         /\ x = [hops |-> q.hops, links |-> q.links, state |-> st]
    BY DEF Completed
  <1>6. st \in {"UP", "DEGRADED"}  BY DEF PathState
  <1> HIDE DEF q, x, st
  <1>4. /\ q.hops \in Seq(Hop) /\ Len(q.hops) = n
        /\ q.links \in Seq(DOMAIN t.links) /\ Len(q.links) = n + 1
        /\ q.links = Append(p.links, l)
        /\ \A i \in 1 .. n : /\ q.links[i] = p.links[i]
                               /\ q.hops[i].sw = p.hops[i].sw /\ q.hops[i].inPort = p.hops[i].inPort
        /\ \A i \in 1 .. (n - 1) : q.hops[i] = p.hops[i]
        /\ q.links[n + 1] = l
        /\ q.hops[n].outPort = t.links[l].port
    <2>1. Left(t, p, l, n, q)  BY <1>2, <1>qx, LeavingFacts
    <2>2. QED  BY <2>1 DEF Left
  <1>5. x = [hops |-> q.hops, links |-> q.links, state |-> st]  BY <1>qx
  <1>7. /\ x \in [hops : Seq(Hop), links : Seq(DOMAIN t.links), state : {"UP", "DEGRADED"}]
        /\ h = q.hops /\ k = q.links /\ x.state = st
    BY <1>4, <1>5, <1>6
  <1> HIDE DEF h, k
  <1>8. /\ n \in 1 .. n /\ 1 \in 1 .. n
        /\ \A i \in 1 .. (n - 1) : i \in 1 .. n /\ i + 1 \in 1 .. n
    OBVIOUS
  <1>9. \A i \in 1 .. n : k[i] = p.links[i] /\ h[i].sw = p.hops[i].sw /\ h[i].inPort = p.hops[i].inPort
    BY <1>4, <1>7
  <1>10. Joins(t, k[1], h[1].sw, DeviceEnd(src))  BY <1>1, <1>8, <1>9
  <1>11. ASSUME NEW i \in 1 .. (n - 1)  PROVE Inner(t, x, i)
    <2>1. Inner(t, p, i)  BY <1>1
    <2>2. /\ h[i] = p.hops[i] /\ h[i + 1].sw = p.hops[i + 1].sw
          /\ k[i + 1] = p.links[i + 1]
      BY <1>4, <1>7, <1>8, <1>9
    <2>3. QED  BY <2>1, <2>2 DEF Inner, h, k
  <1>12. Joins(t, k[n + 1], h[n].sw, DeviceEnd(dst)) /\ h[n].outPort = t.links[k[n + 1]].port
    BY <1>2, <1>3, <1>4, <1>7, <1>8, <1>9 DEF Joins
  <1>13. DistinctHops(h)
    BY <1>1, <1>4, <1>7, <1>9 DEF DistinctHops
  <1>14. Len(h) = n /\ Len(k) = n + 1  BY <1>4, <1>7
  <1>15. x.state = PathState(t, k)  BY <1>7, Zenon DEF st
  <1>16. ASSUME NEW i \in 1 .. n  PROVE Enters(t, x, i)
    <2>1. i = 1 \/ (i # 1 /\ i - 1 \in 1 .. n)  OBVIOUS
    <2>2. Enters(t, p, i)  BY <1>1
    <2>3. QED  BY <1>8, <1>9, <2>1, <2>2, Zenon DEF Enters, h, k
  <1>17. x \in Paths(t, src, dst, D, n)
    BY <1>1, <1>7, <1>10, <1>11, <1>12, <1>13, <1>14, <1>15, <1>16, Zenon DEF Paths, h, k
  <1>18. QED  BY <1>4, <1>7, <1>17 DEF x, k

-----------------------------------------------------------------------------
\* ext holds elements of Q, made from p by appending different links.
Grown(t, ext, p, Q) ==
    /\ ext \in Seq(Q)
    /\ \A i \in 1 .. Len(ext) : \E l \in DOMAIN t.links : ext[i].links = Append(p.links, l)
    /\ LinksDiffer(ext)

\* Each of the links E is appended to p in some element of ext.
Reaches(ext, p, E) == \A l \in E : \E i \in 1 .. Len(ext) : ext[i].links = Append(p.links, l)

\* The elements of a list, each put through an operation that appends it.
LEMMA GrownFromList ==
    ASSUME NEW t, NEW p, NEW Q, NEW E, E \subseteq DOMAIN t.links, NEW e, Lists(e, E),
           p.links \in Seq(DOMAIN t.links),
           NEW ext, DOMAIN ext = 1 .. Len(e), ext = [i \in 1 .. Len(e) |-> ext[i]],
           \A i \in 1 .. Len(e) : ext[i] \in Q /\ ext[i].links = Append(p.links, e[i])
    PROVE  Grown(t, ext, p, Q) /\ Reaches(ext, p, E)
  <1>1. e \in Seq(E) /\ Len(e) \in Nat /\ \A i \in 1 .. Len(e) : e[i] \in DOMAIN t.links
    BY DEF Lists
  <1>2. \A i, j \in 1 .. Len(e) : i < j => e[i] # e[j]  BY <1>1, SMTT(40) DEF Lists
  <1>3. ext \in Seq(Q) /\ Len(ext) = Len(e)
    <2> DEFINE n == Len(e)
    <2>1. n \in Nat /\ ext = [i \in 1 .. n |-> ext[i]] /\ \A i \in 1 .. n : ext[i] \in Q  BY <1>1
    <2> HIDE DEF n
    <2>2. ext \in Seq(Q) /\ Len(ext) = n  BY <2>1
    <2>3. QED  BY <2>2 DEF n
  <1>4. ASSUME NEW i \in 1 .. Len(e), NEW j \in 1 .. Len(e), i < j
        PROVE  ext[i].links # ext[j].links
    <2> DEFINE u == p.links
               L == DOMAIN t.links
    <2>1. ext[i].links = Append(u, e[i]) /\ ext[j].links = Append(u, e[j])  OBVIOUS
    <2>2. u \in Seq(L) /\ e[i] \in L /\ e[j] \in L /\ e[i] # e[j] /\ Len(u) = Len(u)
      BY <1>1, <1>2, <1>4
    <2> HIDE DEF u, L
    <2>3. Append(u, e[i]) # Append(u, e[j])  BY <2>2, AppendInjective
    <2>4. QED  BY <2>1, <2>3
  <1>5. Grown(t, ext, p, Q)  BY <1>1, <1>3, <1>4, Zenon DEF Grown, LinksDiffer
  <1>6. Reaches(ext, p, E)
    <2> SUFFICES ASSUME NEW l \in E  PROVE \E i \in 1 .. Len(ext) : ext[i].links = Append(p.links, l)
      BY DEF Reaches
    <2>1. PICK i \in 1 .. Len(e) : e[i] = l  BY Zenon DEF Lists
    <2>2. ext[i].links = Append(p.links, l)  BY <2>1, Zenon
    <2>3. QED  BY <1>3, <2>2, Zenon
  <1>7. QED  BY <1>5, <1>6

LEMMA ExtensionsGrown ==
    ASSUME NEW t, Searchable(t), NEW src, NEW cfg, NEW D \in Nat, cfg.maxDepth = D,
           NEW n \in Nat \ {0}, NEW m, m = n + 1, NEW p \in Frontier(t, src, D, n)
    PROVE  /\ Grown(t, Extensions(t, p, cfg), p, Frontier(t, src, D, m))
           /\ Reaches(Extensions(t, p, cfg), p, TakenEdges(t, p, cfg))
  <1> DEFINE E == TakenEdges(t, p, cfg)
             e == InEdgeOrder(t, E)
             ext == Extensions(t, p, cfg)
             Q == Frontier(t, src, D, m)
  <1>1. E \subseteq DOMAIN t.links  BY DEF TakenEdges, SwitchEdges
  <1>2. p.links \in Seq(DOMAIN t.links)  BY DEF Frontier
  <1>3. Lists(e, E)
    <2> HIDE DEF E
    <2>1. QED  BY <1>1, InEdgeOrderLists
  <1>4. ext = [i \in DOMAIN e |-> Extended(t, p, e[i])]
    BY Zenon DEF Extensions, TakenEdges, Extended
  <1> HIDE DEF E, e, ext, Q
  <1>5. DOMAIN e = 1 .. Len(e) /\ \A i \in 1 .. Len(e) : e[i] \in E  BY <1>3 DEF Lists
  <1>6. /\ DOMAIN ext = 1 .. Len(e) /\ ext = [i \in 1 .. Len(e) |-> ext[i]]
        /\ \A i \in 1 .. Len(e) : ext[i] = Extended(t, p, e[i])
    BY <1>4, <1>5
  <1>7. \A l \in E : Extended(t, p, l) \in Q /\ Extended(t, p, l).links = Append(p.links, l)
    <2> SUFFICES ASSUME NEW l \in TakenEdges(t, p, cfg)
                 PROVE  /\ Extended(t, p, l) \in Frontier(t, src, D, m)
                        /\ Extended(t, p, l).links = Append(p.links, l)
      BY DEF E, Q
    <2>1. Takes(t, p, l, D)  BY DEF TakenEdges, Takes
    <2>2. Extended(t, p, l) \in Frontier(t, src, D, m)  BY <2>1, ExtendedOK
    <2>3. Extended(t, p, l).links = Append(p.links, l)  BY DEF Extended, Leaving
    <2>4. QED  BY <2>2, <2>3
  <1>8. \A i \in 1 .. Len(e) : ext[i] \in Q /\ ext[i].links = Append(p.links, e[i])
    BY <1>5, <1>6, <1>7, Zenon
  <1>9. Grown(t, ext, p, Q) /\ Reaches(ext, p, E)
    BY <1>1, <1>2, <1>3, <1>6, <1>8, GrownFromList
  <1>10. QED  BY <1>9 DEF ext, Q, E

LEMMA CompletionsGrown ==
    ASSUME NEW t, Searchable(t), NEW src, NEW dst, NEW D, NEW n \in Nat \ {0},
           NEW p \in Frontier(t, src, D, n)
    PROVE  /\ Grown(t, Completions(t, p, dst), p, Paths(t, src, dst, D, n))
           /\ Reaches(Completions(t, p, dst), p, EndingEdges(t, p, dst))
  <1> DEFINE E == EndingEdges(t, p, dst)
             e == InEdgeOrder(t, E)
             ext == Completions(t, p, dst)
             Q == Paths(t, src, dst, D, n)
  <1>1. E \subseteq DOMAIN t.links  BY DEF EndingEdges, SwitchEdges
  <1>2. p.links \in Seq(DOMAIN t.links)  BY DEF Frontier
  <1>3. Lists(e, E)
    <2> HIDE DEF E
    <2>1. QED  BY <1>1, InEdgeOrderLists
  <1>4. ext = [i \in DOMAIN e |-> Completed(t, p, e[i])]
    BY Zenon DEF Completions, EndingEdges, Completed
  <1> HIDE DEF E, e, ext, Q
  <1>5. DOMAIN e = 1 .. Len(e) /\ \A i \in 1 .. Len(e) : e[i] \in E  BY <1>3 DEF Lists
  <1>6. /\ DOMAIN ext = 1 .. Len(e) /\ ext = [i \in 1 .. Len(e) |-> ext[i]]
        /\ \A i \in 1 .. Len(e) : ext[i] = Completed(t, p, e[i])
    BY <1>4, <1>5
  <1>7. \A l \in E : Completed(t, p, l) \in Q /\ Completed(t, p, l).links = Append(p.links, l)
    BY CompletedOK DEF E, Q
  <1>8. \A i \in 1 .. Len(e) : ext[i] \in Q /\ ext[i].links = Append(p.links, e[i])
    BY <1>5, <1>6, <1>7, Zenon
  <1>9. Grown(t, ext, p, Q) /\ Reaches(ext, p, E)
    BY <1>1, <1>2, <1>3, <1>6, <1>8, GrownFromList
  <1>10. QED  BY <1>9 DEF ext, Q, E

\* A level of the search: prefixes of n switches, all different.
LevelOK(t, src, D, n, lv) == lv \in Seq(Frontier(t, src, D, n)) /\ LinksDiffer(lv)

\* Growing every prefix of a level keeps what comes out different.
LEMMA GrowLevel ==
    ASSUME NEW t, NEW src, NEW D, NEW n \in Nat \ {0}, NEW lv, LevelOK(t, src, D, n, lv), NEW Q,
           NEW s, s = [i \in DOMAIN lv |-> s[i]],
           \A i \in DOMAIN lv : Grown(t, s[i], lv[i], Q)
    PROVE  FlattenSeq(s) \in Seq(Q) /\ LinksDiffer(FlattenSeq(s))
  <1> DEFINE N == Len(lv)
             P == Frontier(t, src, D, n)
  <1>1. lv \in Seq(P) /\ N \in Nat /\ DOMAIN lv = 1 .. N  BY DEF LevelOK
  <1>2. \A i \in 1 .. N : lv[i].links \in Seq(DOMAIN t.links) /\ Len(lv[i].links) = n
    <2>1. \A p \in P : p.links \in Seq(DOMAIN t.links) /\ Len(p.links) = n  BY DEF Frontier
    <2> HIDE DEF P
    <2>2. QED  BY <1>1, <2>1
  <1> HIDE DEF N, P
  <1>3. s \in [1 .. N -> Seq(Q)]
    <2>1. \A i \in 1 .. N : s[i] \in Seq(Q)  BY <1>1, Zenon DEF Grown
    <2>2. QED  BY <1>1, <2>1
  <1>4. ASSUME NEW a \in 1 .. N, NEW c \in 1 .. N, NEW b \in 1 .. Len(s[a]), NEW d \in 1 .. Len(s[c]),
               a < c \/ (a = c /\ b < d)
        PROVE  s[a][b].links # s[c][d].links
    <2>1. CASE a = c /\ b < d
      <3>1. LinksDiffer(s[a])  BY <1>1, Zenon DEF Grown
      <3>2. QED  BY <2>1, <3>1, Zenon DEF LinksDiffer
    <2>2. CASE a < c
      <3>1. lv[a].links # lv[c].links
        BY <2>2, Zenon DEF LevelOK, LinksDiffer, N
      <3>2. PICK l \in DOMAIN t.links : s[a][b].links = Append(lv[a].links, l)
        BY <1>1, Zenon DEF Grown
      <3>3. PICK m \in DOMAIN t.links : s[c][d].links = Append(lv[c].links, m)
        BY <1>1, Zenon DEF Grown
      <3> DEFINE L == DOMAIN t.links
                 u == lv[a].links
                 v == lv[c].links
      <3>4. u \in Seq(L) /\ v \in Seq(L) /\ Len(u) = Len(v) /\ u # v /\ l \in L /\ m \in L
        BY <1>2, <3>1
      <3> HIDE DEF L, u, v
      <3>5. Append(u, l) # Append(v, m)  BY <3>4, AppendInjective
      <3>6. QED  BY <3>2, <3>3, <3>5 DEF u, v
    <2>3. QED  BY <1>4, <2>1, <2>2
  <1>5. QED  BY <1>1, <1>3, <1>4, FlattenDistinct

\* The first level.
LEMMA SeedsOK ==
    ASSUME NEW t, Searchable(t), NEW src, NEW D \in Nat \ {0}
    PROVE  /\ LevelOK(t, src, D, 1, SeedPaths(t, src))
           /\ \A l : Joins(t, l, t.links[l].rootSwitch, DeviceEnd(src)) =>
                 \E i \in 1 .. Len(SeedPaths(t, src)) : SeedPaths(t, src)[i].links = <<l>>
  <1> DEFINE E == {l \in DeviceEdges(t, src) : EdgeUsable(t, l)}
             e == InEdgeOrder(t, E)
             Seed(l) == [hops |-> <<Entering(t.links[l].port[1], t.links[l].port)>>, links |-> <<l>>]
             lv == SeedPaths(t, src)
             P == Frontier(t, src, D, 1)
  <1>1. E \subseteq DOMAIN t.links  BY DEF DeviceEdges
  <1>2. Lists(e, E)
    <2> HIDE DEF E
    <2>1. QED  BY <1>1, InEdgeOrderLists
  <1>3. lv = [i \in DOMAIN e |-> Seed(e[i])]
    BY Zenon DEF SeedPaths
  <1>4. ASSUME NEW l \in E  PROVE Seed(l) \in P /\ Seed(l).links = <<l>>
    <2> DEFINE port == t.links[l].port
               hop == Entering(port[1], port)
    <2>1. /\ l \in DOMAIN t.links /\ port \in PortIds /\ port[1] = t.links[l].rootSwitch
          /\ EdgeUsable(t, l) /\ t.links[l].otherEnd = DeviceEnd(src)
      BY <1>1, SearchableFacts DEF DeviceEdges
    <2>2. hop \in Hop /\ hop.sw = t.links[l].rootSwitch /\ hop.inPort = port
      BY <2>1 DEF Entering, Hop, PortIds
    <2>3. Joins(t, l, hop.sw, DeviceEnd(src))  BY <2>1, <2>2 DEF Joins
    <2> HIDE DEF hop
    <2> DEFINE x == [hops |-> <<hop>>, links |-> <<l>>]
    <2>4. /\ x \in [hops : Seq(Hop), links : Seq(DOMAIN t.links)]
          /\ x.hops = <<hop>> /\ x.links = <<l>>
      <3>1. <<hop>> \in Seq(Hop)  BY <2>2
      <3>2. <<l>> \in Seq(DOMAIN t.links)
        <4> DEFINE L == DOMAIN t.links
        <4>1. l \in L  BY <2>1
        <4> HIDE DEF L
        <4>2. <<l>> \in Seq(L)  BY <4>1
        <4>3. QED  BY <4>2 DEF L
      <3>3. QED  BY <3>1, <3>2
    <2>5. Seed(l) = x  BY DEF hop
    <2> HIDE DEF x
    <2>6. /\ Len(x.hops) = 1 /\ Len(x.links) = 1 /\ x.hops[1] = hop /\ x.links[1] = l
          /\ 1 .. (1 - 1) = {} /\ 1 <= D
      BY <2>4
    <2>7. DistinctHops(x.hops)  BY <2>6 DEF DistinctHops
    <2>8. \A i \in 1 .. 1 : Enters(t, x, i)  BY <2>2, <2>6 DEF Enters
    <2>9. x \in P  BY <2>3, <2>4, <2>6, <2>7, <2>8, Zenon DEF Frontier
    <2>10. QED  BY <2>4, <2>5, <2>9
  <1> HIDE DEF E, e, Seed, lv, P
  <1>5. /\ e \in Seq(E) /\ Len(e) \in Nat /\ DOMAIN e = 1 .. Len(e) /\ \A i \in 1 .. Len(e) : e[i] \in E
        /\ \A i, j \in 1 .. Len(e) : i < j => e[i] # e[j]
    BY <1>2 DEF Lists
  <1>6. lv \in Seq(P) /\ Len(lv) = Len(e) /\ \A i \in 1 .. Len(e) : lv[i] = Seed(e[i])
    <2> DEFINE n == Len(e)
    <2> HIDE DEF n
    <2>1. n \in Nat /\ lv = [i \in 1 .. n |-> Seed(e[i])] /\ \A i \in 1 .. n : Seed(e[i]) \in P
      BY <1>3, <1>4, <1>5 DEF n
    <2>2. lv \in Seq(P) /\ Len(lv) = n /\ \A i \in 1 .. n : lv[i] = Seed(e[i])  BY <2>1
    <2>3. QED  BY <2>2 DEF n
  <1>7. ASSUME NEW i \in 1 .. Len(e), NEW j \in 1 .. Len(e), i < j
        PROVE  lv[i].links # lv[j].links
    <2>1. lv[i].links = <<e[i]>> /\ lv[j].links = <<e[j]>> /\ e[i] # e[j]
      BY <1>4, <1>5, <1>6, <1>7
    <2>2. QED  BY <2>1
  <1>8. LevelOK(t, src, D, 1, lv)  BY <1>6, <1>7, Zenon DEF LevelOK, LinksDiffer, P
  <1>9. ASSUME NEW l, Joins(t, l, t.links[l].rootSwitch, DeviceEnd(src))
        PROVE  \E i \in 1 .. Len(lv) : lv[i].links = <<l>>
    <2>1. l \in E  BY <1>9, Zenon DEF Joins, E, DeviceEdges
    <2>2. PICK i \in 1 .. Len(e) : e[i] = l  BY <1>2, <2>1, Zenon DEF Lists
    <2>3. QED  BY <1>4, <1>6, <2>1, <2>2, Zenon
  <1>10. QED  BY <1>8, <1>9 DEF lv

-----------------------------------------------------------------------------
NextLevel(t, cfg, prev) == FlattenSeq([i \in DOMAIN prev |-> Extensions(t, prev[i], cfg)])
Found(t, dst, lv) == FlattenSeq([i \in DOMAIN lv |-> Completions(t, lv[i], dst)])

LEMMA NextLevelOK ==
    ASSUME NEW t, Searchable(t), NEW src, NEW cfg, NEW D \in Nat, cfg.maxDepth = D,
           NEW n \in Nat \ {0}, NEW m, m = n + 1, NEW lv, LevelOK(t, src, D, n, lv)
    PROVE  LevelOK(t, src, D, m, NextLevel(t, cfg, lv))
  <1> DEFINE s == [i \in DOMAIN lv |-> Extensions(t, lv[i], cfg)]
             Q == Frontier(t, src, D, m)
  <1>1. ASSUME NEW i \in DOMAIN lv  PROVE Grown(t, s[i], lv[i], Q)
    <2>1. lv[i] \in Frontier(t, src, D, n)  BY DEF LevelOK
    <2>2. Grown(t, Extensions(t, lv[i], cfg), lv[i], Q)  BY <2>1, ExtensionsGrown
    <2>3. QED  BY <2>2
  <1>2. s = [i \in DOMAIN lv |-> s[i]]  OBVIOUS
  <1> HIDE DEF s, Q
  <1>3. FlattenSeq(s) \in Seq(Q) /\ LinksDiffer(FlattenSeq(s))  BY <1>1, <1>2, GrowLevel
  <1>4. FlattenSeq(s) = NextLevel(t, cfg, lv)  BY Zenon DEF s, NextLevel
  <1>5. QED  BY <1>3, <1>4, Zenon DEF LevelOK, Q

LEMMA FoundOK ==
    ASSUME NEW t, Searchable(t), NEW src, NEW dst, NEW D, NEW n \in Nat \ {0},
           NEW lv, LevelOK(t, src, D, n, lv)
    PROVE  Found(t, dst, lv) \in Seq(Paths(t, src, dst, D, n)) /\ LinksDiffer(Found(t, dst, lv))
  <1> DEFINE s == [i \in DOMAIN lv |-> Completions(t, lv[i], dst)]
             Q == Paths(t, src, dst, D, n)
  <1>1. ASSUME NEW i \in DOMAIN lv  PROVE Grown(t, s[i], lv[i], Q)
    <2>1. lv[i] \in Frontier(t, src, D, n)  BY DEF LevelOK
    <2>2. Grown(t, Completions(t, lv[i], dst), lv[i], Q)  BY <2>1, CompletionsGrown
    <2>3. QED  BY <2>2
  <1>2. s = [i \in DOMAIN lv |-> s[i]]  OBVIOUS
  <1> HIDE DEF s, Q
  <1>3. FlattenSeq(s) \in Seq(Q) /\ LinksDiffer(FlattenSeq(s))  BY <1>1, <1>2, GrowLevel
  <1>4. FlattenSeq(s) = Found(t, dst, lv)  BY Zenon DEF s, Found
  <1>5. QED  BY <1>3, <1>4, Zenon DEF Q

\* f holds the levels 1 to m of the search.
Levels(t, src, cfg, f, m) ==
    \A n \in 1 .. m : f[n] = IF n = 1 THEN SeedPaths(t, src) ELSE NextLevel(t, cfg, f[n - 1])

\* f solves the recursion.
LevelFunction(t, src, cfg, N, f) ==
    f = [n \in 1 .. N |-> IF n = 1 THEN SeedPaths(t, src) ELSE NextLevel(t, cfg, f[n - 1])]

\* The levels exist: the recursion of the search is well founded.
LEMMA LevelsExist ==
    ASSUME NEW t, NEW src, NEW cfg, NEW N \in Nat
    PROVE  \E f : LevelFunction(t, src, cfg, N, f)
  <1> DEFINE Exists(m) == \E f : DOMAIN f = 1 .. m /\ f = [n \in 1 .. m |-> f[n]]
                                    /\ Levels(t, src, cfg, f, m)
             S == {m \in Nat : Exists(m)}
  <1>1. 0 \in S
    <2> DEFINE f == [n \in 1 .. 0 |-> 0]
    <2>1. DOMAIN f = 1 .. 0 /\ f = [n \in 1 .. 0 |-> f[n]]  OBVIOUS
    <2>2. 1 .. 0 = {}  OBVIOUS
    <2> HIDE DEF f
    <2>3. Levels(t, src, cfg, f, 0)  BY <2>2, Zenon DEF Levels
    <2>4. QED  BY <2>1, <2>3
  <1>2. ASSUME NEW m \in Nat, m \in S  PROVE m + 1 \in S
    <2>1. PICK f : DOMAIN f = 1 .. m /\ f = [n \in 1 .. m |-> f[n]] /\ Levels(t, src, cfg, f, m)
      BY <1>2
    <2> DEFINE last == IF m + 1 = 1 THEN SeedPaths(t, src) ELSE NextLevel(t, cfg, f[m])
               h == [n \in 1 .. (m + 1) |-> IF n = m + 1 THEN last ELSE f[n]]
    <2>2. /\ m + 1 \in 1 .. (m + 1) /\ (m + 1) - 1 = m /\ m + 1 \in Nat
          /\ (m + 1 # 1 => m \in 1 .. m)
      OBVIOUS
    <2>3. \A n \in 1 .. m : /\ n \in 1 .. (m + 1) /\ n # m + 1
                            /\ n # 1 => n - 1 \in 1 .. m
      OBVIOUS
    <2>4. \A n \in 1 .. (m + 1) : n \in 1 .. m \/ n = m + 1  OBVIOUS
    <2> HIDE DEF last
    <2>5. h[m + 1] = last /\ \A n \in 1 .. m : h[n] = f[n]  BY <2>2, <2>3
    <2>6. DOMAIN h = 1 .. (m + 1) /\ h = [n \in 1 .. (m + 1) |-> h[n]]  OBVIOUS
    <2> HIDE DEF h
    <2>7. ASSUME NEW n \in 1 .. m
          PROVE  h[n] = IF n = 1 THEN SeedPaths(t, src) ELSE NextLevel(t, cfg, h[n - 1])
      BY <2>1, <2>3, <2>5, Zenon DEF Levels
    <2>8. h[m + 1] = IF m + 1 = 1 THEN SeedPaths(t, src) ELSE NextLevel(t, cfg, h[(m + 1) - 1])
      BY <2>2, <2>5, Zenon DEF last
    <2>9. Levels(t, src, cfg, h, m + 1)  BY <2>4, <2>7, <2>8, Zenon DEF Levels
    <2>10. QED  BY <2>2, <2>6, <2>9
  <1>3. Exists(N)
    <2> HIDE DEF S, Exists
    <2>1. Nat \subseteq S  BY <1>1, <1>2, SetInduction
    <2>2. QED  BY <2>1 DEF S
  <1>4. PICK f : DOMAIN f = 1 .. N /\ f = [n \in 1 .. N |-> f[n]] /\ Levels(t, src, cfg, f, N)
    BY <1>3
  <1>5. f = [n \in 1 .. N |-> IF n = 1 THEN SeedPaths(t, src) ELSE NextLevel(t, cfg, f[n - 1])]
    BY <1>4, Zenon DEF Levels
  <1>6. QED  BY <1>5 DEF LevelFunction

\* And all of them are in order.
LEMMA LevelsOK ==
    ASSUME NEW t, Searchable(t), NEW src, NEW cfg, NEW D \in Nat \ {0}, cfg.maxDepth = D,
           NEW N \in Nat, NEW f, Levels(t, src, cfg, f, N)
    PROVE  \A n \in 1 .. N : LevelOK(t, src, D, n, f[n])
  <1> DEFINE S == {n \in Nat : n >= 1 /\ n <= N => LevelOK(t, src, D, n, f[n])}
  <1>1. 0 \in S  OBVIOUS
  <1>2. ASSUME NEW n \in Nat, n \in S  PROVE n + 1 \in S
    <2>1. ASSUME n + 1 <= N  PROVE LevelOK(t, src, D, n + 1, f[n + 1])
      <3>1. n + 1 \in 1 .. N /\ (n + 1) - 1 = n  BY <2>1
      <3>2. f[n + 1] = IF n + 1 = 1 THEN SeedPaths(t, src) ELSE NextLevel(t, cfg, f[(n + 1) - 1])
        BY <3>1, Zenon DEF Levels
      <3>3. CASE n = 0
        <4>1. f[n + 1] = SeedPaths(t, src) /\ n + 1 = 1  BY <3>2, <3>3
        <4>2. QED  BY <4>1, SeedsOK
      <3>4. CASE n # 0
        <4>1. LevelOK(t, src, D, n, f[n]) /\ n \in Nat \ {0} /\ n + 1 # 1  BY <1>2, <2>1, <3>4
        <4>2. f[n + 1] = NextLevel(t, cfg, f[n])  BY <3>1, <3>2, <4>1
        <4>3. LevelOK(t, src, D, n + 1, NextLevel(t, cfg, f[n]))  BY <4>1, NextLevelOK
        <4>4. QED  BY <4>2, <4>3
      <3>5. QED  BY <3>3, <3>4
    <2>2. QED  BY <2>1
  <1>3. QED
    <2> HIDE DEF S
    <2>1. Nat \subseteq S  BY <1>1, <1>2, SetInduction
    <2>2. QED  BY <2>1 DEF S

AnyPath(t, src, dst, D) == UNION {Paths(t, src, dst, D, n) : n \in Nat \ {0}}

\* Paths in the order they are found: none twice, and shorter ones first.
InOrder(q) ==
    \A j, k \in 1 .. Len(q) : j < k =>
        q[j].links # q[k].links /\ Len(q[j].hops) <= Len(q[k].hops)

LEMMA AllPathsOK ==
    ASSUME NEW t, Searchable(t), NEW src, NEW dst, NEW cfg, NEW D \in Nat \ {0}, cfg.maxDepth = D
    PROVE  /\ AllPaths(t, src, dst, cfg) \in Seq(AnyPath(t, src, dst, D))
           /\ InOrder(AllPaths(t, src, dst, cfg))
  <1> DEFINE N == Cardinality(DOMAIN t.switches) + 1
             Fixed(f) == f = [n \in 1 .. N |-> IF n = 1 THEN SeedPaths(t, src)
                                                        ELSE NextLevel(t, cfg, f[n - 1])]
             level == CHOOSE f : Fixed(f)
             s == [n \in 1 .. N |-> Found(t, dst, level[n])]
             Q == AnyPath(t, src, dst, D)
  <1>1. N \in Nat  BY SearchableFacts, FS_CardinalityType
  <1>2. AllPaths(t, src, dst, cfg) = FlattenSeq(s)
    BY Zenon DEF AllPaths, NextLevel, Found
  <1> HIDE DEF N
  <1>3. Fixed(level)
    <2>1. PICK f : LevelFunction(t, src, cfg, N, f)  BY <1>1, LevelsExist
    <2>3. Fixed(f)  BY <2>1, Zenon DEF LevelFunction
    <2> HIDE DEF Fixed
    <2>2. QED  BY <2>3
  <1> HIDE DEF level
  <1>4. Levels(t, src, cfg, level, N)  BY <1>3, Zenon DEF Levels
  <1>5. \A n \in 1 .. N : LevelOK(t, src, D, n, level[n])  BY <1>1, <1>4, LevelsOK
  <1>6. \A n \in 1 .. N : /\ s[n] \in Seq(Paths(t, src, dst, D, n)) /\ LinksDiffer(s[n])
                           /\ n \in Nat \ {0}
    <2> SUFFICES ASSUME NEW n \in 1 .. N
                 PROVE  /\ s[n] \in Seq(Paths(t, src, dst, D, n)) /\ LinksDiffer(s[n])
                        /\ n \in Nat \ {0}
      OBVIOUS
    <2>1. n \in Nat \ {0} /\ s[n] = Found(t, dst, level[n])  BY <1>1
    <2>2. LevelOK(t, src, D, n, level[n])  BY <1>5
    <2> HIDE DEF s
    <2>3. Found(t, dst, level[n]) \in Seq(Paths(t, src, dst, D, n)) /\ LinksDiffer(Found(t, dst, level[n]))
      BY <2>1, <2>2, FoundOK
    <2>4. QED  BY <2>1, <2>3
  <1>7. DOMAIN s = 1 .. N /\ s = [n \in 1 .. N |-> s[n]]  OBVIOUS
  <1> HIDE DEF s
  <1>8. ASSUME NEW n \in 1 .. N, NEW b \in 1 .. Len(s[n])
        PROVE  s[n][b] \in Q /\ Len(s[n][b].hops) = n /\ Len(s[n][b].links) = n + 1
    <2>1. s[n][b] \in Paths(t, src, dst, D, n) /\ n \in Nat \ {0}  BY <1>6
    <2>2. s[n][b] \in Q  BY <2>1, Zenon DEF AnyPath
    <2>3. \A p \in Paths(t, src, dst, D, n) : Len(p.hops) = n /\ Len(p.links) = n + 1  BY DEF Paths
    <2>4. QED  BY <2>1, <2>2, <2>3
  <1> HIDE DEF Q
  <1>9. s \in [1 .. N -> Seq(Q)]
    <2> SUFFICES ASSUME NEW n \in 1 .. N  PROVE s[n] \in Seq(Q)  BY <1>7
    <2>1. s[n] \in Seq(Paths(t, src, dst, D, n))  BY <1>6
    <2>2. \A b \in 1 .. Len(s[n]) : s[n][b] \in Q  BY <1>8
    <2>3. QED  BY <2>1, <2>2
  <1> DEFINE F == FlattenSeq(s)
  <1>10. F \in Seq(Q) /\ Drawn(F, s, N)  BY <1>1, <1>9, FlattenFacts
  <1> HIDE DEF F
  <1>11. ASSUME NEW j \in 1 .. Len(F), NEW k \in 1 .. Len(F), j < k
         PROVE  F[j].links # F[k].links /\ Len(F[j].hops) <= Len(F[k].hops)
    <2>1. PICK a \in 1 .. N, c \in 1 .. N : \E b \in 1 .. Len(s[a]), d \in 1 .. Len(s[c]) :
              /\ F[j] = s[a][b] /\ F[k] = s[c][d]
              /\ a < c \/ (a = c /\ b < d)
      BY <1>10, <1>11, ZenonT(40) DEF Drawn
    <2>2. PICK b \in 1 .. Len(s[a]), d \in 1 .. Len(s[c]) :
              /\ F[j] = s[a][b] /\ F[k] = s[c][d]
              /\ a < c \/ (a = c /\ b < d)
      BY <2>1, Zenon
    <2>3. /\ Len(F[j].hops) = a /\ Len(F[j].links) = a + 1
          /\ Len(F[k].hops) = c /\ Len(F[k].links) = c + 1
      BY <1>8, <2>2, ZenonT(40)
    <2>4. a \in Int /\ c \in Int  BY <1>1
    <2>5. CASE a < c
      <3>1. a <= c /\ a + 1 # c + 1  BY <2>4, <2>5
      <3>2. QED  BY <2>3, <3>1, Zenon
    <2>6. CASE a = c /\ b < d
      <3>1. LinksDiffer(s[a])  BY <1>6
      <3>2. F[j].links # F[k].links  BY <2>2, <2>6, <3>1, Zenon DEF LinksDiffer
      <3>3. a <= c  BY <2>4, <2>6
      <3>4. QED  BY <2>3, <3>2, <3>3, Zenon
    <2>7. QED  BY <2>2, <2>5, <2>6
  <1>12. InOrder(F)  BY <1>11, Zenon DEF InOrder
  <1>13. QED  BY <1>2, <1>10, <1>12, Zenon DEF F, Q

-----------------------------------------------------------------------------
(* The search misses nothing. *)

\* The links k[1], ..., k[n] lead from src over the different switches w[1],
\* ..., w[n], the last of which they enter.
Follows(t, src, w, k, n) ==
    /\ Joins(t, k[1], w[1], DeviceEnd(src))
    /\ \A i \in 1 .. (n - 1) : Joins(t, k[i + 1], w[i], SwitchEnd(w[i + 1]))
    /\ \A i, j \in 1 .. n : w[i] = w[j] => i = j

\* The first n links of p.
Agrees(p, k, n) == \A j \in 1 .. n : p.links[j] = k[j]

LEMMA FollowsLess ==
    ASSUME NEW t, NEW src, NEW w, NEW k, NEW n \in Nat, NEW m \in Nat, m <= n, Follows(t, src, w, k, n)
    PROVE  Follows(t, src, w, k, m)
  <1>1. /\ \A i \in 1 .. (m - 1) : i \in 1 .. (n - 1)
        /\ \A i \in 1 .. m : i \in 1 .. n
    OBVIOUS
  <1>2. QED  BY <1>1, Zenon DEF Follows

\* A prefix over these links passes these switches.
LEMMA SameSwitches ==
    ASSUME NEW t, NEW src, NEW D, NEW n \in Nat \ {0}, NEW p \in Frontier(t, src, D, n),
           NEW w, NEW k, Follows(t, src, w, k, n), Agrees(p, k, n)
    PROVE  \A j \in 1 .. n : p.hops[j].sw = w[j]
  <1>1. /\ Joins(t, p.links[1], p.hops[1].sw, DeviceEnd(src))
        /\ \A i \in 1 .. (n - 1) : Inner(t, p, i)
    BY DEF Frontier
  <1> SUFFICES ASSUME NEW j \in 1 .. n  PROVE p.hops[j].sw = w[j]  OBVIOUS
  <1>2. CASE j = 1
    <2>1. p.links[1] = k[1]
      <3>1. 1 \in 1 .. n  OBVIOUS
      <3>2. QED  BY <3>1, Zenon DEF Agrees
    <2>2. QED  BY <1>1, <1>2, <2>1, Zenon DEF Follows, Joins
  <1>3. CASE j # 1
    <2> DEFINE i == j - 1
    <2>1. i \in 1 .. (n - 1) /\ i + 1 = j  BY <1>3
    <2> HIDE DEF i
    <2>2. Joins(t, p.links[j], p.hops[i].sw, SwitchEnd(p.hops[j].sw))
      <3>1. Joins(t, p.links[i + 1], p.hops[i].sw, SwitchEnd(p.hops[i + 1].sw))
        BY <1>1, <2>1, Zenon DEF Inner
      <3>2. QED  BY <2>1, <3>1
    <2>3. Joins(t, k[j], w[i], SwitchEnd(w[j]))
      <3>1. Joins(t, k[i + 1], w[i], SwitchEnd(w[i + 1]))  BY <2>1, Zenon DEF Follows
      <3>2. QED  BY <2>1, <3>1
    <2>4. SwitchEnd(p.hops[j].sw) = SwitchEnd(w[j])
      BY <2>2, <2>3, Zenon DEF Joins, Agrees
    <2>5. \A a, b : SwitchEnd(a) = SwitchEnd(b) => a = b  BY DEF SwitchEnd
    <2>6. QED  BY <2>4, <2>5, Zenon
  <1>4. QED  BY <1>2, <1>3

\* A level that has the first n links has the first n + 1 on the next level.
LEMMA NextFound ==
    ASSUME NEW t, Searchable(t), NEW src, NEW cfg, NEW D \in Nat, cfg.maxDepth = D,
           cfg.allowSwitchSwitching, NEW n \in Nat \ {0}, NEW m, m = n + 1, m <= D,
           NEW lv, LevelOK(t, src, D, n, lv), NEW w, NEW k, Follows(t, src, w, k, m),
           \E i \in 1 .. Len(lv) : Agrees(lv[i], k, n)
    PROVE  \E i \in 1 .. Len(NextLevel(t, cfg, lv)) : Agrees(NextLevel(t, cfg, lv)[i], k, m)
  <1> DEFINE P == Frontier(t, src, D, n)
             Q == Frontier(t, src, D, m)
             N == Len(lv)
             s == [i \in DOMAIN lv |-> Extensions(t, lv[i], cfg)]
             l == k[m]
  <1>1. lv \in Seq(P) /\ N \in Nat /\ DOMAIN lv = 1 .. N  BY DEF LevelOK
  <1>2. PICK a \in 1 .. N : Agrees(lv[a], k, n)  OBVIOUS
  <1> DEFINE p == lv[a]
  <1>3. p \in P  BY <1>1
  <1>4. \A i \in 1 .. N : s[i] = Extensions(t, lv[i], cfg)  BY <1>1
  <1>5. s = [i \in 1 .. N |-> s[i]]  BY <1>1
  <1>6. NextLevel(t, cfg, lv) = FlattenSeq(s)  BY Zenon DEF NextLevel
  <1> HIDE DEF N, s
  <1>7. ASSUME NEW i \in 1 .. N  PROVE s[i] \in Seq(Q) /\ Reaches(s[i], lv[i], TakenEdges(t, lv[i], cfg))
    <2>1. lv[i] \in P  BY <1>1
    <2>2. /\ Grown(t, Extensions(t, lv[i], cfg), lv[i], Q)
          /\ Reaches(Extensions(t, lv[i], cfg), lv[i], TakenEdges(t, lv[i], cfg))
      BY <2>1, ExtensionsGrown
    <2>3. QED  BY <1>4, <2>2, Zenon DEF Grown
  <1>8. s \in [1 .. N -> Seq(Q)]
    <2> HIDE DEF Q
    <2>1. QED  BY <1>5, <1>7
  <1>9. /\ p.hops \in Seq(Hop) /\ Len(p.hops) = n /\ DOMAIN p.hops = 1 .. n
        /\ p.links \in Seq(DOMAIN t.links) /\ Len(p.links) = n
    <2> HIDE DEF p
    <2>1. p.hops \in Seq(Hop) /\ Len(p.hops) = n /\ p.links \in Seq(DOMAIN t.links) /\ Len(p.links) = n
      BY <1>3 DEF Frontier
    <2>2. QED  BY <2>1
  <1>10. \A j \in 1 .. n : p.hops[j].sw = w[j]
    <2> HIDE DEF p
    <2>1. n <= m /\ n \in Nat /\ m \in Nat  OBVIOUS
    <2>2. Follows(t, src, w, k, n)  BY <2>1, FollowsLess
    <2>3. Agrees(p, k, n)  BY <1>2 DEF p
    <2>4. QED  BY <1>3, <2>2, <2>3, SameSwitches
  <1> HIDE DEF p, l
  <1>11. Joins(t, l, w[n], SwitchEnd(w[m]))
    <2>1. n \in 1 .. (m - 1) /\ n + 1 = m  OBVIOUS
    <2>2. Joins(t, k[n + 1], w[n], SwitchEnd(w[n + 1]))  BY <2>1, Zenon DEF Follows
    <2>3. QED  BY <2>1, <2>2 DEF l
  <1>12. l \in TakenEdges(t, p, cfg)
    <2>1. CurrentSwitch(p) = w[n]
      <3>1. n \in 1 .. n  OBVIOUS
      <3>2. QED  BY <1>9, <1>10, <3>1 DEF CurrentSwitch
    <2>2. l \in SwitchEdges(t, CurrentSwitch(p)) /\ EdgeUsable(t, l) /\ t.links[l].otherEnd = SwitchEnd(w[m])
      BY <1>11, <2>1, Zenon DEF Joins, SwitchEdges
    <2>3. SwitchEnd(w[m]).kind = "Switch" /\ SwitchEnd(w[m]).id = w[m]  BY DEF SwitchEnd
    <2>4. w[m] \notin HopSwitches(p)
      <3> SUFFICES ASSUME NEW j \in 1 .. n, p.hops[j].sw = w[m]  PROVE FALSE
        BY <1>9 DEF HopSwitches
      <3>1. w[j] = w[m] /\ j \in 1 .. m /\ m \in 1 .. m /\ j # m  BY <1>10
      <3>2. QED  BY <3>1, Zenon DEF Follows
    <2>5. Len(p.hops) < cfg.maxDepth  BY <1>9
    <2>6. QED  BY <2>2, <2>3, <2>4, <2>5, Zenon DEF TakenEdges, Visited
  <1>13. PICK b \in 1 .. Len(s[a]) : s[a][b].links = Append(p.links, l)
    BY <1>7, <1>12, Zenon DEF Reaches, p
  <1>14. AllDrawn(FlattenSeq(s), s, N)
    <2> HIDE DEF Q
    <2>1. QED  BY <1>1, <1>8, FlattenFacts
  <1> DEFINE F == FlattenSeq(s)
  <1>15. PICK c \in 1 .. Len(F) : F[c] = s[a][b]  BY <1>14, Zenon DEF AllDrawn
  <1> HIDE DEF F
  <1>16. Agrees(F[c], k, m)
    <2> DEFINE L == DOMAIN t.links
               u == p.links
               v == Append(u, l)
    <2>1. u \in Seq(L) /\ Len(u) = n /\ l \in L  BY <1>9, <1>11 DEF Joins
    <2> HIDE DEF L, u
    <2>2. v[n + 1] = l /\ \A j \in 1 .. n : v[j] = u[j]  BY <2>1, AppendFacts
    <2> HIDE DEF v
    <2>3. \A j \in 1 .. n : u[j] = k[j]  BY <1>2, Zenon DEF Agrees, u, p
    <2>4. \A j \in 1 .. m : j \in 1 .. n \/ (j = n + 1 /\ j = m)  OBVIOUS
    <2>5. F[c].links = v  BY <1>13, <1>15 DEF v, u
    <2>6. \A j \in 1 .. m : v[j] = k[j]  BY <2>2, <2>3, <2>4, Zenon DEF l
    <2>7. QED  BY <2>5, <2>6, Zenon DEF Agrees
  <1>17. QED  BY <1>6, <1>15, <1>16, Zenon DEF F

\* Whatever leads on over different switches is in the frontier.
LEMMA PrefixFound ==
    ASSUME NEW t, Searchable(t), NEW src, NEW cfg, NEW D \in Nat \ {0}, cfg.maxDepth = D,
           NEW N \in Nat, NEW f, Levels(t, src, cfg, f, N),
           NEW n \in Nat \ {0}, n <= N, n <= D, n = 1 \/ cfg.allowSwitchSwitching,
           NEW w, NEW k, Follows(t, src, w, k, n)
    PROVE  \E i \in 1 .. Len(f[n]) : Agrees(f[n][i], k, n)
  <1> DEFINE Has(m) == \E i \in 1 .. Len(f[m]) : Agrees(f[m][i], k, m)
             S == {m \in Nat : m >= 1 /\ m <= n => Has(m)}
  <1>1. 0 \in S  OBVIOUS
  <1>2. ASSUME NEW m \in Nat, m \in S  PROVE m + 1 \in S
    <2>1. ASSUME m + 1 <= n  PROVE Has(m + 1)
      <3>1. m + 1 \in 1 .. N /\ (m + 1) - 1 = m  BY <2>1
      <3>2. f[m + 1] = IF m + 1 = 1 THEN SeedPaths(t, src) ELSE NextLevel(t, cfg, f[(m + 1) - 1])
        BY <3>1, Zenon DEF Levels
      <3>3. CASE m = 0
        <4>1. f[1] = SeedPaths(t, src) /\ m + 1 = 1  BY <3>2, <3>3
        <4>2. Joins(t, k[1], t.links[k[1]].rootSwitch, DeviceEnd(src))
          BY Zenon DEF Follows, Joins
        <4>3. PICK i \in 1 .. Len(SeedPaths(t, src)) : SeedPaths(t, src)[i].links = <<k[1]>>
          <5>1. \A l : Joins(t, l, t.links[l].rootSwitch, DeviceEnd(src)) =>
                   \E j \in 1 .. Len(SeedPaths(t, src)) : SeedPaths(t, src)[j].links = <<l>>
            BY SeedsOK
          <5>2. QED  BY <4>2, <5>1, Zenon
        <4>4. Agrees(f[1][i], k, 1)
          <5>1. \A j \in 1 .. 1 : j = 1  OBVIOUS
          <5> DEFINE x == k[1]
          <5>2. <<x>>[1] = x  OBVIOUS
          <5>3. QED  BY <4>1, <4>3, <5>1, <5>2, Zenon DEF Agrees
        <4>5. QED  BY <4>1, <4>3, <4>4, Zenon
      <3>4. CASE m # 0
        <4>1. m \in Nat \ {0} /\ m + 1 # 1 /\ m >= 1 /\ m <= n /\ m \in 1 .. N /\ n # 1 /\ m + 1 <= D
              /\ m + 1 \in Nat
          BY <2>1, <3>4
        <4>2. f[m + 1] = NextLevel(t, cfg, f[m])  BY <3>1, <3>2, <4>1
        <4>3. Has(m)  BY <1>2, <4>1
        <4>4. LevelOK(t, src, D, m, f[m])  BY <4>1, LevelsOK
        <4>5. Follows(t, src, w, k, m + 1)  BY <2>1, <4>1, FollowsLess
        <4> DEFINE lv == f[m]
        <4>6. (\E i \in 1 .. Len(lv) : Agrees(lv[i], k, m)) /\ LevelOK(t, src, D, m, lv)
          BY <4>3, <4>4
        <4>7. D \in Nat /\ cfg.allowSwitchSwitching  BY <4>1
        <4> HIDE DEF lv
        <4>8. \E i \in 1 .. Len(NextLevel(t, cfg, lv)) : Agrees(NextLevel(t, cfg, lv)[i], k, m + 1)
          BY <4>1, <4>5, <4>6, <4>7, NextFound
        <4>9. QED  BY <4>2, <4>8, Zenon DEF lv
      <3>5. QED  BY <3>3, <3>4
    <2> HIDE DEF Has
    <2>2. QED  BY <2>1
  <1>3. QED
    <2> HIDE DEF S
    <2>1. Nat \subseteq S  BY <1>1, <1>2, SetInduction
    <2> HIDE DEF Has
    <2>2. Has(n)  BY <2>1 DEF S
    <2>3. QED  BY <2>2 DEF Has

\* A level that has the first n links leads to the paths that end with one more.
LEMMA EndFound ==
    ASSUME NEW t, Searchable(t), NEW src, NEW dst, NEW D \in Nat, NEW n \in Nat \ {0},
           NEW lv, LevelOK(t, src, D, n, lv), NEW w, NEW k, Follows(t, src, w, k, n),
           \E i \in 1 .. Len(lv) : Agrees(lv[i], k, n), NEW m, m = n + 1,
           Joins(t, k[m], w[n], DeviceEnd(dst))
    PROVE  \E i \in 1 .. Len(Found(t, dst, lv)) : Agrees(Found(t, dst, lv)[i], k, m)
  <1> DEFINE P == Frontier(t, src, D, n)
             Q == Paths(t, src, dst, D, n)
             N == Len(lv)
             s == [i \in DOMAIN lv |-> Completions(t, lv[i], dst)]
             l == k[m]
  <1>1. lv \in Seq(P) /\ N \in Nat /\ DOMAIN lv = 1 .. N  BY DEF LevelOK
  <1>2. PICK a \in 1 .. N : Agrees(lv[a], k, n)  OBVIOUS
  <1> DEFINE p == lv[a]
  <1>3. p \in P  BY <1>1
  <1>4. \A i \in 1 .. N : s[i] = Completions(t, lv[i], dst)  BY <1>1
  <1>5. s = [i \in 1 .. N |-> s[i]]  BY <1>1
  <1>6. Found(t, dst, lv) = FlattenSeq(s)  BY Zenon DEF Found
  <1> HIDE DEF N, s
  <1>7. ASSUME NEW i \in 1 .. N  PROVE s[i] \in Seq(Q) /\ Reaches(s[i], lv[i], EndingEdges(t, lv[i], dst))
    <2>1. lv[i] \in P  BY <1>1
    <2>2. /\ Grown(t, Completions(t, lv[i], dst), lv[i], Q)
          /\ Reaches(Completions(t, lv[i], dst), lv[i], EndingEdges(t, lv[i], dst))
      BY <2>1, CompletionsGrown
    <2>3. QED  BY <1>4, <2>2, Zenon DEF Grown
  <1>8. s \in [1 .. N -> Seq(Q)]
    <2> HIDE DEF Q
    <2>1. QED  BY <1>5, <1>7
  <1>9. /\ Len(p.hops) = n /\ p.links \in Seq(DOMAIN t.links) /\ Len(p.links) = n
    <2> HIDE DEF p
    <2>1. QED  BY <1>3 DEF Frontier
  <1>10. p.hops[n].sw = w[n]
    <2> HIDE DEF p
    <2>1. Agrees(p, k, n) /\ n \in 1 .. n  BY <1>2 DEF p
    <2>2. QED  BY <1>3, <2>1, SameSwitches
  <1> HIDE DEF p, l
  <1>11. l \in EndingEdges(t, p, dst) /\ l \in DOMAIN t.links
    <2>1. CurrentSwitch(p) = w[n]  BY <1>9, <1>10, Zenon DEF CurrentSwitch
    <2>2. QED  BY <2>1, Zenon DEF EndingEdges, SwitchEdges, Joins, l
  <1>12. PICK b \in 1 .. Len(s[a]) : s[a][b].links = Append(p.links, l)
    BY <1>7, <1>11, Zenon DEF Reaches, p
  <1>13. AllDrawn(FlattenSeq(s), s, N)
    <2> HIDE DEF Q
    <2>1. QED  BY <1>1, <1>8, FlattenFacts
  <1> DEFINE F == FlattenSeq(s)
  <1>14. PICK c \in 1 .. Len(F) : F[c] = s[a][b]  BY <1>13, Zenon DEF AllDrawn
  <1> HIDE DEF F
  <1>15. Agrees(F[c], k, m)
    <2> DEFINE L == DOMAIN t.links
               u == p.links
               v == Append(u, l)
    <2>1. u \in Seq(L) /\ Len(u) = n /\ l \in L  BY <1>9, <1>11
    <2> HIDE DEF L, u
    <2>2. v[n + 1] = l /\ \A j \in 1 .. n : v[j] = u[j]  BY <2>1, AppendFacts
    <2> HIDE DEF v
    <2>3. \A j \in 1 .. n : u[j] = k[j]  BY <1>2, Zenon DEF Agrees, u, p
    <2>4. \A j \in 1 .. m : j \in 1 .. n \/ (j = n + 1 /\ j = m)  OBVIOUS
    <2>5. F[c].links = v  BY <1>12, <1>14 DEF v, u
    <2>6. \A j \in 1 .. m : v[j] = k[j]  BY <2>2, <2>3, <2>4, Zenon DEF l
    <2>7. QED  BY <2>5, <2>6, Zenon DEF Agrees
  <1>16. QED  BY <1>6, <1>14, <1>15, Zenon DEF F

\* Different switches are no more than there are.
LEMMA FewSwitches ==
    ASSUME NEW t, Searchable(t), NEW src, NEW dst, NEW n \in Nat \ {0}, NEW w, NEW k,
           Follows(t, src, w, k, n), NEW m, m = n + 1, Joins(t, k[m], w[n], DeviceEnd(dst))
    PROVE  n <= Cardinality(DOMAIN t.switches)
  <1> DEFINE S == DOMAIN t.switches
             f == [i \in 1 .. n |-> w[i]]
  <1>1. \A i \in 1 .. n : w[i] \in S
    <2> SUFFICES ASSUME NEW i \in 1 .. n  PROVE w[i] \in S  OBVIOUS
    <2>1. \A l, far : Joins(t, l, w[i], far) => w[i] \in S  BY SearchableFacts DEF Joins
    <2>2. CASE i = n  BY <2>1, <2>2
    <2>3. CASE i # n
      <3>1. i \in 1 .. (n - 1)  BY <2>3
      <3>2. QED  BY <2>1, <3>1, Zenon DEF Follows
    <2>4. QED  BY <2>2, <2>3
  <1>2. f \in Injection(1 .. n, S)
    BY <1>1 DEF Injection, IsInjective, Follows
  <1>3. IsFiniteSet(S)  BY SearchableFacts
  <1>4. IsFiniteSet(1 .. n) /\ Cardinality(1 .. n) = n  BY FS_Interval
  <1> HIDE DEF f, S
  <1>5. Cardinality(1 .. n) <= Cardinality(S)
    <2>1. ExistsInjection(1 .. n, S)  BY <1>2 DEF ExistsInjection
    <2>2. QED  BY <1>2, <1>3, FS_Injection
  <1>6. QED  BY <1>4, <1>5 DEF S

\* enumeratePaths misses no path within the depth bound.
LEMMA AllFound ==
    ASSUME NEW t, Searchable(t), NEW src, NEW dst, NEW cfg, NEW D \in Nat \ {0}, cfg.maxDepth = D,
           NEW n \in Nat \ {0}, n <= D, n = 1 \/ cfg.allowSwitchSwitching,
           NEW w, NEW k, Follows(t, src, w, k, n), NEW m, m = n + 1, Joins(t, k[m], w[n], DeviceEnd(dst))
    PROVE  \E i \in 1 .. Len(AllPaths(t, src, dst, cfg)) :
              /\ AllPaths(t, src, dst, cfg)[i] \in Paths(t, src, dst, D, n)
              /\ Agrees(AllPaths(t, src, dst, cfg)[i], k, m)
  <1> DEFINE N == Cardinality(DOMAIN t.switches) + 1
             Fixed(f) == f = [i \in 1 .. N |-> IF i = 1 THEN SeedPaths(t, src)
                                                        ELSE NextLevel(t, cfg, f[i - 1])]
             level == CHOOSE f : Fixed(f)
             s == [i \in 1 .. N |-> Found(t, dst, level[i])]
             Q == AnyPath(t, src, dst, D)
  <1>1. N \in Nat  BY SearchableFacts, FS_CardinalityType
  <1>2. AllPaths(t, src, dst, cfg) = FlattenSeq(s)
    BY Zenon DEF AllPaths, NextLevel, Found
  <1>3. n \in 1 .. N
    <2>1. n <= Cardinality(DOMAIN t.switches)  BY FewSwitches
    <2>2. Cardinality(DOMAIN t.switches) \in Nat  BY SearchableFacts, FS_CardinalityType
    <2>3. QED  BY <2>1, <2>2
  <1> HIDE DEF N
  <1>4. Fixed(level)
    <2>1. PICK f : LevelFunction(t, src, cfg, N, f)  BY <1>1, LevelsExist
    <2>2. Fixed(f)  BY <2>1, Zenon DEF LevelFunction
    <2> HIDE DEF Fixed
    <2>3. QED  BY <2>2
  <1> HIDE DEF level
  <1>5. Levels(t, src, cfg, level, N)  BY <1>4, Zenon DEF Levels
  <1>6. \A i \in 1 .. N : LevelOK(t, src, D, i, level[i])  BY <1>1, <1>5, LevelsOK
  <1>7. s = [i \in 1 .. N |-> s[i]] /\ \A i \in 1 .. N : s[i] = Found(t, dst, level[i])  OBVIOUS
  <1> HIDE DEF s
  <1>8. \A i \in 1 .. N : s[i] \in Seq(Paths(t, src, dst, D, i)) /\ s[i] \in Seq(Q)
    <2> SUFFICES ASSUME NEW i \in 1 .. N
                 PROVE  s[i] \in Seq(Paths(t, src, dst, D, i)) /\ s[i] \in Seq(Q)
      OBVIOUS
    <2>1. i \in Nat \ {0} /\ LevelOK(t, src, D, i, level[i])  BY <1>1, <1>6
    <2>2. s[i] \in Seq(Paths(t, src, dst, D, i))  BY <1>7, <2>1, FoundOK
    <2> DEFINE A == Paths(t, src, dst, D, i)
    <2>3. A \subseteq Q  BY <2>1, Zenon DEF AnyPath
    <2> HIDE DEF A, Q
    <2>4. s[i] \in Seq(A)  BY <2>2 DEF A
    <2>5. s[i] \in Seq(Q)  BY <2>3, <2>4
    <2>6. QED  BY <2>2, <2>5
  <1> HIDE DEF Q
  <1>9. s \in [1 .. N -> Seq(Q)]  BY <1>7, <1>8
  <1>10. AllDrawn(FlattenSeq(s), s, N)  BY <1>1, <1>9, FlattenFacts
  <1>11. \E i \in 1 .. Len(level[n]) : Agrees(level[n][i], k, n)
    <2>1. n <= N  BY <1>1, <1>3
    <2>2. QED  BY <1>1, <1>5, <2>1, PrefixFound
  <1>12. \E i \in 1 .. Len(s[n]) : Agrees(s[n][i], k, m)
    <2> DEFINE lv == level[n]
    <2>1. LevelOK(t, src, D, n, lv) /\ D \in Nat /\ \E i \in 1 .. Len(lv) : Agrees(lv[i], k, n)
      BY <1>3, <1>6, <1>11
    <2> HIDE DEF lv
    <2>2. \E i \in 1 .. Len(Found(t, dst, lv)) : Agrees(Found(t, dst, lv)[i], k, m)
      BY <2>1, EndFound
    <2>3. QED  BY <1>3, <1>7, <2>2, Zenon DEF lv
  <1>13. PICK b \in 1 .. Len(s[n]) : Agrees(s[n][b], k, m)  BY <1>12
  <1>14. s[n][b] \in Paths(t, src, dst, D, n)  BY <1>3, <1>8
  <1>15. PICK i \in 1 .. Len(FlattenSeq(s)) : FlattenSeq(s)[i] = s[n][b]
    BY <1>3, <1>10, Zenon DEF AllDrawn
  <1>16. QED  BY <1>2, <1>13, <1>14, <1>15, Zenon

-----------------------------------------------------------------------------
\* The bound on the number of paths cuts the list off.
LEMMA FirstPathsOK ==
    ASSUME NEW X, NEW all \in Seq(X), InOrder(all), NEW n \in Nat
    PROVE  FirstPaths(all, n) \in Seq(X) /\ InOrder(FirstPaths(all, n))
  <1> DEFINE m == IF Len(all) < n THEN Len(all) ELSE n
             q == SubSeq(all, 1, m)
  <1>1. m \in Nat /\ m <= Len(all) /\ Len(all) \in Nat  OBVIOUS
  <1>2. FirstPaths(all, n) = q  BY DEF FirstPaths
  <1> HIDE DEF m
  <1>3. q \in Seq(X) /\ Len(q) = m /\ \A i \in 1 .. m : q[i] = all[i] /\ i \in 1 .. Len(all)
    BY <1>1
  <1> HIDE DEF q
  <1>4. InOrder(q)
    <2> SUFFICES ASSUME NEW j \in 1 .. m, NEW k \in 1 .. m, j < k
                 PROVE  q[j].links # q[k].links /\ Len(q[j].hops) <= Len(q[k].hops)
      BY <1>3, Zenon DEF InOrder
    <2>1. q[j] = all[j] /\ q[k] = all[k] /\ j \in 1 .. Len(all) /\ k \in 1 .. Len(all)  BY <1>3
    <2>2. all[j].links # all[k].links /\ Len(all[j].hops) <= Len(all[k].hops)
      BY <2>1, Zenon DEF InOrder
    <2>3. QED  BY <2>1, <2>2
  <1>5. QED  BY <1>2, <1>3, <1>4

\* enumeratePaths: every path it returns leads from source to destination over
\* usable links and different switches, within the depth bound; none is
\* returned twice and shorter ones come first.
LEMMA EnumeratedOK ==
    ASSUME NEW t, Searchable(t), NEW src, NEW dst, NEW cfg, NEW D \in Nat, cfg.maxDepth = D,
           cfg.maxPaths \in Nat
    PROVE  /\ EnumeratePaths(t, src, dst, cfg) \in Seq(AnyPath(t, src, dst, D))
           /\ InOrder(EnumeratePaths(t, src, dst, cfg))
  <1> DEFINE X == AnyPath(t, src, dst, D)
             all == AllPaths(t, src, dst, cfg)
             r == EnumeratePaths(t, src, dst, cfg)
             n == cfg.maxPaths
  <1>1. r = <<>> \/ (r = FirstPaths(all, n) /\ cfg.maxDepth # 0)
    BY DEF EnumeratePaths
  <1>2. CASE r = <<>>
    <2>1. r \in Seq(X) /\ 1 .. Len(r) = {}  BY <1>2
    <2>2. QED  BY <2>1, Zenon DEF InOrder
  <1>3. CASE r = FirstPaths(all, n) /\ cfg.maxDepth # 0
    <2>1. D \in Nat \ {0}  BY <1>3
    <2>2. all \in Seq(X) /\ InOrder(all)  BY <2>1, AllPathsOK
    <2> HIDE DEF X, all, r, n
    <2>3. n \in Nat  BY DEF n
    <2>4. r \in Seq(X) /\ InOrder(r)  BY <1>3, <2>2, <2>3, FirstPathsOK
    <2>5. QED  BY <2>4 DEF r, X
  <1>4. QED  BY <1>1, <1>2, <1>3

-----------------------------------------------------------------------------
(* What a path is. *)

\* p leads from src to dst over n different switches and n + 1 usable links.
LeadsFromTo(t, src, dst, p, n) ==
    /\ p.hops \in Seq(Hop) /\ Len(p.hops) = n /\ DOMAIN p.hops = 1 .. n
    /\ p.links \in Seq(DOMAIN t.links) /\ Len(p.links) = n + 1 /\ DOMAIN p.links = 1 .. (n + 1)
    /\ p.state \in {"UP", "DEGRADED"}
    /\ Joins(t, p.links[1], p.hops[1].sw, DeviceEnd(src))
    /\ \A i \in 1 .. n :
          /\ Joins(t, p.links[i + 1], p.hops[i].sw,
                   IF i = n THEN DeviceEnd(dst) ELSE SwitchEnd(p.hops[i + 1].sw))
          /\ p.hops[i].outPort = t.links[p.links[i + 1]].port
          /\ Enters(t, p, i)
    /\ \A i \in 1 .. (n + 1) : EdgeUsable(t, p.links[i])
    /\ Cardinality(HopSwitches(p)) = n

LEMMA PathFacts ==
    ASSUME NEW t, Searchable(t), NEW src, NEW dst, NEW D \in Nat,
           NEW p \in AnyPath(t, src, dst, D)
    PROVE  \E n \in Nat \ {0} : n <= D /\ LeadsFromTo(t, src, dst, p, n)
  <1>1. PICK n \in Nat \ {0} : p \in Paths(t, src, dst, D, n)  BY Zenon DEF AnyPath
  <1> DEFINE h == p.hops
             k == p.links
             L == DOMAIN t.links
  <1>2. /\ h \in Seq(Hop) /\ Len(h) = n /\ k \in Seq(L) /\ Len(k) = n + 1
        /\ p.state \in {"UP", "DEGRADED"} /\ n <= D
        /\ Joins(t, p.links[1], p.hops[1].sw, DeviceEnd(src))
        /\ \A i \in 1 .. (n - 1) : Inner(t, p, i)
        /\ Joins(t, p.links[n + 1], p.hops[n].sw, DeviceEnd(dst))
        /\ p.hops[n].outPort = t.links[p.links[n + 1]].port
        /\ \A i \in 1 .. n : Enters(t, p, i)
        /\ DistinctHops(h)
    BY <1>1 DEF Paths
  <1>3. DOMAIN h = 1 .. n /\ DOMAIN k = 1 .. (n + 1)
    <2> HIDE DEF h, k, L
    <2>1. QED  BY <1>2
  <1>4. ASSUME NEW i \in 1 .. n
        PROVE  /\ Joins(t, p.links[i + 1], p.hops[i].sw,
                        IF i = n THEN DeviceEnd(dst) ELSE SwitchEnd(p.hops[i + 1].sw))
               /\ p.hops[i].outPort = t.links[p.links[i + 1]].port
    <2>1. CASE i = n  BY <1>2, <2>1, Zenon
    <2>2. CASE i # n
      <3>1. i \in 1 .. (n - 1)  BY <2>2
      <3>2. Inner(t, p, i)  BY <1>2, <3>1
      <3>3. QED  BY <2>2, <3>2, Zenon DEF Inner
    <2>3. QED  BY <2>1, <2>2
  <1>5. ASSUME NEW i \in 1 .. (n + 1)  PROVE EdgeUsable(t, p.links[i])
    <2>1. CASE i = 1  BY <1>2, <2>1, Zenon DEF Joins
    <2>2. CASE i # 1
      <3>1. i - 1 \in 1 .. n /\ (i - 1) + 1 = i  BY <2>2
      <3>2. EdgeUsable(t, p.links[(i - 1) + 1])  BY <1>4, <3>1, Zenon DEF Joins
      <3>3. QED  BY <3>1, <3>2
    <2>3. QED  BY <2>1, <2>2
  <1>6. Cardinality(HopSwitches(p)) = n
    <2> DEFINE f == [i \in 1 .. n |-> h[i].sw]
    <2>1. HopSwitches(p) = {h[i].sw : i \in 1 .. n}  BY <1>3 DEF HopSwitches
    <2>2. \A i, j \in 1 .. n : h[i].sw = h[j].sw => i = j  BY <1>2 DEF DistinctHops
    <2> HIDE DEF h
    <2>3. f \in Bijection(1 .. n, HopSwitches(p))
      BY <2>1, <2>2 DEF Bijection, Injection, Surjection, IsInjective
    <2> HIDE DEF f
    <2>4. IsFiniteSet(1 .. n) /\ Cardinality(1 .. n) = n  BY FS_Interval
    <2>5. ExistsBijection(1 .. n, HopSwitches(p))  BY <2>3 DEF ExistsBijection
    <2>6. QED  BY <2>4, <2>5, FS_Bijection
  <1>7. QED  BY <1>2, <1>3, <1>4, <1>5, <1>6, Zenon DEF LeadsFromTo

\* The ports a path names are there.  A direct path names those of its links.
LEMMA PortsThere ==
    ASSUME NEW t, Searchable(t), NEW src, NEW dst, NEW n \in Nat \ {0},
           NEW p, LeadsFromTo(t, src, dst, p, n)
    PROVE  /\ PathPorts(p) \subseteq DOMAIN t.ports
           /\ n = 1 => PathPorts(p) \subseteq {t.links[p.links[1]].port, t.links[p.links[2]].port}
  <1>1. /\ DOMAIN p.hops = 1 .. n
        /\ \A i \in 1 .. n : p.hops[i].outPort = t.links[p.links[i + 1]].port /\ Enters(t, p, i)
        /\ \A i \in 1 .. (n + 1) : EdgeUsable(t, p.links[i])
    BY Zenon DEF LeadsFromTo
  <1>2. \A i \in 1 .. (n + 1) : t.links[p.links[i]].port \in DOMAIN t.ports
    BY <1>1, Zenon DEF EdgeUsable
  <1>3. 1 \in 1 .. (n + 1) /\ \A i \in 1 .. n : i + 1 \in 1 .. (n + 1)  OBVIOUS
  <1>4. ASSUME NEW i \in 1 .. n
        PROVE  p.hops[i].outPort \in DOMAIN t.ports
               /\ p.hops[i].inPort \in DOMAIN t.ports \cup {UnknownPort}
    <2>1. p.hops[i].outPort \in DOMAIN t.ports  BY <1>1, <1>2, <1>3
    <2>2. CASE i = 1  BY <1>1, <1>2, <1>3, <2>1, <2>2 DEF Enters
    <2>3. CASE i # 1
      <3>1. p.hops[i].inPort = InboundPort(t, p.hops[i].sw, p.hops[i - 1].sw)
        BY <1>1, <2>3, Zenon DEF Enters
      <3>2. QED  BY <2>1, <3>1, InboundTyped
    <2>4. QED  BY <2>2, <2>3
  <1>5. PathPorts(p) \subseteq DOMAIN t.ports  BY <1>1, <1>4 DEF PathPorts
  <1>6. ASSUME n = 1
        PROVE  PathPorts(p) \subseteq {t.links[p.links[1]].port, t.links[p.links[2]].port}
    <2>1. DOMAIN p.hops = {1}  BY <1>1, <1>6
    <2>2. p.hops[1].outPort = t.links[p.links[2]].port /\ p.hops[1].inPort = t.links[p.links[1]].port
      <3>1. 1 \in 1 .. n /\ 1 + 1 = 2  BY <1>6
      <3>2. QED  BY <1>1, <3>1 DEF Enters
    <2>3. QED  BY <2>1, <2>2 DEF PathPorts
  <1>7. QED  BY <1>5, <1>6

-----------------------------------------------------------------------------
(* The ranking. *)

\* Sequences of integers compare like the digits of numbers.
LEMMA LexIrreflexive ==
    ASSUME NEW a \in Seq(Int)
    PROVE  ~ LexLess(a, a)
  BY DEF LexLess

LEMMA LexTransitive ==
    ASSUME NEW a \in Seq(Int), NEW b \in Seq(Int), NEW c \in Seq(Int), LexLess(a, b), LexLess(b, c)
    PROVE  LexLess(a, c)
  <1> DEFINE A == DOMAIN a
             B == DOMAIN b
             C == DOMAIN c
  <1>1. PICK i \in A \cap B : a[i] < b[i] /\ \A j \in 1 .. (i - 1) : a[j] = b[j]
    BY Zenon DEF LexLess
  <1>2. PICK k \in B \cap C : b[k] < c[k] /\ \A j \in 1 .. (k - 1) : b[j] = c[j]
    BY Zenon DEF LexLess
  <1>3. /\ i \in Nat /\ k \in Nat /\ i >= 1 /\ k >= 1
        /\ (i <= k => i \in C) /\ (k <= i => k \in A)
    <2> DEFINE x == Len(a)
               y == Len(b)
               z == Len(c)
    <2>1. A = 1 .. x /\ B = 1 .. y /\ C = 1 .. z /\ x \in Nat /\ y \in Nat /\ z \in Nat
      OBVIOUS
    <2>2. i \in A /\ i \in B /\ k \in B /\ k \in C  BY <1>1, <1>2
    <2> HIDE DEF x, y, z, A, B, C
    <2>3. QED  BY <2>1, <2>2
  <1>4. /\ a[i] \in Int /\ b[i] \in Int /\ b[k] \in Int /\ c[k] \in Int
        /\ (i <= k => c[i] \in Int) /\ (k <= i => a[k] \in Int)
    <2>1. /\ \A x \in A : a[x] \in Int
          /\ \A x \in B : b[x] \in Int
          /\ \A x \in C : c[x] \in Int
      OBVIOUS
    <2>2. QED  BY <1>1, <1>2, <1>3, <2>1, Zenon
  <1>5. CASE i < k
    <2>1. i \in 1 .. (k - 1) /\ i <= k  BY <1>3, <1>5
    <2>2. b[i] = c[i]  BY <1>2, <2>1
    <2>3. \A j \in 1 .. (i - 1) : j \in 1 .. (k - 1)  BY <1>3, <1>5
    <2>4. i \in A \cap C /\ a[i] < c[i]  BY <1>1, <1>3, <2>1, <2>2
    <2>5. \A j \in 1 .. (i - 1) : a[j] = c[j]  BY <1>1, <1>2, <2>3, Zenon
    <2>6. QED  BY <2>4, <2>5, Zenon DEF LexLess
  <1>6. CASE k < i
    <2>1. k \in 1 .. (i - 1) /\ k <= i  BY <1>3, <1>6
    <2>2. a[k] = b[k]  BY <1>1, <2>1
    <2>3. \A j \in 1 .. (k - 1) : j \in 1 .. (i - 1)  BY <1>3, <1>6
    <2>4. k \in A \cap C /\ a[k] < c[k]  BY <1>2, <1>3, <2>1, <2>2
    <2>5. \A j \in 1 .. (k - 1) : a[j] = c[j]  BY <1>1, <1>2, <2>3, Zenon
    <2>6. QED  BY <2>4, <2>5, Zenon DEF LexLess
  <1>7. CASE i = k
    <2>1. i \in A \cap C  BY <1>1, <1>2, <1>7
    <2>2. a[i] < c[i]  BY <1>1, <1>2, <1>4, <1>7
    <2>3. \A j \in 1 .. (i - 1) : a[j] = c[j]  BY <1>1, <1>2, <1>7, Zenon
    <2>4. QED  BY <2>1, <2>2, <2>3, Zenon DEF LexLess
  <1>8. i < k \/ k < i \/ i = k  BY <1>3
  <1>9. QED  BY <1>5, <1>6, <1>7, <1>8

\* A key is a sequence of factor values and one of numbers that names the path.
Key == [factors : Seq(Int), path : Seq(Int)]

LEMMA RanksOrdered ==
    ASSUME NEW cands, NEW key \in [cands -> Key], NEW R,
           \A i, j \in cands : <<i, j>> \in R <=> RanksBefore(key[i], key[j])
    PROVE  StrictOrder(R, cands)
  <1>1. \A i \in cands : key[i].factors \in Seq(Int) /\ key[i].path \in Seq(Int)  BY DEF Key
  <1>2. \A a \in Seq(Int) : ~ LexLess(a, a)  BY LexIrreflexive
  <1>3. \A a, b, c \in Seq(Int) : LexLess(a, b) /\ LexLess(b, c) => LexLess(a, c)
    BY LexTransitive
  <1>4. \A i \in cands : ~ RanksBefore(key[i], key[i])  BY <1>1, <1>2, Zenon DEF RanksBefore
  <1>5. ASSUME NEW i \in cands, NEW j \in cands, NEW k \in cands,
               RanksBefore(key[i], key[j]), RanksBefore(key[j], key[k])
        PROVE  RanksBefore(key[i], key[k])
    BY <1>1, <1>3, <1>5, Zenon DEF RanksBefore
  <1>6. QED  BY <1>4, <1>5, Zenon DEF StrictOrder

\* The measurements of a pair of devices: finitely many, with rates.
Rated(M) == IsFiniteSet(M) /\ \A m \in M : m.throughput \in Nat /\ m.latency \in Nat

LEMMA BestRates ==
    ASSUME NEW M, Rated(M)
    PROVE  BestThroughput(M) \in Int /\ BestLatency(M) \in Int
  <1> DEFINE T == {m.throughput : m \in M} \cup {0}
             L == {m.latency : m \in M} \cup {Worst}
  <1>1. T \in SUBSET Int /\ T # {} /\ L \in SUBSET Int /\ L # {}
    BY DEF Rated, Worst
  <1>2. IsFiniteSet(T) /\ IsFiniteSet(L)
    <2>1. IsFiniteSet({m.throughput : m \in M}) /\ IsFiniteSet({m.latency : m \in M})
      <3> DEFINE f == [m \in M |-> m.throughput]
                 g == [m \in M |-> m.latency]
                 F == {m.throughput : m \in M}
                 G == {m.latency : m \in M}
      <3>1. f \in Surjection(M, F) /\ g \in Surjection(M, G)  BY DEF Surjection
      <3>2. IsFiniteSet(M)  BY DEF Rated
      <3> HIDE DEF f, g, F, G
      <3>3. IsFiniteSet(F) /\ IsFiniteSet(G)  BY <3>1, <3>2, FS_Surjection
      <3>4. QED  BY <3>3 DEF F, G
    <2>2. IsFiniteSet({0}) /\ IsFiniteSet({Worst})  BY FS_Singleton
    <2>3. QED  BY <2>1, <2>2, FS_Union
  <1>3. BestThroughput(M) = Max(T) /\ BestLatency(M) = Min(L)  BY DEF BestThroughput, BestLatency
  <1> HIDE DEF T, L
  <1>4. QED  BY <1>1, <1>2, <1>3, MinMax

\* The factors are integers.
LEMMA FactorTyped ==
    ASSUME NEW t, NEW f, NEW path, path.hops \in Seq(Hop), path.links \in Seq(DOMAIN t.links),
           NEW M, Rated(M)
    PROVE  FactorValue(f, path, t, M) \in Int
  <1> DEFINE up == Cardinality({i \in DOMAIN path.links : t.links[path.links[i]].state = "UP"})
             congested == Cardinality({i \in DOMAIN path.links : t.links[path.links[i]].degraded})
             T == BestThroughput(M)
             L == BestLatency(M)
             n == Len(path.hops)
             k == Len(path.links)
  <1>1. T \in Int /\ L \in Int  BY BestRates
  <1>2. n \in Nat /\ k \in Nat /\ DOMAIN path.links = 1 .. k  OBVIOUS
  <1>3. up \in Nat /\ congested \in Nat
    <2> HIDE DEF k
    <2>0. k \in Int /\ 1 \in Int  BY <1>2
    <2>1. IsFiniteSet(1 .. k)  BY <2>0, FS_Interval
    <2>2. /\ {i \in DOMAIN path.links : t.links[path.links[i]].state = "UP"} \subseteq 1 .. k
          /\ {i \in DOMAIN path.links : t.links[path.links[i]].degraded} \subseteq 1 .. k
      BY <1>2
    <2>3. QED  BY <2>1, <2>2, FS_Subset, FS_CardinalityType
  <1>4. FactorValue(f, path, t, M) =
          CASE f \in {"FEWER_SWITCHES", "FEWER_HOPS", "DIRECTNESS", "FAILURE_DOMAIN_DIVERSITY"} -> n
            [] f = "REDUNDANCY"            -> 0 - n
            [] f = "MEASURED_THROUGHPUT"   -> IF T = 0 THEN Worst ELSE 0 - T
            [] f = "MEASURED_LATENCY"      -> L
            [] f = "ACTIVE_LINK_COUNT"     -> 0 - (k + up)
            [] f = "DEGRADATION"           -> IF path.state = "DEGRADED" THEN 1 ELSE 0
            [] f = "CONGESTION_EVIDENCE"   -> congested
            [] OTHER                       -> 0
    BY DEF FactorValue, ActiveLinks
  <1> HIDE DEF up, congested, T, L, n, k
  <1>5. QED  BY <1>1, <1>2, <1>3, <1>4 DEF Worst

\* A measured factor is the same for every path, so it decides nothing: two
\* paths compare alike whatever was measured.
LEMMA FactorAlike ==
    ASSUME NEW t, NEW f, NEW p, NEW q, NEW M, NEW N, Rated(M), Rated(N)
    PROVE  /\ FactorValue(f, p, t, M) < FactorValue(f, q, t, M)
                 <=> FactorValue(f, p, t, N) < FactorValue(f, q, t, N)
           /\ FactorValue(f, p, t, M) = FactorValue(f, q, t, M)
                 <=> FactorValue(f, p, t, N) = FactorValue(f, q, t, N)
  <1>1. /\ BestThroughput(M) \in Int /\ BestLatency(M) \in Int
        /\ BestThroughput(N) \in Int /\ BestLatency(N) \in Int
    BY BestRates
  <1>2. CASE f = "MEASURED_THROUGHPUT"
    <2>1. /\ FactorValue(f, p, t, M) = FactorValue(f, q, t, M) /\ FactorValue(f, p, t, M) \in Int
          /\ FactorValue(f, p, t, N) = FactorValue(f, q, t, N) /\ FactorValue(f, p, t, N) \in Int
      BY <1>1, <1>2 DEF FactorValue, Worst
    <2>2. QED  BY <2>1
  <1>3. CASE f = "MEASURED_LATENCY"
    <2>1. /\ FactorValue(f, p, t, M) = FactorValue(f, q, t, M) /\ FactorValue(f, p, t, M) \in Int
          /\ FactorValue(f, p, t, N) = FactorValue(f, q, t, N) /\ FactorValue(f, p, t, N) \in Int
      BY <1>1, <1>3 DEF FactorValue
    <2>2. QED  BY <2>1
  <1>4. CASE f \notin {"MEASURED_THROUGHPUT", "MEASURED_LATENCY"}
    <2>1. /\ FactorValue(f, p, t, M) = FactorValue(f, p, t, N)
          /\ FactorValue(f, q, t, M) = FactorValue(f, q, t, N)
      BY <1>4 DEF FactorValue
    <2>2. QED  BY <2>1, Zenon
  <1>5. QED  BY <1>2, <1>3, <1>4

KeyPart(h) ==
    << h.sw,
       IF h.inPort = UnknownPort THEN -1 ELSE h.inPort[2],
       h.outPort[2],
       IF h.exit = "device" THEN 0 ELSE 1 >>

\* The canonical key of a path is a nonempty sequence of numbers.
LEMMA KeyTyped ==
    ASSUME NEW t, Searchable(t), NEW src, NEW dst, NEW n \in Nat \ {0},
           NEW p, LeadsFromTo(t, src, dst, p, n)
    PROVE  CanonicalKey(p) \in Seq(Int) /\ CanonicalKey(p) # <<>>
  <1> DEFINE h == p.hops
             k == [i \in 1 .. n |-> KeyPart(h[i])]
  <1>1. h \in Seq(Hop) /\ DOMAIN h = 1 .. n  BY DEF LeadsFromTo
  <1>2. CanonicalKey(p) = FlattenSeq(k)
    <2>1. CanonicalKey(p) = FlattenSeq([i \in DOMAIN h |-> KeyPart(h[i])])
      BY Zenon DEF CanonicalKey, KeyPart
    <2>2. QED  BY <1>1, <2>1, Zenon
  <1>3. ASSUME NEW i \in 1 .. n  PROVE KeyPart(h[i]) \in Seq(Int) /\ Len(KeyPart(h[i])) >= 1
    <2> DEFINE x == h[i]
    <2>1. x \in Hop  BY <1>1
    <2>2. x.outPort \in PortIds
      <3>1. p.links[i + 1] \in DOMAIN t.links /\ h[i].outPort = t.links[p.links[i + 1]].port
        BY Zenon DEF LeadsFromTo, Joins
      <3>2. QED  BY <3>1, SearchableFacts
    <2> HIDE DEF x
    <2>3. x.sw \in Nat /\ x.outPort[2] \in Nat
      BY <2>1, <2>2, IdAssumption DEF Hop, PortIds
    <2>4. x.inPort # UnknownPort => x.inPort[2] \in Nat
      BY <2>1, IdAssumption DEF Hop, PortIds
    <2> DEFINE a == x.sw
               b == IF x.inPort = UnknownPort THEN -1 ELSE x.inPort[2]
               c == x.outPort[2]
               d == IF x.exit = "device" THEN 0 ELSE 1
    <2>5. a \in Int /\ b \in Int /\ c \in Int /\ d \in Int  BY <2>3, <2>4
    <2>6. KeyPart(x) = <<a, b, c, d>>  BY Zenon DEF KeyPart
    <2> HIDE DEF a, b, c, d
    <2>7. <<a, b, c, d>> \in Seq(Int) /\ Len(<<a, b, c, d>>) >= 1  BY <2>5
    <2>8. QED  BY <2>6, <2>7 DEF x
  <1> HIDE DEF h
  <1>4. k \in [1 .. n -> Seq(Int)] /\ k[1] = KeyPart(h[1]) /\ 1 \in 1 .. n  BY <1>3
  <1> HIDE DEF k
  <1>5. FlattenSeq(k) \in Seq(Int) /\ (n # 0 /\ Len(k[1]) >= 1 => Len(FlattenSeq(k)) >= 1)
    <2>1. n \in Nat  OBVIOUS
    <2>2. QED  BY <1>4, <2>1, FlattenFacts
  <1>6. Len(k[1]) >= 1 /\ n # 0  BY <1>3, <1>4
  <1> DEFINE F == FlattenSeq(k)
  <1>7. F \in Seq(Int) /\ Len(F) >= 1  BY <1>5, <1>6
  <1> HIDE DEF F
  <1>8. F # <<>>  BY <1>7
  <1>9. QED  BY <1>2, <1>7, <1>8 DEF F

\* No path has the empty key.
LEMMA NoKey == CanonicalKey(NoPath) = <<>>
  <1> DEFINE s == [i \in DOMAIN NoPath.hops |-> KeyPart(NoPath.hops[i])]
  <1>1. CanonicalKey(NoPath) = FlattenSeq(s)  BY Zenon DEF CanonicalKey, KeyPart
  <1>2. s = <<>> /\ Len(s) = 0
    <2>1. DOMAIN NoPath.hops = {}  BY DEF NoPath
    <2>2. DOMAIN s = {}  BY <2>1
    <2>3. s = [i \in {} |-> KeyPart(NoPath.hops[i])]  BY <2>1, Zenon
    <2>4. QED  BY <2>3
  <1> HIDE DEF s
  <1>3. FlattenSeq(s) = s  BY <1>2, Zenon DEF FlattenSeq
  <1>4. QED  BY <1>1, <1>2, <1>3

LEMMA RankKeyTyped ==
    ASSUME NEW t, Searchable(t), NEW src, NEW dst, NEW D \in Nat,
           NEW p \in AnyPath(t, src, dst, D),
           NEW policy, NEW X, policy.factors \in Seq(X), NEW M, Rated(M)
    PROVE  RankKey(p, t, policy, M) \in Key
  <1>1. PICK n \in Nat \ {0} : LeadsFromTo(t, src, dst, p, n)  BY PathFacts, Zenon
  <1>2. p.hops \in Seq(Hop) /\ p.links \in Seq(DOMAIN t.links)  BY <1>1, Zenon DEF LeadsFromTo
  <1> DEFINE f == policy.factors
             v == [i \in DOMAIN f |-> FactorValue(f[i], p, t, M)]
             c == CanonicalKey(p)
  <1>3. c \in Seq(Int)  BY <1>1, KeyTyped
  <1>4. \A i \in DOMAIN f : FactorValue(f[i], p, t, M) \in Int  BY <1>2, FactorTyped
  <1>5. f \in Seq(X)  OBVIOUS
  <1>6. RankKey(p, t, policy, M) = [factors |-> v, path |-> c]  BY Zenon DEF RankKey
  <1>7. v \in Seq(Int)
    <2> DEFINE m == Len(f)
    <2> HIDE DEF f
    <2>1. DOMAIN f = 1 .. m /\ m \in Nat  BY <1>5
    <2>2. v \in [1 .. m -> Int]  BY <1>4, <2>1
    <2> HIDE DEF v, m
    <2>3. QED  BY <2>1, <2>2
  <1> HIDE DEF v, c
  <1>8. QED  BY <1>3, <1>6, <1>7 DEF Key

\* stable_sort and front: the path chosen is a candidate no other one beats.
LEMMA BestChosen ==
    ASSUME NEW t, Searchable(t), NEW src, NEW dst, NEW D \in Nat,
           NEW raw \in Seq(AnyPath(t, src, dst, D)),
           NEW cands \in SUBSET DOMAIN raw, cands # {},
           NEW policy, NEW X, policy.factors \in Seq(X), NEW M, Rated(M)
    PROVE  \E i \in cands :
              /\ BestPath(raw, cands, t, policy, M) = raw[i]
              /\ \A j \in cands : ~ RanksBefore(RankKey(raw[j], t, policy, M), RankKey(raw[i], t, policy, M))
  <1> DEFINE key == [i \in cands |-> RankKey(raw[i], t, policy, M)]
             R == {p \in cands \X cands : RanksBefore(key[p[1]], key[p[2]])}
             B == {i \in cands : \A j \in cands : ~ RanksBefore(key[j], key[i])}
             P == AnyPath(t, src, dst, D)
  <1>1. BestPath(raw, cands, t, policy, M) = raw[Min(B)]  BY Zenon DEF BestPath
  <1>2. IsFiniteSet(cands) /\ cands \subseteq Int
    <2> DEFINE m == Len(raw)
    <2> HIDE DEF P
    <2>1. DOMAIN raw = 1 .. m /\ m \in Nat  BY DEF P
    <2> HIDE DEF m
    <2>2. IsFiniteSet(1 .. m) /\ 1 .. m \subseteq Int  BY <2>1, FS_Interval
    <2>3. QED  BY <2>1, <2>2, FS_Subset
  <1>3. key \in [cands -> Key]
    <2>1. \A i \in cands : raw[i] \in AnyPath(t, src, dst, D)  OBVIOUS
    <2>2. \A i \in cands : RankKey(raw[i], t, policy, M) \in Key  BY <2>1, RankKeyTyped
    <2>3. QED  BY <2>2
  <1>k. \A i \in cands : key[i] = RankKey(raw[i], t, policy, M)  OBVIOUS
  <1> HIDE DEF key
  <1>4. \A i, j \in cands : <<i, j>> \in R <=> RanksBefore(key[i], key[j])  OBVIOUS
  <1> HIDE DEF R
  <1>5. StrictOrder(R, cands)  BY <1>3, <1>4, RanksOrdered
  <1>6. B # {}
    <2>1. PICK i \in cands : \A j \in cands : <<j, i>> \notin R  BY <1>2, <1>5, MinimalElement
    <2>2. QED  BY <1>4, <2>1
  <1>7. B \in SUBSET cands /\ \A i \in B, j \in cands : ~ RanksBefore(key[j], key[i])  OBVIOUS
  <1> HIDE DEF B
  <1>8. B \in SUBSET Int /\ IsFiniteSet(B)  BY <1>2, <1>7, FS_Subset
  <1>9. Min(B) \in B  BY <1>6, <1>8, MinMax
  <1>10. QED  BY <1>k, <1>1, <1>7, <1>9, Zenon

\* Two pairs of sequences that compare alike at every place compare alike.
Alike(I, a, b, c, d) ==
    /\ a = [x \in I |-> a[x]] /\ b = [x \in I |-> b[x]]
    /\ c = [x \in I |-> c[x]] /\ d = [x \in I |-> d[x]]
    /\ \A x \in I : /\ 1 .. (x - 1) \subseteq I
                    /\ a[x] < b[x] <=> c[x] < d[x]
                    /\ a[x] = b[x] <=> c[x] = d[x]

LEMMA LexAlike ==
    ASSUME NEW I, NEW a, NEW b, NEW c, NEW d, Alike(I, a, b, c, d)
    PROVE  (LexLess(a, b) <=> LexLess(c, d)) /\ (a = b <=> c = d)
  <1>h. /\ a = [x \in I |-> a[x]] /\ b = [x \in I |-> b[x]]
        /\ c = [x \in I |-> c[x]] /\ d = [x \in I |-> d[x]]
        /\ \A x \in I : /\ 1 .. (x - 1) \subseteq I
                        /\ a[x] < b[x] <=> c[x] < d[x]
                        /\ a[x] = b[x] <=> c[x] = d[x]
    BY Zenon DEF Alike
  <1>1. DOMAIN a = I /\ DOMAIN b = I /\ DOMAIN c = I /\ DOMAIN d = I  BY <1>h, Zenon
  <1>2. ASSUME NEW x \in I, NEW y \in 1 .. (x - 1)  PROVE a[y] = b[y] <=> c[y] = d[y]  BY <1>h, Zenon
  <1>3. ASSUME LexLess(a, b)  PROVE LexLess(c, d)
    <2>1. PICK x \in I : a[x] < b[x] /\ \A y \in 1 .. (x - 1) : a[y] = b[y]
      BY <1>1, <1>3, Zenon DEF LexLess
    <2>2. c[x] < d[x] /\ \A y \in 1 .. (x - 1) : c[y] = d[y]  BY <1>h, <1>2, <2>1, Zenon
    <2>3. QED  BY <1>1, <2>2, Zenon DEF LexLess
  <1>4. ASSUME LexLess(c, d)  PROVE LexLess(a, b)
    <2>1. PICK x \in I : c[x] < d[x] /\ \A y \in 1 .. (x - 1) : c[y] = d[y]
      BY <1>1, <1>4, Zenon DEF LexLess
    <2>2. a[x] < b[x] /\ \A y \in 1 .. (x - 1) : a[y] = b[y]  BY <1>h, <1>2, <2>1, Zenon
    <2>3. QED  BY <1>1, <2>2, Zenon DEF LexLess
  <1>5. a = b => c = d
    <2>1. ASSUME a = b  PROVE [x \in I |-> c[x]] = [x \in I |-> d[x]]  BY <1>h, <2>1, Zenon
    <2>2. QED  BY <1>h, <2>1, Zenon
  <1>6. c = d => a = b
    <2>1. ASSUME c = d  PROVE [x \in I |-> a[x]] = [x \in I |-> b[x]]  BY <1>h, <2>1, Zenon
    <2>2. QED  BY <1>h, <2>1, Zenon
  <1>7. QED  BY <1>3, <1>4, <1>5, <1>6, Zenon

\* What was measured does not change the choice.
LEMMA BestAlike ==
    ASSUME NEW t, NEW raw, NEW cands, NEW policy, NEW X, policy.factors \in Seq(X),
           NEW M, NEW N, Rated(M), Rated(N)
    PROVE  BestPath(raw, cands, t, policy, M) = BestPath(raw, cands, t, policy, N)
  <1> DEFINE k == [i \in cands |-> RankKey(raw[i], t, policy, M)]
             l == [i \in cands |-> RankKey(raw[i], t, policy, N)]
             f == policy.factors
             V(i, x) == FactorValue(f[x], raw[i], t, M)
             W(i, x) == FactorValue(f[x], raw[i], t, N)
  <1>1. ASSUME NEW i \in cands
        PROVE  /\ k[i].path = l[i].path
               /\ k[i].factors = [x \in DOMAIN f |-> V(i, x)]
               /\ l[i].factors = [x \in DOMAIN f |-> W(i, x)]
    BY DEF RankKey
  <1>2. \A i, j \in cands : \A x \in DOMAIN f :
           /\ V(i, x) < V(j, x) <=> W(i, x) < W(j, x)
           /\ V(i, x) = V(j, x) <=> W(i, x) = W(j, x)
    BY FactorAlike
  <1>fx. \A x \in DOMAIN f : 1 .. (x - 1) \subseteq DOMAIN f  OBVIOUS
  <1> HIDE DEF k, l, f, V, W
  <1>3. ASSUME NEW i \in cands, NEW j \in cands
        PROVE  RanksBefore(k[j], k[i]) <=> RanksBefore(l[j], l[i])
    <2> DEFINE a == k[j].factors
               b == k[i].factors
               c == l[j].factors
               d == l[i].factors
    <2>1. /\ a = [x \in DOMAIN f |-> V(j, x)] /\ b = [x \in DOMAIN f |-> V(i, x)]
          /\ c = [x \in DOMAIN f |-> W(j, x)] /\ d = [x \in DOMAIN f |-> W(i, x)]
      BY <1>1, Zenon
    <2>2. /\ a = [x \in DOMAIN f |-> a[x]] /\ b = [x \in DOMAIN f |-> b[x]]
          /\ c = [x \in DOMAIN f |-> c[x]] /\ d = [x \in DOMAIN f |-> d[x]]
      BY <2>1, Zenon
    <2>3. \A x \in DOMAIN f : /\ a[x] = V(j, x) /\ b[x] = V(i, x)
                              /\ c[x] = W(j, x) /\ d[x] = W(i, x)
      BY <2>1, Zenon
    <2>4. \A x \in DOMAIN f : /\ a[x] < b[x] <=> c[x] < d[x]
                              /\ a[x] = b[x] <=> c[x] = d[x]
      <3> SUFFICES ASSUME NEW x \in DOMAIN f
                   PROVE  (a[x] < b[x] <=> c[x] < d[x]) /\ (a[x] = b[x] <=> c[x] = d[x])
        OBVIOUS
      <3>1. (V(j, x) < V(i, x) <=> W(j, x) < W(i, x)) /\ (V(j, x) = V(i, x) <=> W(j, x) = W(i, x))
        BY <1>2, Zenon
      <3> HIDE DEF a, b, c, d
      <3>2. a[x] = V(j, x) /\ b[x] = V(i, x) /\ c[x] = W(j, x) /\ d[x] = W(i, x)  BY <2>3, Zenon
      <3>3. QED  BY <3>1, <3>2
    <2> HIDE DEF a, b, c, d
    <2>5. (LexLess(a, b) <=> LexLess(c, d)) /\ (a = b <=> c = d)
      <3> DEFINE I == DOMAIN f
      <3>1. /\ a = [x \in I |-> a[x]] /\ b = [x \in I |-> b[x]]
            /\ c = [x \in I |-> c[x]] /\ d = [x \in I |-> d[x]]
        BY <2>2, Zenon
      <3>2. \A x \in I : (a[x] < b[x] <=> c[x] < d[x]) /\ (a[x] = b[x] <=> c[x] = d[x])
        BY <2>4, Zenon
      <3>3. \A x \in I : 1 .. (x - 1) \subseteq I  BY <1>fx, Zenon
      <3> HIDE DEF I
      <3>4. Alike(I, a, b, c, d)  BY <3>1, <3>2, <3>3, Zenon DEF Alike
      <3>5. QED  BY <3>4, LexAlike, ZenonT(40)
    <2>6. QED  BY <1>1, <2>5, Zenon DEF RanksBefore, a, b, c, d
  <1>4. {i \in cands : \A j \in cands : ~ RanksBefore(k[j], k[i])}
           = {i \in cands : \A j \in cands : ~ RanksBefore(l[j], l[i])}
    BY <1>3, Zenon
  <1>5. QED  BY <1>4, Zenon DEF BestPath, k, l

-----------------------------------------------------------------------------
(* computeRoute. *)

LEMMA TraversalTyped ==
    ASSUME NEW policy \in RoutePolicy
    PROVE  /\ RouteTraversal(policy).maxPaths \in Nat
           /\ RouteTraversal(policy).maxDepth \in Nat
           /\ RouteTraversal(policy).maxDepth <= policy.maxAllowedHops
           /\ policy.maxAllowedHops \in Nat
  <1> DEFINE h == policy.maxAllowedHops
             A == {(h + 1) % U64, kMaxCandidatePaths}
             B == {h, kMaxPathDepth}
  <1>1. h \in Nat  BY WidthAssumption DEF RoutePolicy
  <1> HIDE DEF h
  <1>2. (h + 1) % U64 \in Nat  BY <1>1, WidthAssumption
  <1>3. A \in SUBSET Nat /\ A # {} /\ B \in SUBSET Nat /\ B # {} /\ h \in B
    BY <1>1, <1>2, PathLimitAssumption
  <1>4. IsFiniteSet(A) /\ IsFiniteSet(B)
    <2>1. ASSUME NEW x, NEW y  PROVE IsFiniteSet({x, y})
      <3>1. IsFiniteSet({x})  BY FS_Singleton
      <3>2. IsFiniteSet({x} \cup {y})  BY <3>1, FS_AddElement
      <3>3. {x} \cup {y} = {x, y}  OBVIOUS
      <3>4. QED  BY <3>2, <3>3
    <2>2. QED  BY <2>1
  <1>5. /\ RouteTraversal(policy).maxPaths = Min(A)
        /\ RouteTraversal(policy).maxDepth = Min(B)
    BY DEF RouteTraversal, h
  <1> HIDE DEF A, B
  <1>6. A \in SUBSET Int /\ B \in SUBSET Int  BY <1>3
  <1>7. Min(A) \in A /\ Min(B) \in B /\ Min(B) <= h  BY <1>3, <1>4, <1>6, MinMax
  <1>8. QED  BY <1>1, <1>3, <1>5, <1>7 DEF h

\* The paths computeRoute looks at, and those it may select.
Searched(t, src, dst, policy) == EnumeratePaths(t, src, dst, RouteTraversal(policy))
Candidates(t, raw, policy) == {i \in DOMAIN raw : Eligible(t, raw[i], policy)}

\* A route is granted if and only if the search is allowed and finds a
\* candidate, and it is the best of them.
Decides(t, src, dst, policy, M, raw, cands, d) ==
    /\ d.source = src /\ d.destination = dst
    /\ d.authoritative <=> d.outcome \in Allowed
    /\ d.outcome \notin Allowed => d.selected = NoPath
    /\ d.outcome \in Allowed <=> GateOutcome(t, src, dst, policy) = "SEARCH" /\ cands # {}
    /\ d.outcome \in Allowed => d.selected = BestPath(raw, cands, t, policy, M)

LEMMA DecisionMade ==
    ASSUME NEW t, NEW src, NEW dst, NEW policy, NEW log, NEW id, NEW ep,
           NEW raw, raw = Searched(t, src, dst, policy), NEW cands, cands = Candidates(t, raw, policy)
    PROVE  Decides(t, src, dst, policy, MatchedMeasurements(log, src, dst), raw, cands,
                   ComputeRoute(t, src, dst, policy, log, id, ep))
  <1> DEFINE plain == [id |-> id, epoch |-> ep, source |-> src, destination |-> dst,
                       snapshotId |-> t.id, topologyGen |-> t.topologyGen,
                       partition |-> NoPartition, partitionGen |-> 0,
                       outcome |-> "NO_ROUTE", authoritative |-> FALSE, selected |-> NoPath,
                       switchGens |-> EmptyMap, portGens |-> EmptyMap]
             gate == GateOutcome(t, src, dst, policy)
             lastP == LastPartition(t, {src, dst})
             lastGen == t.partitions[lastP].gen
             base == IF gate = "SEARCH" /\ InCurrentPartition(t, {src, dst})
                       THEN [plain EXCEPT !.partition = lastP, !.partitionGen = lastGen]
                       ELSE plain
             M == MatchedMeasurements(log, src, dst)
             best == BestPath(raw, cands, t, policy, M)
             r == ComputeRoute(t, src, dst, policy, log, id, ep)
  <1>1. r = IF gate # "SEARCH" THEN Refused(base, gate)
            ELSE IF raw = <<>> THEN Refused(base, NoPathOutcome(t, src, dst))
            ELSE IF cands = {} THEN Refused(base, NoEligibleOutcome(t))
            ELSE Granted(base, t, best)
    BY Zenon DEF ComputeRoute, Searched, Candidates
  <1>2. /\ gate \notin Allowed
        /\ NoPathOutcome(t, src, dst) \notin Allowed
        /\ NoEligibleOutcome(t) \notin Allowed
    BY DEF GateOutcome, NoPathOutcome, NoEligibleOutcome, Allowed
  <1>3. /\ {"source", "destination", "outcome", "authoritative", "selected"} \subseteq DOMAIN base
        /\ base.source = src /\ base.destination = dst
        /\ base.authoritative = FALSE /\ base.selected = NoPath
    <2> HIDE DEF lastP, lastGen
    <2>1. /\ DOMAIN plain = {"id", "epoch", "source", "destination", "snapshotId", "topologyGen",
                             "partition", "partitionGen", "outcome", "authoritative", "selected",
                             "switchGens", "portGens"}
          /\ plain.source = src /\ plain.destination = dst
          /\ plain.authoritative = FALSE /\ plain.selected = NoPath
      OBVIOUS
    <2> HIDE DEF plain
    <2>2. CASE base = plain  BY <2>1, <2>2
    <2>3. CASE base = [plain EXCEPT !.partition = lastP, !.partitionGen = lastGen]
      <3> HIDE DEF base
      <3>1. QED  BY <2>1, <2>3
    <2>4. QED  BY <2>2, <2>3, Zenon
  <1>4. raw = <<>> => cands = {}  BY DEF Candidates
  <1> HIDE DEF base, gate, M, best
  <1>5. ASSUME NEW o, o \notin Allowed, r = Refused(base, o), gate # "SEARCH" \/ cands = {}
        PROVE  Decides(t, src, dst, policy, M, raw, cands, r)
    <2>1. /\ r.source = src /\ r.destination = dst /\ r.authoritative = FALSE
          /\ r.outcome = o /\ r.selected = NoPath
      BY <1>3, <1>5 DEF Refused
    <2> HIDE DEF r
    <2>2. QED  BY <1>5, <2>1, Zenon DEF Decides, gate
  <1>6. ASSUME gate = "SEARCH", cands # {}, r = Granted(base, t, best)
        PROVE  Decides(t, src, dst, policy, M, raw, cands, r)
    <2>1. /\ r.source = src /\ r.destination = dst /\ r.authoritative = TRUE
          /\ r.outcome \in Allowed /\ r.selected = best
      BY <1>3, <1>6 DEF Granted, Allowed
    <2> HIDE DEF r
    <2>2. QED  BY <1>6, <2>1, Zenon DEF Decides, gate, best
  <1> HIDE DEF r
  <1>7. gate # "SEARCH" => Decides(t, src, dst, policy, M, raw, cands, r)  BY <1>1, <1>2, <1>5
  <1>8. gate = "SEARCH" /\ raw = <<>> => Decides(t, src, dst, policy, M, raw, cands, r)
    BY <1>1, <1>2, <1>4, <1>5
  <1>9. gate = "SEARCH" /\ raw # <<>> /\ cands = {} => Decides(t, src, dst, policy, M, raw, cands, r)
    BY <1>1, <1>2, <1>5
  <1>10. gate = "SEARCH" /\ raw # <<>> /\ cands # {} => Decides(t, src, dst, policy, M, raw, cands, r)
    BY <1>1, <1>6
  <1>11. Decides(t, src, dst, policy, M, raw, cands, r)  BY <1>7, <1>8, <1>9, <1>10
  <1>12. QED  BY <1>11 DEF M, r

\* What a decision d of computeRoute says.
DecisionOK(t, src, dst, policy, d) ==
    /\ d.source = src /\ d.destination = dst
    /\ d.authoritative <=> d.outcome \in Allowed
    /\ d.outcome \notin Allowed => d.selected = NoPath
    /\ d.outcome \in Allowed =>
          /\ GateOutcome(t, src, dst, policy) = "SEARCH"
          /\ Eligible(t, d.selected, policy)
          /\ \E n \in Nat \ {0} :
                n <= policy.maxAllowedHops /\ LeadsFromTo(t, src, dst, d.selected, n)

LEMMA DecisionSound ==
    ASSUME NEW t, Searchable(t), NEW src, NEW dst, NEW policy \in RoutePolicy, NEW log,
           Rated(MatchedMeasurements(log, src, dst)), NEW id, NEW ep
    PROVE  DecisionOK(t, src, dst, policy, ComputeRoute(t, src, dst, policy, log, id, ep))
  <1> DEFINE raw == Searched(t, src, dst, policy)
             cands == Candidates(t, raw, policy)
             M == MatchedMeasurements(log, src, dst)
             r == ComputeRoute(t, src, dst, policy, log, id, ep)
             D == RouteTraversal(policy).maxDepth
             h == policy.maxAllowedHops
             P == AnyPath(t, src, dst, D)
  <1>1. Decides(t, src, dst, policy, M, raw, cands, r)  BY DecisionMade
  <1>2. D \in Nat /\ D <= h /\ h \in Nat  BY TraversalTyped
  <1>3. raw \in Seq(P)  BY <1>2, TraversalTyped, EnumeratedOK DEF Searched
  <1>4. policy.factors \in Seq(RouteFactor) /\ Rated(M)  BY DEF RoutePolicy
  <1> HIDE DEF raw, M, r, D, h
  <1>5. cands \in SUBSET DOMAIN raw /\ \A i \in cands : Eligible(t, raw[i], policy)
    BY DEF Candidates
  <1> HIDE DEF cands
  <1>6. ASSUME r.outcome \in Allowed
        PROVE  /\ Eligible(t, r.selected, policy)
               /\ \E n \in Nat \ {0} : n <= h /\ LeadsFromTo(t, src, dst, r.selected, n)
    <2>1. cands # {} /\ r.selected = BestPath(raw, cands, t, policy, M)
      BY <1>1, <1>6, Zenon DEF Decides
    <2>2. PICK i \in cands : BestPath(raw, cands, t, policy, M) = raw[i]
      BY <1>2, <1>3, <1>4, <1>5, <2>1, BestChosen
    <2>3. raw[i] \in P  BY <1>3, <1>5, <2>2
    <2>4. PICK n \in Nat \ {0} : n <= D /\ LeadsFromTo(t, src, dst, raw[i], n)
      BY <1>2, <2>3, PathFacts, Zenon
    <2>5. n <= h  BY <1>2, <2>4
    <2>6. QED  BY <1>5, <2>1, <2>2, <2>4, <2>5
  <1>7. QED  BY <1>1, <1>6, Zenon DEF Decides, DecisionOK, h, r

\* Whatever was measured, the decision is the same.
LEMMA DecisionAlike ==
    ASSUME NEW t, NEW src, NEW dst, NEW policy \in RoutePolicy, NEW log, NEW other,
           Rated(MatchedMeasurements(log, src, dst)), Rated(MatchedMeasurements(other, src, dst)),
           NEW id, NEW ep
    PROVE  ComputeRoute(t, src, dst, policy, log, id, ep)
             = ComputeRoute(t, src, dst, policy, other, id, ep)
  <1>1. policy.factors \in Seq(RouteFactor)  BY DEF RoutePolicy
  <1>2. \A raw, cands : BestPath(raw, cands, t, policy, MatchedMeasurements(log, src, dst))
                          = BestPath(raw, cands, t, policy, MatchedMeasurements(other, src, dst))
    BY <1>1, BestAlike
  <1>3. QED  BY <1>2, Zenon DEF ComputeRoute

\* A log of finitely many measurements.
LEMMA LogRated ==
    ASSUME NEW log, DOMAIN log = 1 .. Len(log), Len(log) \in Nat,
           \A i \in DOMAIN log : log[i].throughput \in Nat /\ log[i].latency \in Nat,
           NEW src, NEW dst
    PROVE  Rated(MatchedMeasurements(log, src, dst))
  <1> DEFINE n == Len(log)
             S == {log[i] : i \in 1 .. n}
             f == [i \in 1 .. n |-> log[i]]
             M == MatchedMeasurements(log, src, dst)
  <1>1. M \in SUBSET S  BY DEF MatchedMeasurements
  <1>2. \A m \in S : m.throughput \in Nat /\ m.latency \in Nat  OBVIOUS
  <1>3. n \in Int /\ 1 \in Int  OBVIOUS
  <1>4. f \in Surjection(1 .. n, S)  BY DEF Surjection
  <1> HIDE DEF n, S, f, M
  <1>5. IsFiniteSet(1 .. n)  BY <1>3, FS_Interval
  <1>6. IsFiniteSet(S)  BY <1>4, <1>5, FS_Surjection
  <1>7. IsFiniteSet(M)  BY <1>1, <1>6, FS_Subset
  <1>8. QED  BY <1>1, <1>2, <1>7 DEF Rated, M
=============================================================================
