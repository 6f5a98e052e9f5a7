----------------------------- MODULE TableFacts -----------------------------
(***************************************************************************)
(* Facts about ids, tables and totals: ids are numbers, a table is a       *)
(* sequence, a total counts what is in several places.                     *)
(***************************************************************************)
EXTENDS Totals, SequenceTheorems, FiniteSetTheorems, TLAPS

\* A non-empty set of numbers has a least one.  (The sets of smaller members
\* are finite, and strict inclusion of finite sets is well-founded.)
LEMMA LeastMember ==
    ASSUME NEW T \in SUBSET Nat, T # {}
    PROVE  \E x \in T : \A y \in T : x <= y
<1> DEFINE Below(x) == {y \in T : y < x}
           F == {Below(x) : x \in T}
<1>1. \A x \in T : IsFiniteSet(Below(x))
  <2> TAKE x \in T
  <2> QED  BY FS_BoundedSetOfNaturals, Below(x) \in SUBSET Nat, x \in Nat,
              \A y \in Below(x) : y <= x
<1>2. F \subseteq FiniteSubsetsOf(Nat) /\ F # {}
  BY <1>1 DEF FiniteSubsetsOf
<1>3. PICK M \in F : \A N \in F : ~ (<<N, M>> \in StrictSubsetOrdering(Nat))
  BY <1>2, FS_StrictSubsetOrderingWellFounded, WFMin
<1>4. PICK x \in T : M = Below(x)
  OBVIOUS
<1>5. ASSUME NEW y \in T, y < x PROVE FALSE
  <2>0. T \subseteq Nat /\ x \in Nat /\ y \in Nat
    OBVIOUS
  <2>1. Below(y) \subseteq Below(x) /\ y \in Below(x) /\ y \notin Below(y)
    <3>1. \A z \in T : z < y => z < x
      BY <1>5, <2>0
    <3>2. Below(y) \subseteq Below(x)
      BY <3>1, Zenon
    <3>3. y \in Below(x)
      BY <1>5
    <3>4. y \notin Below(y)
      BY <2>0
    <3> QED  BY <3>2, <3>3, <3>4
  <2>2. <<Below(y), M>> \in StrictSubsetOrdering(Nat)
    BY <2>1, <1>4 DEF StrictSubsetOrdering
  <2> QED  BY <2>2, <1>3
<1> QED  BY <1>5

\* Appending a row keeps the rows there are.
LEMMA AppendRow ==
    ASSUME NEW S, NEW rows \in Seq(S), NEW e \in S
    PROVE  /\ Append(rows, e) \in Seq(S)
           /\ Len(rows) \in Nat
           /\ DOMAIN rows = 1 .. Len(rows)
           /\ DOMAIN Append(rows, e) = 1 .. (Len(rows) + 1)
           /\ \A i \in DOMAIN rows : Append(rows, e)[i] = rows[i]
           /\ Append(rows, e)[Len(rows) + 1] = e
  BY AppendProperties, LenProperties

-----------------------------------------------------------------------------
(* Totals *)

\* The coupons at one place, as a set of their own.
LEMMA UnitsAt ==
    ASSUME NEW x, NEW n \in Nat
    PROVE  IsFiniteSet({x} \X (1 .. n)) /\ Cardinality({x} \X (1 .. n)) = n
<1>1. IsFiniteSet({x}) /\ Cardinality({x}) = 1
  BY FS_Singleton
<1>2. IsFiniteSet(1 .. n) /\ Cardinality(1 .. n) = n
  BY FS_Interval
<1>3. /\ IsFiniteSet({x} \X (1 .. n))
      /\ Cardinality({x} \X (1 .. n)) = Cardinality({x}) * Cardinality(1 .. n)
  BY <1>1, <1>2, FS_Product, Zenon
<1> QED  BY <1>1, <1>2, <1>3

\* A total of finitely many amounts is a number.
LEMMA TotalType ==
    ASSUME NEW f, IsFiniteSet(DOMAIN f), \A x \in DOMAIN f : f[x] \in Nat
    PROVE  IsFiniteSet(Units(f)) /\ Total(f) \in Nat
<1> DEFINE At(x) == {x} \X (1 .. f[x])
           All == {At(x) : x \in DOMAIN f}
           g == [x \in DOMAIN f |-> At(x)]
<1>1. g \in Surjection(DOMAIN f, All)
  BY DEF Surjection
<1>2. IsFiniteSet(All)
  BY <1>1, FS_Surjection
<1>3. \A T \in All : IsFiniteSet(T)
  <2> TAKE T \in All
  <2>1. PICK x \in DOMAIN f : T = At(x)
    OBVIOUS
  <2> QED  BY <2>1, UnitsAt
<1>4. IsFiniteSet(UNION All)
  BY <1>2, <1>3, FS_UNION
<1>5. Units(f) = UNION All
  BY DEF Units
<1> QED  BY <1>4, <1>5, FS_CardinalityType DEF Total

\* Nothing is nowhere.
LEMMA TotalNone == ASSUME NEW f, DOMAIN f = {} PROVE Total(f) = 0
<1>1. Units(f) = {}
  BY DEF Units
<1> QED  BY <1>1, FS_EmptySet DEF Total

\* With one place more, there are so many more as are at that place.
LEMMA TotalAdd ==
    ASSUME NEW f, NEW g, NEW y, y \notin DOMAIN f, DOMAIN g = DOMAIN f \cup {y},
           IsFiniteSet(DOMAIN f), \A x \in DOMAIN f : f[x] \in Nat /\ g[x] = f[x],
           g[y] \in Nat
    PROVE  Total(g) = Total(f) + g[y]
<1> DEFINE At == {y} \X (1 .. g[y])
<1>1. Units(g) = Units(f) \cup At
  BY DEF Units
<1>2. Units(f) \cap At = {}
  BY DEF Units
<1>3. IsFiniteSet(Units(f)) /\ Total(f) \in Nat
  BY TotalType
<1>4. IsFiniteSet(At) /\ Cardinality(At) = g[y]
  BY UnitsAt
<1>5. Cardinality(Units(f) \cap At) = 0
  BY <1>2, FS_EmptySet
<1> HIDE DEF At
<1>6. Cardinality(Units(f) \cup At) =
         Cardinality(Units(f)) + Cardinality(At) - Cardinality(Units(f) \cap At)
  BY <1>3, <1>4, FS_Union
<1>7. Total(g) = Total(f) + g[y] - 0
  BY <1>1, <1>4, <1>5, <1>6, Zenon DEF Total
<1> QED  BY <1>3, <1>7

\* What is at the only place is all there is.
LEMMA TotalOne ==
    ASSUME NEW f, NEW y, DOMAIN f = {y}, f[y] \in Nat
    PROVE  Total(f) = f[y]
<1>1. Units(f) = {y} \X (1 .. f[y])
  BY DEF Units
<1> QED  BY <1>1, UnitsAt DEF Total

\* The same amounts at the same places make the same total.
LEMMA TotalSame ==
    ASSUME NEW f, NEW g, DOMAIN f = DOMAIN g, \A x \in DOMAIN f : f[x] = g[x]
    PROVE  Total(f) = Total(g)
<1>1. Units(f) = Units(g)
  BY DEF Units
<1> QED  BY <1>1 DEF Total

\* What changes at one place changes the total.
LEMMA TotalChange ==
    ASSUME NEW f, NEW g, NEW y \in DOMAIN f, DOMAIN g = DOMAIN f, IsFiniteSet(DOMAIN f),
           \A x \in DOMAIN f : f[x] \in Nat /\ g[x] \in Nat /\ (x # y => g[x] = f[x])
    PROVE  /\ Total(f) \in Nat /\ Total(g) \in Nat
           /\ Total(g) = Total(f) - f[y] + g[y]
<1> DEFINE h == [x \in DOMAIN f \ {y} |-> f[x]]
<1>0. f[y] \in Nat /\ g[y] \in Nat
  OBVIOUS
<1>1. DOMAIN h = DOMAIN f \ {y} /\ IsFiniteSet(DOMAIN h)
  BY FS_Subset
<1>2. \A x \in DOMAIN h : h[x] \in Nat /\ f[x] = h[x] /\ g[x] = h[x]
  OBVIOUS
<1> HIDE DEF h
<1>3. y \notin DOMAIN h /\ DOMAIN f = DOMAIN h \cup {y} /\ DOMAIN g = DOMAIN h \cup {y}
  BY <1>1
<1>4. Total(f) = Total(h) + f[y]
  <2>1. \A x \in DOMAIN h : h[x] \in Nat /\ f[x] = h[x]
    BY <1>2
  <2>2. DOMAIN f = DOMAIN h \cup {y} /\ y \notin DOMAIN h
    BY <1>3
  <2>3. IsFiniteSet(DOMAIN h) /\ f[y] \in Nat
    BY <1>0, <1>1
  <2> QED  BY <2>1, <2>2, <2>3, TotalAdd, SMTT(60)
<1>5. Total(g) = Total(h) + g[y]
  BY <1>0, <1>1, <1>2, <1>3, TotalAdd
<1>6. Total(f) \in Nat /\ Total(g) \in Nat /\ Total(h) \in Nat
  BY <1>1, <1>2, TotalType
<1> QED  BY <1>4, <1>5, <1>6
=============================================================================
