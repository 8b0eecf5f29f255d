--------------------------- MODULE DeliveryProofs ---------------------------
(***************************************************************************)
(* A config is sold as often as its pool allows, an order takes no more    *)
(* than the quantity of a source, a completed order was delivered, and a   *)
(* customer gets one trial in a cooldown.                                  *)
(*                                                                         *)
(* The code counts rows; so do the lemmas of the first part, from which    *)
(* the number of an asset's holders follows step by step.                  *)
(***************************************************************************)
EXTENDS Delivery, FiniteSetTheorems, TLAPS

-----------------------------------------------------------------------------
(* Counting. *)

LEMMA UnitsMeans ==
  ASSUME NEW D, NEW f \in [D -> Nat]
  PROVE  /\ \A x, i : <<x, i>> \in Units(f) <=> x \in D /\ i \in 1..f[x]
         /\ \A u \in Units(f) : u = <<u[1], u[2]>> /\ u[1] \in D /\ u[2] \in 1..f[u[1]]
<1>1. \A u : u \in Units(f) <=> \E x \in D : u \in {x} \X (1..f[x])
  BY DEF Units
<1>2. QED
  BY <1>1

(* The units of one place, and those of the others. *)
Elsewhere(f, x) == {u \in Units(f) : u[1] # x}

LEMMA UnitsSplit ==
  ASSUME NEW D, NEW f \in [D -> Nat], NEW x \in D
  PROVE  /\ Units(f) = Elsewhere(f, x) \cup ({x} \X (1..f[x]))
         /\ Elsewhere(f, x) \cap ({x} \X (1..f[x])) = {}
         /\ IsFiniteSet({x} \X (1..f[x])) /\ Cardinality({x} \X (1..f[x])) = f[x]
<1>1. Units(f) = Elsewhere(f, x) \cup ({x} \X (1..f[x]))
  <2>1. ASSUME NEW u \in Units(f) PROVE u \in Elsewhere(f, x) \cup ({x} \X (1..f[x]))
    <3>1. u = <<u[1], u[2]>> /\ u[2] \in 1..f[u[1]]
      BY UnitsMeans
    <3>2. QED
      BY <3>1 DEF Elsewhere
  <2>2. ASSUME NEW u \in {x} \X (1..f[x]) PROVE u \in Units(f)
    <3>1. PICK i \in 1..f[x] : u = <<x, i>>
      OBVIOUS
    <3>2. QED
      BY <3>1, UnitsMeans
  <2>3. QED
    BY <2>1, <2>2 DEF Elsewhere
<1>2. Elsewhere(f, x) \cap ({x} \X (1..f[x])) = {}
  BY DEF Elsewhere
<1>3. f[x] \in Nat /\ IsFiniteSet(1..f[x]) /\ Cardinality(1..f[x]) = f[x]
  <2>1. f[x] \in Nat
    OBVIOUS
  <2>2. QED
    BY <2>1, FS_Interval
<1>4. IsFiniteSet({x}) /\ Cardinality({x}) = 1
  BY FS_Singleton
<1>5. IsFiniteSet({x} \X (1..f[x])) /\ Cardinality({x} \X (1..f[x])) = 1 * f[x]
  BY <1>3, <1>4, FS_Product
<1>6. QED
  BY <1>1, <1>2, <1>3, <1>5

(* Finitely many places hold finitely many units. *)
LEMMA UnitsFinite ==
  ASSUME NEW D, IsFiniteSet(D), NEW f \in [D -> Nat]
  PROVE  IsFiniteSet(Units(f)) /\ Count(f) \in Nat
<1> DEFINE g == [x \in D |-> {x} \X (1..f[x])]
           T == {g[x] : x \in D}
<1>1. Units(f) = UNION T
  BY DEF Units
<1>2. \A S \in T : IsFiniteSet(S)
  <2>1. \A x \in D : IsFiniteSet({x} \X (1..f[x]))
    BY UnitsSplit
  <2>2. QED
    BY <2>1
<1>3. g \in Surjection(D, T)
  BY DEF Surjection
<1>4. IsFiniteSet(T)
  BY <1>3, FS_Surjection
<1> HIDE DEF T
<1>5. IsFiniteSet(UNION T)
  BY <1>2, <1>4, FS_UNION
<1>6. QED
  BY <1>1, <1>5, FS_CardinalityType DEF Count

(* What the count gains and loses with one place. *)
LEMMA CountSplit ==
  ASSUME NEW D, IsFiniteSet(D), NEW f \in [D -> Nat], NEW x \in D
  PROVE  /\ Cardinality(Elsewhere(f, x)) \in Nat
         /\ Count(f) = Cardinality(Elsewhere(f, x)) + f[x]
<1> DEFINE A == Elsewhere(f, x)
           B == {x} \X (1..f[x])
<1>1. Units(f) = A \cup B /\ A \cap B = {} /\ IsFiniteSet(B) /\ Cardinality(B) = f[x]
  BY UnitsSplit
<1>2. IsFiniteSet(A) /\ Cardinality(A) \in Nat
  <2>1. IsFiniteSet(Units(f)) /\ A \in SUBSET Units(f)
    BY UnitsFinite DEF Elsewhere
  <2>2. IsFiniteSet(A)
    BY <2>1, FS_Subset
  <2>3. QED
    BY <2>2, FS_CardinalityType
<1> HIDE DEF A, B
<1>3. Cardinality(A \cup B) = Cardinality(A) + Cardinality(B) - Cardinality(A \cap B)
  BY <1>1, <1>2, FS_Union
<1>4. Cardinality(A \cap B) = 0
  BY <1>1, FS_EmptySet
<1>5. f[x] \in Nat
  OBVIOUS
<1>6. Count(f) = Cardinality(A) + f[x]
  BY <1>1, <1>2, <1>3, <1>4, <1>5 DEF Count
<1>7. QED
  BY <1>2, <1>6 DEF A

LEMMA CountUpdate ==
  ASSUME NEW D, IsFiniteSet(D), NEW f \in [D -> Nat], NEW g \in [D -> Nat], NEW x \in D,
         \A y \in D \ {x} : g[y] = f[y]
  PROVE  Count(g) + f[x] = Count(f) + g[x]
<1>1. Elsewhere(g, x) = Elsewhere(f, x)
  <2>1. ASSUME NEW u \in Elsewhere(g, x) PROVE u \in Elsewhere(f, x)
    <3>1. u = <<u[1], u[2]>> /\ u[1] \in D /\ u[2] \in 1..g[u[1]] /\ u[1] # x
      BY UnitsMeans DEF Elsewhere
    <3>2. u[2] \in 1..f[u[1]]
      BY <3>1
    <3>3. <<u[1], u[2]>> \in Units(f)
      BY <3>1, <3>2, UnitsMeans
    <3>4. QED
      BY <3>1, <3>3 DEF Elsewhere
  <2>2. ASSUME NEW u \in Elsewhere(f, x) PROVE u \in Elsewhere(g, x)
    <3>1. u = <<u[1], u[2]>> /\ u[1] \in D /\ u[2] \in 1..f[u[1]] /\ u[1] # x
      BY UnitsMeans DEF Elsewhere
    <3>2. u[2] \in 1..g[u[1]]
      BY <3>1
    <3>3. <<u[1], u[2]>> \in Units(g)
      BY <3>1, <3>2, UnitsMeans
    <3>4. QED
      BY <3>1, <3>3 DEF Elsewhere
  <2>3. QED
    BY <2>1, <2>2
<1>2. PICK n \in Nat : n = Cardinality(Elsewhere(f, x))
  BY CountSplit
<1>3. Count(f) = n + f[x] /\ Count(g) = n + g[x]
  BY <1>1, <1>2, CountSplit
<1>4. f[x] \in Nat /\ g[x] \in Nat
  OBVIOUS
<1>5. QED
  BY <1>3, <1>4

LEMMA CountZero ==
  ASSUME NEW D, NEW f \in [D -> Nat], \A x \in D : f[x] = 0
  PROVE  Count(f) = 0
<1>1. Units(f) = {}
  BY UnitsMeans
<1>2. QED
  BY <1>1, FS_EmptySet DEF Count

LEMMA CountBounds ==
  ASSUME NEW D, IsFiniteSet(D), NEW f \in [D -> Nat], NEW x \in D
  PROVE  f[x] <= Count(f)
<1>1. PICK n \in Nat : Count(f) = n + f[x]
  BY CountSplit
<1>2. f[x] \in Nat
  OBVIOUS
<1>3. QED
  BY <1>1, <1>2

(* Counts add up. *)
LEMMA CountPlus ==
  ASSUME NEW D, IsFiniteSet(D), NEW f \in [D -> Nat], NEW g \in [D -> Nat], NEW h \in [D -> Nat],
         \A x \in D : h[x] = f[x] + g[x]
  PROVE  Count(h) = Count(f) + Count(g)
<1> DEFINE A == Units(f)
           B == {u \in Units(h) : u[2] > f[u[1]]}
           m == [u \in Units(g) |-> <<u[1], f[u[1]] + u[2]>>]
<1>1. Units(h) = A \cup B /\ A \cap B = {}
  <2>1. ASSUME NEW u \in Units(h) PROVE u \in A \cup B
    <3>1. u = <<u[1], u[2]>> /\ u[1] \in D /\ u[2] \in 1..h[u[1]]
      BY UnitsMeans
    <3>2. CASE u[2] > f[u[1]]
      BY <3>2
    <3>3. CASE ~(u[2] > f[u[1]])
      <4>1. u[2] \in 1..f[u[1]]
        BY <3>1, <3>3
      <4>2. QED
        BY <3>1, <4>1, UnitsMeans
    <3>4. QED
      BY <3>2, <3>3
  <2>2. ASSUME NEW u \in A PROVE u \in Units(h) /\ u \notin B
    <3>1. u = <<u[1], u[2]>> /\ u[1] \in D /\ u[2] \in 1..f[u[1]]
      BY UnitsMeans
    <3>2. u[2] \in 1..h[u[1]] /\ ~(u[2] > f[u[1]])
      BY <3>1
    <3>3. QED
      BY <3>1, <3>2, UnitsMeans
  <2>3. QED
    BY <2>1, <2>2
<1>2. m \in Bijection(Units(g), B)
  <2>1. ASSUME NEW u \in Units(g)
        PROVE  /\ u = <<u[1], u[2]>> /\ u[1] \in D /\ u[2] \in Nat /\ f[u[1]] \in Nat
               /\ m[u] \in B
    <3>1. u = <<u[1], u[2]>> /\ u[1] \in D /\ u[2] \in 1..g[u[1]]
      BY UnitsMeans
    <3>2. f[u[1]] \in Nat /\ g[u[1]] \in Nat /\ h[u[1]] = f[u[1]] + g[u[1]]
      BY <3>1
    <3>3. f[u[1]] + u[2] \in 1..h[u[1]] /\ f[u[1]] + u[2] > f[u[1]]
      BY <3>1, <3>2
    <3>4. <<u[1], f[u[1]] + u[2]>> \in Units(h)
      BY <3>1, <3>3, UnitsMeans
    <3>5. QED
      BY <3>1, <3>2, <3>3, <3>4
  <2>2. ASSUME NEW u \in Units(g), NEW v \in Units(g), m[u] = m[v] PROVE u = v
    <3>1. u[1] = v[1] /\ f[u[1]] + u[2] = f[v[1]] + v[2]
      BY <2>2
    <3>2. u[2] = v[2]
      <4>1. u[2] \in Nat /\ v[2] \in Nat /\ f[u[1]] \in Nat /\ f[v[1]] = f[u[1]]
        BY <2>1, <3>1
      <4>2. QED
        BY <3>1, <4>1
    <3>3. QED
      BY <2>1, <3>1, <3>2
  <2>3. ASSUME NEW w \in B PROVE \E u \in Units(g) : m[u] = w
    <3>1. w = <<w[1], w[2]>> /\ w[1] \in D /\ w[2] \in 1..h[w[1]] /\ w[2] > f[w[1]]
      BY UnitsMeans
    <3>2. f[w[1]] \in Nat /\ g[w[1]] \in Nat /\ h[w[1]] = f[w[1]] + g[w[1]]
      BY <3>1
    <3>3. PICK i \in 1..g[w[1]] : w[2] = f[w[1]] + i
      <4>1. w[2] - f[w[1]] \in 1..g[w[1]] /\ w[2] = f[w[1]] + (w[2] - f[w[1]])
        BY <3>1, <3>2
      <4>2. QED
        BY <4>1
    <3>4. <<w[1], i>> \in Units(g)
      BY <3>1, <3>3, UnitsMeans
    <3>5. m[<<w[1], i>>] = w
      BY <3>1, <3>3, <3>4
    <3>6. QED
      BY <3>4, <3>5
  <2>4. m \in [Units(g) -> B]
    BY <2>1
  <2> HIDE DEF m, B
  <2>5. m \in Injection(Units(g), B)
    BY <2>2, <2>4 DEF Injection, IsInjective
  <2>6. m \in Surjection(Units(g), B)
    BY <2>3, <2>4 DEF Surjection
  <2>7. QED
    BY <2>5, <2>6 DEF Bijection
<1>3. IsFiniteSet(A) /\ Cardinality(A) \in Nat
  BY UnitsFinite DEF Count
<1>4. IsFiniteSet(Units(g)) /\ Cardinality(Units(g)) \in Nat
  BY UnitsFinite DEF Count
<1> HIDE DEF B, m
<1>5. IsFiniteSet(B) /\ Cardinality(B) = Cardinality(Units(g))
  <2>1. ExistsBijection(Units(g), B)
    BY <1>2 DEF ExistsBijection
  <2>2. QED
    BY <1>4, <2>1, FS_Bijection
<1> HIDE DEF A
<1>6. Cardinality(A \cup B) = Cardinality(A) + Cardinality(B) - Cardinality(A \cap B)
  BY <1>3, <1>5, FS_Union
<1>7. Cardinality(A \cap B) = 0
  BY <1>1, FS_EmptySet
<1>8. Cardinality(Units(h)) = Cardinality(A) + Cardinality(Units(g))
  BY <1>1, <1>3, <1>4, <1>5, <1>6, <1>7
<1>9. QED
  BY <1>8 DEF Count, A

-----------------------------------------------------------------------------
(* What the operators of the stock return. *)

AllSources == Sources \cup {Staff}

LEMMA ElementsFinite ==
  ASSUME NEW S, NEW q \in Seq(S)
  PROVE  IsFiniteSet(Elements(q)) /\ Elements(q) \subseteq S
<1>1. Len(q) \in Nat /\ q \in [1..Len(q) -> S]
  OBVIOUS
<1>2. IsFiniteSet(1..Len(q))
  BY <1>1, FS_Interval
<1> DEFINE f == [i \in 1..Len(q) |-> q[i]]
<1>3. f \in Surjection(1..Len(q), Elements(q))
  BY DEF Surjection, Elements
<1>4. IsFiniteSet(Elements(q))
  BY <1>2, <1>3, FS_Surjection
<1>5. QED
  BY <1>1, <1>4 DEF Elements

LEMMA SourcesFinite == IsFiniteSet(AllSources)
<1>1. Primary \in Seq(Sources) /\ FallbackSources \in Seq(Sources) /\ Rules \in Seq(Sources)
  BY DeliveryAssumption
<1>2. IsFiniteSet(Elements(Primary)) /\ IsFiniteSet(Elements(FallbackSources))
      /\ IsFiniteSet(Elements(Rules))
  BY <1>1, ElementsFinite
<1>3. IsFiniteSet(Elements(Primary) \cup Elements(FallbackSources))
  BY <1>2, FS_Union
<1>4. IsFiniteSet(Sources)
  BY <1>2, <1>3, FS_Union DEF Sources
<1>5. IsFiniteSet({Staff})
  BY FS_Singleton
<1>6. QED
  BY <1>4, <1>5, FS_Union DEF AllSources

LEMMA StockFinite == IsFiniteSet(Assets) /\ IsFiniteSet(Orders)
BY DeliveryAssumption

LEMMA Limit == AllocationLimit \in Nat /\ AllocationLimit >= 1
BY DeliveryAssumption DEF AllocationLimit

LEMMA TotalType ==
  ASSUME NEW f \in [Assets -> Nat]
  PROVE  Total(f) \in Nat
BY StockFinite, UnitsFinite DEF Total

LEMMA NothingType == Nothing \in PerSource /\ \A s \in AllSources : Total(Nothing[s]) = 0
<1>1. Nothing \in PerSource
  BY DEF Nothing, PerSource
<1>2. ASSUME NEW s \in AllSources PROVE Total(Nothing[s]) = 0
  <2>1. Nothing[s] = [a \in Assets |-> 0]
    BY DEF Nothing, AllSources
  <2>2. Nothing[s] \in [Assets -> Nat] /\ \A a \in Assets : Nothing[s][a] = 0
    BY <2>1
  <2>3. QED
    BY <2>2, CountZero DEF Total
<1>3. QED
  BY <1>1, <1>2

(* What the sources together have of an asset. *)
Column(t, a) == [s \in AllSources |-> t[s][a]]

LEMMA SumMeans ==
  ASSUME NEW t \in PerSource, NEW a \in Assets
  PROVE  /\ Column(t, a) \in [AllSources -> Nat]
         /\ Sum(t)[a] = Count(Column(t, a)) /\ Sum(t)[a] \in Nat
<1>1. DOMAIN t = AllSources /\ \A s \in AllSources : t[s] \in [Assets -> Nat]
  BY DEF PerSource, AllSources
<1>2. Column(t, a) \in [AllSources -> Nat]
  BY <1>1 DEF Column
<1>3. Sum(t)[a] = Count(Column(t, a))
  BY <1>1 DEF Sum, Column
<1>4. QED
  BY <1>2, <1>3, SourcesFinite, UnitsFinite

LEMMA SumNothing ==
  ASSUME NEW a \in Assets
  PROVE  Sum(Nothing)[a] = 0
<1>1. Nothing \in PerSource
  BY NothingType
<1>2. \A s \in AllSources : Column(Nothing, a)[s] = 0
  BY DEF Column, Nothing, AllSources
<1>3. QED
  BY <1>1, <1>2, SumMeans, CountZero

LEMMA SumChange ==
  ASSUME NEW t \in PerSource, NEW u \in PerSource, NEW a \in Assets, NEW s \in AllSources,
         \A r \in AllSources \ {s} : u[r][a] = t[r][a]
  PROVE  Sum(u)[a] + t[s][a] = Sum(t)[a] + u[s][a]
<1>1. Column(t, a) \in [AllSources -> Nat] /\ Column(u, a) \in [AllSources -> Nat]
  BY SumMeans
<1>2. \A r \in AllSources \ {s} : Column(u, a)[r] = Column(t, a)[r]
  BY DEF Column
<1>3. Count(Column(u, a)) + Column(t, a)[s] = Count(Column(t, a)) + Column(u, a)[s]
  BY <1>1, <1>2, SourcesFinite, CountUpdate
<1>4. Column(t, a)[s] = t[s][a] /\ Column(u, a)[s] = u[s][a]
  BY DEF Column
<1>5. QED
  BY <1>3, <1>4, SumMeans

LEMMA SumBounds ==
  ASSUME NEW t \in PerSource, NEW a \in Assets, NEW s \in AllSources
  PROVE  t[s][a] <= Sum(t)[a]
<1>1. Column(t, a) \in [AllSources -> Nat] /\ Column(t, a)[s] = t[s][a]
  BY SumMeans DEF Column
<1>2. Column(t, a)[s] <= Count(Column(t, a))
  BY <1>1, SourcesFinite, CountBounds
<1>3. QED
  BY <1>1, <1>2, SumMeans

LEMMA PlusMeans ==
  ASSUME NEW t \in PerSource, NEW u \in PerSource
  PROVE  /\ Plus(t, u) \in PerSource
         /\ \A s \in AllSources : Total(Plus(t, u)[s]) = Total(t[s]) + Total(u[s])
         /\ \A a \in Assets : Sum(Plus(t, u))[a] = Sum(t)[a] + Sum(u)[a]
<1>1. DOMAIN t = AllSources /\ t \in [AllSources -> [Assets -> Nat]]
      /\ u \in [AllSources -> [Assets -> Nat]]
  BY DEF PerSource, AllSources
<1>2. /\ Plus(t, u) \in [AllSources -> [Assets -> Nat]]
      /\ \A s \in AllSources, a \in Assets : Plus(t, u)[s][a] = t[s][a] + u[s][a]
  BY <1>1 DEF Plus
<1>3. Plus(t, u) \in PerSource
  BY <1>2 DEF PerSource, AllSources
<1>4. ASSUME NEW s \in AllSources PROVE Total(Plus(t, u)[s]) = Total(t[s]) + Total(u[s])
  <2>1. t[s] \in [Assets -> Nat] /\ u[s] \in [Assets -> Nat] /\ Plus(t, u)[s] \in [Assets -> Nat]
    BY <1>1, <1>2
  <2>2. \A a \in Assets : Plus(t, u)[s][a] = t[s][a] + u[s][a]
    BY <1>2
  <2>3. Count(Plus(t, u)[s]) = Count(t[s]) + Count(u[s])
    BY <2>1, <2>2, StockFinite, CountPlus
  <2>4. QED
    BY <2>3 DEF Total
<1>5. ASSUME NEW a \in Assets PROVE Sum(Plus(t, u))[a] = Sum(t)[a] + Sum(u)[a]
  <2>1. /\ Column(t, a) \in [AllSources -> Nat] /\ Column(u, a) \in [AllSources -> Nat]
        /\ Column(Plus(t, u), a) \in [AllSources -> Nat]
    BY <1>3, SumMeans
  <2>2. \A s \in AllSources : Column(Plus(t, u), a)[s] = Column(t, a)[s] + Column(u, a)[s]
    BY <1>2 DEF Column
  <2>3. Count(Column(Plus(t, u), a)) = Count(Column(t, a)) + Count(Column(u, a))
    BY <2>1, <2>2, SourcesFinite, CountPlus
  <2>4. QED
    BY <1>3, <2>3, SumMeans
<1>6. QED
  BY <1>3, <1>4, <1>5

(* How often the orders hold an asset, when their allocations are al. *)
Held(al, a) == [o \in Orders |-> Sum(al[o])[a]]
HoldersIn(al, a) == Count(Held(al, a))

LEMMA HoldersMeans ==
  ASSUME NEW al \in [Orders -> PerSource], NEW a \in Assets
  PROVE  /\ Held(al, a) \in [Orders -> Nat] /\ HoldersIn(al, a) \in Nat
         /\ \A o \in Orders : Sum(al[o])[a] <= HoldersIn(al, a)
<1>1. \A o \in Orders : al[o] \in PerSource
  OBVIOUS
<1>2. \A o \in Orders : Sum(al[o])[a] \in Nat
  BY <1>1, SumMeans
<1>3. Held(al, a) \in [Orders -> Nat] /\ \A o \in Orders : Held(al, a)[o] = Sum(al[o])[a]
  BY <1>2 DEF Held
<1>4. HoldersIn(al, a) \in Nat
  BY <1>3, StockFinite, UnitsFinite DEF HoldersIn
<1>5. \A o \in Orders : Held(al, a)[o] <= Count(Held(al, a))
  BY <1>3, StockFinite, CountBounds
<1>6. QED
  BY <1>3, <1>4, <1>5 DEF HoldersIn

LEMMA HoldersNone ==
  ASSUME NEW al \in [Orders -> PerSource], NEW a \in Assets, \A o \in Orders : Sum(al[o])[a] = 0
  PROVE  HoldersIn(al, a) = 0
<1>1. Held(al, a) \in [Orders -> Nat]
  BY HoldersMeans
<1>2. \A o \in Orders : Held(al, a)[o] = 0
  BY DEF Held
<1>3. QED
  BY <1>1, <1>2, CountZero DEF HoldersIn

LEMMA HoldersChange ==
  ASSUME NEW al \in [Orders -> PerSource], NEW bl \in [Orders -> PerSource], NEW a \in Assets,
         NEW o \in Orders, \A p \in Orders \ {o} : bl[p] = al[p]
  PROVE  HoldersIn(bl, a) + Sum(al[o])[a] = HoldersIn(al, a) + Sum(bl[o])[a]
<1>1. Held(al, a) \in [Orders -> Nat] /\ Held(bl, a) \in [Orders -> Nat]
  BY HoldersMeans
<1>2. \A p \in Orders \ {o} : Held(bl, a)[p] = Held(al, a)[p]
  BY DEF Held
<1>3. Count(Held(bl, a)) + Held(al, a)[o] = Count(Held(al, a)) + Held(bl, a)[o]
  BY <1>1, <1>2, StockFinite, CountUpdate
<1>4. Held(al, a)[o] = Sum(al[o])[a] /\ Held(bl, a)[o] = Sum(bl[o])[a]
  BY DEF Held
<1>5. QED
  BY <1>3, <1>4 DEF HoldersIn

LEMMA HoldersNow ==
  ASSUME NEW a \in Assets
  PROVE  Holders(a) = HoldersIn(alloc, a)
BY DEF Holders, HoldersIn, Held

LEMMA HoldersNext ==
  ASSUME NEW a \in Assets
  PROVE  Holders(a)' = HoldersIn(alloc', a)
BY DEF Holders, HoldersIn, Held, Sum, Count, Units

-----------------------------------------------------------------------------
(* The invariant, order by order. *)

OrderRow == [status: OrderStatus, partial: BOOLEAN, served: SUBSET Sources, chosen: SUBSET Assets]

QuotaOf(o) ==
  \A s \in Sources : Total(alloc[o][s]) + Total(tx[o].takes[s]) <= Quantity[s]

CompletedFits(o) ==
  o \notin removed /\ order[o].status = "completed" =>
    IF o \in AssignmentOrders THEN Total(alloc[o][Staff]) >= 1
    ELSE /\ \E s \in Sources : Served(o, s)
         /\ o \in StrictOrders => \A s \in SourcesOf(o) \cap Required : Served(o, s)

LocalFits(o) == OrderFits(o) /\ QuotaOf(o) /\ CompletedFits(o)

LEMMA InvMeans ==
  DeliveryInv <=> /\ DeliveryTypeOK /\ OwnerTakes /\ PageFits
                  /\ \A a \in Assets : StockFits(a)
                  /\ \A o \in Orders : LocalFits(o)
<1>1. QuotaFits <=> \A o \in Orders : QuotaOf(o)
  BY DEF QuotaFits, QuotaOf
<1>2. CompletedIsDelivered <=> \A o \in Orders : CompletedFits(o)
  BY DEF CompletedIsDelivered, CompletedFits
<1>3. QED
  BY <1>1, <1>2 DEF DeliveryInv, LocalFits

LEMMA InvNext ==
  ASSUME DeliveryTypeOK', OwnerTakes', PageFits', \A a \in Assets : StockFits(a)',
         \A o \in Orders : LocalFits(o)'
  PROVE  DeliveryInv'
<1>1. QuotaFits'
  BY DEF QuotaFits, QuotaOf, LocalFits
<1>2. CompletedIsDelivered'
  <2>1. \A o \in Orders : CompletedFits(o)'
    BY DEF LocalFits
  <2>2. QED
    BY <2>1 DEF CompletedIsDelivered, CompletedFits
<1>3. \A o \in Orders : OrderFits(o)'
  BY DEF LocalFits
<1>4. QED
  BY <1>1, <1>2, <1>3 DEF DeliveryInv

LEMMA TypeFacts ==
  ASSUME DeliveryTypeOK, NEW o \in Orders
  PROVE  /\ order[o] \in OrderRow /\ tx[o] \in Transaction
         /\ alloc[o] \in PerSource /\ tx[o].takes \in PerSource
         /\ \A s \in AllSources : /\ Total(alloc[o][s]) \in Nat /\ Total(tx[o].takes[s]) \in Nat
                                  /\ alloc[o][s] \in [Assets -> Nat]
                                  /\ tx[o].takes[s] \in [Assets -> Nat]
         /\ \A a \in Assets : Sum(alloc[o])[a] \in Nat /\ Sum(tx[o].takes)[a] \in Nat
         /\ tx[o].over \in [Assets -> Nat]
<1>1. order[o] \in OrderRow /\ tx[o] \in Transaction /\ alloc[o] \in PerSource
  BY DEF DeliveryTypeOK, OrderRow
<1>2. tx[o].takes \in PerSource /\ tx[o].over \in [Assets -> Nat]
  BY <1>1 DEF Transaction
<1>3. ASSUME NEW s \in AllSources
      PROVE  alloc[o][s] \in [Assets -> Nat] /\ tx[o].takes[s] \in [Assets -> Nat]
  BY <1>1, <1>2 DEF PerSource, AllSources
<1>4. QED
  BY <1>1, <1>2, <1>3, TotalType, SumMeans

LEMMA TypeFactsNext ==
  ASSUME DeliveryTypeOK', NEW o \in Orders
  PROVE  /\ order'[o] \in OrderRow /\ tx'[o] \in Transaction
         /\ alloc'[o] \in PerSource /\ tx'[o].takes \in PerSource
         /\ \A s \in AllSources : /\ Total(alloc'[o][s]) \in Nat /\ Total(tx'[o].takes[s]) \in Nat
                                  /\ alloc'[o][s] \in [Assets -> Nat]
                                  /\ tx'[o].takes[s] \in [Assets -> Nat]
         /\ \A a \in Assets : Sum(alloc'[o])[a] \in Nat /\ Sum(tx'[o].takes)[a] \in Nat
         /\ tx'[o].over \in [Assets -> Nat]
<1>1. order'[o] \in OrderRow /\ tx'[o] \in Transaction /\ alloc'[o] \in PerSource
  BY DEF DeliveryTypeOK, OrderRow
<1>2. tx'[o].takes \in PerSource /\ tx'[o].over \in [Assets -> Nat]
  BY <1>1 DEF Transaction
<1>3. ASSUME NEW s \in AllSources
      PROVE  alloc'[o][s] \in [Assets -> Nat] /\ tx'[o].takes[s] \in [Assets -> Nat]
  BY <1>1, <1>2 DEF PerSource, AllSources
<1>4. QED
  BY <1>1, <1>2, <1>3, TotalType, SumMeans

LEMMA OrderFrame ==
  ASSUME NEW o \in Orders, LocalFits(o), order'[o] = order[o], tx'[o] = tx[o],
         alloc'[o] = alloc[o], clients'[o] = clients[o], o \in removed => o \in removed'
  PROVE  LocalFits(o)'
<1>1. \A s : Served(o, s)' <=> Served(o, s)
  BY DEF Served, Total
<1>2. \A s : WillBeServed(o, s)' <=> WillBeServed(o, s)
  BY DEF WillBeServed, Total
<1>3. QuotaOf(o)'
  BY DEF LocalFits, QuotaOf, Total
<1>4. NoneForgotten(o) <=> NoneForgotten(o)'
  BY DEF NoneForgotten, SourcesOf, Elements
<1>5. CompletedFits(o)'
  BY <1>1 DEF LocalFits, CompletedFits, Total, SourcesOf, Elements, Sources
<1>6. OrderFits(o)'
  BY <1>1, <1>2, <1>4 DEF LocalFits, OrderFits, Total
<1>7. QED
  BY <1>3, <1>5, <1>6 DEF LocalFits

(* A step of one order leaves the others as they are. *)
LEMMA OneOrder ==
  ASSUME DeliveryInv, NEW o \in Orders,
         \A p \in Orders \ {o} : /\ order'[p] = order[p] /\ tx'[p] = tx[p]
                                 /\ alloc'[p] = alloc[p] /\ clients'[p] = clients[p],
         removed \subseteq removed',
         DeliveryTypeOK', OwnerTakes', PageFits', \A a \in Assets : StockFits(a)', LocalFits(o)'
  PROVE  DeliveryInv'
<1>1. ASSUME NEW p \in Orders PROVE LocalFits(p)'
  <2>1. CASE p = o
    BY <2>1
  <2>2. CASE p # o
    <3>1. LocalFits(p)
      BY InvMeans
    <3>2. QED
      BY <2>2, <3>1, OrderFrame
  <2>3. QED
    BY <2>1, <2>2
<1>2. QED
  BY <1>1, InvNext

(* A step that touches no order. *)
LEMMA NoOrderStep ==
  ASSUME DeliveryInv, UNCHANGED <<order, tx, alloc, clients, removed>>,
         DeliveryTypeOK', OwnerTakes', PageFits', \A a \in Assets : StockFits(a)'
  PROVE  DeliveryInv'
<1>1. ASSUME NEW p \in Orders PROVE LocalFits(p)'
  <2>1. LocalFits(p)
    BY InvMeans
  <2>2. QED
    BY <2>1, OrderFrame
<1>2. QED
  BY <1>1, InvNext

(* n allocations of a, of which b are past the limit, leave room for what  *)
(* the transaction q has taken.                                            *)
UnderCeiling(n, b, a) == n <= AllocationLimit + b[a]
RoomFor(n, b, q, a) == n + Sum(q.takes)[a] <= AllocationLimit + b[a] + q.over[a]

LEMMA StockNext ==
  ASSUME NEW a \in Assets,
         asset'[a].status = "none" => asset'[a].used = 0 /\ a \notin miscounted',
         a \notin miscounted' => asset'[a].used = HoldersIn(alloc', a),
         a \notin reopened' \cup miscounted' => (asset'[a].status = "available" => asset'[a].used = 0),
         a \notin reopened' \cup miscounted' =>
           /\ UnderCeiling(HoldersIn(alloc', a), beyond', a)
           /\ \A o \in Orders : RoomFor(HoldersIn(alloc', a), beyond', tx'[o], a)
  PROVE  StockFits(a)'
<1>1. Holders(a)' = HoldersIn(alloc', a)
  BY HoldersNext
<1>2. ASSUME a \notin reopened' \cup miscounted', NEW o \in Orders
      PROVE  (Holders(a) + Sum(tx[o].takes)[a] <= Ceiling(a) + tx[o].over[a])'
  <2>1. RoomFor(Holders(a)', beyond', tx'[o], a)
    BY <1>1, <1>2
  <2>2. QED
    BY <2>1 DEF RoomFor, Ceiling, Sum, AllocationLimit, Count, Units
<1>3. ASSUME a \notin reopened' \cup miscounted' PROVE (Holders(a) <= Ceiling(a))'
  <2>1. UnderCeiling(Holders(a)', beyond', a)
    BY <1>1, <1>3
  <2>2. QED
    BY <2>1 DEF UnderCeiling, Ceiling, AllocationLimit
<1>4. QED
  BY <1>1, <1>2, <1>3 DEF StockFits

LEMMA StockNow ==
  ASSUME DeliveryInv, NEW a \in Assets
  PROVE  /\ StockFits(a) /\ asset[a].used \in Nat /\ HoldersIn(alloc, a) \in Nat
         /\ beyond[a] \in Nat
         /\ asset[a].status = "none" => asset[a].used = 0 /\ a \notin miscounted
         /\ a \notin miscounted => asset[a].used = HoldersIn(alloc, a)
         /\ a \notin reopened \cup miscounted =>
              /\ asset[a].status = "available" => asset[a].used = 0
              /\ UnderCeiling(HoldersIn(alloc, a), beyond, a)
              /\ \A o \in Orders : RoomFor(HoldersIn(alloc, a), beyond, tx[o], a)
<1>1. HoldersIn(alloc, a) \in Nat /\ asset[a].used \in Nat /\ beyond[a] \in Nat
  BY HoldersMeans DEF DeliveryTypeOK, DeliveryInv, AssetRow
<1>2. StockFits(a)
  BY DEF DeliveryInv
<1>3. a \notin reopened \cup miscounted =>
        /\ UnderCeiling(HoldersIn(alloc, a), beyond, a)
        /\ \A o \in Orders : RoomFor(HoldersIn(alloc, a), beyond, tx[o], a)
  BY <1>2, HoldersNow DEF StockFits, Ceiling, UnderCeiling, RoomFor
<1>4. QED
  BY <1>1, <1>2, <1>3, HoldersNow DEF StockFits

(* The same in numbers. *)
LEMMA RoomMeans ==
  ASSUME DeliveryInv, NEW a \in Assets, a \notin reopened \cup miscounted, NEW o \in Orders
  PROVE  /\ HoldersIn(alloc, a) \in Nat /\ AllocationLimit \in Nat /\ beyond[a] \in Nat
         /\ Sum(tx[o].takes)[a] \in Nat /\ tx[o].over[a] \in Nat
         /\ HoldersIn(alloc, a) <= AllocationLimit + beyond[a]
         /\ HoldersIn(alloc, a) + Sum(tx[o].takes)[a] <= AllocationLimit + beyond[a] + tx[o].over[a]
<1>1. /\ HoldersIn(alloc, a) \in Nat /\ AllocationLimit \in Nat /\ beyond[a] \in Nat
      /\ Sum(tx[o].takes)[a] \in Nat /\ tx[o].over[a] \in Nat
  BY StockNow, Limit, TypeFacts DEF DeliveryInv
<1>2. UnderCeiling(HoldersIn(alloc, a), beyond, a) /\ RoomFor(HoldersIn(alloc, a), beyond, tx[o], a)
  BY StockNow
<1>3. QED
  BY <1>1, <1>2 DEF UnderCeiling, RoomFor

LEMMA ClosedType ==
  /\ Closed \in Transaction
  /\ ~Closed.open /\ Closed.todo = <<>> /\ ~Closed.fellBack /\ Closed.ok = {} /\ Closed.failed = {}
  /\ Closed.takes = Nothing /\ Closed.over = [a \in Assets |-> 0]
BY NothingType DEF Closed, Transaction

LEMMA DeliveryInitial == DeliveryInit => DeliveryInv
<1> SUFFICES ASSUME DeliveryInit PROVE DeliveryInv
  OBVIOUS
<1>1. DeliveryTypeOK
  <2>1. order \in [Orders -> [status: OrderStatus, partial: BOOLEAN, served: SUBSET Sources,
                              chosen: SUBSET Assets]]
    BY DEF DeliveryInit, OrderStatus
  <2>2. asset \in [Assets -> AssetRow] /\ clients \in [Orders -> SUBSET PanelSources]
    BY DEF DeliveryInit, AssetRow
  <2>3. alloc \in [Orders -> PerSource] /\ tx \in [Orders -> Transaction]
        /\ beyond \in [Assets -> Nat]
    BY NothingType, ClosedType DEF DeliveryInit
  <2>4. QED
    BY <2>1, <2>2, <2>3, DeliveryAssumption DEF DeliveryTypeOK, DeliveryInit, NoPage
<1>2. OwnerTakes /\ PageFits
  BY ClosedType, DeliveryAssumption DEF OwnerTakes, PageFits, DeliveryInit, NoPage
<1>3. ASSUME NEW a \in Assets PROVE StockFits(a)
  <2>1. \A o \in Orders : Sum(alloc[o])[a] = 0 /\ Sum(tx[o].takes)[a] = 0
    BY SumNothing, ClosedType DEF DeliveryInit
  <2>2. HoldersIn(alloc, a) = 0
    BY <1>1, <2>1, HoldersNone DEF DeliveryTypeOK
  <2>3. beyond[a] = 0 /\ \A o \in Orders : tx[o].over[a] = 0
    BY ClosedType DEF DeliveryInit
  <2>4. QED
    BY <2>1, <2>2, <2>3, HoldersNow, Limit DEF StockFits, Ceiling, DeliveryInit
<1>4. ASSUME NEW o \in Orders PROVE LocalFits(o)
  <2>1. alloc[o] = Nothing /\ tx[o].takes = Nothing /\ ~tx[o].open
    BY ClosedType DEF DeliveryInit
  <2>2. \A s \in AllSources : Total(alloc[o][s]) = 0 /\ Total(tx[o].takes[s]) = 0
    BY <2>1, NothingType
  <2>3. QuotaOf(o)
    <3>1. \A s \in Sources : Quantity[s] \in Nat
      BY DeliveryAssumption
    <3>2. QED
      BY <2>2, <3>1 DEF QuotaOf, AllSources
  <2>4. order[o].status \in {"none", "paid"} /\ order[o].served = {} /\ order[o].chosen = {}
        /\ (order[o].status = "none" => o \in AssignmentOrders)
    BY DEF DeliveryInit
  <2>5. OrderFits(o)
    BY <2>1, <2>2, <2>4 DEF OrderFits, AllSources
  <2>6. CompletedFits(o)
    BY <2>4 DEF CompletedFits
  <2>7. QED
    BY <2>3, <2>5, <2>6 DEF LocalFits
<1>5. QED
  BY <1>1, <1>2, <1>3, <1>4, InvMeans

-----------------------------------------------------------------------------
(* The steps that touch no order. *)

LEMMA OwnerFrame ==
  ASSUME OwnerTakes, tx' = tx, poolOwner' = poolOwner
  PROVE  OwnerTakes'
BY DEF OwnerTakes

LEMMA ImportKeeps ==
  ASSUME DeliveryInv, NEW a \in Assets, ImportAsset(a)
  PROVE  DeliveryInv'
<1>1. /\ asset' \in [Assets -> AssetRow] /\ asset'[a] = [status |-> "available", used |-> 0]
      /\ \A b \in Assets \ {a} : asset'[b] = asset[b]
  BY DEF ImportAsset, DeliveryInv, DeliveryTypeOK, AssetRow
<1>2. DeliveryTypeOK'
  BY <1>1 DEF ImportAsset, DeliveryInv, DeliveryTypeOK
<1>3. OwnerTakes'
  BY OwnerFrame DEF ImportAsset, DeliveryInv
<1>4. PageFits'
  BY <1>1 DEF ImportAsset, DeliveryInv, PageFits, DeliveryTypeOK
<1>5. ASSUME NEW b \in Assets PROVE StockFits(b)'
  <2>1. HoldersIn(alloc', b) = HoldersIn(alloc, b)
    BY DEF ImportAsset
  <2>2. CASE b = a
    <3>1. asset[a].used = 0 /\ a \notin miscounted
      BY StockNow DEF ImportAsset
    <3>2. QED
      BY <1>1, <2>1, <2>2, <3>1, StockNow, StockNext DEF ImportAsset
  <2>3. CASE b # a
    BY <1>1, <2>1, <2>3, StockNow, StockNext DEF ImportAsset
  <2>4. QED
    BY <2>2, <2>3
<1>6. QED
  BY <1>2, <1>3, <1>4, <1>5, NoOrderStep DEF ImportAsset

LEMMA ShowKeeps ==
  ASSUME DeliveryInv, NEW a \in Assets, ShowAsset(a)
  PROVE  DeliveryInv'
<1>1. PICK status \in {asset[a].status, "available", "disabled"} :
        page' = [NoPage EXCEPT !.asset = {a}, !.status = status]
  BY DEF ShowAsset
<1>2. status \in {"available", "assigned", "disabled"}
  BY <1>1 DEF ShowAsset, DeliveryInv, DeliveryTypeOK, AssetRow
<1>3. page' = [asset |-> {a}, status |-> status, posted |-> FALSE, used |-> 0]
  BY <1>1 DEF NoPage
<1>4. edits' \in 0..MaxEdits
  BY DeliveryAssumption DEF ShowAsset, DeliveryInv, DeliveryTypeOK
<1>5. DeliveryTypeOK'
  BY <1>2, <1>3, <1>4 DEF ShowAsset, DeliveryInv, DeliveryTypeOK
<1>6. OwnerTakes'
  BY OwnerFrame DEF ShowAsset, DeliveryInv
<1>7. PageFits'
  BY <1>2, <1>3 DEF ShowAsset, PageFits
<1>8. ASSUME NEW b \in Assets PROVE StockFits(b)'
  BY StockNow, StockNext DEF ShowAsset
<1>9. QED
  BY <1>5, <1>6, <1>7, <1>8, NoOrderStep DEF ShowAsset

LEMMA PostKeeps ==
  ASSUME DeliveryInv, NEW a \in Assets, PostAsset(a)
  PROVE  DeliveryInv'
<1>1. /\ page' \in [asset: SUBSET Assets, status: {"none", "available", "assigned", "disabled"},
                    posted: BOOLEAN, used: Nat]
      /\ page'.asset = page.asset /\ page'.status = page.status
  BY StockNow DEF PostAsset, DeliveryInv, DeliveryTypeOK
<1>2. DeliveryTypeOK'
  BY <1>1 DEF PostAsset, DeliveryInv, DeliveryTypeOK
<1>3. OwnerTakes'
  BY OwnerFrame DEF PostAsset, DeliveryInv
<1>4. PageFits'
  BY <1>1 DEF PostAsset, DeliveryInv, PageFits
<1>5. ASSUME NEW b \in Assets PROVE StockFits(b)'
  BY StockNow, StockNext DEF PostAsset
<1>6. QED
  BY <1>2, <1>3, <1>4, <1>5, NoOrderStep DEF PostAsset

LEMMA SaveKeeps ==
  ASSUME DeliveryInv, NEW a \in Assets, SaveAsset(a)
  PROVE  DeliveryInv'
<1>1. page.status \in {"available", "assigned", "disabled"} /\ page.used \in Nat
  BY DEF SaveAsset, DeliveryInv, DeliveryTypeOK, PageFits
<1>2. /\ asset' \in [Assets -> AssetRow] /\ asset'[a] = [status |-> page.status, used |-> page.used]
      /\ \A b \in Assets \ {a} : asset'[b] = asset[b]
  BY <1>1 DEF SaveAsset, DeliveryInv, DeliveryTypeOK, AssetRow
<1>3. /\ reopened \subseteq reopened' /\ reopened' \subseteq reopened \cup {a}
      /\ miscounted \subseteq miscounted' /\ miscounted' \subseteq miscounted \cup {a}
      /\ asset[a].used > 0 /\ page.status = "available" => a \in reopened'
      /\ page.used # asset[a].used => a \in miscounted'
  BY DEF SaveAsset
<1>4. DeliveryTypeOK'
  <2>1. page' \in [asset: SUBSET Assets, status: {"none", "available", "assigned", "disabled"},
                   posted: BOOLEAN, used: Nat]
    BY DEF SaveAsset, NoPage
  <2>2. reopened' \subseteq Assets /\ miscounted' \subseteq Assets
    BY <1>3 DEF DeliveryInv, DeliveryTypeOK
  <2>3. QED
    BY <1>2, <2>1, <2>2 DEF SaveAsset, DeliveryInv, DeliveryTypeOK
<1>5. OwnerTakes'
  BY OwnerFrame DEF SaveAsset, DeliveryInv
<1>6. PageFits'
  BY DEF SaveAsset, PageFits, NoPage
<1>7. ASSUME NEW b \in Assets PROVE StockFits(b)'
  <2>1. HoldersIn(alloc', b) = HoldersIn(alloc, b) /\ tx' = tx /\ beyond' = beyond
    BY DEF SaveAsset
  <2>2. CASE b = a
    <3>1. asset'[a].status # "none"
      BY <1>1, <1>2
    <3>2. a \notin miscounted' => asset'[a].used = asset[a].used /\ a \notin miscounted
      BY <1>2, <1>3
    <3>3. a \notin reopened' \cup miscounted' => a \notin reopened \cup miscounted
      BY <1>3
    <3>4. ASSUME a \notin reopened' \cup miscounted', asset'[a].status = "available"
          PROVE  asset'[a].used = 0
      <4>1. ~(asset[a].used > 0)
        BY <1>2, <1>3, <3>4
      <4>2. asset[a].used \in Nat
        BY StockNow
      <4>3. QED
        BY <3>2, <3>4, <4>1, <4>2
    <3>5. a \notin miscounted' => asset'[a].used = HoldersIn(alloc', a)
      BY <2>1, <2>2, <3>2, StockNow
    <3>6. a \notin reopened' \cup miscounted' =>
            /\ UnderCeiling(HoldersIn(alloc', a), beyond', a)
            /\ \A o \in Orders : RoomFor(HoldersIn(alloc', a), beyond', tx'[o], a)
      BY <2>1, <2>2, <3>3, StockNow
    <3>7. QED
      BY <2>2, <3>1, <3>4, <3>5, <3>6, StockNext
  <2>3. CASE b # a
    <3>1. (b \in miscounted' <=> b \in miscounted) /\ (b \in reopened' <=> b \in reopened)
      BY <1>3, <2>3
    <3>2. QED
      BY <1>2, <2>1, <2>3, <3>1, StockNow, StockNext
  <2>4. QED
    BY <2>2, <2>3
<1>8. QED
  BY <1>4, <1>5, <1>6, <1>7, NoOrderStep DEF SaveAsset

LEMMA DeliveryStuttering ==
  ASSUME DeliveryInv, UNCHANGED deliveryVars
  PROVE  DeliveryInv'
<1>1. DeliveryTypeOK' /\ PageFits'
  BY DEF deliveryVars, DeliveryInv, DeliveryTypeOK, PageFits
<1>2. OwnerTakes'
  BY OwnerFrame DEF deliveryVars, DeliveryInv
<1>3. ASSUME NEW b \in Assets PROVE StockFits(b)'
  BY StockNow, StockNext DEF deliveryVars
<1>4. QED
  BY <1>1, <1>2, <1>3, NoOrderStep DEF deliveryVars

-----------------------------------------------------------------------------
(* The steps of a transaction. *)

LEMMA TailElements ==
  ASSUME NEW S, NEW q \in Seq(S), q # <<>>
  PROVE  Tail(q) \in Seq(S) /\ Elements(q) \subseteq {Head(q)} \cup Elements(Tail(q))
<1>1. /\ Len(q) \in Nat /\ Len(q) # 0 /\ Tail(q) \in Seq(S) /\ Len(Tail(q)) = Len(q) - 1
      /\ Head(q) = q[1] /\ \A i \in 1..(Len(q) - 1) : Tail(q)[i] = q[i + 1]
  OBVIOUS
<1>2. ASSUME NEW i \in 1..Len(q) PROVE q[i] \in {Head(q)} \cup Elements(Tail(q))
  <2>1. CASE i = 1
    BY <1>1, <2>1
  <2>2. CASE i # 1
    <3>1. i - 1 \in 1..(Len(q) - 1) /\ (i - 1) + 1 = i
      BY <1>1, <2>2
    <3>2. Tail(q)[i - 1] = q[i]
      BY <1>1, <3>1
    <3>3. QED
      BY <1>1, <3>1, <3>2 DEF Elements
  <2>3. QED
    BY <2>1, <2>2
<1>3. QED
  BY <1>1, <1>2 DEF Elements

LEMMA TxChanges ==
  ASSUME DeliveryTypeOK, NEW o \in Orders, NEW q \in Transaction, tx' = [tx EXCEPT ![o] = q]
  PROVE  /\ tx' \in [Orders -> Transaction] /\ tx'[o] = q
         /\ \A p \in Orders \ {o} : tx'[p] = tx[p]
BY DEF DeliveryTypeOK

LEMMA SucceedsMeans ==
  ASSUME DeliveryTypeOK, NEW o \in Orders, NEW s \in Sources, NEW t \in PerSource,
         NEW v \in [Assets -> Nat], tx[o].todo # <<>>, Succeeds(o, s, t, v)
  PROVE  /\ tx' \in [Orders -> Transaction] /\ \A p \in Orders \ {o} : tx'[p] = tx[p]
         /\ tx'[o].open = tx[o].open /\ tx'[o].todo = Tail(tx[o].todo)
         /\ tx'[o].ok = tx[o].ok \cup {s} /\ tx'[o].failed = tx[o].failed /\ tx'[o].takes = t
         /\ tx'[o].over = v
<1>1. tx[o] \in Transaction
  BY TypeFacts
<1>2. tx[o].todo \in Seq(Sources) /\ Tail(tx[o].todo) \in Seq(Sources)
  BY <1>1, TailElements DEF Transaction
<1> DEFINE q == [tx[o] EXCEPT !.todo = Tail(@), !.ok = @ \cup {s}, !.takes = t, !.over = v]
<1>3. /\ q \in Transaction /\ q.open = tx[o].open /\ q.todo = Tail(tx[o].todo)
      /\ q.ok = tx[o].ok \cup {s} /\ q.failed = tx[o].failed /\ q.takes = t /\ q.over = v
  BY <1>1, <1>2 DEF Transaction
<1>4. tx' = [tx EXCEPT ![o] = q]
  BY DEF Succeeds
<1> HIDE DEF q
<1>5. QED
  BY <1>3, <1>4, TxChanges

LEMMA FailsMeans ==
  ASSUME DeliveryTypeOK, NEW o \in Orders, NEW s \in Sources, tx[o].todo # <<>>, Fails(o, s)
  PROVE  /\ tx' \in [Orders -> Transaction] /\ \A p \in Orders \ {o} : tx'[p] = tx[p]
         /\ tx'[o].open = tx[o].open
         /\ tx'[o].todo = IF Ends(o, s) THEN <<>> ELSE Tail(tx[o].todo)
         /\ tx'[o].ok = tx[o].ok /\ tx'[o].failed = tx[o].failed \cup {s}
         /\ tx'[o].takes = tx[o].takes /\ tx'[o].over = tx[o].over
<1>1. tx[o] \in Transaction
  BY TypeFacts
<1>2. PICK d \in Seq(Sources) : d = IF Ends(o, s) THEN <<>> ELSE Tail(tx[o].todo)
  <2>1. <<>> \in Seq(Sources)
    OBVIOUS
  <2>2. Tail(tx[o].todo) \in Seq(Sources)
    BY <1>1, TailElements DEF Transaction
  <2>3. QED
    BY <2>1, <2>2
<1> DEFINE q == [tx[o] EXCEPT !.todo = d, !.failed = @ \cup {s}]
<1>3. /\ q \in Transaction /\ q.open = tx[o].open /\ q.todo = d
      /\ q.ok = tx[o].ok /\ q.failed = tx[o].failed \cup {s} /\ q.takes = tx[o].takes
      /\ q.over = tx[o].over
  BY <1>1, <1>2 DEF Transaction
<1>4. tx' = [tx EXCEPT ![o] = q]
  BY <1>2 DEF Fails
<1> HIDE DEF q
<1>5. QED
  BY <1>2, <1>3, <1>4, TxChanges

LEMMA ForgottenNext ==
  ASSUME DeliveryInv, NEW o \in Orders, NEW s \in Sources, Current(o, s),
         tx'[o].todo = Tail(tx[o].todo) \/ (Ends(o, s) /\ s \in tx'[o].failed),
         tx[o].ok \subseteq tx'[o].ok, tx[o].failed \subseteq tx'[o].failed,
         s \in tx'[o].ok \cup tx'[o].failed
  PROVE  NoneForgotten(o)'
<1>1. NoneForgotten(o)
  BY InvMeans DEF Current, LocalFits, OrderFits
<1>2. Elements(tx[o].todo) \subseteq {s} \cup Elements(Tail(tx[o].todo))
  <2>1. tx[o].todo \in Seq(Sources)
    BY TypeFacts DEF Transaction, DeliveryInv
  <2>2. QED
    BY <2>1, TailElements DEF Current
<1>3. CASE tx'[o].todo = Tail(tx[o].todo)
  <2>1. CASE o \in StrictOrders /\ tx[o].failed \cap Required # {}
    <3>1. o \in StrictOrders /\ tx'[o].failed \cap Required # {}
      BY <2>1
    <3>2. QED
      BY <3>1 DEF NoneForgotten
  <2>2. CASE SourcesOf(o) \subseteq tx[o].ok \cup tx[o].failed \cup Elements(tx[o].todo)
    <3>1. SourcesOf(o) \subseteq tx'[o].ok \cup tx'[o].failed \cup Elements(Tail(tx[o].todo))
      BY <1>2, <2>2
    <3>2. SourcesOf(o) \subseteq tx'[o].ok \cup tx'[o].failed \cup Elements(tx'[o].todo)
      BY <1>3, <3>1
    <3>3. QED
      BY <3>2 DEF NoneForgotten, SourcesOf, Elements
  <2>3. QED
    BY <1>1, <2>1, <2>2 DEF NoneForgotten
<1>4. CASE Ends(o, s) /\ s \in tx'[o].failed
  <2>1. o \in StrictOrders /\ tx'[o].failed \cap Required # {}
    BY <1>4 DEF Ends
  <2>2. QED
    BY <2>1 DEF NoneForgotten
<1>5. QED
  BY <1>3, <1>4

(* A step that changes an order's transaction, and perhaps its clients. *)
LEMMA TxLocal ==
  ASSUME DeliveryInv, NEW o \in Orders, order'[o] = order[o], alloc'[o] = alloc[o],
         clients[o] \subseteq clients'[o], removed' = removed,
         \A s \in Sources : Total(alloc[o][s]) + Total(tx'[o].takes[s]) <= Quantity[s],
         tx'[o].open => /\ o \notin AssignmentOrders /\ NoneForgotten(o)'
                        /\ o \notin removed => \A s \in tx'[o].ok : WillBeServed(o, s)'
  PROVE  LocalFits(o)'
<1>1. LocalFits(o)
  BY InvMeans
<1>2. \A s : Served(o, s) => Served(o, s)'
  BY DEF Served, Total
<1>3. QuotaOf(o)'
  BY DEF QuotaOf, Total
<1>4. CompletedFits(o)'
  BY <1>1, <1>2 DEF LocalFits, CompletedFits, Total, SourcesOf, Elements, Sources
<1>5. OrderFits(o)'
  <2>1. OrderFits(o)
    BY <1>1 DEF LocalFits
  <2>2. o \in AssignmentOrders => ~tx'[o].open
    OBVIOUS
  <2>3. (Total(alloc[o][Staff]) = 0)' <=> Total(alloc[o][Staff]) = 0
    BY DEF Total
  <2>4. o \notin removed => \A s \in order[o].served : Served(o, s)'
    BY <1>2, <2>1 DEF OrderFits
  <2>5. QED
    BY <2>1, <2>2, <2>3, <2>4 DEF OrderFits
<1>6. QED
  BY <1>3, <1>4, <1>5 DEF LocalFits

LEMMA StockKept ==
  ASSUME DeliveryInv, NEW o \in Orders, asset' = asset, alloc' = alloc,
         reopened' = reopened, miscounted' = miscounted, beyond' = beyond,
         \A p \in Orders \ {o} : tx'[p] = tx[p],
         \/ tx'[o].takes = tx[o].takes /\ tx'[o].over = tx[o].over
         \/ tx'[o].takes = Nothing /\ tx'[o].over \in [Assets -> Nat]
  PROVE  \A a \in Assets : StockFits(a)'
<1>1. ASSUME NEW a \in Assets PROVE StockFits(a)'
  <2>1. ASSUME NEW p \in Orders, a \notin reopened \cup miscounted
        PROVE  RoomFor(HoldersIn(alloc, a), beyond, tx'[p], a)
    <3>1. RoomFor(HoldersIn(alloc, a), beyond, tx[p], a)
      BY <2>1, StockNow
    <3>2. CASE tx'[p].takes = tx[p].takes /\ tx'[p].over = tx[p].over
      BY <3>1, <3>2 DEF RoomFor
    <3>3. CASE tx'[p].takes = Nothing /\ tx'[p].over \in [Assets -> Nat]
      <4>1. Sum(tx'[p].takes)[a] = 0
        BY <3>3, SumNothing
      <4>2. PICK n \in Nat, l \in Nat, b \in Nat :
              n = HoldersIn(alloc, a) /\ l = AllocationLimit /\ b = beyond[a] /\ n <= l + b
        BY <2>1, RoomMeans
      <4>3. PICK w \in Nat : w = tx'[p].over[a]
        BY <3>3
      <4>4. n + 0 <= l + b + w
        BY <4>2
      <4>5. QED
        BY <4>1, <4>2, <4>3, <4>4 DEF RoomFor
    <3>4. QED
      BY <3>2, <3>3
  <2>2. QED
    BY <2>1, StockNow, StockNext
<1>2. QED
  BY <1>1

LEMMA OwnerIsOpen ==
  ASSUME DeliveryInv, NEW o \in Orders
  PROVE  /\ o # poolOwner => tx[o].takes = Nothing
         /\ o = poolOwner => tx[o].open
         /\ ~tx[o].open => tx[o].takes = Nothing /\ o # poolOwner
BY DEF DeliveryInv, OwnerTakes

LEMMA QuotaNow ==
  ASSUME DeliveryInv, NEW o \in Orders, NEW s \in Sources
  PROVE  /\ Quantity[s] \in Nat /\ Total(alloc[o][s]) \in Nat /\ Total(tx[o].takes[s]) \in Nat
         /\ Total(alloc[o][s]) + Total(tx[o].takes[s]) <= Quantity[s]
         /\ Total(alloc[o][s]) + Total(Nothing[s]) <= Quantity[s]
<1>1. Quantity[s] \in Nat
  BY DeliveryAssumption
<1>2. s \in AllSources
  BY DEF AllSources
<1>3. Total(alloc[o][s]) \in Nat /\ Total(tx[o].takes[s]) \in Nat
  BY <1>2, TypeFacts DEF DeliveryInv
<1>4. Total(alloc[o][s]) + Total(tx[o].takes[s]) <= Quantity[s]
  BY DEF DeliveryInv, QuotaFits
<1>5. Total(Nothing[s]) = 0
  BY <1>2, NothingType
<1>6. QED
  BY <1>1, <1>3, <1>4, <1>5

LEMMA BeginKeeps ==
  ASSUME DeliveryInv, NEW o \in Orders, BeginDelivery(o)
  PROVE  DeliveryInv'
<1>1. PICK d \in Seq(Sources) : d = IF o \in DeliveryOrders THEN Primary ELSE Rules
  BY DeliveryAssumption
<1> DEFINE q == [Closed EXCEPT !.open = TRUE, !.todo = d]
<1>2. /\ q \in Transaction /\ q.todo = d /\ q.ok = {} /\ q.takes = Nothing
      /\ q.over \in [Assets -> Nat]
  BY ClosedType DEF Transaction
<1>3. tx' = [tx EXCEPT ![o] = q]
  BY <1>1 DEF BeginDelivery
<1> HIDE DEF q
<1>4. /\ tx' \in [Orders -> Transaction] /\ tx'[o] = q /\ \A p \in Orders \ {o} : tx'[p] = tx[p]
  BY <1>2, <1>3, TxChanges DEF DeliveryInv
<1>5. DeliveryTypeOK'
  BY <1>4 DEF BeginDelivery, DeliveryInv, DeliveryTypeOK
<1>6. OwnerTakes'
  BY <1>2, <1>4, OwnerIsOpen DEF BeginDelivery, OwnerTakes
<1>7. PageFits'
  BY DEF BeginDelivery, DeliveryInv, PageFits
<1>8. \A a \in Assets : StockFits(a)'
  BY <1>2, <1>4, StockKept DEF BeginDelivery
<1>9. NoneForgotten(o)'
  <2>1. o \in RecipeOrders <=> o \notin DeliveryOrders
    BY DeliveryAssumption DEF BeginDelivery, Orders
  <2>2. SourcesOf(o) = Elements(d)
    BY <1>1, <2>1 DEF SourcesOf
  <2>3. SourcesOf(o) \subseteq tx'[o].ok \cup tx'[o].failed \cup Elements(tx'[o].todo)
    BY <1>2, <1>4, <2>2
  <2>4. QED
    BY <2>3 DEF NoneForgotten, SourcesOf, Elements
<1>10. LocalFits(o)'
  <2>1. \A s \in Sources : Total(alloc[o][s]) + Total(tx'[o].takes[s]) <= Quantity[s]
    BY <1>2, <1>4, QuotaNow
  <2>2. \A s \in tx'[o].ok : WillBeServed(o, s)'
    BY <1>2, <1>4
  <2>3. QED
    BY <1>9, <2>1, <2>2, TxLocal DEF BeginDelivery
<1>11. QED
  BY <1>4, <1>5, <1>6, <1>7, <1>8, <1>10, OneOrder DEF BeginDelivery

(* What a source that succeeded will have given stays. *)
LEMMA WillStay ==
  ASSUME DeliveryInv, NEW o \in Orders, tx[o].open, o \notin removed, alloc'[o] = alloc[o],
         clients[o] \subseteq clients'[o], NEW s \in tx[o].ok, tx'[o].takes[s] = tx[o].takes[s]
  PROVE  WillBeServed(o, s)'
<1>1. WillBeServed(o, s)
  BY DEF DeliveryInv, OrderFits
<1>2. QED
  BY <1>1 DEF WillBeServed, Total

LEMMA FallbackKeeps ==
  ASSUME DeliveryInv, NEW o \in Orders, UseFallback(o)
  PROVE  DeliveryInv'
<1> DEFINE q == [tx[o] EXCEPT !.todo = FallbackSources, !.fellBack = TRUE]
<1>1. /\ q \in Transaction /\ q.ok = tx[o].ok /\ q.failed = tx[o].failed /\ q.takes = tx[o].takes
      /\ q.open /\ q.over = tx[o].over
  BY TypeFacts, DeliveryAssumption DEF Transaction, DeliveryInv, UseFallback
<1>2. tx' = [tx EXCEPT ![o] = q]
  BY DEF UseFallback
<1> HIDE DEF q
<1>3. /\ tx' \in [Orders -> Transaction] /\ tx'[o] = q /\ \A p \in Orders \ {o} : tx'[p] = tx[p]
  BY <1>1, <1>2, TxChanges DEF DeliveryInv
<1>4. DeliveryTypeOK'
  BY <1>3 DEF UseFallback, DeliveryInv, DeliveryTypeOK
<1>5. OwnerTakes'
  BY <1>1, <1>3, OwnerIsOpen DEF UseFallback, OwnerTakes
<1>6. PageFits'
  BY DEF UseFallback, DeliveryInv, PageFits
<1>7. \A a \in Assets : StockFits(a)'
  BY <1>1, <1>3, StockKept DEF UseFallback
<1>8. NoneForgotten(o) /\ o \notin AssignmentOrders
  BY DEF DeliveryInv, OrderFits, UseFallback
<1>9. NoneForgotten(o)'
  <2>1. Elements(<<>>) = {}
    BY DEF Elements
  <2>2. \/ o \in StrictOrders /\ tx'[o].failed \cap Required # {}
        \/ SourcesOf(o) \subseteq tx'[o].ok \cup tx'[o].failed \cup Elements(tx'[o].todo)
    BY <1>1, <1>3, <1>8, <2>1 DEF NoneForgotten, UseFallback
  <2>3. QED
    BY <2>2 DEF NoneForgotten, SourcesOf, Elements
<1>10. LocalFits(o)'
  <2>1. \A s \in Sources : Total(alloc[o][s]) + Total(tx'[o].takes[s]) <= Quantity[s]
    BY <1>1, <1>3, QuotaNow
  <2>2. o \notin removed => \A s \in tx'[o].ok : WillBeServed(o, s)'
    BY <1>1, <1>3, WillStay DEF UseFallback
  <2>3. QED
    BY <1>8, <1>9, <2>1, <2>2, TxLocal DEF UseFallback
<1>11. QED
  BY <1>3, <1>4, <1>5, <1>6, <1>7, <1>10, OneOrder DEF UseFallback

LEMMA DiesKeeps ==
  ASSUME DeliveryInv, NEW o \in Orders, DeliveryDies(o)
  PROVE  DeliveryInv'
<1>1. /\ tx' \in [Orders -> Transaction] /\ tx'[o] = Closed
      /\ \A p \in Orders \ {o} : tx'[p] = tx[p]
  BY ClosedType, TxChanges DEF DeliveryInv, DeliveryDies
<1>2. poolOwner' \in Orders \cup {NoOrder} /\ poolOwner' # o
      /\ \A p \in Orders \ {o} : p = poolOwner' <=> p = poolOwner
  BY DeliveryAssumption DEF DeliveryInv, DeliveryTypeOK, DeliveryDies
<1>3. deliveryFaults' \in 0..MaxDeliveryFaults
  BY DeliveryAssumption DEF DeliveryInv, DeliveryTypeOK, DeliveryDies
<1>4. DeliveryTypeOK'
  BY <1>1, <1>2, <1>3 DEF DeliveryDies, DeliveryInv, DeliveryTypeOK
<1>5. OwnerTakes'
  BY <1>1, <1>2, ClosedType, OwnerIsOpen DEF OwnerTakes
<1>6. PageFits'
  BY DEF DeliveryDies, DeliveryInv, PageFits
<1>7. \A a \in Assets : StockFits(a)'
  BY <1>1, ClosedType, StockKept DEF DeliveryDies
<1>8. LocalFits(o)'
  <2>1. \A s \in Sources : Total(alloc[o][s]) + Total(tx'[o].takes[s]) <= Quantity[s]
    BY <1>1, ClosedType, QuotaNow
  <2>2. ~tx'[o].open
    BY <1>1, ClosedType
  <2>3. QED
    BY <2>1, <2>2, TxLocal DEF DeliveryDies
<1>9. QED
  BY <1>1, <1>4, <1>5, <1>6, <1>7, <1>8, OneOrder DEF DeliveryDies

(* A source that is executed: the order's transaction knows of it, and     *)
(* what it will have given is what it says.                                *)
LEMMA SourceLocal ==
  ASSUME DeliveryInv, NEW o \in Orders, NEW s \in Sources, Current(o, s),
         order' = order, alloc' = alloc, removed' = removed, clients[o] \subseteq clients'[o],
         tx'[o].todo = Tail(tx[o].todo) \/ (Ends(o, s) /\ s \in tx'[o].failed),
         tx[o].failed \subseteq tx'[o].failed, tx'[o].ok \in {tx[o].ok, tx[o].ok \cup {s}},
         s \in tx'[o].ok \cup tx'[o].failed,
         \A r \in Sources \ {s} : tx'[o].takes[r] = tx[o].takes[r],
         Total(alloc[o][s]) + Total(tx'[o].takes[s]) <= Quantity[s],
         o \notin removed /\ s \in tx'[o].ok => WillBeServed(o, s)'
  PROVE  LocalFits(o)'
<1>1. tx[o].open /\ o \notin AssignmentOrders
  BY DEF Current, DeliveryInv, OrderFits
<1>2. NoneForgotten(o)'
  BY ForgottenNext
<1>3. ASSUME NEW r \in Sources PROVE Total(alloc[o][r]) + Total(tx'[o].takes[r]) <= Quantity[r]
  <2>1. CASE r = s
    BY <2>1
  <2>2. CASE r # s
    BY <2>2, QuotaNow
  <2>3. QED
    BY <2>1, <2>2
<1>4. ASSUME o \notin removed, NEW r \in tx'[o].ok PROVE WillBeServed(o, r)'
  <2>1. CASE r = s
    BY <1>4, <2>1
  <2>2. CASE r # s
    <3>1. r \in tx[o].ok /\ r \in Sources
      BY <2>2, TypeFacts DEF DeliveryInv, Transaction
    <3>2. QED
      BY <1>1, <1>4, <2>2, <3>1, WillStay
  <2>3. QED
    BY <2>1, <2>2
<1>5. QED
  BY <1>1, <1>2, <1>3, <1>4, TxLocal

LEMMA PanelKeeps ==
  ASSUME DeliveryInv, NEW o \in Orders, NEW s \in Sources, NEW created \in BOOLEAN,
         PanelSource(o, s, created)
  PROVE  DeliveryInv'
<1>1. /\ clients' \in [Orders -> SUBSET PanelSources] /\ clients[o] \subseteq clients'[o]
      /\ \A p \in Orders \ {o} : clients'[p] = clients[p]
      /\ created \/ s \in clients[o] => s \in clients'[o]
  BY DEF PanelSource, DeliveryInv, DeliveryTypeOK
<1>2. tx[o].takes \in PerSource /\ tx[o].todo # <<>> /\ Current(o, s) /\ DeliveryTypeOK
      /\ tx[o].over \in [Assets -> Nat]
  BY TypeFacts DEF PanelSource, Current, DeliveryInv
<1>3. /\ tx' \in [Orders -> Transaction] /\ \A p \in Orders \ {o} : tx'[p] = tx[p]
      /\ tx'[o].open = tx[o].open /\ tx'[o].takes = tx[o].takes /\ tx'[o].over = tx[o].over
      /\ tx'[o].todo = Tail(tx[o].todo) \/ (Ends(o, s) /\ s \in tx'[o].failed)
      /\ tx[o].failed \subseteq tx'[o].failed /\ tx'[o].ok \in {tx[o].ok, tx[o].ok \cup {s}}
      /\ s \in tx'[o].ok \cup tx'[o].failed
      /\ \/ s \in clients'[o]
         \/ tx'[o].ok = tx[o].ok
  <2>1. CASE (created \/ s \in clients[o]) /\ Succeeds(o, s, tx[o].takes, tx[o].over)
    <3>1. s \in clients'[o]
      BY <1>1, <2>1
    <3>2. QED
      BY <1>2, <2>1, <3>1, SucceedsMeans
  <2>2. CASE Fails(o, s)
    <3>1. /\ tx' \in [Orders -> Transaction] /\ \A p \in Orders \ {o} : tx'[p] = tx[p]
          /\ tx'[o].open = tx[o].open
          /\ tx'[o].todo = IF Ends(o, s) THEN <<>> ELSE Tail(tx[o].todo)
          /\ tx'[o].ok = tx[o].ok /\ tx'[o].failed = tx[o].failed \cup {s}
          /\ tx'[o].takes = tx[o].takes /\ tx'[o].over = tx[o].over
      BY <1>2, <2>2, FailsMeans
    <3>2. QED
      BY <3>1
  <2>3. QED
    BY <2>1, <2>2 DEF PanelSource
<1>4. DeliveryTypeOK'
  BY <1>1, <1>3 DEF PanelSource, DeliveryInv, DeliveryTypeOK
<1>5. OwnerTakes'
  BY <1>3, OwnerIsOpen DEF PanelSource, OwnerTakes
<1>6. PageFits'
  BY DEF PanelSource, DeliveryInv, PageFits
<1>7. \A a \in Assets : StockFits(a)'
  BY <1>3, StockKept DEF PanelSource
<1>8. ASSUME o \notin removed, s \in tx'[o].ok PROVE WillBeServed(o, s)'
  <2>1. CASE s \in clients'[o]
    BY <2>1 DEF WillBeServed, PanelSource
  <2>2. CASE s \in tx[o].ok
    BY <1>1, <1>2, <1>3, <1>8, <2>2, WillStay DEF PanelSource, Current
  <2>3. QED
    BY <1>3, <1>8, <2>1, <2>2
<1>9. Total(alloc[o][s]) + Total(tx'[o].takes[s]) <= Quantity[s]
  BY <1>3, QuotaNow
<1>10. LocalFits(o)'
  BY <1>1, <1>2, <1>3, <1>8, <1>9, SourceLocal DEF PanelSource
<1>11. QED
  BY <1>1, <1>3, <1>4, <1>5, <1>6, <1>7, <1>10, OneOrder DEF PanelSource

LEMMA PastLimitMeans ==
  ASSUME NEW u \in Nat, NEW k \in Nat
  PROVE  /\ PastLimit(u, k) \in Nat /\ (u >= AllocationLimit => PastLimit(u, k) = k)
         /\ (u < AllocationLimit => u + k <= AllocationLimit + PastLimit(u, k))
<1>1. PICK l \in Nat : l = AllocationLimit
  BY Limit
<1>2. PastLimit(u, k) = IF u >= l THEN k ELSE IF u + k > l THEN (u + k) - l ELSE 0
  BY <1>1 DEF PastLimit
<1>3. QED
  BY <1>1, <1>2

(* The rows that an allocation looks at: what the transaction itself has   *)
(* taken counts.                                                           *)
LEMMA TakenMeans ==
  ASSUME DeliveryInv, NEW o \in Orders, NEW a \in Assets
  PROVE  LET row == Taken(asset, Sum(tx[o].takes))[a] IN
           /\ row.used = asset[a].used + Sum(tx[o].takes)[a] /\ row.used \in Nat
           /\ row.status = "available" => asset[a].status = "available" /\ Sum(tx[o].takes)[a] = 0
<1>1. PICK x \in Nat, u \in Nat : x = Sum(tx[o].takes)[a] /\ u = asset[a].used
  BY StockNow, TypeFacts DEF DeliveryInv
<1> DEFINE row == Taken(asset, Sum(tx[o].takes))[a]
<1>2. row = IF x > 0 THEN [status |-> "assigned", used |-> u + x] ELSE asset[a]
  <2>1. row = IF Sum(tx[o].takes)[a] > 0
                THEN [status |-> "assigned", used |-> asset[a].used + Sum(tx[o].takes)[a]]
                ELSE asset[a]
    BY DEF Taken
  <2>2. QED
    BY <1>1, <2>1
<1> HIDE DEF row
<1>3. row.used = u + x /\ (row.status = "available" => asset[a].status = "available" /\ x = 0)
  <2>1. CASE x > 0
    BY <1>2, <2>1
  <2>2. CASE ~(x > 0)
    <3>1. row = asset[a] /\ u + x = u /\ x = 0
      BY <1>2, <2>2
    <3>2. QED
      BY <1>1, <3>1
  <2>3. QED
    BY <2>1, <2>2
<1>4. QED
  BY <1>1, <1>3 DEF row

(* What is taken fits into what the pool has left; what an unlimited rule  *)
(* takes past the limit is counted.                                        *)
LEMMA TakesFit ==
  ASSUME DeliveryInv, NEW o \in Orders, NEW s \in Sources, NEW n \in Nat, NEW seen,
         seen = Taken(asset, Sum(tx[o].takes)), NEW take \in Takes(seen, n, ModeOf(o, s)),
         NEW v, v = Over(o, s, seen, take)
  PROVE  /\ take \in [Assets -> Nat] /\ Total(take) = n /\ v \in [Assets -> Nat]
         /\ \A a \in Assets : v[a] >= tx[o].over[a]
         /\ \A a \in Assets \ (reopened \cup miscounted) : take[a] > 0 =>
              HoldersIn(alloc, a) + Sum(tx[o].takes)[a] + take[a] <= AllocationLimit + beyond[a] + v[a]
<1>1. take \in [Assets -> 0..n] /\ Total(take) = n
      /\ \A a \in Assets : take[a] <= Slots(seen[a], ModeOf(o, s), n)
  BY DEF Takes
<1>2. take \in [Assets -> Nat]
  BY <1>1
<1>3. ModeOf(o, s) \in {"exclusive", "limited", "unlimited"}
  BY DeliveryAssumption DEF ModeOf
<1>4. ASSUME NEW a \in Assets
      PROVE  \E w, e, p \in Nat :
               /\ w = tx[o].over[a] /\ v[a] = w + e /\ p = PastLimit(seen[a].used, take[a])
               /\ e = IF ModeOf(o, s) = "unlimited" THEN p ELSE 0
  <2>1. PICK w \in Nat, k \in Nat, u \in Nat :
          w = tx[o].over[a] /\ k = take[a] /\ u = seen[a].used
    BY <1>2, TypeFacts, TakenMeans DEF DeliveryInv
  <2>2. PICK p \in Nat : p = PastLimit(seen[a].used, take[a])
    BY <2>1, PastLimitMeans
  <2>3. v[a] = w + IF ModeOf(o, s) = "unlimited" THEN p ELSE 0
    BY <2>1, <2>2 DEF Over
  <2>4. PICK e \in Nat : e = IF ModeOf(o, s) = "unlimited" THEN p ELSE 0
    OBVIOUS
  <2>5. QED
    BY <2>1, <2>2, <2>3, <2>4
<1>5. v \in [Assets -> Nat]
  <2>1. v = [a \in Assets |-> v[a]]
    BY DEF Over
  <2>2. \A a \in Assets : v[a] \in Nat
    BY <1>4
  <2>3. QED
    BY <2>1, <2>2
<1>6. ASSUME NEW a \in Assets PROVE v[a] >= tx[o].over[a]
  BY <1>4
<1>7. ASSUME NEW a \in Assets, a \notin reopened \cup miscounted, take[a] > 0
      PROVE  HoldersIn(alloc, a) + Sum(tx[o].takes)[a] + take[a] <= AllocationLimit + beyond[a] + v[a]
  <2>1. PICK u \in Nat, l \in Nat, b \in Nat, x \in Nat, w \in Nat :
          /\ u = HoldersIn(alloc, a) /\ l = AllocationLimit /\ b = beyond[a]
          /\ x = Sum(tx[o].takes)[a] /\ w = tx[o].over[a] /\ u + x <= l + b + w
    BY <1>7, RoomMeans
  <2>2. PICK k \in Nat : k = take[a] /\ k > 0
    BY <1>2, <1>7
  <2>3. asset[a].used = u /\ seen[a].used = u + x
    <3>1. asset[a].used = u
      BY <1>7, <2>1, StockNow
    <3>2. seen[a].used = asset[a].used + Sum(tx[o].takes)[a]
      BY TakenMeans
    <3>3. QED
      BY <2>1, <3>1, <3>2
  <2>4. PICK e \in Nat, p \in Nat :
          /\ v[a] = w + e /\ p = PastLimit(u + x, k) /\ e = IF ModeOf(o, s) = "unlimited" THEN p ELSE 0
    BY <1>4, <2>1, <2>2, <2>3
  <2>5. k <= Slots(seen[a], ModeOf(o, s), n)
    BY <1>1, <2>2
  <2>6. u + x + k <= l + b + (w + e)
    <3>1. CASE ModeOf(o, s) = "exclusive"
      <4>1. Slots(seen[a], ModeOf(o, s), n) = IF seen[a].status = "available" THEN 1 ELSE 0
        BY <3>1 DEF Slots
      <4>2. seen[a].status = "available" /\ k = 1
        BY <2>2, <2>5, <4>1
      <4>3. x = 0 /\ u = 0
        <5>1. asset[a].status = "available" /\ x = 0
          BY <2>1, <4>2, TakenMeans
        <5>2. QED
          BY <1>7, <2>3, <5>1, StockNow
      <4>4. l >= 1
        BY <2>1, Limit
      <4>5. QED
        BY <4>2, <4>3, <4>4
    <3>2. CASE ModeOf(o, s) = "limited"
      <4>1. Slots(seen[a], ModeOf(o, s), n) =
              IF seen[a].status \in {"available", "assigned"} /\ seen[a].used < AllocationLimit
                THEN AllocationLimit - seen[a].used ELSE 0
        BY <3>2 DEF Slots
      <4>2. k <= l - (u + x)
        BY <2>1, <2>2, <2>3, <2>5, <4>1
      <4>3. QED
        BY <4>2
    <3>3. CASE ModeOf(o, s) = "unlimited"
      <4>1. e = p
        BY <2>4, <3>3
      <4>2. (u + x >= l => p = k) /\ (u + x < l => u + x + k <= l + p)
        <5>1. PICK j \in Nat : j = u + x
          OBVIOUS
        <5>2. p = PastLimit(j, k) /\ l = AllocationLimit
          BY <2>1, <2>4, <5>1
        <5>3. QED
          BY <5>1, <5>2, PastLimitMeans
      <4>3. QED
        BY <2>1, <4>1, <4>2
    <3>4. QED
      BY <1>3, <3>1, <3>2, <3>3
  <2>7. QED
    BY <2>1, <2>2, <2>4, <2>6
<1>8. QED
  BY <1>1, <1>2, <1>5, <1>6, <1>7

LEMMA MissingMeans ==
  ASSUME DeliveryInv, NEW o \in Orders, NEW s \in Sources
  PROVE  /\ Missing(o, s) \in Nat /\ Total(alloc[o][s]) + Missing(o, s) = Quantity[s]
         /\ Missing(o, s) = 0 => Total(alloc[o][s]) + Total(tx[o].takes[s]) = Quantity[s]
<1>1. PICK q \in Nat, m \in Nat, t \in Nat :
        q = Quantity[s] /\ m = Total(alloc[o][s]) /\ t = Total(tx[o].takes[s]) /\ m + t <= q
  BY QuotaNow
<1>2. Missing(o, s) = IF m >= q THEN 0 ELSE q - m
  BY <1>1 DEF Missing
<1>3. Missing(o, s) = q - m
  BY <1>1, <1>2
<1>4. QED
  BY <1>1, <1>3

(* Nothing is allocated, because nothing is missing or the allocation      *)
(* fails.                                                                  *)
LEMMA NothingTakenKeeps ==
  ASSUME DeliveryInv, NEW o \in Orders, NEW s \in Sources, InventorySource(o, s),
         poolOwner' = poolOwner,
         \/ Fails(o, s)
         \/ Succeeds(o, s, tx[o].takes, tx[o].over) /\ (Missing(o, s) = 0 \/ s \in order[o].served)
  PROVE  DeliveryInv'
<1>1. tx[o].takes \in PerSource /\ tx[o].todo # <<>> /\ Current(o, s) /\ DeliveryTypeOK
      /\ tx[o].over \in [Assets -> Nat]
  BY TypeFacts DEF InventorySource, Current, DeliveryInv
<1>2. /\ tx' \in [Orders -> Transaction] /\ \A p \in Orders \ {o} : tx'[p] = tx[p]
      /\ tx'[o].open = tx[o].open /\ tx'[o].takes = tx[o].takes /\ tx'[o].over = tx[o].over
      /\ tx'[o].todo = Tail(tx[o].todo) \/ (Ends(o, s) /\ s \in tx'[o].failed)
      /\ tx[o].failed \subseteq tx'[o].failed /\ tx'[o].ok \in {tx[o].ok, tx[o].ok \cup {s}}
      /\ s \in tx'[o].ok \cup tx'[o].failed
      /\ \/ Missing(o, s) = 0 \/ s \in order[o].served
         \/ tx'[o].ok = tx[o].ok
  <2>1. CASE Succeeds(o, s, tx[o].takes, tx[o].over) /\ (Missing(o, s) = 0 \/ s \in order[o].served)
    BY <1>1, <2>1, SucceedsMeans
  <2>2. CASE Fails(o, s)
    <3>1. /\ tx' \in [Orders -> Transaction] /\ \A p \in Orders \ {o} : tx'[p] = tx[p]
          /\ tx'[o].open = tx[o].open
          /\ tx'[o].todo = IF Ends(o, s) THEN <<>> ELSE Tail(tx[o].todo)
          /\ tx'[o].ok = tx[o].ok /\ tx'[o].failed = tx[o].failed \cup {s}
          /\ tx'[o].takes = tx[o].takes /\ tx'[o].over = tx[o].over
      BY <1>1, <2>2, FailsMeans
    <3>2. QED
      BY <3>1
  <2>3. QED
    BY <2>1, <2>2
<1>3. DeliveryTypeOK'
  BY <1>2 DEF InventorySource, DeliveryInv, DeliveryTypeOK
<1>4. OwnerTakes'
  BY <1>2, OwnerIsOpen DEF InventorySource, OwnerTakes
<1>5. PageFits'
  BY DEF InventorySource, DeliveryInv, PageFits
<1>6. \A a \in Assets : StockFits(a)'
  BY <1>2, StockKept DEF InventorySource
<1>7. ASSUME o \notin removed, s \in tx'[o].ok PROVE WillBeServed(o, s)'
  <2>1. s \notin PanelSources /\ alloc' = alloc
    BY DEF InventorySource
  <2>2. ASSUME Total(alloc[o][s]) + Total(tx[o].takes[s]) = Quantity[s] PROVE WillBeServed(o, s)'
    <3>1. Total(alloc'[o][s]) + Total(tx'[o].takes[s]) = Quantity[s]
      BY <1>2, <2>1, <2>2
    <3>2. QED
      BY <2>1, <3>1 DEF WillBeServed, Total, Count, Units
  <2>3. CASE Missing(o, s) = 0
    BY <2>2, <2>3, MissingMeans
  <2>4. CASE s \in order[o].served
    <3>1. Total(alloc[o][s]) = Quantity[s]
      BY <1>7, <2>1, <2>4 DEF DeliveryInv, OrderFits, Served
    <3>2. PICK q \in Nat, t \in Nat : q = Quantity[s] /\ t = Total(tx[o].takes[s]) /\ q + t <= q
      BY <3>1, QuotaNow
    <3>3. q + t = q
      BY <3>2
    <3>4. QED
      BY <2>2, <3>1, <3>2, <3>3
  <2>5. CASE s \in tx[o].ok
    <3>1. clients' = clients /\ tx[o].open
      BY DEF InventorySource, Current
    <3>2. QED
      BY <1>2, <1>7, <2>1, <2>5, <3>1, WillStay
  <2>6. QED
    BY <1>2, <1>7, <2>3, <2>4, <2>5
<1>8. Total(alloc[o][s]) + Total(tx'[o].takes[s]) <= Quantity[s]
  BY <1>2, QuotaNow
<1>9. LocalFits(o)'
  BY <1>1, <1>2, <1>7, <1>8, SourceLocal DEF InventorySource
<1>10. QED
  BY <1>2, <1>3, <1>4, <1>5, <1>6, <1>9, OneOrder DEF InventorySource

WithTake(o, s, take) == [tx[o].takes EXCEPT ![s] = take]

LEMMA TakenKeeps ==
  ASSUME DeliveryInv, NEW o \in Orders, NEW s \in Sources, InventorySource(o, s),
         poolOwner \in {NoOrder, o}, poolOwner' = o,
         NEW seen, seen = Taken(asset, Sum(tx[o].takes)),
         NEW take \in Takes(seen, Missing(o, s), ModeOf(o, s)),
         NEW t, t = WithTake(o, s, take), NEW v, v = Over(o, s, seen, take),
         Succeeds(o, s, t, v)
  PROVE  DeliveryInv'
<1>1. tx[o].takes \in PerSource /\ tx[o].todo # <<>> /\ Current(o, s) /\ DeliveryTypeOK /\ tx[o].open
  BY TypeFacts DEF InventorySource, Current, DeliveryInv
<1>2. PICK n \in Nat : n = Missing(o, s)
  BY MissingMeans
<1>3. /\ take \in [Assets -> Nat] /\ Total(take) = n /\ v \in [Assets -> Nat]
      /\ \A a \in Assets : v[a] >= tx[o].over[a]
      /\ \A a \in Assets \ (reopened \cup miscounted) : take[a] > 0 =>
           HoldersIn(alloc, a) + Sum(tx[o].takes)[a] + take[a] <= AllocationLimit + beyond[a] + v[a]
  BY <1>2, TakesFit
<1>4. t \in PerSource /\ t[s] = take /\ \A r \in AllSources \ {s} : t[r] = tx[o].takes[r]
  BY <1>1, <1>3 DEF WithTake, PerSource, AllSources
<1>5. /\ tx' \in [Orders -> Transaction] /\ \A p \in Orders \ {o} : tx'[p] = tx[p]
      /\ tx'[o].open = tx[o].open /\ tx'[o].todo = Tail(tx[o].todo)
      /\ tx'[o].ok = tx[o].ok \cup {s} /\ tx'[o].failed = tx[o].failed /\ tx'[o].takes = t
      /\ tx'[o].over = v
  <2>1. t \in PerSource /\ v \in [Assets -> Nat]
    BY <1>3, <1>4
  <2>2. DeliveryTypeOK /\ tx[o].todo # <<>> /\ Succeeds(o, s, t, v)
    BY <1>1
  <2>3. QED
    BY <2>1, <2>2, SucceedsMeans
<1>6. DeliveryTypeOK'
  BY <1>5 DEF InventorySource, DeliveryInv, DeliveryTypeOK
<1>7. OwnerTakes'
  <2>1. \A p \in Orders \ {o} : tx[p].takes = Nothing
    BY OwnerIsOpen, DeliveryAssumption
  <2>2. \A p \in Orders \ {o} : tx'[p].takes = Nothing
    BY <1>5, <2>1
  <2>3. tx'[o].open
    BY <1>1, <1>5
  <2>4. QED
    BY <2>2, <2>3 DEF OwnerTakes
<1>8. PageFits'
  BY DEF InventorySource, DeliveryInv, PageFits
<1>9. ASSUME NEW a \in Assets PROVE StockFits(a)'
  <2>1. /\ asset' = asset /\ alloc' = alloc /\ reopened' = reopened /\ miscounted' = miscounted
        /\ beyond' = beyond
    BY DEF InventorySource
  <2>2. ASSUME NEW p \in Orders, a \notin reopened \cup miscounted
        PROVE  RoomFor(HoldersIn(alloc, a), beyond, tx'[p], a)
    <3>1. CASE p # o
      BY <1>5, <2>2, <3>1, StockNow
    <3>2. CASE p = o
      <4>1. PICK u \in Nat, l \in Nat, b \in Nat, x \in Nat, w \in Nat :
              /\ u = HoldersIn(alloc, a) /\ l = AllocationLimit /\ b = beyond[a]
              /\ x = Sum(tx[o].takes)[a] /\ w = tx[o].over[a] /\ u + x <= l + b + w
        BY <2>2, RoomMeans
      <4>2. PICK y \in Nat, k \in Nat, old \in Nat, e \in Nat :
              y = Sum(t)[a] /\ k = take[a] /\ old = tx[o].takes[s][a] /\ e = v[a] /\ e >= w
        <5>1. Sum(t)[a] \in Nat /\ tx[o].takes[s][a] \in Nat
          BY <1>1, <1>4, SumMeans DEF PerSource
        <5>2. take[a] \in Nat /\ v[a] \in Nat /\ v[a] >= w
          BY <1>3, <4>1
        <5>3. QED
          BY <5>1, <5>2
      <4>3. y + old = x + k
        <5>1. s \in AllSources /\ \A r \in AllSources \ {s} : t[r][a] = tx[o].takes[r][a]
          BY <1>4 DEF AllSources
        <5>2. Sum(t)[a] + tx[o].takes[s][a] = Sum(tx[o].takes)[a] + t[s][a]
          BY <1>1, <1>4, <5>1, SumChange
        <5>3. QED
          BY <1>4, <4>1, <4>2, <5>2
      <4>4. k > 0 => u + x + k <= l + b + e
        BY <1>3, <2>2, <4>1, <4>2
      <4>5. u + y <= l + b + e
        BY <4>1, <4>2, <4>3, <4>4
      <4>6. QED
        BY <1>5, <3>2, <4>1, <4>2, <4>5 DEF RoomFor
    <3>3. QED
      BY <3>1, <3>2
  <2>3. QED
    BY <2>1, <2>2, StockNow, StockNext
<1>10. Total(alloc[o][s]) + Total(tx'[o].takes[s]) = Quantity[s]
  BY <1>2, <1>3, <1>4, <1>5, MissingMeans
<1>11. WillBeServed(o, s)'
  <2>1. s \notin PanelSources /\ alloc' = alloc
    BY DEF InventorySource
  <2>2. Total(alloc'[o][s]) + Total(tx'[o].takes[s]) = Quantity[s]
    BY <1>10, <2>1
  <2>3. QED
    BY <2>1, <2>2 DEF WillBeServed, Total, Count, Units
<1>12. LocalFits(o)'
  <2>1. Total(alloc[o][s]) + Total(tx'[o].takes[s]) <= Quantity[s]
    BY <1>10, QuotaNow
  <2>2. \A r \in Sources \ {s} : tx'[o].takes[r] = tx[o].takes[r]
    BY <1>4, <1>5 DEF AllSources
  <2>3. QED
    BY <1>1, <1>5, <1>11, <2>1, <2>2, SourceLocal DEF InventorySource
<1>13. QED
  BY <1>5, <1>6, <1>7, <1>8, <1>9, <1>12, OneOrder DEF InventorySource

LEMMA InventoryKeeps ==
  ASSUME DeliveryInv, NEW o \in Orders, NEW s \in Sources, InventorySource(o, s)
  PROVE  DeliveryInv'
<1>1. CASE /\ Missing(o, s) = 0 \/ s \in order[o].served
           /\ Succeeds(o, s, tx[o].takes, tx[o].over) /\ UNCHANGED poolOwner
  BY <1>1, NothingTakenKeeps
<1>2. CASE /\ poolOwner \in {NoOrder, o}
           /\ LET seen == Taken(asset, Sum(tx[o].takes)) IN
              \E take \in Takes(seen, Missing(o, s), ModeOf(o, s)) :
                Succeeds(o, s, [tx[o].takes EXCEPT ![s] = take], Over(o, s, seen, take))
           /\ poolOwner' = o
  <2>1. PICK seen : seen = Taken(asset, Sum(tx[o].takes))
    OBVIOUS
  <2>2. PICK take \in Takes(seen, Missing(o, s), ModeOf(o, s)) :
          Succeeds(o, s, [tx[o].takes EXCEPT ![s] = take], Over(o, s, seen, take))
    BY <1>2, <2>1
  <2>3. PICK t, v : t = WithTake(o, s, take) /\ v = Over(o, s, seen, take)
    OBVIOUS
  <2>4. Succeeds(o, s, t, v)
    BY <2>2, <2>3 DEF WithTake
  <2>5. QED
    BY <1>2, <2>1, <2>3, <2>4, TakenKeeps
<1>3. CASE Fails(o, s) /\ UNCHANGED poolOwner
  BY <1>3, NothingTakenKeeps
<1>4. QED
  BY <1>1, <1>2, <1>3 DEF InventorySource

LEMMA CommitMeans ==
  ASSUME DeliveryInv, NEW o \in Orders, CommitDelivery(o)
  PROVE  /\ order' \in [Orders -> OrderRow] /\ \A p \in Orders \ {o} : order'[p] = order[p]
         /\ order'[o].status =
              IF Delivered(o) \/ order[o].status = "completed" THEN "completed" ELSE "confirmed"
         /\ order'[o].chosen = order[o].chosen
         /\ order'[o].served = IF o \in RecipeOrders THEN tx[o].ok ELSE {}
         /\ tx' \in [Orders -> Transaction] /\ tx'[o] = Closed
         /\ \A p \in Orders \ {o} : tx'[p] = tx[p]
         /\ alloc' \in [Orders -> PerSource] /\ alloc'[o] = Plus(alloc[o], tx[o].takes)
         /\ \A p \in Orders \ {o} : alloc'[p] = alloc[p]
         /\ poolOwner' \in Orders \cup {NoOrder} /\ poolOwner' # o
         /\ \A p \in Orders \ {o} : p = poolOwner' <=> p = poolOwner
         /\ beyond' \in [Assets -> Nat] /\ \A a \in Assets : beyond'[a] = beyond[a] + tx[o].over[a]
<1>1. order[o] \in OrderRow /\ tx[o] \in Transaction /\ alloc[o] \in PerSource
      /\ tx[o].takes \in PerSource
  BY TypeFacts DEF DeliveryInv
<1>2. PICK st \in OrderStatus :
        st = IF Delivered(o) \/ order[o].status = "completed" THEN "completed" ELSE "confirmed"
  BY DEF OrderStatus
<1>3. PICK pt \in BOOLEAN :
        pt = IF Delivered(o) THEN IsPartial(o) ELSE order[o].partial /\ o \in DeliveryOrders
  BY <1>1 DEF OrderRow, IsPartial
<1>4. PICK sv \in SUBSET Sources : sv = IF o \in RecipeOrders THEN tx[o].ok ELSE {}
  BY <1>1 DEF Transaction
<1> DEFINE q == [order[o] EXCEPT !.status = st, !.partial = pt, !.served = sv]
<1>5. q \in OrderRow /\ q.status = st /\ q.served = sv /\ q.chosen = order[o].chosen
  BY <1>1 DEF OrderRow
<1>6. order' = [order EXCEPT ![o] = q]
  BY <1>2, <1>3, <1>4 DEF CommitDelivery
<1> HIDE DEF q
<1>7. /\ order' \in [Orders -> OrderRow] /\ \A p \in Orders \ {o} : order'[p] = order[p]
      /\ order'[o] = q
  BY <1>5, <1>6 DEF DeliveryInv, DeliveryTypeOK, OrderRow
<1>8. /\ tx' \in [Orders -> Transaction] /\ tx'[o] = Closed
      /\ \A p \in Orders \ {o} : tx'[p] = tx[p]
  BY ClosedType, TxChanges DEF DeliveryInv, CommitDelivery
<1>9. PICK t \in PerSource : t = Plus(alloc[o], tx[o].takes)
  BY <1>1, PlusMeans
<1>10. /\ alloc' \in [Orders -> PerSource] /\ alloc'[o] = t
       /\ \A p \in Orders \ {o} : alloc'[p] = alloc[p]
  BY <1>9 DEF CommitDelivery, DeliveryInv, DeliveryTypeOK
<1>11. poolOwner' \in Orders \cup {NoOrder} /\ poolOwner' # o
       /\ \A p \in Orders \ {o} : p = poolOwner' <=> p = poolOwner
  BY DeliveryAssumption DEF DeliveryInv, DeliveryTypeOK, CommitDelivery
<1>12. beyond' \in [Assets -> Nat] /\ \A a \in Assets : beyond'[a] = beyond[a] + tx[o].over[a]
  <2>1. \A a \in Assets : beyond[a] \in Nat /\ tx[o].over[a] \in Nat
    BY StockNow, TypeFacts DEF DeliveryInv
  <2>2. QED
    BY <2>1 DEF CommitDelivery
<1>13. QED
  BY <1>2, <1>4, <1>5, <1>7, <1>8, <1>9, <1>10, <1>11, <1>12

LEMMA CommitStock ==
  ASSUME DeliveryInv, NEW o \in Orders, CommitDelivery(o), NEW a \in Assets
  PROVE  /\ StockFits(a)' /\ asset'[a] \in AssetRow
         /\ asset[a].status # "none" => asset'[a].status # "none"
<1>1. PICK x \in Nat, u \in Nat, n \in Nat :
        x = Sum(tx[o].takes)[a] /\ u = asset[a].used /\ n = HoldersIn(alloc, a)
  BY TypeFacts, StockNow DEF DeliveryInv
<1>2. asset'[a] = IF x > 0 THEN [status |-> "assigned", used |-> u + x] ELSE asset[a]
  <2>1. asset'[a] = IF Sum(tx[o].takes)[a] > 0
                      THEN [status |-> "assigned", used |-> asset[a].used + Sum(tx[o].takes)[a]]
                      ELSE asset[a]
    BY DEF CommitDelivery, Taken
  <2>2. QED
    BY <1>1, <2>1
<1>3. /\ asset'[a].used = u + x
      /\ asset'[a].status = IF x > 0 THEN "assigned" ELSE asset[a].status
  <2>1. CASE x > 0
    BY <1>2, <2>1
  <2>2. CASE ~(x > 0)
    <3>1. asset'[a] = asset[a] /\ u + x = u
      BY <1>2, <2>2
    <3>2. QED
      BY <1>1, <2>2, <3>1
  <2>3. QED
    BY <2>1, <2>2
<1>4. asset'[a] \in AssetRow
  <2>1. asset[a] \in AssetRow /\ u + x \in Nat
    BY DEF DeliveryInv, DeliveryTypeOK
  <2>2. QED
    BY <1>2, <2>1 DEF AssetRow
<1>5. HoldersIn(alloc', a) = n + x
  <2>1. alloc \in [Orders -> PerSource] /\ alloc' \in [Orders -> PerSource]
        /\ \A p \in Orders \ {o} : alloc'[p] = alloc[p]
    BY CommitMeans DEF DeliveryInv, DeliveryTypeOK
  <2>2. PICK al \in [Orders -> PerSource], bl \in [Orders -> PerSource] : al = alloc /\ bl = alloc'
    BY <2>1
  <2>3. HoldersIn(bl, a) + Sum(al[o])[a] = HoldersIn(al, a) + Sum(bl[o])[a]
    BY <2>1, <2>2, HoldersChange
  <2>4. al[o] \in PerSource /\ tx[o].takes \in PerSource /\ bl[o] = Plus(al[o], tx[o].takes)
    BY <2>2, CommitMeans, TypeFacts DEF DeliveryInv
  <2>5. Sum(bl[o])[a] = Sum(al[o])[a] + x
    BY <1>1, <2>4, PlusMeans
  <2>6. PICK y \in Nat, m \in Nat : y = Sum(al[o])[a] /\ m = HoldersIn(bl, a)
    BY <2>2, <2>4, SumMeans, HoldersMeans
  <2>7. m + y = n + (y + x)
    BY <1>1, <2>2, <2>3, <2>5, <2>6
  <2>8. m = n + x
    BY <2>7
  <2>9. QED
    BY <2>2, <2>6, <2>8
<1>6. reopened' = reopened /\ miscounted' = miscounted
  BY DEF CommitDelivery
<1>7. ASSUME a \notin reopened \cup miscounted
      PROVE  /\ UnderCeiling(n + x, beyond', a)
             /\ \A p \in Orders : RoomFor(n + x, beyond', tx'[p], a)
  <2>1. PICK l \in Nat, b \in Nat, v \in Nat :
          /\ l = AllocationLimit /\ b = beyond[a] /\ v = tx[o].over[a] /\ n + x <= l + b + v
    BY <1>1, <1>7, RoomMeans
  <2>2. PICK c \in Nat : c = beyond'[a] /\ c = b + v
    BY <2>1, CommitMeans
  <2>3. UnderCeiling(n + x, beyond', a)
    BY <2>1, <2>2 DEF UnderCeiling
  <2>4. ASSUME NEW p \in Orders, Sum(tx'[p].takes)[a] = 0, tx'[p].over[a] \in Nat
        PROVE  RoomFor(n + x, beyond', tx'[p], a)
    <3>1. PICK w \in Nat : w = tx'[p].over[a]
      BY <2>4
    <3>2. n + x + 0 <= l + c + w
      BY <2>1, <2>2
    <3>3. QED
      BY <2>1, <2>2, <2>4, <3>1, <3>2 DEF RoomFor
  <2>5. ASSUME NEW p \in Orders PROVE RoomFor(n + x, beyond', tx'[p], a)
    <3>1. CASE p = o
      <4>1. Sum(tx'[p].takes)[a] = 0 /\ tx'[p].over[a] \in Nat
        BY <3>1, CommitMeans, ClosedType, SumNothing
      <4>2. QED
        BY <2>4, <4>1
    <3>2. CASE p # o /\ x > 0
      <4>1. x # 0
        BY <3>2
      <4>2. tx[o].takes # Nothing
        BY <1>1, <4>1, SumNothing
      <4>3. tx[p].takes = Nothing /\ tx'[p] = tx[p]
        BY <3>2, <4>2, OwnerIsOpen, CommitMeans
      <4>4. Sum(tx'[p].takes)[a] = 0 /\ tx'[p].over[a] \in Nat
        BY <4>3, SumNothing, TypeFacts DEF DeliveryInv
      <4>5. QED
        BY <2>4, <4>4
    <3>3. CASE p # o /\ ~(x > 0)
      <4>1. PICK y \in Nat, w \in Nat :
              y = Sum(tx[p].takes)[a] /\ w = tx[p].over[a] /\ n + y <= l + b + w
        BY <1>1, <1>7, <2>1, RoomMeans
      <4>2. n + x + y <= l + c + w
        BY <2>2, <3>3, <4>1
      <4>3. tx'[p] = tx[p]
        BY <3>3, CommitMeans
      <4>4. QED
        BY <2>1, <2>2, <4>1, <4>2, <4>3 DEF RoomFor
    <3>4. QED
      BY <3>1, <3>2, <3>3
  <2>6. QED
    BY <2>3, <2>5
<1>8. asset'[a].status = "none" => asset'[a].used = 0 /\ a \notin miscounted
  <2>1. SUFFICES ASSUME asset'[a].status = "none" PROVE asset'[a].used = 0 /\ a \notin miscounted
    OBVIOUS
  <2>2. asset[a].status = "none" /\ asset'[a] = asset[a]
    BY <1>2, <1>3, <2>1
  <2>3. QED
    BY <2>2, StockNow
<1>9. a \notin miscounted => u = n
  BY <1>1, StockNow
<1>10. a \notin miscounted => asset'[a].used = HoldersIn(alloc', a)
  BY <1>3, <1>5, <1>9
<1>11. ASSUME a \notin reopened \cup miscounted, asset'[a].status = "available"
       PROVE  asset'[a].used = 0
  <2>1. asset'[a] = asset[a]
    BY <1>2, <1>3, <1>11
  <2>2. QED
    BY <1>11, <2>1, StockNow
<1>12. StockFits(a)'
  BY <1>5, <1>6, <1>7, <1>8, <1>10, <1>11, StockNext
<1>13. QED
  BY <1>3, <1>4, <1>12

LEMMA CommitServes ==
  ASSUME DeliveryInv, NEW o \in Orders, CommitDelivery(o)
  PROVE  /\ \A s \in Sources : Served(o, s) => Served(o, s)'
         /\ o \notin removed => \A s \in tx[o].ok : Served(o, s)'
         /\ QuotaOf(o)'
<1>1. clients' = clients /\ tx'[o].takes = Nothing /\ tx[o].open
  BY CommitMeans, ClosedType DEF CommitDelivery
<1>2. ASSUME NEW s \in Sources
      PROVE  Total(alloc'[o][s]) = Total(alloc[o][s]) + Total(tx[o].takes[s])
  <2>1. s \in AllSources
    BY DEF AllSources
  <2>2. alloc[o] \in PerSource /\ tx[o].takes \in PerSource
    BY TypeFacts DEF DeliveryInv
  <2>3. alloc'[o] = Plus(alloc[o], tx[o].takes)
    BY CommitMeans
  <2>4. QED
    BY <2>1, <2>2, <2>3, PlusMeans
<1>3. ASSUME NEW s \in Sources
      PROVE  Served(o, s)' <=> IF s \in PanelSources THEN s \in clients[o]
                               ELSE Total(alloc[o][s]) + Total(tx[o].takes[s]) = Quantity[s]
  <2>1. Served(o, s)' <=> IF s \in PanelSources THEN s \in clients[o]
                          ELSE Total(alloc'[o][s]) = Quantity[s]
    BY <1>1 DEF Served, Total, Count, Units
  <2>2. QED
    BY <1>2, <2>1
<1>4. ASSUME NEW s \in Sources, Served(o, s) PROVE Served(o, s)'
  <2>1. CASE s \in PanelSources
    BY <1>3, <1>4, <2>1 DEF Served
  <2>2. CASE s \notin PanelSources
    <3>1. PICK q \in Nat, t \in Nat : /\ q = Quantity[s] /\ q = Total(alloc[o][s])
                                      /\ t = Total(tx[o].takes[s]) /\ q + t <= q
      BY <1>4, <2>2, QuotaNow DEF Served
    <3>2. q + t = q
      BY <3>1
    <3>3. QED
      BY <1>3, <2>2, <3>1, <3>2
  <2>3. QED
    BY <2>1, <2>2
<1>5. ASSUME o \notin removed, NEW s \in tx[o].ok PROVE Served(o, s)'
  <2>1. WillBeServed(o, s) /\ s \in Sources
    BY <1>1, <1>5, TypeFacts DEF DeliveryInv, OrderFits, Transaction
  <2>2. QED
    BY <1>3, <2>1 DEF WillBeServed
<1>6. QuotaOf(o)'
  <2>1. ASSUME NEW s \in Sources
        PROVE  Total(alloc'[o][s]) + Total(tx'[o].takes[s]) <= Quantity[s]
    <3>1. Total(tx'[o].takes[s]) = 0
      BY <1>1, NothingType DEF AllSources
    <3>2. PICK q \in Nat, m \in Nat, t \in Nat :
            q = Quantity[s] /\ m = Total(alloc[o][s]) /\ t = Total(tx[o].takes[s]) /\ m + t <= q
      BY QuotaNow
    <3>3. QED
      BY <1>2, <3>1, <3>2
  <2>2. QED
    BY <2>1 DEF QuotaOf, Total, Count, Units
<1>7. QED
  BY <1>4, <1>5, <1>6

LEMMA CommitLocal ==
  ASSUME DeliveryInv, NEW o \in Orders, CommitDelivery(o)
  PROVE  LocalFits(o)'
<1>1. tx[o].open /\ o \notin AssignmentOrders /\ removed' = removed /\ tx[o].todo = <<>>
      /\ ~tx'[o].open
  BY CommitMeans, ClosedType DEF CommitDelivery, DeliveryInv, OrderFits
<1>2. OrderFits(o)'
  <2>1. order'[o].status # "none" /\ order'[o].chosen = {}
    <3>1. order[o].chosen = {}
      BY <1>1 DEF DeliveryInv, OrderFits
    <3>2. QED
      BY <3>1, CommitMeans
  <2>2. o \notin removed => \A s \in order'[o].served : Served(o, s)'
    BY CommitMeans, CommitServes
  <2>3. QED
    BY <1>1, <2>1, <2>2 DEF OrderFits
<1>3. CompletedFits(o)'
  <2>1. SUFFICES ASSUME o \notin removed, order'[o].status = "completed"
                 PROVE  /\ \E s \in Sources : Served(o, s)'
                        /\ o \in StrictOrders =>
                             \A s \in SourcesOf(o) \cap Required : Served(o, s)'
    BY <1>1 DEF CompletedFits, SourcesOf, Elements, Sources
  <2>2. CASE Delivered(o)
    <3>1. PICK s \in tx[o].ok : TRUE
      BY <2>2 DEF Delivered
    <3>2. s \in Sources /\ Served(o, s)'
      BY <2>1, <3>1, CommitServes, TypeFacts DEF DeliveryInv, Transaction
    <3>3. ASSUME o \in StrictOrders, NEW r \in SourcesOf(o) \cap Required PROVE Served(o, r)'
      <4>1. tx[o].failed \cap Required = {}
        BY <2>2, <3>3 DEF Delivered
      <4>2. SourcesOf(o) \subseteq tx[o].ok \cup tx[o].failed \cup Elements(tx[o].todo)
        BY <1>1, <4>1 DEF DeliveryInv, OrderFits, NoneForgotten
      <4>3. Elements(tx[o].todo) = {}
        BY <1>1 DEF Elements
      <4>4. r \in tx[o].ok
        BY <3>3, <4>1, <4>2, <4>3
      <4>5. QED
        BY <2>1, <4>4, CommitServes
    <3>4. QED
      BY <3>2, <3>3
  <2>3. CASE ~Delivered(o)
    <3>1. order[o].status = "completed"
      BY <2>1, <2>3, CommitMeans
    <3>2. /\ \E s \in Sources : Served(o, s)
          /\ o \in StrictOrders => \A s \in SourcesOf(o) \cap Required : Served(o, s)
      BY <1>1, <2>1, <3>1 DEF DeliveryInv, CompletedIsDelivered
    <3>3. Required \subseteq Sources
      BY DeliveryAssumption
    <3>4. QED
      BY <3>2, <3>3, CommitServes
  <2>4. QED
    BY <2>2, <2>3
<1>4. QED
  BY <1>2, <1>3, CommitServes DEF LocalFits

LEMMA CommitKeeps ==
  ASSUME DeliveryInv, NEW o \in Orders, CommitDelivery(o)
  PROVE  DeliveryInv'
<1>1. asset' \in [Assets -> AssetRow]
  <2>1. asset' = [a \in Assets |-> asset'[a]]
    BY DEF CommitDelivery, Taken
  <2>2. \A a \in Assets : asset'[a] \in AssetRow
    BY CommitStock
  <2>3. QED
    BY <2>1, <2>2
<1>2. DeliveryTypeOK'
  <2>1. order' \in [Orders -> [status: OrderStatus, partial: BOOLEAN, served: SUBSET Sources,
                               chosen: SUBSET Assets]]
    BY CommitMeans DEF OrderRow
  <2>2. alloc' \in [Orders -> PerSource] /\ tx' \in [Orders -> Transaction]
        /\ poolOwner' \in Orders \cup {NoOrder} /\ beyond' \in [Assets -> Nat]
    BY CommitMeans
  <2>3. QED
    BY <1>1, <2>1, <2>2 DEF CommitDelivery, DeliveryInv, DeliveryTypeOK
<1>3. OwnerTakes'
  BY CommitMeans, ClosedType, OwnerIsOpen DEF OwnerTakes
<1>4. PageFits'
  BY CommitStock DEF CommitDelivery, DeliveryInv, DeliveryTypeOK, PageFits
<1>5. \A a \in Assets : StockFits(a)'
  BY CommitStock
<1>6. QED
  BY <1>2, <1>3, <1>4, <1>5, CommitLocal, CommitMeans, OneOrder DEF CommitDelivery

-----------------------------------------------------------------------------
(* The steps of staff and of the order's life. *)

LEMMA CloseKeeps ==
  ASSUME DeliveryInv, NEW o \in Orders, CloseOrder(o)
  PROVE  DeliveryInv'
<1>1. /\ order' \in [Orders -> OrderRow] /\ \A p \in Orders \ {o} : order'[p] = order[p]
      /\ order'[o].status = "closed" /\ order'[o].chosen = order[o].chosen
      /\ order'[o].served = order[o].served
  BY DEF CloseOrder, DeliveryInv, DeliveryTypeOK, OrderRow, OrderStatus
<1>2. DeliveryTypeOK'
  BY <1>1 DEF CloseOrder, DeliveryInv, DeliveryTypeOK, OrderRow
<1>3. OwnerTakes'
  BY OwnerFrame DEF CloseOrder, DeliveryInv
<1>4. PageFits'
  BY DEF CloseOrder, DeliveryInv, PageFits
<1>5. \A a \in Assets : StockFits(a)'
  BY StockKept DEF CloseOrder
<1>6. LocalFits(o)'
  <2>1. LocalFits(o)
    BY InvMeans
  <2>2. QuotaOf(o)'
    BY <2>1 DEF LocalFits, QuotaOf, Total, CloseOrder
  <2>3. \A s : Served(o, s) => Served(o, s)'
    BY DEF Served, Total, CloseOrder
  <2>4. OrderFits(o)'
    BY <1>1, <2>1, <2>3 DEF LocalFits, OrderFits, CloseOrder
  <2>5. CompletedFits(o)'
    BY <1>1 DEF CompletedFits
  <2>6. QED
    BY <2>2, <2>4, <2>5 DEF LocalFits
<1>7. QED
  BY <1>1, <1>2, <1>3, <1>4, <1>5, <1>6, OneOrder DEF CloseOrder

LEMMA CreateKeeps ==
  ASSUME DeliveryInv, NEW o \in Orders, NEW a \in Assets, CreateAssignment(o, a)
  PROVE  DeliveryInv'
<1>1. /\ order' \in [Orders -> OrderRow] /\ \A p \in Orders \ {o} : order'[p] = order[p]
      /\ order'[o].status = "paid" /\ order'[o].served = order[o].served
  <2> DEFINE new == [order[o] EXCEPT !.status = "paid", !.chosen = {a}]
  <2>1. order \in [Orders -> OrderRow] /\ order[o] \in OrderRow
    BY DEF DeliveryInv, DeliveryTypeOK, OrderRow
  <2>2. new \in OrderRow /\ new.status = "paid" /\ new.served = order[o].served
    BY <2>1 DEF OrderRow, OrderStatus
  <2>3. order' = [order EXCEPT ![o] = new]
    BY DEF CreateAssignment
  <2> HIDE DEF new
  <2>4. QED
    BY <2>1, <2>2, <2>3
<1>2. DeliveryTypeOK'
  BY <1>1 DEF CreateAssignment, DeliveryInv, DeliveryTypeOK, OrderRow
<1>3. OwnerTakes'
  BY OwnerFrame DEF CreateAssignment, DeliveryInv
<1>4. PageFits'
  BY DEF CreateAssignment, DeliveryInv, PageFits
<1>5. \A b \in Assets : StockFits(b)'
  BY StockKept DEF CreateAssignment
<1>6. LocalFits(o)'
  <2>1. LocalFits(o)
    BY InvMeans
  <2>2. QuotaOf(o)'
    BY <2>1 DEF LocalFits, QuotaOf, Total, CreateAssignment
  <2>3. \A s : Served(o, s) => Served(o, s)'
    BY DEF Served, Total, CreateAssignment
  <2>4. o \in AssignmentOrders /\ ~tx[o].open /\ Total(alloc[o][Staff]) = 0
    BY <2>1 DEF LocalFits, OrderFits, CreateAssignment
  <2>5. (Total(alloc[o][Staff]) = 0)'
    BY <2>4 DEF Total, CreateAssignment
  <2>6. OrderFits(o)'
    BY <1>1, <2>1, <2>3, <2>4, <2>5 DEF LocalFits, OrderFits, CreateAssignment
  <2>7. CompletedFits(o)'
    BY <1>1 DEF CompletedFits
  <2>8. QED
    BY <2>2, <2>6, <2>7 DEF LocalFits
<1>7. QED
  BY <1>1, <1>2, <1>3, <1>4, <1>5, <1>6, OneOrder DEF CreateAssignment

(* One count of one allocation changes. *)
LEMMA AllocChanges ==
  ASSUME DeliveryTypeOK, NEW o \in Orders, NEW s \in AllSources, NEW a \in Assets, NEW k \in Nat,
         alloc' \in [Orders -> PerSource], \A p \in Orders \ {o} : alloc'[p] = alloc[p],
         \A r \in AllSources \ {s} : alloc'[o][r] = alloc[o][r],
         \A b \in Assets \ {a} : alloc'[o][s][b] = alloc[o][s][b], alloc'[o][s][a] = k
  PROVE  /\ \A b \in Assets \ {a} : HoldersIn(alloc', b) = HoldersIn(alloc, b)
         /\ HoldersIn(alloc', a) + alloc[o][s][a] = HoldersIn(alloc, a) + k
         /\ Total(alloc'[o][s]) + alloc[o][s][a] = Total(alloc[o][s]) + k
<1>1. alloc \in [Orders -> PerSource] /\ alloc[o][s] \in [Assets -> Nat]
      /\ alloc'[o][s] \in [Assets -> Nat]
  <2>1. alloc \in [Orders -> PerSource] /\ alloc[o] \in PerSource /\ alloc'[o] \in PerSource
    BY DEF DeliveryTypeOK
  <2>2. QED
    BY <2>1 DEF PerSource, AllSources
<1>2. PICK al \in [Orders -> PerSource], bl \in [Orders -> PerSource] : al = alloc /\ bl = alloc'
  BY <1>1
<1>3. ASSUME NEW b \in Assets
      PROVE  HoldersIn(bl, b) + Sum(al[o])[b] = HoldersIn(al, b) + Sum(bl[o])[b]
  <2>1. \A p \in Orders \ {o} : bl[p] = al[p]
    BY <1>2
  <2>2. QED
    BY <2>1, HoldersChange
<1>4. PICK t \in PerSource, u \in PerSource : t = al[o] /\ u = bl[o]
  BY <1>2
<1>5. /\ \A r \in AllSources \ {s}, b \in Assets : u[r][b] = t[r][b]
      /\ u[s][a] = k /\ \A b \in Assets \ {a} : u[s][b] = t[s][b]
  BY <1>2, <1>4
<1>6. ASSUME NEW b \in Assets PROVE Sum(u)[b] + t[s][b] = Sum(t)[b] + u[s][b]
  BY <1>5, SumChange
<1>7. ASSUME NEW b \in Assets \ {a} PROVE HoldersIn(bl, b) = HoldersIn(al, b)
  <2>1. PICK x \in Nat, y \in Nat, m \in Nat, n \in Nat, v \in Nat :
          /\ x = Sum(t)[b] /\ y = Sum(u)[b] /\ m = HoldersIn(bl, b) /\ n = HoldersIn(al, b)
          /\ v = t[s][b] /\ v = u[s][b]
    BY <1>5, SumMeans, HoldersMeans DEF PerSource, AllSources
  <2>2. y + v = x + v /\ m + x = n + y
    BY <1>3, <1>4, <1>6, <2>1
  <2>3. m = n
    BY <2>2
  <2>4. QED
    BY <2>1, <2>3
<1>8. HoldersIn(bl, a) + t[s][a] = HoldersIn(al, a) + k
  <2>1. PICK x \in Nat, y \in Nat, m \in Nat, n \in Nat, v \in Nat :
          /\ x = Sum(t)[a] /\ y = Sum(u)[a] /\ m = HoldersIn(bl, a) /\ n = HoldersIn(al, a)
          /\ v = t[s][a]
    BY SumMeans, HoldersMeans DEF PerSource, AllSources
  <2>2. y + v = x + k /\ m + x = n + y
    BY <1>3, <1>4, <1>5, <1>6, <2>1
  <2>3. m + v = n + k
    <3>1. y - x = k - v /\ m - n = y - x
      BY <2>2
    <3>2. m - n = k - v
      BY <3>1
    <3>3. QED
      BY <3>2
  <2>4. QED
    BY <2>1, <2>3
<1>9. Total(alloc'[o][s]) + alloc[o][s][a] = Total(alloc[o][s]) + k
  <2>1. PICK e \in [Assets -> Nat], f \in [Assets -> Nat] : e = alloc[o][s] /\ f = alloc'[o][s]
    BY <1>1
  <2>2. \A b \in Assets \ {a} : f[b] = e[b]
    BY <2>1
  <2>3. Count(f) + e[a] = Count(e) + f[a]
    BY <2>2, StockFinite, CountUpdate
  <2>4. QED
    BY <2>1, <2>3 DEF Total
<1>10. QED
  BY <1>2, <1>4, <1>7, <1>8, <1>9

(* The same, as the code writes it. *)
AllocPut(o, s, a, k) == alloc' = [alloc EXCEPT ![o][s][a] = k]

LEMMA AllocPutMeans ==
  ASSUME DeliveryTypeOK, NEW o \in Orders, NEW s \in AllSources, NEW a \in Assets, NEW k \in Nat,
         AllocPut(o, s, a, k)
  PROVE  /\ alloc' \in [Orders -> PerSource] /\ \A p \in Orders \ {o} : alloc'[p] = alloc[p]
         /\ \A r \in AllSources \ {s} : alloc'[o][r] = alloc[o][r]
         /\ \A b \in Assets \ {a} : HoldersIn(alloc', b) = HoldersIn(alloc, b)
         /\ HoldersIn(alloc', a) + alloc[o][s][a] = HoldersIn(alloc, a) + k
         /\ Total(alloc'[o][s]) + alloc[o][s][a] = Total(alloc[o][s]) + k
<1>1. alloc \in [Orders -> PerSource] /\ alloc[o] \in PerSource /\ alloc[o][s] \in [Assets -> Nat]
  BY DEF DeliveryTypeOK, PerSource, AllSources
<1> DEFINE f == [alloc[o][s] EXCEPT ![a] = k]
           g == [alloc[o] EXCEPT ![s] = f]
<1>2. f \in [Assets -> Nat] /\ f[a] = k /\ \A b \in Assets \ {a} : f[b] = alloc[o][s][b]
  BY <1>1
<1>3. alloc' = [alloc EXCEPT ![o] = g]
  BY DEF AllocPut
<1> HIDE DEF f
<1>4. g \in PerSource /\ g[s] = f /\ \A r \in AllSources \ {s} : g[r] = alloc[o][r]
  BY <1>1, <1>2 DEF PerSource, AllSources
<1> HIDE DEF g
<1>5. /\ alloc' \in [Orders -> PerSource] /\ alloc'[o] = g
      /\ \A p \in Orders \ {o} : alloc'[p] = alloc[p]
  BY <1>1, <1>3, <1>4
<1>6. /\ \A r \in AllSources \ {s} : alloc'[o][r] = alloc[o][r]
      /\ \A b \in Assets \ {a} : alloc'[o][s][b] = alloc[o][s][b]
      /\ alloc'[o][s][a] = k
  BY <1>2, <1>4, <1>5
<1>7. QED
  BY <1>5, <1>6, AllocChanges

LEMMA GiveMeans ==
  ASSUME DeliveryInv, NEW o \in Orders, NEW a \in Assets, Give(o, a)
  PROVE  /\ alloc' \in [Orders -> PerSource] /\ \A p \in Orders \ {o} : alloc'[p] = alloc[p]
         /\ \A r \in Sources : alloc'[o][r] = alloc[o][r]
         /\ \A b \in Assets \ {a} : HoldersIn(alloc', b) = HoldersIn(alloc, b)
         /\ HoldersIn(alloc', a) = HoldersIn(alloc, a) + 1
         /\ Total(alloc'[o][Staff]) = Total(alloc[o][Staff]) + 1
         /\ asset' \in [Assets -> AssetRow] /\ \A b \in Assets \ {a} : asset'[b] = asset[b]
         /\ asset'[a].status = "assigned" /\ asset'[a].used = asset[a].used + 1
<1>1. Staff \in AllSources /\ Staff \notin Sources /\ DeliveryTypeOK
  BY DeliveryAssumption DEF AllSources, DeliveryInv
<1>2. PICK v \in Nat : v = alloc[o][Staff][a]
  BY <1>1 DEF DeliveryTypeOK, PerSource, AllSources
<1>3. PICK k \in Nat : k = v + 1
  OBVIOUS
<1>4. alloc' = [alloc EXCEPT ![o][Staff][a] = k]
  BY <1>2, <1>3 DEF Give
<1>5. /\ alloc' \in [Orders -> PerSource] /\ \A p \in Orders \ {o} : alloc'[p] = alloc[p]
      /\ \A r \in AllSources \ {Staff} : alloc'[o][r] = alloc[o][r]
      /\ \A b \in Assets \ {a} : HoldersIn(alloc', b) = HoldersIn(alloc, b)
      /\ HoldersIn(alloc', a) + v = HoldersIn(alloc, a) + k
      /\ Total(alloc'[o][Staff]) + v = Total(alloc[o][Staff]) + k
  <2>1. PICK s \in AllSources : s = Staff
    BY <1>1
  <2>2. AllocPut(o, s, a, k)
    BY <1>4, <2>1 DEF AllocPut
  <2>3. QED
    BY <1>1, <1>2, <2>1, <2>2, AllocPutMeans
<1>6. \A r \in Sources : alloc'[o][r] = alloc[o][r]
  BY <1>1, <1>5 DEF AllSources
<1>7. PICK n \in Nat, m \in Nat : n = HoldersIn(alloc, a) /\ m = HoldersIn(alloc', a)
  BY <1>1, <1>5, HoldersMeans DEF DeliveryTypeOK
<1>8. m = n + 1
  <2>1. m + v = n + k
    BY <1>5, <1>7
  <2>2. QED
    BY <1>3, <2>1
<1>9. PICK x \in Nat, y \in Nat : x = Total(alloc[o][Staff]) /\ y = Total(alloc'[o][Staff])
  <2>1. alloc[o][Staff] \in [Assets -> Nat] /\ alloc'[o][Staff] \in [Assets -> Nat]
    BY <1>1, <1>5 DEF DeliveryTypeOK, PerSource, AllSources
  <2>2. QED
    BY <2>1, TotalType
<1>10. y = x + 1
  <2>1. y + v = x + k
    BY <1>5, <1>9
  <2>2. QED
    BY <1>3, <2>1
<1>11. PICK w \in Nat : w = asset[a].used + 1
  BY StockNow
<1>12. asset' = [asset EXCEPT ![a] = [status |-> "assigned", used |-> w]]
  BY <1>11 DEF Give
<1>13. /\ asset' \in [Assets -> AssetRow] /\ \A b \in Assets \ {a} : asset'[b] = asset[b]
       /\ asset'[a].status = "assigned" /\ asset'[a].used = w
  BY <1>1, <1>12 DEF DeliveryTypeOK, AssetRow
<1>14. QED
  BY <1>5, <1>6, <1>7, <1>8, <1>9, <1>10, <1>11, <1>13

LEMMA GiveStock ==
  ASSUME DeliveryInv, NEW o \in Orders, NEW a \in Assets, Give(o, a), poolOwner = NoOrder,
         Selectable(asset[a]), tx' = tx, reopened' = reopened, miscounted' = miscounted,
         beyond' = beyond
  PROVE  \A b \in Assets : StockFits(b)'
<1>1. ASSUME NEW b \in Assets PROVE StockFits(b)'
  <2>1. CASE b # a
    BY <2>1, GiveMeans, StockNow, StockNext
  <2>2. CASE b = a
    <3>1. PICK n \in Nat, u \in Nat, l \in Nat :
            n = HoldersIn(alloc, a) /\ u = asset[a].used /\ l = AllocationLimit /\ l >= 1
      BY StockNow, Limit
    <3>2. u < l
      <4>1. CASE PoolMode = "exclusive"
        BY <3>1, <4>1 DEF Selectable
      <4>2. CASE PoolMode # "exclusive"
        BY <3>1, <4>2 DEF Selectable
      <4>3. QED
        BY <4>1, <4>2
    <3>3. a \notin miscounted => u = n
      BY <3>1, StockNow
    <3>4. a \notin miscounted => n + 1 <= l
      BY <3>2, <3>3
    <3>5. \A p \in Orders : Sum(tx'[p].takes)[a] = 0
      <4>1. \A p \in Orders : tx[p].takes = Nothing
        BY OwnerIsOpen, DeliveryAssumption
      <4>2. QED
        BY <4>1, SumNothing
    <3>6. HoldersIn(alloc', a) = n + 1 /\ asset'[a].used = u + 1 /\ asset'[a].status = "assigned"
      BY <3>1, GiveMeans
    <3>7. a \notin miscounted' => asset'[a].used = HoldersIn(alloc', a)
      BY <3>3, <3>6
    <3>8. ASSUME a \notin miscounted
          PROVE  /\ UnderCeiling(HoldersIn(alloc', a), beyond', a)
                 /\ \A p \in Orders : RoomFor(HoldersIn(alloc', a), beyond', tx'[p], a)
      <4>1. PICK b1 \in Nat : b1 = beyond[a] /\ n + 1 <= l + b1
        BY <3>4, <3>8, StockNow
      <4>2. ASSUME NEW p \in Orders PROVE RoomFor(HoldersIn(alloc', a), beyond', tx'[p], a)
        <5>1. PICK w \in Nat : w = tx'[p].over[a]
          BY TypeFacts DEF DeliveryInv
        <5>2. n + 1 + 0 <= l + b1 + w
          BY <4>1
        <5>3. QED
          BY <3>1, <3>5, <3>6, <4>1, <5>1, <5>2 DEF RoomFor
      <4>3. QED
        BY <3>1, <3>6, <4>1, <4>2 DEF UnderCeiling
    <3>9. QED
      BY <2>2, <3>6, <3>7, <3>8, StockNext
  <2>3. QED
    BY <2>1, <2>2
<1>2. QED
  BY <1>1

(* What staff give is of no source: the others' deliveries stay as they    *)
(* are.                                                                    *)
LEMMA GiveServes ==
  ASSUME DeliveryInv, NEW o \in Orders, NEW a \in Assets, Give(o, a), tx' = tx, clients' = clients
  PROVE  /\ \A s \in Sources : Served(o, s)' <=> Served(o, s)
         /\ \A s \in Sources : WillBeServed(o, s)' <=> WillBeServed(o, s)
         /\ QuotaOf(o)' /\ (NoneForgotten(o)' <=> NoneForgotten(o))
<1>1. \A s \in Sources : alloc'[o][s] = alloc[o][s]
  BY GiveMeans
<1>2. \A s \in Sources : Served(o, s)' <=> Served(o, s)
  BY <1>1 DEF Served, Total
<1>3. \A s \in Sources : WillBeServed(o, s)' <=> WillBeServed(o, s)
  BY <1>1 DEF WillBeServed, Total
<1>4. QuotaOf(o)'
  BY <1>1 DEF DeliveryInv, QuotaFits, QuotaOf, Total
<1>5. NoneForgotten(o)' <=> NoneForgotten(o)
  BY DEF NoneForgotten, SourcesOf, Elements
<1>6. QED
  BY <1>2, <1>3, <1>4, <1>5

LEMMA CompleteAssignmentKeeps ==
  ASSUME DeliveryInv, NEW o \in Orders, NEW a \in Assets, CompleteAssignment(o, a)
  PROVE  DeliveryInv'
<1>1. /\ Give(o, a) /\ poolOwner = NoOrder /\ Selectable(asset[a]) /\ tx' = tx
      /\ clients' = clients /\ removed' = removed /\ poolOwner' = poolOwner
      /\ reopened' = reopened /\ miscounted' = miscounted /\ page' = page /\ beyond' = beyond
  BY DEF CompleteAssignment
<1>2. /\ order' \in [Orders -> OrderRow] /\ \A p \in Orders \ {o} : order'[p] = order[p]
      /\ order'[o].status = "completed" /\ order'[o].chosen = order[o].chosen
      /\ order'[o].served = order[o].served
  BY DEF CompleteAssignment, DeliveryInv, DeliveryTypeOK, OrderRow, OrderStatus
<1>3. DeliveryTypeOK'
  BY <1>1, <1>2, GiveMeans DEF CompleteAssignment, DeliveryInv, DeliveryTypeOK, OrderRow
<1>4. OwnerTakes'
  BY <1>1, OwnerFrame DEF DeliveryInv
<1>5. PageFits'
  BY <1>1, GiveMeans DEF DeliveryInv, DeliveryTypeOK, PageFits
<1>6. \A b \in Assets : StockFits(b)'
  BY <1>1, GiveStock
<1>7. LocalFits(o)'
  <2>1. OrderFits(o)
    BY DEF DeliveryInv
  <2>2. o \in AssignmentOrders /\ ~tx[o].open /\ Total(alloc[o][Staff]) = 0
    BY <2>1 DEF OrderFits, CompleteAssignment, Assignable
  <2>3. Total(alloc'[o][Staff]) = 1
    BY <1>1, <2>2, GiveMeans
  <2>4. CompletedFits(o)'
    <3>1. Total(alloc'[o][Staff]) >= 1
      BY <2>3
    <3>2. QED
      BY <2>2, <3>1 DEF CompletedFits, Total, Count, Units
  <2>5. order[o].served \subseteq Sources
    BY TypeFacts DEF DeliveryInv, OrderRow
  <2>6. OrderFits(o)'
    BY <1>1, <1>2, <2>1, <2>2, <2>5, GiveServes DEF OrderFits
  <2>7. QED
    BY <1>1, <2>4, <2>6, GiveServes DEF LocalFits
<1>8. QED
  BY <1>1, <1>2, <1>3, <1>4, <1>5, <1>6, <1>7, GiveMeans, OneOrder

LEMMA AddKeeps ==
  ASSUME DeliveryInv, NEW o \in Orders, NEW a \in Assets, AddToCup(o, a)
  PROVE  DeliveryInv'
<1>1. /\ Give(o, a) /\ poolOwner = NoOrder /\ Selectable(asset[a]) /\ tx' = tx /\ order' = order
      /\ clients' = clients /\ removed' = removed /\ poolOwner' = poolOwner
      /\ reopened' = reopened /\ miscounted' = miscounted /\ page' = page /\ beyond' = beyond
  BY DEF AddToCup
<1>2. edits' \in 0..MaxEdits
  BY DeliveryAssumption DEF AddToCup, DeliveryInv, DeliveryTypeOK
<1>3. DeliveryTypeOK'
  BY <1>1, <1>2, GiveMeans DEF AddToCup, DeliveryInv, DeliveryTypeOK
<1>4. OwnerTakes'
  BY <1>1, OwnerFrame DEF DeliveryInv
<1>5. PageFits'
  BY <1>1, GiveMeans DEF DeliveryInv, DeliveryTypeOK, PageFits
<1>6. \A b \in Assets : StockFits(b)'
  BY <1>1, GiveStock
<1>7. LocalFits(o)'
  <2>1. OrderFits(o) /\ CompletedFits(o) /\ order[o].status \notin {"none", "paid"}
    BY InvMeans DEF LocalFits, AddToCup
  <2>2. order[o].served \subseteq Sources /\ tx[o].ok \subseteq Sources /\ Required \subseteq Sources
    BY TypeFacts, DeliveryAssumption DEF DeliveryInv, OrderRow, Transaction
  <2>3. CompletedFits(o)'
    <3>1. CASE o \in AssignmentOrders
      <4>1. Total(alloc[o][Staff]) \in Nat /\ Total(alloc'[o][Staff]) = Total(alloc[o][Staff]) + 1
        BY <1>1, GiveMeans, TypeFacts DEF DeliveryInv, AllSources
      <4>2. Total(alloc'[o][Staff]) >= 1
        BY <4>1
      <4>3. QED
        BY <3>1, <4>2 DEF CompletedFits, Total, Count, Units
    <3>2. CASE o \notin AssignmentOrders
      BY <1>1, <2>1, <2>2, <3>2, GiveServes DEF CompletedFits, SourcesOf, Elements, Sources
    <3>3. QED
      BY <3>1, <3>2
  <2>4. OrderFits(o)'
    BY <1>1, <2>1, <2>2, GiveServes DEF OrderFits
  <2>5. QED
    BY <1>1, <2>3, <2>4, GiveServes DEF LocalFits
<1>8. QED
  BY <1>1, <1>3, <1>4, <1>5, <1>6, <1>7, GiveMeans, OneOrder

LEMMA RemoveMeans ==
  ASSUME DeliveryInv, NEW o \in Orders, NEW s \in AllSources, NEW a \in Assets, RemoveFromCup(o, s, a)
  PROVE  /\ alloc' \in [Orders -> PerSource] /\ \A p \in Orders \ {o} : alloc'[p] = alloc[p]
         /\ \A r \in AllSources \ {s} : alloc'[o][r] = alloc[o][r]
         /\ \A b \in Assets \ {a} : HoldersIn(alloc', b) = HoldersIn(alloc, b)
         /\ HoldersIn(alloc', a) + 1 = HoldersIn(alloc, a)
         /\ Total(alloc'[o][s]) + 1 = Total(alloc[o][s])
<1>1. DeliveryTypeOK
  BY DEF DeliveryInv
<1>2. PICK v \in Nat : v = alloc[o][s][a] /\ v > 0
  <2>1. alloc[o][s] \in [Assets -> Nat]
    BY <1>1, TypeFacts
  <2>2. QED
    BY <2>1 DEF RemoveFromCup
<1>3. PICK k \in Nat : k = v - 1
  BY <1>2
<1>4. AllocPut(o, s, a, k)
  BY <1>2, <1>3 DEF AllocPut, RemoveFromCup
<1>5. /\ alloc' \in [Orders -> PerSource] /\ \A p \in Orders \ {o} : alloc'[p] = alloc[p]
      /\ \A r \in AllSources \ {s} : alloc'[o][r] = alloc[o][r]
      /\ \A b \in Assets \ {a} : HoldersIn(alloc', b) = HoldersIn(alloc, b)
      /\ HoldersIn(alloc', a) + v = HoldersIn(alloc, a) + k
      /\ Total(alloc'[o][s]) + v = Total(alloc[o][s]) + k
  BY <1>1, <1>2, <1>4, AllocPutMeans
<1>6. PICK n \in Nat, m \in Nat : n = HoldersIn(alloc, a) /\ m = HoldersIn(alloc', a)
  BY <1>1, <1>5, HoldersMeans DEF DeliveryTypeOK
<1>7. m + 1 = n
  <2>1. m + v = n + k
    BY <1>5, <1>6
  <2>2. QED
    BY <1>3, <2>1
<1>8. PICK x \in Nat, y \in Nat : x = Total(alloc[o][s]) /\ y = Total(alloc'[o][s])
  <2>1. alloc[o][s] \in [Assets -> Nat] /\ alloc'[o][s] \in [Assets -> Nat]
    BY <1>1, <1>5 DEF DeliveryTypeOK, PerSource, AllSources
  <2>2. QED
    BY <2>1, TotalType
<1>9. y + 1 = x
  <2>1. y + v = x + k
    BY <1>5, <1>8
  <2>2. QED
    BY <1>3, <2>1
<1>10. QED
  BY <1>5, <1>6, <1>7, <1>8, <1>9

LEMMA RemoveStock ==
  ASSUME DeliveryInv, NEW o \in Orders, NEW s \in AllSources, NEW a \in Assets, RemoveFromCup(o, s, a)
  PROVE  /\ asset' \in [Assets -> AssetRow] /\ \A b \in Assets : StockFits(b)'
         /\ \A b \in Assets : asset[b].status # "none" => asset'[b].status # "none"
<1>1. tx' = tx /\ reopened' = reopened /\ miscounted' = miscounted /\ beyond' = beyond
  BY DEF RemoveFromCup
<1>2. PICK held \in BOOLEAN : held = (\E p \in Orders : Sum(alloc'[p])[a] > 0)
  OBVIOUS
<1> DEFINE q == Freed(asset[a], held)
<1>3. asset' = [asset EXCEPT ![a] = q]
  BY <1>2 DEF RemoveFromCup
<1>4. PICK u \in Nat, n \in Nat, m \in Nat :
        /\ u = asset[a].used /\ n = HoldersIn(alloc, a) /\ m = HoldersIn(alloc', a) /\ m + 1 = n
  BY StockNow, RemoveMeans, HoldersMeans
<1>5. /\ q.used = IF u > 0 THEN u - 1 ELSE 0
      /\ q.status = IF asset[a].status = "assigned" /\ ~held THEN "available" ELSE asset[a].status
      /\ q = [status |-> q.status, used |-> q.used]
  BY <1>4 DEF Freed
<1>6. q \in AssetRow
  <2>1. q.used \in Nat
    BY <1>5
  <2>2. q.status \in {"none", "available", "assigned", "disabled"}
    BY <1>5 DEF DeliveryInv, DeliveryTypeOK, AssetRow
  <2>3. QED
    BY <1>5, <2>1, <2>2 DEF AssetRow
<1> HIDE DEF q
<1>7. /\ asset' \in [Assets -> AssetRow] /\ asset'[a] = q
      /\ \A b \in Assets \ {a} : asset'[b] = asset[b]
  BY <1>3, <1>6 DEF DeliveryInv, DeliveryTypeOK
<1>8. StockFits(a)'
  <2>1. a \notin miscounted => u = n
    BY <1>4, StockNow
  <2>2. a \notin miscounted => q.used = m
    BY <1>4, <1>5, <2>1
  <2>3. asset[a].status # "none"
    <3>1. SUFFICES ASSUME asset[a].status = "none" PROVE FALSE
      OBVIOUS
    <3>2. u = 0 /\ u = n
      BY <1>4, <2>1, <3>1, StockNow
    <3>3. QED
      BY <1>4, <3>2
  <2>4. q.status # "none"
    BY <1>5, <2>3
  <2>5. ASSUME a \notin reopened \cup miscounted, q.status = "available" PROVE q.used = 0
    <3>1. asset[a].status # "available"
      <4>1. SUFFICES ASSUME asset[a].status = "available" PROVE FALSE
        OBVIOUS
      <4>2. u = 0 /\ u = n
        BY <1>4, <2>1, <2>5, <4>1, StockNow
      <4>3. QED
        BY <1>4, <4>2
    <3>2. ~held
      BY <1>5, <2>5, <3>1
    <3>3. ASSUME NEW p \in Orders PROVE Sum(alloc'[p])[a] = 0
      <4>1. Sum(alloc'[p])[a] \in Nat
        BY RemoveMeans, SumMeans
      <4>2. ~(Sum(alloc'[p])[a] > 0)
        BY <1>2, <3>2
      <4>3. QED
        BY <4>1, <4>2
    <3>4. HoldersIn(alloc', a) = 0
      BY <3>3, RemoveMeans, HoldersNone
    <3>5. QED
      BY <1>4, <2>2, <2>5, <3>4
  <2>6. ASSUME a \notin reopened \cup miscounted, NEW p \in Orders
        PROVE  UnderCeiling(m, beyond, a) /\ RoomFor(m, beyond, tx[p], a)
    <3>1. PICK l \in Nat, b \in Nat, x \in Nat, v \in Nat :
            /\ l = AllocationLimit /\ b = beyond[a] /\ x = Sum(tx[p].takes)[a] /\ v = tx[p].over[a]
            /\ n <= l + b /\ n + x <= l + b + v
      BY <1>4, <2>6, RoomMeans
    <3>2. m <= l + b /\ m + x <= l + b + v
      BY <1>4, <3>1
    <3>3. QED
      BY <3>1, <3>2 DEF UnderCeiling, RoomFor
  <2>7. a \notin reopened \cup miscounted => UnderCeiling(m, beyond, a)
    BY <2>6
  <2>8. QED
    BY <1>1, <1>4, <1>7, <2>2, <2>4, <2>5, <2>6, <2>7, StockNext
<1>9. ASSUME NEW b \in Assets \ {a} PROVE StockFits(b)'
  BY <1>1, <1>7, RemoveMeans, StockNow, StockNext
<1>10. asset[a].status # "none" => q.status # "none"
  BY <1>5
<1>11. QED
  BY <1>7, <1>8, <1>9, <1>10

LEMMA RemoveKeeps ==
  ASSUME DeliveryInv, NEW o \in Orders, NEW s \in AllSources, NEW a \in Assets, RemoveFromCup(o, s, a)
  PROVE  DeliveryInv'
<1>1. /\ tx' = tx /\ order' = order /\ clients' = clients /\ poolOwner' = poolOwner /\ page' = page
      /\ removed' = removed \cup {o} /\ ~tx[o].open
  BY DEF RemoveFromCup
<1>2. edits' \in 0..MaxEdits /\ removed' \subseteq Orders
  BY DeliveryAssumption DEF RemoveFromCup, DeliveryInv, DeliveryTypeOK
<1>3. DeliveryTypeOK'
  BY <1>2, RemoveMeans, RemoveStock DEF RemoveFromCup, DeliveryInv, DeliveryTypeOK
<1>4. OwnerTakes'
  BY <1>1, OwnerFrame DEF DeliveryInv
<1>5. PageFits'
  BY <1>1, RemoveStock DEF DeliveryInv, DeliveryTypeOK, PageFits
<1>6. ASSUME NEW r \in AllSources
      PROVE  /\ Total(alloc'[o][r]) \in Nat /\ Total(alloc[o][r]) \in Nat
             /\ Total(alloc'[o][r]) <= Total(alloc[o][r])
  <2>1. PICK x \in Nat, y \in Nat : x = Total(alloc[o][r]) /\ y = Total(alloc'[o][r])
    BY <1>3, TypeFacts, TypeFactsNext DEF DeliveryInv
  <2>2. CASE r = s
    <3>1. y + 1 = x
      BY <2>1, <2>2, RemoveMeans
    <3>2. QED
      BY <2>1, <3>1
  <2>3. CASE r # s
    <3>1. y = x
      BY <2>1, <2>3, RemoveMeans
    <3>2. QED
      BY <2>1, <3>1
  <2>4. QED
    BY <2>2, <2>3
<1>7. LocalFits(o)'
  <2>1. QuotaOf(o)'
    <3>1. ASSUME NEW r \in Sources
          PROVE  Total(alloc'[o][r]) + Total(tx'[o].takes[r]) <= Quantity[r]
      <4>1. PICK x \in Nat, y \in Nat, t \in Nat, q \in Nat :
              /\ x = Total(alloc[o][r]) /\ y = Total(alloc'[o][r]) /\ y <= x
              /\ t = Total(tx[o].takes[r]) /\ q = Quantity[r] /\ x + t <= q
        BY <1>6, QuotaNow DEF AllSources
      <4>2. y + t <= q
        BY <4>1
      <4>3. QED
        BY <1>1, <4>1, <4>2
    <3>2. QED
      BY <3>1 DEF QuotaOf, Total, Count, Units
  <2>2. CompletedFits(o)'
    BY <1>1 DEF CompletedFits
  <2>3. OrderFits(o)
    BY DEF DeliveryInv
  <2>4. Total(alloc[o][Staff]) = 0 => Total(alloc'[o][Staff]) = 0
    BY <1>6 DEF AllSources
  <2>5. Total(alloc[o][Staff])' = Total(alloc'[o][Staff])
    BY DEF Total, Count, Units, Staff
  <2>6. OrderFits(o)'
    BY <1>1, <2>3, <2>4, <2>5 DEF OrderFits
  <2>7. QED
    BY <2>1, <2>2, <2>6 DEF LocalFits
<1>8. QED
  BY <1>1, <1>3, <1>4, <1>5, <1>7, RemoveMeans, RemoveStock, OneOrder

-----------------------------------------------------------------------------
(* The induction. *)

LEMMA DeliveryInduction == DeliveryInv /\ [DeliveryNext]_deliveryVars => DeliveryInv'
<1> SUFFICES ASSUME DeliveryInv, [DeliveryNext]_deliveryVars PROVE DeliveryInv'
  OBVIOUS
<1>1. ASSUME NEW a \in Assets,
             ImportAsset(a) \/ ShowAsset(a) \/ PostAsset(a) \/ SaveAsset(a)
      PROVE  DeliveryInv'
  BY <1>1, ImportKeeps, ShowKeeps, PostKeeps, SaveKeeps
<1>2. ASSUME NEW o \in Orders,
             \/ BeginDelivery(o) \/ UseFallback(o) \/ CommitDelivery(o) \/ DeliveryDies(o)
             \/ CloseOrder(o)
      PROVE  DeliveryInv'
  BY <1>2, BeginKeeps, FallbackKeeps, CommitKeeps, DiesKeeps, CloseKeeps
<1>3. ASSUME NEW o \in Orders, NEW s \in Sources, InventorySource(o, s)
      PROVE  DeliveryInv'
  BY <1>3, InventoryKeeps
<1>4. ASSUME NEW o \in Orders, NEW s \in Sources, NEW created \in BOOLEAN, PanelSource(o, s, created)
      PROVE  DeliveryInv'
  BY <1>4, PanelKeeps
<1>5. ASSUME NEW o \in Orders, NEW a \in Assets,
             CreateAssignment(o, a) \/ CompleteAssignment(o, a) \/ AddToCup(o, a)
      PROVE  DeliveryInv'
  BY <1>5, CreateKeeps, CompleteAssignmentKeeps, AddKeeps
<1>6. ASSUME NEW o \in Orders, NEW s \in Sources \cup {Staff}, NEW a \in Assets,
             RemoveFromCup(o, s, a)
      PROVE  DeliveryInv'
  BY <1>6, RemoveKeeps DEF AllSources
<1>7. CASE UNCHANGED deliveryVars
  BY <1>7, DeliveryStuttering
<1>8. QED
  BY <1>1, <1>2, <1>3, <1>4, <1>5, <1>6, <1>7 DEF DeliveryNext

LEMMA DeliveryMeans ==
  ASSUME DeliveryInv
  PROVE  DeliveryTypeOK /\ SoldOnce /\ SourceQuota /\ CompletedIsDelivered
<1>1. ASSUME NEW a \in Assets \ (reopened \cup miscounted)
      PROVE  Holders(a) <= AllocationLimit + beyond[a]
  BY StockNow, HoldersNow DEF UnderCeiling
<1>2. ASSUME NEW o \in Orders, NEW s \in Sources PROVE Total(alloc[o][s]) <= Quantity[s]
  <2>1. PICK q \in Nat, m \in Nat, t \in Nat :
          q = Quantity[s] /\ m = Total(alloc[o][s]) /\ t = Total(tx[o].takes[s]) /\ m + t <= q
    BY QuotaNow
  <2>2. QED
    BY <2>1
<1>3. QED
  BY <1>1, <1>2 DEF DeliveryInv, SoldOnce, SourceQuota

-----------------------------------------------------------------------------
(* Free trials. *)

USE TrialAssumption

HandlerRow == [pc: {"idle", "lock", "recheck", "write", "call", "record"}, trial: 0..MaxTrials]
TrialRow == [status: {"none", "created", "delivered", "failed"}, recent: BOOLEAN]

LEMMA TrialInitial == TrialInit => TrialInv
BY DEF TrialInit, TrialInv, TrialTypeOK, HandlersOwn, StatusFits, CooldownOnce, Busy, Counted,
       CooldownStatuses, NotServing, Trials

LEMMA StepMeans ==
  ASSUME TrialTypeOK, NEW h \in TrialHandlers,
         NEW pc \in {"idle", "lock", "recheck", "write", "call", "record"}, Step(h, pc)
  PROVE  /\ handler' \in [TrialHandlers -> HandlerRow]
         /\ handler'[h].pc = pc /\ handler'[h].trial = handler[h].trial
         /\ \A g \in TrialHandlers \ {h} : handler'[g] = handler[g]
BY DEF TrialTypeOK, Step, HandlerRow

LEMMA EndMeans ==
  ASSUME TrialTypeOK, NEW h \in TrialHandlers, handler' = [handler EXCEPT ![h] = NotServing]
  PROVE  /\ handler' \in [TrialHandlers -> HandlerRow]
         /\ handler'[h].pc = "idle" /\ handler'[h].trial = 0
         /\ \A g \in TrialHandlers \ {h} : handler'[g] = handler[g]
BY DEF TrialTypeOK, NotServing, HandlerRow

LEMMA AskTrialKeeps ==
  ASSUME TrialInv, NEW h \in TrialHandlers, AskTrial(h)
  PROVE  TrialInv'
<1> USE DEF TrialInv
<1>1. TrialTypeOK'
  BY DEF TrialTypeOK, HandlersOwn, StatusFits, Busy, Trials, AskTrial, Step, OnCooldown
<1>2. HandlersOwn'
  BY DEF TrialTypeOK, HandlersOwn, StatusFits, Busy, Trials, CooldownStatuses, AskTrial, Step, OnCooldown
<1>3. StatusFits'
  BY DEF TrialTypeOK, HandlersOwn, StatusFits, Busy, Trials, CooldownStatuses, AskTrial, Step, OnCooldown
<1>4. CooldownOnce'
  BY DEF TrialTypeOK, HandlersOwn, CooldownOnce, Counted, Busy, Trials, CooldownStatuses, AskTrial, Step, OnCooldown
<1>5. QED
  BY <1>1, <1>2, <1>3, <1>4

LEMMA LockTrialKeeps ==
  ASSUME TrialInv, NEW h \in TrialHandlers, LockTrial(h)
  PROVE  TrialInv'
<1> USE DEF TrialInv
<1>1. /\ handler' \in [TrialHandlers -> HandlerRow]
      /\ handler'[h].pc \in {"idle", "recheck"} /\ handler'[h].trial = 0
      /\ \A g \in TrialHandlers \ {h} : handler'[g] = handler[g]
  <2>1. handler[h].trial = 0
    BY DEF LockTrial, HandlersOwn, Busy
  <2>2. CASE h \in locks
    BY <2>2, EndMeans DEF LockTrial
  <2>3. CASE h \notin locks
    BY <2>1, <2>3, StepMeans DEF LockTrial
  <2>4. QED
    BY <2>2, <2>3
<1>2. locks' \subseteq TrialHandlers
  BY DEF TrialTypeOK, LockTrial
<1>3. UNCHANGED <<known, trial, onPanel, rows, stranded, trialFaults>>
  BY DEF LockTrial
<1>4. TrialTypeOK'
  BY <1>1, <1>2, <1>3 DEF TrialTypeOK, HandlerRow, Trials
<1>5. HandlersOwn'
  BY <1>1, <1>3 DEF HandlersOwn, Busy, Trials
<1>6. StatusFits'
  BY <1>3 DEF StatusFits
<1>7. CooldownOnce'
  BY <1>1, <1>3 DEF CooldownOnce, Counted
<1>8. QED
  BY <1>4, <1>5, <1>6, <1>7

LEMMA TrialLockExpiresKeeps ==
  ASSUME TrialInv, NEW h \in TrialHandlers, TrialLockExpires(h)
  PROVE  TrialInv'
<1> USE DEF TrialInv
<1>1. TrialTypeOK'
  BY DEF TrialTypeOK, HandlersOwn, StatusFits, Busy, Trials, TrialLockExpires
<1>2. HandlersOwn'
  BY DEF TrialTypeOK, HandlersOwn, StatusFits, Busy, Trials, CooldownStatuses, TrialLockExpires
<1>3. StatusFits'
  BY DEF TrialTypeOK, HandlersOwn, StatusFits, Busy, Trials, CooldownStatuses, TrialLockExpires
<1>4. CooldownOnce'
  BY DEF TrialTypeOK, HandlersOwn, CooldownOnce, Counted, Busy, Trials, CooldownStatuses, TrialLockExpires
<1>5. QED
  BY <1>1, <1>2, <1>3, <1>4

LEMMA RecheckTrialKeeps ==
  ASSUME TrialInv, NEW h \in TrialHandlers, RecheckTrial(h)
  PROVE  TrialInv'
<1> USE DEF TrialInv
<1>1. /\ handler' \in [TrialHandlers -> HandlerRow]
      /\ handler'[h].pc \in {"idle", "write"} /\ handler'[h].trial = 0
      /\ handler'[h].pc = "write" => \A t \in Trials : ~Counted(t)
      /\ \A g \in TrialHandlers \ {h} : handler'[g] = handler[g]
  <2>1. handler[h].trial = 0
    BY DEF RecheckTrial, HandlersOwn, Busy
  <2>2. CASE OnCooldown
    BY <2>2, EndMeans DEF RecheckTrial, EndTrial
  <2>3. CASE ~OnCooldown
    <3>1. \A t \in Trials : ~Counted(t)
      BY <2>3 DEF OnCooldown, Counted
    <3>2. QED
      BY <2>1, <2>3, <3>1, StepMeans DEF RecheckTrial
  <2>4. QED
    BY <2>2, <2>3
<1>2. locks' \subseteq TrialHandlers
  BY DEF TrialTypeOK, RecheckTrial, EndTrial
<1>3. /\ UNCHANGED <<known, trial, onPanel, rows, stranded, trialFaults>>
      /\ known => \A g \in TrialHandlers : handler[g].pc # "write"
  BY DEF RecheckTrial
<1>4. TrialTypeOK'
  BY <1>1, <1>2, <1>3 DEF TrialTypeOK, HandlerRow, Trials
<1>5. HandlersOwn'
  BY <1>1, <1>3 DEF HandlersOwn, Busy, Trials
<1>6. StatusFits'
  BY <1>3 DEF StatusFits
<1>7. CooldownOnce'
  BY <1>1, <1>3 DEF CooldownOnce, Counted
<1>8. QED
  BY <1>4, <1>5, <1>6, <1>7

LEMMA WriteTrialKeeps ==
  ASSUME TrialInv, NEW h \in TrialHandlers, NEW t \in Trials, WriteTrial(h, t)
  PROVE  TrialInv'
<1> USE DEF TrialInv
<1>1. TrialTypeOK'
  BY DEF TrialTypeOK, HandlersOwn, StatusFits, Busy, Trials, WriteTrial
<1>2. HandlersOwn'
  BY DEF TrialTypeOK, HandlersOwn, StatusFits, Busy, Trials, CooldownStatuses, WriteTrial
<1>3. StatusFits'
  BY DEF TrialTypeOK, HandlersOwn, StatusFits, Busy, Trials, CooldownStatuses, WriteTrial
<1>4. CooldownOnce'
  BY DEF TrialTypeOK, HandlersOwn, CooldownOnce, Counted, Busy, Trials, CooldownStatuses, WriteTrial
<1>5. QED
  BY <1>1, <1>2, <1>3, <1>4

LEMMA CreateTrialClientKeeps ==
  ASSUME TrialInv, NEW h \in TrialHandlers, NEW created \in BOOLEAN, NEW answered \in BOOLEAN,
         CreateTrialClient(h, created, answered)
  PROVE  TrialInv'
<1> USE DEF TrialInv
<1> DEFINE u == handler[h].trial
<1>1. /\ u \in Trials /\ trial[u] = [status |-> "created", recent |-> TRUE] /\ u \notin onPanel
      /\ \A g \in TrialHandlers \ {h} : handler[g].trial # u
      /\ UNCHANGED <<known, rows, trialFaults>>
  BY DEF CreateTrialClient, HandlersOwn, Busy
<1>2. CASE answered
  <2>1. /\ handler' \in [TrialHandlers -> HandlerRow]
        /\ handler'[h].pc = "record" /\ handler'[h].trial = u
        /\ \A g \in TrialHandlers \ {h} : handler'[g] = handler[g]
    BY <1>2, StepMeans DEF CreateTrialClient
  <2>2. onPanel' = onPanel \cup {u} /\ UNCHANGED <<trial, locks, stranded>>
    BY <1>2 DEF CreateTrialClient
  <2>3. TrialTypeOK'
    BY <1>1, <2>1, <2>2 DEF TrialTypeOK, HandlerRow, Trials
  <2>4. HandlersOwn'
    BY <1>1, <2>1, <2>2 DEF HandlersOwn, Busy
  <2>5. StatusFits'
    BY <1>1, <2>2 DEF StatusFits, CooldownStatuses
  <2>6. CooldownOnce'
    BY <1>1, <2>1, <2>2 DEF CooldownOnce, Counted
  <2>7. QED
    BY <2>3, <2>4, <2>5, <2>6
<1>3. CASE ~answered
  <2>1. /\ handler' \in [TrialHandlers -> HandlerRow]
        /\ handler'[h].pc = "idle" /\ handler'[h].trial = 0
        /\ \A g \in TrialHandlers \ {h} : handler'[g] = handler[g]
    BY <1>3, EndMeans DEF CreateTrialClient, FailTrial, EndTrial
  <2>2. /\ locks' = locks \ {h}
        /\ onPanel' \in {onPanel, onPanel \cup {u}}
        /\ stranded' = IF created THEN stranded \cup {u} ELSE stranded
        /\ u \in onPanel' => created
    BY <1>1, <1>3 DEF CreateTrialClient, FailTrial, EndTrial
  <2>3. /\ trial' \in [Trials -> TrialRow]
        /\ trial'[u].status = "failed"
        /\ \A t \in Trials \ {u} : trial'[t] = trial[t]
    BY <1>1, <1>3 DEF CreateTrialClient, FailTrial, TrialTypeOK, TrialRow
  <2>4. TrialTypeOK'
    BY <1>1, <2>1, <2>2, <2>3 DEF TrialTypeOK, HandlerRow, TrialRow, Trials
  <2>5. HandlersOwn'
    <3> SUFFICES ASSUME NEW g \in TrialHandlers
                 PROVE  IF Busy(g)'
                          THEN /\ handler'[g].trial \in Trials
                               /\ trial'[handler'[g].trial] = [status |-> "created", recent |-> TRUE]
                               /\ handler'[g].trial \in onPanel' <=> handler'[g].pc = "record"
                               /\ \A k \in TrialHandlers : handler'[k].trial = handler'[g].trial => k = g
                          ELSE handler'[g].trial = 0
      BY DEF HandlersOwn
    <3>1. CASE g = h
      BY <2>1, <3>1 DEF Busy
    <3>2. CASE g # h /\ ~Busy(g)
      BY <2>1, <3>2 DEF Busy, HandlersOwn
    <3>3. CASE g # h /\ Busy(g)
      <4>1. /\ handler'[g] = handler[g] /\ handler[g].trial \in Trials \ {u} /\ handler[g].trial # 0
        BY <1>1, <2>1, <3>3 DEF Busy, HandlersOwn, Trials
      <4>2. /\ trial'[handler[g].trial] = [status |-> "created", recent |-> TRUE]
            /\ handler[g].trial \in onPanel' <=> handler[g].pc = "record"
        BY <2>2, <2>3, <3>3, <4>1 DEF HandlersOwn
      <4>3. \A k \in TrialHandlers : handler'[k].trial = handler'[g].trial => k = g
        BY <2>1, <3>3, <4>1 DEF HandlersOwn
      <4>4. QED
        BY <4>1, <4>2, <4>3, <3>3 DEF Busy
    <3>4. QED
      BY <3>1, <3>2, <3>3
  <2>6. StatusFits'
    <3>1. u \notin rows
      BY <1>1 DEF StatusFits
    <3>2. QED
      BY <1>1, <2>2, <2>3, <3>1 DEF StatusFits, CooldownStatuses, TrialTypeOK
  <2>7. CooldownOnce'
    <3>1. \A t \in Trials : Counted(t)' => Counted(t)
      BY <2>3 DEF Counted, CooldownStatuses
    <3>2. QED
      BY <1>1, <2>1, <3>1 DEF CooldownOnce
  <2>8. QED
    BY <2>4, <2>5, <2>6, <2>7
<1>4. QED
  BY <1>2, <1>3

LEMMA RecordTrialKeeps ==
  ASSUME TrialInv, NEW h \in TrialHandlers, RecordTrial(h)
  PROVE  TrialInv'
<1> USE DEF TrialInv
<1>1. TrialTypeOK'
  BY DEF TrialTypeOK, HandlersOwn, StatusFits, Busy, Trials, RecordTrial, EndTrial, NotServing
<1>2. HandlersOwn'
  BY DEF TrialTypeOK, HandlersOwn, StatusFits, Busy, Trials, CooldownStatuses, RecordTrial, EndTrial, NotServing
<1>3. StatusFits'
  BY DEF TrialTypeOK, HandlersOwn, StatusFits, Busy, Trials, CooldownStatuses, RecordTrial, EndTrial, NotServing
<1>4. CooldownOnce'
  BY DEF TrialTypeOK, HandlersOwn, CooldownOnce, Counted, Busy, Trials, CooldownStatuses, RecordTrial, EndTrial, NotServing
<1>5. QED
  BY <1>1, <1>2, <1>3, <1>4

LEMMA RecordTrialFailsKeeps ==
  ASSUME TrialInv, NEW h \in TrialHandlers, NEW deleted \in BOOLEAN, RecordTrialFails(h, deleted)
  PROVE  TrialInv'
<1> USE DEF TrialInv
<1> DEFINE u == handler[h].trial
<1>1. /\ u \in Trials /\ trial[u] = [status |-> "created", recent |-> TRUE]
      /\ \A g \in TrialHandlers \ {h} : handler[g].trial # u
      /\ UNCHANGED <<known, rows, trialFaults>>
  BY DEF RecordTrialFails, HandlersOwn, Busy
<1>2. /\ handler' \in [TrialHandlers -> HandlerRow]
      /\ handler'[h].pc = "idle" /\ handler'[h].trial = 0
      /\ \A g \in TrialHandlers \ {h} : handler'[g] = handler[g]
  BY EndMeans DEF RecordTrialFails, FailTrial, EndTrial
<1>3. /\ locks' = locks \ {h}
      /\ onPanel' \in {onPanel, onPanel \ {u}} /\ stranded' \in {stranded, stranded \cup {u}}
      /\ u \in onPanel' => u \in stranded'
  BY DEF RecordTrialFails, Cleaned, FailTrial, EndTrial
<1>4. /\ trial' \in [Trials -> TrialRow]
      /\ trial'[u].status = "failed"
      /\ \A t \in Trials \ {u} : trial'[t] = trial[t]
  BY <1>1 DEF RecordTrialFails, FailTrial, TrialTypeOK, TrialRow
<1>5. u \notin rows
  BY <1>1 DEF StatusFits
<1>6. TrialTypeOK'
  BY <1>1, <1>2, <1>3, <1>4, <1>5 DEF TrialTypeOK, HandlerRow, TrialRow, Trials
<1>7. HandlersOwn'
  <2> SUFFICES ASSUME NEW g \in TrialHandlers
               PROVE  IF Busy(g)'
                        THEN /\ handler'[g].trial \in Trials
                             /\ trial'[handler'[g].trial] = [status |-> "created", recent |-> TRUE]
                             /\ handler'[g].trial \in onPanel' <=> handler'[g].pc = "record"
                             /\ \A k \in TrialHandlers : handler'[k].trial = handler'[g].trial => k = g
                        ELSE handler'[g].trial = 0
    BY DEF HandlersOwn
  <2>1. CASE g = h
    BY <1>2, <2>1 DEF Busy
  <2>2. CASE g # h /\ ~Busy(g)
    BY <1>2, <2>2 DEF Busy, HandlersOwn
  <2>3. CASE g # h /\ Busy(g)
    <3>1. /\ handler'[g] = handler[g] /\ handler[g].trial \in Trials \ {u} /\ handler[g].trial # 0
      BY <1>1, <1>2, <2>3 DEF Busy, HandlersOwn, Trials
    <3>2. /\ trial'[handler[g].trial] = [status |-> "created", recent |-> TRUE]
          /\ handler[g].trial \in onPanel' <=> handler[g].pc = "record"
      BY <1>3, <1>4, <2>3, <3>1 DEF HandlersOwn
    <3>3. \A k \in TrialHandlers : handler'[k].trial = handler'[g].trial => k = g
      BY <1>2, <2>3, <3>1 DEF HandlersOwn
    <3>4. QED
      BY <3>1, <3>2, <3>3, <2>3 DEF Busy
  <2>4. QED
    BY <2>1, <2>2, <2>3
<1>8. StatusFits'
  BY <1>1, <1>3, <1>4, <1>5 DEF StatusFits, CooldownStatuses, TrialTypeOK
<1>9. CooldownOnce'
  <2>1. \A t \in Trials : Counted(t)' => Counted(t)
    BY <1>4 DEF Counted, CooldownStatuses
  <2>2. QED
    BY <1>1, <1>2, <2>1 DEF CooldownOnce
<1>10. QED
  BY <1>6, <1>7, <1>8, <1>9

LEMMA TrialDiesKeeps ==
  ASSUME TrialInv, NEW h \in TrialHandlers, TrialDies(h)
  PROVE  TrialInv'
<1> USE DEF TrialInv
<1>1. TrialTypeOK'
  BY DEF TrialTypeOK, HandlersOwn, StatusFits, Busy, Trials, TrialDies, EndTrial, NotServing
<1>2. HandlersOwn'
  BY DEF TrialTypeOK, HandlersOwn, StatusFits, Busy, Trials, CooldownStatuses, TrialDies, EndTrial, NotServing
<1>3. StatusFits'
  BY DEF TrialTypeOK, HandlersOwn, StatusFits, Busy, Trials, CooldownStatuses, TrialDies, EndTrial, NotServing
<1>4. CooldownOnce'
  BY DEF TrialTypeOK, HandlersOwn, CooldownOnce, Counted, Busy, Trials, CooldownStatuses, TrialDies, EndTrial, NotServing
<1>5. QED
  BY <1>1, <1>2, <1>3, <1>4

LEMMA CooldownEndsKeeps ==
  ASSUME TrialInv, NEW t \in Trials, CooldownEnds(t)
  PROVE  TrialInv'
<1> USE DEF TrialInv
<1>1. TrialTypeOK'
  BY DEF TrialTypeOK, HandlersOwn, StatusFits, Busy, Trials, CooldownEnds
<1>2. HandlersOwn'
  BY DEF TrialTypeOK, HandlersOwn, StatusFits, Busy, Trials, CooldownStatuses, CooldownEnds
<1>3. StatusFits'
  BY DEF TrialTypeOK, HandlersOwn, StatusFits, Busy, Trials, CooldownStatuses, CooldownEnds
<1>4. CooldownOnce'
  BY DEF TrialTypeOK, HandlersOwn, CooldownOnce, Counted, Busy, Trials, CooldownStatuses, CooldownEnds
<1>5. QED
  BY <1>1, <1>2, <1>3, <1>4

LEMMA TrialStuttering == TrialInv /\ UNCHANGED trialVars => TrialInv'
BY DEF TrialInv, TrialTypeOK, HandlersOwn, StatusFits, CooldownOnce, Busy, Counted, trialVars

LEMMA TrialInduction == TrialInv /\ [TrialNext]_trialVars => TrialInv'
<1> SUFFICES ASSUME TrialInv, TrialNext PROVE TrialInv'
  BY TrialStuttering
<1>1. ASSUME NEW h \in TrialHandlers,
             \/ AskTrial(h) \/ LockTrial(h) \/ TrialLockExpires(h) \/ RecheckTrial(h)
             \/ RecordTrial(h) \/ TrialDies(h)
      PROVE  TrialInv'
  BY <1>1, AskTrialKeeps, LockTrialKeeps, TrialLockExpiresKeeps, RecheckTrialKeeps,
     RecordTrialKeeps, TrialDiesKeeps
<1>2. ASSUME NEW h \in TrialHandlers, NEW t \in Trials, WriteTrial(h, t) PROVE TrialInv'
  BY <1>2, WriteTrialKeeps
<1>3. ASSUME NEW h \in TrialHandlers, NEW created \in BOOLEAN, NEW answered \in BOOLEAN,
             CreateTrialClient(h, created, answered)
      PROVE  TrialInv'
  BY <1>3, CreateTrialClientKeeps
<1>4. ASSUME NEW h \in TrialHandlers, NEW deleted \in BOOLEAN, RecordTrialFails(h, deleted)
      PROVE  TrialInv'
  BY <1>4, RecordTrialFailsKeeps
<1>5. ASSUME NEW t \in Trials, CooldownEnds(t) PROVE TrialInv'
  BY <1>5, CooldownEndsKeeps
<1>6. QED
  BY <1>1, <1>2, <1>3, <1>4, <1>5 DEF TrialNext

(* In the cooldown of a customer two clients are one. *)
LEMMA TrialMeans == TrialInv => OneTrialPerCooldown
<1> SUFFICES ASSUME TrialInv, known
             PROVE  Cardinality({t \in onPanel \ stranded : trial[t].recent}) <= 1
  BY DEF OneTrialPerCooldown
<1> DEFINE S == {t \in onPanel \ stranded : trial[t].recent}
<1>1. \A t, u \in S : t = u
  BY DEF TrialInv, TrialTypeOK, StatusFits, CooldownOnce, Counted
<1>2. CASE S = {}
  BY <1>2, FS_EmptySet
<1>3. CASE S # {}
  <2>1. PICK t : t \in S
    BY <1>3
  <2>2. S = {t}
    BY <1>1, <2>1
  <2>3. Cardinality({t}) = 1
    BY FS_Singleton
  <2>4. QED
    BY <2>2, <2>3
<1>4. QED
  BY <1>2, <1>3

-----------------------------------------------------------------------------
(* The two together. *)

LEMMA GivingInitial == GivingInit => DeliveryInv /\ TrialInv
BY DeliveryInitial, TrialInitial DEF GivingInit

LEMMA GivingInduction ==
  DeliveryInv /\ TrialInv /\ [DeliveryStep \/ TrialStep]_givingVars => DeliveryInv' /\ TrialInv'
<1> SUFFICES ASSUME DeliveryInv, TrialInv, [DeliveryStep \/ TrialStep]_givingVars
             PROVE  DeliveryInv' /\ TrialInv'
  OBVIOUS
<1>1. [DeliveryNext]_deliveryVars /\ [TrialNext]_trialVars
  BY DEF DeliveryStep, TrialStep, givingVars
<1>2. QED
  BY <1>1, DeliveryInduction, TrialInduction

(* Orders, stock, staff pages and trial requests always have their types.  *)
THEOREM TypeCorrect == GivingSpec => []TypeOK
<1>1. DeliveryInv /\ TrialInv => TypeOK
  BY DEF DeliveryInv, TrialInv, TypeOK
<1>2. QED
  BY <1>1, GivingInitial, GivingInduction, PTL DEF GivingSpec

(* For any stock, orders, sources and rules, however many deliveries run   *)
(* at once: allocate_assets_from_pool and _validate_selected_asset sell a  *)
(* config no more often than its pool allows and than SHARED_UNLIMITED     *)
(* rules have taken past that, unless an admin page saved AVAILABLE or an  *)
(* old counter over its row.                                               *)
THEOREM SoldOnceAlways == GivingSpec => []SoldOnce
<1>1. DeliveryInv => SoldOnce
  BY DeliveryMeans
<1>2. QED
  BY <1>1, GivingInitial, GivingInduction, PTL DEF GivingSpec

(* However often a delivery is retried, falls back or dies, an order takes *)
(* no more stock for a source than its quantity                            *)
(* (_execute_inventory_source).                                            *)
THEOREM SourceQuotaAlways == GivingSpec => []SourceQuota
<1>1. DeliveryInv => SourceQuota
  BY DeliveryMeans
<1>2. QED
  BY <1>1, GivingInitial, GivingInduction, PTL DEF GivingSpec

(* A completed order has what execute_plan_delivery or                     *)
(* fulfill_order_with_recipe had to deliver, an assignment a config, but   *)
(* for what staff have removed.                                            *)
THEOREM CompletedIsDeliveredAlways == GivingSpec => []CompletedIsDelivered
<1>1. DeliveryInv => CompletedIsDelivered
  BY DeliveryMeans
<1>2. QED
  BY <1>1, GivingInitial, GivingInduction, PTL DEF GivingSpec

(* For any number of processes, requests and deaths,                       *)
(* create_free_trial_for_customer puts one client of a customer on the     *)
(* panel in a cooldown, but for what a lost answer or a failed cleanup     *)
(* left there.                                                             *)
THEOREM OneTrialPerCooldownAlways == GivingSpec => []OneTrialPerCooldown
<1>1. TrialInv => OneTrialPerCooldown
  BY TrialMeans
<1>2. QED
  BY <1>1, GivingInitial, GivingInduction, PTL DEF GivingSpec
=============================================================================
