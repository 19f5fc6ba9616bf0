------------------------- MODULE QuoteDetailsProofs --------------------------
(***************************************************************************)
(* Proofs about QuoteDetails, for requests of any number of lines.         *)
(*                                                                         *)
(* A sum of natural numbers counts units: of x as many as f[x].  That      *)
(* turns a claim about sums into one about the size of sets, where an      *)
(* injection compares two of them (SumAlong); no sum is taken apart after  *)
(* that.                                                                   *)
(***************************************************************************)
EXTENDS QuoteDetails, FiniteSetTheorems, FunctionTheorems, TLAPS

Units(f, S) == {u \in S \X Nat : 1 <= u[2] /\ u[2] <= f[u[1]]}

(* The recursive function that SumFunctionOnSet is defined by. *)
IsPartialSum(f, S, h) ==
  h = [s \in SUBSET S |-> IF s = {} THEN 0
                          ELSE LET x == CHOOSE x \in s : TRUE IN f[x] + h[s \ {x}]]

(* Some function is, and the sum is its value. *)
LEMMA SumUnfolds ==
  ASSUME NEW f, NEW S, \E h : IsPartialSum(f, S, h)
  PROVE  \E h : IsPartialSum(f, S, h) /\ SumFunctionOnSet(f, S) = h[S]
<1> DEFINE iter == CHOOSE h : IsPartialSum(f, S, h)
<1>1. IsPartialSum(f, S, iter)
  OBVIOUS
<1>2. SumFunctionOnSet(f, S) = iter[S]
  BY Zenon DEF SumFunctionOnSet, FoldFunctionOnSet, MapThenFoldSet, IsPartialSum
<1> QED
  BY <1>1, <1>2

(* Of sets of subsets of a finite set one has a smallest element: what     *)
(* takes the place of an induction below.                                  *)
LEMMA SmallestSubset ==
  ASSUME NEW S, IsFiniteSet(S), NEW Bad \in SUBSET (SUBSET S), Bad # {}
  PROVE  \E T \in Bad : \A U \in SUBSET T : U # T => U \notin Bad
<1>1. IsWellFoundedOn(StrictSubsetOrdering(S), SUBSET S)
  BY FS_StrictSubsetOrderingWellFounded, FS_FiniteSubsetsOfFinite
<1>2. PICK T \in Bad : \A U \in Bad : <<U, T>> \notin StrictSubsetOrdering(S)
  BY <1>1, WFMin
<1>3. ASSUME NEW U \in SUBSET T, U # T, U \in Bad PROVE FALSE
  BY <1>2, <1>3 DEF StrictSubsetOrdering
<1> QED
  BY <1>3

(* x has f[x] units. *)
LEMMA UnitsOfOne ==
  ASSUME NEW f, NEW x, f[x] \in Nat
  PROVE  IsFiniteSet(Units(f, {x})) /\ Cardinality(Units(f, {x})) = f[x]
<1> DEFINE unit == [n \in 1..f[x] |-> <<x, n>>]
<1>1. unit \in [1..f[x] -> Units(f, {x})]
  BY DEF Units
<1>2. \A m, n \in 1..f[x] : unit[m] = unit[n] => m = n
  OBVIOUS
<1>3. \A u \in Units(f, {x}) : \E n \in 1..f[x] : unit[n] = u
  BY DEF Units
<1>4. ExistsBijection(1..f[x], Units(f, {x}))
  BY <1>1, <1>2, <1>3, Fun_IsBij DEF ExistsBijection
<1> QED
  BY <1>4, FS_Interval, FS_Bijection, FS_CountingElements

(* The units of one element and those of the others are apart. *)
LEMMA UnitsSplit ==
  ASSUME NEW f, NEW S, NEW x \in S
  PROVE  /\ Units(f, S) = Units(f, S \ {x}) \cup Units(f, {x})
         /\ Units(f, S \ {x}) \cap Units(f, {x}) = {}
BY DEF Units

(* So their numbers add up: one more element adds as many as it has. *)
LEMMA UnitsAddUp ==
  ASSUME NEW f, NEW S, NEW x \in S, f[x] \in Nat, IsFiniteSet(Units(f, S \ {x}))
  PROVE  /\ IsFiniteSet(Units(f, S))
         /\ Cardinality(Units(f, S)) = f[x] + Cardinality(Units(f, S \ {x}))
<1> DEFINE A == Units(f, S \ {x})
           B == Units(f, {x})
<1>1. IsFiniteSet(B) /\ Cardinality(B) = f[x] /\ Cardinality(A) \in Nat
  BY UnitsOfOne, FS_CardinalityType
<1>2. Units(f, S) = A \cup B /\ A \cap B = {} /\ Cardinality({}) = 0
  BY UnitsSplit, FS_EmptySet
<1> HIDE DEF A, B
<1>3. IsFiniteSet(A \cup B) /\ Cardinality(A \cup B) = Cardinality(A) + f[x] - Cardinality({})
  <2>1. IsFiniteSet(A)
    BY DEF A
  <2> QED
    BY <1>1, <1>2, <2>1, FS_Union
<1>4. IsFiniteSet(Units(f, S)) /\ Cardinality(Units(f, S)) = f[x] + Cardinality(A)
  BY <1>1, <1>2, <1>3
<1> QED
  BY <1>4 DEF A

(* A set has finitely many units: no smallest subset has others. *)
LEMMA UnitsFinite ==
  ASSUME NEW S, IsFiniteSet(S), NEW f \in [S -> Nat]
  PROVE  \A s \in SUBSET S : IsFiniteSet(Units(f, s))
<1> DEFINE Bad == {s \in SUBSET S : ~IsFiniteSet(Units(f, s))}
<1>1. SUFFICES ASSUME Bad # {} PROVE FALSE
  OBVIOUS
<1>2. PICK T \in Bad : \A U \in SUBSET T : U # T => U \notin Bad
  <2>1. Bad \in SUBSET (SUBSET S)
    OBVIOUS
  <2> HIDE DEF Bad
  <2> QED
    BY <1>1, <2>1, SmallestSubset
<1>3. T # {}
  BY FS_EmptySet DEF Units
<1>4. PICK x \in T : TRUE
  BY <1>3
<1>5. IsFiniteSet(Units(f, T \ {x}))
  BY <1>2
<1> QED
  BY <1>5, UnitsAddUp

(* The sum is the number of units. *)
LEMMA SumCounts ==
  ASSUME NEW S, IsFiniteSet(S), NEW f \in [S -> Nat]
  PROVE  SumFunctionOnSet(f, S) = Cardinality(Units(f, S))
<1> DEFINE count == [s \in SUBSET S |-> Cardinality(Units(f, s))]
<1>0. count[{}] = 0
  <2>1. Units(f, {}) = {}
    BY DEF Units
  <2> QED
    BY <2>1, FS_EmptySet
<1>1. ASSUME NEW s \in SUBSET S, NEW x \in s PROVE count[s] = f[x] + count[s \ {x}]
  BY UnitsFinite, UnitsAddUp
<1>2. IsPartialSum(f, S, count)
  <2>1. ASSUME NEW s \in SUBSET S
        PROVE  count[s] = IF s = {} THEN 0
                          ELSE LET x == CHOOSE x \in s : TRUE IN f[x] + count[s \ {x}]
    <3>1. CASE s = {}
      BY <1>0, <3>1
    <3>2. CASE s # {}
      <4>1. (CHOOSE x \in s : TRUE) \in s
        BY <3>2
      <4> HIDE DEF count
      <4> QED
        BY <3>2, <4>1, <1>1
    <3> QED
      BY <3>1, <3>2
  <2> QED
    BY <2>1, Zenon DEF IsPartialSum
<1>3. PICK h : IsPartialSum(f, S, h) /\ SumFunctionOnSet(f, S) = h[S]
  BY <1>2, SumUnfolds
<1>4. \A s \in SUBSET S : h[s] = count[s]
  <2> DEFINE Bad == {s \in SUBSET S : h[s] # count[s]}
  <2>1. SUFFICES ASSUME Bad # {} PROVE FALSE
    BY Zenon
  <2>2. PICK T \in Bad : \A U \in SUBSET T : U # T => U \notin Bad
    <3>1. Bad \in SUBSET (SUBSET S)
      BY Zenon
    <3> HIDE DEF Bad
    <3> QED
      BY <2>1, <3>1, SmallestSubset
  <2> HIDE DEF count
  <2>3. T \in SUBSET S /\ h[T] # count[T]
    OBVIOUS
  <2>4. h[T] = IF T = {} THEN 0 ELSE LET x == CHOOSE x \in T : TRUE IN f[x] + h[T \ {x}]
    BY <1>3, <2>3, Zenon DEF IsPartialSum
  <2>5. T # {}
    BY <1>0, <2>3, <2>4
  <2>6. PICK x \in T : h[T] = f[x] + h[T \ {x}]
    <3>1. (CHOOSE x \in T : TRUE) \in T
      BY <2>5
    <3> QED
      BY <2>4, <2>5, <3>1
  <2>7. h[T \ {x}] = count[T \ {x}]
    BY <2>2, <2>3
  <2> QED
    BY <1>1, <2>3, <2>6, <2>7
<1> QED
  BY <1>3, <1>4

(* The same of the whole function, whose sum therefore is a number. *)
LEMMA SumIsNatural ==
  ASSUME NEW S, IsFiniteSet(S), NEW f \in [S -> Nat]
  PROVE  SumFunction(f) = Cardinality(Units(f, S)) /\ SumFunction(f) \in Nat
<1>1. SumFunction(f) = SumFunctionOnSet(f, S)
  BY DEF SumFunction
<1>2. Cardinality(Units(f, S)) \in Nat
  BY UnitsFinite, FS_CardinalityType
<1> QED
  BY <1>1, <1>2, SumCounts

(* A sum is positive as soon as one of its terms is. *)
LEMMA SumIsPositive ==
  ASSUME NEW S, IsFiniteSet(S), NEW f \in [S -> Nat], NEW x \in S, f[x] > 0
  PROVE  SumFunction(f) > 0
<1>1. <<x, 1>> \in Units(f, S)
  BY DEF Units
<1>2. Cardinality(Units(f, S)) # 0
  BY <1>1, UnitsFinite, FS_EmptySet
<1> QED
  BY <1>2, SumIsNatural

(* Each term of f over S is a term of g over T of its own. *)
Embeds(h, f, S, g, T) ==
  /\ IsFiniteSet(S) /\ f \in [S -> Nat]
  /\ IsFiniteSet(T) /\ g \in [T -> Nat]
  /\ h \in [S -> T] /\ \A x, y \in S : h[x] = h[y] => x = y
  /\ \A x \in S : f[x] = g[h[x]]

(* The sums are then equal if all terms of g are reached, and the second   *)
(* is greater if one that is not 0 is missed.                              *)
LEMMA SumAlong ==
  ASSUME NEW S, NEW T, NEW f, NEW g, NEW h, Embeds(h, f, S, g, T)
  PROVE  /\ (\A y \in T : \E x \in S : h[x] = y) => SumFunction(f) = SumFunction(g)
         /\ (\E y \in T : g[y] > 0 /\ \A x \in S : h[x] # y) => SumFunction(f) < SumFunction(g)
<1> USE DEF Embeds
<1> DEFINE A == Units(f, S)
           B == Units(g, T)
           unit == [u \in A |-> <<h[u[1]], u[2]>>]
<1>1. unit \in [A -> B]
  BY DEF Units
<1>2. \A u, w \in A : unit[u] = unit[w] => u = w
  BY DEF Units
<1>3. unit \in Injection(A, B)
  BY <1>1, <1>2, Fun_IsInj
<1>4. IsFiniteSet(B) /\ Cardinality(A) \in Nat /\ Cardinality(B) \in Nat
  BY UnitsFinite, FS_CardinalityType
<1>5. /\ Cardinality(A) <= Cardinality(B)
      /\ Cardinality(A) = Cardinality(B) <=> unit \in Surjection(A, B)
  <2> HIDE DEF A, B, unit
  <2> QED
    BY <1>3, <1>4, FS_Injection
<1>6. SumFunction(f) = Cardinality(A) /\ SumFunction(g) = Cardinality(B)
  BY SumIsNatural
<1>7. ASSUME \A y \in T : \E x \in S : h[x] = y
      PROVE  SumFunction(f) = SumFunction(g)
  <2>1. \A w \in B : \E u \in A : unit[u] = w
    <3> SUFFICES ASSUME NEW w \in B PROVE \E u \in A : unit[u] = w
      OBVIOUS
    <3>1. PICK x \in S : h[x] = w[1]
      BY <1>7 DEF Units
    <3>2. <<x, w[2]>> \in A /\ unit[<<x, w[2]>>] = w
      BY <3>1 DEF Units
    <3> QED
      BY <3>2
  <2>2. unit \in Surjection(A, B)
    BY <1>1, <2>1, Fun_IsSurj
  <2> QED
    BY <1>5, <1>6, <2>2
<1>8. ASSUME NEW y \in T, g[y] > 0, \A x \in S : h[x] # y
      PROVE  SumFunction(f) < SumFunction(g)
  <2>1. <<y, 1>> \in B /\ \A u \in A : unit[u] # <<y, 1>>
    BY <1>8 DEF Units
  <2>2. unit \notin Surjection(A, B)
    BY <2>1 DEF Surjection
  <2> QED
    BY <1>4, <1>5, <1>6, <2>2
<1> QED
  BY <1>7, <1>8
-----------------------------------------------------------------------------
(* A set of natural numbers has a smallest, and if one bounds it a         *)
(* greatest: Min and Max of a set of positions are members of it.          *)
LEMMA SmallestNumber ==
  ASSUME NEW N \in SUBSET Nat, N # {}
  PROVE  \E m \in N : \A n \in N : m <= n
<1>1. PICK m \in N : \A n \in N : <<n, m>> \notin OpToRel(<, Nat)
  BY NatLessThanWellFounded, WFMin, Zenon
<1>2. \A n \in N : ~(n < m)
  BY <1>1 DEF OpToRel
<1> QED
  BY <1>2

(* So a set of positions in a request has a first and a last member. *)
LEMMA MinMaxInSet ==
  ASSUME NEW len \in Nat, NEW I \in SUBSET (1..len), I # {}
  PROVE  Min(I) \in I /\ Max(I) \in I
<1>1. \E m \in I : \A n \in I : m <= n
  BY SmallestNumber
<1>2. \E m \in I : \A n \in I : m >= n
  <2> DEFINE Bounds == {b \in Nat : \A n \in I : b >= n}
  <2>1. PICK b \in Bounds : \A c \in Bounds : b <= c
    <3>1. len \in Bounds /\ Bounds \in SUBSET Nat
      OBVIOUS
    <3> HIDE DEF Bounds
    <3> QED
      BY <3>1, SmallestNumber
  <2>2. CASE b \in I
    BY <2>2
  <2>3. CASE b \notin I
    <3>1. PICK n \in I : n \in 1..len
      OBVIOUS
    <3>2. b \in Nat /\ \A k \in I : b >= k /\ b # k /\ k \in Nat
      BY <2>3
    <3>3. b >= 1
      BY <3>1, <3>2
    <3>4. b - 1 \in Bounds
      BY <3>2, <3>3
    <3> QED
      BY <2>1, <3>2, <3>4
  <2> QED
    BY <2>2, <2>3
<1> QED
  BY <1>1, <1>2 DEF Min, Max

(* A request is a sequence of lines. *)
LEMMA RequestIsSequence ==
  ASSUME NEW lines \in Requests
  PROVE  /\ Len(lines) \in Nat /\ lines \in [1..Len(lines) -> Lines]
         /\ DOMAIN lines = 1..Len(lines) /\ IsFiniteSet(DOMAIN lines)
         /\ ToSet(lines) = {lines[n] : n \in 1..Len(lines)}
         /\ lines = <<>> <=> DOMAIN lines = {}
<1>1. PICK m \in 0..MaxLines : lines \in [1..m -> Lines]
  BY DEF Requests, SeqOf
<1>2. m \in Nat
  BY QuoteDetailsAssumption
<1>3. Len(lines) = m /\ DOMAIN lines = 1..m
  BY <1>1, <1>2
<1>4. lines = <<>> <=> DOMAIN lines = {}
  BY <1>1, <1>2, <1>3
<1>5. IsFiniteSet(1..m)
  BY <1>2, FS_Interval
<1>6. ToSet(lines) = {lines[n] : n \in 1..m}
  BY <1>3 DEF ToSet
<1> QED
  BY <1>1, <1>2, <1>3, <1>4, <1>5, <1>6

LastOf(v, lines) == SelectLastInSeq(lines, LAMBDA line : line.variant = v)
FirstOf(v, lines) == SelectInSeq(lines, LAMBDA line : line.variant = v)

(* The lines that Priced and Customized look for are there. *)
LEMMA LinesAreFound ==
  ASSUME NEW lines \in Requests, NEW v \in VariantsIn(lines)
  PROVE  /\ LastOf(v, lines) \in DOMAIN lines /\ lines[LastOf(v, lines)].variant = v
         /\ FirstOf(v, lines) \in DOMAIN lines /\ lines[FirstOf(v, lines)].variant = v
<1> DEFINE I == {n \in 1..Len(lines) : lines[n].variant = v}
<1>1. I # {}
  BY RequestIsSequence DEF VariantsIn
<1>2. LastOf(v, lines) = Max(I) /\ FirstOf(v, lines) = Min(I)
  BY <1>1 DEF LastOf, FirstOf, SelectLastInSeq, SelectInSeq
<1>3. Max(I) \in I /\ Min(I) \in I
  <2>1. I \in SUBSET (1..Len(lines)) /\ Len(lines) \in Nat
    BY RequestIsSequence
  <2> HIDE DEF I
  <2> QED
    BY <1>1, <2>1, MinMaxInSet
<1>4. \A n \in I : n \in DOMAIN lines /\ lines[n].variant = v
  BY RequestIsSequence
<1> HIDE DEF I
<1> QED
  BY <1>2, <1>3, <1>4

(* What a row owes to a line. *)
RowOf(row, line) == row.variant = line.variant /\ row.quantity = line.quantity

(* getDetailUnitPrice makes one row per variant, of one of its lines.      *)
LEMMA PricesFollowLines ==
  ASSUME NEW lines \in Requests
  PROVE  /\ IsFiniteSet(VariantsIn(lines)) /\ IsFiniteSet(Prices(lines))
         /\ \A p \in Prices(lines) : /\ p.unitPrice = Price[p.variant]
                                      /\ \E n \in DOMAIN lines : RowOf(p, lines[n])
         /\ \A p, r \in Prices(lines) : p.variant = r.variant => p = r
         /\ \A n \in DOMAIN lines : \E p \in Prices(lines) : p.variant = lines[n].variant
<1> DEFINE V == VariantsIn(lines)
<1>1. V = {lines[n].variant : n \in DOMAIN lines}
  BY RequestIsSequence DEF VariantsIn
<1>2. IsFiniteSet(V)
  <2> DEFINE f == [n \in DOMAIN lines |-> lines[n].variant]
  <2>1. f \in Surjection(DOMAIN lines, V)
    BY <1>1, Fun_IsSurj
  <2> QED
    BY <2>1, RequestIsSequence, FS_Surjection
<1>3. ASSUME NEW v \in V
      PROVE  /\ Priced(v, lines).variant = v
             /\ Priced(v, lines).unitPrice = Price[v]
             /\ \E n \in DOMAIN lines : RowOf(Priced(v, lines), lines[n])
  <2>1. Priced(v, lines) = [variant |-> v, unitPrice |-> Price[v],
                            quantity |-> lines[LastOf(v, lines)].quantity]
    BY DEF Priced, LastOf
  <2>2. RowOf(Priced(v, lines), lines[LastOf(v, lines)])
    BY <2>1, LinesAreFound DEF RowOf
  <2> QED
    BY <2>1, <2>2, LinesAreFound
<1>4. Prices(lines) = {Priced(v, lines) : v \in V}
  BY DEF Prices
<1>5. IsFiniteSet(Prices(lines))
  <2> DEFINE f == [v \in V |-> Priced(v, lines)]
  <2>1. f \in Surjection(V, Prices(lines))
    BY <1>4, Fun_IsSurj
  <2> QED
    BY <1>2, <2>1, FS_Surjection
<1> HIDE DEF V
<1>6. \A p \in Prices(lines) : /\ p.unitPrice = Price[p.variant]
                               /\ \E n \in DOMAIN lines : RowOf(p, lines[n])
  BY <1>3, <1>4
<1>7. \A p, r \in Prices(lines) : p.variant = r.variant => p = r
  BY <1>3, <1>4
<1>8. \A n \in DOMAIN lines : \E p \in Prices(lines) : p.variant = lines[n].variant
  BY <1>1, <1>3, <1>4
<1> QED
  BY <1>2, <1>5, <1>6, <1>7, <1>8 DEF V

(* One row per variant, of one of its lines, and what a row and a line are *)
(* worth.                                                                  *)
OneRowEach(rows, lines, f, g) ==
  /\ IsFiniteSet(rows)
  /\ \A p \in rows : \E n \in DOMAIN lines : RowOf(p, lines[n])
  /\ \A p, r \in rows : p.variant = r.variant => p = r
  /\ \A n \in DOMAIN lines : \E p \in rows : p.variant = lines[n].variant
  /\ f \in [rows -> Nat] /\ g \in [DOMAIN lines -> Nat]
  /\ \A p \in rows, n \in DOMAIN lines : RowOf(p, lines[n]) => f[p] = g[n]
  /\ \A n \in DOMAIN lines : g[n] > 0

(* Rows sum up to less than the lines if a variant is in two of them, and  *)
(* to the same if none is.                                                 *)
LEMMA RowsAgainstLines ==
  ASSUME NEW lines \in Requests, NEW rows, NEW f, NEW g, OneRowEach(rows, lines, f, g)
  PROVE  /\ Repeats(lines) => SumFunction(f) < SumFunction(g)
         /\ ~Repeats(lines) => SumFunction(f) = SumFunction(g)
<1> USE DEF OneRowEach
<1> DEFINE h == [p \in rows |-> CHOOSE n \in DOMAIN lines : RowOf(p, lines[n])]
<1>1. \A p \in rows : h[p] \in DOMAIN lines /\ RowOf(p, lines[h[p]])
  OBVIOUS
<1>2. h \in [rows -> DOMAIN lines]
  BY <1>1
<1> HIDE DEF h
<1>3. \A p, r \in rows : h[p] = h[r] => p = r
  BY <1>1 DEF RowOf
<1>4. \A p \in rows : f[p] = g[h[p]]
  BY <1>1
<1>5. IsFiniteSet(DOMAIN lines)
  BY RequestIsSequence
<1>6. /\ (\A n \in DOMAIN lines : \E p \in rows : h[p] = n) => SumFunction(f) = SumFunction(g)
      /\ (\E n \in DOMAIN lines : g[n] > 0 /\ \A p \in rows : h[p] # n)
           => SumFunction(f) < SumFunction(g)
  <2>1. Embeds(h, f, rows, g, DOMAIN lines)
    BY <1>2, <1>3, <1>4, <1>5 DEF Embeds
  <2> QED
    BY <2>1, SumAlong
<1>7. ASSUME Repeats(lines) PROVE SumFunction(f) < SumFunction(g)
  <2>1. PICK m \in DOMAIN lines, n \in DOMAIN lines : m # n /\ lines[m].variant = lines[n].variant
    BY <1>7 DEF Repeats
  <2>2. PICK p \in rows : p.variant = lines[m].variant
    OBVIOUS
  <2>3. \A r \in rows : h[r] \in {m, n} => r = p
    BY <1>1, <2>1, <2>2 DEF RowOf
  <2>4. \E k \in {m, n} : \A r \in rows : h[r] # k
    BY <2>1, <2>3
  <2> QED
    BY <1>6, <2>4
<1>8. ASSUME ~Repeats(lines) PROVE SumFunction(f) = SumFunction(g)
  <2>1. ASSUME NEW n \in DOMAIN lines PROVE \E p \in rows : h[p] = n
    <3>1. PICK p \in rows : p.variant = lines[n].variant
      OBVIOUS
    <3>2. h[p] = n
      BY <1>1, <1>8, <3>1 DEF Repeats, RowOf
    <3> QED
      BY <3>2
  <2> QED
    BY <1>6, <2>1
<1> QED
  BY <1>7, <1>8

DetailsOf(lines) == {Customized(p, lines) : p \in Prices(lines)}

SameGoods(d, p) ==
  d.variant = p.variant /\ d.unitPrice = p.unitPrice /\ d.quantity = p.quantity

(* The details are the rows of getDetailUnitPrice, with the customizations *)
(* of some line of the variant.                                            *)
LEMMA DetailsFollowPrices ==
  ASSUME NEW lines \in Requests
  PROVE  /\ IsFiniteSet(DetailsOf(lines)) /\ DetailsOf(lines) \subseteq Detail
         /\ \A d \in DetailsOf(lines) :
              /\ \E p \in Prices(lines) : SameGoods(d, p)
              /\ \E n \in DOMAIN lines : RowOf(d, lines[n])
              /\ \E n \in DOMAIN lines : /\ lines[n].variant = d.variant
                                         /\ lines[n].customizations = d.customizations
         /\ \A c, d \in DetailsOf(lines) : c.variant = d.variant => c = d
         /\ \A p \in Prices(lines) : \E d \in DetailsOf(lines) : SameGoods(d, p)
<1>1. IsFiniteSet(DetailsOf(lines))
  <2> DEFINE f == [p \in Prices(lines) |-> Customized(p, lines)]
  <2>1. f \in Surjection(Prices(lines), DetailsOf(lines))
    BY Fun_IsSurj DEF DetailsOf
  <2> QED
    BY <2>1, PricesFollowLines, FS_Surjection
<1>2. ASSUME NEW p \in Prices(lines)
      PROVE  /\ SameGoods(Customized(p, lines), p)
             /\ Customized(p, lines) \in Detail
             /\ \E n \in DOMAIN lines : RowOf(Customized(p, lines), lines[n])
             /\ \E n \in DOMAIN lines :
                  /\ lines[n].variant = Customized(p, lines).variant
                  /\ lines[n].customizations = Customized(p, lines).customizations
  <2> DEFINE first == FirstOf(p.variant, lines)
  <2>1. Customized(p, lines) = [variant |-> p.variant, unitPrice |-> p.unitPrice,
                                quantity |-> p.quantity,
                                customizations |-> lines[first].customizations]
    BY DEF Customized, FirstOf
  <2>2. PICK n \in DOMAIN lines : RowOf(p, lines[n])
    BY PricesFollowLines
  <2>3. p.unitPrice = Price[p.variant]
    BY PricesFollowLines
  <2>4. p.variant \in VariantsIn(lines)
    BY <2>2, RequestIsSequence DEF VariantsIn, RowOf
  <2>5. first \in DOMAIN lines /\ lines[first].variant = p.variant
    BY <2>4, LinesAreFound
  <2> HIDE DEF first
  <2>6. lines[n] \in Lines /\ lines[first] \in Lines
    BY <2>5, RequestIsSequence
  <2>7. p.variant \in Variants /\ p.quantity \in Quantities
    BY <2>2, <2>6 DEF RowOf, Lines
  <2>8. Customized(p, lines) \in Detail
    BY <2>1, <2>3, <2>6, <2>7, QuoteDetailsAssumption DEF Detail, Lines
  <2> QED
    BY <2>1, <2>2, <2>5, <2>8 DEF SameGoods, RowOf
<1>3. \A c, d \in DetailsOf(lines) : c.variant = d.variant => c = d
  BY <1>2, PricesFollowLines DEF DetailsOf, SameGoods
<1> QED
  BY <1>1, <1>2, <1>3 DEF DetailsOf

(* No variant is left out of the details, nor is another among them.       *)
LEMMA DetailsCoverVariants ==
  ASSUME NEW lines \in Requests
  PROVE  VariantsIn(lines) = {d.variant : d \in DetailsOf(lines)}
<1>1. VariantsIn(lines) = {lines[n].variant : n \in DOMAIN lines}
  BY RequestIsSequence DEF VariantsIn
<1>2. ASSUME NEW n \in DOMAIN lines
      PROVE  \E d \in DetailsOf(lines) : d.variant = lines[n].variant
  <2>1. PICK p \in Prices(lines) : p.variant = lines[n].variant
    BY PricesFollowLines
  <2>2. PICK d \in DetailsOf(lines) : SameGoods(d, p)
    BY DetailsFollowPrices
  <2> QED
    BY <2>1, <2>2 DEF SameGoods
<1>3. \A d \in DetailsOf(lines) : \E n \in DOMAIN lines : lines[n].variant = d.variant
  BY DetailsFollowPrices
<1> QED
  BY <1>1, <1>2, <1>3

(* What lines and rows are worth: a natural number each. *)
LEMMA WorthIsNatural ==
  ASSUME NEW lines \in Requests
  PROVE  /\ \A n \in DOMAIN lines :
              /\ lines[n].quantity \in Nat /\ lines[n].quantity > 0
              /\ Price[lines[n].variant] * lines[n].quantity \in Nat
              /\ Price[lines[n].variant] * lines[n].quantity > 0
         /\ \A p \in Prices(lines) : p.unitPrice * p.quantity \in Nat
         /\ \A d \in DetailsOf(lines) : d.unitPrice * d.quantity \in Nat /\ d.quantity \in Nat
<1>1. \A i, j \in Nat \ {0} : i * j \in Nat /\ i * j > 0
  OBVIOUS
<1>2. ASSUME NEW n \in DOMAIN lines
      PROVE  lines[n].quantity \in Nat \ {0} /\ Price[lines[n].variant] \in Nat \ {0}
  BY RequestIsSequence, QuoteDetailsAssumption DEF Lines
<1>3. ASSUME NEW p \in Prices(lines)
      PROVE  p.unitPrice \in Nat \ {0} /\ p.quantity \in Nat \ {0}
  BY <1>2, PricesFollowLines DEF RowOf
<1>4. ASSUME NEW d \in DetailsOf(lines)
      PROVE  d.unitPrice \in Nat \ {0} /\ d.quantity \in Nat \ {0}
  BY <1>3, DetailsFollowPrices DEF SameGoods
<1> QED
  BY <1>1, <1>2, <1>3, <1>4

(* The total is what the lines cost, or less if a variant is in two.       *)
LEMMA TotalAgainstLines ==
  ASSUME NEW lines \in Requests
  PROVE  /\ calculateTotal(Prices(lines)) \in Nat
         /\ Repeats(lines) => calculateTotal(Prices(lines)) < RequestedTotal(lines)
         /\ ~Repeats(lines) => calculateTotal(Prices(lines)) = RequestedTotal(lines)
<1> DEFINE f == [p \in Prices(lines) |-> p.unitPrice * p.quantity]
           g == [n \in DOMAIN lines |-> Price[lines[n].variant] * lines[n].quantity]
<1>1. calculateTotal(Prices(lines)) = SumFunction(f) /\ RequestedTotal(lines) = SumFunction(g)
  BY DEF calculateTotal, RequestedTotal
<1>2. f \in [Prices(lines) -> Nat] /\ g \in [DOMAIN lines -> Nat] /\ \A n \in DOMAIN lines : g[n] > 0
  BY WorthIsNatural
<1>3. \A p \in Prices(lines), n \in DOMAIN lines : RowOf(p, lines[n]) => f[p] = g[n]
  BY PricesFollowLines DEF RowOf
<1> HIDE DEF f, g
<1>4. /\ Repeats(lines) => SumFunction(f) < SumFunction(g)
      /\ ~Repeats(lines) => SumFunction(f) = SumFunction(g)
  <2>1. OneRowEach(Prices(lines), lines, f, g)
    BY <1>2, <1>3, PricesFollowLines DEF OneRowEach
  <2> QED
    BY <2>1, RowsAgainstLines
<1>5. SumFunction(f) \in Nat
  BY <1>2, PricesFollowLines, SumIsNatural, Zenon
<1> QED
  BY <1>1, <1>4, <1>5

(* So are the units, whose number is never 0. *)
LEMMA UnitsAgainstLines ==
  ASSUME NEW lines \in Requests, lines # <<>>
  PROVE  LET units == Goods(DetailsOf(lines)).totalUnitsToProduced IN
         /\ units \in Nat /\ units > 0
         /\ RequestedUnits(lines) \in Nat
         /\ Repeats(lines) => units < RequestedUnits(lines)
         /\ ~Repeats(lines) => units = RequestedUnits(lines)
<1> DEFINE D == DetailsOf(lines)
           f == [d \in D |-> d.quantity]
           g == [n \in DOMAIN lines |-> lines[n].quantity]
<1>1. Goods(D).totalUnitsToProduced = SumFunction(f) /\ RequestedUnits(lines) = SumFunction(g)
  BY DEF Goods, RequestedUnits
<1>2. f \in [D -> Nat] /\ g \in [DOMAIN lines -> Nat] /\ \A n \in DOMAIN lines : g[n] > 0
  BY WorthIsNatural
<1>3. \A d \in D, n \in DOMAIN lines : RowOf(d, lines[n]) => f[d] = g[n]
  BY DEF RowOf
<1>4. \A n \in DOMAIN lines : \E d \in D : d.variant = lines[n].variant
  BY PricesFollowLines, DetailsFollowPrices DEF SameGoods
<1>5. \E d \in D : f[d] > 0
  <2>1. PICK n \in DOMAIN lines : TRUE
    BY RequestIsSequence
  <2>2. PICK d \in D : d.variant = lines[n].variant
    BY <1>4
  <2>3. PICK k \in DOMAIN lines : RowOf(d, lines[k])
    BY DetailsFollowPrices
  <2>4. f[d] = g[k] /\ g[k] > 0
    BY <1>2, <1>3, <2>3
  <2> QED
    BY <2>4
<1>6. /\ Repeats(lines) => SumFunction(f) < SumFunction(g)
      /\ ~Repeats(lines) => SumFunction(f) = SumFunction(g)
  <2> HIDE DEF f, g
  <2>1. OneRowEach(D, lines, f, g)
    BY <1>2, <1>3, <1>4, DetailsFollowPrices DEF OneRowEach
  <2> QED
    BY <2>1, RowsAgainstLines
<1>7. SumFunction(f) \in Nat /\ SumFunction(f) > 0 /\ SumFunction(g) \in Nat
  <2> HIDE DEF f, g
  <2> QED
    BY <1>2, <1>5, DetailsFollowPrices, RequestIsSequence, SumIsNatural, SumIsPositive
<1> QED
  BY <1>1, <1>6, <1>7

(* What the details add up to is the total. *)
LEMMA DetailsAddUp ==
  ASSUME NEW lines \in Requests
  PROVE  SumFunction([d \in DetailsOf(lines) |-> d.unitPrice * d.quantity])
           = calculateTotal(Prices(lines))
<1> DEFINE D == DetailsOf(lines)
           P == Prices(lines)
           f == [d \in D |-> d.unitPrice * d.quantity]
           g == [p \in P |-> p.unitPrice * p.quantity]
           h == [d \in D |-> CHOOSE p \in P : SameGoods(d, p)]
<1>1. f \in [D -> Nat] /\ g \in [P -> Nat] /\ IsFiniteSet(D) /\ IsFiniteSet(P)
  BY WorthIsNatural, DetailsFollowPrices, PricesFollowLines
<1>2. \A d \in D : h[d] \in P /\ SameGoods(d, h[d])
  BY DetailsFollowPrices
<1>3. h \in [D -> P]
  BY <1>2
<1> HIDE DEF h
<1>4. \A c, d \in D : h[c] = h[d] => c = d
  BY <1>2, DetailsFollowPrices DEF SameGoods
<1>5. \A d \in D : f[d] = g[h[d]]
  BY <1>2 DEF SameGoods
<1>6. \A p \in P : \E d \in D : h[d] = p
  BY <1>2, DetailsFollowPrices, PricesFollowLines DEF SameGoods
<1>7. SumFunction(f) = SumFunction(g)
  <2>1. Embeds(h, f, D, g, P)
    BY <1>1, <1>3, <1>4, <1>5 DEF Embeds
  <2> HIDE DEF D, P, f, g
  <2> QED
    BY <1>6, <2>1, SumAlong
<1> QED
  BY <1>7 DEF calculateTotal
-----------------------------------------------------------------------------
(* What is saved is what was asked for, and nothing is live or ordered     *)
(* that was not saved.  A quote with an order stays approved and live, so  *)
(* no operation reaches its details or its total.                          *)
SavedAsAsked ==
  \A q \in Saved :
    /\ asked[q] \in Requests /\ asked[q] # <<>> /\ validateCustomizations(asked[q])
    /\ quote[q].total = calculateTotal(Prices(asked[q]))
    /\ details[q] = DetailsOf(asked[q])

LiveWereSaved == \A q \in Quotes : quote[q].live => q \in Saved

OrdersHoldTheirQuotes ==
  \A q \in Quotes : ordered[q] # 0 =>
    quote[q].status = "APPROVED" /\ quote[q].live /\ ordered[q] = quote[q].total

IInv == TypeOK /\ SavedAsAsked /\ LiveWereSaved /\ OrdersHoldTheirQuotes

(* No quote is saved yet. *)
LEMMA InitIInv == Init => IInv
<1> SUFFICES ASSUME Init PROVE IInv
  OBVIOUS
<1>1. \A q \in Quotes : quote[q].status = "none" /\ ~quote[q].live /\ ordered[q] = 0
  BY DEF Init
<1>2. <<>> \in Requests
  <2>1. <<>> \in [1..0 -> Lines]
    OBVIOUS
  <2>2. 0 \in 0..MaxLines
    BY QuoteDetailsAssumption
  <2> QED
    BY <2>1, <2>2 DEF Requests, SeqOf
<1>3. TypeOK
  BY <1>2, QuoteDetailsAssumption DEF Init, TypeOK, Status
<1> QED
  BY <1>1, <1>3 DEF IInv, SavedAsAsked, LiveWereSaved, OrdersHoldTheirQuotes, Saved

(* Saving replaces total and details alike, and only of a quote that has   *)
(* no order.                                                               *)
LEMMA SaveKeepsIInv ==
  ASSUME IInv, NEW q \in Quotes, NEW lines \in Requests, lines # <<>>,
         validateCustomizations(lines), ordered[q] = 0, Save(q, lines)
  PROVE  IInv'
<1> USE DEF IInv
<1> DEFINE total == calculateTotal(Prices(lines))
<1>1. total \in 0..MaxMoney
  BY TotalAgainstLines, QuoteDetailsAssumption DEF Save
<1>2. DetailsOf(lines) \in SUBSET Detail
  BY DetailsFollowPrices
<1>3. /\ quote' = [quote EXCEPT ![q] = [status |-> "PENDING", total |-> total, live |-> TRUE]]
      /\ details' = [details EXCEPT ![q] = DetailsOf(lines)]
      /\ asked' = [asked EXCEPT ![q] = lines]
      /\ ordered' = ordered
  BY DEF Save, DetailsOf
<1> HIDE DEF total
<1>4. TypeOK'
  BY <1>1, <1>2, <1>3 DEF TypeOK, Status
<1>5. /\ quote'[q].status = "PENDING" /\ quote'[q].live /\ quote'[q].total = total
      /\ details'[q] = DetailsOf(lines) /\ asked'[q] = lines
      /\ \A p \in Quotes : p # q => /\ quote'[p] = quote[p] /\ details'[p] = details[p]
                                    /\ asked'[p] = asked[p]
  BY <1>3 DEF TypeOK
<1>6. SavedAsAsked'
  BY <1>5 DEF SavedAsAsked, Saved, total
<1>7. LiveWereSaved' /\ OrdersHoldTheirQuotes'
  BY <1>3, <1>5 DEF LiveWereSaved, OrdersHoldTheirQuotes, Saved
<1> QED
  BY <1>4, <1>6, <1>7

(* A step that leaves totals, details and requests as they are. *)
LEMMA StatusKeepsIInv ==
  ASSUME IInv, TypeOK', UNCHANGED <<details, asked>>,
         \A q \in Quotes : /\ quote'[q].total = quote[q].total
                           /\ quote'[q].status = "none" <=> quote[q].status = "none"
                           /\ quote'[q].live => quote[q].live,
         OrdersHoldTheirQuotes'
  PROVE  IInv'
BY DEF IInv, SavedAsAsked, LiveWereSaved, Saved

(* Every call keeps quotes as they were asked for. *)
LEMMA StepIInv == IInv /\ [Next]_vars => IInv'
<1> SUFFICES ASSUME IInv, [Next]_vars PROVE IInv'
  OBVIOUS
<1> USE DEF IInv
<1>1. ASSUME NEW q \in Quotes, NEW lines \in Requests, CreateQuote(q, lines) PROVE IInv'
  BY <1>1, SaveKeepsIInv DEF CreateQuote, OrdersHoldTheirQuotes
<1>2. ASSUME NEW q \in Quotes, NEW lines \in Requests, UpdateQuote(q, lines) PROVE IInv'
  BY <1>2, SaveKeepsIInv DEF UpdateQuote, Pending, OrdersHoldTheirQuotes
<1>3. ASSUME NEW q \in Quotes, CancelQuote(q) PROVE IInv'
  <2>1. TypeOK' /\ OrdersHoldTheirQuotes'
    BY <1>3 DEF CancelQuote, Pending, TypeOK, Status, OrdersHoldTheirQuotes
  <2> QED
    BY <1>3, <2>1, StatusKeepsIInv DEF CancelQuote, Pending, TypeOK
<1>4. ASSUME NEW q \in Quotes, DeleteQuote(q) PROVE IInv'
  <2>1. TypeOK' /\ OrdersHoldTheirQuotes'
    BY <1>4 DEF DeleteQuote, TypeOK, OrdersHoldTheirQuotes
  <2> QED
    BY <1>4, <2>1, StatusKeepsIInv DEF DeleteQuote, TypeOK
<1>5. ASSUME NEW q \in Quotes, CreateOrder(q) PROVE IInv'
  <2>1. TypeOK' /\ OrdersHoldTheirQuotes'
    BY <1>5 DEF CreateOrder, Pending, TypeOK, Status, OrdersHoldTheirQuotes
  <2> QED
    BY <1>5, <2>1, StatusKeepsIInv DEF CreateOrder, Pending, TypeOK
<1>6. CASE UNCHANGED vars
  BY <1>6 DEF vars, TypeOK, SavedAsAsked, LiveWereSaved, OrdersHoldTheirQuotes, Saved
<1> QED
  BY <1>1, <1>2, <1>3, <1>4, <1>5, <1>6 DEF Next

(* Quotes say and cost what was asked for, at all times. *)
THEOREM InductiveInvariant == Spec => []IInv
BY InitIInv, StepIInv, PTL DEF Spec

(* Rows keep their types; in particular no total exceeds its column. *)
THEOREM TypesHold == Spec => []TypeOK
<1>1. IInv => TypeOK
  BY DEF IInv
<1> QED
  BY InductiveInvariant, <1>1, PTL

(* The client pays what the lines cost, or less exactly when a variant was *)
(* in two of them.                                                         *)
THEOREM ChargesFollowRequests == Spec => []ChargedAsRequested
<1>1. IInv => ChargedAsRequested
  BY TotalAgainstLines DEF IInv, SavedAsAsked, ChargedAsRequested
<1> QED
  BY InductiveInvariant, <1>1, PTL

(* The listing of quotes shows the garments and the units that were asked  *)
(* for, and what it shows is what the total charges.                       *)
THEOREM ListingsFollowRequests == Spec => []ListedAsRequested
<1>1. ASSUME IInv, NEW q \in Saved
      PROVE  LET goods == QuoteSummary(q).goods
                 units == RequestedUnits(asked[q])
             IN /\ goods.totalClothes = Cardinality({ItemOf[v] : v \in VariantsIn(asked[q])})
                /\ goods.totalUnitsToProduced <= units
                /\ goods.totalUnitsToProduced = units <=> ~Repeats(asked[q])
                /\ quote[q].total = SumFunction([d \in details[q] |-> d.unitPrice * d.quantity])
  <2>1. /\ asked[q] \in Requests /\ asked[q] # <<>>
        /\ quote[q].total = calculateTotal(Prices(asked[q]))
        /\ details[q] = DetailsOf(asked[q])
    BY <1>1 DEF IInv, SavedAsAsked
  <2>2. QuoteSummary(q).goods = Goods(DetailsOf(asked[q]))
    BY <2>1 DEF QuoteSummary
  <2>3. {ItemOf[d.variant] : d \in DetailsOf(asked[q])} = {ItemOf[v] : v \in VariantsIn(asked[q])}
    BY <2>1, DetailsCoverVariants
  <2>4. Goods(DetailsOf(asked[q])).totalClothes
          = Cardinality({ItemOf[v] : v \in VariantsIn(asked[q])})
    BY <2>3 DEF Goods
  <2>5. LET units == Goods(DetailsOf(asked[q])).totalUnitsToProduced IN
        /\ units <= RequestedUnits(asked[q])
        /\ units = RequestedUnits(asked[q]) <=> ~Repeats(asked[q])
    BY <2>1, UnitsAgainstLines
  <2> QED
    BY <2>1, <2>2, <2>4, <2>5, DetailsAddUp
<1>2. IInv => ListedAsRequested
  BY <1>1 DEF ListedAsRequested
<1> QED
  BY InductiveInvariant, <1>2, PTL

(* More customizations than pieces need a variant in two lines: quantity   *)
(* and customizations of a detail come from lines that were each checked.  *)
THEOREM CustomizationsFit == Spec => []CustomizationsFitStored
<1>1. ASSUME IInv, NEW q \in Saved, NEW d \in details[q], d.customizations > d.quantity
      PROVE  Repeats(asked[q])
  <2> DEFINE lines == asked[q]
  <2>1. lines \in Requests /\ validateCustomizations(lines) /\ d \in DetailsOf(lines)
    BY <1>1 DEF IInv, SavedAsAsked
  <2> HIDE DEF lines
  <2>2. PICK m \in DOMAIN lines : RowOf(d, lines[m])
    BY <2>1, DetailsFollowPrices
  <2>3. PICK n \in DOMAIN lines : /\ lines[n].variant = d.variant
                                  /\ lines[n].customizations = d.customizations
    BY <2>1, DetailsFollowPrices
  <2>4. lines[n].customizations <= lines[n].quantity
    BY <2>1, RequestIsSequence DEF validateCustomizations
  <2>5. m # n
    <3>1. SUFFICES ASSUME m = n PROVE FALSE
      OBVIOUS
    <3>2. lines[n] \in Lines
      BY <2>1, RequestIsSequence
    <3>3. lines[n].quantity \in Nat /\ lines[n].customizations \in Nat
      BY <3>2, QuoteDetailsAssumption DEF Lines
    <3>4. d.quantity = lines[n].quantity /\ d.customizations = lines[n].customizations
      BY <2>2, <2>3, <3>1 DEF RowOf
    <3> QED
      BY <1>1, <2>4, <3>3, <3>4
  <2> QED
    BY <2>2, <2>3, <2>5 DEF Repeats, RowOf, lines
<1>2. IInv => CustomizationsFitStored
  BY <1>1 DEF CustomizationsFitStored
<1> QED
  BY InductiveInvariant, <1>2, PTL

(* An order is listed as its quote is, with goods: its quote is never      *)
(* deleted, edited or cancelled.                                           *)
THEOREM OrdersShowTheirQuotes == Spec => []OrdersListedAsQuoted
<1>1. ASSUME IInv, NEW q \in Quotes, ordered[q] # 0
      PROVE  /\ OrderSummary(q) = QuoteSummary(q)
             /\ OrderSummary(q).goods.totalUnitsToProduced > 0
  <2>1. quote[q].live /\ ordered[q] = quote[q].total /\ q \in Saved
    BY <1>1 DEF IInv, OrdersHoldTheirQuotes, LiveWereSaved
  <2>2. OrderSummary(q) = QuoteSummary(q)
    BY <2>1 DEF OrderSummary, QuoteSummary
  <2>3. OrderSummary(q).goods = Goods(DetailsOf(asked[q]))
    BY <1>1, <2>1 DEF OrderSummary, IInv, SavedAsAsked
  <2>4. asked[q] \in Requests /\ asked[q] # <<>>
    BY <1>1, <2>1 DEF IInv, SavedAsAsked
  <2> QED
    BY <2>2, <2>3, <2>4, UnitsAgainstLines
<1>2. IInv => OrdersListedAsQuoted
  BY <1>1 DEF OrdersListedAsQuoted
<1> QED
  BY InductiveInvariant, <1>2, PTL
-----------------------------------------------------------------------------
(* validateNoDuplicateVariants counts, and means that no variant repeats.  *)
LEMMA CountingFindsRepeats ==
  ASSUME NEW lines \in Requests, validateNoDuplicateVariants(lines)
  PROVE  ~Repeats(lines)
<1> DEFINE f == [n \in DOMAIN lines |-> lines[n].variant]
<1>1. f \in Surjection(DOMAIN lines, VariantsIn(lines))
  <2>1. VariantsIn(lines) = {lines[n].variant : n \in DOMAIN lines}
    BY RequestIsSequence DEF VariantsIn
  <2> QED
    BY <2>1, Fun_IsSurj
<1>2. Cardinality(DOMAIN lines) = Cardinality(VariantsIn(lines)) /\ IsFiniteSet(DOMAIN lines)
  BY RequestIsSequence, FS_Interval DEF validateNoDuplicateVariants
<1>3. f \in Injection(DOMAIN lines, VariantsIn(lines))
  BY <1>1, <1>2, FS_SurjSameCardinalityImpliesInj
<1> QED
  BY <1>3, Fun_InjectionProperties DEF Repeats

(* There are as many details as variants. *)
LEMMA DetailsPerVariant ==
  ASSUME NEW lines \in Requests
  PROVE  Cardinality(DetailsOf(lines)) = Cardinality(VariantsIn(lines))
<1> DEFINE D == DetailsOf(lines)
           V == VariantsIn(lines)
           f == [d \in D |-> d.variant]
<1>1. V = {d.variant : d \in D}
  BY DetailsCoverVariants
<1>2. f \in [D -> V] /\ \A c, d \in D : f[c] = f[d] => c = d
  BY <1>1, DetailsFollowPrices
<1>3. \A v \in V : \E d \in D : f[d] = v
  BY <1>1
<1>4. f \in Bijection(D, V)
  BY <1>2, <1>3, Fun_IsBij
<1>5. IsFiniteSet(D) /\ ExistsBijection(D, V)
  BY <1>4, DetailsFollowPrices DEF ExistsBijection
<1> QED
  BY <1>5, FS_Bijection

(* An edit leaves exactly the lines it was given: it is the only step that *)
(* changes the details of a live quote.                                    *)
THEOREM EditsKeepEveryLine == Spec => EditsAreExact
<1> DEFINE Exact(q) ==
      /\ Cardinality(details'[q]) = Len(asked'[q])
      /\ \A n \in DOMAIN asked'[q] : \E d \in details'[q] :
           /\ d.variant = asked'[q][n].variant
           /\ d.quantity = asked'[q][n].quantity
           /\ d.customizations = asked'[q][n].customizations
<1>1. ASSUME NEW lines \in Requests, validateNoDuplicateVariants(lines)
      PROVE  /\ Cardinality(DetailsOf(lines)) = Len(lines)
             /\ \A n \in DOMAIN lines : \E d \in DetailsOf(lines) :
                  /\ d.variant = lines[n].variant
                  /\ d.quantity = lines[n].quantity
                  /\ d.customizations = lines[n].customizations
  <2>1. Cardinality(DetailsOf(lines)) = Len(lines)
    BY <1>1, DetailsPerVariant DEF validateNoDuplicateVariants
  <2>2. ASSUME NEW n \in DOMAIN lines
        PROVE  \E d \in DetailsOf(lines) : /\ d.variant = lines[n].variant
                                           /\ d.quantity = lines[n].quantity
                                           /\ d.customizations = lines[n].customizations
    <3>1. PICK d \in DetailsOf(lines) : d.variant = lines[n].variant
      BY PricesFollowLines, DetailsFollowPrices DEF SameGoods
    <3>2. \A m \in DOMAIN lines : lines[m].variant = lines[n].variant => m = n
      BY <1>1, CountingFindsRepeats DEF Repeats
    <3>3. d.quantity = lines[n].quantity /\ d.customizations = lines[n].customizations
      BY <3>1, <3>2, DetailsFollowPrices DEF RowOf
    <3> QED
      BY <3>1, <3>3
  <2> QED
    BY <2>1, <2>2
<1>2. ASSUME IInv, Next, NEW q \in Quotes, quote[q].live, details'[q] # details[q]
      PROVE  Exact(q)
  <2>1. PICK p \in Quotes, lines \in Requests : CreateQuote(p, lines) \/ UpdateQuote(p, lines)
    BY <1>2 DEF Next, CancelQuote, DeleteQuote, CreateOrder, vars
  <2>2. /\ details' = [details EXCEPT ![p] = DetailsOf(lines)]
        /\ asked' = [asked EXCEPT ![p] = lines]
    BY <2>1 DEF CreateQuote, UpdateQuote, Save, DetailsOf
  <2>3. p = q
    BY <1>2, <2>2 DEF IInv, TypeOK
  <2>4. UpdateQuote(q, lines)
    BY <1>2, <2>1, <2>3 DEF CreateQuote, IInv, LiveWereSaved, Saved
  <2>5. details'[q] = DetailsOf(lines) /\ asked'[q] = lines
    BY <1>2, <2>2, <2>3 DEF IInv, TypeOK
  <2> QED
    BY <1>1, <2>4, <2>5 DEF UpdateQuote
<1>3. IInv /\ [Next]_vars =>
        [\A q \in Quotes : quote[q].live /\ details'[q] # details[q] => Exact(q)]_vars
  BY <1>2
<1> QED
  BY InductiveInvariant, <1>3, PTL DEF Spec, EditsAreExact
=============================================================================
