------------------------ MODULE StockLedger_proofs ------------------------
(***************************************************************************)
(* What holds of the stock ledger for every set of items, invoices,        *)
(* requests and servers, and for every bound.                              *)
(***************************************************************************)
EXTENDS AdjustmentsInTurn, FiniteSetTheorems, TLAPS

----------------------------------------------------------------------------
(* The arithmetic.                                                         *)

\* Rounding half up never exceeds a whole number the quotient stays below.
LEMMA RoundHalfUpBound ==
  ASSUME NEW n \in Nat, NEW d \in Nat \ {0}, NEW c \in Nat, n <= c * d
  PROVE  RoundHalfUp(n, d) \in Nat /\ RoundHalfUp(n, d) <= c
<1> DEFINE h == d \div 2
<1>1. h \in Nat /\ h < d
  OBVIOUS
<1>2. n + h < (c + 1) * d
  <2>1. (c + 1) * d = c * d + d
    OBVIOUS
  <2>2. c * d \in Nat
    OBVIOUS
  <2> QED
    BY <1>1, <2>1, <2>2
<1>3. (n + h) \div d \in Nat
  BY <1>1
<1>4. d * ((n + h) \div d) <= n + h
  BY <1>1
<1>5. (n + h) \div d <= c
  <2> DEFINE q == (n + h) \div d
  <2>1. SUFFICES ASSUME q >= c + 1 PROVE FALSE
    BY <1>3
  <2>2. q * d >= (c + 1) * d
    BY <2>1, <1>3
  <2> QED
    BY <2>2, <1>2, <1>4, <1>3, <1>1
<1> QED
  BY <1>3, <1>5 DEF RoundHalfUp

LEMMA RoundHalfUpType ==
  ASSUME NEW n \in Nat, NEW d \in Nat \ {0}
  PROVE  RoundHalfUp(n, d) \in Nat
<1>1. d \div 2 \in Nat
  OBVIOUS
<1>2. n + (d \div 2) \in Nat
  BY <1>1
<1>3. \A m \in Nat : m \div d \in Nat
  OBVIOUS
<1> QED
  BY <1>2, <1>3 DEF RoundHalfUp

\* Rounding half up is off by half a unit at most.
LEMMA RoundHalfUpNear ==
  ASSUME NEW n \in Nat, NEW d \in Nat \ {0}
  PROVE  /\ RoundHalfUp(n, d) \in Nat
         /\ (2 * d) * RoundHalfUp(n, d) <= 2 * n + d
         /\ 2 * n <= (2 * d) * RoundHalfUp(n, d) + d
<1> DEFINE h == d \div 2
           q == RoundHalfUp(n, d)
<1>1. h \in Nat /\ 2 * h <= d /\ d <= 2 * h + 1
  OBVIOUS
<1>2. q \in Nat
  BY RoundHalfUpType
<1>3. n + h \in Nat
  BY <1>1
<1>4. q = (n + h) \div d
  BY DEF RoundHalfUp
<1>5. ASSUME NEW m \in Nat
      PROVE  d * (m \div d) <= m /\ m < d * (m \div d) + d
  OBVIOUS
<1>6. d * q <= n + h /\ n + h < d * q + d
  BY <1>3, <1>4, <1>5
<1>7. d * q \in Nat /\ (2 * d) * q = 2 * (d * q)
  BY <1>2
<1> HIDE DEF h, q
<1>8. PICK x : x = d * q
  OBVIOUS
<1> QED
  BY <1>1, <1>2, <1>6, <1>7, <1>8 DEF q

\* An issue of what is on the shelf never costs more than the layer holds:
\* the refusal "valuation ... is inconsistent" is unreachable for an issue.
LEMMA IssueCostBound ==
  ASSUME NEW l \in Layer, NEW n \in Nat, n > 0, n <= l.qty
  PROVE  IssueCost(l, n) \in Nat /\ IssueCost(l, n) <= l.cost
<1>1. l.qty \in Nat /\ l.cost \in Nat /\ l.qty # 0
  BY DEF Layer
<1>2. l.cost * n \in Nat /\ l.cost * n <= l.cost * l.qty
  BY <1>1
<1>3. RoundHalfUp(l.cost * n, l.qty) \in Nat
      /\ RoundHalfUp(l.cost * n, l.qty) <= l.cost
  BY <1>1, <1>2, RoundHalfUpBound
<1> QED
  BY <1>1, <1>3 DEF IssueCost

LEMMA IssuedType ==
  ASSUME NEW l \in Layer, NEW n \in Nat, n > 0, n <= l.qty
  PROVE  Issued(l, n) \in Layer
<1>1. IssueCost(l, n) \in Nat /\ IssueCost(l, n) <= l.cost
  BY IssueCostBound
<1>2. l.qty - n \in Nat /\ l.cost - IssueCost(l, n) \in Nat
  BY <1>1 DEF Layer
<1> QED
  BY <1>2 DEF Issued, Layer

LEMMA ReceivedType ==
  ASSUME NEW l \in Layer, NEW n \in Nat, NEW c \in Nat
  PROVE  Received(l, n, c) \in Layer
BY DEF Received, Layer

LEMMA MovedType ==
  ASSUME StockTypeOK, NEW i \in Items, NEW d \in Int, NEW c \in Nat,
         NEW doc \in Docs \cup {NoDoc}, NEW key \in Keys \cup {NoKey}
  PROVE  Moved(i, d, c, doc, key) \in Seq(Movement)
<1>1. layer[i] \in Layer /\ history[i] \in Seq(Movement)
  BY DEF StockTypeOK
<1>2. layer[i].qty \in Nat /\ layer[i].cost \in Nat
  BY <1>1 DEF Layer
<1>3. [delta |-> d, cost |-> c, qtyBefore |-> layer[i].qty,
       costBefore |-> layer[i].cost, doc |-> doc, key |-> key] \in Movement
  BY <1>2 DEF Movement
<1> QED
  BY <1>1, <1>3 DEF Moved

\* The recorded sale of an invoice took a positive quantity at a known cost.
LEMMA SaleOfType ==
  ASSUME StockTypeOK, NEW d \in Docs, NEW i \in Items, i \in Sold(d)
  PROVE  /\ SaleOf(d, i).delta \in Int
         /\ -SaleOf(d, i).delta \in Nat \ {0}
         /\ SaleOf(d, i).cost \in Nat
<1>1. PICK k \in Sales(d, i) : k = CHOOSE j \in Sales(d, i) : TRUE
  BY DEF Sold
<1>2. k \in DOMAIN history[i] /\ history[i][k].delta < 0
  BY <1>1 DEF Sales
<1>3. history[i][k] \in Movement
  BY <1>2 DEF StockTypeOK
<1>4. SaleOf(d, i) = history[i][k]
  BY <1>1 DEF SaleOf
<1> QED
  BY <1>2, <1>3, <1>4 DEF Movement

----------------------------------------------------------------------------
(* Sums over finite sets.  MapThenSumSet is a recursive function of the      *)
(* subsets of its set; what it computes is shown of a least counterexample,  *)
(* which the strict subsets of a finite set, being well-founded, have.       *)

\* A set of finite sets has one that contains no other of them.
LEMMA LeastSubset ==
  ASSUME NEW S, IsFiniteSet(S), NEW T \in SUBSET (SUBSET S), T # {}
  PROVE  \E s \in T : \A u \in T : u \subseteq s => u = s
<1>1. IsWellFoundedOn(StrictSubsetOrdering(S), SUBSET S)
  BY FS_StrictSubsetOrderingWellFounded, FS_FiniteSubsetsOfFinite
<1>2. PICK s \in T : \A u \in T : ~ (<<u, s>> \in StrictSubsetOrdering(S))
  BY <1>1, WFMin
<1>3. ASSUME NEW u \in T, u \subseteq s, u # s PROVE FALSE
  <2>1. <<u, s>> \in StrictSubsetOrdering(S)
    BY <1>3 DEF StrictSubsetOrdering
  <2> QED
    BY <1>2, <2>1
<1> QED
  BY <1>3

\* The element that is added first, the equation of the recursive function, and
\* the sum of the weights w over T.
Pick(s) == CHOOSE x \in s : TRUE

SumEq(w, T, g) ==
  g = [s \in SUBSET T |-> IF s = {} THEN 0 ELSE w[Pick(s)] + g[s \ {Pick(s)}]]

SumOf(w, T) == (CHOOSE g : SumEq(w, T, g))[T]

LEMMA PickIn == ASSUME NEW s, s # {} PROVE Pick(s) \in s
BY DEF Pick

LEMMA SumEqAt ==
  ASSUME NEW w, NEW T, NEW g, SumEq(w, T, g), NEW s \in SUBSET T
  PROVE  g[s] = IF s = {} THEN 0 ELSE w[Pick(s)] + g[s \ {Pick(s)}]
BY DEF SumEq

\* The equation has one solution, ...
LEMMA SumUnique ==
  ASSUME NEW w, NEW U, NEW V, NEW g, NEW h, SumEq(w, U, g), SumEq(w, V, h),
         NEW T, IsFiniteSet(T), T \subseteq U, T \subseteq V
  PROVE  g[T] = h[T]
<1> DEFINE Bad == {s \in SUBSET T : g[s] # h[s]}
<1>1. SUFFICES ASSUME Bad # {} PROVE FALSE
  OBVIOUS
<1>2. PICK s \in Bad : \A u \in Bad : u \subseteq s => u = s
  <2> HIDE DEF Bad
  <2>1. Bad \in SUBSET (SUBSET T)
    BY DEF Bad
  <2> QED
    BY <1>1, <2>1, LeastSubset
<1>3. s # {}
  BY SumEqAt
<1>4. Pick(s) \in s
  BY <1>3, PickIn
<1> DEFINE r == s \ {Pick(s)}
<1>5. r \in SUBSET T /\ r # s /\ r \subseteq s
  BY <1>4
<1>6. g[r] = h[r]
  BY <1>2, <1>5
<1>7. g[s] = w[Pick(s)] + g[r] /\ h[s] = w[Pick(s)] + h[r]
  BY <1>3, SumEqAt
<1> QED
  BY <1>6, <1>7

\* ... and it has one at all.
LEMMA SumExists ==
  ASSUME NEW w, NEW T, IsFiniteSet(T)
  PROVE  \E g : SumEq(w, T, g)
<1> DEFINE Bad == {s \in SUBSET T : ~ \E g : SumEq(w, s, g)}
<1>1. SUFFICES ASSUME Bad # {} PROVE FALSE
  OBVIOUS
<1>2. PICK s \in Bad : \A u \in Bad : u \subseteq s => u = s
  <2> HIDE DEF Bad
  <2>1. Bad \in SUBSET (SUBSET T)
    BY DEF Bad
  <2> QED
    BY <1>1, <2>1, LeastSubset
<1> DEFINE G(u) == CHOOSE g : SumEq(w, u, g)
           r == s \ {Pick(s)}
           h == [u \in SUBSET s |-> IF u = s THEN IF s = {} THEN 0 ELSE w[Pick(s)] + G(r)[r] ELSE G(u)[u]]
<1>3. ASSUME NEW u \in SUBSET s, u # s PROVE SumEq(w, u, G(u))
  <2>1. \E g : SumEq(w, u, g)
    BY <1>2, <1>3
  <2> QED
    BY <2>1
<1> HIDE DEF G
<1>4. ASSUME NEW u \in SUBSET s
      PROVE  h[u] = IF u = {} THEN 0 ELSE w[Pick(u)] + h[u \ {Pick(u)}]
  <2> DEFINE v == u \ {Pick(u)}
  <2>1. CASE u = {}
    <3>1. CASE u = s
      BY <2>1, <3>1
    <3>2. CASE u # s
      <4>1. G(u)[u] = 0
        BY <1>3, <2>1, <3>2, SumEqAt
      <4> QED
        BY <2>1, <3>2, <4>1
    <3> QED
      BY <3>1, <3>2
  <2>2. CASE u # {}
    <3>1. Pick(u) \in u /\ v \in SUBSET s /\ v # s /\ v # u
      BY <2>2, PickIn
    <3>2. h[v] = G(v)[v]
      BY <3>1
    <3>3. CASE u = s
      BY <2>2, <3>2, <3>3
    <3>4. CASE u # s
      <4>1. G(u)[u] = w[Pick(u)] + G(u)[v]
        BY <1>3, <2>2, <3>4, SumEqAt
      <4>2. G(u)[v] = G(v)[v]
        <5>1. IsFiniteSet(v)
          BY <3>1, FS_Subset
        <5>2. SumEq(w, u, G(u)) /\ SumEq(w, v, G(v)) /\ v \subseteq u
          BY <1>3, <3>1, <3>4
        <5> QED
          BY <5>1, <5>2, SumUnique
      <4> QED
        BY <2>2, <3>2, <3>4, <4>1, <4>2
    <3> QED
      BY <3>3, <3>4
  <2> QED
    BY <2>1, <2>2
<1>5. SumEq(w, s, h)
  <2>1. h = [u \in SUBSET s |-> h[u]]
    OBVIOUS
  <2> HIDE DEF h
  <2>2. [u \in SUBSET s |-> h[u]] = [u \in SUBSET s |-> IF u = {} THEN 0 ELSE w[Pick(u)] + h[u \ {Pick(u)}]]
    BY <1>4
  <2> QED
    BY <2>1, <2>2 DEF SumEq
<1> QED
  BY <1>2, <1>5

LEMMA SumIs ==
  ASSUME NEW w, NEW T, IsFiniteSet(T), NEW U, T \subseteq U, NEW g, SumEq(w, U, g)
  PROVE  g[T] = SumOf(w, T)
<1>1. SumEq(w, T, CHOOSE h : SumEq(w, T, h))
  BY SumExists
<1> QED
  BY <1>1, SumUnique DEF SumOf

\* ... so whatever solves the equation if anything does has the sum for its value.
LEMMA SumChosen ==
  ASSUME NEW w, NEW T, IsFiniteSet(T), NEW h, (\E g : SumEq(w, T, g)) => SumEq(w, T, h)
  PROVE  h[T] = SumOf(w, T)
<1>1. SumEq(w, T, h)
  BY SumExists
<1> QED
  BY <1>1, SumIs

\* What the library's SumFunction computes.
LEMMA SumFunctionIs ==
  ASSUME NEW w, NEW T, IsFiniteSet(T), DOMAIN w = T
  PROVE  SumFunction(w) = SumOf(w, T)
<1> DEFINE E(f) == [s \in SUBSET T |-> IF s = {} THEN 0 ELSE w[Pick(s)] + f[s \ {Pick(s)}]]
           h == CHOOSE f : f = E(f)
<1>1. SumFunction(w) = h[T]
  BY Zenon DEF SumFunction, SumFunctionOnSet, FoldFunctionOnSet, MapThenFoldSet, Pick
<1>2. ASSUME NEW f PROVE SumEq(w, T, f) <=> f = E(f)
  BY DEF SumEq
<1> HIDE DEF E
<1>3. (\E g : SumEq(w, T, g)) => SumEq(w, T, h)
  <2> SUFFICES ASSUME NEW g, SumEq(w, T, g) PROVE SumEq(w, T, h)
    OBVIOUS
  <2>1. h = E(h)
    BY <1>2
  <2> HIDE DEF h
  <2> QED
    BY <1>2, <2>1
<1>4. h[T] = SumOf(w, T)
  <2> HIDE DEF h
  <2> QED
    BY <1>3, SumChosen
<1> QED
  BY <1>1, <1>4

LEMMA SumEmpty == ASSUME NEW w PROVE SumOf(w, {}) = 0
<1>1. IsFiniteSet({})
  BY FS_EmptySet
<1>2. SumEq(w, {}, CHOOSE h : SumEq(w, {}, h))
  BY <1>1, SumExists
<1> QED
  BY <1>2, SumEqAt DEF SumOf

\* Weights that agree on a set have the same sum over it.
LEMMA SumSame ==
  ASSUME NEW v, NEW w, NEW T, IsFiniteSet(T), \A x \in T : v[x] = w[x]
  PROVE  SumOf(v, T) = SumOf(w, T)
<1>1. PICK g : SumEq(v, T, g)
  BY SumExists
<1>2. [s \in SUBSET T |-> IF s = {} THEN 0 ELSE v[Pick(s)] + g[s \ {Pick(s)}]]
        = [s \in SUBSET T |-> IF s = {} THEN 0 ELSE w[Pick(s)] + g[s \ {Pick(s)}]]
  <2>1. \A s \in SUBSET T : s # {} => v[Pick(s)] = w[Pick(s)]
    BY PickIn
  <2> QED
    BY <2>1
<1>3. SumEq(w, T, g)
  BY <1>1, <1>2 DEF SumEq
<1> QED
  BY <1>1, <1>3, SumIs

\* A sum of naturals is a natural, a sum of integers an integer.
LEMMA SumEqType ==
  ASSUME NEW w, NEW T, IsFiniteSet(T), NEW N, 0 \in N, \A a, b \in N : a + b \in N,
         \A x \in T : w[x] \in N, NEW g, SumEq(w, T, g)
  PROVE  \A s \in SUBSET T : g[s] \in N
<1> DEFINE Bad == {s \in SUBSET T : g[s] \notin N}
<1>1. SUFFICES ASSUME Bad # {} PROVE FALSE
  OBVIOUS
<1>2. PICK s \in Bad : \A u \in Bad : u \subseteq s => u = s
  <2> HIDE DEF Bad
  <2>1. Bad \in SUBSET (SUBSET T)
    BY DEF Bad
  <2> QED
    BY <1>1, <2>1, LeastSubset
<1>3. s # {}
  <2>1. g[{}] = 0
    BY SumEqAt
  <2> QED
    BY <1>2, <2>1
<1>4. Pick(s) \in s
  BY <1>3, PickIn
<1> DEFINE r == s \ {Pick(s)}
<1>5. g[r] \in N
  BY <1>2, <1>4
<1>6. g[s] = w[Pick(s)] + g[r]
  <2>1. s \in SUBSET T
    BY <1>2
  <2>2. g[s] = IF s = {} THEN 0 ELSE w[Pick(s)] + g[s \ {Pick(s)}]
    BY <2>1 DEF SumEq
  <2> QED
    BY <1>3, <2>2, Zenon
<1>7. w[Pick(s)] \in N
  BY <1>2, <1>4
<1>8. w[Pick(s)] + g[r] \in N
  BY <1>5, <1>7
<1> QED
  BY <1>2, <1>6, <1>8

\* Whatever element is taken out first, the sum is the same.
LEMMA SumEqAny ==
  ASSUME NEW w, NEW T, IsFiniteSet(T), \A x \in T : w[x] \in Int, NEW g, SumEq(w, T, g)
  PROVE  \A s \in SUBSET T : \A x \in s : g[s] = w[x] + g[s \ {x}]
<1> DEFINE Any(s) == \A x \in s : g[s] = w[x] + g[s \ {x}]
           Bad == {s \in SUBSET T : ~ Any(s)}
<1>1. SUFFICES ASSUME Bad # {} PROVE FALSE
  <2> HIDE DEF Any
  <2>1. \A s \in SUBSET T : Any(s)
    OBVIOUS
  <2> QED
    BY <2>1, Zenon DEF Any
<1>2. PICK s \in Bad : \A u \in Bad : u \subseteq s => u = s
  <2> HIDE DEF Bad
  <2>1. Bad \in SUBSET (SUBSET T)
    BY DEF Bad
  <2> QED
    BY <1>1, <2>1, LeastSubset
<1>3. PICK x \in s : g[s] # w[x] + g[s \ {x}]
  BY <1>2
<1> DEFINE y == Pick(s)
<1>4. y \in s /\ g[s] = w[y] + g[s \ {y}]
  BY <1>2, <1>3, PickIn, SumEqAt
<1>5. x # y
  BY <1>3, <1>4
<1> HIDE DEF y
<1> DEFINE r == (s \ {x}) \ {y}
<1>6. r = (s \ {y}) \ {x} /\ r \in SUBSET T
  BY <1>2
<1>7. g[s \ {y}] = w[x] + g[r]
  BY <1>2, <1>3, <1>4, <1>5, <1>6
<1>8. g[s \ {x}] = w[y] + g[r]
  BY <1>2, <1>3, <1>4, <1>5, <1>6
<1>9. g[r] \in Int /\ w[x] \in Int /\ w[y] \in Int
  <2>1. 0 \in Int /\ \A a, b \in Int : a + b \in Int
    OBVIOUS
  <2>2. \A u \in SUBSET T : g[u] \in Int
    BY <2>1, SumEqType
  <2> QED
    BY <1>2, <1>3, <1>4, <1>6, <2>2
<1>10. w[y] + (w[x] + g[r]) = w[x] + (w[y] + g[r])
  BY <1>9
<1> QED
  BY <1>3, <1>4, <1>7, <1>8, <1>10

LEMMA SumType ==
  ASSUME NEW w, NEW T, IsFiniteSet(T), NEW N \in {Nat, Int}, \A x \in T : w[x] \in N
  PROVE  SumOf(w, T) \in N
<1>1. PICK g : SumEq(w, T, g)
  BY SumExists
<1>2. 0 \in N /\ \A a, b \in N : a + b \in N
  OBVIOUS
<1>3. g[T] \in N
  BY <1>1, <1>2, SumEqType
<1> QED
  BY <1>1, <1>3, SumIs

\* The sum with one element more, or one less.
LEMMA SumTake ==
  ASSUME NEW w, NEW T, IsFiniteSet(T), \A x \in T : w[x] \in Int, NEW x \in T
  PROVE  SumOf(w, T) = w[x] + SumOf(w, T \ {x})
<1>1. PICK g : SumEq(w, T, g)
  BY SumExists
<1>2. IsFiniteSet(T \ {x}) /\ T \ {x} \subseteq T
  BY FS_Subset
<1>3. g[T] = SumOf(w, T) /\ g[T \ {x}] = SumOf(w, T \ {x})
  BY <1>1, <1>2, SumIs
<1>4. g[T] = w[x] + g[T \ {x}]
  BY <1>1, SumEqAny
<1> QED
  BY <1>3, <1>4

LEMMA SumAdd ==
  ASSUME NEW w, NEW T, IsFiniteSet(T), NEW x, x \notin T,
         \A y \in T \cup {x} : w[y] \in Int
  PROVE  SumOf(w, T \cup {x}) = w[x] + SumOf(w, T)
<1>1. IsFiniteSet(T \cup {x}) /\ (T \cup {x}) \ {x} = T
  BY FS_AddElement
<1> DEFINE U == T \cup {x}
<1>2. U \ {x} = T /\ x \in U /\ IsFiniteSet(U) /\ \A y \in U : w[y] \in Int
  BY <1>1
<1> HIDE DEF U
<1>3. SumOf(w, U) = w[x] + SumOf(w, U \ {x})
  BY <1>2, SumTake
<1> QED
  BY <1>2, <1>3 DEF U

LEMMA ImageFinite ==
  ASSUME NEW S, IsFiniteSet(S), NEW f
  PROVE  IsFiniteSet({f[x] : x \in S})
<1> DEFINE T == {f[x] : x \in S}
           g == [x \in S |-> f[x]]
<1>1. g \in Surjection(S, T)
  <2>1. g \in [S -> T]
    OBVIOUS
  <2>2. \A y \in T : \E x \in S : g[x] = y
    OBVIOUS
  <2> QED
    BY <2>1, <2>2 DEF Surjection
<1> HIDE DEF T, g
<1>2. IsFiniteSet(T)
  BY <1>1, FS_Surjection
<1> QED
  BY <1>2 DEF T

\* The same weights under other names have the same sum.
LEMMA SumRenamed ==
  ASSUME NEW S, IsFiniteSet(S), NEW f, \A x, y \in S : f[x] = f[y] => x = y,
         NEW v, NEW w, \A x \in S : w[x] \in Int /\ v[f[x]] = w[x]
  PROVE  SumOf(v, {f[x] : x \in S}) = SumOf(w, S)
<1> DEFINE Image(s) == {f[x] : x \in s}
           Bad == {s \in SUBSET S : SumOf(v, Image(s)) # SumOf(w, s)}
<1>1. SUFFICES ASSUME Bad # {} PROVE FALSE
  OBVIOUS
<1>2. PICK s \in Bad : \A u \in Bad : u \subseteq s => u = s
  <2> HIDE DEF Bad
  <2>1. Bad \in SUBSET (SUBSET S)
    BY DEF Bad
  <2> QED
    BY <1>1, <2>1, LeastSubset
<1>3. PICK x : x \in s
  <2>1. Image({}) = {}
    OBVIOUS
  <2> HIDE DEF Image
  <2> QED
    BY <1>2, <2>1, SumEmpty
<1> DEFINE r == s \ {x}
<1>4. /\ r \in SUBSET S /\ IsFiniteSet(s) /\ IsFiniteSet(r)
      /\ SumOf(v, Image(r)) = SumOf(w, r)
  <2>1. r \in SUBSET S /\ r # s /\ r \subseteq s
    BY <1>2, <1>3
  <2>2. IsFiniteSet(s) /\ IsFiniteSet(r)
    BY <1>2, <2>1, FS_Subset
  <2>3. r \notin Bad
    BY <1>2, <2>1
  <2> QED
    BY <2>1, <2>2, <2>3
<1>5. SumOf(w, s) = w[x] + SumOf(w, r)
  <2>1. \A y \in s : w[y] \in Int
    BY <1>2
  <2> QED
    BY <1>3, <1>4, <2>1, SumTake
<1>6. Image(s) = Image(r) \cup {f[x]} /\ f[x] \notin Image(r)
  BY <1>2, <1>3
<1>7. IsFiniteSet(Image(r))
  BY <1>4, ImageFinite
<1>8. \A y \in Image(r) \cup {f[x]} : v[y] \in Int
  BY <1>2, <1>3
<1>9. v[f[x]] = w[x]
  BY <1>2, <1>3
<1> HIDE DEF Image, r
<1>10. SumOf(v, Image(r) \cup {f[x]}) = v[f[x]] + SumOf(v, Image(r))
  BY <1>6, <1>7, <1>8, SumAdd
<1>11. SumOf(v, Image(s)) = SumOf(w, s)
  BY <1>4, <1>5, <1>6, <1>9, <1>10
<1> QED
  BY <1>2, <1>11

----------------------------------------------------------------------------
(* More about sums over finite sets, one element at a time.                *)

\* Induction over a finite set, with the sets it holds of for a hypothesis.
LEMMA OneByOne ==
  ASSUME NEW T, IsFiniteSet(T), NEW G, {} \in G,
         \A s \in SUBSET T : \A x \in T : s \in G /\ x \notin s => s \cup {x} \in G
  PROVE  T \in G
<1> DEFINE Bad == {s \in SUBSET T : s \notin G}
<1>1. SUFFICES ASSUME Bad # {} PROVE FALSE
  OBVIOUS
<1>2. PICK s \in Bad : \A u \in Bad : u \subseteq s => u = s
  <2> HIDE DEF Bad
  <2>1. Bad \in SUBSET (SUBSET T)
    BY DEF Bad
  <2> QED
    BY <1>1, <2>1, LeastSubset
<1>3. PICK x \in s : TRUE
  BY <1>2
<1> DEFINE r == s \ {x}
<1>4. r \in SUBSET T /\ x \in T /\ x \notin r /\ r \in G
  BY <1>2, <1>3
<1>5. r \cup {x} = s
  BY <1>3
<1> HIDE DEF r
<1>6. s \in G
  BY <1>4, <1>5
<1> QED
  BY <1>2, <1>6

\* What the lemmas suppose of weights, named to be found by the provers.
Weighs(w, T) == \A x \in T : w[x] \in Int
Goes(f, T, S) == \A x \in T : f[x] \in S
Linear(u, a, v, b, w, T) ==
  a \in Int /\ b \in Int /\ \A x \in T : v[x] \in Int /\ w[x] \in Int /\ u[x] = a * v[x] + b * w[x]
Plus(u, v, w, T) == \A x \in T : v[x] \in Int /\ w[x] \in Int /\ u[x] = v[x] + w[x]
Times(u, a, v, T) == a \in Int /\ \A x \in T : v[x] \in Int /\ u[x] = a * v[x]
Renames(f, v, w, S) ==
  /\ \A x, y \in S : f[x] = f[y] => x = y
  /\ \A x \in S : w[x] \in Int /\ v[f[x]] = w[x]

\* Sums of two weights, of a multiple, and of weights that are all zero.
LEMMA SumLinear ==
  ASSUME NEW T, IsFiniteSet(T), NEW u, NEW v, NEW w, NEW a, NEW b, Linear(u, a, v, b, w, T)
  PROVE  /\ SumOf(u, T) = a * SumOf(v, T) + b * SumOf(w, T)
         /\ SumOf(v, T) \in Int /\ SumOf(w, T) \in Int
<1> USE DEF Linear
<1> DEFINE G == {s \in SUBSET T : SumOf(u, s) = a * SumOf(v, s) + b * SumOf(w, s)}
<1>1. ASSUME NEW s \in SUBSET T PROVE IsFiniteSet(s) /\ SumOf(v, s) \in Int /\ SumOf(w, s) \in Int
  BY FS_Subset, SumType
<1>2. {} \in G
  BY SumEmpty
<1>3. ASSUME NEW s \in SUBSET T, NEW x \in T, s \in G, x \notin s PROVE s \cup {x} \in G
  <2>1. \A y \in T : u[y] \in Int
    OBVIOUS
  <2>2. SumOf(u, s \cup {x}) = u[x] + SumOf(u, s)
    BY <1>1, <1>3, <2>1, SumAdd
  <2>3. SumOf(v, s \cup {x}) = v[x] + SumOf(v, s)
    BY <1>1, <1>3, SumAdd
  <2>4. SumOf(w, s \cup {x}) = w[x] + SumOf(w, s)
    BY <1>1, <1>3, SumAdd
  <2>5. SumOf(u, s) = a * SumOf(v, s) + b * SumOf(w, s) /\ u[x] = a * v[x] + b * w[x]
    BY <1>3
  <2>6. \A k, l, m, n \in Int : (a * k + b * l) + (a * m + b * n) = a * (k + m) + b * (l + n)
    OBVIOUS
  <2>7. SumOf(u, s \cup {x}) = a * SumOf(v, s \cup {x}) + b * SumOf(w, s \cup {x})
    BY <1>1, <2>2, <2>3, <2>4, <2>5, <2>6
  <2> QED
    BY <2>7
<1> HIDE DEF G
<1>4. T \in G
  BY <1>2, <1>3, OneByOne
<1> QED
  BY <1>1, <1>4 DEF G

LEMMA SumPlus ==
  ASSUME NEW T, IsFiniteSet(T), NEW u, NEW v, NEW w, Plus(u, v, w, T)
  PROVE  SumOf(u, T) = SumOf(v, T) + SumOf(w, T) /\ SumOf(v, T) \in Int /\ SumOf(w, T) \in Int
<1>1. Linear(u, 1, v, 1, w, T)
  BY DEF Linear, Plus
<1>2. /\ SumOf(u, T) = 1 * SumOf(v, T) + 1 * SumOf(w, T)
      /\ SumOf(v, T) \in Int /\ SumOf(w, T) \in Int
  BY <1>1, SumLinear
<1> QED
  BY <1>2

LEMMA SumTimes ==
  ASSUME NEW T, IsFiniteSet(T), NEW u, NEW a, NEW v, Times(u, a, v, T)
  PROVE  SumOf(u, T) = a * SumOf(v, T) /\ SumOf(v, T) \in Int
<1>1. Linear(u, a, v, 0, v, T)
  BY DEF Linear, Times
<1>2. SumOf(u, T) = a * SumOf(v, T) + 0 * SumOf(v, T) /\ SumOf(v, T) \in Int
  BY <1>1, SumLinear
<1> QED
  BY <1>2 DEF Times

LEMMA SumZero ==
  ASSUME NEW T, IsFiniteSet(T), NEW w, \A x \in T : w[x] = 0
  PROVE  SumOf(w, T) = 0
<1>1. Times(w, 0, w, T)
  BY DEF Times
<1>2. SumOf(w, T) = 0 * SumOf(w, T) /\ SumOf(w, T) \in Int
  BY <1>1, SumTimes
<1> QED
  BY <1>2

\* The sum over two sets apart, and over a set outside which nothing counts.
LEMMA SumApart ==
  ASSUME NEW S, NEW T, IsFiniteSet(S), IsFiniteSet(T), S \cap T = {}, NEW w,
         \A x \in S \cup T : w[x] \in Int
  PROVE  SumOf(w, S \cup T) = SumOf(w, S) + SumOf(w, T)
<1> DEFINE G == {t \in SUBSET T : SumOf(w, S \cup t) = SumOf(w, S) + SumOf(w, t)}
<1>1. ASSUME NEW t \in SUBSET T
      PROVE  IsFiniteSet(t) /\ IsFiniteSet(S \cup t) /\ SumOf(w, t) \in Int /\ SumOf(w, S) \in Int
  <2>1. IsFiniteSet(t) /\ IsFiniteSet(S \cup t)
    BY FS_Subset, FS_Union
  <2> QED
    BY <2>1, SumType
<1>2. {} \in G
  <2>1. S \cup {} = S
    OBVIOUS
  <2> QED
    BY <1>1, <2>1, SumEmpty
<1>3. ASSUME NEW t \in SUBSET T, NEW x \in T, t \in G, x \notin t PROVE t \cup {x} \in G
  <2>1. SumOf(w, t \cup {x}) = w[x] + SumOf(w, t)
    BY <1>1, <1>3, SumAdd
  <2>2. SumOf(w, (S \cup t) \cup {x}) = w[x] + SumOf(w, S \cup t)
    BY <1>1, <1>3, SumAdd
  <2>3. (S \cup t) \cup {x} = S \cup (t \cup {x})
    OBVIOUS
  <2>4. w[x] \in Int /\ SumOf(w, S \cup t) = SumOf(w, S) + SumOf(w, t)
    BY <1>3
  <2> QED
    BY <1>1, <2>1, <2>2, <2>3, <2>4
<1> HIDE DEF G
<1>4. T \in G
  BY <1>2, <1>3, OneByOne
<1> QED
  BY <1>4 DEF G

LEMMA SumWithin ==
  ASSUME NEW S, NEW T, IsFiniteSet(T), S \subseteq T, NEW w, \A x \in S : w[x] \in Int,
         \A x \in T \ S : w[x] = 0
  PROVE  SumOf(w, T) = SumOf(w, S)
<1>1. IsFiniteSet(S) /\ IsFiniteSet(T \ S)
  BY FS_Subset
<1>2. S \cap (T \ S) = {} /\ S \cup (T \ S) = T
  OBVIOUS
<1>3. SumOf(w, T \ S) = 0
  BY <1>1, SumZero
<1>4. SumOf(w, S) \in Int
  BY <1>1, SumType
<1>5. SumOf(w, S \cup (T \ S)) = SumOf(w, S) + SumOf(w, T \ S)
  BY <1>1, <1>2, SumApart
<1>6. SumOf(w, T) = SumOf(w, S) + 0
  BY <1>2, <1>3, <1>5, Zenon
<1> QED
  BY <1>4, <1>6

\* Naturals that add up to zero are all zero.
LEMMA SumIsZero ==
  ASSUME NEW T, IsFiniteSet(T), NEW w, \A x \in T : w[x] \in Nat, SumOf(w, T) = 0, NEW x \in T
  PROVE  w[x] = 0
<1>1. IsFiniteSet(T \ {x})
  BY FS_Subset
<1>2. SumOf(w, T \ {x}) \in Nat
  BY <1>1, SumType
<1>3. SumOf(w, T) = w[x] + SumOf(w, T \ {x})
  BY SumTake
<1> QED
  BY <1>2, <1>3

\* A sum by parts: the elements that f sends to one place at a time.
LEMMA SumByParts ==
  ASSUME NEW T, IsFiniteSet(T), NEW S, IsFiniteSet(S), NEW f, Goes(f, T, S),
         NEW w, Weighs(w, T)
  PROVE  SumOf(w, T) = SumOf([s \in S |-> SumOf(w, {x \in T : f[x] = s})], S)
<1> USE DEF Goes, Weighs
<1> DEFINE Part(t, s) == {x \in t : f[x] = s}
           part(t) == [s \in S |-> SumOf(w, Part(t, s))]
           G == {t \in SUBSET T : SumOf(w, t) = SumOf(part(t), S)}
<1>1. ASSUME NEW t \in SUBSET T, NEW s
      PROVE  IsFiniteSet(t) /\ IsFiniteSet(Part(t, s)) /\ SumOf(w, Part(t, s)) \in Int
             /\ SumOf(w, t) \in Int
  <2>1. IsFiniteSet(t) /\ IsFiniteSet(Part(t, s))
    BY FS_Subset
  <2> QED
    BY <2>1, SumType
<1>2. {} \in G
  <2>1. \A s \in S : part({})[s] = 0
    <3>1. \A s \in S : Part({}, s) = {}
      OBVIOUS
    <3> QED
      BY <3>1, SumEmpty
  <2> HIDE DEF part
  <2>2. SumOf(part({}), S) = 0
    BY <2>1, SumZero
  <2>3. SumOf(w, {}) = 0
    BY SumEmpty
  <2> QED
    BY <2>2, <2>3
<1>3. ASSUME NEW t \in SUBSET T, NEW x \in T, t \in G, x \notin t PROVE t \cup {x} \in G
  <2> DEFINE one == [s \in S |-> IF s = f[x] THEN w[x] ELSE 0]
  <2>1. ASSUME NEW s \in S
        PROVE  /\ part(t)[s] \in Int /\ one[s] \in Int
               /\ part(t \cup {x})[s] = part(t)[s] + one[s]
    <3>1. SumOf(w, Part(t, s)) \in Int /\ IsFiniteSet(Part(t, s))
      BY <1>1
    <3>2. CASE s = f[x]
      <4>1. Part(t \cup {x}, s) = Part(t, s) \cup {x} /\ x \notin Part(t, s)
        BY <1>3, <3>2
      <4>2. \A y \in Part(t, s) \cup {x} : w[y] \in Int
        OBVIOUS
      <4> HIDE DEF Part
      <4>3. SumOf(w, Part(t, s) \cup {x}) = w[x] + SumOf(w, Part(t, s))
        BY <3>1, <4>1, <4>2, SumAdd
      <4>4. SumOf(w, Part(t \cup {x}, s)) = w[x] + SumOf(w, Part(t, s))
        BY <4>1, <4>3, Zenon
      <4> QED
        BY <3>1, <3>2, <4>4
    <3>3. CASE s # f[x]
      <4>1. Part(t \cup {x}, s) = Part(t, s)
        BY <3>3
      <4> HIDE DEF Part
      <4>2. SumOf(w, Part(t \cup {x}, s)) = SumOf(w, Part(t, s))
        BY <4>1, Zenon
      <4> QED
        BY <3>1, <3>3, <4>2
    <3> QED
      BY <3>2, <3>3
  <2>2. SumOf(one, S) = w[x]
    <3>1. {f[x]} \subseteq S /\ one[f[x]] = w[x] /\ \A s \in S \ {f[x]} : one[s] = 0
      OBVIOUS
    <3>2. IsFiniteSet({}) /\ f[x] \notin {} /\ {} \cup {f[x]} = {f[x]}
      BY FS_EmptySet
    <3> HIDE DEF one
    <3>3. SumOf(one, S) = SumOf(one, {f[x]})
      BY <3>1, SumWithin
    <3>4. SumOf(one, {} \cup {f[x]}) = one[f[x]] + SumOf(one, {})
      BY <3>1, <3>2, SumAdd
    <3>5. SumOf(one, {}) = 0
      BY SumEmpty
    <3>6. SumOf(one, {f[x]}) = w[x] + 0
      BY <3>1, <3>2, <3>4, <3>5, Zenon
    <3> QED
      BY <3>3, <3>6
  <2>p. Plus(part(t \cup {x}), part(t), one, S)
    <3> HIDE DEF part, one
    <3> QED
      BY <2>1 DEF Plus
  <2> HIDE DEF part, one
  <2>3. /\ SumOf(part(t \cup {x}), S) = SumOf(part(t), S) + SumOf(one, S)
        /\ SumOf(part(t), S) \in Int
    BY <2>p, SumPlus
  <2>4. SumOf(w, t \cup {x}) = w[x] + SumOf(w, t)
    BY <1>1, <1>3, SumAdd
  <2>5. SumOf(w, t) = SumOf(part(t), S)
    BY <1>3
  <2>6. SumOf(w, t \cup {x}) = SumOf(part(t \cup {x}), S)
    BY <2>2, <2>3, <2>4, <2>5
  <2> QED
    BY <2>6
<1> HIDE DEF G
<1>4. T \in G
  BY <1>2, <1>3, OneByOne
<1> QED
  BY <1>4 DEF G

\* Two sums, one inside the other, as one sum over pairs.
LEMMA SumNamed ==
  ASSUME NEW S, IsFiniteSet(S), NEW f, NEW v, NEW w, Renames(f, v, w, S), NEW T,
         T = {f[x] : x \in S}
  PROVE  SumOf(v, T) = SumOf(w, S)
BY SumRenamed DEF Renames

LEMMA SumOfPairs ==
  ASSUME NEW S, IsFiniteSet(S), NEW T, IsFiniteSet(T), NEW w,
         \A l \in S \X T : w[l] \in Int
  PROVE  SumOf(w, S \X T) = SumOf([x \in S |-> SumOf([y \in T |-> w[<<x, y>>]], T)], S)
<1> DEFINE f == [l \in S \X T |-> l[1]]
           of(x) == {l \in S \X T : f[l] = x}
           v == [x \in S |-> SumOf(w, of(x))]
           u == [x \in S |-> SumOf([y \in T |-> w[<<x, y>>]], T)]
<1>1. IsFiniteSet(S \X T) /\ \A l \in S \X T : f[l] \in S
  BY FS_Product
<1>2. SumOf(w, S \X T) = SumOf(v, S)
  <2> DEFINE U == S \X T
  <2>1. IsFiniteSet(U) /\ Goes(f, U, S) /\ Weighs(w, U)
    BY <1>1 DEF Goes, Weighs
  <2>2. v = [x \in S |-> SumOf(w, {l \in U : f[l] = x})]
    OBVIOUS
  <2> HIDE DEF f, U, v
  <2>3. SumOf(w, U) = SumOf([x \in S |-> SumOf(w, {l \in U : f[l] = x})], S)
    BY <2>1, SumByParts
  <2> QED
    BY <2>2, <2>3, Zenon DEF U
<1>3. ASSUME NEW x \in S PROVE SumOf(w, of(x)) = SumOf([y \in T |-> w[<<x, y>>]], T)
  <2> DEFINE g == [y \in T |-> <<x, y>>]
             z == [y \in T |-> w[<<x, y>>]]
  <2>1. Renames(g, w, z, T)
    BY DEF Renames
  <2>2. of(x) = {g[y] : y \in T}
    OBVIOUS
  <2> HIDE DEF g, z, of
  <2>3. SumOf(w, of(x)) = SumOf(z, T)
    BY <2>1, <2>2, SumNamed
  <2> QED
    BY <2>3 DEF z
<1>4. v = u
  BY <1>3
<1> QED
  BY <1>2, <1>4

\* Lines of documents, added up by what the documents are of: u says what one
\* unit of item n counts for under o.
Regroups(D, N, O, g, q, u, w, z) ==
  /\ \A d \in D : g[d] \in O
  /\ \A d \in D, n \in N : q[d][n] \in Int
  /\ \A p \in O \X N : u[p] \in Int
  /\ \A d \in D, n \in N : w[<<d, n>>] = u[<<g[d], n>>] * q[d][n]
  /\ \A o \in O, n \in N :
       z[<<o, n>>] = u[<<o, n>>] * SumOf([d \in D |-> q[d][n]], {d \in D : g[d] = o})

LEMMA Regrouped ==
  ASSUME NEW D, IsFiniteSet(D), NEW N, IsFiniteSet(N), NEW O, IsFiniteSet(O),
         NEW g, NEW q, NEW u, NEW w, NEW z, Regroups(D, N, O, g, q, u, w, z)
  PROVE  SumOf(w, D \X N) = SumOf(z, O \X N)
<1> USE DEF Regroups
<1> DEFINE f == [l \in D \X N |-> <<g[l[1]], l[2]>>]
           of(p) == {l \in D \X N : f[l] = p}
           v == [p \in O \X N |-> SumOf(w, of(p))]
<1>1. /\ IsFiniteSet(D \X N) /\ IsFiniteSet(O \X N) /\ \A l \in D \X N : f[l] \in O \X N
      /\ \A l \in D \X N : w[l] \in Int
  <2>1. IsFiniteSet(D \X N) /\ IsFiniteSet(O \X N)
    BY FS_Product
  <2>2. ASSUME NEW l \in D \X N PROVE f[l] \in O \X N /\ w[l] \in Int
    <3>1. PICK d \in D, n \in N : l = <<d, n>>
      OBVIOUS
    <3>2. w[l] = u[<<g[d], n>>] * q[d][n] /\ u[<<g[d], n>>] \in Int /\ q[d][n] \in Int
      BY <3>1
    <3> QED
      BY <3>1, <3>2
  <2> QED
    BY <2>1, <2>2
<1>2. SumOf(w, D \X N) = SumOf(v, O \X N)
  <2> DEFINE U == D \X N
             P == O \X N
  <2>1. /\ IsFiniteSet(U) /\ IsFiniteSet(P)
        /\ Goes(f, U, P) /\ Weighs(w, U)
    BY <1>1 DEF Goes, Weighs
  <2>2. v = [p \in P |-> SumOf(w, {l \in U : f[l] = p})]
    OBVIOUS
  <2> HIDE DEF f, U, P, v
  <2>3. SumOf(w, U) = SumOf([p \in P |-> SumOf(w, {l \in U : f[l] = p})], P)
    BY <2>1, SumByParts
  <2> QED
    BY <2>2, <2>3, Zenon DEF U, P
<1>3. ASSUME NEW p \in O \X N PROVE v[p] = z[p]
  <2>1. PICK o \in O, n \in N : p = <<o, n>>
    OBVIOUS
  <2> DEFINE E == {d \in D : g[d] = o}
             h == [d \in E |-> <<d, n>>]
             t == [d \in D |-> q[d][n]]
             r == [d \in E |-> u[p] * q[d][n]]
  <2>2. IsFiniteSet(E)
    BY FS_Subset
  <2>3. \A d \in E : /\ d \in D /\ h[d] = <<d, n>> /\ w[<<d, n>>] = u[p] * q[d][n]
                     /\ q[d][n] \in Int /\ u[p] \in Int
    BY <2>1
  <2>4. Renames(h, w, r, E)
    <3>1. \A d, e \in E : h[d] = h[e] => d = e
      OBVIOUS
    <3>2. ASSUME NEW d \in E PROVE r[d] \in Int /\ w[h[d]] = r[d]
      <4>1. w[h[d]] = u[p] * q[d][n] /\ r[d] = u[p] * q[d][n]
        BY <2>3
      <4>2. \A a, b \in Int : a * b \in Int
        OBVIOUS
      <4> HIDE DEF E, h, r
      <4> QED
        BY <2>3, <4>1, <4>2
    <3> QED
      BY <3>1, <3>2 DEF Renames
  <2>5. of(p) = {h[d] : d \in E}
    <3>1. \A d \in E : h[d] \in of(p)
      BY <2>1, <2>3
    <3>2. ASSUME NEW l \in of(p) PROVE \E d \in E : h[d] = l
      <4>1. PICK d \in D, m \in N : l = <<d, m>>
        OBVIOUS
      <4>2. g[d] = o /\ m = n
        BY <2>1, <4>1
      <4> QED
        BY <4>1, <4>2
    <3> HIDE DEF of, h, E
    <3> QED
      BY <3>1, <3>2
  <2>6. Times(r, u[p], t, E)
    BY <2>3 DEF Times
  <2> HIDE DEF E, h, t, r, of
  <2>7. SumOf(w, of(p)) = SumOf(r, E)
    BY <2>2, <2>4, <2>5, SumNamed
  <2>8. SumOf(r, E) = u[p] * SumOf(t, E)
    BY <2>2, <2>6, SumTimes
  <2>9. z[p] = u[p] * SumOf(t, E)
    BY <2>1 DEF t, E
  <2>10. v[p] = SumOf(w, of(p))
    OBVIOUS
  <2> QED
    BY <2>7, <2>8, <2>9, <2>10, Zenon
<1> HIDE DEF v
<1> QED
  BY <1>1, <1>2, <1>3, SumSame

\* Sums whose terms are close are close.
LEMMA SumNear ==
  ASSUME NEW T, IsFiniteSet(T), NEW v, NEW w, \A x \in T : v[x] \in Int /\ w[x] \in Int,
         NEW a \in Int, NEW b \in Int, NEW u \in Nat,
         \A x \in T : a * w[x] <= b * v[x] + u /\ b * v[x] <= a * w[x] + u
  PROVE  /\ SumOf(v, T) \in Int /\ SumOf(w, T) \in Int /\ Cardinality(T) \in Nat
         /\ a * SumOf(w, T) <= b * SumOf(v, T) + u * Cardinality(T)
         /\ b * SumOf(v, T) <= a * SumOf(w, T) + u * Cardinality(T)
<1> DEFINE Near(s) == /\ a * SumOf(w, s) <= b * SumOf(v, s) + u * Cardinality(s)
                      /\ b * SumOf(v, s) <= a * SumOf(w, s) + u * Cardinality(s)
           Bad == {s \in SUBSET T : ~Near(s)}
<1>0. \A s \in SUBSET T : /\ IsFiniteSet(s) /\ Cardinality(s) \in Nat
                          /\ SumOf(v, s) \in Int /\ SumOf(w, s) \in Int
  BY FS_Subset, FS_CardinalityType, SumType
<1>1. SUFFICES ASSUME Bad # {} PROVE FALSE
  BY <1>0
<1>2. PICK s \in Bad : \A r \in Bad : r \subseteq s => r = s
  <2> HIDE DEF Bad
  <2>1. Bad \in SUBSET (SUBSET T)
    BY DEF Bad
  <2> QED
    BY <1>1, <2>1, LeastSubset
<1>3. s # {}
  <2>1. Near({})
    <3>1. SumOf(v, {}) = 0 /\ SumOf(w, {}) = 0 /\ Cardinality({}) = 0
      BY SumEmpty, FS_EmptySet
    <3> QED
      BY <3>1
  <2> QED
    BY <1>2, <2>1
<1>4. PICK x \in s : x = Pick(s)
  BY <1>3, PickIn
<1> DEFINE r == s \ {x}
<1>5. Near(r)
  BY <1>2
<1>6. /\ SumOf(v, s) = v[x] + SumOf(v, r) /\ SumOf(w, s) = w[x] + SumOf(w, r)
      /\ Cardinality(s) = Cardinality(r) + 1
  <2>1. IsFiniteSet(s) /\ s \subseteq T /\ Cardinality(s) \in Nat
    BY <1>0, <1>2
  <2>2. Cardinality(r) = Cardinality(s) - 1
    BY <2>1, FS_RemoveElement
  <2>3. SumOf(v, s) = v[x] + SumOf(v, r)
    BY <2>1, SumTake
  <2>4. SumOf(w, s) = w[x] + SumOf(w, r)
    BY <2>1, SumTake
  <2> QED
    BY <2>1, <2>2, <2>3, <2>4
<1>7. /\ r \in SUBSET T /\ x \in T
  BY <1>2
<1> HIDE DEF r
<1>8. ASSUME NEW V \in Int, NEW W \in Int, NEW C \in Nat, NEW y \in Int, NEW z \in Int,
             a * W <= b * V + u * C, b * V <= a * W + u * C,
             a * z <= b * y + u, b * y <= a * z + u
      PROVE  /\ a * (z + W) <= b * (y + V) + u * (C + 1)
             /\ b * (y + V) <= a * (z + W) + u * (C + 1)
  <2>1. /\ a * (z + W) = a * z + a * W /\ b * (y + V) = b * y + b * V
        /\ u * (C + 1) = u * C + u
    OBVIOUS
  <2>2. a * z \in Int /\ a * W \in Int /\ b * y \in Int /\ b * V \in Int /\ u * C \in Int
    OBVIOUS
  <2>3. \A k, l, m, n, o \in Int : k <= l + o /\ m <= n + u => m + k <= (n + l) + (o + u)
    OBVIOUS
  <2> QED
    BY <1>8, <2>1, <2>2, <2>3
<1>9. Near(s)
  BY <1>0, <1>5, <1>6, <1>7, <1>8
<1> QED
  BY <1>2, <1>9

----------------------------------------------------------------------------
(* The inductive invariant: types, and the two locked rows agree.          *)

LedgerInv == StockTypeOK /\ ValuationSound

LEMMA ReceiveKeepsLedger ==
  ASSUME LedgerInv, NEW i \in Items, NEW n \in Nat, NEW c \in Nat,
         NEW doc \in Docs \cup {NoDoc}, NEW key \in Keys \cup {NoKey},
         Receive(i, n, c, doc, key), worker' \in [Workers -> Requests \cup {Idle}]
  PROVE  LedgerInv'
<1>1. layer[i] \in Layer /\ level[i] \in Nat /\ inventoryGL[i] \in Int
  BY DEF LedgerInv, StockTypeOK
<1>2. Received(layer[i], n, c) \in Layer
  BY <1>1, ReceivedType
<1>3. Moved(i, n, c, doc, key) \in Seq(Movement)
  BY MovedType DEF LedgerInv
<1>4. StockTypeOK'
  BY <1>1, <1>2, <1>3 DEF LedgerInv, StockTypeOK, Receive
<1>5. ValuationSound'
  <2>1. SUFFICES ASSUME NEW j \in Items PROVE (InSync(j) /\ Consistent(layer[j]))'
    BY DEF ValuationSound
  <2>2. CASE j = i
    <3>1. layer'[i] = Received(layer[i], n, c) /\ level'[i] = level[i] + n
      BY DEF LedgerInv, StockTypeOK, Receive
    <3>2. InSync(i)'
      BY <3>1, <1>1 DEF Receive, CanReceive, InSync, Received, Layer
    <3> QED
      BY <2>2, <3>1, <3>2 DEF Receive, CanReceive, Consistent
  <2>3. CASE j # i
    BY <2>3 DEF LedgerInv, StockTypeOK, ValuationSound, Receive, InSync, Consistent
  <2> QED
    BY <2>2, <2>3
<1> QED
  BY <1>4, <1>5 DEF LedgerInv

LEMMA IssueKeepsLedger ==
  ASSUME LedgerInv, NEW i \in Items, NEW n \in Nat,
         NEW doc \in Docs \cup {NoDoc}, NEW key \in Keys \cup {NoKey},
         Issue(i, n, doc, key), worker' \in [Workers -> Requests \cup {Idle}]
  PROVE  LedgerInv'
<1>1. layer[i] \in Layer /\ level[i] \in Nat /\ inventoryGL[i] \in Int
  BY DEF LedgerInv, StockTypeOK
<1>2. n > 0 /\ n <= level[i] /\ level[i] = layer[i].qty
  BY DEF Issue, CanIssue, InSync
<1>3. Issued(layer[i], n) \in Layer
  BY <1>1, <1>2, IssuedType
<1>4. IssueCost(layer[i], n) \in Nat
  BY <1>1, <1>2, IssueCostBound
<1>5. Moved(i, -n, IssueCost(layer[i], n), doc, key) \in Seq(Movement)
  <2>1. -n \in Int
    OBVIOUS
  <2> QED
    BY <1>4, <2>1, MovedType DEF LedgerInv
<1>6. StockTypeOK'
  BY <1>1, <1>2, <1>3, <1>4, <1>5 DEF LedgerInv, StockTypeOK, Issue
<1>7. ValuationSound'
  <2>1. SUFFICES ASSUME NEW j \in Items PROVE (InSync(j) /\ Consistent(layer[j]))'
    BY DEF ValuationSound
  <2>2. CASE j = i
    <3>1. layer'[i] = Issued(layer[i], n) /\ level'[i] = level[i] - n
      BY DEF LedgerInv, StockTypeOK, Issue
    <3>2. InSync(i)'
      BY <3>1, <1>1, <1>2 DEF InSync, Issued, Layer
    <3> QED
      BY <2>2, <3>1, <3>2 DEF Issue, CanIssue, Consistent
  <2>3. CASE j # i
    BY <2>3 DEF LedgerInv, StockTypeOK, ValuationSound, Issue, InSync, Consistent
  <2> QED
    BY <2>2, <2>3
<1> QED
  BY <1>6, <1>7 DEF LedgerInv

LEMMA IssueStockKeepsLedger ==
  ASSUME LedgerInv, NEW d \in Docs, IssueStock(d)
  PROVE  LedgerInv'
<1>0. Lines[d] \in [Items -> Nat]
  BY ConstantsAreSane
<1>1. ASSUME NEW i \in Items
      PROVE  layer[i] \in Layer /\ level[i] \in Nat /\ inventoryGL[i] \in Int
             /\ history[i] \in Seq(Movement) /\ Lines[d][i] \in Nat
  BY <1>0 DEF LedgerInv, StockTypeOK
<1>2. ASSUME NEW i \in Wanted(d)
      PROVE  /\ i \in Items
             /\ Lines[d][i] > 0 /\ Lines[d][i] <= level[i] /\ level[i] = layer[i].qty
             /\ Consistent(Issued(layer[i], Lines[d][i]))
  BY DEF IssueStock, Wanted, CanIssue, InSync
<1>3. ASSUME NEW i \in Wanted(d)
      PROVE  /\ Issued(layer[i], Lines[d][i]) \in Layer
             /\ IssueCost(layer[i], Lines[d][i]) \in Nat
             /\ Moved(i, -Lines[d][i], IssueCost(layer[i], Lines[d][i]), d, NoKey)
                  \in Seq(Movement)
  <2>1. Issued(layer[i], Lines[d][i]) \in Layer
    BY <1>1, <1>2, IssuedType
  <2>2. IssueCost(layer[i], Lines[d][i]) \in Nat
    BY <1>1, <1>2, IssueCostBound
  <2>3. Moved(i, -Lines[d][i], IssueCost(layer[i], Lines[d][i]), d, NoKey) \in Seq(Movement)
    BY <1>1, <1>2, <2>2, MovedType DEF LedgerInv
  <2> QED
    BY <2>1, <2>2, <2>3
<1>4. StockTypeOK'
  <2>1. level' \in [Items -> Nat]
    <3>1. ASSUME NEW i \in Items PROVE level[i] - Lines[d][i] \in Nat
      <4>1. CASE i \in Wanted(d)
        BY <4>1, <1>1, <1>2
      <4>2. CASE i \notin Wanted(d)
        BY <4>2, <1>1 DEF Wanted
      <4> QED
        BY <4>1, <4>2
    <3> QED
      BY <3>1 DEF IssueStock
  <2>2. layer' \in [Items -> Layer]
    BY <1>1, <1>3 DEF IssueStock
  <2>3. history' \in [Items -> Seq(Movement)]
    BY <1>1, <1>3 DEF IssueStock
  <2>4. inventoryGL' \in [Items -> Int]
    BY <1>1, <1>3 DEF IssueStock
  <2>5. worker' \in [Workers -> Requests \cup {Idle}]
    BY DEF IssueStock, LedgerInv, StockTypeOK
  <2> QED
    BY <2>1, <2>2, <2>3, <2>4, <2>5 DEF StockTypeOK
<1>5. ValuationSound'
  <2>1. SUFFICES ASSUME NEW i \in Items PROVE (InSync(i) /\ Consistent(layer[i]))'
    BY DEF ValuationSound
  <2>2. CASE i \in Wanted(d)
    <3>1. layer'[i] = Issued(layer[i], Lines[d][i]) /\ level'[i] = level[i] - Lines[d][i]
      BY <2>2 DEF IssueStock
    <3>2. InSync(i)'
      BY <2>2, <3>1, <1>1, <1>2 DEF InSync, Issued, Layer
    <3> QED
      BY <2>2, <3>1, <3>2, <1>2 DEF Consistent
  <2>3. CASE i \notin Wanted(d)
    <3>1. layer'[i] = layer[i] /\ level'[i] = level[i]
      BY <2>3, <1>1 DEF IssueStock, Wanted
    <3> QED
      BY <3>1 DEF LedgerInv, ValuationSound, InSync, Consistent
  <2> QED
    BY <2>2, <2>3
<1> QED
  BY <1>4, <1>5 DEF LedgerInv

LEMMA ReturnStockKeepsLedger ==
  ASSUME LedgerInv, NEW d \in Docs, ReturnStock(d)
  PROVE  LedgerInv'
<1>1. ASSUME NEW i \in Items
      PROVE  layer[i] \in Layer /\ level[i] \in Nat /\ inventoryGL[i] \in Int
             /\ history[i] \in Seq(Movement)
  BY DEF LedgerInv, StockTypeOK
<1>2. ASSUME NEW i \in Sold(d)
      PROVE  /\ i \in Items
             /\ -SaleOf(d, i).delta \in Nat /\ SaleOf(d, i).cost \in Nat
             /\ SaleOf(d, i).delta \in Int
             /\ level[i] = layer[i].qty
             /\ Consistent(Received(layer[i], -SaleOf(d, i).delta, SaleOf(d, i).cost))
  <2>1. i \in Items
    BY DEF Sold
  <2>2. /\ -SaleOf(d, i).delta \in Nat /\ SaleOf(d, i).cost \in Nat
        /\ SaleOf(d, i).delta \in Int
    BY <2>1, SaleOfType DEF LedgerInv
  <2> QED
    BY <2>1, <2>2 DEF ReturnStock, CanReceive, InSync
<1>3. ASSUME NEW i \in Sold(d)
      PROVE  /\ Received(layer[i], -SaleOf(d, i).delta, SaleOf(d, i).cost) \in Layer
             /\ Moved(i, -SaleOf(d, i).delta, SaleOf(d, i).cost, d, NoKey) \in Seq(Movement)
  <2>1. Received(layer[i], -SaleOf(d, i).delta, SaleOf(d, i).cost) \in Layer
    BY <1>1, <1>2, ReceivedType
  <2>2. Moved(i, -SaleOf(d, i).delta, SaleOf(d, i).cost, d, NoKey) \in Seq(Movement)
    BY <1>2, MovedType DEF LedgerInv
  <2> QED
    BY <2>1, <2>2
<1>4. StockTypeOK'
  <2>1. level' \in [Items -> Nat]
    BY <1>1, <1>2 DEF ReturnStock
  <2>2. layer' \in [Items -> Layer]
    BY <1>1, <1>3 DEF ReturnStock
  <2>3. history' \in [Items -> Seq(Movement)]
    BY <1>1, <1>3 DEF ReturnStock
  <2>4. inventoryGL' \in [Items -> Int]
    BY <1>1, <1>2 DEF ReturnStock
  <2>5. worker' \in [Workers -> Requests \cup {Idle}]
    BY DEF ReturnStock, LedgerInv, StockTypeOK
  <2> QED
    BY <2>1, <2>2, <2>3, <2>4, <2>5 DEF StockTypeOK
<1>5. ValuationSound'
  <2>1. SUFFICES ASSUME NEW i \in Items PROVE (InSync(i) /\ Consistent(layer[i]))'
    BY DEF ValuationSound
  <2>2. CASE i \in Sold(d)
    <3>1. /\ layer'[i] = Received(layer[i], -SaleOf(d, i).delta, SaleOf(d, i).cost)
          /\ level'[i] = level[i] - SaleOf(d, i).delta
      BY <2>2 DEF ReturnStock
    <3>2. layer'[i].qty = layer[i].qty + (-SaleOf(d, i).delta)
      BY <3>1 DEF Received
    <3>3. /\ level[i] \in Int /\ layer[i].qty = level[i]
          /\ SaleOf(d, i).delta \in Int
      BY <2>2, <1>1, <1>2
    <3>4. InSync(i)'
      BY <3>1, <3>2, <3>3 DEF InSync
    <3> QED
      BY <2>2, <3>1, <3>4, <1>2 DEF Consistent
  <2>3. CASE i \notin Sold(d)
    <3>1. layer'[i] = layer[i] /\ level'[i] = level[i]
      BY <2>3 DEF ReturnStock
    <3> QED
      BY <3>1 DEF LedgerInv, ValuationSound, InSync, Consistent
  <2> QED
    BY <2>2, <2>3
<1> QED
  BY <1>4, <1>5 DEF LedgerInv

LEMMA LedgerInvInit == StockInit => LedgerInv
<1> SUFFICES ASSUME StockInit PROVE LedgerInv
  OBVIOUS
<1>1. [qty |-> 0, cost |-> 0] \in Layer
  BY DEF Layer
<1>2. StockTypeOK
  BY <1>1 DEF StockInit, StockTypeOK
<1>3. ValuationSound
  <2>1. SUFFICES ASSUME NEW i \in Items PROVE InSync(i) /\ Consistent(layer[i])
    BY DEF ValuationSound
  <2>2. level[i] = 0 /\ layer[i] = [qty |-> 0, cost |-> 0]
    BY DEF StockInit
  <2>3. MaxCents \in Nat
    BY ConstantsAreSane
  <2> QED
    BY <2>2, <2>3 DEF InSync, Consistent
<1> QED
  BY <1>2, <1>3 DEF LedgerInv

LEMMA LedgerInvStep ==
  ASSUME LedgerInv, [StockNext]_stockVars
  PROVE  LedgerInv'
<1>w. worker \in [Workers -> Requests \cup {Idle}]
  BY DEF LedgerInv, StockTypeOK
<1>1. ASSUME NEW i \in Items, NEW n \in Quantities, NEW c \in Costs, OpeningStock(i, n, c)
      PROVE  LedgerInv'
  <2>1. n \in Nat /\ c \in Nat
    BY ConstantsAreSane
  <2>2. n * c \in Nat
    BY <2>1
  <2> QED
    BY <1>1, <1>w, <2>1, <2>2, ReceiveKeepsLedger DEF OpeningStock
<1>2. ASSUME NEW i \in Items, NEW n \in Quantities, NEW c \in Costs, GoodsReceipt(i, n, c)
      PROVE  LedgerInv'
  <2>1. n \in Nat /\ c \in Nat
    BY ConstantsAreSane
  <2> QED
    BY <1>2, <1>w, <2>1, ReceiveKeepsLedger DEF GoodsReceipt
<1>3. ASSUME NEW d \in Docs, IssueStock(d) PROVE LedgerInv'
  BY <1>3, IssueStockKeepsLedger
<1>4. ASSUME NEW d \in Docs, ReturnStock(d) PROVE LedgerInv'
  BY <1>4, ReturnStockKeepsLedger
<1>5. ASSUME NEW w \in Workers, NEW r \in Requests, AdjustCheck(w, r) PROVE LedgerInv'
  BY <1>5 DEF AdjustCheck, LedgerInv, StockTypeOK, ValuationSound, InSync, Consistent
<1>6. ASSUME NEW w \in Workers, AdjustApply(w) PROVE LedgerInv'
  <2> DEFINE r == worker[w]
  <2>1. r \in Requests
    BY <1>6, <1>w DEF AdjustApply
  <2>2. r.item \in Items /\ r.delta \in Int /\ r.key \in Keys
    BY <2>1, ConstantsAreSane
  <2>3. worker' \in [Workers -> Requests \cup {Idle}]
    BY <1>6, <1>w DEF AdjustApply, Done
  <2>4. ASSUME NEW c \in Costs, r.delta > 0,
               Receive(r.item, r.delta, r.delta * c, NoDoc, r.key)
        PROVE  LedgerInv'
    <3>1. r.delta \in Nat /\ c \in Nat
      BY <2>2, <2>4, ConstantsAreSane
    <3>2. r.delta * c \in Nat
      BY <3>1
    <3> HIDE DEF r
    <3> QED
      BY <2>2, <2>3, <2>4, <3>1, <3>2, ReceiveKeepsLedger
  <2>5. ASSUME r.delta < 0, Issue(r.item, -r.delta, NoDoc, r.key)
        PROVE  LedgerInv'
    <3>1. -r.delta \in Nat
      BY <2>2, <2>5
    <3> HIDE DEF r
    <3> QED
      BY <2>2, <2>3, <2>5, <3>1, IssueKeepsLedger
  <2> QED
    BY <1>6, <2>4, <2>5 DEF AdjustApply
<1>7. ASSUME NEW w \in Workers, AdjustReplay(w) PROVE LedgerInv'
  <2> DEFINE r == worker[w]
  <2>1. r \in Requests
    BY <1>7, <1>w DEF AdjustReplay
  <2>2. r.item \in Items
    BY <2>1, ConstantsAreSane
  <2>3. PICK k \in DOMAIN history[r.item] :
           inventoryGL' = [inventoryGL EXCEPT ![r.item] =
             IF r.delta > 0 THEN @ + history[r.item][k].cost
                            ELSE @ - history[r.item][k].cost]
    BY <1>7 DEF AdjustReplay
  <2>4. history[r.item][k].cost \in Nat
    <3>1. history[r.item] \in Seq(Movement)
      BY <2>2 DEF LedgerInv, StockTypeOK
    <3>2. history[r.item][k] \in Movement
      BY <3>1
    <3> QED
      BY <3>2 DEF Movement
  <2>5. inventoryGL' \in [Items -> Int]
    BY <2>2, <2>3, <2>4 DEF LedgerInv, StockTypeOK
  <2>6. worker' \in [Workers -> Requests \cup {Idle}]
    BY <1>7, <1>w DEF AdjustReplay, Done
  <2> QED
    BY <1>7, <2>5, <2>6
      DEF AdjustReplay, LedgerInv, StockTypeOK, ValuationSound, InSync, Consistent
<1>8. ASSUME NEW w \in Workers, AdjustRefuse(w) PROVE LedgerInv'
  BY <1>8 DEF AdjustRefuse, Done, LedgerInv, StockTypeOK, ValuationSound, InSync, Consistent
<1>9. CASE UNCHANGED stockVars
  BY <1>9 DEF stockVars, LedgerInv, StockTypeOK, ValuationSound, InSync, Consistent
<1> QED
  BY <1>1, <1>2, <1>3, <1>4, <1>5, <1>6, <1>7, <1>8, <1>9 DEF StockNext, WarehouseStep

\* recordStockMovement keeps its two cached rows typed, in step and in range,
\* for every mix of openings, receipts, sales, voids and adjustments, and for
\* any number of servers.
THEOREM StockTypeCorrect == StockSpec => []StockTypeOK
<1>1. LedgerInv => StockTypeOK
  BY DEF LedgerInv
<1> QED
  BY LedgerInvInit, LedgerInvStep, <1>1, PTL DEF StockSpec

\* No oversell, no drift between the balance and its valuation layer, and no
\* value left on an empty shelf, whatever the interleaving.
THEOREM ValuationAlwaysSound == StockSpec => []ValuationSound
<1>1. LedgerInv => ValuationSound
  BY DEF LedgerInv
<1> QED
  BY LedgerInvInit, LedgerInvStep, <1>1, PTL DEF StockSpec

\* Both together, as the run checks them.
THEOREM StockAlwaysSound == StockSpec => []StockSound
<1>1. StockTypeOK /\ ValuationSound => StockSound
  BY DEF StockSound
<1> QED
  BY <1>1, StockTypeCorrect, ValuationAlwaysSound, PTL

----------------------------------------------------------------------------
(* Idempotency keys.                                                       *)

\* A step that appends at most one movement without a key to each item.
Unkeyed ==
  \A i \in Items :
    \/ history'[i] = history[i]
    \/ \E m : m.key = NoKey /\ history'[i] = Append(history[i], m)

LEMMA UnkeyedStep ==
  ASSUME LedgerInv, LedgerInv',
         \/ \E i \in Items, n \in Quantities, c \in Costs : OpeningStock(i, n, c)
         \/ \E i \in Items, n \in Quantities, c \in Costs : GoodsReceipt(i, n, c)
         \/ \E d \in Docs : IssueStock(d)
         \/ \E d \in Docs : ReturnStock(d)
  PROVE  Unkeyed /\ UNCHANGED worker
<1>1. ASSUME NEW i \in Items, NEW d, NEW c, NEW doc,
             history'[i] = Moved(i, d, c, doc, NoKey)
      PROVE  \E m : m.key = NoKey /\ history'[i] = Append(history[i], m)
  <2> DEFINE m == [delta |-> d, cost |-> c, qtyBefore |-> layer[i].qty,
                   costBefore |-> layer[i].cost, doc |-> doc, key |-> NoKey]
  <2>1. m.key = NoKey
    OBVIOUS
  <2>2. history'[i] = Append(history[i], m)
    BY <1>1 DEF Moved
  <2> QED
    BY <2>1, <2>2
<1>2. ASSUME NEW i \in Items, NEW n \in Nat, NEW c \in Nat,
             Receive(i, n, c, NoDoc, NoKey)
      PROVE  Unkeyed
  <2>1. SUFFICES ASSUME NEW j \in Items
                 PROVE  history'[j] = history[j]
                        \/ \E m : m.key = NoKey /\ history'[j] = Append(history[j], m)
    BY DEF Unkeyed
  <2>2. CASE j = i
    <3>1. history'[i] = Moved(i, n, c, NoDoc, NoKey)
      BY <1>2 DEF Receive, LedgerInv, StockTypeOK
    <3> QED
      BY <2>2, <3>1, <1>1
  <2>3. CASE j # i
    BY <1>2, <2>3 DEF Receive, LedgerInv, StockTypeOK
  <2> QED
    BY <2>2, <2>3
<1>3. ASSUME NEW i \in Items, NEW n \in Quantities, NEW c \in Costs, OpeningStock(i, n, c)
      PROVE  Unkeyed /\ UNCHANGED worker
  <2>1. n \in Nat /\ c \in Nat
    BY ConstantsAreSane
  <2>2. n * c \in Nat
    BY <2>1
  <2> QED
    BY <1>2, <1>3, <2>1, <2>2 DEF OpeningStock
<1>4. ASSUME NEW i \in Items, NEW n \in Quantities, NEW c \in Costs, GoodsReceipt(i, n, c)
      PROVE  Unkeyed /\ UNCHANGED worker
  <2>1. n \in Nat /\ c \in Nat
    BY ConstantsAreSane
  <2> QED
    BY <1>2, <1>4, <2>1 DEF GoodsReceipt
<1>5. ASSUME NEW d \in Docs, IssueStock(d) PROVE Unkeyed /\ UNCHANGED worker
  <2>1. SUFFICES ASSUME NEW i \in Items
                 PROVE  history'[i] = history[i]
                        \/ \E m : m.key = NoKey /\ history'[i] = Append(history[i], m)
    BY <1>5 DEF Unkeyed, IssueStock
  <2>2. CASE i \in Wanted(d)
    <3>1. history'[i] = Moved(i, -Lines[d][i], IssueCost(layer[i], Lines[d][i]), d, NoKey)
      BY <1>5, <2>2 DEF IssueStock
    <3> QED
      BY <3>1, <1>1
  <2>3. CASE i \notin Wanted(d)
    BY <1>5, <2>3 DEF IssueStock
  <2> QED
    BY <2>2, <2>3
<1>6. ASSUME NEW d \in Docs, ReturnStock(d) PROVE Unkeyed /\ UNCHANGED worker
  <2>1. SUFFICES ASSUME NEW i \in Items
                 PROVE  history'[i] = history[i]
                        \/ \E m : m.key = NoKey /\ history'[i] = Append(history[i], m)
    BY <1>6 DEF Unkeyed, ReturnStock
  <2>2. CASE i \in Sold(d)
    <3>1. history'[i] = Moved(i, -SaleOf(d, i).delta, SaleOf(d, i).cost, d, NoKey)
      BY <1>6, <2>2 DEF ReturnStock
    <3> QED
      BY <3>1, <1>1
  <2>3. CASE i \notin Sold(d)
    BY <1>6, <2>3 DEF ReturnStock
  <2> QED
    BY <2>2, <2>3
<1> QED
  BY <1>3, <1>4, <1>5, <1>6

\* Such a step uses up no key.
LEMMA UnkeyedKeepsFree ==
  ASSUME LedgerInv, Unkeyed, NEW key \in Keys, ~KeyUsed(key)
  PROVE  ~KeyUsed(key)'
<1>1. SUFFICES ASSUME NEW i \in Items, NEW k \in DOMAIN history'[i],
                      history'[i][k].key = key
               PROVE  FALSE
  BY DEF KeyUsed
<1>2. history[i] \in Seq(Movement)
  BY DEF LedgerInv, StockTypeOK
<1>3. CASE history'[i] = history[i]
  BY <1>1, <1>3 DEF KeyUsed
<1>4. ASSUME NEW m, m.key = NoKey, history'[i] = Append(history[i], m)
      PROVE  FALSE
  <2>1. CASE k = Len(history[i]) + 1
    <3>1. history'[i][k] = m
      BY <1>2, <1>4, <2>1
    <3> QED
      BY <3>1, <1>1, <1>4, ConstantsAreSane
  <2>2. CASE k # Len(history[i]) + 1
    <3>1. k \in DOMAIN history[i] /\ history'[i][k] = history[i][k]
      BY <1>1, <1>2, <1>4, <2>2
    <3> QED
      BY <3>1, <1>1 DEF KeyUsed
  <2> QED
    BY <2>1, <2>2
<1> QED
  BY <1>3, <1>4 DEF Unkeyed

LEMMA UnkeyedKeepsOnce ==
  ASSUME LedgerInv, Unkeyed, KeyMovesOnce
  PROVE  KeyMovesOnce'
<1>1. ASSUME NEW i \in Items, NEW k \in DOMAIN history'[i], history'[i][k].key # NoKey
      PROVE  k \in DOMAIN history[i] /\ history'[i][k] = history[i][k]
  <2>1. history[i] \in Seq(Movement)
    BY DEF LedgerInv, StockTypeOK
  <2>2. ASSUME NEW m, m.key = NoKey, history'[i] = Append(history[i], m)
        PROVE  k \in DOMAIN history[i] /\ history'[i][k] = history[i][k]
    <3>1. k # Len(history[i]) + 1
      BY <1>1, <2>1, <2>2
    <3> QED
      BY <1>1, <2>1, <2>2, <3>1
  <2> QED
    BY <1>1, <2>2 DEF Unkeyed
<1> QED
  BY <1>1 DEF KeyMovesOnce

\* What AdjustApply does to the histories.
LEMMA AdjustAppends ==
  ASSUME LedgerInv, NEW w \in Workers, AdjustApply(w)
  PROVE  /\ worker[w] \in Requests
         /\ worker[w].item \in Items /\ worker[w].key \in Keys
         /\ ~KeyUsed(worker[w].key)
         /\ \E m : /\ m.key = worker[w].key
                   /\ history'[worker[w].item] = Append(history[worker[w].item], m)
         /\ \A i \in Items \ {worker[w].item} : history'[i] = history[i]
<1> DEFINE r == worker[w]
<1>1. r \in Requests
  BY DEF AdjustApply, LedgerInv, StockTypeOK
<1>2. r.item \in Items /\ r.key \in Keys
  BY <1>1, ConstantsAreSane
<1>3. \E d, c : history' = [history EXCEPT ![r.item] = Moved(r.item, d, c, NoDoc, r.key)]
  BY DEF AdjustApply, Receive, Issue
<1>4. PICK d, c : history' = [history EXCEPT ![r.item] = Moved(r.item, d, c, NoDoc, r.key)]
  BY <1>3
<1>5. history'[r.item] = Moved(r.item, d, c, NoDoc, r.key)
      /\ \A i \in Items \ {r.item} : history'[i] = history[i]
  BY <1>2, <1>4 DEF LedgerInv, StockTypeOK
<1>6. \E m : m.key = r.key /\ history'[r.item] = Append(history[r.item], m)
  <2> DEFINE m == [delta |-> d, cost |-> c, qtyBefore |-> layer[r.item].qty,
                   costBefore |-> layer[r.item].cost, doc |-> NoDoc, key |-> r.key]
  <2>1. m.key = r.key
    OBVIOUS
  <2>2. history'[r.item] = Append(history[r.item], m)
    BY <1>5 DEF Moved
  <2> HIDE DEF m
  <2> QED
    BY <2>1, <2>2
<1> QED
  BY <1>1, <1>2, <1>5, <1>6 DEF AdjustApply

LEMMA AdjustKeepsOnce ==
  ASSUME LedgerInv, KeyMovesOnce, NEW w \in Workers, AdjustApply(w)
  PROVE  KeyMovesOnce'
<1> DEFINE r == worker[w]
<1>1. /\ r.item \in Items /\ r.key \in Keys /\ ~KeyUsed(r.key)
      /\ \A i \in Items \ {r.item} : history'[i] = history[i]
  BY AdjustAppends
<1>2. PICK m : m.key = r.key /\ history'[r.item] = Append(history[r.item], m)
  BY AdjustAppends
<1>3. history[r.item] \in Seq(Movement)
  BY <1>1 DEF LedgerInv, StockTypeOK
<1> DEFINE New(i, k) == i = r.item /\ k = Len(history[r.item]) + 1
<1>4. ASSUME NEW i \in Items, NEW k \in DOMAIN history'[i]
      PROVE  \/ New(i, k) /\ history'[i][k].key = r.key
             \/ /\ ~New(i, k)
                /\ k \in DOMAIN history[i] /\ history'[i][k] = history[i][k]
                /\ history[i][k].key # r.key
  <2>1. CASE i # r.item
    BY <2>1, <1>1 DEF KeyUsed
  <2>2. CASE i = r.item /\ k = Len(history[r.item]) + 1
    BY <2>2, <1>2, <1>3
  <2>3. CASE i = r.item /\ k # Len(history[r.item]) + 1
    <3>1. k \in DOMAIN history[i] /\ history'[i][k] = history[i][k]
      BY <2>3, <1>2, <1>3
    <3> QED
      BY <2>3, <3>1, <1>1 DEF KeyUsed
  <2> QED
    BY <2>1, <2>2, <2>3
<1>5. SUFFICES ASSUME NEW i \in Items, NEW j \in Items,
                      NEW k \in DOMAIN history'[i], NEW l \in DOMAIN history'[j],
                      history'[i][k].key = history'[j][l].key, history'[i][k].key # NoKey
               PROVE  i = j /\ k = l
  BY DEF KeyMovesOnce
<1>6. CASE New(i, k)
  BY <1>4, <1>5, <1>6
<1>7. CASE ~New(i, k)
  BY <1>4, <1>5, <1>7 DEF KeyMovesOnce
<1> QED
  BY <1>6, <1>7

\* An idempotency key moves the stock at most once, for any number of servers
\* that race to serve the same retried request.
THEOREM KeyAlwaysMovesOnce == StockSpec => []KeyMovesOnce
<1>1. StockInit => KeyMovesOnce
  BY DEF StockInit, KeyMovesOnce
<1>2. ASSUME LedgerInv, LedgerInv', KeyMovesOnce, [StockNext]_stockVars
      PROVE  KeyMovesOnce'
  <2>1. CASE \/ \E i \in Items, n \in Quantities, c \in Costs : OpeningStock(i, n, c)
             \/ \E i \in Items, n \in Quantities, c \in Costs : GoodsReceipt(i, n, c)
             \/ \E d \in Docs : IssueStock(d)
             \/ \E d \in Docs : ReturnStock(d)
    BY <1>2, <2>1, UnkeyedStep, UnkeyedKeepsOnce
  <2>2. CASE \E w \in Workers : AdjustApply(w)
    BY <1>2, <2>2, AdjustKeepsOnce
  <2>3. CASE UNCHANGED history
    BY <1>2, <2>3 DEF KeyMovesOnce
  <2> QED
    BY <1>2, <2>1, <2>2, <2>3
      DEF StockNext, WarehouseStep, AdjustCheck, AdjustReplay, AdjustRefuse, stockVars
<1> QED
  BY LedgerInvInit, LedgerInvStep, <1>1, <1>2, PTL DEF StockSpec

----------------------------------------------------------------------------
(* The control account, while no two servers adjust at the same time.      *)

\* Why the account keeps up: a worker that found its key free still has it
\* free when it takes the locks.
PendingFree == \A w \in Workers : worker[w] # Idle => ~KeyUsed(worker[w].key)

ReconcileInv == InventoryReconciles /\ PendingFree

LEMMA ReconcileStep ==
  ASSUME OneAdjusts, LedgerInv, LedgerInv', ReconcileInv, [StockNext]_stockVars
  PROVE  ReconcileInv'
<1>t. /\ layer \in [Items -> Layer] /\ inventoryGL \in [Items -> Int]
      /\ worker \in [Workers -> Requests \cup {Idle}]
  BY DEF LedgerInv, StockTypeOK
<1>k. \A r \in Requests : r.key \in Keys /\ r.item \in Items
  BY ConstantsAreSane
<1>r. ASSUME NEW i \in Items, NEW n, NEW c \in Int, NEW doc, NEW key,
             Receive(i, n, c, doc, key)
      PROVE  InventoryReconciles'
  <2>1. layer' = [layer EXCEPT ![i] = Received(@, n, c)]
        /\ inventoryGL' = [inventoryGL EXCEPT ![i] = @ + c]
    BY <1>r DEF Receive
  <2> QED
    BY <2>1, <1>t DEF ReconcileInv, InventoryReconciles, Received
<1>i. ASSUME NEW i \in Items, NEW n, NEW doc, NEW key, Issue(i, n, doc, key)
      PROVE  InventoryReconciles'
  <2>1. layer' = [layer EXCEPT ![i] = Issued(@, n)]
        /\ inventoryGL' = [inventoryGL EXCEPT ![i] = @ - IssueCost(layer[i], n)]
    BY <1>i DEF Issue
  <2> QED
    BY <2>1, <1>t DEF ReconcileInv, InventoryReconciles, Issued
<1>1. CASE \/ \E i \in Items, n \in Quantities, c \in Costs : OpeningStock(i, n, c)
           \/ \E i \in Items, n \in Quantities, c \in Costs : GoodsReceipt(i, n, c)
           \/ \E d \in Docs : IssueStock(d)
           \/ \E d \in Docs : ReturnStock(d)
  <2>1. Unkeyed /\ UNCHANGED worker
    BY <1>1, UnkeyedStep
  <2>2. PendingFree'
    <3>1. SUFFICES ASSUME NEW w \in Workers, (worker[w] # Idle)'
                   PROVE  (~KeyUsed(worker[w].key))'
      BY DEF PendingFree
    <3>2. worker[w] # Idle /\ worker'[w] = worker[w]
      BY <2>1, <3>1
    <3>3. worker[w].key \in Keys /\ ~KeyUsed(worker[w].key)
      BY <3>2, <1>t, <1>k DEF ReconcileInv, PendingFree
    <3>4. ASSUME NEW key \in Keys, ~KeyUsed(key) PROVE ~KeyUsed(key)'
      BY <2>1, <3>4, UnkeyedKeepsFree
    <3> QED
      BY <3>2, <3>3, <3>4 DEF KeyUsed
  <2>3. ASSUME NEW i \in Items, NEW n \in Quantities, NEW c \in Costs, OpeningStock(i, n, c)
        PROVE  InventoryReconciles'
    <3>1. n * c \in Int
      BY ConstantsAreSane
    <3> QED
      BY <2>3, <3>1, <1>r DEF OpeningStock
  <2>4. ASSUME NEW i \in Items, NEW n \in Quantities, NEW c \in Costs, GoodsReceipt(i, n, c)
        PROVE  InventoryReconciles'
    <3>1. c \in Int
      BY ConstantsAreSane
    <3> QED
      BY <2>4, <3>1, <1>r DEF GoodsReceipt
  <2>5. ASSUME NEW d \in Docs, IssueStock(d) PROVE InventoryReconciles'
    <3>1. SUFFICES ASSUME NEW i \in Items PROVE inventoryGL'[i] = layer'[i].cost
      BY DEF InventoryReconciles
    <3>2. inventoryGL[i] = layer[i].cost
      BY DEF ReconcileInv, InventoryReconciles
    <3>3. CASE i \in Wanted(d)
      BY <2>5, <3>2, <3>3 DEF IssueStock, Issued
    <3>4. CASE i \notin Wanted(d)
      BY <2>5, <3>2, <3>4 DEF IssueStock
    <3> QED
      BY <3>3, <3>4
  <2>6. ASSUME NEW d \in Docs, ReturnStock(d) PROVE InventoryReconciles'
    <3>1. SUFFICES ASSUME NEW i \in Items PROVE inventoryGL'[i] = layer'[i].cost
      BY DEF InventoryReconciles
    <3>2. inventoryGL[i] = layer[i].cost
      BY DEF ReconcileInv, InventoryReconciles
    <3>3. CASE i \in Sold(d)
      BY <2>6, <3>2, <3>3 DEF ReturnStock, Received
    <3>4. CASE i \notin Sold(d)
      BY <2>6, <3>2, <3>4 DEF ReturnStock
    <3> QED
      BY <3>3, <3>4
  <2>7. InventoryReconciles'
    BY <1>1, <2>3, <2>4, <2>5, <2>6
  <2> QED
    BY <2>2, <2>7 DEF ReconcileInv
<1>2. ASSUME NEW w \in Workers, NEW r \in Requests, AdjustCheck(w, r)
      PROVE  ReconcileInv'
  <2>1. InventoryReconciles'
    BY <1>2 DEF AdjustCheck, ReconcileInv, InventoryReconciles
  <2>2. PendingFree'
    BY <1>2, <1>t DEF AdjustCheck, ReconcileInv, PendingFree, KeyUsed
  <2> QED
    BY <2>1, <2>2 DEF ReconcileInv
<1>3. ASSUME NEW w \in Workers, AdjustApply(w) PROVE ReconcileInv'
  <2>1. worker[w] \in Requests
    BY <1>3, <1>t DEF AdjustApply
  <2>2. worker[w].item \in Items /\ worker[w].delta \in Int
    BY <2>1, ConstantsAreSane
  <2>3. ASSUME NEW c \in Costs, Receive(worker[w].item, worker[w].delta,
                 worker[w].delta * c, NoDoc, worker[w].key)
        PROVE  InventoryReconciles'
    <3>1. c \in Int
      BY ConstantsAreSane
    <3>2. worker[w].delta * c \in Int
      BY <2>2, <3>1
    <3> QED
      BY <2>2, <2>3, <3>2, <1>r
  <2>4. InventoryReconciles'
    BY <1>3, <2>2, <2>3, <1>i DEF AdjustApply
  <2>5. \A v \in Workers : worker'[v] = Idle
    BY <1>3, <1>t DEF OneAdjusts, AdjustApply, Done
  <2> QED
    BY <2>4, <2>5 DEF ReconcileInv, PendingFree
<1>4. ASSUME NEW w \in Workers, AdjustReplay(w) PROVE FALSE
  <2>1. worker[w] \in Requests /\ worker[w] # Idle
    BY <1>4, <1>t DEF AdjustReplay
  <2>2. KeyUsed(worker[w].key)
    BY <1>4, <2>1, <1>k DEF AdjustReplay, SameMovement, KeyUsed
  <2> QED
    BY <2>1, <2>2 DEF ReconcileInv, PendingFree
<1>5. ASSUME NEW w \in Workers, AdjustRefuse(w) PROVE ReconcileInv'
  BY <1>5, <1>t DEF AdjustRefuse, Done, ReconcileInv, PendingFree,
                        InventoryReconciles, KeyUsed
<1>6. CASE UNCHANGED stockVars
  BY <1>6 DEF stockVars, ReconcileInv, PendingFree, InventoryReconciles, KeyUsed
<1> QED
  BY <1>1, <1>2, <1>3, <1>4, <1>5, <1>6 DEF StockNext, WarehouseStep

\* The two totals of the tie-out, and why they agree.
GLTotal == SumFunction(inventoryGL)
CostTotal == SumFunction([i \in Items |-> layer[i].cost])

LEMMA TotalsAgree == ASSUME LedgerInv, InventoryReconciles PROVE GLTotal = CostTotal
<1>1. inventoryGL = [i \in Items |-> layer[i].cost]
  BY DEF LedgerInv, StockTypeOK, InventoryReconciles
<1> QED
  BY <1>1 DEF GLTotal, CostTotal

LEMMA TieOutTells ==
  ASSUME LedgerInv
  PROVE  /\ Reconciliation.mismatches = {}
         /\ InventoryReconciles => Reconciliation.status = "RECONCILED"
<1>1. \A i \in Items : PositionStatus(i) = "ALIGNED"
  BY DEF LedgerInv, ValuationSound, InSync, PositionStatus
<1>2. {i \in Items : PositionStatus(i) # "ALIGNED"} = {}
  BY <1>1
<1> DEFINE mismatches == {i \in Items : PositionStatus(i) # "ALIGNED"}
<1>3. Reconciliation =
        [difference |-> GLTotal - CostTotal, mismatches |-> mismatches,
         status |-> IF GLTotal = CostTotal /\ mismatches = {}
                    THEN "RECONCILED" ELSE "NEEDS_REVIEW"]
  BY Zenon DEF Reconciliation, GLTotal, CostTotal
<1>4. mismatches = {}
  BY <1>2
<1> HIDE DEF mismatches
<1>5. Reconciliation.mismatches = {}
  BY <1>3, <1>4
<1>6. InventoryReconciles => Reconciliation.status = "RECONCILED"
  BY <1>3, <1>4, TotalsAgree
<1> QED
  BY <1>5, <1>6

LEMMA AdjustTurnStep ==
  ASSUME LedgerInv, LedgerInv', contended \/ (OneAdjusts /\ ReconcileInv), [AdjustNext]_adjustVars
  PROVE  contended' \/ (OneAdjusts' /\ ReconcileInv')
<1>1. CASE UNCHANGED adjustVars
  <2>1. UNCHANGED stockVars /\ contended' = contended /\ worker' = worker
    BY <1>1 DEF adjustVars, stockVars
  <2>2. OneAdjusts' <=> OneAdjusts
    BY <2>1 DEF OneAdjusts
  <2>3. OneAdjusts /\ ReconcileInv => ReconcileInv'
    BY <2>1, ReconcileStep
  <2> QED
    BY <2>1, <2>2, <2>3
<1>2. CASE AdjustNext
  <2>1. StockNext /\ contended' = (contended \/ ~OneAdjusts')
    BY <1>2, Zenon DEF AdjustNext
  <2>2. ASSUME contended \/ ~OneAdjusts' PROVE contended'
    <3>1. (contended \/ ~OneAdjusts') = TRUE
      BY <2>2, Zenon
    <3> QED
      BY <2>1, <3>1, Zenon
  <2>3. OneAdjusts /\ ReconcileInv => ReconcileInv'
    BY <2>1, ReconcileStep
  <2> QED
    BY <2>2, <2>3, Zenon
<1> QED
  BY <1>1, <1>2

\* Until two servers first have adjustments in hand at once, the INVENTORY account
\* carries exactly the cost of the stock on hand and the tie-out says RECONCILED;
\* and the tie-out never reports a quantity that is off, even afterwards.  That
\* two servers may break it is what the run stock_double_adjust shows.
THEOREM InventoryReconcilesInTurn == AdjustSpec => []ReconcilesInTurn
<1> DEFINE Inv == contended \/ (OneAdjusts /\ ReconcileInv)
<1>1. AdjustSpec => StockSpec
  <2>1. AdjustInit => StockInit
    BY DEF AdjustInit
  <2>2. [AdjustNext]_adjustVars => [StockNext]_stockVars
    BY DEF AdjustNext, adjustVars
  <2> QED
    BY <2>1, <2>2, PTL DEF AdjustSpec, StockSpec
<1>2. StockSpec => []LedgerInv
  BY LedgerInvInit, LedgerInvStep, PTL DEF StockSpec
<1>3. AdjustInit => Inv
  BY DEF AdjustInit, StockInit, OneAdjusts, ReconcileInv, PendingFree, InventoryReconciles
<1>4. LedgerInv /\ LedgerInv' /\ Inv /\ [AdjustNext]_adjustVars => Inv'
  BY AdjustTurnStep
<1>5. LedgerInv /\ Inv => ReconcilesInTurn
  BY TieOutTells DEF ReconcilesInTurn, ReconcileInv
<1> QED
  BY <1>1, <1>2, <1>3, <1>4, <1>5, PTL DEF AdjustSpec

\* The INVENTORY account equals the cost of the stock on hand for ever, when one
\* server handles all the adjustments.
THEOREM InventoryAlwaysReconciles ==
  ASSUME \A v, w \in Workers : v = w
  PROVE  StockSpec => []InventoryReconciles
<1>1. StockInit => ReconcileInv
  BY DEF StockInit, ReconcileInv, PendingFree, InventoryReconciles
<1>2. ReconcileInv => InventoryReconciles
  BY DEF ReconcileInv
<1>3. OneAdjusts
  BY DEF OneAdjusts
<1>4. LedgerInv /\ LedgerInv' /\ ReconcileInv /\ [StockNext]_stockVars => ReconcileInv'
  BY <1>3, ReconcileStep
<1> QED
  BY LedgerInvInit, LedgerInvStep, <1>1, <1>2, <1>4, PTL DEF StockSpec
----------------------------------------------------------------------------
(* The history tells the balance.                                          *)

\* A layer after one movement; one movement of item i, which finds the layer its
\* evidence names; and what a movement that carries an invoice answers to.
Applied(l, m) ==
  [qty  |-> l.qty + m.delta,
   cost |-> IF m.delta > 0 THEN l.cost + m.cost ELSE l.cost - m.cost]

Extended(i, m) ==
  /\ m \in Movement
  /\ m.qtyBefore = layer[i].qty /\ m.costBefore = layer[i].cost
  /\ history'[i] = Append(history[i], m)
  /\ layer'[i] = Applied(layer[i], m)

Answers(i, m) ==
  m.doc \in Docs =>
    \/ m.delta < 0 /\ Sold(m.doc) = {}
    \/ /\ m.delta > 0 /\ i \in Sold(m.doc) /\ Returns(m.doc, i) = {}
       /\ m.delta = -SaleOf(m.doc, i).delta /\ m.cost = SaleOf(m.doc, i).cost

Moves(i) ==
  \/ history'[i] = history[i] /\ layer'[i] = layer[i]
  \/ \E m \in Movement : Extended(i, m) /\ Answers(i, m)

\* A movement that no invoice makes.
PlainMoves(i) ==
  \/ history'[i] = history[i] /\ layer'[i] = layer[i]
  \/ \E m \in Movement : Extended(i, m) /\ m.doc = NoDoc

LEMMA ReceiveMoves ==
  ASSUME LedgerInv, NEW i \in Items, NEW n \in Nat, NEW c \in Nat,
         NEW key \in Keys \cup {NoKey}, Receive(i, n, c, NoDoc, key)
  PROVE  \A j \in Items : PlainMoves(j)
<1>1. layer \in [Items -> Layer] /\ history \in [Items -> Seq(Movement)] /\ layer[i] \in Layer
  BY DEF LedgerInv, StockTypeOK
<1> DEFINE m == [delta |-> n, cost |-> c, qtyBefore |-> layer[i].qty,
                 costBefore |-> layer[i].cost, doc |-> NoDoc, key |-> key]
<1>2. n > 0 /\ layer' = [layer EXCEPT ![i] = Received(layer[i], n, c)]
      /\ history' = [history EXCEPT ![i] = Append(history[i], m)]
  BY <1>1 DEF Receive, CanReceive, Moved
<1>3. m \in Movement
  BY <1>1 DEF Movement, Layer
<1>4. Received(layer[i], n, c) = Applied(layer[i], m)
  BY <1>2 DEF Received, Applied
<1>5. /\ m.qtyBefore = layer[i].qty /\ m.costBefore = layer[i].cost /\ m.doc = NoDoc
  OBVIOUS
<1> HIDE DEF m
<1>6. Extended(i, m) /\ m.doc = NoDoc
  BY <1>1, <1>2, <1>3, <1>4, <1>5 DEF Extended
<1>7. \A j \in Items \ {i} : history'[j] = history[j] /\ layer'[j] = layer[j]
  BY <1>1, <1>2
<1> QED
  BY <1>3, <1>6, <1>7 DEF PlainMoves

LEMMA IssueMoves ==
  ASSUME LedgerInv, NEW i \in Items, NEW n \in Nat,
         NEW key \in Keys \cup {NoKey}, Issue(i, n, NoDoc, key)
  PROVE  \A j \in Items : PlainMoves(j)
<1>1. /\ layer \in [Items -> Layer] /\ history \in [Items -> Seq(Movement)] /\ layer[i] \in Layer
      /\ n > 0 /\ n <= level[i] /\ level[i] = layer[i].qty
  BY DEF LedgerInv, StockTypeOK, Issue, CanIssue, InSync
<1>2. IssueCost(layer[i], n) \in Nat
  BY <1>1, IssueCostBound
<1> DEFINE c == IssueCost(layer[i], n)
           m == [delta |-> -n, cost |-> c, qtyBefore |-> layer[i].qty,
                 costBefore |-> layer[i].cost, doc |-> NoDoc, key |-> key]
<1>3. layer' = [layer EXCEPT ![i] = Issued(layer[i], n)]
      /\ history' = [history EXCEPT ![i] = Append(history[i], m)]
  BY <1>1 DEF Issue, Moved
<1> HIDE DEF c
<1>4. m \in Movement
  BY <1>1, <1>2 DEF Movement, Layer, c
<1>5. Issued(layer[i], n) = Applied(layer[i], m)
  BY <1>1, <1>2 DEF Issued, Applied, Layer, c
<1>6. m.qtyBefore = layer[i].qty /\ m.costBefore = layer[i].cost /\ m.doc = NoDoc
  OBVIOUS
<1> HIDE DEF m
<1>7. Extended(i, m) /\ m.doc = NoDoc
  BY <1>1, <1>3, <1>4, <1>5, <1>6 DEF Extended
<1>8. \A j \in Items \ {i} : history'[j] = history[j] /\ layer'[j] = layer[j]
  BY <1>1, <1>3
<1> QED
  BY <1>4, <1>7, <1>8 DEF PlainMoves

LEMMA IssueStockMoves ==
  ASSUME LedgerInv, NEW d \in Docs, IssueStock(d), NEW i \in Items
  PROVE  /\ i \in Wanted(d) => \E m \in Movement : Extended(i, m) /\ Answers(i, m) /\ m.doc = d
         /\ i \notin Wanted(d) => history'[i] = history[i] /\ layer'[i] = layer[i]
<1>1. CASE i \in Wanted(d)
  <2> DEFINE n == Lines[d][i]
             c == IssueCost(layer[i], n)
             m == [delta |-> -n, cost |-> c, qtyBefore |-> layer[i].qty,
                   costBefore |-> layer[i].cost, doc |-> d, key |-> NoKey]
  <2>1. /\ layer[i] \in Layer /\ n \in Nat /\ n > 0 /\ n <= level[i] /\ level[i] = layer[i].qty
    BY <1>1, ConstantsAreSane DEF LedgerInv, StockTypeOK, IssueStock, CanIssue, InSync, Wanted
  <2>2. c \in Nat
    BY <2>1, IssueCostBound
  <2>3. layer'[i] = Issued(layer[i], n) /\ history'[i] = Append(history[i], m) /\ Sold(d) = {}
    BY <1>1 DEF IssueStock, Moved
  <2> HIDE DEF c
  <2>4. m \in Movement
    BY <2>1, <2>2 DEF Movement, Layer
  <2>5. Issued(layer[i], n) = Applied(layer[i], m)
    BY <2>1, <2>2 DEF Issued, Applied, Layer, c
  <2>6. /\ m.qtyBefore = layer[i].qty /\ m.costBefore = layer[i].cost /\ m.doc = d
        /\ m.delta < 0
    BY <2>1
  <2> HIDE DEF m
  <2>7. Extended(i, m) /\ Answers(i, m)
    BY <2>3, <2>4, <2>5, <2>6 DEF Extended, Answers
  <2> QED
    BY <1>1, <2>4, <2>6, <2>7
<1>2. CASE i \notin Wanted(d)
  BY <1>2 DEF IssueStock
<1> QED
  BY <1>1, <1>2

LEMMA ReturnStockMoves ==
  ASSUME LedgerInv, NEW d \in Docs, ReturnStock(d), NEW i \in Items
  PROVE  /\ i \in Sold(d) =>
              \E m \in Movement : Extended(i, m) /\ Answers(i, m) /\ m.doc = d /\ m.delta > 0
         /\ i \notin Sold(d) => history'[i] = history[i] /\ layer'[i] = layer[i]
<1>1. CASE i \in Sold(d)
  <2> DEFINE n == -SaleOf(d, i).delta
             c == SaleOf(d, i).cost
             m == [delta |-> n, cost |-> c, qtyBefore |-> layer[i].qty,
                   costBefore |-> layer[i].cost, doc |-> d, key |-> NoKey]
  <2>1. layer[i] \in Layer /\ n \in Nat /\ n > 0 /\ c \in Nat /\ n = -SaleOf(d, i).delta
    BY <1>1, SaleOfType DEF LedgerInv, StockTypeOK
  <2>2. /\ layer'[i] = Received(layer[i], n, c) /\ history'[i] = Append(history[i], m)
        /\ Returns(d, i) = {}
    BY <1>1 DEF ReturnStock, Moved
  <2> HIDE DEF n
  <2>3. m \in Movement
    BY <2>1 DEF Movement, Layer
  <2>4. Received(layer[i], n, c) = Applied(layer[i], m)
    BY <2>1 DEF Received, Applied
  <2>5. /\ m.qtyBefore = layer[i].qty /\ m.costBefore = layer[i].cost /\ m.doc = d
        /\ m.delta > 0 /\ m.delta = -SaleOf(d, i).delta /\ m.cost = SaleOf(d, i).cost
    BY <2>1
  <2> HIDE DEF m
  <2>6. Extended(i, m) /\ Answers(i, m)
    BY <1>1, <2>2, <2>3, <2>4, <2>5 DEF Extended, Answers
  <2> QED
    BY <1>1, <2>3, <2>5, <2>6
<1>2. CASE i \notin Sold(d)
  BY <1>2 DEF ReturnStock
<1> QED
  BY <1>1, <1>2

LEMMA WarehouseMoves ==
  ASSUME LedgerInv, WarehouseStep, NEW j \in Items
  PROVE  PlainMoves(j)
<1>1. ASSUME NEW i \in Items, NEW n \in Quantities, NEW c \in Costs,
             OpeningStock(i, n, c) \/ GoodsReceipt(i, n, c)
      PROVE  PlainMoves(j)
  <2>1. n \in Nat /\ c \in Nat /\ n * c \in Nat
    BY ConstantsAreSane
  <2>2. Receive(i, n, n * c, NoDoc, NoKey) \/ Receive(i, n, c, NoDoc, NoKey)
    BY <1>1 DEF OpeningStock, GoodsReceipt
  <2> QED
    BY <2>1, <2>2, ReceiveMoves
<1>2. ASSUME NEW w \in Workers, AdjustApply(w)
      PROVE  PlainMoves(j)
  <2> DEFINE r == worker[w]
  <2>1. r \in Requests /\ r.item \in Items /\ r.key \in Keys /\ r.delta \in Int
    BY <1>2, ConstantsAreSane DEF AdjustApply, LedgerInv, StockTypeOK
  <2>2. CASE r.delta > 0 /\ \E c \in Costs : Receive(r.item, r.delta, r.delta * c, NoDoc, r.key)
    <3>1. PICK c \in Costs : Receive(r.item, r.delta, r.delta * c, NoDoc, r.key)
      BY <2>2
    <3>2. r.delta \in Nat /\ c \in Nat
      BY <2>1, <2>2, ConstantsAreSane
    <3>3. r.delta * c \in Nat
      BY <3>2
    <3> HIDE DEF r
    <3> QED
      BY <2>1, <3>1, <3>2, <3>3, ReceiveMoves
  <2>3. CASE r.delta < 0 /\ Issue(r.item, -r.delta, NoDoc, r.key)
    <3>1. -r.delta \in Nat
      BY <2>1, <2>3
    <3> HIDE DEF r
    <3> QED
      BY <2>1, <2>3, <3>1, IssueMoves
  <2> QED
    BY <1>2, <2>2, <2>3 DEF AdjustApply
<1>3. ASSUME NEW w \in Workers,
             (\E r \in Requests : AdjustCheck(w, r)) \/ AdjustReplay(w) \/ AdjustRefuse(w)
      PROVE  PlainMoves(j)
  BY <1>3 DEF AdjustCheck, AdjustReplay, AdjustRefuse, PlainMoves
<1> QED
  BY <1>1, <1>2, <1>3, Zenon DEF WarehouseStep

\* Every step of the ledger moves each item at most once.
LEMMA EveryStepMoves ==
  ASSUME LedgerInv, [StockNext]_stockVars, NEW j \in Items
  PROVE  Moves(j)
<1>1. CASE WarehouseStep
  BY <1>1, WarehouseMoves, ConstantsAreSane DEF PlainMoves, Moves, Answers
<1>2. ASSUME NEW d \in Docs, IssueStock(d) \/ ReturnStock(d)
      PROVE  Moves(j)
  BY <1>2, IssueStockMoves, ReturnStockMoves DEF Moves
<1>3. CASE UNCHANGED stockVars
  BY <1>3 DEF stockVars, Moves
<1> QED
  BY <1>1, <1>2, <1>3, Zenon DEF StockNext

\* The layer before movement k, as the evidence has it; after the last, the cache.
Before(i, k) ==
  IF k <= Len(history[i])
  THEN [qty |-> history[i][k].qtyBefore, cost |-> history[i][k].costBefore]
  ELSE [qty |-> layer[i].qty, cost |-> layer[i].cost]

EmptyLayer == [qty |-> 0, cost |-> 0]

\* Each movement leads from the layer before it to the layer before the next.
Chained(i) ==
  /\ Before(i, 1) = EmptyLayer
  /\ \A k \in 1 .. Len(history[i]) :
       /\ Before(i, k + 1) = Applied(Before(i, k), history[i][k])
       /\ Consistent(Before(i, k + 1))

LEMMA ChainedStep ==
  ASSUME LedgerInv, LedgerInv', NEW i \in Items, Moves(i), Chained(i)
  PROVE  Chained(i)'
<1>1. /\ history[i] \in Seq(Movement) /\ layer[i] \in Layer /\ layer'[i] \in Layer
      /\ Consistent(layer'[i])
  BY DEF LedgerInv, StockTypeOK, ValuationSound, Consistent
<1>2. CASE history'[i] = history[i] /\ layer'[i] = layer[i]
  BY <1>2 DEF Chained, Before, Applied, Consistent
<1>3. CASE \E m \in Movement : Extended(i, m)
  <2>1. PICK m \in Movement : Extended(i, m)
    BY <1>3
  <2>0. PICK n \in Nat : n = Len(history[i])
    BY <1>1
  <2>2. /\ m.qtyBefore = layer[i].qty /\ m.costBefore = layer[i].cost
        /\ history'[i] = Append(history[i], m) /\ layer'[i] = Applied(layer[i], m)
    BY <2>1 DEF Extended
  <2>3. /\ n \in Nat /\ Len(history[i]) = n
        /\ Len(history'[i]) = n + 1 /\ history'[i][n + 1] = m
        /\ \A k \in 1 .. n : history'[i][k] = history[i][k]
    BY <1>1, <2>0, <2>2
  <2>4. ASSUME NEW k \in 1 .. n + 1 PROVE Before(i, k)' = Before(i, k)
    <3>1. CASE k \in 1 .. n
      BY <2>3, <3>1 DEF Before
    <3>2. CASE k = n + 1
      <4>1. ~(k <= n) /\ k <= n + 1
        BY <2>3, <3>2
      <4> QED
        BY <2>2, <2>3, <3>2, <4>1 DEF Before
    <3> QED
      BY <2>3, <3>1, <3>2
  <2>5. Before(i, n + 2)' = layer'[i]
    <3>1. ~(n + 2 <= Len(history'[i]))
      BY <2>3
    <3> QED
      BY <1>1, <3>1 DEF Before, Layer
  <2>6. Applied(Before(i, n + 1), m) = layer'[i]
    <3>1. ~(n + 1 <= Len(history[i]))
      BY <2>3
    <3> QED
      BY <2>2, <3>1 DEF Before, Applied
  <2>7. Before(i, 1)' = EmptyLayer
    BY <2>3, <2>4 DEF Chained
  <2>8. ASSUME NEW k \in 1 .. n + 1
        PROVE  /\ Before(i, k + 1)' = Applied(Before(i, k)', history'[i][k])
               /\ Consistent(Before(i, k + 1)')
    <3>1. CASE k \in 1 .. n
      <4>1. k \in 1 .. n + 1 /\ k + 1 \in 1 .. n + 1
        BY <2>3, <3>1
      <4>2. Before(i, k)' = Before(i, k) /\ Before(i, k + 1)' = Before(i, k + 1)
        BY <2>4, <4>1
      <4> QED
        BY <2>3, <3>1, <4>2 DEF Chained
    <3>2. CASE k = n + 1
      <4>1. k + 1 = n + 2 /\ n + 1 \in 1 .. n + 1
        BY <2>3, <3>2
      <4>2. Before(i, k + 1)' = layer'[i] /\ Before(i, k)' = Before(i, n + 1)
        BY <2>4, <2>5, <3>2, <4>1
      <4> QED
        BY <1>1, <2>3, <2>6, <3>2, <4>2
    <3> QED
      BY <2>3, <3>1, <3>2
  <2> QED
    BY <2>3, <2>7, <2>8 DEF Chained, Applied, Consistent
<1> QED
  BY <1>2, <1>3 DEF Moves

LEMMA LeastNumber ==
  ASSUME NEW n \in Nat, NEW B \in SUBSET (0 .. n), B # {}
  PROVE  \E k \in B : \A j \in B : k <= j
<1> DEFINE T == {1 .. k : k \in B}
<1>1. T \in SUBSET (SUBSET (1 .. n)) /\ T # {}
  <2>1. ASSUME NEW k \in B PROVE 1 .. k \in SUBSET (1 .. n)
    OBVIOUS
  <2> QED
    BY <2>1
<1>2. PICK s \in T : \A u \in T : u \subseteq s => u = s
  <2> DEFINE S == 1 .. n
  <2>1. IsFiniteSet(S)
    BY FS_Interval
  <2>2. T \in SUBSET (SUBSET S) /\ T # {}
    BY <1>1
  <2> HIDE DEF S, T
  <2> QED
    BY <2>1, <2>2, LeastSubset
<1>3. PICK k \in B : s = 1 .. k
  BY <1>2
<1>4. ASSUME NEW j \in B, j < k PROVE FALSE
  <2>1. 1 .. j \in T /\ 1 .. j \subseteq 1 .. k /\ k \in 1 .. k /\ k \notin 1 .. j
    BY <1>4
  <2> QED
    BY <1>2, <1>3, <2>1
<1> QED
  BY <1>4

\* What the recursion of the rebuild computes: the layers the evidence names.
LEMMA RebuiltIs ==
  ASSUME NEW i \in Items, history[i] \in Seq(Movement), Chained(i)
  PROVE  \A k \in 0 .. Len(history[i]) : Rebuilt(i)[k] = Before(i, k + 1)
<1> DEFINE n == Len(history[i])
           E(f) == [k \in 0 .. n |->
                      IF k = 0 THEN EmptyLayer ELSE Applied(f[k - 1], history[i][k])]
           e == [k \in 0 .. n |-> Before(i, k + 1)]
           R == CHOOSE f : f = E(f)
<1>1. Rebuilt(i) = R
  BY Zenon DEF Rebuilt, Applied, EmptyLayer
<1>2. n \in Nat
  OBVIOUS
<1>3. e = E(e)
  <2>1. ASSUME NEW k \in 0 .. n
        PROVE  Before(i, k + 1) = IF k = 0 THEN EmptyLayer ELSE Applied(e[k - 1], history[i][k])
    <3>1. CASE k = 0
      BY <3>1 DEF Chained
    <3>2. CASE k # 0
      <4>1. k \in 1 .. n /\ k - 1 \in 0 .. n /\ (k - 1) + 1 = k
        BY <1>2, <3>2
      <4>2. e[k - 1] = Before(i, k)
        BY <4>1
      <4> QED
        BY <3>2, <4>1, <4>2 DEF Chained
    <3> QED
      BY <3>1, <3>2
  <2> HIDE DEF n
  <2> QED
    BY <2>1
<1>4. R = E(R)
  <2> HIDE DEF e, E
  <2> QED
    BY <1>3
<1> HIDE DEF R, e
<1>5. \A k \in 0 .. n : R[k] = e[k]
  <2> DEFINE Bad == {k \in 0 .. n : R[k] # e[k]}
  <2>1. SUFFICES ASSUME Bad # {} PROVE FALSE
    OBVIOUS
  <2>2. PICK k \in Bad : \A j \in Bad : k <= j
    <3>1. Bad \in SUBSET (0 .. n)
      OBVIOUS
    <3> HIDE DEF Bad, n
    <3> QED
      BY <1>2, <2>1, <3>1, LeastNumber
  <2>3. R[k] = IF k = 0 THEN EmptyLayer ELSE Applied(R[k - 1], history[i][k])
    BY <1>4
  <2>4. e[k] = IF k = 0 THEN EmptyLayer ELSE Applied(e[k - 1], history[i][k])
    BY <1>3
  <2>5. k # 0
    BY <2>2, <2>3, <2>4
  <2>6. k - 1 \in 0 .. n /\ k - 1 < k
    BY <1>2, <2>5
  <2>7. R[k - 1] = e[k - 1]
    BY <2>2, <2>6
  <2> QED
    BY <2>2, <2>3, <2>4, <2>5, <2>7
<1> QED
  BY <1>1, <1>5 DEF e

\* What an invoice sold of an item it sold in one movement, and what came back
\* came back as it went.
SoldOnce(d, i) ==
  /\ \A k, l \in Sales(d, i) : k = l
  /\ Returns(d, i) # {} => Sales(d, i) # {}
  /\ \A k \in Sales(d, i), l \in Returns(d, i) :
       /\ history[i][l].delta = -history[i][k].delta
       /\ history[i][l].cost = history[i][k].cost

\* The sales and returns of an invoice after one movement of the item.
LEMMA SalesAfter ==
  ASSUME NEW i \in Items, history[i] \in Seq(Movement), NEW m \in Movement, NEW d,
         history'[i] = Append(history[i], m), NEW n, n = Len(history[i]) + 1
  PROVE  /\ Sales(d, i)' = IF m.doc = d /\ m.delta < 0 THEN Sales(d, i) \cup {n} ELSE Sales(d, i)
         /\ Returns(d, i)' = IF m.doc = d /\ m.delta > 0 THEN Returns(d, i) \cup {n} ELSE Returns(d, i)
         /\ history'[i][n] = m
         /\ \A k \in DOMAIN history[i] : history'[i][k] = history[i][k]
         /\ n \notin Sales(d, i) /\ n \notin Returns(d, i)
         /\ Sales(d, i) \subseteq DOMAIN history[i] /\ Returns(d, i) \subseteq DOMAIN history[i]
<1>1. /\ n \in Nat /\ DOMAIN history'[i] = DOMAIN history[i] \cup {n} /\ n \notin DOMAIN history[i]
      /\ history'[i][n] = m
      /\ \A k \in DOMAIN history[i] : history'[i][k] = history[i][k]
  OBVIOUS
<1>2. Sales(d, i)' = IF m.doc = d /\ m.delta < 0 THEN Sales(d, i) \cup {n} ELSE Sales(d, i)
  BY <1>1 DEF Sales
<1>3. Returns(d, i)' = IF m.doc = d /\ m.delta > 0 THEN Returns(d, i) \cup {n} ELSE Returns(d, i)
  BY <1>1 DEF Returns
<1> QED
  BY <1>1, <1>2, <1>3 DEF Sales, Returns

LEMMA SoldOnceStep ==
  ASSUME LedgerInv, NEW i \in Items, Moves(i), NEW d \in Docs, \A j \in Items : SoldOnce(d, j)
  PROVE  SoldOnce(d, i)'
<1>1. CASE history'[i] = history[i]
  BY <1>1 DEF SoldOnce, Sales, Returns
<1>2. CASE \E m \in Movement : Extended(i, m) /\ Answers(i, m)
  <2>1. PICK m \in Movement : Extended(i, m) /\ Answers(i, m)
    BY <1>2
  <2>2. history[i] \in Seq(Movement) /\ history'[i] = Append(history[i], m)
    BY <2>1 DEF LedgerInv, StockTypeOK, Extended
  <2>3. PICK n : n = Len(history[i]) + 1
    OBVIOUS
  <2>4. /\ Sales(d, i)' = IF m.doc = d /\ m.delta < 0 THEN Sales(d, i) \cup {n} ELSE Sales(d, i)
        /\ Returns(d, i)' = IF m.doc = d /\ m.delta > 0 THEN Returns(d, i) \cup {n} ELSE Returns(d, i)
        /\ history'[i][n] = m
        /\ \A k \in DOMAIN history[i] : history'[i][k] = history[i][k]
        /\ Sales(d, i) \subseteq DOMAIN history[i] /\ Returns(d, i) \subseteq DOMAIN history[i]
    BY <2>2, <2>3, SalesAfter
  <2>5. m.delta \in Int
    BY DEF Movement
  <2>6. CASE m.doc # d
    BY <2>4, <2>6 DEF SoldOnce
  <2>7. CASE m.doc = d /\ m.delta < 0
    <3>1. Sales(d, i) = {}
      BY <2>1, <2>5, <2>7 DEF Answers, Sold
    <3>2. Returns(d, i) = {}
      BY <3>1 DEF SoldOnce
    <3> QED
      BY <2>4, <2>5, <2>7, <3>1, <3>2 DEF SoldOnce
  <2>8. CASE m.doc = d /\ m.delta > 0
    <3>1. /\ Sales(d, i) # {} /\ Returns(d, i) = {}
          /\ m.delta = -SaleOf(d, i).delta /\ m.cost = SaleOf(d, i).cost
      BY <2>1, <2>5, <2>8 DEF Answers, Sold
    <3>2. PICK k \in Sales(d, i) : SaleOf(d, i) = history[i][k]
      BY <3>1 DEF SaleOf
    <3>3. \A l \in Sales(d, i) : l = k
      BY <3>2 DEF SoldOnce
    <3>4. Sales(d, i)' = {k} /\ Returns(d, i)' = {n}
      BY <2>4, <2>5, <2>8, <3>1, <3>2, <3>3
    <3>5. history'[i][k] = history[i][k]
      BY <2>4, <3>2
    <3> QED
      BY <2>4, <3>1, <3>2, <3>4, <3>5 DEF SoldOnce
  <2>9. m.doc = d => m.delta < 0 \/ m.delta > 0
    BY <2>1 DEF Answers
  <2> QED
    BY <2>6, <2>7, <2>8, <2>9
<1> QED
  BY <1>1, <1>2 DEF Moves

HistoryInv == \A i \in Items : Chained(i) /\ \A d \in Docs : SoldOnce(d, i)

LEMMA HistoryInvInit == StockInit => HistoryInv
<1> SUFFICES ASSUME StockInit, NEW i \in Items
             PROVE  Chained(i) /\ \A d \in Docs : SoldOnce(d, i)
  BY DEF HistoryInv
<1>1. /\ history[i] = <<>> /\ Len(history[i]) = 0 /\ DOMAIN history[i] = {}
      /\ layer[i].qty = 0 /\ layer[i].cost = 0
  BY DEF StockInit
<1>2. Chained(i)
  BY <1>1 DEF Chained, Before, EmptyLayer
<1>3. \A d : Sales(d, i) = {} /\ Returns(d, i) = {}
  BY <1>1 DEF Sales, Returns
<1> QED
  BY <1>2, <1>3 DEF SoldOnce

LEMMA HistoryInvStep == LedgerInv /\ LedgerInv' /\ HistoryInv /\ [StockNext]_stockVars => HistoryInv'
<1> SUFFICES ASSUME LedgerInv, LedgerInv', HistoryInv, [StockNext]_stockVars, NEW i \in Items
             PROVE  Chained(i)' /\ \A d \in Docs : SoldOnce(d, i)'
  BY DEF HistoryInv
<1>1. Moves(i)
  BY EveryStepMoves
<1>2. Chained(i)'
  BY <1>1, ChainedStep DEF HistoryInv
<1>3. ASSUME NEW d \in Docs PROVE SoldOnce(d, i)'
  BY <1>1, SoldOnceStep DEF HistoryInv
<1> QED
  BY <1>2, <1>3

LEMMA HistoryInvAlways == StockSpec => [](LedgerInv /\ HistoryInv)
BY LedgerInvInit, LedgerInvStep, HistoryInvInit, HistoryInvStep, PTL DEF StockSpec

LEMMA HistoryInvTells == LedgerInv /\ HistoryInv => HistoryTells
<1> SUFFICES ASSUME LedgerInv, HistoryInv PROVE HistoryTells
  OBVIOUS
<1>1. ASSUME NEW i \in Items
      PROVE  EvidenceMatches(i) /\ Rebuilt(i)[Len(history[i])] = layer[i]
  <2>1. PICK n \in Nat : n = Len(history[i])
    BY DEF LedgerInv, StockTypeOK
  <2>2. /\ history[i] \in Seq(Movement) /\ Chained(i) /\ layer[i] \in Layer
        /\ DOMAIN history[i] = 1 .. n
    BY <2>1 DEF LedgerInv, StockTypeOK, HistoryInv
  <2>3. \A k \in 0 .. n : Rebuilt(i)[k] = Before(i, k + 1)
    BY <2>1, <2>2, RebuiltIs
  <2>4. ASSUME NEW k \in 1 .. n
        PROVE  /\ history[i][k].qtyBefore = Rebuilt(i)[k - 1].qty
               /\ history[i][k].costBefore = Rebuilt(i)[k - 1].cost
               /\ Consistent(Rebuilt(i)[k])
    <3>1. k \in 0 .. n /\ k - 1 \in 0 .. n /\ (k - 1) + 1 = k
      BY <2>1
    <3>2. Rebuilt(i)[k - 1] = Before(i, k) /\ Rebuilt(i)[k] = Before(i, k + 1)
      BY <2>3, <3>1
    <3>3. Before(i, k) = [qty |-> history[i][k].qtyBefore, cost |-> history[i][k].costBefore]
      BY <2>1 DEF Before
    <3> QED
      BY <2>1, <2>2, <3>2, <3>3 DEF Chained
  <2>5. Rebuilt(i)[n] = layer[i]
    <3>1. Rebuilt(i)[n] = Before(i, n + 1) /\ ~(n + 1 <= Len(history[i]))
      BY <2>1, <2>3
    <3> QED
      BY <2>2, <3>1 DEF Before, Layer
  <2> QED
    BY <2>1, <2>2, <2>4, <2>5 DEF EvidenceMatches
<1>2. VoidRestoresCost
  BY DEF HistoryInv, SoldOnce, VoidRestoresCost
<1> QED
  BY <1>1, <1>2 DEF HistoryTells, HistoryReplays

\* The history tells the whole of the balance, so that a lost layer can be rebuilt
\* from it without refusal, and a void gives back exactly what its sale took: for
\* every number of items, invoices, receipts and servers.
THEOREM HistoryAlwaysTells == StockSpec => []HistoryTells
BY HistoryInvAlways, HistoryInvTells, PTL
=============================================================================
