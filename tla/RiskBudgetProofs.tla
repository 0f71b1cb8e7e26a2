--------------------------- MODULE RiskBudgetProofs ---------------------------
(***************************************************************************)
(* What entries may risk, for every set of instruments, every limit, price *)
(* and stop, and any number of entries, partial exits, copies of the cash  *)
(* and resets of the day: the planned loss stays within the heat limit, a  *)
(* day's loss within the day's and the heat's limit together, sizing and   *)
(* risk engine agree, and a halting streak of losses with nothing held is  *)
(* not left.                                                               *)
(*                                                                         *)
(* The first part is about sums over the positions, the second about       *)
(* rounding and about what a size is, the third has one lemma per action.  *)
(***************************************************************************)
EXTENDS MCMoney, FiniteSetTheorems, WellFoundedInduction, TLAPS

-----------------------------------------------------------------------------
(* Sums over a function. *)

LEMMA Induction ==
  ASSUME NEW S \in SUBSET Nat, 0 \in S, \A n \in S : n + 1 \in S
  PROVE  \A n \in Nat : n \in S
<1> DEFINE R == OpToRel(<, Nat)
           T == Nat \ S
<1>1. IsWellFoundedOn(R, Nat)
  BY NatLessThanWellFounded
<1>2. \A x, y \in Nat : x < y => <<x, y>> \in R
  BY DEF OpToRel
<1> HIDE DEF R
<1> SUFFICES ASSUME T # {} PROVE FALSE
  OBVIOUS
<1>3. PICK x \in T : \A y \in T : ~ (<<y, x>> \in R)
  BY <1>1, WFMin
<1>4. x \in Nat /\ x # 0 /\ x - 1 \in Nat /\ x - 1 < x
  OBVIOUS
<1>5. x - 1 \notin T
  BY <1>2, <1>3, <1>4
<1>6. x - 1 \in S /\ (x - 1) + 1 = x
  BY <1>4, <1>5
<1>7. QED
  BY <1>3, <1>6

\* The sum as the community module computes it: one element after another.
Pick(s) == CHOOSE x \in s : TRUE
Rest(s) == s \ {Pick(s)}
Adds(g, f, D) == g = [s \in D |-> IF s = {} THEN 0 ELSE f[Pick(s)] + g[Rest(s)]]
Added(f) == CHOOSE g : Adds(g, f, SUBSET DOMAIN f)
Sum(f) == Risk!SumFunction(f)

LEMMA SumAdded == \A f : Sum(f) = Added(f)[DOMAIN f]
BY DEF Sum, Added, Adds, Pick, Rest, Risk!SumFunction, Risk!SumFunctionOnSet, Risk!FoldFunctionOnSet, Risk!MapThenFoldSet

LEMMA Picked == \A s : s # {} => Pick(s) \in s
BY DEF Pick

LEMMA RestSmaller ==
  ASSUME NEW s, IsFiniteSet(s), s # {}
  PROVE  IsFiniteSet(Rest(s)) /\ Cardinality(s) \in Nat /\ Cardinality(Rest(s)) = Cardinality(s) - 1
BY Picked, FS_RemoveElement, FS_CardinalityType DEF Rest

LEMMA AddedExists ==
  ASSUME NEW D, IsFiniteSet(D), NEW f, DOMAIN f = D
  PROVE  Adds(Added(f), f, SUBSET D)
<1> DEFINE Upto(k) == {s \in SUBSET D : Cardinality(s) <= k}
           S == {k \in Nat : \E g : Adds(g, f, Upto(k))}
<1>1. \A s \in SUBSET D : IsFiniteSet(s) /\ Cardinality(s) \in Nat /\ Cardinality(s) <= Cardinality(D)
  BY FS_Subset, FS_CardinalityType
<1>2. \A s \in SUBSET D : s # {} => Rest(s) \in SUBSET D /\ Cardinality(Rest(s)) = Cardinality(s) - 1
  BY <1>1, RestSmaller DEF Rest
<1>3. 0 \in S
  <2>1. \A s \in Upto(0) : s = {}
    BY <1>1, FS_EmptySet
  <2>2. Adds([s \in Upto(0) |-> 0], f, Upto(0))
    BY <2>1 DEF Adds
  <2>3. QED
    BY <2>2
<1>4. ASSUME NEW k \in S
      PROVE  k + 1 \in S
  <2>1. PICK g : Adds(g, f, Upto(k))
    OBVIOUS
  <2> DEFINE h == [s \in Upto(k + 1) |-> IF s = {} THEN 0 ELSE f[Pick(s)] + g[Rest(s)]]
  <2>2. k \in Nat /\ Upto(k) \subseteq Upto(k + 1)
    BY <1>1
  <2>3. \A s \in Upto(k) : g[s] = IF s = {} THEN 0 ELSE f[Pick(s)] + g[Rest(s)]
    BY <2>1 DEF Adds
  <2>4. \A s \in Upto(k) : h[s] = g[s]
    BY <2>2, <2>3
  <2>5. \A s \in Upto(k + 1) : s # {} => Rest(s) \in Upto(k)
    BY <1>1, <1>2, <2>2
  <2>6. h = [s \in Upto(k + 1) |-> IF s = {} THEN 0 ELSE f[Pick(s)] + h[Rest(s)]]
    BY <2>4, <2>5
  <2>7. Adds(h, f, Upto(k + 1))
    BY <2>6 DEF Adds
  <2> HIDE DEF h
  <2>8. QED
    BY <2>2, <2>7
<1>5. Cardinality(D) \in Nat /\ Upto(Cardinality(D)) = SUBSET D
  BY <1>1
<1>6. S \in SUBSET Nat
  OBVIOUS
<1> HIDE DEF S
<1>7. Cardinality(D) \in S
  BY <1>3, <1>4, <1>5, <1>6, Induction
<1>8. \E g : Adds(g, f, SUBSET D)
  BY <1>5, <1>7 DEF S
<1>9. QED
  BY <1>8 DEF Added

\* A set of subsets that one gets to by adding the elements in their order.
LEMMA OneByOne ==
  ASSUME NEW D, IsFiniteSet(D), NEW T, {} \in T,
         \A s \in SUBSET D : s # {} /\ Rest(s) \in T => s \in T
  PROVE  D \in T
<1> DEFINE S == {k \in Nat : \A s \in SUBSET D : Cardinality(s) = k => s \in T}
<1>1. \A s \in SUBSET D : IsFiniteSet(s) /\ Cardinality(s) \in Nat
  BY FS_Subset, FS_CardinalityType
<1>2. 0 \in S
  BY <1>1, FS_EmptySet
<1>3. ASSUME NEW k \in S
      PROVE  k + 1 \in S
  <2> SUFFICES ASSUME NEW s \in SUBSET D, Cardinality(s) = k + 1 PROVE s \in T
    OBVIOUS
  <2>1. s # {}
    BY FS_EmptySet
  <2>2. Rest(s) \in SUBSET D /\ Cardinality(Rest(s)) = k
    BY <1>1, <2>1, RestSmaller DEF Rest
  <2>3. QED
    BY <2>1, <2>2
<1>4. S \in SUBSET Nat
  OBVIOUS
<1>5. D \in SUBSET D /\ Cardinality(D) \in Nat
  BY FS_CardinalityType
<1> HIDE DEF S
<1>6. Cardinality(D) \in S
  BY <1>2, <1>3, <1>4, <1>5, Induction
<1>7. QED
  BY <1>5, <1>6 DEF S

LEMMA AddedOn ==
  ASSUME NEW D, IsFiniteSet(D), NEW f, DOMAIN f = D
  PROVE  /\ Added(f)[{}] = 0
         /\ \A s \in SUBSET D : s # {} => Added(f)[s] = f[Pick(s)] + Added(f)[Rest(s)]
<1> DEFINE g == Added(f)
<1>1. Adds(g, f, SUBSET D)
  BY AddedExists
<1> HIDE DEF g
<1>2. \A s \in SUBSET D : g[s] = IF s = {} THEN 0 ELSE f[Pick(s)] + g[Rest(s)]
  BY <1>1 DEF Adds
<1>3. QED
  BY <1>2 DEF g

LEMMA SumInt ==
  ASSUME NEW D, IsFiniteSet(D), NEW f \in [D -> Int]
  PROVE  Sum(f) \in Int
<1> DEFINE g == Added(f)
           T == {s \in SUBSET D : g[s] \in Int}
<1>1. g[{}] = 0 /\ \A s \in SUBSET D : s # {} => g[s] = f[Pick(s)] + g[Rest(s)]
  BY AddedOn
<1>2. Sum(f) = g[D]
  BY SumAdded
<1> HIDE DEF g
<1>3. {} \in T
  BY <1>1
<1>4. \A s \in SUBSET D : s # {} /\ Rest(s) \in T => s \in T
  BY <1>1, Picked
<1>5. D \in T
  <2> HIDE DEF T
  <2>1. QED
    BY <1>3, <1>4, OneByOne
<1>6. QED
  BY <1>2, <1>5

\* What holds of each term, up to c, holds of the sums, up to c for each term.
LEMMA SumBound ==
  ASSUME NEW D, IsFiniteSet(D), NEW f1 \in [D -> Int], NEW f2 \in [D -> Int],
         NEW a \in Int, NEW b \in Int, NEW c \in Int,
         \A x \in D : a * f1[x] <= b * f2[x] + c
  PROVE  a * Sum(f1) <= b * Sum(f2) + c * Cardinality(D)
<1> DEFINE g1 == Added(f1)
           g2 == Added(f2)
           T == {s \in SUBSET D : g1[s] \in Int /\ g2[s] \in Int /\ a * g1[s] <= b * g2[s] + c * Cardinality(s)}
<1>1. g1[{}] = 0 /\ \A s \in SUBSET D : s # {} => g1[s] = f1[Pick(s)] + g1[Rest(s)]
  BY AddedOn
<1>2. g2[{}] = 0 /\ \A s \in SUBSET D : s # {} => g2[s] = f2[Pick(s)] + g2[Rest(s)]
  BY AddedOn
<1>3. Sum(f1) = g1[D] /\ Sum(f2) = g2[D]
  BY SumAdded
<1> HIDE DEF g1, g2
<1>4. {} \in T
  BY <1>1, <1>2, FS_EmptySet
<1>5. ASSUME NEW s \in SUBSET D, s # {}, Rest(s) \in T
      PROVE  s \in T
  <2>1. Pick(s) \in D /\ f1[Pick(s)] \in Int /\ f2[Pick(s)] \in Int
    BY <1>5, Picked
  <2>2. g1[s] = f1[Pick(s)] + g1[Rest(s)] /\ g2[s] = f2[Pick(s)] + g2[Rest(s)]
    BY <1>1, <1>2, <1>5
  <2>3. Cardinality(s) \in Nat /\ Cardinality(Rest(s)) = Cardinality(s) - 1
    BY <1>5, FS_Subset, RestSmaller
  <2>4. /\ g1[Rest(s)] \in Int /\ g2[Rest(s)] \in Int
        /\ a * g1[Rest(s)] <= b * g2[Rest(s)] + c * (Cardinality(s) - 1)
    BY <1>5, <2>3
  <2>5. a * f1[Pick(s)] <= b * f2[Pick(s)] + c
    BY <2>1
  <2>6. \A x, y, u, v, k \in Int :
          a * x <= b * y + c /\ a * u <= b * v + c * (k - 1) => a * (x + u) <= b * (y + v) + c * k
    OBVIOUS
  <2>7. a * (f1[Pick(s)] + g1[Rest(s)]) <= b * (f2[Pick(s)] + g2[Rest(s)]) + c * Cardinality(s)
    BY <2>1, <2>3, <2>4, <2>5, <2>6
  <2>8. QED
    BY <2>1, <2>2, <2>4, <2>7
<1>6. D \in T
  <2> HIDE DEF T
  <2>1. QED
    BY <1>4, <1>5, OneByOne
<1>7. QED
  BY <1>3, <1>6

\* What the change of one term does to the sum.
LEMMA SumChange ==
  ASSUME NEW D, IsFiniteSet(D), NEW f1 \in [D -> Int], NEW f2 \in [D -> Int], NEW x \in D,
         \A y \in D \ {x} : f2[y] = f1[y]
  PROVE  Sum(f2) = Sum(f1) - f1[x] + f2[x]
<1> DEFINE g1 == Added(f1)
           g2 == Added(f2)
           T == {s \in SUBSET D : /\ g1[s] \in Int /\ g2[s] \in Int
                                  /\ g2[s] = IF x \in s THEN g1[s] - f1[x] + f2[x] ELSE g1[s]}
<1>1. g1[{}] = 0 /\ \A s \in SUBSET D : s # {} => g1[s] = f1[Pick(s)] + g1[Rest(s)]
  BY AddedOn
<1>2. g2[{}] = 0 /\ \A s \in SUBSET D : s # {} => g2[s] = f2[Pick(s)] + g2[Rest(s)]
  BY AddedOn
<1>3. Sum(f1) = g1[D] /\ Sum(f2) = g2[D]
  BY SumAdded
<1> HIDE DEF g1, g2
<1>4. {} \in T
  BY <1>1, <1>2
<1>5. ASSUME NEW s \in SUBSET D, s # {}, Rest(s) \in T
      PROVE  s \in T
  <2>1. Pick(s) \in D /\ Pick(s) \in s /\ f1[Pick(s)] \in Int /\ f2[Pick(s)] \in Int
    BY <1>5, Picked
  <2>2. g1[s] = f1[Pick(s)] + g1[Rest(s)] /\ g2[s] = f2[Pick(s)] + g2[Rest(s)]
    BY <1>1, <1>2, <1>5
  <2>3. g1[Rest(s)] \in Int /\ g2[Rest(s)] \in Int /\ f1[x] \in Int /\ f2[x] \in Int
    BY <1>5
  <2>4. CASE x = Pick(s)
    <3>1. x \in s /\ x \notin Rest(s)
      BY <2>1, <2>4 DEF Rest
    <3>2. g2[Rest(s)] = g1[Rest(s)]
      BY <1>5, <3>1
    <3>3. g2[s] = g1[s] - f1[x] + f2[x]
      BY <2>2, <2>3, <2>4, <3>2
    <3>4. QED
      BY <2>2, <2>3, <2>4, <3>1, <3>3
  <2>5. CASE x # Pick(s)
    <3>1. (x \in s <=> x \in Rest(s)) /\ f2[Pick(s)] = f1[Pick(s)]
      BY <2>1, <2>5 DEF Rest
    <3>2. g2[Rest(s)] = IF x \in s THEN g1[Rest(s)] - f1[x] + f2[x] ELSE g1[Rest(s)]
      BY <1>5, <3>1
    <3>3. QED
      BY <2>1, <2>2, <2>3, <3>1, <3>2
  <2>6. QED
    BY <2>4, <2>5
<1>6. D \in T
  <2> HIDE DEF T
  <2>1. QED
    BY <1>4, <1>5, OneByOne
<1>7. QED
  BY <1>3, <1>6

W == Risk!Whole
LEMMA WholeIs == W \in Nat /\ W > 0 /\ W = 100000
BY DEF W, Risk!Whole

LEMMA MinTwo ==
  ASSUME NEW x \in Int, NEW y \in Int
  PROVE  Risk!Min({x, y}) = IF x <= y THEN x ELSE y
BY DEF Risk!Min

LEMMA MaxTwo ==
  ASSUME NEW x \in Int, NEW y \in Int
  PROVE  Risk!Max({x, y}) = IF x >= y THEN x ELSE y
BY DEF Risk!Max

LEMMA MinThree ==
  ASSUME NEW x \in Int, NEW y \in Int, NEW z \in Int
  PROVE  /\ Risk!Min({x, y, z}) \in Int
         /\ x >= 0 /\ y >= 0 /\ z >= 0 => Risk!Min({x, y, z}) >= 0
<1>1. \E m \in {x, y, z} : \A v \in {x, y, z} : m =< v
  OBVIOUS
<1>2. QED
  BY <1>1 DEF Risk!Min

LEMMA Divided ==
  ASSUME NEW a \in Int, NEW b \in Nat, b > 0
  PROVE  /\ a \div b \in Int
         /\ b * (a \div b) <= a /\ a < b * (a \div b) + b
         /\ a >= 0 => a \div b >= 0
  OBVIOUS

LEMMA Times ==
  ASSUME NEW a \in Int, NEW b \in Int, NEW c \in Nat, a <= b
  PROVE  c * a <= c * b /\ a * c <= b * c
  OBVIOUS

LEMMA Cancel ==
  ASSUME NEW a \in Int, NEW b \in Int, NEW c \in Nat, c > 0, c * a <= c * b
  PROVE  a <= b
  OBVIOUS

LEMMA RoundedIs ==
  ASSUME NEW a \in Int, NEW b \in Nat, b > 0
  PROVE  /\ Risk!Rounded(a, b) \in Int
         /\ 2 * (b * Risk!Rounded(a, b)) <= 2 * a + b
         /\ 2 * a < 2 * (b * Risk!Rounded(a, b)) + b
         /\ a >= 0 => Risk!Rounded(a, b) >= 0
<1> DEFINE r == (2 * a + b) \div (2 * b)
<1>1. r \in Int /\ (2 * b) * r <= 2 * a + b /\ 2 * a + b < (2 * b) * r + 2 * b /\ (a >= 0 => r >= 0)
  BY Divided
<1>2. Risk!Rounded(a, b) = r
  BY DEF Risk!Rounded
<1> HIDE DEF r
<1>3. (2 * b) * r = 2 * (b * r)
  BY <1>1
<1>4. QED
  BY <1>1, <1>2, <1>3

LEMMA RoundedBelow ==
  ASSUME NEW a \in Int, NEW b \in Nat, b > 0, NEW c \in Int, a <= b * c
  PROVE  Risk!Rounded(a, b) <= c
<1> DEFINE r == Risk!Rounded(a, b)
<1>1. r \in Int /\ 2 * (b * r) <= 2 * a + b
  BY RoundedIs
<1> HIDE DEF r
<1>2. SUFFICES ASSUME r >= c + 1 PROVE FALSE
  BY <1>1 DEF r
<1>3. b * r >= b * (c + 1) /\ b * (c + 1) = b * c + b
  BY <1>1, <1>2, Times
<1>4. QED
  BY <1>1, <1>3

LEMMA RoundedGrows ==
  ASSUME NEW a \in Int, NEW c \in Int, NEW b \in Nat, b > 0, a <= c
  PROVE  Risk!Rounded(a, b) <= Risk!Rounded(c, b)
<1> DEFINE r == Risk!Rounded(a, b)
           s == Risk!Rounded(c, b)
<1>1. r \in Int /\ s \in Int /\ 2 * (b * r) <= 2 * a + b /\ 2 * c < 2 * (b * s) + b
  BY RoundedIs
<1> HIDE DEF r, s
<1>2. SUFFICES ASSUME r >= s + 1 PROVE FALSE
  BY <1>1 DEF r, s
<1>3. b * r >= b * (s + 1) /\ b * (s + 1) = b * s + b
  BY <1>1, <1>2, Times
<1>4. QED
  BY <1>1, <1>3

-----------------------------------------------------------------------------
Position == [qty : Nat, bought : Nat, entry : Nat, stop : Nat, risk : Nat]

\* A position as the ledger has it, and the loss planned on each of its units.
Placed(p) == p \in Position /\ p.stop <= p.entry /\ p.qty <= p.bought

LEMMA ShareIs ==
  ASSUME NEW p, Placed(p)
  PROVE  /\ Risk!Share(p) \in Nat /\ Risk!Share(p) <= p.risk
         /\ p.qty > 0 => 2 * (p.risk * p.qty) < 2 * (p.bought * Risk!Share(p)) + p.bought
         /\ p.qty > 0 /\ p.qty = p.bought => Risk!Share(p) = p.risk
<1>1. p.qty \in Nat /\ p.bought \in Nat /\ p.risk \in Nat /\ p.qty <= p.bought
  BY DEF Placed, Position
<1>2. CASE p.qty = 0
  BY <1>1, <1>2 DEF Risk!Share
<1>3. CASE p.qty > 0
  <2> DEFINE q == p.qty
             b == p.bought
             k == p.risk
             r == Risk!Rounded(k * q, b)
  <2>1. Risk!Share(p) = r
    BY <1>1, <1>3 DEF Risk!Share
  <2>2. q \in Nat /\ b \in Nat /\ k \in Nat /\ q <= b /\ q > 0 /\ b > 0
    BY <1>1, <1>3
  <2> HIDE DEF q, b, k
  <2>3. k * q \in Nat /\ k * q <= b * k
    BY <2>2, Times
  <2>4. r \in Int /\ 2 * (k * q) < 2 * (b * r) + b /\ r >= 0
    BY <2>2, <2>3, RoundedIs
  <2>5. r <= k
    BY <2>2, <2>3, RoundedBelow
  <2>6. ASSUME q = b PROVE r = k
    <3>1. b * k <= b * r + b - 1 \/ b * k < b * r + b
      BY <2>2, <2>4, <2>6
    <3> HIDE DEF r
    <3>2. SUFFICES ASSUME r <= k - 1 PROVE FALSE
      BY <2>2, <2>4, <2>5
    <3>3. b * r <= b * (k - 1) /\ b * (k - 1) = b * k - b
      BY <2>2, <2>4, <3>2, Times
    <3>4. k * q = b * k
      BY <2>2, <2>6
    <3>5. QED
      BY <2>2, <2>4, <3>3, <3>4
  <2> HIDE DEF r
  <2>7. QED
    BY <2>1, <2>2, <2>4, <2>5, <2>6 DEF q, b, k
<1>4. QED
  BY <1>1, <1>2, <1>3

\* The loss planned on a position, and that its risk covers it, but for half of
\* the last digit.
Loss(p) == p.qty * (p.entry - p.stop)
Covered(p, top) == 2 * (p.bought * ((p.entry - p.stop) * W)) <= 2 * (top * p.risk) + top

LEMMA ShareCovers ==
  ASSUME NEW top \in Nat, NEW p, Placed(p), Covered(p, top)
  PROVE  W * Loss(p) <= top * Risk!Share(p) + top
<1> DEFINE q == p.qty
           b == p.bought
           k == p.risk
           d == p.entry - p.stop
           u == d * W
           r == Risk!Share(p)
<1>1. q \in Nat /\ b \in Nat /\ k \in Nat /\ q <= b /\ d \in Nat /\ Loss(p) = q * d
  BY DEF Placed, Position, Loss
<1>2. r \in Nat /\ (q > 0 => 2 * (k * q) < 2 * (b * r) + b)
  BY ShareIs
<1>3. 2 * (b * u) <= 2 * (top * k) + top
  BY DEF Covered
<1> HIDE DEF q, b, k, d, r
<1>4. u \in Nat /\ W * Loss(p) = q * u
  BY <1>1, WholeIs
<1> HIDE DEF u
<1>5. CASE q = 0
  <2>1. q * u = 0 /\ top * r + top >= 0
    BY <1>2, <1>4, <1>5
  <2>2. QED
    BY <1>4, <2>1 DEF r
<1>6. CASE q > 0
  <2> DEFINE x == top * k
             y == top * r
  <2>1. x \in Nat /\ y \in Nat
    BY <1>1, <1>2
  <2>2. 2 * (b * (q * u)) <= 2 * (x * q) + top * q
    <3>1. (2 * (b * u)) * q <= (2 * x + top) * q
      BY <1>1, <1>3, <1>4, <2>1, Times
    <3> HIDE DEF x
    <3>2. (2 * (b * u)) * q = 2 * (b * (q * u)) /\ (2 * x + top) * q = 2 * (x * q) + top * q
      BY <1>1, <1>4, <2>1
    <3>3. QED
      BY <3>1, <3>2
  <2>3. top * q <= top * b
    BY <1>1, Times
  <2>4. 2 * (x * q) <= 2 * (b * y) + top * b
    <3>1. 2 * (k * q) <= 2 * (b * r) + b /\ k * q \in Nat /\ b * r \in Nat
      BY <1>1, <1>2, <1>6
    <3>2. top * (2 * (k * q)) <= top * (2 * (b * r) + b)
      BY <1>1, <3>1, Times
    <3>3. top * (2 * (k * q)) = 2 * (x * q) /\ top * (2 * (b * r) + b) = 2 * (b * y) + top * b
      BY <1>1, <1>2
    <3>4. QED
      BY <3>2, <3>3
  <2> HIDE DEF x, y
  <2>5. 2 * (b * (q * u)) <= 2 * (b * y) + 2 * (top * b)
    <3>1. b * (q * u) \in Nat /\ x * q \in Nat /\ top * q \in Nat /\ b * y \in Nat /\ top * b \in Nat
      BY <1>1, <1>4, <2>1
    <3>2. QED
      BY <2>2, <2>3, <2>4, <3>1
  <2>6. b * (q * u) <= b * (y + top)
    <3>1. b * (q * u) \in Nat /\ b * y \in Nat /\ top * b \in Nat /\ b * (y + top) = b * y + top * b
      BY <1>1, <1>4, <2>1
    <3>2. QED
      BY <2>5, <3>1
  <2>7. q * u \in Int /\ y + top \in Int /\ b > 0
    BY <1>1, <1>4, <1>6, <2>1
  <2>8. q * u <= y + top
    BY <1>1, <2>6, <2>7, Cancel
  <2>9. QED
    BY <1>4, <2>8 DEF y, r
<1>7. QED
  BY <1>1, <1>5, <1>6

\* Less of a position has no larger a share of the risk.
LEMMA ShareShrinks ==
  ASSUME NEW p, Placed(p), NEW q \in Nat, q < p.qty
  PROVE  LET p1 == [p EXCEPT !.qty = q] IN Placed(p1) /\ Risk!Share(p1) <= Risk!Share(p)
<1> DEFINE p1 == [p EXCEPT !.qty = q]
<1>1. /\ p1.qty = q /\ p1.bought = p.bought /\ p1.entry = p.entry /\ p1.stop = p.stop /\ p1.risk = p.risk
      /\ p1 \in Position
  BY DEF Placed, Position
<1>2. p.qty \in Nat /\ p.bought \in Nat /\ p.risk \in Nat /\ p.qty <= p.bought
  BY DEF Placed, Position
<1> HIDE DEF p1
<1>3. Placed(p1)
  BY <1>1, <1>2 DEF Placed
<1>4. Risk!Share(p) \in Nat
  BY ShareIs
<1>5. CASE q = 0
  <2>1. Risk!Share(p1) = 0
    BY <1>1, <1>5 DEF Risk!Share
  <2>2. QED
    BY <1>3, <1>4, <2>1 DEF p1
<1>6. CASE q > 0
  <2>1. Risk!Share(p1) = Risk!Rounded(p.risk * q, p.bought)
    BY <1>1, <1>6 DEF Risk!Share
  <2>2. Risk!Share(p) = Risk!Rounded(p.risk * p.qty, p.bought)
    BY <1>2, <1>6 DEF Risk!Share
  <2>3. p.risk * q \in Int /\ p.risk * p.qty \in Int /\ p.risk * q <= p.risk * p.qty /\ p.bought > 0
    BY <1>2, <1>6, Times
  <2>4. Risk!Rounded(p.risk * q, p.bought) <= Risk!Rounded(p.risk * p.qty, p.bought)
    BY <1>2, <2>3, RoundedGrows
  <2>5. QED
    BY <1>3, <2>1, <2>2, <2>4 DEF p1
<1>7. QED
  BY <1>5, <1>6

\* The largest of a set of numbers that has a bound is one of them.
LEMMA Largest ==
  ASSUME NEW b \in Nat, NEW S \in SUBSET (0..b), S # {}
  PROVE  Risk!Max(S) \in S
<1> DEFINE T == {k \in Nat : (\E x \in S : x >= b - k) => \E x \in S : \A y \in S : x >= y}
<1>2. 0 \in T
  OBVIOUS
<1>3. ASSUME NEW k \in T PROVE k + 1 \in T
  <2>1. SUFFICES ASSUME NEW x \in S, x >= b - (k + 1), ~ \E z \in S : z >= b - k
                 PROVE  \E z \in S : \A y \in S : z >= y
    OBVIOUS
  <2>2. \A y \in S : y < b - k
    BY <2>1
  <2>3. \A y \in S : x >= y
    BY <2>1, <2>2
  <2>4. QED
    BY <2>3
<1>4. T \in SUBSET Nat
  OBVIOUS
<1> HIDE DEF T
<1>5. b \in T
  BY <1>2, <1>3, <1>4, Induction
<1>6. \E x \in S : x >= b - b
  <2>1. PICK x \in S : x \in 0..b
    OBVIOUS
  <2>2. x >= b - b
    BY <2>1
  <2>3. QED
    BY <2>2
<1>7. \E x \in S : \A y \in S : x >= y
  BY <1>5, <1>6 DEF T
<1>8. QED
  BY <1>7 DEF Risk!Max

-----------------------------------------------------------------------------
\* What is assumed of the constants.
LEMMA Limits ==
  /\ IsFiniteSet(Names) /\ Signal \in Nat /\ Signal > 0 /\ Cost \in Nat /\ Slips \subseteq Nat
  /\ TradeLimit \in Nat /\ DayLimit \in Nat /\ HeatLimit \in Nat /\ PositionLimit \in Nat /\ HaltAfter \in Nat
  /\ Reserve \in Nat /\ Reserve <= 100000
BY RiskAssumption

\* The positions h as terms of the two sums.
Positions == {h \in [Names -> Position] : \A n \in Names : Placed(h[n])}
Shares(h) == [n \in Names |-> Risk!Share(h[n])]
Losses(h) == [n \in Names |-> Loss(h[n])]
HeatOf(h) == Sum(Shares(h))
LossOf(h) == Sum(Losses(h))

LEMMA CardinalitySame == Risk!Cardinality(Names) = Cardinality(Names)
BY Zenon DEF Risk!Cardinality, Cardinality, Risk!IsFiniteSet, IsFiniteSet

LEMMA HeatIs == Risk!Heat = HeatOf(held) /\ Risk!Heat' = HeatOf(held')
BY DEF Risk!Heat, HeatOf, Sum, Shares

LEMMA PlannedIs == Risk!Planned = LossOf(held) /\ Risk!Planned' = LossOf(held')
BY DEF Risk!Planned, LossOf, Sum, Losses, Loss

LEMMA SumsInt ==
  ASSUME NEW h \in Positions
  PROVE  /\ Shares(h) \in [Names -> Int] /\ Losses(h) \in [Names -> Int]
         /\ HeatOf(h) \in Int /\ LossOf(h) \in Int
         /\ Cardinality(Names) \in Nat
<1>1. IsFiniteSet(Names)
  BY Limits
<1>2. Shares(h) \in [Names -> Int]
  BY ShareIs DEF Positions, Shares
<1>3. Losses(h) \in [Names -> Int]
  BY DEF Positions, Losses, Loss, Position
<1>4. QED
  BY <1>1, <1>2, <1>3, SumInt, FS_CardinalityType DEF HeatOf, LossOf

\* What a position in the place of another does to the sums.
LEMMA Replaced ==
  ASSUME NEW h \in Positions, NEW n \in Names, NEW p, Placed(p)
  PROVE  LET h1 == [h EXCEPT ![n] = p]
         IN  /\ h1 \in Positions
             /\ HeatOf(h1) = HeatOf(h) - Risk!Share(h[n]) + Risk!Share(p)
             /\ LossOf(h1) = LossOf(h) - Loss(h[n]) + Loss(p)
<1> DEFINE h1 == [h EXCEPT ![n] = p]
<1>1. h1 \in Positions /\ h1[n] = p /\ \A m \in Names \ {n} : h1[m] = h[m]
  BY DEF Positions, Placed
<1> HIDE DEF h1
<1>2. IsFiniteSet(Names)
  BY Limits
<1>3. /\ Shares(h) \in [Names -> Int] /\ Losses(h) \in [Names -> Int]
      /\ Shares(h1) \in [Names -> Int] /\ Losses(h1) \in [Names -> Int]
  BY <1>1, SumsInt
<1>4. /\ Shares(h)[n] = Risk!Share(h[n]) /\ Losses(h)[n] = Loss(h[n])
      /\ Shares(h1)[n] = Risk!Share(p) /\ Losses(h1)[n] = Loss(p)
      /\ \A m \in Names \ {n} : Shares(h1)[m] = Shares(h)[m] /\ Losses(h1)[m] = Losses(h)[m]
  BY <1>1 DEF Shares, Losses
<1>5. Sum(Shares(h1)) = Sum(Shares(h)) - Shares(h)[n] + Shares(h1)[n]
  BY <1>2, <1>3, <1>4, SumChange
<1>6. Sum(Losses(h1)) = Sum(Losses(h)) - Losses(h)[n] + Losses(h1)[n]
  BY <1>2, <1>3, <1>4, SumChange
<1>7. QED
  BY <1>1, <1>4, <1>5, <1>6 DEF HeatOf, LossOf, h1

\* The losses planned are covered by the risks, but for a digit of each.
LEMMA LossCovered ==
  ASSUME NEW top \in Nat, NEW h \in Positions, \A n \in Names : Covered(h[n], top)
  PROVE  W * LossOf(h) <= top * HeatOf(h) + top * Cardinality(Names)
<1>1. IsFiniteSet(Names)
  BY Limits
<1>2. Shares(h) \in [Names -> Int] /\ Losses(h) \in [Names -> Int]
  BY SumsInt
<1>3. \A n \in Names : W * Losses(h)[n] <= top * Shares(h)[n] + top
  BY ShareCovers DEF Positions, Shares, Losses
<1>4. W \in Int /\ top \in Int
  BY WholeIs
<1>5. QED
  BY <1>1, <1>2, <1>3, <1>4, SumBound DEF HeatOf, LossOf

\* What the variables are.
Typed ==
  /\ equity \in Int /\ cash \in Int /\ power \in Int /\ daily \in Int /\ moved \in Int /\ streak \in Nat /\ basis \in Nat
  /\ pc \in {"idle", "assessed", "sized", "approved"}
  /\ held \in Positions
  /\ pc # "idle" =>
       /\ order \in [name : Names, stop : 0..(Signal - 1), target : Stops \cup Targets \cup {0}, qty : Nat, risk : Nat]
       /\ view.streak = streak

LEMMA TypedSums ==
  ASSUME Typed
  PROVE  Risk!Heat \in Int /\ Risk!Planned \in Int /\ Risk!Notional \in Int
<1>1. held \in Positions
  BY DEF Typed
<1>2. [n \in Names |-> held[n].qty * held[n].entry] \in [Names -> Int]
  BY DEF Typed, Position, Positions
<1>3. Sum([n \in Names |-> held[n].qty * held[n].entry]) \in Int
  BY <1>2, SumInt, Limits
<1>4. Risk!Notional \in Int
  BY <1>3 DEF Sum, Risk!Notional
<1>5. QED
  BY <1>1, <1>4, SumsInt, HeatIs, PlannedIs

LEMMA BasisNat == ASSUME Typed PROVE Risk!Basis \in Nat
<1>1. Risk!Notional \in Int /\ equity \in Int /\ cash \in Int
  BY TypedSums DEF Typed
<1> DEFINE m == Risk!Min({equity, cash + Risk!Notional})
<1>2. m \in Int
  BY <1>1, MinTwo
<1> HIDE DEF m
<1>3. Risk!Max({0, m}) \in Nat
  BY <1>2, MaxTwo
<1>4. QED
  BY <1>3 DEF Risk!Basis, m

\* What the size of an order is: within the budget.
LEMMA PartNat == ASSUME NEW x \in Nat, NEW p \in Nat PROVE Risk!Part(x, p) \in Nat
BY Divided, WholeIs DEF Risk!Part, W

LEMMA MaxCapitalNat == ASSUME Typed PROVE Risk!MaxCapital \in Nat
<1>1. Risk!Basis \in Nat /\ cash \in Int /\ power \in Int /\ Risk!Notional \in Int
  BY BasisNat, TypedSums DEF Typed
<1>2. PositionLimit \in Nat /\ Risk!Whole - Reserve \in Nat
  BY Limits, WholeIs DEF W
<1>3. Risk!Part(Risk!Basis, PositionLimit) \in Nat
  <2> DEFINE e == Risk!Basis
  <2>1. e \in Nat /\ PositionLimit \in Nat
    BY <1>1, <1>2
  <2> HIDE DEF e
  <2>2. Risk!Part(e, PositionLimit) \in Nat
    BY <2>1, PartNat
  <2>3. QED
    BY <2>2 DEF e
<1> DEFINE x == Risk!Part(Risk!Basis, PositionLimit)
           m == Risk!Min({Risk!Basis, cash, power})
           y == Risk!Part(Risk!Max({0, m}), Risk!Whole - Reserve)
           z == Risk!Max({0, Risk!Part(Risk!Basis, Risk!Whole - Reserve) - Risk!Notional})
<1>4. m \in Int
  BY <1>1, MinThree
<1>5. y \in Nat
  <2> HIDE DEF m
  <2>1. Risk!Max({0, m}) \in Nat
    BY <1>4, MaxTwo
  <2>2. QED
    BY <2>1, <1>2, PartNat
<1>6. z \in Nat
  <2> DEFINE v == Risk!Part(Risk!Basis, Risk!Whole - Reserve) - Risk!Notional
  <2>1. v \in Int
    BY <1>1, <1>2, PartNat
  <2> HIDE DEF v
  <2>2. Risk!Max({0, v}) \in Nat
    BY <2>1, MaxTwo
  <2>3. QED
    BY <2>2 DEF v
<1>7. Risk!MaxCapital = Risk!Min({x, y, z})
  BY DEF Risk!MaxCapital
<1>8. x \in Nat
  BY <1>3
<1> HIDE DEF x, y, z
<1>9. Risk!Min({x, y, z}) \in Int /\ Risk!Min({x, y, z}) >= 0
  BY <1>5, <1>6, <1>8, MinThree
<1>10. QED
  BY <1>7, <1>9

\* What is left of a day.
LEMMA RoomIs ==
  ASSUME NEW e \in Nat, NEW d \in Int
  PROVE  /\ Risk!Room(e, d) \in Nat
         /\ Risk!Room(e, d) > 0 => 0 - d * W <= e * DayLimit
<1>1. e * DayLimit \in Nat /\ d * W \in Int
  <2>1. DayLimit \in Nat
    BY Limits
  <2>2. W \in Nat
    BY WholeIs
  <2>3. QED
    BY <2>1, <2>2
<1> DEFINE m == Risk!Min({0, d})
           x == e * DayLimit + m * Risk!Whole
<1>2. m = IF 0 <= d THEN 0 ELSE d
  BY MinTwo
<1>3. m * Risk!Whole = IF 0 <= d THEN 0 ELSE d * W
  BY <1>2, WholeIs DEF W
<1>4. x \in Int
  BY <1>1, <1>3
<1>5. Risk!Room(e, d) = Risk!Max({0, x})
  BY DEF Risk!Room
<1>6. Risk!Room(e, d) = IF 0 >= x THEN 0 ELSE x
  <2> HIDE DEF x
  <2>1. QED
    BY <1>4, <1>5, MaxTwo
<1>7. d >= 0 => d * W >= 0
  BY WholeIs
<1> HIDE DEF m
<1>8. QED
  BY <1>1, <1>3, <1>4, <1>6, <1>7

\* The budget of an order is within each of the limits.
LEMMA BudgetIs ==
  ASSUME Typed, Risk!Heat <= HeatLimit, NEW factor \in {1, 2}
  PROVE  LET b == Risk!Budget(factor)
             e == Risk!Basis
         IN  /\ b \in Nat
             /\ b <= e * TradeLimit /\ b <= e * (HeatLimit - Risk!Heat) /\ b <= Risk!Room(e, daily)
<1>1. Risk!Basis \in Nat /\ Risk!Heat \in Int /\ daily \in Int
  BY BasisNat, TypedSums DEF Typed
<1>2. TradeLimit \in Nat /\ HeatLimit \in Nat
  BY Limits
<1> DEFINE e == Risk!Basis
           h == Risk!Heat
           t == (TradeLimit * factor) \div 2
           m == Risk!Max({0, HeatLimit - h})
           l == Risk!Min({t, m})
           x == e * l
           y == Risk!Room(e, daily)
<1>3. t \in Nat /\ t <= TradeLimit
  BY <1>2
<1>4. m = HeatLimit - h /\ m \in Nat
  BY <1>1, <1>2, MaxTwo
<1>5. l \in Nat /\ l <= t /\ l <= m
  <2> HIDE DEF t, m
  <2>1. QED
    BY <1>3, <1>4, MinTwo
<1>6. y \in Nat
  BY <1>1, RoomIs
<1>7. Risk!Budget(factor) = Risk!Min({x, y})
  BY DEF Risk!Budget
<1> HIDE DEF e, h, t, m, l, y
<1>8. e \in Nat /\ h \in Int
  BY <1>1 DEF e, h
<1>9. x \in Nat /\ x <= e * TradeLimit /\ x <= e * (HeatLimit - h)
  <2>1. l <= TradeLimit /\ l <= HeatLimit - h
    BY <1>2, <1>3, <1>4, <1>5
  <2>2. e * l <= e * TradeLimit /\ e * l <= e * (HeatLimit - h)
    BY <1>2, <1>5, <1>8, <2>1, Times
  <2>3. QED
    BY <1>5, <1>8, <2>2
<1> DEFINE p == e * TradeLimit
           q == e * (HeatLimit - h)
<1>10. p \in Int /\ q \in Int
  BY <1>2, <1>8
<1> HIDE DEF x, p, q
<1>11. Risk!Budget(factor) \in Nat /\ Risk!Budget(factor) <= x /\ Risk!Budget(factor) <= y
  BY <1>6, <1>7, <1>9, MinTwo
<1>12. x <= p /\ x <= q
  BY <1>9 DEF p, q
<1>13. Risk!Budget(factor) <= p /\ Risk!Budget(factor) <= q
  BY <1>9, <1>10, <1>11, <1>12
<1>14. QED
  BY <1>11, <1>13 DEF p, q, e, h, y

\* The size of an order is within its budget.
LEMMA SizedIs ==
  ASSUME Typed, Risk!Heat <= HeatLimit, NEW stop \in 0..(Signal - 1), NEW factor \in {1, 2}
  PROVE  /\ Risk!Sized(stop, factor) \in Nat
         /\ Risk!Sized(stop, factor) * (Signal - stop + Cost) * W <= Risk!Budget(factor)
<1>1. Risk!MaxCapital \in Nat /\ Risk!Budget(factor) \in Nat
  BY MaxCapitalNat, BudgetIs
<1> DEFINE b == Risk!MaxCapital \div Signal
           B == Risk!Budget(factor)
           S == {q \in 0..b : q * (Signal - stop + Cost) * Risk!Whole <= B}
<1>2. b \in Nat
  <2> DEFINE c == Risk!MaxCapital
  <2>1. c \in Nat
    BY <1>1
  <2> HIDE DEF c
  <2>2. c \div Signal \in Int /\ c \div Signal >= 0
    BY <2>1, Limits, Divided
  <2>3. QED
    BY <2>2 DEF c
<1>3. Risk!Sized(stop, factor) = Risk!Max(S)
  BY DEF Risk!Sized
<1> HIDE DEF b
<1>4. 0 \in S
  <2>1. Signal - stop + Cost \in Int /\ Risk!Whole \in Int
    BY Limits, WholeIs DEF W
  <2>2. \A x, y \in Int : 0 * x * y = 0
    OBVIOUS
  <2>3. 0 * (Signal - stop + Cost) * Risk!Whole = 0
    BY <2>1, <2>2
  <2>4. QED
    BY <1>1, <1>2, <2>3
<1>5. S \in SUBSET (0..b) /\ S # {}
  BY <1>4
<1>6. Risk!Max(S) \in S
  <2> HIDE DEF S
  <2>1. QED
    BY <1>2, <1>5, Largest
<1>7. QED
  BY <1>2, <1>3, <1>6 DEF W

-----------------------------------------------------------------------------
\* Every position is covered by its risk, unless one was bought above the signal.
Sound == "slipped" \notin slips => \A n \in Names : Covered(held[n], basis)

\* The heat is within its limit.
Hot == Risk!Heat <= HeatLimit

\* An order that is sized is covered by its risk and leaves the heat within the
\* limit; it has a quantity only if the day's limit leaves something.
Ordered ==
  pc \in {"sized", "approved"} =>
    /\ 2 * (order.qty * ((Signal - order.stop) * W)) <= 2 * (basis * order.risk) + basis
    /\ Risk!Heat + order.risk <= HeatLimit
    /\ order.qty > 0 => 0 - daily * W <= basis * DayLimit

\* An order that is approved is for an instrument not held.
Approved == pc = "approved" => streak < HaltAfter /\ held[order.name].qty = 0

\* What a day has lost beyond the moves of the prices is costs.
Costs == daily <= moved

\* WorstDay, with the sums in their places.
Worst ==
  slips \cap {"slipped", "gapped"} = {} =>
    W * (Risk!Planned - moved) <= basis * DayLimit + basis * HeatLimit + basis * Cardinality(Names)

Within == Typed /\ Sound /\ Hot /\ Ordered /\ Approved /\ Costs /\ Worst

-----------------------------------------------------------------------------
LEMMA HeatKept ==
  ASSUME Typed, Sound, Hot
  PROVE  \/ "slipped" \in slips
         \/ W * Risk!Planned <= basis * HeatLimit + basis * Cardinality(Names)
<1> SUFFICES ASSUME "slipped" \notin slips
             PROVE  W * Risk!Planned <= basis * HeatLimit + basis * Cardinality(Names)
  OBVIOUS
<1>1. held \in Positions /\ basis \in Nat
  BY DEF Typed
<1>2. W * LossOf(held) <= basis * HeatOf(held) + basis * Cardinality(Names)
  BY <1>1, LossCovered DEF Sound
<1>3. HeatOf(held) \in Int /\ LossOf(held) \in Int /\ Cardinality(Names) \in Nat /\ HeatLimit \in Nat
  BY <1>1, SumsInt, Limits
<1>4. basis * HeatOf(held) <= basis * HeatLimit
  <2>1. HeatOf(held) <= HeatLimit
    BY HeatIs DEF Hot
  <2>2. QED
    BY <1>1, <1>3, <2>1, Times
<1>5. /\ basis * HeatOf(held) \in Int /\ basis * HeatLimit \in Int /\ basis * Cardinality(Names) \in Int
      /\ W * LossOf(held) \in Int
  BY <1>1, <1>3, WholeIs
<1>6. W * LossOf(held) <= basis * HeatLimit + basis * Cardinality(Names)
  BY <1>2, <1>4, <1>5
<1>7. QED
  BY <1>6, PlannedIs

LEMMA HeatTrueFrom == ASSUME Typed, Sound, Hot PROVE Risk!HeatTrue
<1>1. \/ "slipped" \in slips
      \/ W * Risk!Planned <= basis * HeatLimit + basis * Cardinality(Names)
  BY HeatKept
<1>2. Risk!Planned \in Int /\ W \in Nat
  BY TypedSums, WholeIs
<1>3. W * Risk!Planned = Risk!Planned * Risk!Whole
  BY <1>2 DEF W
<1>4. QED
  BY <1>1, <1>3, CardinalitySame DEF Risk!HeatTrue, Risk!Slack

LEMMA WorstDayFrom == ASSUME Typed, Worst PROVE Risk!WorstDay
<1> SUFFICES ASSUME slips \cap {"slipped", "gapped"} = {}
             PROVE  (Risk!Planned - moved) * Risk!Whole <= basis * (DayLimit + HeatLimit) + Risk!Slack
  BY DEF Risk!WorstDay
<1>1. W * (Risk!Planned - moved) <= basis * DayLimit + basis * HeatLimit + basis * Cardinality(Names)
  BY DEF Worst
<1>2. Risk!Planned \in Int /\ W \in Nat /\ moved \in Int /\ basis \in Nat /\ DayLimit \in Nat /\ HeatLimit \in Nat
  BY TypedSums, WholeIs, Limits DEF Typed
<1>3. W * (Risk!Planned - moved) = (Risk!Planned - moved) * Risk!Whole
  BY <1>2 DEF W
<1>4. basis * DayLimit + basis * HeatLimit = basis * (DayLimit + HeatLimit)
  BY <1>2
<1>5. QED
  BY <1>1, <1>3, <1>4, CardinalitySame DEF Risk!Slack

-----------------------------------------------------------------------------
LEMMA FlatPlaced == Placed(Risk!Flat) /\ Risk!Share(Risk!Flat) = 0 /\ Loss(Risk!Flat) = 0
BY DEF Placed, Position, Risk!Flat, Risk!Share, Loss

LEMMA FlatCovered == ASSUME NEW top \in Nat PROVE Covered(Risk!Flat, top)
<1>1. Risk!Flat.bought = 0 /\ Risk!Flat.entry = 0 /\ Risk!Flat.stop = 0 /\ Risk!Flat.risk = 0
  BY DEF Risk!Flat
<1>2. 2 * (0 * ((0 - 0) * W)) = 0 /\ 2 * (top * 0) = 0
  BY WholeIs
<1>3. QED
  BY <1>1, <1>2 DEF Covered

\* A larger basis covers as much.
LEMMA CoveredGrows ==
  ASSUME NEW p, Placed(p), NEW low \in Nat, NEW top \in Nat, low <= top, Covered(p, low)
  PROVE  Covered(p, top)
<1> DEFINE k == p.risk
           x == 2 * (p.bought * ((p.entry - p.stop) * W))
<1>1. k \in Nat
  BY DEF Placed, Position
<1>2. x \in Int
  BY WholeIs DEF Placed, Position
<1>3. x <= 2 * (low * k) + low
  BY DEF Covered
<1> HIDE DEF k, x
<1>4. low * k <= top * k /\ low * k \in Nat /\ top * k \in Nat
  BY <1>1, Times
<1>5. x <= 2 * (top * k) + top
  BY <1>2, <1>3, <1>4
<1>6. QED
  BY <1>5 DEF Covered, k, x

LEMMA SumZero ==
  ASSUME NEW D, IsFiniteSet(D), NEW f \in [D -> Int], \A x \in D : f[x] = 0
  PROVE  Sum(f) <= 0
<1> DEFINE a == 1
           b == 0
<1>1. a \in Int /\ b \in Int /\ \A x \in D : a * f[x] <= b * f[x] + b
  OBVIOUS
<1> HIDE DEF a, b
<1>2. a * Sum(f) <= b * Sum(f) + b * Cardinality(D)
  BY <1>1, SumBound
<1>3. Sum(f) \in Int /\ Cardinality(D) \in Nat
  BY SumInt, FS_CardinalityType
<1>4. QED
  BY <1>2, <1>3 DEF a, b

\* The start.
LEMMA Starts == ASSUME Risk!Init PROVE Within
<1>1. Account \in Nat /\ IsFiniteSet(Names)
  BY RiskAssumption
<1>2. held = [n \in Names |-> Risk!Flat] /\ held \in Positions
  BY FlatPlaced DEF Risk!Init, Positions, Placed
<1>3. Typed
  BY <1>1, <1>2 DEF Risk!Init, Typed
<1>4. HeatOf(held) <= 0 /\ LossOf(held) <= 0
  <2>1. /\ Shares(held) \in [Names -> Int] /\ Losses(held) \in [Names -> Int]
        /\ HeatOf(held) \in Int /\ LossOf(held) \in Int /\ Cardinality(Names) \in Nat
    BY <1>2, SumsInt
  <2>2. \A n \in Names : Shares(held)[n] = 0 /\ Losses(held)[n] = 0
    BY <1>2, FlatPlaced DEF Shares, Losses
  <2>3. Sum(Shares(held)) <= 0
    BY <1>1, <2>1, <2>2, SumZero
  <2>4. Sum(Losses(held)) <= 0
    BY <1>1, <2>1, <2>2, SumZero
  <2>5. QED
    BY <2>3, <2>4 DEF HeatOf, LossOf
<1>5. HeatOf(held) \in Int /\ LossOf(held) \in Int /\ Cardinality(Names) \in Nat /\ HeatLimit \in Nat /\ DayLimit \in Nat
  BY <1>2, SumsInt, Limits
<1>6. Hot
  BY <1>4, <1>5, HeatIs DEF Hot
<1>7. Sound
  BY <1>2, FlatCovered DEF Sound, Risk!Init
<1>8. Worst
  <2>1. basis = 0 /\ moved = 0
    BY DEF Risk!Init
  <2>2. W * (LossOf(held) - 0) <= 0
    <3>1. LossOf(held) - 0 <= 0 /\ LossOf(held) - 0 \in Int /\ W \in Nat
      BY <1>4, <1>5, WholeIs
    <3>2. W * (LossOf(held) - 0) <= W * 0
      BY <3>1, Times
    <3>3. W * 0 = 0
      BY <3>1
    <3>4. QED
      BY <3>2, <3>3
  <2>3. 0 * DayLimit + 0 * HeatLimit + 0 * Cardinality(Names) = 0
    BY <1>5
  <2>4. QED
    BY <2>1, <2>2, <2>3, PlannedIs DEF Worst
<1>9. Ordered /\ Approved /\ Costs
  BY DEF Risk!Init, Ordered, Approved, Costs
<1>10. QED
  BY <1>3, <1>6, <1>7, <1>8, <1>9 DEF Within

-----------------------------------------------------------------------------
\* A step that leaves the positions, the basis and the excuses alone keeps what
\* is said of them.
LEMMA SameSums ==
  ASSUME held' = held
  PROVE  Risk!Heat' = Risk!Heat /\ Risk!Planned' = Risk!Planned
BY HeatIs, PlannedIs

LEMMA SameSound ==
  ASSUME held' = held, basis' = basis, slips' = slips, Sound
  PROVE  Sound'
<1>1. \A n \in Names : Covered(held[n], basis)' <=> Covered(held[n], basis)
  BY DEF Covered, W
<1>2. QED
  BY <1>1 DEF Sound

LEMMA SameWorst ==
  ASSUME held' = held, basis' = basis, slips' = slips, moved' = moved, Worst
  PROVE  Worst'
BY SameSums DEF Worst, W

LEMMA AssessKeeps == ASSUME Within, Risk!Assess PROVE Within'
<1>1. Typed'
  <2>1. Typed /\ UNCHANGED <<equity, cash, power, daily, moved, streak, basis, held>> /\ pc' = "assessed"
    BY DEF Within, Risk!Assess, Risk!ledger, Risk!history
  <2>2. view'.streak = streak
    BY DEF Risk!Assess, Risk!View
  <2>3. order' \in [name : Names, stop : 0..(Signal - 1), target : Stops \cup Targets \cup {0}, qty : Nat, risk : Nat]
    <3>1. PICK n \in Names, s \in Stops, t \in Targets :
            order' = [Risk!None EXCEPT !.name = n, !.stop = s, !.target = t]
      BY DEF Risk!Assess
    <3>2. order' = [name |-> n, stop |-> s, target |-> t, qty |-> 0, risk |-> 0]
      BY <3>1 DEF Risk!None
    <3>3. s \in 0..(Signal - 1)
      BY RiskAssumption
    <3>4. QED
      BY <3>2, <3>3
  <2>4. QED
    BY <2>1, <2>2, <2>3 DEF Typed
<1>2. UNCHANGED <<held, basis, slips, moved, daily>> /\ pc' = "assessed"
  BY DEF Risk!Assess, Risk!ledger, Risk!history
<1>3. Sound' /\ Worst' /\ Hot'
  BY <1>2, SameSound, SameWorst, SameSums DEF Within, Hot
<1>4. Ordered' /\ Approved' /\ Costs'
  BY <1>2 DEF Within, Ordered, Approved, Costs
<1>5. QED
  BY <1>1, <1>3, <1>4 DEF Within

LEMMA RefuseKeeps == ASSUME Within, Risk!Refuse PROVE Within'
<1>1. /\ UNCHANGED <<equity, cash, power, daily, moved, streak, basis, held, slips>> /\ pc' = "idle"
  BY DEF Risk!Refuse, Risk!ledger, Risk!history
<1>2. Typed'
  BY <1>1 DEF Within, Typed
<1>3. Sound' /\ Worst' /\ Hot'
  BY <1>1, SameSound, SameWorst, SameSums DEF Within, Hot
<1>4. Ordered' /\ Approved' /\ Costs'
  BY <1>1 DEF Within, Ordered, Approved, Costs
<1>5. QED
  BY <1>2, <1>3, <1>4 DEF Within

LEMMA SyncKeeps == ASSUME Within, Risk!SyncCapital PROVE Within'
<1>1. /\ UNCHANGED <<equity, daily, streak, held, pc, order, view, moved, basis, slips>>
      /\ \E c \in Cashes : cash' = c /\ power' = Risk!Min({c, equity})
  BY DEF Risk!SyncCapital
<1>2. cash' \in Int /\ power' \in Int
  <2>1. PICK c \in Cashes : cash' = c /\ power' = Risk!Min({c, equity})
    BY <1>1
  <2>2. c \in Int /\ equity \in Int
    BY RiskAssumption DEF Within, Typed
  <2>3. Risk!Min({c, equity}) \in Int
    BY <2>2, MinTwo
  <2>4. QED
    BY <2>1, <2>2, <2>3
<1>3. Typed'
  BY <1>1, <1>2 DEF Within, Typed
<1>4. Sound' /\ Worst' /\ Hot'
  BY <1>1, SameSound, SameWorst, SameSums DEF Within, Hot
<1>5. Ordered' /\ Approved' /\ Costs'
  BY <1>1, SameSums DEF Within, Ordered, Approved, Costs, W
<1>6. QED
  BY <1>3, <1>4, <1>5 DEF Within

LEMMA ResetKeeps == ASSUME Within, Risk!ResetDay PROVE Within'
<1>1. /\ UNCHANGED <<equity, cash, power, streak, held, pc, order, view, basis, slips>>
      /\ daily' = 0 /\ moved' = 0
  BY DEF Risk!ResetDay
<1>2. Typed'
  BY <1>1 DEF Within, Typed
<1>3. Sound' /\ Hot'
  BY <1>1, SameSound, SameSums DEF Within, Hot
<1>4. basis \in Nat /\ DayLimit \in Nat /\ HeatLimit \in Nat /\ Risk!Planned \in Int /\ W \in Nat /\ Cardinality(Names) \in Nat
  BY Limits, TypedSums, WholeIs, FS_CardinalityType DEF Within, Typed
<1>5. basis * DayLimit \in Nat /\ basis * HeatLimit \in Nat /\ basis * Cardinality(Names) \in Nat
  BY <1>4
<1>6. Worst'
  <2>1. \/ "slipped" \in slips
        \/ W * Risk!Planned <= basis * HeatLimit + basis * Cardinality(Names)
    BY HeatKept DEF Within
  <2>2. W * (Risk!Planned - 0) = W * Risk!Planned
    BY <1>4
  <2>3. W * Risk!Planned \in Int
    BY <1>4
  <2>4. slips \cap {"slipped", "gapped"} = {} =>
          W * (Risk!Planned - 0) <= basis * DayLimit + basis * HeatLimit + basis * Cardinality(Names)
    BY <1>5, <2>1, <2>2, <2>3
  <2>5. QED
    BY <1>1, <2>4, SameSums DEF Worst, W
<1>7. Ordered'
  <2>1. 0 - 0 * W = 0
    BY <1>4
  <2>2. 0 - 0 * W <= basis * DayLimit
    BY <1>5, <2>1
  <2>3. QED
    BY <1>1, <2>2, SameSums DEF Within, Ordered, W
<1>8. Approved' /\ Costs'
  BY <1>1 DEF Within, Approved, Costs
<1>9. QED
  BY <1>2, <1>3, <1>6, <1>7, <1>8 DEF Within

LEMMA ApproveKeeps == ASSUME Within, Risk!Approve PROVE Within'
<1>1. UNCHANGED <<equity, cash, power, daily, moved, streak, basis, held, view, slips>>
  BY DEF Risk!Approve, Risk!ledger, Risk!history
<1>2. /\ pc = "sized" /\ pc' = "approved" /\ held[order.name].qty = 0 /\ view.streak < HaltAfter /\ order.qty > 0
  BY DEF Risk!Approve, Risk!Approves
<1>3. /\ order \in [name : Names, stop : 0..(Signal - 1), target : Stops \cup Targets \cup {0}, qty : Nat, risk : Nat]
      /\ view.streak = streak /\ basis \in Nat
  BY <1>2 DEF Within, Typed
<1>4. /\ order' \in [name : Names, stop : 0..(Signal - 1), target : Stops \cup Targets \cup {0}, qty : Nat, risk : Nat]
      /\ order'.name = order.name /\ order'.stop = order.stop /\ order'.risk = order.risk
      /\ order'.qty \in Nat /\ order'.qty <= order.qty
  <2>1. PICK by \in {1, 2} : /\ Risk!Reduced(view, by) > 0
                             /\ order' = [order EXCEPT !.qty = Risk!Reduced(view, by)]
    BY DEF Risk!Approve
  <2> DEFINE r == Risk!Reduced(view, by)
  <2>2. r \in Nat /\ r <= order.qty
    <3> DEFINE d == by * (IF view.streak >= ReduceAfter THEN 2 ELSE 1)
               q == order.qty
    <3>1. r = q \div d /\ d \in {1, 2, 4}
      BY DEF Risk!Reduced
    <3>2. q \in Nat
      BY <1>3
    <3> HIDE DEF r, d, q
    <3>3. r \in Nat /\ r <= q
      BY <3>1, <3>2
    <3>4. QED
      BY <3>3 DEF q
  <2> HIDE DEF r
  <2>3. order' = [order EXCEPT !.qty = r]
    BY <2>1 DEF r
  <2>4. QED
    BY <1>3, <2>2, <2>3
<1>5. Typed'
  BY <1>1, <1>2, <1>3, <1>4 DEF Within, Typed
<1>6. Sound' /\ Worst' /\ Hot'
  BY <1>1, SameSound, SameWorst, SameSums DEF Within, Hot
<1>7. Ordered'
  <2> DEFINE u == (Signal - order.stop) * W
             x == 2 * (basis * order.risk) + basis
  <2>1. 2 * (order.qty * u) <= x
    BY <1>2 DEF Within, Ordered
  <2>2. u \in Nat /\ x \in Nat
    <3>1. Signal - order.stop \in Nat
      BY <1>3, Limits
    <3>2. W \in Nat /\ order.risk \in Nat
      BY <1>3, WholeIs
    <3>3. QED
      BY <1>3, <3>1, <3>2
  <2>3. order.qty \in Nat /\ order'.qty \in Nat /\ order'.qty <= order.qty
    BY <1>3, <1>4
  <2> HIDE DEF u, x
  <2>4. order'.qty * u <= order.qty * u /\ order'.qty * u \in Nat /\ order.qty * u \in Nat
    BY <2>2, <2>3, Times
  <2>5. 2 * (order'.qty * u) <= x
    BY <2>1, <2>2, <2>4
  <2>6. 2 * (order'.qty * ((Signal - order.stop) * W)) <= 2 * (basis * order.risk) + basis
    BY <2>5 DEF u, x
  <2>7. Risk!Heat + order.risk <= HeatLimit /\ 0 - daily * W <= basis * DayLimit
    BY <1>2 DEF Within, Ordered
  <2>8. QED
    BY <1>1, <1>4, <2>6, <2>7, SameSums DEF Ordered, W
<1>8. Approved' /\ Costs'
  BY <1>1, <1>2, <1>3, <1>4 DEF Within, Approved, Costs
<1>9. QED
  BY <1>5, <1>6, <1>7, <1>8 DEF Within

LEMMA More ==
  ASSUME NEW a \in Nat, NEW b \in Nat, NEW c \in Nat, a <= b
  PROVE  a * c <= b * c /\ a * c \in Nat /\ b * c \in Nat
BY Times

\* What the size of an order is covered by.
LEMMA SizedCovered ==
  ASSUME Typed, Hot, Risk!Basis > 0, NEW stop \in 0..(Signal - 1), NEW factor \in {1, 2}
  PROVE  LET q == Risk!Sized(stop, factor)
             k == Risk!Rounded(q * (Signal - stop) * Risk!Whole, Risk!Basis)
         IN  /\ q \in Nat /\ k \in Nat
             /\ 2 * (q * ((Signal - stop) * W)) <= 2 * (Risk!Basis * k) + Risk!Basis
             /\ Risk!Heat + k <= HeatLimit
             /\ q > 0 => 0 - daily * W <= Risk!Basis * DayLimit
             /\ q * (Signal - stop + Cost) * W <= Risk!Budget(factor)
             /\ q * ((Signal - stop) * W) <= q * (Signal - stop + Cost) * W
<1> DEFINE q == Risk!Sized(stop, factor)
           e == Risk!Basis
           h == Risk!Heat
           b == Risk!Budget(factor)
           y == Risk!Room(e, daily)
           d == Signal - stop
           u == d * W
           v == (d + Cost) * W
           k == Risk!Rounded(q * d * Risk!Whole, e)
<1>1. e \in Nat /\ e > 0 /\ h \in Int /\ daily \in Int
  BY BasisNat, TypedSums DEF Typed
<1>2. HeatLimit \in Nat /\ DayLimit \in Nat /\ Cost \in Nat /\ W \in Nat /\ W > 0 /\ d \in Nat /\ d > 0
  BY Limits, WholeIs
<1>3. q \in Nat /\ q * (Signal - stop + Cost) * W <= b
  BY SizedIs DEF Hot
<1>4. b \in Nat /\ b <= e * (HeatLimit - h) /\ b <= y
  BY BudgetIs DEF Hot
<1>5. y \in Nat /\ (y > 0 => 0 - daily * W <= e * DayLimit)
  BY <1>1, RoomIs
<1>6. Signal - stop + Cost = d + Cost
  BY <1>2
<1> HIDE DEF q, e, h, b, y, d
<1>7. q * (d + Cost) * W = q * v /\ q * d * Risk!Whole = q * u
  BY <1>2, <1>3 DEF W
<1>8. u \in Nat /\ v \in Nat /\ u <= v /\ v > 0
  <2>1. v = d * W + Cost * W
    BY <1>2
  <2>2. d * W \in Nat /\ Cost * W \in Nat /\ d * W > 0
    BY <1>2
  <2>3. QED
    BY <2>1, <2>2
<1>9. k = Risk!Rounded(q * u, e)
  BY <1>7
<1> HIDE DEF u, v, k
<1>10. q * u \in Nat /\ q * u <= q * v /\ q * v \in Nat
  BY <1>3, <1>8, Times
<1>11. q * v <= b
  BY <1>3, <1>6, <1>7
<1>12. e * (HeatLimit - h) \in Int /\ HeatLimit - h \in Int
  BY <1>1, <1>2
<1>13. q * u <= e * (HeatLimit - h)
  BY <1>4, <1>10, <1>11, <1>12
<1>14. k \in Int /\ k >= 0 /\ 2 * (q * u) < 2 * (e * k) + e
  <2> DEFINE z == q * u
  <2>1. z \in Int /\ z >= 0 /\ k = Risk!Rounded(z, e)
    BY <1>9, <1>10
  <2> HIDE DEF z
  <2>2. k \in Int /\ 2 * z < 2 * (e * k) + e /\ k >= 0
    BY <1>1, <2>1, RoundedIs
  <2>3. QED
    BY <2>2 DEF z
<1>15. k <= HeatLimit - h
  BY <1>1, <1>9, <1>10, <1>12, <1>13, RoundedBelow
<1>16. h + k <= HeatLimit
  BY <1>1, <1>2, <1>14, <1>15
<1>17. ASSUME q > 0 PROVE 0 - daily * W <= e * DayLimit
  <2>1. q * v > 0
    BY <1>3, <1>8, <1>17
  <2>2. y > 0
    BY <1>4, <1>5, <1>10, <1>11, <2>1
  <2>3. QED
    BY <1>5, <2>2
<1>18. e * k \in Int
  BY <1>1, <1>14
<1>19. 2 * (q * u) <= 2 * (e * k) + e
  BY <1>1, <1>10, <1>14, <1>18
<1>20. q * (Signal - stop + Cost) * W = q * v
  BY <1>6, <1>7
<1>21. q * (Signal - stop + Cost) * W <= b /\ q * u <= q * (Signal - stop + Cost) * W
  BY <1>10, <1>11, <1>20
<1>22. k \in Nat
  BY <1>14
<1>23. QED
  BY <1>3, <1>16, <1>17, <1>19, <1>21, <1>22 DEF q, e, h, b, u, d, k

\* A larger basis leaves WorstDay as it is.
LEMMA WorstGrows ==
  ASSUME Typed, Worst, held' = held, slips' = slips, moved' = moved, basis' \in Nat, basis <= basis'
  PROVE  Worst'
<1>1. Risk!Planned' = Risk!Planned
  BY SameSums
<1>2. /\ DayLimit \in Nat /\ HeatLimit \in Nat /\ Cardinality(Names) \in Nat /\ basis \in Nat
      /\ Risk!Planned \in Int /\ moved \in Int /\ W \in Nat
  BY Limits, TypedSums, WholeIs, FS_CardinalityType DEF Typed
<1>3. /\ basis * DayLimit <= basis' * DayLimit /\ basis * HeatLimit <= basis' * HeatLimit
      /\ basis * Cardinality(Names) <= basis' * Cardinality(Names)
  <2>1. basis \in Int /\ basis' \in Int /\ basis <= basis'
    BY <1>2
  <2>2. \A c \in Nat : basis * c <= basis' * c
    BY <2>1, Times
  <2>3. QED
    BY <1>2, <2>2
<1>4. /\ basis * DayLimit \in Nat /\ basis * HeatLimit \in Nat /\ basis * Cardinality(Names) \in Nat
      /\ basis' * DayLimit \in Nat /\ basis' * HeatLimit \in Nat /\ basis' * Cardinality(Names) \in Nat
      /\ W * (Risk!Planned - moved) \in Int
  <2>1. \A x, y \in Nat : x * y \in Nat
    OBVIOUS
  <2>2. W \in Int /\ Risk!Planned - moved \in Int
    BY <1>2
  <2>3. \A x, y \in Int : x * y \in Int
    OBVIOUS
  <2>4. QED
    BY <1>2, <2>1, <2>2, <2>3
<1>5. slips \cap {"slipped", "gapped"} = {} =>
        W * (Risk!Planned - moved) <= basis' * DayLimit + basis' * HeatLimit + basis' * Cardinality(Names)
  BY <1>3, <1>4 DEF Worst
<1>6. QED
  BY <1>1, <1>5 DEF Worst, W

LEMMA SizeKeeps == ASSUME Within, Risk!Size PROVE Within'
<1>1. UNCHANGED <<equity, cash, power, daily, moved, streak, held, view, slips>>
  BY DEF Risk!Size, Risk!ledger
<1>2. pc = "assessed" /\ pc' = "sized" /\ Risk!Basis > 0 /\ basis' = Risk!Max({basis, Risk!Basis})
  BY DEF Risk!Size
<1>3. /\ order \in [name : Names, stop : 0..(Signal - 1), target : Stops \cup Targets \cup {0}, qty : Nat, risk : Nat]
      /\ view.streak = streak /\ basis \in Nat /\ Risk!Basis \in Nat
  BY <1>2, BasisNat DEF Within, Typed
<1>4. basis' \in Nat /\ basis <= basis' /\ Risk!Basis <= basis'
  BY <1>2, <1>3, MaxTwo
<1>5. PICK factor \in {1, 2} :
        LET q == Risk!Sized(order.stop, factor)
        IN  order' = [order EXCEPT !.qty = q, !.risk = Risk!Rounded(q * (Signal - order.stop) * Risk!Whole, Risk!Basis)]
  BY DEF Risk!Size
<1> DEFINE q == Risk!Sized(order.stop, factor)
           k == Risk!Rounded(q * (Signal - order.stop) * Risk!Whole, Risk!Basis)
           e == Risk!Basis
<1>6. /\ q \in Nat /\ k \in Nat
      /\ 2 * (q * ((Signal - order.stop) * W)) <= 2 * (e * k) + e
      /\ Risk!Heat + k <= HeatLimit
      /\ q > 0 => 0 - daily * W <= e * DayLimit
  BY <1>2, <1>3, SizedCovered DEF Within
<1>7. order' = [order EXCEPT !.qty = q, !.risk = k]
  BY <1>5
<1> HIDE DEF q, k, e
<1>8. e \in Nat /\ e <= basis'
  BY <1>3, <1>4 DEF e
<1>9. /\ order' \in [name : Names, stop : 0..(Signal - 1), target : Stops \cup Targets \cup {0}, qty : Nat, risk : Nat]
      /\ order'.stop = order.stop /\ order'.qty = q /\ order'.risk = k
  BY <1>3, <1>6, <1>7
<1>10. Typed'
  BY <1>1, <1>2, <1>3, <1>4, <1>9 DEF Within, Typed
<1>11. Hot'
  BY <1>1, SameSums DEF Within, Hot
<1>12. Sound'
  <2>1. ASSUME NEW n \in Names, "slipped" \notin slips PROVE Covered(held[n], basis')
    <3>1. Placed(held[n]) /\ Covered(held[n], basis)
      BY <2>1 DEF Within, Typed, Positions, Sound
    <3>2. QED
      BY <1>3, <1>4, <3>1, CoveredGrows
  <2>2. \A n \in Names : Covered(held[n], basis)' <=> Covered(held[n], basis')
    BY <1>1 DEF Covered, W
  <2>3. QED
    BY <1>1, <2>1, <2>2 DEF Sound
<1>13. Worst'
  BY <1>1, <1>4, WorstGrows DEF Within
<1>14. Ordered'
  <2>1. 2 * (e * k) + e <= 2 * (basis' * k) + basis'
    <3>1. k \in Nat /\ e \in Nat /\ basis' \in Nat /\ e <= basis'
      BY <1>4, <1>6, <1>8
    <3> DEFINE x == e * k
               y == basis' * k
               top == basis'
    <3>2. x <= y /\ x \in Nat /\ y \in Nat
      BY <3>1, More
    <3>3. top \in Nat /\ e \in Nat /\ e <= top
      BY <3>1
    <3> HIDE DEF x, y, top
    <3>4. 2 * x + e <= 2 * y + top
      BY <3>2, <3>3
    <3>5. QED
      BY <3>4 DEF x, y, top
  <2>2. e * DayLimit <= basis' * DayLimit /\ e * DayLimit \in Nat /\ basis' * DayLimit \in Nat
    <3>1. DayLimit \in Nat
      BY Limits
    <3>2. e \in Nat /\ basis' \in Nat /\ e <= basis'
      BY <1>4, <1>8
    <3>3. QED
      BY <3>1, <3>2, More
  <2>3. q * ((Signal - order.stop) * W) \in Int /\ daily * W \in Int
    <3>1. Signal - order.stop \in Int /\ W \in Nat /\ daily \in Int
      BY <1>3, Limits, WholeIs DEF Within, Typed
    <3>2. QED
      BY <1>6, <3>1
  <2>4. 2 * (e * k) + e \in Int /\ 2 * (basis' * k) + basis' \in Int
    BY <1>4, <1>6, <1>8
  <2>5. 2 * (q * ((Signal - order.stop) * W)) <= 2 * (basis' * k) + basis'
    BY <1>6, <2>1, <2>3, <2>4
  <2>6. q > 0 => 0 - daily * W <= basis' * DayLimit
    BY <1>6, <2>2, <2>3
  <2>7. QED
    BY <1>1, <1>6, <1>9, <2>5, <2>6, SameSums DEF Ordered, W
<1>15. Approved' /\ Costs'
  BY <1>1, <1>2 DEF Within, Approved, Costs
<1>16. QED
  BY <1>10, <1>11, <1>12, <1>13, <1>14, <1>15 DEF Within

LEMMA FillKeeps == ASSUME Within, Risk!Fill PROVE Within'
<1>1. UNCHANGED <<equity, power, daily, moved, streak, basis>> /\ pc = "approved" /\ pc' = "idle"
  BY DEF Risk!Fill
<1>2. /\ order \in [name : Names, stop : 0..(Signal - 1), target : Stops \cup Targets \cup {0}, qty : Nat, risk : Nat]
      /\ held \in Positions /\ basis \in Nat /\ held[order.name].qty = 0 /\ cash \in Int
  BY <1>1 DEF Within, Typed, Approved
<1>3. PICK q \in 1..order.qty, slip \in Slips :
        /\ held' = [held EXCEPT ![order.name] =
             [qty |-> q, bought |-> q, entry |-> Signal + slip, stop |-> order.stop, risk |-> order.risk]]
        /\ cash' = Risk!Max({0, cash - q * (Signal + slip)})
        /\ Risk!Excuse("slipped", slip > 0)
  BY DEF Risk!Fill
<1> DEFINE n == order.name
           s == order.stop
           k == order.risk
           z == order.qty
           p == [qty |-> q, bought |-> q, entry |-> Signal + slip, stop |-> s, risk |-> k]
<1>4. /\ q \in Nat /\ q > 0 /\ q <= z /\ z \in Nat /\ z > 0 /\ slip \in Nat /\ n \in Names
      /\ k \in Nat /\ s \in Nat /\ s <= Signal /\ Signal - s \in Nat
  BY <1>2, Limits
<1>5. Signal \in Nat /\ W \in Nat /\ DayLimit \in Nat /\ HeatLimit \in Nat /\ Cardinality(Names) \in Nat
  BY Limits, WholeIs, FS_CardinalityType
<1>6. /\ 2 * (z * ((Signal - s) * W)) <= 2 * (basis * k) + basis
      /\ Risk!Heat + k <= HeatLimit
      /\ 0 - daily * W <= basis * DayLimit
  BY <1>1, <1>4 DEF Within, Ordered
<1>7. held' = [held EXCEPT ![n] = p]
  BY <1>3
<1>8. held[n].qty = 0
  BY <1>2
<1> HIDE DEF n, s, k, z
<1>9. /\ p.qty = q /\ p.bought = q /\ p.entry = Signal + slip /\ p.stop = s /\ p.risk = k /\ Placed(p)
  BY <1>4, <1>5 DEF Placed, Position
<1> HIDE DEF p
<1>10. /\ held' \in Positions
       /\ HeatOf(held') = HeatOf(held) - Risk!Share(held[n]) + Risk!Share(p)
       /\ LossOf(held') = LossOf(held) - Loss(held[n]) + Loss(p)
       /\ held'[n] = p /\ \A m \in Names \ {n} : held'[m] = held[m]
  <2>1. held'[n] = p /\ \A m \in Names \ {n} : held'[m] = held[m]
    BY <1>2, <1>4, <1>7 DEF Positions
  <2>2. QED
    BY <1>2, <1>4, <1>7, <1>9, <2>1, Replaced
<1>11. Risk!Share(held[n]) = 0 /\ Loss(held[n]) = 0
  <2>1. \A d \in Int : 0 * d = 0
    OBVIOUS
  <2>2. held[n].entry - held[n].stop \in Int
    BY <1>2, <1>4 DEF Positions, Position
  <2>3. QED
    BY <1>8, <2>1, <2>2 DEF Risk!Share, Loss
<1>12. Risk!Share(p) = k
  BY <1>4, <1>9, ShareIs
<1>13. slips' = slips \cup {x \in {"slipped"} : slip > 0}
  BY <1>3 DEF Risk!Excuse
<1>14. Typed'
  <2>1. cash' \in Int
    <3>1. q * (Signal + slip) \in Int
      BY <1>4, <1>5
    <3>2. cash - q * (Signal + slip) \in Int
      BY <1>2, <3>1
    <3>3. QED
      BY <1>3, <3>2, MaxTwo
  <2>2. QED
    BY <1>1, <1>10, <2>1 DEF Within, Typed
<1>15. Hot'
  <2>1. HeatOf(held) \in Int
    BY <1>2, SumsInt
  <2>2. HeatOf(held') <= HeatLimit
    BY <1>4, <1>5, <1>6, <1>10, <1>11, <1>12, <2>1, HeatIs
  <2>3. QED
    BY <2>2, HeatIs DEF Hot
<1>16. slip = 0 => Covered(p, basis)
  <2> DEFINE u == (Signal - s) * W
             x == 2 * (basis * k) + basis
  <2>1. u \in Nat /\ x \in Nat
    <3>1. \A a, b \in Nat : a * b \in Nat
      OBVIOUS
    <3>2. basis * k \in Nat /\ basis \in Nat
      BY <1>2, <1>4, <3>1
    <3>3. QED
      BY <1>4, <1>5, <3>1, <3>2
  <2>2. 2 * (z * u) <= x
    BY <1>6
  <2>3. slip = 0 => p.entry - p.stop = Signal - s
    BY <1>5, <1>9
  <2> HIDE DEF u, x
  <2>4. q * u <= z * u /\ q * u \in Nat /\ z * u \in Nat
    BY <1>4, <2>1, More
  <2>5. 2 * (q * u) <= x
    BY <2>1, <2>2, <2>4
  <2>6. 2 * (q * ((Signal - s) * W)) <= 2 * (basis * k) + basis
    BY <2>5 DEF u, x
  <2>7. QED
    BY <1>9, <2>3, <2>6 DEF Covered
<1>17. Sound'
  <2>1. "slipped" \notin slips' => slip = 0 /\ "slipped" \notin slips
    BY <1>4, <1>13
  <2>2. \A m \in Names : Covered(held[m], basis)' <=> Covered(held'[m], basis)
    BY <1>1 DEF Covered, W
  <2>3. \A m \in Names : "slipped" \notin slips' => Covered(held'[m], basis)
    BY <1>10, <1>16, <2>1 DEF Within, Sound
  <2>4. QED
    BY <2>2, <2>3 DEF Sound
<1>18. Ordered' /\ Approved' /\ Costs'
  BY <1>1 DEF Within, Ordered, Approved, Costs
<1>19. Worst'
  <2>1. SUFFICES ASSUME slips' \cap {"slipped", "gapped"} = {}
                 PROVE  W * (Risk!Planned' - moved) <= basis * DayLimit + basis * HeatLimit + basis * Cardinality(Names)
    BY <1>1 DEF Worst, W
  <2> DEFINE l == LossOf(held')
             x == basis * DayLimit
             y == basis * HeatLimit + basis * Cardinality(Names)
  <2>2. W * l <= y
    <3>1. \A m \in Names : Covered(held'[m], basis)
      <4>1. \A m \in Names : Covered(held[m], basis)' <=> Covered(held'[m], basis)
        BY <1>1 DEF Covered, W
      <4>2. QED
        BY <1>17, <2>1, <4>1 DEF Sound
    <3>2. W * l <= basis * HeatOf(held') + basis * Cardinality(Names)
      BY <1>2, <1>10, <3>1, LossCovered
    <3>3. HeatOf(held') <= HeatLimit /\ HeatOf(held') \in Int
      BY <1>10, <1>15, HeatIs, SumsInt DEF Hot
    <3>4. basis * HeatOf(held') <= basis * HeatLimit
      BY <1>2, <1>5, <3>3, Times
    <3> DEFINE a == basis * HeatOf(held')
               b == basis * HeatLimit
               c == basis * Cardinality(Names)
               d == W * l
    <3>5. a \in Int /\ b \in Int /\ c \in Int /\ d \in Int
      <4>1. \A i, j \in Int : i * j \in Int
        OBVIOUS
      <4>2. l \in Int
        BY <1>10, SumsInt
      <4>3. QED
        BY <1>2, <1>5, <3>3, <4>1, <4>2
    <3>6. d <= a + c /\ a <= b
      BY <3>2, <3>4
    <3> HIDE DEF a, b, c, d
    <3>7. d <= b + c
      BY <3>5, <3>6
    <3>8. QED
      BY <3>7 DEF b, c, d
  <2>3. 0 - daily * W <= x
    BY <1>6
  <2>4. daily \in Int /\ moved \in Int /\ daily <= moved /\ l \in Int
    BY <1>10, SumsInt DEF Within, Typed, Costs
  <2>5. x \in Nat /\ y \in Int
    <3>1. \A a, b \in Nat : a * b \in Nat
      OBVIOUS
    <3>2. QED
      BY <1>2, <1>5, <3>1
  <2>6. y + x = basis * DayLimit + basis * HeatLimit + basis * Cardinality(Names)
    <3>1. \A a, b \in Nat : a * b \in Nat
      OBVIOUS
    <3>2. basis * DayLimit \in Nat /\ basis * HeatLimit \in Nat /\ basis * Cardinality(Names) \in Nat
      BY <1>2, <1>5, <3>1
    <3>3. QED
      BY <3>2
  <2> HIDE DEF l, x, y
  <2>7. W * (l - moved) <= y + x
    <3>1. W * daily <= W * moved
      BY <1>5, <2>4, Times
    <3>2. W * (l - moved) = W * l - W * moved /\ daily * W = W * daily
      BY <1>5, <2>4
    <3>3. W * l \in Int /\ W * moved \in Int /\ W * daily \in Int
      BY <1>5, <2>4
    <3>4. QED
      BY <2>2, <2>3, <2>5, <3>1, <3>2, <3>3
  <2>8. QED
    BY <2>6, <2>7, PlannedIs DEF l
<1>20. QED
  BY <1>14, <1>15, <1>17, <1>18, <1>19 DEF Within

\* What a sale leaves of a position.
LEMMA SoldPart ==
  ASSUME NEW p, Placed(p), NEW q \in 1..p.qty
  PROVE  LET p1 == IF q = p.qty THEN Risk!Flat ELSE [p EXCEPT !.qty = @ - q]
         IN  /\ Placed(p1) /\ Risk!Share(p1) <= Risk!Share(p)
             /\ Loss(p1) = Loss(p) - q * (p.entry - p.stop)
             /\ \A top \in Nat : Covered(p, top) => Covered(p1, top)
<1>1. p.qty \in Nat /\ p.entry \in Nat /\ p.stop \in Nat /\ p \in Position /\ q \in Nat /\ q > 0 /\ q <= p.qty
  BY DEF Placed, Position
<1> DEFINE d == p.entry - p.stop
<1>2. CASE q = p.qty
  <2>1. Loss(p) - q * d = 0
    <3>1. d \in Int /\ Loss(p) = q * d
      BY <1>1, <1>2 DEF Loss
    <3> HIDE DEF d
    <3>2. QED
      BY <1>1, <3>1
  <2>2. Risk!Share(p) \in Nat
    BY ShareIs
  <2>3. QED
    BY <1>2, <2>1, <2>2, FlatPlaced, FlatCovered
<1>3. CASE q # p.qty
  <2> DEFINE r == p.qty - q
             p1 == [p EXCEPT !.qty = r]
  <2>1. r \in Nat /\ r < p.qty
    BY <1>1, <1>3
  <2>2. Placed(p1) /\ Risk!Share(p1) <= Risk!Share(p)
    <3> HIDE DEF r
    <3>1. QED
      BY <2>1, ShareShrinks
  <2>3. p1.qty = r /\ p1.bought = p.bought /\ p1.entry = p.entry /\ p1.stop = p.stop /\ p1.risk = p.risk
    BY <1>1 DEF Position
  <2>4. p1 = [p EXCEPT !.qty = @ - q]
    OBVIOUS
  <2> HIDE DEF p1
  <2>5. Loss(p1) = Loss(p) - q * d
    <3>1. d \in Int /\ Loss(p1) = (p.qty - q) * d /\ Loss(p) = p.qty * d
      BY <1>1, <2>3 DEF Loss
    <3> HIDE DEF d
    <3> DEFINE x == p.qty
    <3>2. x \in Int /\ q \in Int
      BY <1>1
    <3> HIDE DEF x
    <3>3. (x - q) * d = x * d - q * d
      BY <3>1, <3>2
    <3>4. QED
      BY <3>1, <3>3 DEF x
  <2>6. \A top \in Nat : Covered(p, top) => Covered(p1, top)
    BY <2>3 DEF Covered
  <2>7. QED
    BY <1>3, <2>2, <2>4, <2>5, <2>6
<1>4. QED
  BY <1>2, <1>3

LEMMA ExitKeeps == ASSUME Within, Risk!Exit PROVE Within'
<1>1. UNCHANGED <<power, pc, order, view, basis>> /\ pc = "idle"
  BY DEF Risk!Exit
<1>2. held \in Positions /\ basis \in Nat /\ cash \in Int /\ equity \in Int /\ daily \in Int /\ moved \in Int /\ streak \in Nat
  BY DEF Within, Typed
<1>3. PICK n \in Risk!Open, price \in Prices : \E q \in 1..held[n].qty :
        LET p == held[n]
            pnl == q * (price - p.entry - Cost)
        IN /\ held' = [held EXCEPT ![n] = IF q = p.qty THEN Risk!Flat ELSE [p EXCEPT !.qty = @ - q]]
           /\ cash' = cash + q * price /\ equity' = equity + pnl
           /\ daily' = daily + Risk!Counted(pnl)
           /\ streak' = IF pnl < 0 THEN streak + 1 ELSE 0
           /\ moved' = moved + q * (price - p.entry)
           /\ Risk!Excuse("gapped", price < p.stop)
  BY DEF Risk!Exit
<1> DEFINE p == held[n]
<1>4. PICK q \in 1..p.qty :
           /\ held' = [held EXCEPT ![n] = IF q = p.qty THEN Risk!Flat ELSE [p EXCEPT !.qty = @ - q]]
           /\ cash' = cash + q * price /\ equity' = equity + q * (price - p.entry - Cost)
           /\ daily' = daily + q * (price - p.entry - Cost)
           /\ streak' = IF q * (price - p.entry - Cost) < 0 THEN streak + 1 ELSE 0
           /\ moved' = moved + q * (price - p.entry)
           /\ Risk!Excuse("gapped", price < p.stop)
  BY <1>3 DEF Risk!Counted
<1> DEFINE p1 == IF q = p.qty THEN Risk!Flat ELSE [p EXCEPT !.qty = @ - q]
<1>5. n \in Names /\ Placed(p) /\ held' = [held EXCEPT ![n] = p1]
  BY <1>2, <1>4 DEF Risk!Open, Positions
<1>6. /\ p.entry \in Nat /\ p.stop \in Nat /\ p.stop <= p.entry /\ q \in Nat /\ q > 0
      /\ price \in Nat /\ Cost \in Nat /\ W \in Nat
  BY <1>5, Limits, WholeIs, RiskAssumption DEF Placed, Position
<1>7. /\ Placed(p1) /\ Risk!Share(p1) <= Risk!Share(p)
      /\ Loss(p1) = Loss(p) - q * (p.entry - p.stop)
      /\ \A top \in Nat : Covered(p, top) => Covered(p1, top)
  BY <1>5, SoldPart
<1> HIDE DEF p1
<1>8. /\ held' \in Positions
      /\ HeatOf(held') = HeatOf(held) - Risk!Share(p) + Risk!Share(p1)
      /\ LossOf(held') = LossOf(held) - Loss(p) + Loss(p1)
      /\ held'[n] = p1 /\ \A m \in Names \ {n} : held'[m] = held[m]
  <2>1. held'[n] = p1 /\ \A m \in Names \ {n} : held'[m] = held[m]
    BY <1>2, <1>5 DEF Positions
  <2>2. QED
    BY <1>2, <1>5, <1>7, <2>1, Replaced
<1> DEFINE e == p.entry
           s == p.stop
           g == q * (price - e)
           c == q * Cost
<1>9. /\ g \in Int /\ c \in Nat /\ q * (price - e - Cost) = g - c /\ q * price \in Int
      /\ q * (e - s) \in Int /\ (price >= s => q * (e - s) + g >= 0)
  <2>1. e \in Nat /\ s \in Nat
    BY <1>6
  <2> HIDE DEF e, s
  <2>2. \A a, b \in Int : a * b \in Int /\ (a >= 0 /\ b >= 0 => a * b >= 0)
    OBVIOUS
  <2>3. q * (price - e - Cost) = q * (price - e) - q * Cost
    BY <1>6, <2>1
  <2>4. q * (e - s) + q * (price - e) = q * (price - s)
    BY <1>6, <2>1
  <2>5. price - e \in Int /\ e - s \in Int /\ price - s \in Int /\ q \in Int /\ price \in Int /\ Cost \in Int
    BY <1>6, <2>1
  <2>6. g \in Int /\ c \in Int /\ c >= 0 /\ q * (e - s) \in Int /\ q * price \in Int
    BY <1>6, <2>2, <2>5
  <2>7. price >= s => q * (price - s) >= 0
    BY <1>6, <2>1, <2>2, <2>5
  <2>8. QED
    BY <2>3, <2>4, <2>6, <2>7
<1>10. /\ cash' = cash + q * price /\ equity' = equity + (g - c) /\ daily' = daily + (g - c) /\ moved' = moved + g
       /\ streak' \in {streak + 1, 0}
  BY <1>4, <1>9
<1>11. slips' = slips \cup {x \in {"gapped"} : price < s}
  BY <1>4 DEF Risk!Excuse
<1> HIDE DEF g, c, e, s
<1>12. Typed'
  BY <1>1, <1>2, <1>8, <1>9, <1>10 DEF Within, Typed
<1>13. Costs'
  BY <1>2, <1>9, <1>10 DEF Within, Costs
<1>14. Hot'
  <2>1. HeatOf(held) \in Int /\ HeatOf(held) <= HeatLimit /\ Risk!Share(p) \in Int /\ Risk!Share(p1) \in Int /\ HeatLimit \in Int
    BY <1>2, <1>5, <1>7, SumsInt, HeatIs, ShareIs, Limits DEF Within, Hot
  <2>2. HeatOf(held') <= HeatLimit
    BY <1>7, <1>8, <2>1
  <2>3. QED
    BY <2>2, HeatIs DEF Hot
<1>15. Sound'
  <2>1. "slipped" \notin slips' => "slipped" \notin slips
    BY <1>11
  <2>2. \A m \in Names : Covered(held[m], basis)' <=> Covered(held'[m], basis)
    BY <1>1 DEF Covered, W
  <2>3. \A m \in Names : "slipped" \notin slips' => Covered(held'[m], basis)
    BY <1>2, <1>5, <1>7, <1>8, <2>1 DEF Within, Sound
  <2>4. QED
    BY <2>2, <2>3 DEF Sound
<1>16. Worst'
  <2>1. SUFFICES ASSUME slips' \cap {"slipped", "gapped"} = {}
                 PROVE  W * (Risk!Planned' - moved') <= basis * DayLimit + basis * HeatLimit + basis * Cardinality(Names)
    BY <1>1 DEF Worst, W
  <2>2. price >= s /\ slips \cap {"slipped", "gapped"} = {}
    <3>1. s \in Nat
      BY <1>6 DEF s
    <3>2. QED
      BY <1>6, <1>11, <2>1, <3>1
  <2>3. W * (LossOf(held) - moved) <= basis * DayLimit + basis * HeatLimit + basis * Cardinality(Names)
    BY <2>2, PlannedIs DEF Within, Worst
  <2> DEFINE l == LossOf(held)
             l1 == LossOf(held')
             x == q * (p.entry - p.stop)
  <2>4. l \in Int /\ l1 \in Int /\ x \in Int /\ x + g >= 0 /\ l1 = l - x
    <3>1. x \in Int /\ x + g >= 0
      BY <1>9, <2>2 DEF e, s
    <3>2. l \in Int /\ l1 \in Int
      BY <1>2, <1>8, SumsInt
    <3>3. Loss(p) \in Int
      <4>1. p.qty \in Int /\ p.entry - p.stop \in Int
        BY <1>5, <1>6 DEF Placed, Position
      <4>2. \A a, b \in Int : a * b \in Int
        OBVIOUS
      <4>3. QED
        BY <4>1, <4>2 DEF Loss
    <3>4. l1 = l - Loss(p) + Loss(p1) /\ Loss(p1) = Loss(p) - x
      BY <1>7, <1>8
    <3> HIDE DEF l, l1, x
    <3>5. QED
      BY <3>1, <3>2, <3>3, <3>4
  <2> HIDE DEF l, l1, x
  <2>5. l1 - moved' <= l - moved /\ l1 - moved' \in Int /\ l - moved \in Int
    BY <1>2, <1>9, <1>10, <2>4
  <2>6. W * (l1 - moved') <= W * (l - moved)
    BY <1>6, <2>5, Times
  <2> DEFINE a == W * (l1 - moved')
             b == W * (l - moved)
             top == basis * DayLimit + basis * HeatLimit + basis * Cardinality(Names)
  <2>7. a \in Int /\ b \in Int /\ top \in Int
    <3>1. \A i, j \in Int : i * j \in Int
      OBVIOUS
    <3>2. DayLimit \in Int /\ HeatLimit \in Int /\ Cardinality(Names) \in Int
      BY Limits, FS_CardinalityType
    <3>3. QED
      BY <1>2, <1>6, <2>5, <3>1, <3>2
  <2>8. b <= top
    BY <2>3 DEF l
  <2>9. a <= b
    BY <2>6
  <2> HIDE DEF a, b, top
  <2>10. a <= top
    BY <2>7, <2>8, <2>9
  <2>11. QED
    BY <2>10, PlannedIs DEF a, top, l1
<1>17. Ordered' /\ Approved'
  BY <1>1 DEF Within, Ordered, Approved
<1>18. QED
  BY <1>12, <1>13, <1>14, <1>15, <1>16, <1>17 DEF Within

\* A step of the specification is a step of RiskBudget or leaves it alone.
Quiet == UNCHANGED <<equity, cash, power, daily, streak, peak, held, pc, order, view, moved, basis, orders, shocks, slips>>

LEMMA RiskMoves ==
  ASSUME [MCNext]_<<part, vars, risk>>
  PROVE  Risk!Next \/ Quiet
BY DEF MCNext, risk, Quiet

LEMMA NextKeeps == ASSUME Within, Risk!Next \/ Quiet PROVE Within'
<1>1. CASE Quiet
  <2>1. UNCHANGED <<equity, cash, power, daily, streak, held, pc, order, view, moved, basis, slips>>
    BY <1>1 DEF Quiet
  <2>2. Sound' /\ Worst' /\ Hot'
    BY <2>1, SameSound, SameWorst, SameSums DEF Within, Hot
  <2>3. Typed' /\ Ordered' /\ Approved' /\ Costs'
    BY <2>1, SameSums DEF Within, Typed, Ordered, Approved, Costs, W
  <2>4. QED
    BY <2>2, <2>3 DEF Within
<1>2. CASE Risk!Next
  BY <1>2, AssessKeeps, SizeKeeps, ApproveKeeps, RefuseKeeps, FillKeeps, ExitKeeps, SyncKeeps, ResetKeeps DEF Risk!Next
<1>3. QED
  BY <1>1, <1>2

LEMMA AlwaysWithin == MCSpec => []Within
<1>1. MCInit => Within
  BY Starts DEF MCInit
<1>2. Within /\ [MCNext]_<<part, vars, risk>> => Within'
  BY NextKeeps, RiskMoves
<1>3. QED
  BY <1>1, <1>2, PTL DEF MCSpec

\* For any instruments, limits and prices, and any number of entries, partial exits,
\* resets and copies of the cash: what is lost if every open position is sold at its
\* stop is within the heat limit, which no order was sized to exceed, unless a
\* purchase was dearer than its signal.
THEOREM HeatTrueHolds == MCSpec => []HeatTrue
<1>1. Within => HeatTrue
  BY HeatTrueFrom DEF Within, HeatTrue
<1>2. QED
  BY <1>1, AlwaysWithin, PTL

\* For the same: what the day has lost and has still to lose is within the daily and
\* the heat limit together, unless a purchase was dearer than its signal or a sale
\* was below its stop.
THEOREM WorstDayHolds == MCSpec => []WorstDay
<1>1. Within => WorstDay
  BY WorstDayFrom DEF Within, WorstDay
<1>2. QED
  BY <1>1, AlwaysWithin, PTL

-----------------------------------------------------------------------------
\* An order that is sized while the view is true is within the engine's limits.
LEMMA SizePasses ==
  ASSUME Within, Risk!Size, view = Risk!View
  PROVE  (Risk!WithinTrade(view) /\ Risk!WithinHeat(view) /\ Risk!WithinDay(view))'
<1>1. pc = "assessed" /\ Risk!Basis > 0 /\ view' = view /\ Typed /\ Hot
  BY DEF Risk!Size, Within
<1>2. /\ order \in [name : Names, stop : 0..(Signal - 1), target : Stops \cup Targets \cup {0}, qty : Nat, risk : Nat]
      /\ Risk!Basis \in Nat /\ Risk!Heat \in Int /\ daily \in Int
  BY <1>1, BasisNat, TypedSums DEF Typed
<1>3. PICK factor \in {1, 2} :
        LET q == Risk!Sized(order.stop, factor)
        IN  order' = [order EXCEPT !.qty = q, !.risk = Risk!Rounded(q * (Signal - order.stop) * Risk!Whole, Risk!Basis)]
  BY DEF Risk!Size
<1> DEFINE q == Risk!Sized(order.stop, factor)
           e == Risk!Basis
           h == Risk!Heat
           y == Risk!Room(e, daily)
           b == Risk!Budget(factor)
           s == order.stop
           u == q * ((Signal - s) * W)
           v == q * (Signal - s + Cost) * W
<1>4. order'.qty = q /\ order'.stop = s
  BY <1>2, <1>3
<1>5. view'.equity = e /\ view'.heat = h /\ view'.day = daily
  BY <1>1 DEF Risk!View
<1>6. q \in Nat /\ v <= b /\ u <= v
  BY <1>1, <1>2, SizedCovered
<1>7. b \in Nat /\ b <= e * TradeLimit /\ b <= e * (HeatLimit - h) /\ b <= y
  BY <1>1, BudgetIs DEF Hot
<1>8. y \in Nat /\ e \in Nat /\ h \in Int /\ s \in Int /\ Signal \in Int /\ Cost \in Int /\ W \in Int
      /\ TradeLimit \in Int /\ HeatLimit \in Int
  <2>1. y \in Nat
    BY <1>2, RoomIs
  <2>2. Signal \in Nat
    BY Limits
  <2>3. s \in Int
    BY <1>2, <2>2
  <2>4. Cost \in Int /\ TradeLimit \in Int /\ HeatLimit \in Int
    BY Limits
  <2>5. W \in Int
    BY WholeIs
  <2>6. QED
    BY <1>2, <2>1, <2>2, <2>3, <2>4, <2>5
<1>9. /\ (Risk!WithinTrade(view))' <=> q * (Signal - s) * W <= e * TradeLimit
      /\ (Risk!WithinHeat(view))' <=> h * e + q * (Signal - s) * W <= e * HeatLimit
      /\ (Risk!WithinDay(view))' <=> v <= y
  <2>1. (Risk!WithinTrade(view))' <=> order'.qty * (Signal - order'.stop) * Risk!Whole <= view'.equity * TradeLimit
    BY DEF Risk!WithinTrade, Risk!Whole
  <2>2. (Risk!WithinHeat(view))' <=> view'.heat * view'.equity + order'.qty * (Signal - order'.stop) * Risk!Whole <= view'.equity * HeatLimit
    BY DEF Risk!WithinHeat, Risk!Whole
  <2>3. (Risk!WithinDay(view))' <=> order'.qty * (Signal - order'.stop + Cost) * Risk!Whole <= Risk!Room(view'.equity, view'.day)
    BY DEF Risk!WithinDay, Risk!Whole, Risk!Room
  <2> HIDE DEF q, e, h, y, b, s
  <2>4. y = Risk!Room(e, daily)
    BY DEF y, e
  <2>5. QED
    BY <1>4, <1>5, <2>1, <2>2, <2>3, <2>4 DEF W
<1> HIDE DEF q, e, h, y, b, s
<1>10. q * (Signal - s) * W = u
  BY <1>6, <1>8
<1>11. e * (HeatLimit - h) = e * HeatLimit - h * e
  BY <1>8
<1>12. /\ u \in Int /\ v \in Int
       /\ e * TradeLimit \in Int /\ e * HeatLimit \in Int /\ h * e \in Int
  <2>1. \A i, j \in Int : i * j \in Int
    OBVIOUS
  <2>2. Signal - s \in Int /\ Signal - s + Cost \in Int /\ q \in Int
    BY <1>6, <1>8
  <2>3. (Signal - s) * W \in Int /\ q * (Signal - s + Cost) \in Int
    BY <1>8, <2>1, <2>2
  <2>4. QED
    BY <1>8, <2>1, <2>2, <2>3
<1> HIDE DEF u, v
<1> DEFINE t == e * TradeLimit
           l == e * HeatLimit
           k == h * e
<1>13. u <= v /\ v <= b /\ b <= t /\ b <= l - k /\ b <= y
  BY <1>6, <1>7, <1>11
<1>14. t \in Int /\ l \in Int /\ k \in Int
  BY <1>12
<1> HIDE DEF t, l, k
<1>15. u <= t /\ k + u <= l /\ v <= y
  BY <1>7, <1>8, <1>12, <1>13, <1>14
<1>16. QED
  BY <1>9, <1>10, <1>15 DEF t, l, k

\* For the same: an order that is sized while the risk engine's view is still true is
\* within the engine's limits of the trade, of the heat and of the day.
THEOREM SizedPassesHolds == MCSpec => SizedPasses
<1> DEFINE Passes == Risk!Size /\ view = Risk!View =>
                       (Risk!WithinTrade(view) /\ Risk!WithinHeat(view) /\ Risk!WithinDay(view))'
<1>1. Within /\ [MCNext]_<<part, vars, risk>> => [Passes]_Risk!vars
  BY SizePasses
<1>2. QED
  BY <1>1, AlwaysWithin, PTL DEF MCSpec, SizedPasses, Risk!SizedPasses

\* A halting streak of losses with nothing held lets nothing be bought.
THEOREM StreakLocksHolds == MCSpec => StreakLocks
<1> DEFINE Locks == streak >= HaltAfter /\ Risk!Open = {} => Risk!Open' = {} /\ streak' = streak
<1>1. ASSUME Within, Risk!Next \/ Quiet, streak >= HaltAfter, Risk!Open = {}
      PROVE  Risk!Open' = {} /\ streak' = streak
  <2>1. Risk!Open' = {n \in Names : held'[n].qty > 0}
    BY DEF Risk!Open
  <2>2. SUFFICES held' = held /\ streak' = streak
    BY <1>1, <2>1 DEF Risk!Open
  <2>3. CASE Quiet
    BY <2>3 DEF Quiet
  <2>4. ~Risk!Fill
    BY <1>1, Limits DEF Within, Typed, Approved, Risk!Fill
  <2>5. ~Risk!Exit
    BY <1>1 DEF Risk!Exit
  <2>6. CASE Risk!Assess \/ Risk!Size \/ Risk!Approve \/ Risk!Refuse
    BY <2>6 DEF Risk!Assess, Risk!Size, Risk!Approve, Risk!Refuse, Risk!ledger
  <2>7. CASE Risk!SyncCapital \/ Risk!ResetDay
    BY <2>7 DEF Risk!SyncCapital, Risk!ResetDay
  <2>8. QED
    BY <1>1, <2>3, <2>4, <2>5, <2>6, <2>7 DEF Risk!Next
<1>2. Within /\ [MCNext]_<<part, vars, risk>> => [Locks]_Risk!vars
  BY <1>1, RiskMoves
<1>3. QED
  BY <1>2, AlwaysWithin, PTL DEF MCSpec, StreakLocks, Risk!StreakLocks
=============================================================================
