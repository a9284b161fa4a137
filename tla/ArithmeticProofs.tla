--------------------------- MODULE ArithmeticProofs ---------------------------
(***************************************************************************)
(* What the operators the models compute with guarantee, for every         *)
(* argument.  The pool: the constant product never shrinks, a trade never  *)
(* empties the pool, and selling what was just bought never returns more   *)
(* than it cost.  The sums (SumFunction of the community modules, a fold   *)
(* over a set in an unspecified order): one element more or less, the      *)
(* type, the difference, the partition.                                    *)
(*                                                                         *)
(* The library states induction for predicates, which a prover of first-   *)
(* order logic cannot instantiate.  Here it is stated for sets: what holds *)
(* of the empty set, and of a set when it holds without any one of its     *)
(* elements, holds of every subset of a finite set.                        *)
(***************************************************************************)
EXTENDS Amm, FiniteSetsExt, FiniteSetTheorems, TLAPS

-------------------------------------------------------------------------------
(* The pool.                                                               *)

LEMMA Quotient ==
  ASSUME NEW n \in Nat, NEW d \in Nat \ {0}
  PROVE  /\ n \div d \in Nat
         /\ (n \div d) * d <= n
BY Z3

LEMMA ProductNat ==
  ASSUME NEW a \in Nat, NEW b \in Nat
  PROVE  a * b \in Nat
BY SMT

\* What one trade pays out of a reserve of y, dx being paid into one of x.
LEMMA Payout ==
  ASSUME NEW x \in Nat \ {0}, NEW y \in Nat \ {0}, NEW dx \in Nat \ {0}
  PROVE  LET out == (y * dx) \div (x + dx)
         IN  /\ out \in Nat
             /\ out < y
             /\ x * y <= (x + dx) * (y - out)
<1> DEFINE out == (y * dx) \div (x + dx)
<1>1. y * dx \in Nat /\ x + dx \in Nat \ {0}
  BY ProductNat
<1>2. out \in Nat /\ out * (x + dx) <= y * dx
  BY <1>1, Quotient
<1>3. (x + dx) * (y - out) = x * y + dx * y - out * (x + dx)
  BY <1>1, <1>2, Z3
<1>4. x * y <= (x + dx) * (y - out)
  <2> HIDE DEF out
  <2> QED BY <1>2, <1>3, Z3
<1>5. out < y
  <2> HIDE DEF out
  <2>1. SUFFICES ASSUME y <= out PROVE FALSE
    BY <1>2
  <2>2. (x + dx) * (y - out) <= 0
    BY <1>2, <2>1, Z3
  <2>3. x * y > 0
    BY Z3
  <2> QED BY <1>4, <1>2, <2>2, <2>3, Z3
<1> QED BY <1>2, <1>4, <1>5

\* A buy leaves alpha in the pool, and the product of the reserves does not
\* fall: rounding favours the pool (buy_alpha).
THEOREM BuyKeepsProduct ==
  ASSUME NEW x \in Nat \ {0}, NEW y \in Nat \ {0}, NEW dx \in Nat
  PROVE  /\ BuyAlpha(dx, x, y) < y
         /\ x * y <= (x + dx) * (y - BuyAlpha(dx, x, y))
<1>1. CASE dx = 0
  BY <1>1 DEF BuyAlpha
<1>2. CASE dx > 0
  BY <1>2, Payout DEF BuyAlpha, LivePool
<1> QED BY <1>1, <1>2

\* A sale leaves TAO in the pool, and the product does not fall (sell_alpha).
THEOREM SaleKeepsProduct ==
  ASSUME NEW x \in Nat \ {0}, NEW y \in Nat \ {0}, NEW da \in Nat
  PROVE  /\ SellTao(da, x, y) < x
         /\ x * y <= (y + da) * (x - SellTao(da, x, y))
<1>1. CASE da = 0
  BY <1>1, Z3 DEF SellTao
<1>2. CASE da > 0
  <2> DEFINE out == (x * da) \div (y + da)
  <2>1. SellTao(da, x, y) = out
    BY <1>2 DEF SellTao, LivePool
  <2>2. out < x /\ y * x <= (y + da) * (x - out)
    BY <1>2, Payout
  <2>3. x * y = y * x
    BY Z3
  <2> HIDE DEF out
  <2> QED BY <2>1, <2>2, <2>3
<1> QED BY <1>1, <1>2

\* On an unchanged pool no round trip profits: whatever profit the log shows
\* comes from pools that moved (simulate_roundtrip).
THEOREM RoundTripLoses ==
  ASSUME NEW x \in Nat, NEW y \in Nat, NEW dx \in Nat
  PROVE  SellTao(BuyAlpha(dx, x, y), x, y) <= dx
<1>1. CASE BuyAlpha(dx, x, y) = 0 \/ ~LivePool(x, y)
  BY <1>1 DEF SellTao, BuyAlpha
<1>2. CASE BuyAlpha(dx, x, y) > 0 /\ LivePool(x, y)
  <2> DEFINE a == BuyAlpha(dx, x, y)
             t == SellTao(a, x, y)
  <2>1. x \in Nat \ {0} /\ y \in Nat \ {0} /\ dx \in Nat \ {0}
    BY <1>2 DEF LivePool, BuyAlpha
  <2>2. a = (y * dx) \div (x + dx)
    BY <1>2, <2>1 DEF BuyAlpha
  <2>3. a \in Nat /\ a * (x + dx) <= y * dx
    BY <2>1, <2>2, ProductNat, Quotient
  <2>4. t = (x * a) \div (y + a)
    BY <1>2 DEF SellTao
  <2>5. t \in Nat /\ t * (y + a) <= x * a
    BY <2>1, <2>3, <2>4, ProductNat, Quotient
  <2> HIDE DEF a, t
  <2>6. x * a <= dx * (y + a)
    BY <2>1, <2>3, Z3
  <2>7. t * (y + a) <= dx * (y + a)
    BY <2>1, <2>3, <2>5, <2>6, Z3
  <2>8. t <= dx
    BY <2>1, <2>3, <2>5, <2>7, Z3
  <2> QED BY <2>8 DEF a, t
<1>3. BuyAlpha(dx, x, y) \in Nat
  <2>1. CASE dx > 0 /\ LivePool(x, y)
    BY <2>1, ProductNat, Quotient DEF BuyAlpha, LivePool
  <2>2. CASE ~(dx > 0 /\ LivePool(x, y))
    BY <2>2 DEF BuyAlpha
  <2> QED BY <2>1, <2>2
<1> QED BY <1>1, <1>2, <1>3

LEMMA QuotientNext ==
  ASSUME NEW n \in Nat, NEW d \in Nat \ {0}
  PROVE  n < (n \div d + 1) * d
BY Z3

\* The quotient is the greatest number whose product stays below.
LEMMA QuotientGreatest ==
  ASSUME NEW n \in Nat, NEW d \in Nat \ {0}, NEW q \in Nat, q * d <= n
  PROVE  q <= n \div d
<1> DEFINE p == n \div d
<1>1. p \in Nat /\ n < (p + 1) * d
  BY Quotient, QuotientNext
<1> HIDE DEF p
<1>2. q <= p
  <2> SUFFICES ASSUME q >= p + 1 PROVE FALSE
    BY <1>1
  <2>1. q * d >= (p + 1) * d
    BY <1>1, Z3
  <2>2. q * d \in Nat /\ (p + 1) * d \in Nat
    BY <1>1, ProductNat
  <2> QED
    BY <1>1, <2>1, <2>2
<1> QED
  BY <1>2 DEF p

\* A round trip with at most 2% of the pool costs less than 4%, where units
\* are so small that rounding does not matter.
LEMMA RoundTripKeeps ==
  ASSUME NEW x \in Nat \ {0}, NEW y \in Nat \ {0}, NEW dx \in Nat \ {0},
         50 * dx <= x, 650 * (y + x + dx) <= y * dx
  PROVE  24 * dx < 25 * SellTao(BuyAlpha(dx, x, y), x, y)
<1> DEFINE a == (y * dx) \div (x + dx)
           v == (x * a) \div (y + a)
           S == x + dx
           Y == y * dx
<1>1. S \in Nat \ {0} /\ Y \in Nat /\ a \in Nat
  BY ProductNat, Quotient
<1>2. a * S <= Y /\ Y < (a + 1) * S
  BY <1>1, Quotient, QuotientNext
<1>3. x * a \in Nat /\ y + a \in Nat \ {0}
  BY <1>1, ProductNat
<1>4. v \in Nat /\ x * a < (v + 1) * (y + a)
  BY <1>3, Quotient, QuotientNext
<1>5. BuyAlpha(dx, x, y) = a
  BY DEF BuyAlpha, LivePool
<1>6. a > 0
  <2>1. Y >= S
    BY DEF S, Y
  <2> SUFFICES ASSUME a = 0 PROVE FALSE
    BY <1>1
  <2>2. (0 + 1) * S = S
    BY <1>1
  <2> HIDE DEF a, S, Y
  <2> QED
    BY <1>1, <1>2, <2>1, <2>2
<1>7. SellTao(a, x, y) = v
  BY <1>6 DEF SellTao, LivePool
<1>8. S = x + dx /\ Y = y * dx /\ 650 * (y + S) <= Y
  OBVIOUS
<1> HIDE DEF a, v, S, Y
<1>9. x * a * S < (v + 1) * (y + a) * S
  BY <1>1, <1>3, <1>4, Z3
<1>10. (v + 1) * (y + a) * S <= (v + 1) * (y * S + Y)
  <2>1. (y + a) * S = y * S + a * S
    BY <1>1, Z3
  <2>2. (y + a) * S <= y * S + Y /\ (y + a) * S \in Nat /\ y * S + Y \in Nat
    BY <1>1, <1>2, <2>1, ProductNat, Z3
  <2>3. \A k, m, n \in Nat : m <= n => k * m <= k * n
    BY Z3
  <2>4. (v + 1) * ((y + a) * S) <= (v + 1) * (y * S + Y)
    BY <1>4, <2>2, <2>3
  <2>5. (v + 1) * ((y + a) * S) = (v + 1) * (y + a) * S
    BY <1>1, <1>4, Z3
  <2> QED
    BY <2>4, <2>5
<1>11. 25 * (y * S + Y) <= 26 * (x * y)
  <2>1. y * S + Y = y * (x + 2 * dx)
    BY <1>8, Z3
  <2>2. 25 * (x + 2 * dx) <= 26 * x
    OBVIOUS
  <2>3. \A k, m, n \in Nat : m <= n => k * m <= k * n
    BY Z3
  <2>4. y * (25 * (x + 2 * dx)) <= y * (26 * x)
    BY <2>2, <2>3
  <2>5. y * (25 * (x + 2 * dx)) = 25 * (y * (x + 2 * dx)) /\ y * (26 * x) = 26 * (x * y)
    BY Z3
  <2> QED
    BY <2>1, <2>4, <2>5
<1>12. x * (Y - S) < x * a * S
  <2>1. Y - S < a * S
    <3>1. (a + 1) * S = a * S + S /\ a * S \in Nat
      BY <1>1, Z3
    <3> QED
      BY <1>1, <1>2, <3>1
  <2>2. x * (Y - S) < x * (a * S)
    BY <1>1, <2>1, Z3
  <2>3. x * (a * S) = x * a * S
    BY <1>1, Z3
  <2> QED
    BY <2>2, <2>3
<1>13. 25 * (Y - S) < 26 * ((v + 1) * y)
  <2> DEFINE w == v + 1
             z == y * S + Y
  <2>1. w \in Nat /\ z \in Nat /\ x * (Y - S) < w * z /\ 25 * z <= 26 * (x * y)
    <3>1. z \in Nat
      BY <1>1, ProductNat
    <3>2. x * (Y - S) \in Int /\ x * a * S \in Int /\ (v + 1) * (y + a) * S \in Int
          /\ (v + 1) * (y * S + Y) \in Int
      BY <1>1, <1>4, Z3
    <3> QED
      BY <1>4, <1>9, <1>10, <1>11, <1>12, <3>1, <3>2
  <2> HIDE DEF z
  <2>2. 25 * (w * z) <= 26 * (x * (w * y))
    <3>1. \A k, m, n \in Nat : m <= n => k * m <= k * n
      BY Z3
    <3>2. 25 * z \in Nat /\ 26 * (x * y) \in Nat
      BY <2>1, ProductNat
    <3>3. w * (25 * z) <= w * (26 * (x * y))
      BY <2>1, <3>1, <3>2
    <3>4. w * (25 * z) = 25 * (w * z) /\ w * (26 * (x * y)) = 26 * (x * (w * y))
      BY <2>1, Z3
    <3> QED
      BY <3>3, <3>4
  <2> HIDE DEF w
  <2>3. x * (25 * (Y - S)) < x * (26 * (w * y))
    <3>1. x * (25 * (Y - S)) = 25 * (x * (Y - S)) /\ x * (26 * (w * y)) = 26 * (x * (w * y))
      BY <1>1, <2>1, Z3
    <3>2. x * (Y - S) \in Int /\ w * z \in Int /\ x * (w * y) \in Int
      BY <1>1, <2>1, Z3
    <3> QED
      BY <2>1, <2>2, <3>1, <3>2
  <2>4. \A k \in Nat \ {0}, m, n \in Int : k * m < k * n => m < n
    BY Z3
  <2>5. 25 * (Y - S) \in Int /\ 26 * (w * y) \in Int
    BY <1>1, <2>1, Z3
  <2>6. 25 * (Y - S) < 26 * (w * y)
    BY <2>3, <2>4, <2>5
  <2> QED
    BY <2>6 DEF w
<1>14. 24 * dx < 25 * v
  <2> SUFFICES ASSUME 25 * v <= 24 * dx PROVE FALSE
    BY <1>4
  <2>1. 25 * (v * y) <= 24 * Y
    <3>1. \A k, m, n \in Nat : m <= n => k * m <= k * n
      BY Z3
    <3>2. y * (25 * v) <= y * (24 * dx)
      BY <1>4, <3>1
    <3>3. y * (25 * v) = 25 * (v * y) /\ y * (24 * dx) = 24 * Y
      BY <1>4, <1>8, Z3
    <3> QED
      BY <3>2, <3>3
  <2>2. (v + 1) * y = v * y + y /\ v * y \in Nat
    BY <1>4, Z3
  <2> QED
    BY <1>1, <1>8, <1>13, <2>1, <2>2
<1> QED
  BY <1>5, <1>7, <1>14

\* A stake within max_tao_for_slippage raises the price by at most the cap.
THEOREM SlippageWithinCap ==
  ASSUME NEW x \in Nat, NEW y \in Nat, NEW pct \in Nat,
         NEW dx \in Nat \ {0}, dx <= MaxTaoForSlippage(pct, x, y)
  PROVE  100 * dx <= pct * x
<1>1. pct * x \in Nat
  BY ProductNat
<1>2. dx <= (pct * x) \div 100
  BY DEF MaxTaoForSlippage, Percent
<1>3. ((pct * x) \div 100) * 100 <= pct * x
  BY <1>1, Quotient
<1> QED BY <1>1, <1>2, <1>3

-------------------------------------------------------------------------------
(* Induction, and the recursion behind a sum.                              *)

\* The least-number principle, for a set instead of a predicate.
LEMMA LeastElement ==
  ASSUME NEW S, S \subseteq Nat, S # {}
  PROVE  \E n \in S : \A m \in S : n <= m
<1>1. PICK n \in S : \A m \in S : <<m, n>> \notin OpToRel(<, Nat)
  BY NatLessThanWellFounded, WFMin
<1>2. \A m \in S : ~ (m < n)
  BY <1>1 DEF OpToRel
<1> QED
  BY <1>2

\* Induction over the natural numbers; T is the set of the good ones.
LEMMA CountingUp ==
  ASSUME NEW T, 0 \in T, \A n \in Nat : n \in T => n + 1 \in T
  PROVE  Nat \subseteq T
<1> DEFINE bad == Nat \ T
<1> SUFFICES ASSUME bad # {} PROVE FALSE
  OBVIOUS
<1>1. PICK n \in bad : \A m \in bad : n <= m
  <2> HIDE DEF bad
  <2>1. bad \subseteq Nat
    BY DEF bad
  <2> QED
    BY <2>1, LeastElement
<1>2. n # 0 /\ n - 1 \in Nat /\ n - 1 \notin bad
  BY <1>1
<1>3. (n - 1) + 1 = n
  BY <1>1
<1> QED
  BY <1>2, <1>3

LEMMA GreatestElement ==
  ASSUME NEW N \in Nat, NEW S, S \subseteq 0 .. N, S # {}
  PROVE  Max(S) \in S /\ \A y \in S : Max(S) >= y
<1> DEFINE bounds == {m \in Nat : \A y \in S : m >= y}
<1>1. N \in bounds
  OBVIOUS
<1>2. PICK m \in bounds : \A k \in bounds : m <= k
  BY <1>1, LeastElement
<1>3. m \in S
  <2>1. SUFFICES ASSUME m \notin S PROVE FALSE
    OBVIOUS
  <2>2. \A y \in S : m > y /\ y \in Nat
    BY <2>1
  <2>3. PICK y \in S : TRUE
    OBVIOUS
  <2>4. m - 1 \in Nat /\ \A z \in S : m - 1 >= z
    BY <2>2, <2>3
  <2> QED
    BY <1>2, <2>4
<1>4. \E x \in S : \A y \in S : x >= y
  BY <1>3
<1> QED
  BY <1>4 DEF Max

LEMMA SmallestElement ==
  ASSUME NEW S, S \subseteq Nat, S # {}
  PROVE  Min(S) \in S /\ \A y \in S : Min(S) <= y
BY LeastElement DEF Min

\* Induction over the subsets of a finite set; T is the set of the good ones.
LEMMA SubsetInduction ==
  ASSUME NEW S, IsFiniteSet(S), NEW T, {} \in T,
         \A s \in SUBSET S : s # {} /\ (\A x \in s : s \ {x} \in T) => s \in T
  PROVE  SUBSET S \subseteq T
<1> SUFFICES ASSUME ~(SUBSET S \subseteq T) PROVE FALSE
  OBVIOUS
<1> DEFINE bad == (SUBSET S) \ T
           sizes == {Cardinality(s) : s \in bad}
<1>1. \A s \in SUBSET S : IsFiniteSet(s) /\ Cardinality(s) \in Nat
  BY FS_Subset, FS_CardinalityType
<1>2. sizes \subseteq Nat /\ sizes # {}
  BY <1>1
<1>3. PICK n \in sizes : \A m \in sizes : n <= m
  BY <1>2, LeastElement
<1>4. PICK s \in bad : Cardinality(s) = n
  BY <1>3
<1>5. \A x \in s : s \ {x} \in SUBSET S /\ Cardinality(s \ {x}) = Cardinality(s) - 1
  BY <1>1, <1>4, FS_RemoveElement
<1>6. \A x \in s : s \ {x} \in T
  BY <1>1, <1>3, <1>4, <1>5
<1> QED
  BY <1>4, <1>6

Pick(s) == CHOOSE x \in s : TRUE

\* g is the recursive function the sum over S is read from.
Solves(f, S, g) ==
  g = [s \in SUBSET S |-> IF s = {} THEN 0 ELSE f[Pick(s)] + g[s \ {Pick(s)}]]

LEMMA Unfolds ==
  ASSUME NEW f, NEW S, NEW g, Solves(f, S, g), NEW s \in SUBSET S
  PROVE  g[s] = IF s = {} THEN 0 ELSE f[Pick(s)] + g[s \ {Pick(s)}]
BY DEF Solves

\* What the definition of the fold says, unfolded.
LEMMA SumIsSolution ==
  ASSUME NEW f, NEW S
  PROVE  SumFunctionOnSet(f, S) = (CHOOSE g : Solves(f, S, g))[S]
BY DEF SumFunctionOnSet, FoldFunctionOnSet, MapThenFoldSet, Solves, Pick

\* The solutions for two sets agree where both are defined.
LEMMA SolutionsAgree ==
  ASSUME NEW f, NEW S, NEW R, NEW g, NEW h, Solves(f, S, g), Solves(f, R, h),
         NEW Q, IsFiniteSet(Q), Q \subseteq S, Q \subseteq R
  PROVE  g[Q] = h[Q]
<1> DEFINE T == {s \in SUBSET Q : g[s] = h[s]}
<1>1. {} \in T
  BY Unfolds
<1>2. ASSUME NEW s \in SUBSET Q, s # {}, \A x \in s : s \ {x} \in T
      PROVE  s \in T
  <2>1. Pick(s) \in s
    BY <1>2 DEF Pick
  <2>2. g[s \ {Pick(s)}] = h[s \ {Pick(s)}]
    BY <1>2, <2>1
  <2>3. s \in SUBSET S /\ s \in SUBSET R
    OBVIOUS
  <2>4. g[s] = f[Pick(s)] + g[s \ {Pick(s)}] /\ h[s] = f[Pick(s)] + h[s \ {Pick(s)}]
    BY <1>2, <2>3, Unfolds
  <2> QED
    BY <2>2, <2>4
<1> HIDE DEF T
<1>3. SUBSET Q \subseteq T
  BY <1>1, <1>2, SubsetInduction
<1> QED
  BY <1>3 DEF T

\* Of the solutions for the sets with one element less, one for the whole.
LEMMA SolutionExists ==
  ASSUME NEW f, NEW S, IsFiniteSet(S)
  PROVE  \E g : Solves(f, S, g)
<1> DEFINE T == {s \in SUBSET S : \E g : Solves(f, s, g)}
<1>1. {} \in T
  <2> DEFINE g == [s \in SUBSET {} |-> 0]
  <2>1. Solves(f, {}, g)
    BY DEF Solves
  <2> QED
    BY <2>1
<1>2. ASSUME NEW s \in SUBSET S, s # {}, \A x \in s : s \ {x} \in T
      PROVE  s \in T
  <2> DEFINE H == [x \in s |-> CHOOSE g : Solves(f, s \ {x}, g)]
             p == Pick(s)
             value(t) == IF t = {} THEN 0
                         ELSE IF t = s THEN f[p] + H[p][s \ {p}]
                         ELSE H[Pick(s \ t)][t]
             g == [t \in SUBSET s |-> value(t)]
  <2>1. \A x \in s : Solves(f, s \ {x}, H[x])
    BY <1>2
  <2>2. p \in s
    BY <1>2 DEF Pick
  <2>3. \A x \in s : IsFiniteSet(s \ {x})
    BY FS_Subset
  <2> HIDE DEF H, p
  <2>4. \A x \in s : \A t \in SUBSET (s \ {x}) : H[x][t] = value(t)
    <3> SUFFICES ASSUME NEW x \in s, NEW t \in SUBSET (s \ {x})
                 PROVE  H[x][t] = value(t)
      OBVIOUS
    <3>1. CASE t = {}
      BY <2>1, <3>1, Unfolds
    <3>2. CASE t # {}
      <4> DEFINE y == Pick(s \ t)
      <4>1. t # s /\ y \in s /\ y \notin t
        BY DEF Pick
      <4> HIDE DEF y
      <4>2. H[x][t] = H[y][t]
        <5>1. Solves(f, s \ {x}, H[x]) /\ Solves(f, s \ {y}, H[y])
          BY <2>1, <4>1
        <5>2. IsFiniteSet(t) /\ t \subseteq s \ {x} /\ t \subseteq s \ {y}
          BY <4>1, FS_Subset
        <5> QED
          BY <5>1, <5>2, SolutionsAgree
      <4> QED
        BY <3>2, <4>1, <4>2 DEF y
    <3> QED
      BY <3>1, <3>2
  <2>5. \A t \in SUBSET s : g[t] = IF t = {} THEN 0 ELSE f[Pick(t)] + g[t \ {Pick(t)}]
    <3> SUFFICES ASSUME NEW t \in SUBSET s
                 PROVE  g[t] = IF t = {} THEN 0 ELSE f[Pick(t)] + g[t \ {Pick(t)}]
      OBVIOUS
    <3>1. CASE t = {}
      BY <3>1
    <3>2. CASE t = s
      <4>1. s \ {p} \in SUBSET (s \ {p}) /\ s \ {p} \in SUBSET s
        OBVIOUS
      <4>2. value(s \ {p}) = H[p][s \ {p}]
        BY <2>2, <2>4, <4>1
      <4>3. g[s \ {p}] = H[p][s \ {p}]
        BY <4>1, <4>2
      <4> QED
        BY <1>2, <3>2, <4>3 DEF p
    <3>3. CASE t # {} /\ t # s
      <4>1. PICK x \in s : x \notin t
        BY <3>3
      <4>2. t \in SUBSET (s \ {x}) /\ t \ {Pick(t)} \in SUBSET (s \ {x})
            /\ t \ {Pick(t)} \in SUBSET s
        BY <4>1
      <4>3. H[x][t] = f[Pick(t)] + H[x][t \ {Pick(t)}]
        <5>1. Solves(f, s \ {x}, H[x])
          BY <2>1
        <5> QED
          BY <3>3, <4>2, <5>1, Unfolds
      <4>4. H[x][t] = value(t) /\ H[x][t \ {Pick(t)}] = value(t \ {Pick(t)})
        BY <2>4, <4>2
      <4>5. g[t] = value(t) /\ g[t \ {Pick(t)}] = value(t \ {Pick(t)})
        BY <4>2
      <4> HIDE DEF g, value
      <4> QED
        BY <3>3, <4>3, <4>4, <4>5
    <3> QED
      BY <3>1, <3>2, <3>3
  <2>6. Solves(f, s, g)
    BY <2>5 DEF Solves
  <2> QED
    BY <2>6
<1> HIDE DEF T
<1>3. S \in T
  BY <1>1, <1>2, SubsetInduction
<1> QED
  BY <1>3 DEF T

LEMMA SumSolves ==
  ASSUME NEW f, NEW S, IsFiniteSet(S)
  PROVE  \E g : Solves(f, S, g) /\ SumFunctionOnSet(f, S) = g[S]
BY SolutionExists, SumIsSolution

LEMMA SumOfNone ==
  ASSUME NEW f
  PROVE  SumFunctionOnSet(f, {}) = 0
<1>1. PICK g : Solves(f, {}, g) /\ SumFunctionOnSet(f, {}) = g[{}]
  BY SumSolves, FS_EmptySet
<1> QED
  BY <1>1, Unfolds

LEMMA SumPicks ==
  ASSUME NEW f, NEW S, IsFiniteSet(S), S # {}
  PROVE  SumFunctionOnSet(f, S) = f[Pick(S)] + SumFunctionOnSet(f, S \ {Pick(S)})
<1> DEFINE R == S \ {Pick(S)}
<1>1. PICK g : Solves(f, S, g) /\ SumFunctionOnSet(f, S) = g[S]
  BY SumSolves
<1>2. IsFiniteSet(R)
  BY FS_Subset
<1>3. PICK h : Solves(f, R, h) /\ SumFunctionOnSet(f, R) = h[R]
  BY <1>2, SumSolves
<1>4. g[R] = h[R]
  BY <1>1, <1>2, <1>3, SolutionsAgree
<1>5. S \in SUBSET S
  OBVIOUS
<1> QED
  BY <1>1, <1>3, <1>4, <1>5, Unfolds

LEMMA SumIsInt ==
  ASSUME NEW f, NEW S, IsFiniteSet(S), \A x \in S : f[x] \in Int
  PROVE  SumFunctionOnSet(f, S) \in Int
<1> DEFINE T == {s \in SUBSET S : SumFunctionOnSet(f, s) \in Int}
<1>1. {} \in T
  BY SumOfNone
<1>2. ASSUME NEW s \in SUBSET S, s # {}, \A x \in s : s \ {x} \in T
      PROVE  s \in T
  <2>1. IsFiniteSet(s) /\ Pick(s) \in s
    BY <1>2, FS_Subset DEF Pick
  <2>2. SumFunctionOnSet(f, s) = f[Pick(s)] + SumFunctionOnSet(f, s \ {Pick(s)})
    BY <1>2, <2>1, SumPicks
  <2>3. f[Pick(s)] \in Int /\ SumFunctionOnSet(f, s \ {Pick(s)}) \in Int
    BY <1>2, <2>1
  <2> QED
    BY <2>2, <2>3
<1> HIDE DEF T
<1>3. SUBSET S \subseteq T
  BY <1>1, <1>2, SubsetInduction
<1> QED
  BY <1>3 DEF T

\* Any element may be taken out first.
LEMMA SumWithout ==
  ASSUME NEW f, NEW S, IsFiniteSet(S), \A x \in S : f[x] \in Int, NEW e \in S
  PROVE  SumFunctionOnSet(f, S) = f[e] + SumFunctionOnSet(f, S \ {e})
<1> DEFINE Out(s) == \A x \in s : SumFunctionOnSet(f, s) = f[x] + SumFunctionOnSet(f, s \ {x})
           T == {s \in SUBSET S : Out(s)}
<1>1. {} \in T
  OBVIOUS
<1>2. ASSUME NEW s \in SUBSET S, s # {}, \A x \in s : s \ {x} \in T
      PROVE  s \in T
  <2> DEFINE p == Pick(s)
  <2>1. IsFiniteSet(s) /\ p \in s
    BY <1>2, FS_Subset DEF Pick
  <2>2. SumFunctionOnSet(f, s) = f[p] + SumFunctionOnSet(f, s \ {p})
    BY <1>2, <2>1, SumPicks
  <2> HIDE DEF p
  <2>3. ASSUME NEW x \in s, x # p
        PROVE  SumFunctionOnSet(f, s) = f[x] + SumFunctionOnSet(f, s \ {x})
    <3>1. Out(s \ {p}) /\ Out(s \ {x})
      BY <1>2, <2>1
    <3>2. (s \ {p}) \ {x} = s \ {p, x} /\ (s \ {x}) \ {p} = s \ {p, x}
      OBVIOUS
    <3>3. /\ SumFunctionOnSet(f, s \ {p}) = f[x] + SumFunctionOnSet(f, s \ {p, x})
          /\ SumFunctionOnSet(f, s \ {x}) = f[p] + SumFunctionOnSet(f, s \ {p, x})
      BY <2>1, <2>3, <3>1, <3>2
    <3>4. f[x] \in Int /\ f[p] \in Int /\ SumFunctionOnSet(f, s \ {p, x}) \in Int
      <4>1. IsFiniteSet(s \ {p, x})
        BY <2>1, FS_Subset
      <4> QED
        BY <2>1, <2>3, <4>1, SumIsInt
    <3> QED
      BY <2>2, <3>3, <3>4
  <2> QED
    BY <2>2, <2>3
<1> HIDE DEF T
<1>3. SUBSET S \subseteq T
  BY <1>1, <1>2, SubsetInduction
<1> QED
  BY <1>3 DEF T

\* A sum sees the values on its set only.
LEMMA SumsAgree ==
  ASSUME NEW f, NEW g, NEW S, IsFiniteSet(S), \A x \in S : f[x] = g[x]
  PROVE  SumFunctionOnSet(f, S) = SumFunctionOnSet(g, S)
<1> DEFINE T == {s \in SUBSET S : SumFunctionOnSet(f, s) = SumFunctionOnSet(g, s)}
<1>1. {} \in T
  BY SumOfNone
<1>2. ASSUME NEW s \in SUBSET S, s # {}, \A x \in s : s \ {x} \in T
      PROVE  s \in T
  <2>1. IsFiniteSet(s) /\ Pick(s) \in s
    BY <1>2, FS_Subset DEF Pick
  <2>2. /\ SumFunctionOnSet(f, s) = f[Pick(s)] + SumFunctionOnSet(f, s \ {Pick(s)})
        /\ SumFunctionOnSet(g, s) = g[Pick(s)] + SumFunctionOnSet(g, s \ {Pick(s)})
    BY <1>2, <2>1, SumPicks
  <2>3. SumFunctionOnSet(f, s \ {Pick(s)}) = SumFunctionOnSet(g, s \ {Pick(s)})
    BY <1>2, <2>1
  <2> QED
    BY <2>1, <2>2, <2>3
<1> HIDE DEF T
<1>3. SUBSET S \subseteq T
  BY <1>1, <1>2, SubsetInduction
<1> QED
  BY <1>3 DEF T

LEMMA SumIsNat ==
  ASSUME NEW f, NEW S, IsFiniteSet(S), \A x \in S : f[x] \in Nat
  PROVE  SumFunctionOnSet(f, S) \in Nat
<1> DEFINE T == {s \in SUBSET S : SumFunctionOnSet(f, s) \in Nat}
<1>1. {} \in T
  BY SumOfNone
<1>2. ASSUME NEW s \in SUBSET S, s # {}, \A x \in s : s \ {x} \in T
      PROVE  s \in T
  <2>1. IsFiniteSet(s) /\ Pick(s) \in s
    BY <1>2, FS_Subset DEF Pick
  <2>2. SumFunctionOnSet(f, s) = f[Pick(s)] + SumFunctionOnSet(f, s \ {Pick(s)})
    BY <1>2, <2>1, SumPicks
  <2>3. f[Pick(s)] \in Nat /\ SumFunctionOnSet(f, s \ {Pick(s)}) \in Nat
    BY <1>2, <2>1
  <2> QED
    BY <2>2, <2>3
<1> HIDE DEF T
<1>3. SUBSET S \subseteq T
  BY <1>1, <1>2, SubsetInduction
<1> QED
  BY <1>3 DEF T

LEMMA SumWith ==
  ASSUME NEW f, NEW S, IsFiniteSet(S), NEW e, e \notin S,
         \A x \in S \cup {e} : f[x] \in Int
  PROVE  SumFunctionOnSet(f, S \cup {e}) = f[e] + SumFunctionOnSet(f, S)
<1>1. IsFiniteSet(S \cup {e}) /\ e \in S \cup {e} /\ (S \cup {e}) \ {e} = S
  BY FS_AddElement
<1> QED
  BY <1>1, SumWithout

\* Term by term.
LEMMA SumOfDifference ==
  ASSUME NEW f, NEW g, NEW h, NEW S, IsFiniteSet(S),
         \A x \in S : f[x] \in Int /\ g[x] \in Int /\ h[x] = f[x] - g[x]
  PROVE  SumFunctionOnSet(h, S) = SumFunctionOnSet(f, S) - SumFunctionOnSet(g, S)
<1> DEFINE Fits(s) ==
             SumFunctionOnSet(h, s) = SumFunctionOnSet(f, s) - SumFunctionOnSet(g, s)
           T == {s \in SUBSET S : Fits(s)}
<1>1. {} \in T
  BY SumOfNone
<1>2. ASSUME NEW s \in SUBSET S, s # {}, \A x \in s : s \ {x} \in T
      PROVE  s \in T
  <2> DEFINE p == Pick(s)
             r == s \ {p}
  <2>1. IsFiniteSet(s) /\ p \in s
    BY <1>2, FS_Subset DEF Pick
  <2>2. /\ SumFunctionOnSet(f, s) = f[p] + SumFunctionOnSet(f, r)
        /\ SumFunctionOnSet(g, s) = g[p] + SumFunctionOnSet(g, r)
        /\ SumFunctionOnSet(h, s) = h[p] + SumFunctionOnSet(h, r)
    BY <1>2, <2>1, SumPicks
  <2> HIDE DEF p
  <2>3. r \in SUBSET S /\ IsFiniteSet(r) /\ Fits(r)
    BY <1>2, <2>1, FS_Subset
  <2>4. SumFunctionOnSet(f, r) \in Int /\ SumFunctionOnSet(g, r) \in Int
    BY <2>3, SumIsInt
  <2>5. f[p] \in Int /\ g[p] \in Int /\ h[p] = f[p] - g[p]
    BY <2>1
  <2> HIDE DEF r
  <2>6. Fits(s)
    BY <2>2, <2>3, <2>4, <2>5
  <2> QED
    BY <2>6
<1> HIDE DEF T
<1>3. SUBSET S \subseteq T
  BY <1>1, <1>2, SubsetInduction
<1> QED
  BY <1>3 DEF T

\* Over two parts with nothing in common.
LEMMA SumOfParts ==
  ASSUME NEW f, NEW A, NEW B, IsFiniteSet(A), IsFiniteSet(B), A \cap B = {},
         \A x \in A \cup B : f[x] \in Int
  PROVE  SumFunctionOnSet(f, A \cup B) = SumFunctionOnSet(f, A) + SumFunctionOnSet(f, B)
<1> DEFINE Fits(s) ==
             SumFunctionOnSet(f, A \cup s) = SumFunctionOnSet(f, A) + SumFunctionOnSet(f, s)
           T == {s \in SUBSET B : Fits(s)}
<1>0. SumFunctionOnSet(f, A) \in Int
  BY SumIsInt
<1>1. {} \in T
  <2>1. Fits({})
    <3>1. A \cup {} = A
      OBVIOUS
    <3> QED
      BY <1>0, <3>1, SumOfNone
  <2> QED
    BY <2>1
<1>2. ASSUME NEW s \in SUBSET B, s # {}, \A x \in s : s \ {x} \in T
      PROVE  s \in T
  <2> DEFINE p == Pick(s)
             r == s \ {p}
  <2>1. IsFiniteSet(s) /\ p \in s
    BY <1>2, FS_Subset DEF Pick
  <2>2. SumFunctionOnSet(f, s) = f[p] + SumFunctionOnSet(f, r)
    BY <1>2, <2>1, SumPicks
  <2> HIDE DEF p
  <2>3. r \in SUBSET B /\ IsFiniteSet(r) /\ Fits(r)
    BY <1>2, <2>1, FS_Subset
  <2>4. SumFunctionOnSet(f, A \cup s) = f[p] + SumFunctionOnSet(f, A \cup r)
    <3>1. IsFiniteSet(A \cup s) /\ p \in A \cup s /\ (A \cup s) \ {p} = A \cup r
      BY <2>1, FS_Union
    <3> QED
      BY <3>1, SumWithout
  <2>5. SumFunctionOnSet(f, r) \in Int /\ f[p] \in Int
    BY <2>1, <2>3, SumIsInt
  <2> HIDE DEF r
  <2>6. Fits(s)
    BY <1>0, <2>2, <2>3, <2>4, <2>5
  <2> QED
    BY <2>6
<1> HIDE DEF T
<1>3. SUBSET B \subseteq T
  BY <1>1, <1>2, SubsetInduction
<1> QED
  BY <1>3 DEF T

LEMMA SumOfZeros ==
  ASSUME NEW f, NEW S, IsFiniteSet(S), \A x \in S : f[x] = 0
  PROVE  SumFunctionOnSet(f, S) = 0
<1> DEFINE T == {s \in SUBSET S : SumFunctionOnSet(f, s) = 0}
<1>1. {} \in T
  BY SumOfNone
<1>2. ASSUME NEW s \in SUBSET S, s # {}, \A x \in s : s \ {x} \in T
      PROVE  s \in T
  <2>1. IsFiniteSet(s) /\ Pick(s) \in s
    BY <1>2, FS_Subset DEF Pick
  <2>2. SumFunctionOnSet(f, s) = f[Pick(s)] + SumFunctionOnSet(f, s \ {Pick(s)})
    BY <1>2, <2>1, SumPicks
  <2>3. f[Pick(s)] = 0 /\ SumFunctionOnSet(f, s \ {Pick(s)}) = 0
    BY <1>2, <2>1
  <2> QED
    BY <2>2, <2>3
<1> HIDE DEF T
<1>3. SUBSET S \subseteq T
  BY <1>1, <1>2, SubsetInduction
<1> QED
  BY <1>3 DEF T

\* Every term the same.
LEMMA SumOfConstant ==
  ASSUME NEW f, NEW S, IsFiniteSet(S), NEW c \in Int, \A x \in S : f[x] = c
  PROVE  SumFunctionOnSet(f, S) = c * Cardinality(S)
<1> DEFINE Fits(s) == SumFunctionOnSet(f, s) = c * Cardinality(s)
           T == {s \in SUBSET S : Fits(s)}
<1>1. {} \in T
  <2>1. Cardinality({}) = 0 /\ c * 0 = 0
    BY FS_EmptySet
  <2> QED
    BY <2>1, SumOfNone
<1>2. ASSUME NEW s \in SUBSET S, s # {}, \A x \in s : s \ {x} \in T
      PROVE  s \in T
  <2> DEFINE p == Pick(s)
             r == s \ {p}
  <2>1. IsFiniteSet(s) /\ p \in s
    BY <1>2, FS_Subset DEF Pick
  <2>2. SumFunctionOnSet(f, s) = f[p] + SumFunctionOnSet(f, r)
    BY <1>2, <2>1, SumPicks
  <2>3. f[p] = c
    BY <2>1
  <2> HIDE DEF p
  <2>4. Fits(r) /\ IsFiniteSet(r) /\ Cardinality(r) = Cardinality(s) - 1
    BY <1>2, <2>1, FS_RemoveElement
  <2>5. Cardinality(s) \in Nat
    BY <2>1, FS_CardinalityType
  <2> HIDE DEF r
  <2>6. \A k \in Int : c + c * (k - 1) = c * k
    BY Z3
  <2>7. Fits(s)
    BY <2>2, <2>3, <2>4, <2>5, <2>6
  <2> QED
    BY <2>7
<1> HIDE DEF T
<1>3. SUBSET S \subseteq T
  BY <1>1, <1>2, SubsetInduction
<1> QED
  BY <1>3 DEF T

\* The same terms under other names.
LEMMA SumRenamed ==
  ASSUME NEW f, NEW g, NEW S, NEW R, IsFiniteSet(S), IsFiniteSet(R),
         NEW h \in [S -> R],
         \A x, y \in S : h[x] = h[y] => x = y,
         \A z \in R : \E x \in S : h[x] = z,
         \A x \in S : f[x] \in Int /\ g[h[x]] = f[x]
  PROVE  SumFunctionOnSet(f, S) = SumFunctionOnSet(g, R)
<1> DEFINE Image(s) == {h[x] : x \in s}
           Fits(s) == SumFunctionOnSet(f, s) = SumFunctionOnSet(g, Image(s))
           T == {s \in SUBSET S : Fits(s)}
<1>1. {} \in T
  <2>1. Image({}) = {}
    OBVIOUS
  <2>2. Fits({})
    BY <2>1, SumOfNone
  <2> QED
    BY <2>2
<1>2. ASSUME NEW s \in SUBSET S, s # {}, \A x \in s : s \ {x} \in T
      PROVE  s \in T
  <2>1. PICK e \in s : TRUE
    BY <1>2
  <2> DEFINE r == s \ {e}
  <2>2. IsFiniteSet(s) /\ e \in S /\ IsFiniteSet(Image(s))
    BY FS_Subset
  <2>3. SumFunctionOnSet(f, s) = f[e] + SumFunctionOnSet(f, r)
    BY <2>1, <2>2, SumWithout
  <2>4. h[e] \in Image(s) /\ Image(s) \ {h[e]} = Image(r)
    BY <2>1, <2>2
  <2>5. SumFunctionOnSet(g, Image(s)) = g[h[e]] + SumFunctionOnSet(g, Image(r))
    <3>1. \A z \in Image(s) : g[z] \in Int
      OBVIOUS
    <3> QED
      BY <2>2, <2>4, <3>1, SumWithout
  <2>6. Fits(r)
    BY <1>2, <2>1
  <2>7. g[h[e]] = f[e]
    BY <2>2
  <2>8. Fits(s)
    BY <2>3, <2>5, <2>6, <2>7
  <2> QED
    BY <2>8
<1>3. Fits(S)
  <2> HIDE DEF T
  <2>1. SUBSET S \subseteq T
    BY <1>1, <1>2, SubsetInduction
  <2> QED
    BY <2>1 DEF T
<1>4. Image(S) = R
  OBVIOUS
<1> QED
  BY <1>3, <1>4

\* Every term multiplied.
LEMMA SumScaled ==
  ASSUME NEW f, NEW g, NEW S, IsFiniteSet(S), NEW c \in Int,
         \A x \in S : f[x] \in Int /\ g[x] = c * f[x]
  PROVE  SumFunctionOnSet(g, S) = c * SumFunctionOnSet(f, S)
<1> DEFINE Fits(s) == SumFunctionOnSet(g, s) = c * SumFunctionOnSet(f, s)
           T == {s \in SUBSET S : Fits(s)}
<1>1. {} \in T
  BY SumOfNone
<1>2. ASSUME NEW s \in SUBSET S, s # {}, \A x \in s : s \ {x} \in T
      PROVE  s \in T
  <2> DEFINE p == Pick(s)
             r == s \ {p}
  <2>1. IsFiniteSet(s) /\ p \in s
    BY <1>2, FS_Subset DEF Pick
  <2>2. /\ SumFunctionOnSet(f, s) = f[p] + SumFunctionOnSet(f, r)
        /\ SumFunctionOnSet(g, s) = g[p] + SumFunctionOnSet(g, r)
    BY <1>2, <2>1, SumPicks
  <2>3. f[p] \in Int /\ g[p] = c * f[p]
    BY <2>1
  <2> HIDE DEF p
  <2>4. Fits(r) /\ SumFunctionOnSet(f, r) \in Int
    BY <1>2, <2>1, FS_Subset, SumIsInt
  <2> HIDE DEF r
  <2>5. \A k, l \in Int : c * k + c * l = c * (k + l)
    BY Z3
  <2>6. Fits(s)
    BY <2>2, <2>3, <2>4, <2>5
  <2> QED
    BY <2>6
<1> HIDE DEF T
<1>3. SUBSET S \subseteq T
  BY <1>1, <1>2, SubsetInduction
<1> QED
  BY <1>3 DEF T

\* Every term less.
LEMMA SumOfLess ==
  ASSUME NEW f, NEW g, NEW S, IsFiniteSet(S), S # {},
         \A x \in S : f[x] \in Int /\ g[x] \in Int /\ f[x] < g[x]
  PROVE  SumFunctionOnSet(f, S) < SumFunctionOnSet(g, S)
<1> DEFINE h == [x \in S |-> g[x] - f[x]]
<1>1. \A x \in S : h[x] \in Nat /\ h[x] > 0 /\ h[x] = g[x] - f[x]
  OBVIOUS
<1> HIDE DEF h
<1>2. SumFunctionOnSet(h, S) = SumFunctionOnSet(g, S) - SumFunctionOnSet(f, S)
  BY SumOfDifference, <1>1
<1>3. PICK e \in S : TRUE
  OBVIOUS
<1>4. /\ SumFunctionOnSet(h, S) = h[e] + SumFunctionOnSet(h, S \ {e})
      /\ IsFiniteSet(S \ {e})
  BY <1>1, FS_Subset, SumWithout
<1>5. SumFunctionOnSet(h, S \ {e}) \in Nat
  BY <1>1, <1>4, SumIsNat
<1>6. SumFunctionOnSet(f, S) \in Int /\ SumFunctionOnSet(g, S) \in Int
  BY SumIsInt
<1> QED
  BY <1>1, <1>2, <1>4, <1>5, <1>6

\* A weighted mean lies among its terms: if every ratio of a term of a to one
\* of b were below the ratio of the weighted sums, so would their mean be.
LEMMA MeanReached ==
  ASSUME NEW S, IsFiniteSet(S), S # {}, NEW w, NEW a, NEW b,
         \A x \in S : w[x] \in Nat \ {0} /\ a[x] \in Nat /\ b[x] \in Nat
  PROVE  LET A == SumFunctionOnSet([x \in S |-> w[x] * a[x]], S)
             B == SumFunctionOnSet([x \in S |-> w[x] * b[x]], S)
         IN  /\ A \in Nat /\ B \in Nat
             /\ \E x \in S : A * b[x] >= B * a[x]
<1> DEFINE fa == [x \in S |-> w[x] * a[x]]
           fb == [x \in S |-> w[x] * b[x]]
           A == SumFunctionOnSet(fa, S)
           B == SumFunctionOnSet(fb, S)
           low == [x \in S |-> A * fb[x]]
           high == [x \in S |-> B * fa[x]]
<1>1. \A x \in S : /\ fa[x] = w[x] * a[x] /\ fb[x] = w[x] * b[x]
                   /\ fa[x] \in Nat /\ fb[x] \in Nat
  BY ProductNat
<1> HIDE DEF fa, fb
<1>2. A \in Nat /\ B \in Nat
  BY <1>1, SumIsNat
<1>20. SumFunctionOnSet(fa, S) = A /\ SumFunctionOnSet(fb, S) = B
  OBVIOUS
<1> HIDE DEF A, B
<1>3. \A x \in S : /\ low[x] = A * fb[x] /\ high[x] = B * fa[x]
                   /\ low[x] \in Int /\ high[x] \in Int
  BY <1>1, <1>2, ProductNat
<1> HIDE DEF low, high
<1>4. SumFunctionOnSet(low, S) = A * B /\ SumFunctionOnSet(high, S) = B * A
  <2>1. A \in Int /\ B \in Int /\ \A x \in S : fa[x] \in Int /\ fb[x] \in Int
    BY <1>1, <1>2
  <2>2. SumFunctionOnSet(low, S) = A * SumFunctionOnSet(fb, S)
    BY <1>3, <2>1, SumScaled
  <2>3. SumFunctionOnSet(high, S) = B * SumFunctionOnSet(fa, S)
    BY <1>3, <2>1, SumScaled
  <2> QED
    BY <1>20, <2>2, <2>3
<1>5. ASSUME \A x \in S : A * b[x] < B * a[x]
      PROVE  FALSE
  <2>1. ASSUME NEW x \in S PROVE low[x] < high[x]
    <3>1. \A i, j, k, m, n \in Nat : n # 0 /\ i * j < k * m => i * (n * j) < k * (n * m)
      <4>. SUFFICES ASSUME NEW i \in Nat, NEW j \in Nat, NEW k \in Nat, NEW m \in Nat,
                           NEW n \in Nat, n # 0, i * j < k * m
           PROVE  i * (n * j) < k * (n * m)
        OBVIOUS
      <4>1. i * (n * j) = n * (i * j) /\ k * (n * m) = n * (k * m)
        BY Z3
      <4>2. \A u, v \in Nat : u < v => n * u < n * v
        BY Z3
      <4>3. i * j \in Nat /\ k * m \in Nat
        BY ProductNat
      <4>. QED
        BY <4>1, <4>2, <4>3
    <3>. QED
      BY <1>1, <1>2, <1>3, <1>5, <3>1
  <2>2. SumFunctionOnSet(low, S) < SumFunctionOnSet(high, S)
    BY <1>3, <2>1, SumOfLess
  <2>3. A * B = B * A /\ A * B \in Nat
    BY <1>2, ProductNat
  <2>. QED
    BY <1>4, <2>2, <2>3
<1>6. \E x \in S : A * b[x] >= B * a[x]
  <2>1. PICK x \in S : ~(A * b[x] < B * a[x])
    BY <1>5
  <2>2. A * b[x] \in Nat /\ B * a[x] \in Nat
    BY <1>2, ProductNat
  <2>. QED
    BY <2>1, <2>2
<1> QED
  BY <1>2, <1>6 DEF A, B, fa, fb
===============================================================================
