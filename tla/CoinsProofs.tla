---------------------------- MODULE CoinsProofs -----------------------------
(****************************************************************************)
(* What the books of this chain are kept in: fractions rounded to whole     *)
(* coins, and sums over finite sets, the SumFunction of the community       *)
(* modules.  A sum is a recursive function, so it has to be shown to exist  *)
(* before anything can be said of it; the induction is over subsets, by the *)
(* well-foundedness of their strict ordering.                               *)
(****************************************************************************)
EXTENDS Coins, FiniteSets, Functions, FiniteSetTheorems, TLAPS

(****************************************************************************)
(* Rounding.  Division is only known to the provers by name, so that what   *)
(* it does is derived from n = d * q + r first.                             *)
(****************************************************************************)
LEMMA DivIntDef ==
  ASSUME NEW n \in Int, NEW d \in Nat \ {0}
  PROVE  \E q \in Int, r \in 0 .. d - 1 : q = n \div d /\ r = n % d /\ n = d * q + r
PROOF
<1> DEFINE p == n \div d
           m == n % d
<1>1. p \in Int /\ m \in 0 .. d - 1 /\ n = d * p + m
  BY SMT
<1>2. p = n \div d /\ m = n % d
  OBVIOUS
<1> HIDE DEF p, m
<1>3. QED BY <1>1, <1>2

LEMMA DivDef ==
  ASSUME NEW n \in Nat, NEW d \in Nat \ {0}
  PROVE  \E q \in Nat, r \in 0 .. d - 1 : q = n \div d /\ r = n % d /\ n = d * q + r
PROOF
<1>1. n \div d \in Nat
  BY SMT
<1>2. QED BY <1>1, DivIntDef

(* The nearest integer is an integer.                                       *)
LEMMA RoundIsInt ==
  ASSUME NEW n \in Int, NEW d \in Nat \ {0}
  PROVE  Round(n, d) \in Int
PROOF
<1>1. n \div d \in Int /\ n % d \in Int
  BY SMT
<1>2. QED BY <1>1 DEF Round

(* Half a coin at most is lost or made.                                     *)
LEMMA RoundError ==
  ASSUME NEW n \in Int, NEW d \in Nat \ {0}
  PROVE  /\ Round(n, d) \in Int
         /\ 2 * (d * Round(n, d) - n) <= d
         /\ 2 * (n - d * Round(n, d)) <= d
PROOF
<1>1. PICK q \in Int, r \in 0 .. d - 1 : q = n \div d /\ r = n % d /\ n = d * q + r
  BY DivIntDef
<1>2. \/ Round(n, d) = q /\ 2 * r <= d
      \/ Round(n, d) = q + 1 /\ 2 * r >= d
  BY <1>1 DEF Round
<1>3. d * (q + 1) = d * q + d
  BY <1>1, SMT
<1> DEFINE p == d * q
           t == d * (q + 1)
<1>4. p \in Int /\ t \in Int /\ t = p + d /\ n = p + r
  BY <1>1, <1>3, SMT
<1>5. CASE Round(n, d) = q /\ 2 * r <= d
  <2>1. d * Round(n, d) = p
    BY <1>5
  <2> HIDE DEF p, t
  <2>2. QED BY <1>1, <1>4, <1>5, <2>1
<1>6. CASE Round(n, d) = q + 1 /\ 2 * r >= d
  <2>1. d * Round(n, d) = t
    BY <1>6
  <2> HIDE DEF p, t
  <2>2. QED BY <1>1, <1>4, <1>6, <2>1
<1>7. QED BY <1>2, <1>5, <1>6

(* Of a number of coins, it is a number of coins.                           *)
LEMMA RoundNear ==
  ASSUME NEW n \in Nat, NEW d \in Nat \ {0}
  PROVE  /\ Round(n, d) \in Nat
         /\ 2 * (d * Round(n, d) - n) <= d
         /\ 2 * (n - d * Round(n, d)) <= d
PROOF
<1>1. n \div d \in Nat
  BY SMT
<1>2. Round(n, d) \in Nat
  BY <1>1 DEF Round
<1>3. QED BY <1>2, RoundError

(* The part k of a whole d brings no more of x than there is, and the whole *)
(* brings all of it.                                                        *)
LEMMA RoundShare ==
  ASSUME NEW x \in Nat, NEW d \in Nat \ {0}, NEW k \in 0 .. d
  PROVE  Round(x * k, d) \in 0 .. x /\ (k = d => Round(x * k, d) = x)
PROOF
<1> DEFINE n == x * k
<1>1. n \in Nat /\ n <= d * x
  BY SMT
<1>2. k = d => n = d * x
  BY SMT
<1>3. PICK r \in Nat : r = Round(n, d) /\ 2 * (d * r - n) <= d /\ 2 * (n - d * r) <= d
  BY <1>1, RoundNear
<1> HIDE DEF n
<1>4. ASSUME r >= x + 1 PROVE FALSE
  <2>1. d * r >= d * x + d
    BY <1>4, <1>3, SMT
  <2> DEFINE a == d * r
             b == d * x
  <2>2. a \in Int /\ b \in Int /\ a >= b + d /\ n <= b /\ 2 * (a - n) <= d
    BY <2>1, <1>1, <1>3, SMT
  <2> HIDE DEF a, b
  <2>3. QED BY <2>2, <1>1
<1>5. ASSUME k = d, r <= x - 1 PROVE FALSE
  <2>1. d * r <= d * x - d
    BY <1>5, <1>3, SMT
  <2> DEFINE a == d * r
             b == d * x
  <2>2. a \in Int /\ b \in Int /\ a <= b - d /\ n = b /\ 2 * (n - a) <= d
    BY <2>1, <1>2, <1>3, <1>5, SMT
  <2> HIDE DEF a, b
  <2>3. QED BY <2>2, <1>1
<1>6. Round(n, d) \in 0 .. x /\ (k = d => Round(n, d) = x)
  BY <1>3, <1>4, <1>5
<1>7. QED BY <1>6 DEF n

(* At most x times d, divided by d, is at most x.                           *)
LEMMA RoundWithin ==
  ASSUME NEW x \in Nat, NEW d \in Nat \ {0}, NEW n \in Nat, n <= d * x
  PROVE  Round(n, d) \in 0 .. x
PROOF
<1>1. PICK r \in Nat : r = Round(n, d) /\ 2 * (d * r - n) <= d
  BY RoundNear
<1>2. ASSUME r >= x + 1 PROVE FALSE
  <2>1. d * r >= d * x + d
    BY <1>1, <1>2, SMT
  <2> DEFINE a == d * r
             b == d * x
  <2>2. a \in Int /\ b \in Int /\ a >= b + d /\ n <= b /\ 2 * (a - n) <= d
    BY <2>1, <1>1, SMT
  <2> HIDE DEF a, b
  <2>3. QED BY <2>2
<1>3. QED BY <1>1, <1>2

(* What is less than d times w more is rounded to at most d more.           *)
LEMMA RoundSteps ==
  ASSUME NEW w \in Nat \ {0}, NEW d \in Nat, NEW x \in Nat, NEW y \in Nat,
         y <= x, (x - y) + d <= w * d
  PROVE  Round(x, w) - Round(y, w) \in 0 .. d
PROOF
<1>1. PICK r \in Nat : r = Round(x, w) /\ 2 * (w * r - x) <= w /\ 2 * (x - w * r) <= w
  BY RoundNear
<1>2. PICK s \in Nat : s = Round(y, w) /\ 2 * (w * s - y) <= w /\ 2 * (y - w * s) <= w
  BY RoundNear
<1>3. CASE x = y
  BY <1>1, <1>2, <1>3
<1>4. CASE x # y
  <2>0. PICK a \in Int, b \in Int, c \in Int : a = w * r /\ b = w * s /\ c = w * d
    OBVIOUS
  <2>1. ASSUME r <= s - 1 PROVE FALSE
    <3>1. w * r <= w * s - w
      BY <2>1, SMT
    <3>2. QED BY <1>1, <1>2, <1>4, <2>0, <3>1
  <2>2. ASSUME r >= s + d + 1 PROVE FALSE
    <3>1. w * r >= w * s + w * d + w
      BY <2>2, SMT
    <3>2. d # 0
      BY <1>4, <2>0, w * 0 = 0
    <3>3. QED BY <1>1, <1>2, <2>0, <3>1, <3>2
  <2>3. r - s \in 0 .. d
    BY <2>1, <2>2
  <2>4. QED BY <1>1, <1>2, <2>3
<1>5. QED BY <1>3, <1>4
------------------------------------------------------------------------------
(****************************************************************************)
(* Sums.                                                                    *)
(****************************************************************************)
(* What contains the empty set, and with a set the set with one more        *)
(* element, contains every finite set.                                      *)
LEMMA SetRule ==
  ASSUME NEW S, IsFiniteSet(S), NEW Good, {} \in Good,
         \A T \in SUBSET S : \A x \in S \ T : T \in Good => T \cup {x} \in Good
  PROVE  S \in Good
PROOF
<1> DEFINE Bad == (SUBSET S) \ Good
<1>1. SUFFICES ASSUME S \notin Good PROVE FALSE
  OBVIOUS
<1>2. IsWellFoundedOn(StrictSubsetOrdering(S), SUBSET S)
  BY FS_FiniteSubsetsOfFinite, FS_StrictSubsetOrderingWellFounded
<1>3. PICK T \in Bad : \A U \in Bad : <<U, T>> \notin StrictSubsetOrdering(S)
  BY <1>1, <1>2, WFMin
<1>4. PICK x \in T : TRUE
  BY <1>3
<1> DEFINE U == T \ {x}
<1>5. U \in SUBSET S /\ U # T /\ U \subseteq T /\ T = U \cup {x} /\ x \in S \ U
  BY <1>3, <1>4
<1> HIDE DEF U
<1>6. <<U, T>> \in StrictSubsetOrdering(S)
  BY <1>3, <1>5 DEF StrictSubsetOrdering
<1>7. U \in Good
  BY <1>3, <1>5, <1>6
<1>8. T \in Good
  BY <1>5, <1>7
<1>9. QED BY <1>3, <1>8

(* Every non-empty set of naturals has a least element.                     *)
LEMMA LeastNatural ==
  ASSUME NEW T \in SUBSET Nat, T # {}
  PROVE  \E x \in T : \A y \in T : x <= y
<1>1. \E x \in T : \A y \in T : ~ (<<y, x>> \in OpToRel(<, Nat))
  BY NatLessThanWellFounded, WFMin, Zenon
<1>2. PICK x \in T : \A y \in T : ~ (<<y, x>> \in OpToRel(<, Nat))
  BY <1>1
<1>3. \A y \in T : ~ (y < x)
  BY <1>2 DEF OpToRel
<1> QED
  BY <1>3

(* What holds of 0, and of m + 1 if of m, holds of every number.            *)
LEMMA Upward ==
  ASSUME NEW n \in Nat, NEW Good, 0 \in Good,
         \A m \in 0 .. n - 1 : m \in Good => m + 1 \in Good
  PROVE  n \in Good
PROOF
<1> DEFINE Bad == {m \in 0 .. n : m \notin Good}
<1>1. SUFFICES ASSUME n \notin Good PROVE FALSE
  OBVIOUS
<1>2. Bad \in SUBSET Nat /\ n \in Bad
  BY <1>1
<1>3. PICK x \in Bad : \A y \in Bad : x <= y
  BY <1>2, LeastNatural
<1>4. x \in 0 .. n /\ x \notin Good /\ x # 0
  BY <1>3
<1>5. x - 1 \in 0 .. n - 1 /\ x - 1 \in Good
  BY <1>3, <1>4
<1>6. (x - 1) + 1 \in Good
  BY <1>5
<1>7. (x - 1) + 1 = x
  BY <1>4
<1>8. QED BY <1>4, <1>6, <1>7
------------------------------------------------------------------------------
(****************************************************************************)
(* The fold.                                                                *)
(****************************************************************************)
Pick(s) == CHOOSE x \in s : TRUE

FoldsAt(g, f, s) == g[s] = IF s = {} THEN 0 ELSE f[Pick(s)] + g[s \ {Pick(s)}]

IsFold(g, f, S) ==
  g = [s \in SUBSET S |-> IF s = {} THEN 0 ELSE f[Pick(s)] + g[s \ {Pick(s)}]]

LEMMA Pickable ==
  ASSUME NEW S, IsFiniteSet(S), NEW s \in SUBSET S, s # {}
  PROVE  /\ Pick(s) \in s /\ s \ {Pick(s)} \in SUBSET S /\ IsFiniteSet(s)
         /\ Cardinality(s \ {Pick(s)}) = Cardinality(s) - 1
         /\ Cardinality(s) \in Nat /\ Cardinality(s) # 0
PROOF
<1>1. Pick(s) \in s
  BY DEF Pick
<1>2. IsFiniteSet(s)
  BY FS_Subset
<1>3. QED BY <1>1, <1>2, FS_RemoveElement, FS_CardinalityType, FS_EmptySet

LEMMA NoneLeft ==
  ASSUME NEW S, IsFiniteSet(S), NEW s \in SUBSET S, Cardinality(s) <= 0
  PROVE  s = {}
PROOF
<1>1. SUFFICES ASSUME s # {} PROVE FALSE
  OBVIOUS
<1>2. Cardinality(s) \in Nat /\ Cardinality(s) # 0
  BY <1>1, Pickable
<1>3. QED BY <1>2

LEMMA FoldExists ==
  ASSUME NEW S, IsFiniteSet(S), NEW f
  PROVE  \E g : IsFold(g, f, S)
PROOF
<1> DEFINE Upto(g, n) == \A s \in SUBSET S : Cardinality(s) <= n => FoldsAt(g, f, s)
           Good == {T \in SUBSET S :
                      \E g : DOMAIN g = SUBSET S /\ Upto(g, Cardinality(T))}
<1>1. {} \in Good
  <2> DEFINE g == [s \in SUBSET S |-> 0]
  <2>1. ASSUME NEW s \in SUBSET S, Cardinality(s) <= 0 PROVE FoldsAt(g, f, s)
    <3>1. s = {}
      BY <2>1, NoneLeft
    <3>2. QED BY <3>1 DEF FoldsAt
  <2>2. Cardinality({}) = 0
    BY FS_EmptySet
  <2>3. QED BY <2>1, <2>2
<1>2. ASSUME NEW T \in SUBSET S, NEW x \in S \ T, T \in Good
      PROVE  T \cup {x} \in Good
  <2>1. PICK g : DOMAIN g = SUBSET S /\ Upto(g, Cardinality(T))
    BY <1>2
  <2> DEFINE h == [s \in SUBSET S |-> IF s = {} THEN 0 ELSE f[Pick(s)] + g[s \ {Pick(s)}]]
  <2>2. Cardinality(T \cup {x}) = Cardinality(T) + 1 /\ Cardinality(T) \in Nat
    BY <1>2, FS_Subset, FS_AddElement, FS_CardinalityType
  <2>3. ASSUME NEW s \in SUBSET S, Cardinality(s) <= Cardinality(T)
        PROVE  h[s] = g[s]
    BY <2>1, <2>3 DEF FoldsAt
  <2>4. ASSUME NEW s \in SUBSET S, Cardinality(s) <= Cardinality(T) + 1
        PROVE  FoldsAt(h, f, s)
    <3>1. CASE s = {}
      BY <3>1 DEF FoldsAt
    <3>2. CASE s # {}
      <4>1. /\ s \ {Pick(s)} \in SUBSET S
            /\ Cardinality(s \ {Pick(s)}) <= Cardinality(T)
        BY <2>2, <2>4, <3>2, Pickable
      <4>2. h[s \ {Pick(s)}] = g[s \ {Pick(s)}]
        BY <2>3, <4>1
      <4>3. h[s] = f[Pick(s)] + g[s \ {Pick(s)}]
        BY <3>2
      <4> HIDE DEF h
      <4>4. QED BY <3>2, <4>2, <4>3 DEF FoldsAt
    <3>3. QED BY <3>1, <3>2
  <2>5. DOMAIN h = SUBSET S
    OBVIOUS
  <2> HIDE DEF h
  <2>6. Upto(h, Cardinality(T \cup {x}))
    BY <2>2, <2>4
  <2>7. QED BY <2>5, <2>6
<1>3. S \in Good
  <2> HIDE DEF Good
  <2>1. QED BY <1>1, <1>2, SetRule
<1>4. PICK g : DOMAIN g = SUBSET S /\ Upto(g, Cardinality(S))
  BY <1>3
<1> DEFINE h == [s \in SUBSET S |-> IF s = {} THEN 0 ELSE f[Pick(s)] + g[s \ {Pick(s)}]]
<1>5. ASSUME NEW s \in SUBSET S PROVE h[s] = g[s]
  <2>1. Cardinality(s) <= Cardinality(S)
    BY FS_Subset
  <2>2. QED BY <1>4, <2>1 DEF FoldsAt
<1>6. ASSUME NEW s \in SUBSET S, s # {} PROVE h[s \ {Pick(s)}] = g[s \ {Pick(s)}]
  BY <1>5, <1>6, Pickable
<1>7. h = [s \in SUBSET S |-> IF s = {} THEN 0 ELSE f[Pick(s)] + h[s \ {Pick(s)}]]
  <2> DEFINE k == [s \in SUBSET S |-> IF s = {} THEN 0 ELSE f[Pick(s)] + h[s \ {Pick(s)}]]
  <2>1. \A s \in SUBSET S : h[s] = k[s]
    BY <1>6
  <2>2. QED BY <2>1
<1> HIDE DEF h
<1>8. IsFold(h, f, S)
  BY <1>7 DEF IsFold
<1>9. QED BY <1>8

(* Two folds agree on the sets they both know.                              *)
LEMMA FoldUnique ==
  ASSUME NEW S, NEW T \in SUBSET S, IsFiniteSet(S), NEW f, NEW g, NEW h,
         IsFold(g, f, S), IsFold(h, f, T)
  PROVE  g[T] = h[T]
PROOF
<1> DEFINE Good == {U \in SUBSET T :
              \A s \in SUBSET T : Cardinality(s) <= Cardinality(U) => g[s] = h[s]}
<1>0. IsFiniteSet(T) /\ Cardinality(T) \in Nat
  BY FS_Subset, FS_CardinalityType
<1>1. /\ \A s \in SUBSET T : FoldsAt(g, f, s) /\ FoldsAt(h, f, s)
  BY DEF IsFold, FoldsAt
<1>2. {} \in Good
  <2>1. ASSUME NEW s \in SUBSET T, Cardinality(s) <= 0 PROVE g[s] = h[s]
    <3>1. s = {}
      BY <1>0, <2>1, NoneLeft
    <3>2. QED BY <1>1, <3>1 DEF FoldsAt
  <2>2. QED BY <2>1, FS_EmptySet
<1>3. ASSUME NEW U \in SUBSET T, NEW x \in T \ U, U \in Good
      PROVE  U \cup {x} \in Good
  <2>1. Cardinality(U \cup {x}) = Cardinality(U) + 1 /\ Cardinality(U) \in Nat
    BY <1>0, <1>3, FS_Subset, FS_AddElement, FS_CardinalityType
  <2>2. ASSUME NEW s \in SUBSET T, Cardinality(s) <= Cardinality(U) + 1
        PROVE  g[s] = h[s]
    <3>1. CASE s = {}
      BY <1>1, <3>1 DEF FoldsAt
    <3>2. CASE s # {}
      <4>1. /\ s \ {Pick(s)} \in SUBSET T
            /\ Cardinality(s \ {Pick(s)}) <= Cardinality(U)
        BY <1>0, <2>1, <2>2, <3>2, Pickable
      <4>2. g[s \ {Pick(s)}] = h[s \ {Pick(s)}]
        BY <1>3, <4>1
      <4>3. QED BY <1>1, <3>2, <4>2 DEF FoldsAt
    <3>3. QED BY <3>1, <3>2
  <2>3. QED BY <1>3, <2>1, <2>2
<1>4. T \in Good
  <2> HIDE DEF Good
  <2>1. QED BY <1>0, <1>2, <1>3, SetRule
<1>5. QED BY <1>0, <1>4

Fold(f, S) == CHOOSE g : IsFold(g, f, S)

LEMMA SumIsFold ==
  ASSUME NEW S, IsFiniteSet(S), NEW f
  PROVE  SumFunctionOnSet(f, S) = Fold(f, S)[S] /\ IsFold(Fold(f, S), f, S)
PROOF
<1>1. SumFunctionOnSet(f, S) = Fold(f, S)[S]
  BY DEF SumFunctionOnSet, FoldFunctionOnSet, MapThenFoldSet, Fold, IsFold, Pick
<1>2. IsFold(Fold(f, S), f, S)
  <2>1. PICK g : IsFold(g, f, S)
    BY FoldExists
  <2>2. QED BY <2>1 DEF Fold
<1>3. QED BY <1>1, <1>2

LEMMA SumEmpty ==
  ASSUME NEW f
  PROVE  SumFunctionOnSet(f, {}) = 0
PROOF
<1>1. IsFiniteSet({})
  BY FS_EmptySet
<1>2. QED BY <1>1, SumIsFold DEF IsFold

LEMMA SumPicks ==
  ASSUME NEW S, IsFiniteSet(S), NEW f, S # {}
  PROVE  SumFunctionOnSet(f, S) = f[Pick(S)] + SumFunctionOnSet(f, S \ {Pick(S)})
PROOF
<1> DEFINE T == S \ {Pick(S)}
<1>1. IsFiniteSet(T) /\ T \in SUBSET S
  BY FS_Subset
<1>2. IsFold(Fold(f, S), f, S) /\ IsFold(Fold(f, T), f, T)
  BY <1>1, SumIsFold
<1>3. Fold(f, S)[T] = Fold(f, T)[T]
  BY <1>1, <1>2, FoldUnique
<1>4. Fold(f, S)[S] = f[Pick(S)] + Fold(f, S)[T]
  BY <1>2 DEF IsFold
<1> HIDE DEF T
<1>5. SumFunctionOnSet(f, S) = f[Pick(S)] + SumFunctionOnSet(f, T)
  BY <1>1, <1>3, <1>4, SumIsFold
<1>6. QED BY <1>5 DEF T
------------------------------------------------------------------------------
(****************************************************************************)
(* Sums of integers.                                                        *)
(****************************************************************************)
(* A sum is an integer, and any element may be taken out of it.             *)
LEMMA SumTakes ==
  ASSUME NEW S, IsFiniteSet(S), NEW f, \A x \in S : f[x] \in Int
  PROVE  /\ SumFunctionOnSet(f, S) \in Int
         /\ \A x \in S : SumFunctionOnSet(f, S) = f[x] + SumFunctionOnSet(f, S \ {x})
PROOF
<1> DEFINE Sum(T) == SumFunctionOnSet(f, T)
           Takes(T) == Sum(T) \in Int /\ \A x \in T : Sum(T) = f[x] + Sum(T \ {x})
           Good == {T \in SUBSET S :
                      \A U \in SUBSET S : Cardinality(U) <= Cardinality(T) => Takes(U)}
<1>1. {} \in Good
  <2>1. ASSUME NEW U \in SUBSET S, Cardinality(U) <= 0 PROVE Takes(U)
    <3>1. U = {}
      BY <2>1, NoneLeft
    <3>2. QED BY <3>1, SumEmpty
  <2>2. QED BY <2>1, FS_EmptySet
<1>2. ASSUME NEW T \in SUBSET S, NEW y \in S \ T, T \in Good
      PROVE  T \cup {y} \in Good
  <2>1. Cardinality(T \cup {y}) = Cardinality(T) + 1 /\ Cardinality(T) \in Nat
    BY <1>2, FS_Subset, FS_AddElement, FS_CardinalityType
  <2>2. ASSUME NEW V \in SUBSET S, Cardinality(V) <= Cardinality(T) PROVE Takes(V)
    BY <1>2, <2>2
  <2> HIDE DEF Sum
  <2>3. ASSUME NEW U \in SUBSET S, Cardinality(U) <= Cardinality(T) + 1, U # {}
        PROVE  Takes(U)
    <3> DEFINE p == Pick(U)
    <3>1. /\ p \in U /\ U \ {p} \in SUBSET S /\ IsFiniteSet(U)
          /\ Cardinality(U \ {p}) = Cardinality(U) - 1 /\ Cardinality(U) \in Nat
      BY <2>3, Pickable
    <3>2. Sum(U) = f[p] + Sum(U \ {p})
      BY <2>3, <3>1, SumPicks DEF Sum
    <3> HIDE DEF p
    <3>3. Takes(U \ {p}) /\ f[p] \in Int
      BY <2>1, <2>2, <2>3, <3>1
    <3>4. Sum(U) \in Int
      BY <3>2, <3>3
    <3>5. ASSUME NEW x \in U, x # p PROVE Sum(U) = f[x] + Sum(U \ {x})
      <4>1. /\ U \ {x} \in SUBSET S /\ Cardinality(U \ {x}) = Cardinality(U) - 1
            /\ x \in U \ {p} /\ p \in U \ {x}
            /\ (U \ {p}) \ {x} = (U \ {x}) \ {p}
        BY <3>1, <3>5, FS_RemoveElement
      <4>2. Cardinality(U \ {x}) <= Cardinality(T) /\ (U \ {x}) \ {p} \in SUBSET S
        BY <2>1, <2>3, <3>1, <4>1
      <4>3. Takes(U \ {x})
        BY <2>2, <4>1, <4>2
      <4>4. Sum((U \ {x}) \ {p}) \in Int
        <5>1. /\ IsFiniteSet(U \ {x})
              /\ Cardinality((U \ {x}) \ {p}) = Cardinality(U \ {x}) - 1
          BY <3>1, <4>1, FS_RemoveElement
        <5>2. Cardinality((U \ {x}) \ {p}) <= Cardinality(T)
          BY <2>1, <2>3, <3>1, <4>1, <5>1
        <5>3. QED BY <2>2, <4>2, <5>2
      <4>5. /\ Sum(U \ {p}) = f[x] + Sum((U \ {x}) \ {p})
            /\ Sum(U \ {x}) = f[p] + Sum((U \ {x}) \ {p})
        BY <3>3, <4>1, <4>3
      <4>6. f[x] \in Int
        BY <3>5
      <4>7. QED BY <3>2, <3>3, <4>4, <4>5, <4>6
    <3>6. QED BY <3>2, <3>4, <3>5
  <2>4. ASSUME NEW U \in SUBSET S, Cardinality(U) <= Cardinality(T) + 1 PROVE Takes(U)
    BY <2>3, <2>4, SumEmpty DEF Sum
  <2>5. QED BY <1>2, <2>1, <2>4
<1>3. S \in Good
  <2> HIDE DEF Good
  <2>1. QED BY <1>1, <1>2, SetRule
<1>4. Cardinality(S) <= Cardinality(S)
  BY FS_CardinalityType
<1>5. QED BY <1>3, <1>4

LEMMA SumAdds ==
  ASSUME NEW S, IsFiniteSet(S), NEW x, x \notin S,
         NEW f, \A y \in S \cup {x} : f[y] \in Int
  PROVE  SumFunctionOnSet(f, S \cup {x}) = f[x] + SumFunctionOnSet(f, S)
PROOF
<1>1. IsFiniteSet(S \cup {x}) /\ (S \cup {x}) \ {x} = S
  BY FS_AddElement
<1>2. QED BY <1>1, SumTakes

(* The sum of the sums of two functions.                                    *)
LEMMA SumTwo ==
  ASSUME NEW S, IsFiniteSet(S), NEW f, NEW g, NEW h,
         \A x \in S : f[x] \in Int /\ g[x] \in Int /\ h[x] = f[x] + g[x]
  PROVE  SumFunctionOnSet(h, S) = SumFunctionOnSet(f, S) + SumFunctionOnSet(g, S)
PROOF
<1> DEFINE F(T) == SumFunctionOnSet(f, T)
           G(T) == SumFunctionOnSet(g, T)
           H(T) == SumFunctionOnSet(h, T)
           Good == {T \in SUBSET S : H(T) = F(T) + G(T)}
<1>1. {} \in Good
  BY SumEmpty
<1>2. ASSUME NEW T \in SUBSET S, NEW x \in S \ T, T \in Good
      PROVE  T \cup {x} \in Good
  <2>1. IsFiniteSet(T)
    BY FS_Subset
  <2>2. /\ F(T \cup {x}) = f[x] + F(T) /\ F(T) \in Int
        /\ G(T \cup {x}) = g[x] + G(T) /\ G(T) \in Int
    BY <2>1, SumAdds, SumTakes
  <2>3. H(T \cup {x}) = h[x] + H(T)
    <3>1. \A y \in T \cup {x} : h[y] \in Int
      OBVIOUS
    <3>2. QED BY <2>1, <3>1, SumAdds
  <2>4. H(T) = F(T) + G(T) /\ f[x] \in Int /\ g[x] \in Int /\ h[x] = f[x] + g[x]
    BY <1>2
  <2> HIDE DEF F, G, H
  <2>5. H(T \cup {x}) = F(T \cup {x}) + G(T \cup {x})
    BY <2>2, <2>3, <2>4
  <2>6. QED BY <1>2, <2>5
<1>3. S \in Good
  <2> HIDE DEF Good
  <2>1. QED BY <1>1, <1>2, SetRule
<1>4. QED BY <1>3

LEMMA SumSame ==
  ASSUME NEW S, IsFiniteSet(S), NEW f, NEW g,
         \A x \in S : f[x] \in Int /\ g[x] = f[x]
  PROVE  SumFunctionOnSet(g, S) = SumFunctionOnSet(f, S)
PROOF
<1> DEFINE F(T) == SumFunctionOnSet(f, T)
           G(T) == SumFunctionOnSet(g, T)
           Good == {T \in SUBSET S : G(T) = F(T)}
<1>1. {} \in Good
  BY SumEmpty
<1>2. ASSUME NEW T \in SUBSET S, NEW x \in S \ T, T \in Good
      PROVE  T \cup {x} \in Good
  <2>1. IsFiniteSet(T)
    BY FS_Subset
  <2>2. F(T \cup {x}) = f[x] + F(T) /\ G(T \cup {x}) = g[x] + G(T)
    BY <2>1, SumAdds
  <2>3. QED BY <1>2, <2>2
<1>3. S \in Good
  <2> HIDE DEF Good
  <2>1. QED BY <1>1, <1>2, SetRule
<1>4. QED BY <1>3

(* A sum grows with its terms; it is at least any of them if none is        *)
(* negative.                                                                *)
LEMMA SumGrows ==
  ASSUME NEW S, IsFiniteSet(S), NEW f, NEW g,
         \A x \in S : f[x] \in Int /\ g[x] \in Int /\ f[x] <= g[x]
  PROVE  SumFunctionOnSet(f, S) <= SumFunctionOnSet(g, S)
PROOF
<1> DEFINE F(T) == SumFunctionOnSet(f, T)
           G(T) == SumFunctionOnSet(g, T)
           Good == {T \in SUBSET S : F(T) <= G(T)}
<1>1. {} \in Good
  BY SumEmpty
<1>2. ASSUME NEW T \in SUBSET S, NEW x \in S \ T, T \in Good
      PROVE  T \cup {x} \in Good
  <2>1. IsFiniteSet(T)
    BY FS_Subset
  <2>2. /\ F(T \cup {x}) = f[x] + F(T) /\ F(T) \in Int
        /\ G(T \cup {x}) = g[x] + G(T) /\ G(T) \in Int
    BY <2>1, SumAdds, SumTakes
  <2>3. F(T) <= G(T) /\ f[x] \in Int /\ g[x] \in Int /\ f[x] <= g[x]
    BY <1>2
  <2> HIDE DEF F, G
  <2>4. F(T \cup {x}) <= G(T \cup {x})
    BY <2>2, <2>3
  <2>5. QED BY <1>2, <2>4
<1>3. S \in Good
  <2> HIDE DEF Good
  <2>1. QED BY <1>1, <1>2, SetRule
<1>4. QED BY <1>3

LEMMA SumZero ==
  ASSUME NEW S, IsFiniteSet(S), NEW f, \A x \in S : f[x] = 0
  PROVE  SumFunctionOnSet(f, S) = 0
PROOF
<1> DEFINE Good == {T \in SUBSET S : SumFunctionOnSet(f, T) = 0}
<1>1. {} \in Good
  BY SumEmpty
<1>2. ASSUME NEW T \in SUBSET S, NEW x \in S \ T, T \in Good
      PROVE  T \cup {x} \in Good
  <2>1. IsFiniteSet(T) /\ \A y \in T \cup {x} : f[y] \in Int
    BY FS_Subset
  <2>2. SumFunctionOnSet(f, T \cup {x}) = f[x] + SumFunctionOnSet(f, T)
    BY <2>1, SumAdds
  <2>3. QED BY <1>2, <2>2
<1>3. S \in Good
  <2> HIDE DEF Good
  <2>1. QED BY <1>1, <1>2, SetRule
<1>4. QED BY <1>3

LEMMA SumNat ==
  ASSUME NEW S, IsFiniteSet(S), NEW f, \A x \in S : f[x] \in Nat
  PROVE  /\ SumFunctionOnSet(f, S) \in Nat
         /\ \A x \in S : f[x] <= SumFunctionOnSet(f, S)
PROOF
<1>1. ASSUME NEW T \in SUBSET S
      PROVE  SumFunctionOnSet(f, T) \in Nat
  <2> DEFINE zero == [x \in T |-> 0]
  <2>1. IsFiniteSet(T)
    BY FS_Subset
  <2>2. SumFunctionOnSet(zero, T) = 0 /\ SumFunctionOnSet(f, T) \in Int
    BY <2>1, SumZero, SumTakes
  <2>3. SumFunctionOnSet(zero, T) <= SumFunctionOnSet(f, T)
    BY <2>1, SumGrows
  <2>4. QED BY <2>2, <2>3
<1>2. ASSUME NEW x \in S
      PROVE  f[x] <= SumFunctionOnSet(f, S)
  <2>1. SumFunctionOnSet(f, S) = f[x] + SumFunctionOnSet(f, S \ {x})
    BY SumTakes
  <2>2. SumFunctionOnSet(f, S \ {x}) \in Nat /\ f[x] \in Nat
    BY <1>1
  <2>3. QED BY <2>1, <2>2
<1>3. QED BY <1>1, <1>2

(* Elements that count nothing may be left out.                             *)
LEMMA SumRestricts ==
  ASSUME NEW S, IsFiniteSet(S), NEW T \in SUBSET S,
         NEW f, \A x \in S : f[x] \in Int,
         \A x \in S \ T : f[x] = 0
  PROVE  SumFunctionOnSet(f, T) = SumFunctionOnSet(f, S)
PROOF
<1> DEFINE F(U) == SumFunctionOnSet(f, U)
           Good == {U \in SUBSET (S \ T) : F(T \cup U) = F(T)}
<1>1. {} \in Good
  OBVIOUS
<1>2. ASSUME NEW U \in SUBSET (S \ T), NEW x \in (S \ T) \ U, U \in Good
      PROVE  U \cup {x} \in Good
  <2> DEFINE W == T \cup U
  <2>1. /\ W \in SUBSET S /\ x \in S \ W /\ T \cup (U \cup {x}) = W \cup {x}
        /\ \A y \in W \cup {x} : f[y] \in Int
    OBVIOUS
  <2> HIDE DEF W
  <2>w. F(W \cup {x}) = f[x] + F(W) /\ F(W) \in Int
    BY <2>1, FS_Subset, SumAdds, SumTakes
  <2>2. F(T \cup (U \cup {x})) = f[x] + F(T \cup U) /\ F(T \cup U) \in Int
    BY <2>1, <2>w DEF W
  <2>3. F(T \cup U) = F(T) /\ f[x] = 0
    BY <1>2
  <2> HIDE DEF F
  <2>4. F(T \cup (U \cup {x})) = F(T)
    BY <2>2, <2>3
  <2>5. QED BY <1>2, <2>4
<1>3. S \ T \in Good
  <2>1. IsFiniteSet(S \ T)
    BY FS_Subset
  <2> HIDE DEF Good
  <2>2. QED BY <1>1, <1>2, <2>1, SetRule
<1>4. T \cup (S \ T) = S
  OBVIOUS
<1>5. QED BY <1>3, <1>4

(* The sum of a function, and that of the function with a new value.        *)
LEMMA SumTotal ==
  ASSUME NEW S, IsFiniteSet(S), NEW f \in [S -> Int]
  PROVE  SumFunction(f) = SumFunctionOnSet(f, S) /\ SumFunction(f) \in Int
PROOF BY SumTakes DEF SumFunction

LEMMA SumUpdate ==
  ASSUME NEW S, IsFiniteSet(S), NEW f \in [S -> Int], NEW x \in S, NEW v \in Int
  PROVE  SumFunction([f EXCEPT ![x] = v]) = SumFunction(f) + (v - f[x])
PROOF
<1> DEFINE g == [f EXCEPT ![x] = v]
<1>1. g \in [S -> Int] /\ g[x] = v /\ \A y \in S \ {x} : g[y] = f[y]
  OBVIOUS
<1> HIDE DEF g
<1>2. IsFiniteSet(S \ {x})
  BY FS_RemoveElement
<1>3. SumFunctionOnSet(g, S \ {x}) = SumFunctionOnSet(f, S \ {x})
  BY <1>1, <1>2, SumSame
<1>4. /\ SumFunctionOnSet(g, S) = v + SumFunctionOnSet(g, S \ {x})
      /\ SumFunctionOnSet(f, S) = f[x] + SumFunctionOnSet(f, S \ {x})
      /\ SumFunctionOnSet(f, S \ {x}) \in Int /\ f[x] \in Int
  BY <1>1, <1>2, SumTakes
<1>5. SumFunction(g) = SumFunctionOnSet(g, S) /\ SumFunction(f) = SumFunctionOnSet(f, S)
  BY <1>1, SumTotal
<1>6. SumFunction(g) = SumFunction(f) + (v - f[x])
  BY <1>3, <1>4, <1>5
<1>7. QED BY <1>6 DEF g

(* Two functions that differ at one place.                                  *)
LEMMA SumChanges ==
  ASSUME NEW S, IsFiniteSet(S), NEW f \in [S -> Int], NEW g \in [S -> Int], NEW x \in S,
         \A y \in S : y # x => g[y] = f[y]
  PROVE  /\ SumFunction(g) = SumFunction(f) + (g[x] - f[x])
         /\ SumFunction(f) \in Int /\ SumFunction(g) \in Int
PROOF
<1>1. g = [f EXCEPT ![x] = g[x]] /\ g[x] \in Int
  OBVIOUS
<1>2. SumFunction(f) \in Int /\ SumFunction(g) \in Int
  BY SumTotal
<1>3. PICK v \in Int : v = g[x]
  BY <1>1
<1>4. SumFunction([f EXCEPT ![x] = v]) = SumFunction(f) + (v - f[x])
  BY SumUpdate
<1>5. QED BY <1>1, <1>2, <1>3, <1>4

(* A sum of what there is, and what it is.                                  *)
LEMMA SumCounts ==
  ASSUME NEW S, IsFiniteSet(S), NEW f \in [S -> Nat]
  PROVE  SumFunction(f) \in Nat /\ \A x \in S : f[x] <= SumFunction(f)
PROOF BY SumNat, SumTotal

(* The sum of a constant function.                                          *)
LEMMA SumConstant ==
  ASSUME NEW S, IsFiniteSet(S), NEW c \in Int, NEW f \in [S -> Int], \A x \in S : f[x] = c
  PROVE  SumFunction(f) = Cardinality(S) * c
PROOF
<1> DEFINE F(T) == SumFunctionOnSet(f, T)
           Good == {T \in SUBSET S : F(T) = Cardinality(T) * c}
<1>1. {} \in Good
  BY SumEmpty, FS_EmptySet
<1>2. ASSUME NEW T \in SUBSET S, NEW x \in S \ T, T \in Good
      PROVE  T \cup {x} \in Good
  <2>1. /\ IsFiniteSet(T) /\ Cardinality(T) \in Nat
        /\ Cardinality(T \cup {x}) = Cardinality(T) + 1
    BY FS_Subset, FS_AddElement, FS_CardinalityType
  <2>2. F(T \cup {x}) = c + F(T)
    BY <2>1, SumAdds
  <2>3. PICK n \in Nat : n = Cardinality(T)
    BY <2>1
  <2>4. (n + 1) * c = c + n * c
    BY SMT
  <2>5. F(T \cup {x}) = Cardinality(T \cup {x}) * c
    BY <1>2, <2>1, <2>2, <2>3, <2>4
  <2>6. QED BY <2>5
<1>3. S \in Good
  <2> HIDE DEF Good
  <2>1. QED BY <1>1, <1>2, SetRule
<1>4. QED BY <1>3, SumTotal

(* Sums of multiples.                                                       *)
LEMMA SumLinear ==
  ASSUME NEW S, IsFiniteSet(S), NEW f, NEW g, NEW h, NEW a \in Int, NEW b \in Int,
         \A x \in S : f[x] \in Int /\ g[x] \in Int /\ h[x] = a * f[x] + b * g[x]
  PROVE  SumFunctionOnSet(h, S) = a * SumFunctionOnSet(f, S) + b * SumFunctionOnSet(g, S)
PROOF
<1> DEFINE F(T) == SumFunctionOnSet(f, T)
           G(T) == SumFunctionOnSet(g, T)
           H(T) == SumFunctionOnSet(h, T)
           Good == {T \in SUBSET S : H(T) = a * F(T) + b * G(T)}
<1>1. {} \in Good
  BY SumEmpty
<1>2. ASSUME NEW T \in SUBSET S, NEW x \in S \ T, T \in Good
      PROVE  T \cup {x} \in Good
  <2>1. /\ IsFiniteSet(T) /\ (\A y \in T \cup {x} : f[y] \in Int)
        /\ (\A y \in T \cup {x} : g[y] \in Int)
    BY FS_Subset
  <2>2. \A y \in T \cup {x} : h[y] \in Int
    <3>1. \A i, j \in Int : a * i + b * j \in Int
      BY SMT
    <3>2. QED BY <3>1
  <2>3. F(T \cup {x}) = f[x] + F(T)
    BY <2>1, SumAdds
  <2>4. G(T \cup {x}) = g[x] + G(T)
    BY <2>1, SumAdds
  <2>5. H(T \cup {x}) = h[x] + H(T)
    BY <2>1, <2>2, SumAdds
  <2>6. F(T) \in Int /\ G(T) \in Int
    BY <2>1, SumTakes
  <2>7. H(T) = a * F(T) + b * G(T) /\ h[x] = a * f[x] + b * g[x]
    BY <1>2
  <2>8. PICK i \in Int, j \in Int, k \in Int, l \in Int :
          i = f[x] /\ j = F(T) /\ k = g[x] /\ l = G(T)
    BY <2>6
  <2>9. (a * i + b * k) + (a * j + b * l) = a * (i + j) + b * (k + l)
    BY SMT
  <2>10. H(T \cup {x}) = a * F(T \cup {x}) + b * G(T \cup {x})
    BY <2>3, <2>4, <2>5, <2>7, <2>8, <2>9
  <2>11. QED BY <2>10
<1>3. S \in Good
  <2> HIDE DEF Good
  <2>1. QED BY <1>1, <1>2, SetRule
<1>4. QED BY <1>3

(* A sum of n is at most n times a bound of what is summed.                 *)
LEMMA SumBounded ==
  ASSUME NEW S, IsFiniteSet(S), NEW c \in Int, NEW f, \A x \in S : f[x] \in Int /\ f[x] <= c
  PROVE  SumFunctionOnSet(f, S) <= Cardinality(S) * c
PROOF
<1> DEFINE g == [x \in S |-> c]
<1>1. g \in [S -> Int] /\ \A x \in S : g[x] = c
  OBVIOUS
<1> HIDE DEF g
<1>2. SumFunction(g) = Cardinality(S) * c
  BY <1>1, SumConstant
<1>3. SumFunctionOnSet(g, S) = SumFunction(g)
  BY <1>1, SumTotal
<1>4. SumFunctionOnSet(f, S) <= SumFunctionOnSet(g, S)
  BY <1>1, SumGrows
<1>5. QED BY <1>2, <1>3, <1>4

(* Sums over sets that correspond one to one.                               *)
Matches(S, R, h, f, g) ==
  /\ h \in [S -> R]
  /\ \A z \in R : \E x \in S : z = h[x]
  /\ \A x, y \in S : h[x] = h[y] => x = y
  /\ \A x \in S : g[x] \in Int /\ f[h[x]] = g[x]

LEMMA SumMapped ==
  ASSUME NEW S, NEW R, NEW h, NEW f, NEW g, IsFiniteSet(S), Matches(S, R, h, f, g)
  PROVE  SumFunctionOnSet(f, R) = SumFunctionOnSet(g, S)
PROOF
<1> USE DEF Matches
<1> DEFINE Image(T) == {h[x] : x \in T}
           Good == {T \in SUBSET S : /\ IsFiniteSet(Image(T))
                                     /\ SumFunctionOnSet(f, Image(T)) = SumFunctionOnSet(g, T)}
<1>1. {} \in Good
  <2>1. Image({}) = {}
    OBVIOUS
  <2>2. QED BY <2>1, SumEmpty, FS_EmptySet
<1>2. ASSUME NEW T \in SUBSET S, NEW x \in S \ T, T \in Good
      PROVE  T \cup {x} \in Good
  <2>1. IsFiniteSet(T) /\ \A y \in T \cup {x} : g[y] \in Int
    BY FS_Subset
  <2>2. /\ Image(T \cup {x}) = Image(T) \cup {h[x]} /\ h[x] \notin Image(T)
        /\ \A z \in Image(T) \cup {h[x]} : f[z] \in Int
    OBVIOUS
  <2> DEFINE U == Image(T)
  <2>3. IsFiniteSet(U) /\ SumFunctionOnSet(f, U) = SumFunctionOnSet(g, T)
    BY <1>2
  <2>4. h[x] \notin U /\ (\A z \in U \cup {h[x]} : f[z] \in Int) /\ f[h[x]] = g[x]
    BY <2>2
  <2> HIDE DEF U
  <2>5. IsFiniteSet(U \cup {h[x]})
    BY <2>3, FS_AddElement
  <2>6. SumFunctionOnSet(f, U \cup {h[x]}) = f[h[x]] + SumFunctionOnSet(f, U)
    BY <2>3, <2>4, SumAdds
  <2>7. SumFunctionOnSet(g, T \cup {x}) = g[x] + SumFunctionOnSet(g, T)
    BY <2>1, SumAdds
  <2>8. Image(T \cup {x}) = U \cup {h[x]}
    BY <2>2 DEF U
  <2>9. SumFunctionOnSet(f, Image(T \cup {x})) = SumFunctionOnSet(g, T \cup {x})
    BY <2>3, <2>4, <2>6, <2>7, <2>8
  <2>10. IsFiniteSet(Image(T \cup {x}))
    BY <2>5, <2>8
  <2> HIDE DEF Image
  <2>11. QED BY <2>9, <2>10
<1>3. S \in Good
  <2> HIDE DEF Good
  <2>1. QED BY <1>1, <1>2, SetRule
<1>4. R = Image(S)
  OBVIOUS
<1>5. QED BY <1>3, <1>4

(* Sums over indices that are n apart.                                      *)
Shifted(n, S, T, f, g) ==
  /\ n \in Nat /\ S \in SUBSET Nat /\ T \in SUBSET Nat
  /\ \A i \in S : i + n \in T
  /\ \A j \in T : j - n \in S
  /\ \A i \in S : g[i] \in Int /\ f[i + n] = g[i]

LEMMA SumsShift ==
  ASSUME NEW n, NEW S, NEW T, NEW f, NEW g, IsFiniteSet(S), Shifted(n, S, T, f, g)
  PROVE  SumFunctionOnSet(f, T) = SumFunctionOnSet(g, S)
PROOF
<1> DEFINE h == [i \in S |-> i + n]
<1>1. h \in [S -> T] /\ \A i \in S : i \in Nat /\ h[i] = i + n
  BY DEF Shifted
<1> HIDE DEF h
<1>2. n \in Nat
  BY DEF Shifted
<1>3. \A i, j \in S : h[i] = h[j] => i = j
  BY <1>1, <1>2
<1>4. \A j \in T : \E i \in S : j = h[i]
  <2>1. ASSUME NEW j \in T PROVE j - n \in S /\ j = h[j - n]
    <3>1. j - n \in S /\ j \in Nat
      BY DEF Shifted
    <3>2. h[j - n] = (j - n) + n
      BY <1>1, <3>1
    <3>3. QED BY <1>2, <3>1, <3>2
  <2>2. QED BY <2>1
<1>5. \A i \in S : g[i] \in Int /\ f[h[i]] = g[i]
  BY <1>1 DEF Shifted
<1>6. Matches(S, T, h, f, g)
  BY <1>1, <1>3, <1>4, <1>5 DEF Matches
<1>7. QED BY <1>6, SumMapped

(* A sum in two parts.                                                      *)
LEMMA SumSplits ==
  ASSUME NEW S, IsFiniteSet(S), NEW T \in SUBSET S, NEW f, \A x \in S : f[x] \in Int
  PROVE  SumFunctionOnSet(f, S) = SumFunctionOnSet(f, T) + SumFunctionOnSet(f, S \ T)
PROOF
<1> DEFINE R == S \ T
           Good == {U \in SUBSET R : SumFunctionOnSet(f, T \cup U)
                                       = SumFunctionOnSet(f, T) + SumFunctionOnSet(f, U)}
<1>1. IsFiniteSet(R) /\ IsFiniteSet(T)
  BY FS_Subset
<1>2. SumFunctionOnSet(f, T) \in Int
  <2>1. \A x \in T : f[x] \in Int
    OBVIOUS
  <2>2. QED BY <1>1, <2>1, SumTakes
<1>3. {} \in Good
  <2>1. T \cup {} = T
    OBVIOUS
  <2>2. QED BY <1>2, <2>1, SumEmpty
<1>4. ASSUME NEW U \in SUBSET R, NEW x \in R \ U, U \in Good
      PROVE  U \cup {x} \in Good
  <2>1. /\ IsFiniteSet(U) /\ IsFiniteSet(T \cup U)
        /\ x \notin U /\ x \notin T \cup U /\ f[x] \in Int
        /\ (\A y \in U \cup {x} : f[y] \in Int)
        /\ (\A y \in (T \cup U) \cup {x} : f[y] \in Int)
        /\ (\A y \in U : f[y] \in Int)
    BY <1>1, FS_Subset
  <2>2. SumFunctionOnSet(f, U \cup {x}) = f[x] + SumFunctionOnSet(f, U)
    BY <2>1, SumAdds
  <2>3. SumFunctionOnSet(f, (T \cup U) \cup {x}) = f[x] + SumFunctionOnSet(f, T \cup U)
    BY <2>1, SumAdds
  <2>4. SumFunctionOnSet(f, U) \in Int
    BY <2>1, SumTakes
  <2>5. SumFunctionOnSet(f, T \cup U) = SumFunctionOnSet(f, T) + SumFunctionOnSet(f, U)
    BY <1>4
  <2>6. (T \cup U) \cup {x} = T \cup (U \cup {x})
    OBVIOUS
  <2>7. SumFunctionOnSet(f, T \cup (U \cup {x}))
          = SumFunctionOnSet(f, T) + SumFunctionOnSet(f, U \cup {x})
    <3>1. SumFunctionOnSet(f, (T \cup U) \cup {x})
            = SumFunctionOnSet(f, T) + SumFunctionOnSet(f, U \cup {x})
      <4>1. f[x] \in Int
        BY <2>1
      <4>2. QED BY <1>2, <2>2, <2>3, <2>4, <2>5, <4>1
    <3>2. QED BY <2>6, <3>1
  <2>8. QED BY <2>7
<1>5. R \in Good
  <2> HIDE DEF Good
  <2>1. QED BY <1>1, <1>3, <1>4, SetRule
<1>6. T \cup R = S
  OBVIOUS
<1>7. QED BY <1>5, <1>6

(* The sums of a sequence that is two sequences, f of m and g of n, one     *)
(* after the other.                                                         *)
Joined(m, n, f, g, h) ==
  /\ m \in Nat /\ n \in Nat
  /\ \A i \in 1 .. m : f[i] \in Int /\ h[i] = f[i]
  /\ \A i \in 1 .. n : g[i] \in Int /\ h[i + m] = g[i]

LEMMA SumJoins ==
  ASSUME NEW m, NEW n, NEW f, NEW g, NEW h, Joined(m, n, f, g, h)
  PROVE  /\ SumFunctionOnSet(h, 1 .. m + n)
              = SumFunctionOnSet(f, 1 .. m) + SumFunctionOnSet(g, 1 .. n)
         /\ SumFunctionOnSet(f, 1 .. m) \in Int /\ SumFunctionOnSet(g, 1 .. n) \in Int
PROOF
<1> DEFINE S == 1 .. m + n
           M == 1 .. m
           N == 1 .. n
<1>1. m \in Nat /\ n \in Nat
  BY DEF Joined
<1>2. IsFiniteSet(S) /\ IsFiniteSet(M) /\ IsFiniteSet(N) /\ M \in SUBSET S
  BY <1>1, FS_Interval
<1>3. \A i \in M : f[i] \in Int /\ h[i] = f[i]
  BY DEF Joined
<1>4. \A i \in N : g[i] \in Int /\ h[i + m] = g[i]
  BY DEF Joined
<1>5. Shifted(m, N, S \ M, h, g)
  <2>1. N \in SUBSET Nat /\ S \ M \in SUBSET Nat
    BY <1>1
  <2>2. \A i \in N : i + m \in S \ M
    BY <1>1
  <2>3. \A j \in S \ M : j - m \in N
    BY <1>1
  <2>4. QED BY <1>1, <1>4, <2>1, <2>2, <2>3 DEF Shifted
<1>6. \A i \in S : h[i] \in Int
  <2>1. ASSUME NEW i \in S PROVE h[i] \in Int
    <3>1. CASE i \in M
      BY <1>3, <3>1
    <3>2. CASE i \notin M
      <4>1. i - m \in N /\ (i - m) + m = i
        BY <1>1, <3>2
      <4>2. g[i - m] \in Int /\ h[(i - m) + m] = g[i - m]
        BY <1>4, <4>1
      <4>3. QED BY <4>1, <4>2
    <3>3. QED BY <3>1, <3>2
  <2>2. QED BY <2>1
<1> HIDE DEF S, M, N
<1>7. SumFunctionOnSet(h, S) = SumFunctionOnSet(h, M) + SumFunctionOnSet(h, S \ M)
  BY <1>2, <1>6, SumSplits
<1>8. SumFunctionOnSet(h, S \ M) = SumFunctionOnSet(g, N)
  BY <1>2, <1>5, SumsShift
<1>9. SumFunctionOnSet(h, M) = SumFunctionOnSet(f, M)
  BY <1>2, <1>3, SumSame
<1>10. SumFunctionOnSet(f, M) \in Int /\ SumFunctionOnSet(g, N) \in Int
  <2>1. \A i \in M : f[i] \in Int
    BY <1>3
  <2>2. \A i \in N : g[i] \in Int
    BY <1>4
  <2>3. QED BY <1>2, <2>1, <2>2, SumTakes
<1>11. QED BY <1>7, <1>8, <1>9, <1>10 DEF S, M, N

(* Amounts x given to owners a, summed by owner: d is what each gets.       *)
Dealt(S, R, a, x, part, d) ==
  /\ a \in [S -> R] /\ x \in [S -> Int]
  /\ \A v \in R : /\ \A i \in S : part[v][i] = IF a[i] = v THEN x[i] ELSE 0
                  /\ d[v] = SumFunctionOnSet(part[v], S)

LEMMA SumByOwner ==
  ASSUME NEW S, NEW R, NEW a, NEW x, NEW part, NEW d, IsFiniteSet(S), IsFiniteSet(R),
         Dealt(S, R, a, x, part, d)
  PROVE  /\ SumFunctionOnSet(d, R) = SumFunctionOnSet(x, S)
         /\ \A v \in R : d[v] \in Int
PROOF
<1> DEFINE D(T) == [v \in R |-> SumFunctionOnSet(part[v], T)]
           Good == {T \in SUBSET S : SumFunctionOnSet(D(T), R) = SumFunctionOnSet(x, T)}
<1>1. /\ \A i \in S : a[i] \in R /\ x[i] \in Int
      /\ \A v \in R, i \in S : part[v][i] = IF a[i] = v THEN x[i] ELSE 0
      /\ \A v \in R : d[v] = SumFunctionOnSet(part[v], S)
  BY DEF Dealt
<1>2. ASSUME NEW v \in R, NEW T \in SUBSET S
      PROVE  IsFiniteSet(T) /\ (\A i \in T : part[v][i] \in Int)
             /\ SumFunctionOnSet(part[v], T) \in Int
  <2>1. IsFiniteSet(T) /\ \A i \in T : part[v][i] \in Int
    BY <1>1, FS_Subset
  <2>2. QED BY <2>1, SumTakes
<1>3. {} \in Good
  <2>1. \A v \in R : D({})[v] = 0
    BY SumEmpty
  <2> HIDE DEF D
  <2>2. SumFunctionOnSet(D({}), R) = 0
    BY <2>1, SumZero
  <2>3. QED BY <2>2, SumEmpty
<1>4. ASSUME NEW T \in SUBSET S, NEW i \in S \ T, T \in Good
      PROVE  T \cup {i} \in Good
  <2> DEFINE f == D(T)
             g == D(T \cup {i})
  <2>1. ASSUME NEW v \in R
        PROVE  /\ f[v] \in Int
               /\ g[v] = f[v] + (IF v = a[i] THEN x[i] ELSE 0)
    <3>1. /\ IsFiniteSet(T) /\ i \notin T
          /\ \A j \in T \cup {i} : part[v][j] \in Int
          /\ SumFunctionOnSet(part[v], T) \in Int
      <4>1. IsFiniteSet(T) /\ i \notin T /\ SumFunctionOnSet(part[v], T) \in Int
        BY <1>2
      <4>2. T \cup {i} \in SUBSET S
        OBVIOUS
      <4>3. \A j \in T \cup {i} : part[v][j] \in Int
        BY <1>2, <4>2
      <4>4. QED BY <4>1, <4>3
    <3> DEFINE q == part[v]
    <3>2. SumFunctionOnSet(q, T \cup {i}) = q[i] + SumFunctionOnSet(q, T)
      <4> HIDE DEF q
      <4>1. \A j \in T \cup {i} : q[j] \in Int
        BY <3>1 DEF q
      <4>2. QED BY <3>1, <4>1, SumAdds
    <3>3. q[i] = IF v = a[i] THEN x[i] ELSE 0
      BY <1>1
    <3>4. f[v] = SumFunctionOnSet(q, T) /\ g[v] = SumFunctionOnSet(q, T \cup {i})
      OBVIOUS
    <3> HIDE DEF f, g, q
    <3>5. x[i] \in Int /\ SumFunctionOnSet(q, T) \in Int
      BY <1>1, <3>1 DEF q
    <3>6. QED BY <3>2, <3>3, <3>4, <3>5
  <2>2. f \in [R -> Int] /\ g \in [R -> Int]
    <3>1. f = [v \in R |-> f[v]] /\ g = [v \in R |-> g[v]]
      OBVIOUS
    <3> HIDE DEF f, g
    <3>2. ASSUME NEW v \in R PROVE f[v] \in Int /\ g[v] \in Int
      <4>1. x[i] \in Int
        BY <1>1
      <4>2. QED BY <2>1, <4>1
    <3>3. QED BY <3>1, <3>2
  <2> HIDE DEF f, g
  <2>3. a[i] \in R /\ x[i] \in Int
    BY <1>1
  <2>4. \A v \in R : v # a[i] => g[v] = f[v]
    BY <2>1, <2>2
  <2>5. SumFunction(g) = SumFunction(f) + (g[a[i]] - f[a[i]])
        /\ SumFunction(f) \in Int
    BY <2>2, <2>3, <2>4, SumChanges
  <2>6. g[a[i]] - f[a[i]] = x[i]
    BY <2>1, <2>2, <2>3
  <2>7. SumFunction(g) = SumFunctionOnSet(g, R) /\ SumFunction(f) = SumFunctionOnSet(f, R)
    BY <2>2, SumTotal
  <2>8. SumFunctionOnSet(f, R) = SumFunctionOnSet(x, T)
    BY <1>4 DEF f
  <2>9. SumFunctionOnSet(x, T \cup {i}) = x[i] + SumFunctionOnSet(x, T)
    <3>1. IsFiniteSet(T) /\ \A j \in T \cup {i} : x[j] \in Int
      BY <1>1, FS_Subset
    <3>2. QED BY <3>1, SumAdds
  <2>10. SumFunctionOnSet(g, R) = SumFunctionOnSet(x, T \cup {i})
    BY <2>3, <2>5, <2>6, <2>7, <2>8, <2>9
  <2>11. QED BY <2>10 DEF g
<1>5. S \in Good
  <2> HIDE DEF Good
  <2>1. QED BY <1>3, <1>4, SetRule
<1>6. ASSUME NEW v \in R PROVE D(S)[v] = d[v] /\ d[v] \in Int
  <2>1. S \in SUBSET S
    OBVIOUS
  <2>2. QED BY <1>1, <1>2, <2>1
<1>7. SumFunctionOnSet(D(S), R) = SumFunctionOnSet(x, S)
  BY <1>5
<1> HIDE DEF D
<1>8. SumFunctionOnSet(D(S), R) = SumFunctionOnSet(d, R)
  BY <1>6, SumSame
<1>9. QED BY <1>6, <1>7, <1>8
=============================================================================
