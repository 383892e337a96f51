---------------------------- MODULE RecursionProofs ----------------------------
(* Induction over an initial segment of the naturals, stated with sets and    *)
(* functions so that it can be cited: a predicate is the set of the numbers   *)
(* it holds of, a recursive definition the function that takes one step.      *)
EXTENDS Integers, WellFoundedInduction, TLAPS

(* Every non-empty set of natural numbers has a least element, and a bounded  *)
(* one a greatest.                                                            *)
LEMMA LeastElement ==
  ASSUME NEW T, T \subseteq Nat, T # {}
  PROVE  \E x \in T : \A y \in T : x <= y
<1> DEFINE R == OpToRel(<, Nat)
<1>1. IsWellFoundedOn(R, Nat)
  BY NatLessThanWellFounded
<1> HIDE DEF R
<1>2. \E x \in T : \A y \in T : ~(<<y, x>> \in R)
  BY <1>1, WFMin
<1>3. \A x, y \in Nat : y < x => <<y, x>> \in R
  BY DEF R, OpToRel
<1>4. PICK x \in T : \A y \in T : ~(<<y, x>> \in R)
  BY <1>2
<1>5. \A y \in T : x <= y
  <2> SUFFICES ASSUME NEW y \in T
               PROVE  x <= y
    OBVIOUS
  <2>1. x \in Nat /\ y \in Nat
    OBVIOUS
  <2>2. ~(y < x)
    BY <1>3, <1>4, <2>1
  <2> QED BY <2>1, <2>2
<1> QED BY <1>5

(* The same for the greatest element.                                         *)
LEMMA GreatestElement ==
  ASSUME NEW n \in Nat, NEW T, T \subseteq 0..n, T # {}
  PROVE  \E x \in T : \A y \in T : y <= x
<1>1. PICK U : U = {n - t : t \in T}
  OBVIOUS
<1>2. U \subseteq Nat /\ U # {}
  <2>1. PICK t : t \in T
    OBVIOUS
  <2>2. n - t \in U
    BY <1>1, <2>1
  <2>3. \A s \in T : n - s \in Nat
    OBVIOUS
  <2> QED BY <1>1, <2>2, <2>3
<1>3. PICK u \in U : \A v \in U : u <= v
  BY <1>2, LeastElement
<1>4. PICK x \in T : u = n - x
  BY <1>1
<1>5. \A y \in T : y <= x
  <2> SUFFICES ASSUME NEW y \in T
               PROVE  y <= x
    OBVIOUS
  <2>1. n - y \in U /\ u <= n - y
    BY <1>1, <1>3
  <2>2. x \in Nat /\ y \in Nat
    OBVIOUS
  <2> QED BY <1>4, <2>1, <2>2
<1> QED BY <1>5

(* Induction up to n.                                                         *)
LEMMA UpTo ==
  ASSUME NEW n \in Nat, NEW T, 0 \in T, \A k \in 1..n : k - 1 \in T => k \in T
  PROVE  \A k \in 0..n : k \in T
<1> SUFFICES ASSUME (0..n) \ T # {} PROVE FALSE
    OBVIOUS
<1> DEFINE U == (0..n) \ T
<1>1. PICK x \in U : \A y \in U : x <= y
  <2>1. U \subseteq Nat /\ U # {}
    OBVIOUS
  <2> HIDE DEF U
  <2> QED BY <2>1, LeastElement
<1>2. x \in 1..n /\ x - 1 \in 0..n
  BY <1>1
<1>3. x - 1 \in T
  BY <1>1, <1>2
<1> QED BY <1>1, <1>2, <1>3

(* A function that takes the k-th step of g from its value at k - 1.          *)
Steps(g, n, S) == g \in [1..n -> [S -> S]]
Iterates(f, n, S, s0, g) ==
    f \in [0..n -> S] /\ f[0] = s0 /\ \A k \in 1..n : f[k] = g[k][f[k - 1]]

(* A value and a step for every number up to n define a function.             *)
LEMMA ByRecursion ==
  ASSUME NEW n \in Nat, NEW S, NEW s0 \in S, NEW g, Steps(g, n, S)
  PROVE  \E f : Iterates(f, n, S, s0, g)
<1> USE DEF Steps
<1> DEFINE Good(j, f) == f[0] = s0 /\ \A k \in 1..j : f[k] = g[k][f[k - 1]]
           T == {j \in 0..n : \E f \in [0..j -> S] : Good(j, f)}
<1>1. 0 \in T
  <2> DEFINE f == [k \in 0..0 |-> s0]
  <2>1. f \in [0..0 -> S] /\ Good(0, f)
    OBVIOUS
  <2> HIDE DEF f, Good
  <2>2. \E e \in [0..0 -> S] : Good(0, e)
    BY <2>1
  <2> QED BY <2>2
<1>2. ASSUME NEW k \in 1..n, k - 1 \in T
      PROVE  k \in T
  <2>1. PICK f \in [0..(k - 1) -> S] : Good(k - 1, f)
    BY <1>2
  <2> DEFINE h == [x \in 0..k |-> IF x = k THEN g[k][f[k - 1]] ELSE f[x]]
  <2>2. g[k][f[k - 1]] \in S
    <3>1. g[k] \in [S -> S] /\ f[k - 1] \in S
      OBVIOUS
    <3> QED BY <3>1
  <2>3. h \in [0..k -> S]
    BY <2>2
  <2>4. h[0] = s0
    BY <2>1
  <2>5. ASSUME NEW x \in 1..k
        PROVE  h[x] = g[x][h[x - 1]]
    <3>1. CASE x = k
      <4>1. h[k - 1] = f[k - 1] /\ h[k] = g[k][f[k - 1]]
        OBVIOUS
      <4> QED BY <3>1, <4>1
    <3>2. CASE x # k
      <4>1. x \in 1..(k - 1) /\ x - 1 \in 0..k /\ x - 1 # k
        BY <3>2
      <4>2. h[x] = f[x] /\ h[x - 1] = f[x - 1]
        BY <4>1
      <4>3. f[x] = g[x][f[x - 1]]
        BY <2>1, <4>1
      <4> HIDE DEF h
      <4> QED BY <4>2, <4>3
    <3> QED BY <3>1, <3>2
  <2>6. Good(k, h)
    BY <2>4, <2>5
  <2> HIDE DEF h, Good
  <2>7. k \in 0..n /\ \E e \in [0..k -> S] : Good(k, e)
    BY <2>3, <2>6
  <2> QED BY <2>7
<1> HIDE DEF T
<1>3. n \in T
  <2>1. \A k \in 1..n : k - 1 \in T => k \in T
    BY <1>2
  <2>2. \A k \in 0..n : k \in T
    BY <1>1, <2>1, UpTo
  <2> QED BY <2>2
<1>4. PICK f \in [0..n -> S] : Good(n, f)
  BY <1>3 DEF T
<1> QED BY <1>4 DEF Iterates

================================================================================
