-------------------------- MODULE RecursiveFunctions --------------------------
(***************************************************************************)
(* Functions defined by recursion over an interval of integers: that there *)
(* is one, and induction over the interval to find out what it is.  The    *)
(* step is a function and not an operator, so that the lemmas can be used  *)
(* by every prover.                                                        *)
(***************************************************************************)
EXTENDS Integers, TLAPS, WellFoundedInduction

(* A set of numbers that is not empty has a least one. *)
LEMMA LeastNatural ==
  ASSUME NEW T \in SUBSET Nat, T # {}
  PROVE  \E m \in T : \A n \in T : m <= n
<1> DEFINE R == OpToRel(<, Nat)
<1>1. \A m, n \in Nat : m < n => <<m, n>> \in R
  BY DEF OpToRel
<1>2. IsWellFoundedOn(R, Nat)
  BY NatLessThanWellFounded
<1> HIDE DEF R
<1>3. PICK m \in T : \A n \in T : ~(<<n, m>> \in R)
  BY <1>2, WFMin
<1>4. ASSUME NEW n \in T PROVE m <= n
  <2>1. ~(n < m)
    BY <1>1, <1>3
  <2>2. m \in Nat /\ n \in Nat
    OBVIOUS
  <2> QED
    BY <2>1, <2>2
<1> QED
  BY <1>4

(* Induction from a to b. *)
LEMMA UpTo ==
  ASSUME NEW a \in Int, NEW b \in Int, NEW S, a \in S,
         \A k \in a..(b - 1) : k \in S => k + 1 \in S
  PROVE  \A k \in a..b : k \in S
<1> DEFINE T == {n \in Nat : a + n <= b /\ a + n \notin S}
<1>1. ASSUME T # {} PROVE FALSE
  <2>1. PICK m \in T : \A n \in T : m <= n
    BY <1>1, LeastNatural
  <2>2. m # 0
    BY <2>1
  <2>3. m - 1 \in Nat /\ m - 1 \notin T
    BY <2>1, <2>2
  <2>4. a + (m - 1) \in S /\ a + (m - 1) \in a..(b - 1)
    BY <2>1, <2>2, <2>3
  <2>5. (a + (m - 1)) + 1 = a + m
    BY <2>1
  <2> QED
    BY <2>1, <2>4, <2>5
<1>2. ASSUME NEW k \in a..b PROVE k \in S
  <2>1. k - a \in Nat /\ a + (k - a) = k /\ k <= b
    OBVIOUS
  <2>2. k - a \notin T
    BY <1>1
  <2> QED
    BY <2>1, <2>2
<1> QED
  BY <1>2

(* Functions from a..b into a set S that are defined by recursion: at a by  *)
(* first, and after that by a step from the number and the value before it. *)
Steps(a, b, S) == [(a..b) \X S -> S]
Recursive(f, a, b, S, first, Step) ==
  /\ f \in [a..b -> S]
  /\ f[a] = first
  /\ \A k \in a..b : k # a => f[k] = Step[<<k, f[k - 1]>>]

LEMMA Recursion ==
  ASSUME NEW a \in Int, NEW b \in Int, a <= b, NEW S, NEW first \in S,
         NEW Step \in Steps(a, b, S)
  PROVE  \E f : Recursive(f, a, b, S, first, Step)
<1> DEFINE T == {n \in a..b : \E f : Recursive(f, a, n, S, first, Step)}
<1>1. a \in T
  <2> DEFINE f == [k \in a..a |-> first]
  <2>1. Recursive(f, a, a, S, first, Step)
    BY DEF Recursive
  <2>2. a \in a..b
    OBVIOUS
  <2> HIDE DEF f
  <2> QED
    BY <2>1, <2>2
<1>2. ASSUME NEW n \in a..(b - 1), n \in T PROVE n + 1 \in T
  <2>1. PICK f : Recursive(f, a, n, S, first, Step)
    BY <1>2
  <2> DEFINE g == [k \in a..(n + 1) |->
                     IF k = n + 1 THEN Step[<<n + 1, f[n]>>] ELSE f[k]]
  <2>2. n + 1 \in a..b /\ f[n] \in S /\ n \in a..n
    BY <2>1 DEF Recursive
  <2>3. Step[<<n + 1, f[n]>>] \in S
    BY <2>2 DEF Steps
  <2>4. f \in [a..n -> S]
    BY <2>1 DEF Recursive
  <2>5. g \in [a..(n + 1) -> S]
    BY <2>3, <2>4
  <2>6. \A k \in a..n : g[k] = f[k]
    OBVIOUS
  <2>7. g[n + 1] = Step[<<n + 1, g[n]>>]
    <3>1. g[n] = f[n] /\ n + 1 \in a..(n + 1)
      OBVIOUS
    <3>2. g[n + 1] = Step[<<n + 1, f[n]>>]
      BY <3>1
    <3> QED
      BY <3>1, <3>2
  <2> HIDE DEF g
  <2>8. g[a] = first
    BY <2>1, <2>6 DEF Recursive
  <2>9. ASSUME NEW k \in a..(n + 1), k # a PROVE g[k] = Step[<<k, g[k - 1]>>]
    <3>1. CASE k = n + 1
      BY <2>7, <3>1
    <3>2. CASE k # n + 1
      <4>1. k \in a..n /\ k - 1 \in a..n
        BY <2>9, <3>2
      <4>2. f[k] = Step[<<k, f[k - 1]>>]
        BY <2>1, <2>9, <4>1 DEF Recursive
      <4> QED
        BY <2>6, <4>1, <4>2
    <3> QED
      BY <3>1, <3>2
  <2>10. Recursive(g, a, n + 1, S, first, Step)
    BY <2>5, <2>8, <2>9 DEF Recursive
  <2> QED
    BY <2>2, <2>10
<1>3. \A k \in a..b : k \in T
  <2> HIDE DEF T
  <2> QED
    BY <1>1, <1>2, UpTo
<1>4. b \in T
  BY <1>3
<1> QED
  BY <1>4 DEF T

(* A function that makes the steps from S makes them all, as it stays in S. *)
LEMMA RecursionStays ==
  ASSUME NEW a \in Int, NEW b \in Int, a <= b, NEW S, NEW first \in S,
         NEW Step \in Steps(a, b, S),
         NEW F, F = [k \in a..b |-> F[k]], F[a] = first,
         \A k \in a..b : k # a /\ F[k - 1] \in S => F[k] = Step[<<k, F[k - 1]>>]
  PROVE  Recursive(F, a, b, S, first, Step)
<1> DEFINE T == {k \in a..b : F[k] \in S}
<1>1. \A k \in a..b : k \in T
  <2>1. a \in T
    OBVIOUS
  <2>2. ASSUME NEW k \in a..(b - 1), k \in T PROVE k + 1 \in T
    <3>1. k + 1 \in a..b /\ k + 1 # a /\ (k + 1) - 1 = k
      OBVIOUS
    <3>2. F[k + 1] = Step[<<k + 1, F[k]>>]
      BY <2>2, <3>1
    <3>3. Step[<<k + 1, F[k]>>] \in S
      BY <2>2, <3>1 DEF Steps
    <3> QED
      BY <3>1, <3>2, <3>3
  <2> HIDE DEF T
  <2> QED
    BY <2>1, <2>2, UpTo
<1>2. F \in [a..b -> S]
  BY <1>1
<1>3. ASSUME NEW k \in a..b, k # a PROVE F[k] = Step[<<k, F[k - 1]>>]
  <2>1. k - 1 \in a..b
    BY <1>3
  <2> QED
    BY <1>1, <1>3, <2>1
<1> QED
  BY <1>2, <1>3 DEF Recursive
=============================================================================
