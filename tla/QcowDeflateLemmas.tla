------------------------- MODULE QcowDeflateLemmas -------------------------
(***************************************************************************)
(* What the operators of QcowDeflate return, for every byte there can be   *)
(* in the data: the bits of bytes, the numbers they make, the trees that   *)
(* are built from sizes of codes, and the symbols that are found in them.  *)
(* And that they read what DeflateFormat writes: numbers, codes, sizes of  *)
(* codes, matches and stored blocks, wherever these are among the bits.    *)
(***************************************************************************)
EXTENDS QcowDeflate, DeflateFormat, RecursiveFunctions, FiniteSetTheorems

-----------------------------------------------------------------------------
(* Powers of two.                                                          *)

(* A power of two is how many sets there are of so many numbers. *)
LEMMA PowerIsNat ==
  ASSUME NEW n \in Nat
  PROVE  2 ^ n \in Nat \ {0}
<1>1. IsFiniteSet(1..n) /\ Cardinality(1..n) = n
  BY FS_Interval
<1>2. IsFiniteSet(SUBSET (1..n)) /\ Cardinality(SUBSET (1..n)) = 2 ^ n
  BY <1>1, FS_SUBSET
<1>3. SUBSET (1..n) # {}
  OBVIOUS
<1> QED
  BY <1>2, <1>3, FS_CardinalityType, FS_EmptySet

(* A set of the first a and the next b numbers is one of either. *)
LEMMA PowerOfSum ==
  ASSUME NEW a \in Nat, NEW b \in Nat
  PROVE  2 ^ (a + b) = (2 ^ a) * (2 ^ b)
<1> DEFINE A == 1..a
           B == (a + 1)..(a + b)
           C == 1..(a + b)
           Join == [p \in (SUBSET A) \X (SUBSET B) |-> p[1] \cup p[2]]
<1>1. IsFiniteSet(A) /\ Cardinality(A) = a
  BY FS_Interval
<1>2. IsFiniteSet(B) /\ Cardinality(B) = b
  <2>1. a + 1 \in Int /\ a + b \in Int
    OBVIOUS
  <2>2. IsFiniteSet(B) /\ Cardinality(B) =
          IF a + 1 > a + b THEN 0 ELSE (a + b) - (a + 1) + 1
    BY <2>1, FS_Interval
  <2> QED
    BY <2>2
<1>3. IsFiniteSet(C) /\ Cardinality(C) = a + b
  <2>1. a + b \in Nat /\ a + b \in Int /\ 1 \in Int
    OBVIOUS
  <2>2. IsFiniteSet(C) /\ Cardinality(C) =
          IF 1 > a + b THEN 0 ELSE (a + b) - 1 + 1
    BY <2>1, FS_Interval
  <2> QED
    BY <2>1, <2>2
<1>4. A \cup B = C /\ A \cap B = {}
  OBVIOUS
<1> HIDE DEF A, B, C
<1>5. /\ IsFiniteSet(SUBSET A) /\ Cardinality(SUBSET A) = 2 ^ a
      /\ IsFiniteSet(SUBSET B) /\ Cardinality(SUBSET B) = 2 ^ b
      /\ Cardinality(SUBSET C) = 2 ^ (a + b)
  BY <1>1, <1>2, <1>3, FS_SUBSET
<1>6. /\ IsFiniteSet((SUBSET A) \X (SUBSET B))
      /\ Cardinality((SUBSET A) \X (SUBSET B)) = (2 ^ a) * (2 ^ b)
  BY <1>5, FS_Product
<1>7. Join \in Bijection((SUBSET A) \X (SUBSET B), SUBSET C)
  <2>1. Join \in [(SUBSET A) \X (SUBSET B) -> SUBSET C]
    BY <1>4
  <2>2. ASSUME NEW p \in (SUBSET A) \X (SUBSET B), NEW q \in (SUBSET A) \X (SUBSET B),
               Join[p] = Join[q]
        PROVE  p = q
    <3>1. p[1] \cup p[2] = q[1] \cup q[2]
      BY <2>2
    <3>2. /\ p[1] \subseteq A /\ p[2] \subseteq B
          /\ q[1] \subseteq A /\ q[2] \subseteq B
      OBVIOUS
    <3>3. p[1] = q[1] /\ p[2] = q[2]
      BY <1>4, <3>1, <3>2
    <3> QED
      BY <3>3
  <2>3. ASSUME NEW s \in SUBSET C
        PROVE  \E p \in (SUBSET A) \X (SUBSET B) : Join[p] = s
    <3>1. <<s \cap A, s \cap B>> \in (SUBSET A) \X (SUBSET B)
      OBVIOUS
    <3>2. (s \cap A) \cup (s \cap B) = s
      BY <1>4
    <3>3. Join[<<s \cap A, s \cap B>>] = s
      BY <3>1, <3>2
    <3> QED
      BY <3>1, <3>3
  <2> HIDE DEF Join
  <2> QED
    BY <2>1, <2>2, <2>3 DEF Bijection, Injection, Surjection, IsInjective
<1> HIDE DEF Join
<1>8. ExistsBijection((SUBSET A) \X (SUBSET B), SUBSET C)
  BY <1>7 DEF ExistsBijection
<1>9. Cardinality(SUBSET C) = Cardinality((SUBSET A) \X (SUBSET B))
  BY <1>6, <1>8, FS_Bijection
<1> QED
  BY <1>5, <1>6, <1>9

(* A number is so many times another, and what is left over. *)
LEMMA Division ==
  ASSUME NEW a \in Nat, NEW b \in Nat \ {0}
  PROVE  /\ a \div b \in Nat
         /\ a % b \in 0..(b - 1)
         /\ a = ((a \div b) * b) + (a % b)
<1>1. a \div b \in Nat
  OBVIOUS
<1>2. a % b \in 0..(b - 1)
  OBVIOUS
<1>3. a = ((a \div b) * b) + (a % b)
  OBVIOUS
<1> QED
  BY <1>1, <1>2, <1>3

(* Fewer times the same is less. *)
LEMMA FewerTimes ==
  ASSUME NEW a \in Nat, NEW b \in Nat, NEW n \in Nat \ {0}, a * n < b * n
  PROVE  a < b
OBVIOUS

(* A number that is divided twice goes into three parts. *)
LEMMA DivisionTwice ==
  ASSUME NEW o \in Nat, NEW c \in Nat \ {0}, NEW e \in Nat \ {0}
  PROVE  o = ((o \div (c * e)) * (c * e)) + (((o \div c) % e) * c) + (o % c)
<1> DEFINE q == o \div c
           r == o % c
<1>1. q \in Nat /\ r \in 0..(c - 1) /\ o = (q * c) + r
  BY Division
<1>2. o \div (c * e) = q \div e
  <2>1. c * e \in Nat \ {0}
    OBVIOUS
  <2> QED
    BY <1>1, <2>1
<1> HIDE DEF q, r
<1> DEFINE k == q \div e
           m == q % e
<1>3. k \in Nat /\ m \in Nat /\ q = (k * e) + m
  BY <1>1, Division
<1>4. o = (((k * e) + m) * c) + r
  BY <1>1, <1>3
<1> HIDE DEF k, m
<1>5. ((k * e) + m) * c = (k * (c * e)) + (m * c)
  BY <1>3
<1>6. r \in Nat /\ k * (c * e) \in Nat /\ m * c \in Nat
  BY <1>1, <1>3
<1> QED
  BY <1>2, <1>4, <1>5, <1>6 DEF q, r, k, m

-----------------------------------------------------------------------------
(* The functions of QcowDeflate that are defined by recursion.             *)

(* The symbols of one size, found one symbol after the other. *)
LEMMA SymbolsByRecursion ==
  ASSUME NEW code_sizes, NEW n, Len(code_sizes) \in Nat
  PROVE  \E f \in [0..Len(code_sizes) -> Seq(0..(Len(code_sizes) - 1))] :
           /\ f[0] = <<>>
           /\ \A k \in 1..Len(code_sizes) : f[k] =
                f[k - 1] \o (IF code_sizes[k] = n THEN <<k - 1>> ELSE <<>>)
           /\ SymbolsOfSize(code_sizes, n) = f[Len(code_sizes)]
<1> DEFINE Next(k, v) == v \o (IF code_sizes[k] = n THEN <<k - 1>> ELSE <<>>)
           F == CHOOSE f : f =
             [k \in 0..Len(code_sizes) |-> IF k = 0 THEN <<>> ELSE Next(k, f[k - 1])]
           V == Seq(0..(Len(code_sizes) - 1))
           Step == [p \in (0..Len(code_sizes)) \X V |->
                      IF p[1] = 0 THEN <<>> ELSE Next(p[1], p[2])]
<1>1. Len(code_sizes) \in Int /\ 0 <= Len(code_sizes) /\ 0 \in Int /\ <<>> \in V
  OBVIOUS
<1>2. ASSUME NEW k \in 0..Len(code_sizes), k # 0, NEW v \in V PROVE Next(k, v) \in V
  <2>1. k - 1 \in 0..(Len(code_sizes) - 1)
    BY <1>1, <1>2
  <2>2. CASE code_sizes[k] = n
    BY <2>1, <2>2
  <2>3. CASE code_sizes[k] # n
    BY <2>3
  <2> QED
    BY <2>2, <2>3
<1>3. SymbolsOfSize(code_sizes, n) = F[Len(code_sizes)]
  BY DEF SymbolsOfSize
<1> HIDE DEF V, Next
<1>4. Step \in Steps(0, Len(code_sizes), V)
  BY <1>1, <1>2 DEF Steps
<1>5. ASSUME NEW k \in 0..Len(code_sizes), k # 0, NEW v \in V
      PROVE  Step[<<k, v>>] = Next(k, v)
  BY <1>5
<1> HIDE DEF Step
<1>6. F = [k \in 0..Len(code_sizes) |-> IF k = 0 THEN <<>> ELSE Next(k, F[k - 1])]
  <2>1. PICK f : Recursive(f, 0, Len(code_sizes), V, <<>>, Step)
    BY <1>1, <1>4, Recursion
  <2>2. f \in [0..Len(code_sizes) -> V] /\ f[0] = <<>>
    BY <2>1 DEF Recursive
  <2>3. ASSUME NEW k \in 0..Len(code_sizes), k # 0 PROVE f[k] = Next(k, f[k - 1])
    <3>1. f[k] = Step[<<k, f[k - 1]>>]
      BY <2>1, <2>3 DEF Recursive
    <3>2. f[k - 1] \in V
      BY <1>1, <2>2, <2>3
    <3> QED
      BY <1>5, <2>3, <3>1, <3>2
  <2>4. f = [k \in 0..Len(code_sizes) |-> IF k = 0 THEN <<>> ELSE Next(k, f[k - 1])]
    BY <2>2, <2>3
  <2> QED
    BY <2>4 DEF Next
<1> HIDE DEF F
<1>7. \A k \in 0..Len(code_sizes) : k # 0 => F[k] = Next(k, F[k - 1])
  BY <1>6
<1>8. F[0] = <<>> /\ F = [k \in 0..Len(code_sizes) |-> F[k]]
  BY <1>1, <1>6
<1>9. Recursive(F, 0, Len(code_sizes), V, <<>>, Step)
  <2>1. \A k \in 0..Len(code_sizes) : k # 0 /\ F[k - 1] \in V => F[k] = Step[<<k, F[k - 1]>>]
    BY <1>5, <1>7
  <2> QED
    BY <1>1, <1>4, <1>8, <2>1, RecursionStays
<1>10. F \in [0..Len(code_sizes) -> V]
  BY <1>9 DEF Recursive
<1>11. \A k \in 1..Len(code_sizes) : F[k] = Next(k, F[k - 1])
  BY <1>1, <1>7
<1> QED
  BY <1>3, <1>8, <1>10, <1>11 DEF V, Next

(* All symbols, one size after the other. *)
LEMMA SortedByRecursion ==
  ASSUME NEW code_sizes, Len(code_sizes) \in Nat,
         \A n : SymbolsOfSize(code_sizes, n) \in Seq(0..(Len(code_sizes) - 1))
  PROVE  \E f \in [0..15 -> Seq(0..(Len(code_sizes) - 1))] :
           /\ f[0] = <<>>
           /\ \A k \in 1..15 : f[k] =
                f[k - 1] \o SymbolsOfSize(code_sizes, k)
           /\ SortedSymbols(code_sizes) = f[15]
<1> DEFINE Next(k, v) == v \o SymbolsOfSize(code_sizes, k)
           F == CHOOSE f : f =
             [k \in 0..15 |-> IF k = 0 THEN <<>> ELSE Next(k, f[k - 1])]
           V == Seq(0..(Len(code_sizes) - 1))
           Step == [p \in (0..15) \X V |->
                      IF p[1] = 0 THEN <<>> ELSE Next(p[1], p[2])]
<1>1. 15 \in Int /\ 0 <= 15 /\ 0 \in Int /\ <<>> \in V
  OBVIOUS
<1>2. ASSUME NEW k \in 0..15, k # 0, NEW v \in V PROVE Next(k, v) \in V
  OBVIOUS
<1>3. SortedSymbols(code_sizes) = F[15]
  BY DEF SortedSymbols, MaximumCodeSize
<1> HIDE DEF V, Next
<1>4. Step \in Steps(0, 15, V)
  BY <1>1, <1>2 DEF Steps
<1>5. ASSUME NEW k \in 0..15, k # 0, NEW v \in V
      PROVE  Step[<<k, v>>] = Next(k, v)
  BY <1>5
<1> HIDE DEF Step
<1>6. F = [k \in 0..15 |-> IF k = 0 THEN <<>> ELSE Next(k, F[k - 1])]
  <2>1. PICK f : Recursive(f, 0, 15, V, <<>>, Step)
    BY <1>1, <1>4, Recursion
  <2>2. f \in [0..15 -> V] /\ f[0] = <<>>
    BY <2>1 DEF Recursive
  <2>3. ASSUME NEW k \in 0..15, k # 0 PROVE f[k] = Next(k, f[k - 1])
    <3>1. f[k] = Step[<<k, f[k - 1]>>]
      BY <2>1, <2>3 DEF Recursive
    <3>2. f[k - 1] \in V
      BY <1>1, <2>2, <2>3
    <3> QED
      BY <1>5, <2>3, <3>1, <3>2
  <2>4. f = [k \in 0..15 |-> IF k = 0 THEN <<>> ELSE Next(k, f[k - 1])]
    BY <2>2, <2>3
  <2> QED
    BY <2>4 DEF Next
<1> HIDE DEF F
<1>7. \A k \in 0..15 : k # 0 => F[k] = Next(k, F[k - 1])
  BY <1>6
<1>8. F[0] = <<>> /\ F = [k \in 0..15 |-> F[k]]
  BY <1>1, <1>6
<1>9. Recursive(F, 0, 15, V, <<>>, Step)
  <2>1. \A k \in 0..15 : k # 0 /\ F[k - 1] \in V => F[k] = Step[<<k, F[k - 1]>>]
    BY <1>5, <1>7
  <2> QED
    BY <1>1, <1>4, <1>8, <2>1, RecursionStays
<1>10. F \in [0..15 -> V]
  BY <1>9 DEF Recursive
<1>11. \A k \in 1..15 : F[k] = Next(k, F[k - 1])
  BY <1>1, <1>7
<1> QED
  BY <1>3, <1>8, <1>10, <1>11 DEF V, Next

(* A number, from its last bit to its first. *)
LEMMA NumberByRecursion ==
  ASSUME NEW bits \in Seq(Bits)
  PROVE  \E f \in [0..Len(bits) -> Nat] :
           /\ f[0] = 0
           /\ \A k \in 1..Len(bits) : f[k] =
                bits[Len(bits) - k + 1] + (2 * f[k - 1])
           /\ Number(bits) = f[Len(bits)]
<1> DEFINE Next(k, v) == bits[Len(bits) - k + 1] + (2 * v)
           F == CHOOSE f : f =
             [k \in 0..Len(bits) |-> IF k = 0 THEN 0 ELSE Next(k, f[k - 1])]
           V == Nat
           Step == [p \in (0..Len(bits)) \X V |->
                      IF p[1] = 0 THEN 0 ELSE Next(p[1], p[2])]
<1>1. Len(bits) \in Int /\ 0 <= Len(bits) /\ 0 \in Int /\ 0 \in V
  OBVIOUS
<1>2. ASSUME NEW k \in 0..Len(bits), k # 0, NEW v \in V PROVE Next(k, v) \in V
  <2>1. Len(bits) - k + 1 \in 1..Len(bits)
    BY <1>1, <1>2
  <2>2. bits[Len(bits) - k + 1] \in Bits
    BY <2>1
  <2> QED
    BY <1>2, <2>2 DEF Bits
<1>3. Number(bits) = F[Len(bits)]
  BY DEF Number
<1> HIDE DEF V, Next
<1>4. Step \in Steps(0, Len(bits), V)
  BY <1>1, <1>2 DEF Steps
<1>5. ASSUME NEW k \in 0..Len(bits), k # 0, NEW v \in V
      PROVE  Step[<<k, v>>] = Next(k, v)
  BY <1>5
<1> HIDE DEF Step
<1>6. F = [k \in 0..Len(bits) |-> IF k = 0 THEN 0 ELSE Next(k, F[k - 1])]
  <2>1. PICK f : Recursive(f, 0, Len(bits), V, 0, Step)
    BY <1>1, <1>4, Recursion
  <2>2. f \in [0..Len(bits) -> V] /\ f[0] = 0
    BY <2>1 DEF Recursive
  <2>3. ASSUME NEW k \in 0..Len(bits), k # 0 PROVE f[k] = Next(k, f[k - 1])
    <3>1. f[k] = Step[<<k, f[k - 1]>>]
      BY <2>1, <2>3 DEF Recursive
    <3>2. f[k - 1] \in V
      BY <1>1, <2>2, <2>3
    <3> QED
      BY <1>5, <2>3, <3>1, <3>2
  <2>4. f = [k \in 0..Len(bits) |-> IF k = 0 THEN 0 ELSE Next(k, f[k - 1])]
    BY <2>2, <2>3
  <2> QED
    BY <2>4 DEF Next
<1> HIDE DEF F
<1>7. \A k \in 0..Len(bits) : k # 0 => F[k] = Next(k, F[k - 1])
  BY <1>6
<1>8. F[0] = 0 /\ F = [k \in 0..Len(bits) |-> F[k]]
  BY <1>1, <1>6
<1>9. Recursive(F, 0, Len(bits), V, 0, Step)
  <2>1. \A k \in 0..Len(bits) : k # 0 /\ F[k - 1] \in V => F[k] = Step[<<k, F[k - 1]>>]
    BY <1>5, <1>7
  <2> QED
    BY <1>1, <1>4, <1>8, <2>1, RecursionStays
<1>10. F \in [0..Len(bits) -> V]
  BY <1>9 DEF Recursive
<1>11. \A k \in 1..Len(bits) : F[k] = Next(k, F[k - 1])
  BY <1>1, <1>7
<1> QED
  BY <1>3, <1>8, <1>10, <1>11 DEF V, Next

(* Where the symbols of a size start. *)
LEMMA FirstIndexByRecursion ==
  ASSUME NEW tree, tree.code_size_counts \in [CodeSizes -> Nat]
  PROVE  /\ FirstIndex(tree) \in [1..15 -> Nat]
         /\ FirstIndex(tree)[1] = 0
         /\ \A k \in 2..15 : FirstIndex(tree)[k] =
              FirstIndex(tree)[k - 1] + tree.code_size_counts[k - 1]
<1> DEFINE Next(k, v) == v + tree.code_size_counts[k - 1]
           F == FirstIndex(tree)
           V == Nat
           Step == [p \in (1..15) \X V |->
                      IF p[1] = 1 THEN 0 ELSE Next(p[1], p[2])]
<1>1. 15 \in Int /\ 1 <= 15 /\ 1 \in Int /\ 0 \in V
  OBVIOUS
<1>2. ASSUME NEW k \in 1..15, k # 1, NEW v \in V PROVE Next(k, v) \in V
  <2>1. k - 1 \in CodeSizes
    BY <1>2 DEF CodeSizes, MaximumCodeSize
  <2>2. tree.code_size_counts[k - 1] \in Nat
    BY <2>1
  <2> QED
    BY <1>2, <2>2
<1> HIDE DEF V, Next
<1>4. Step \in Steps(1, 15, V)
  BY <1>1, <1>2 DEF Steps
<1>5. ASSUME NEW k \in 1..15, k # 1, NEW v \in V
      PROVE  Step[<<k, v>>] = Next(k, v)
  BY <1>5
<1> HIDE DEF Step
<1>6. F = [k \in 1..15 |-> IF k = 1 THEN 0 ELSE Next(k, F[k - 1])]
  <2>1. PICK f : Recursive(f, 1, 15, V, 0, Step)
    BY <1>1, <1>4, Recursion
  <2>2. f \in [1..15 -> V] /\ f[1] = 0
    BY <2>1 DEF Recursive
  <2>3. ASSUME NEW k \in 1..15, k # 1 PROVE f[k] = Next(k, f[k - 1])
    <3>1. f[k] = Step[<<k, f[k - 1]>>]
      BY <2>1, <2>3 DEF Recursive
    <3>2. f[k - 1] \in V
      BY <1>1, <2>2, <2>3
    <3> QED
      BY <1>5, <2>3, <3>1, <3>2
  <2>4. f = [k \in 1..15 |-> IF k = 1 THEN 0 ELSE Next(k, f[k - 1])]
    BY <2>2, <2>3
  <2> QED
    BY <2>4 DEF Next, FirstIndex, CodeSizes, MaximumCodeSize
<1> HIDE DEF F
<1>7. \A k \in 1..15 : k # 1 => F[k] = Next(k, F[k - 1])
  BY <1>6
<1>8. F[1] = 0 /\ F = [k \in 1..15 |-> F[k]]
  BY <1>1, <1>6
<1>9. Recursive(F, 1, 15, V, 0, Step)
  <2>1. \A k \in 1..15 : k # 1 /\ F[k - 1] \in V => F[k] = Step[<<k, F[k - 1]>>]
    BY <1>5, <1>7
  <2> QED
    BY <1>1, <1>4, <1>8, <2>1, RecursionStays
<1>10. F \in [1..15 -> V]
  BY <1>9 DEF Recursive
<1>11. \A k \in 2..15 : F[k] = Next(k, F[k - 1])
  BY <1>1, <1>7
<1> QED
  BY <1>8, <1>10, <1>11 DEF V, Next, F

(* The first code of a size. *)
LEMMA FirstCodeByRecursion ==
  ASSUME NEW tree, tree.code_size_counts \in [CodeSizes -> Nat]
  PROVE  /\ FirstHuffmanCode(tree) \in [1..15 -> Nat]
         /\ FirstHuffmanCode(tree)[1] = 0
         /\ \A k \in 2..15 : FirstHuffmanCode(tree)[k] =
              (FirstHuffmanCode(tree)[k - 1] + tree.code_size_counts[k - 1]) * 2
<1> DEFINE Next(k, v) == (v + tree.code_size_counts[k - 1]) * 2
           F == FirstHuffmanCode(tree)
           V == Nat
           Step == [p \in (1..15) \X V |->
                      IF p[1] = 1 THEN 0 ELSE Next(p[1], p[2])]
<1>1. 15 \in Int /\ 1 <= 15 /\ 1 \in Int /\ 0 \in V
  OBVIOUS
<1>2. ASSUME NEW k \in 1..15, k # 1, NEW v \in V PROVE Next(k, v) \in V
  <2>1. k - 1 \in CodeSizes
    BY <1>2 DEF CodeSizes, MaximumCodeSize
  <2>2. tree.code_size_counts[k - 1] \in Nat
    BY <2>1
  <2> QED
    BY <1>2, <2>2
<1> HIDE DEF V, Next
<1>4. Step \in Steps(1, 15, V)
  BY <1>1, <1>2 DEF Steps
<1>5. ASSUME NEW k \in 1..15, k # 1, NEW v \in V
      PROVE  Step[<<k, v>>] = Next(k, v)
  BY <1>5
<1> HIDE DEF Step
<1>6. F = [k \in 1..15 |-> IF k = 1 THEN 0 ELSE Next(k, F[k - 1])]
  <2>1. PICK f : Recursive(f, 1, 15, V, 0, Step)
    BY <1>1, <1>4, Recursion
  <2>2. f \in [1..15 -> V] /\ f[1] = 0
    BY <2>1 DEF Recursive
  <2>3. ASSUME NEW k \in 1..15, k # 1 PROVE f[k] = Next(k, f[k - 1])
    <3>1. f[k] = Step[<<k, f[k - 1]>>]
      BY <2>1, <2>3 DEF Recursive
    <3>2. f[k - 1] \in V
      BY <1>1, <2>2, <2>3
    <3> QED
      BY <1>5, <2>3, <3>1, <3>2
  <2>4. f = [k \in 1..15 |-> IF k = 1 THEN 0 ELSE Next(k, f[k - 1])]
    BY <2>2, <2>3
  <2> QED
    BY <2>4 DEF Next, FirstHuffmanCode, CodeSizes, MaximumCodeSize
<1> HIDE DEF F
<1>7. \A k \in 1..15 : k # 1 => F[k] = Next(k, F[k - 1])
  BY <1>6
<1>8. F[1] = 0 /\ F = [k \in 1..15 |-> F[k]]
  BY <1>1, <1>6
<1>9. Recursive(F, 1, 15, V, 0, Step)
  <2>1. \A k \in 1..15 : k # 1 /\ F[k - 1] \in V => F[k] = Step[<<k, F[k - 1]>>]
    BY <1>5, <1>7
  <2> QED
    BY <1>1, <1>4, <1>8, <2>1, RecursionStays
<1>10. F \in [1..15 -> V]
  BY <1>9 DEF Recursive
<1>11. \A k \in 2..15 : F[k] = Next(k, F[k - 1])
  BY <1>1, <1>7
<1> QED
  BY <1>8, <1>10, <1>11 DEF V, Next, F

(* The codes that bits start with. *)
LEMMA CodesByRecursion ==
  ASSUME NEW bits \in Seq(Bits)
  PROVE  /\ HuffmanCodes(bits) \in [0..Len(bits) -> Nat]
         /\ HuffmanCodes(bits)[0] = 0
         /\ \A k \in 1..Len(bits) : HuffmanCodes(bits)[k] =
              (2 * HuffmanCodes(bits)[k - 1]) + bits[k]
<1> DEFINE Next(k, v) == (2 * v) + bits[k]
           F == HuffmanCodes(bits)
           V == Nat
           Step == [p \in (0..Len(bits)) \X V |->
                      IF p[1] = 0 THEN 0 ELSE Next(p[1], p[2])]
<1>1. Len(bits) \in Int /\ 0 <= Len(bits) /\ 0 \in Int /\ 0 \in V
  OBVIOUS
<1>2. ASSUME NEW k \in 0..Len(bits), k # 0, NEW v \in V PROVE Next(k, v) \in V
  BY <1>2 DEF Bits
<1> HIDE DEF V, Next
<1>4. Step \in Steps(0, Len(bits), V)
  BY <1>1, <1>2 DEF Steps
<1>5. ASSUME NEW k \in 0..Len(bits), k # 0, NEW v \in V
      PROVE  Step[<<k, v>>] = Next(k, v)
  BY <1>5
<1> HIDE DEF Step
<1>6. F = [k \in 0..Len(bits) |-> IF k = 0 THEN 0 ELSE Next(k, F[k - 1])]
  <2>1. PICK f : Recursive(f, 0, Len(bits), V, 0, Step)
    BY <1>1, <1>4, Recursion
  <2>2. f \in [0..Len(bits) -> V] /\ f[0] = 0
    BY <2>1 DEF Recursive
  <2>3. ASSUME NEW k \in 0..Len(bits), k # 0 PROVE f[k] = Next(k, f[k - 1])
    <3>1. f[k] = Step[<<k, f[k - 1]>>]
      BY <2>1, <2>3 DEF Recursive
    <3>2. f[k - 1] \in V
      BY <1>1, <2>2, <2>3
    <3> QED
      BY <1>5, <2>3, <3>1, <3>2
  <2>4. f = [k \in 0..Len(bits) |-> IF k = 0 THEN 0 ELSE Next(k, f[k - 1])]
    BY <2>2, <2>3
  <2> QED
    BY <2>4 DEF Next, HuffmanCodes
<1> HIDE DEF F
<1>7. \A k \in 0..Len(bits) : k # 0 => F[k] = Next(k, F[k - 1])
  BY <1>6
<1>8. F[0] = 0 /\ F = [k \in 0..Len(bits) |-> F[k]]
  BY <1>1, <1>6
<1>9. Recursive(F, 0, Len(bits), V, 0, Step)
  <2>1. \A k \in 0..Len(bits) : k # 0 /\ F[k - 1] \in V => F[k] = Step[<<k, F[k - 1]>>]
    BY <1>5, <1>7
  <2> QED
    BY <1>1, <1>4, <1>8, <2>1, RecursionStays
<1>10. F \in [0..Len(bits) -> V]
  BY <1>9 DEF Recursive
<1>11. \A k \in 1..Len(bits) : F[k] = Next(k, F[k - 1])
  BY <1>1, <1>7
<1> QED
  BY <1>8, <1>10, <1>11 DEF V, Next, F

-----------------------------------------------------------------------------
(* Bits.                                                                   *)

(* Bytes are numbers. *)
LEMMA BytesAreNatural == \A b \in Bytes : b \in Nat
BY DEF Bytes

(* Part of a sequence. *)
LEMMA SubSeqOf ==
  ASSUME NEW S, NEW s \in Seq(S), NEW m \in Nat, NEW n \in Nat,
         1 <= m, m <= n + 1, n <= Len(s)
  PROVE  /\ SubSeq(s, m, n) \in Seq(S)
         /\ Len(SubSeq(s, m, n)) = n - m + 1
         /\ \A i \in 1..(n - m + 1) : SubSeq(s, m, n)[i] = s[m + i - 1]
  OBVIOUS

(* One sequence after another. *)
LEMMA ConcatenationOf ==
  ASSUME NEW S, NEW s \in Seq(S), NEW t \in Seq(S)
  PROVE  /\ s \o t \in Seq(S)
         /\ Len(s \o t) = Len(s) + Len(t)
         /\ \A i \in 1..Len(s) : (s \o t)[i] = s[i]
         /\ \A i \in (Len(s) + 1)..(Len(s) + Len(t)) : (s \o t)[i] = t[i - Len(s)]
  OBVIOUS

(* Which byte bit k of some bytes is in, and which of its bits it is. *)
LEMMA PlaceOfBit ==
  ASSUME NEW k \in Nat \ {0}
  PROVE  /\ ((k - 1) \div 8) + 1 \in Nat \ {0}
         /\ ((k - 1) % 8) + 1 \in 1..8
         /\ PlaceValues[((k - 1) % 8) + 1] \in Nat \ {0}
<1>1. (k - 1) \div 8 \in Nat /\ (k - 1) % 8 \in 0..7
  OBVIOUS
<1>2. \A i \in 1..8 : PlaceValues[i] \in Nat \ {0}
  BY DEF PlaceValues
<1>3. ((k - 1) % 8) + 1 \in 1..8
  BY <1>1
<1> QED
  BY <1>1, <1>2, <1>3

(* The bits of bytes are eight for each, in their order. *)
LEMMA BitsOfBytesAreBits ==
  ASSUME NEW bytes \in Seq(Bytes)
  PROVE  /\ BitsOfBytes(bytes) \in Seq(Bits)
         /\ Len(BitsOfBytes(bytes)) = 8 * Len(bytes)
         /\ \A k \in 1..(8 * Len(bytes)) : BitsOfBytes(bytes)[k] =
              (bytes[((k - 1) \div 8) + 1] \div PlaceValues[((k - 1) % 8) + 1]) % 2
<1> DEFINE Bit(k) == (bytes[((k - 1) \div 8) + 1]
                        \div PlaceValues[((k - 1) % 8) + 1]) % 2
           N == 8 * Len(bytes)
<1>1. N \in Nat
  OBVIOUS
<1>2. ASSUME NEW k \in 1..N PROVE Bit(k) \in Bits
  <2> DEFINE i == ((k - 1) \div 8) + 1
             w == PlaceValues[((k - 1) % 8) + 1]
  <2>1. k \in Nat \ {0}
    BY <1>1
  <2>2. i \in 1..Len(bytes)
    OBVIOUS
  <2>3. w \in Nat \ {0}
    BY <2>1, PlaceOfBit
  <2> HIDE DEF i, w
  <2>7. bytes[i] \in Bytes
    BY <2>2
  <2>4. bytes[i] \in Nat
    BY <2>7, BytesAreNatural
  <2>5. bytes[i] \div w \in Int
    BY <2>3, <2>4
  <2>6. (bytes[i] \div w) % 2 \in 0..1
    BY <2>5
  <2> QED
    BY <2>6 DEF i, w, Bits
<1> HIDE DEF Bit
<1>3. BitsOfBytes(bytes) = [k \in 1..N |-> Bit(k)]
  BY DEF BitsOfBytes, Bit
<1>4. [k \in 1..N |-> Bit(k)] \in Seq(Bits) /\ Len([k \in 1..N |-> Bit(k)]) = N
  <2> HIDE DEF N
  <2> QED
    BY <1>1, <1>2
<1>5. \A k \in 1..N : BitsOfBytes(bytes)[k] = Bit(k)
  BY <1>3
<1> QED
  BY <1>3, <1>4, <1>5 DEF Bit

(* Bit k of a byte, the lowest is 1. *)
BitOf(byte, k) == (byte \div PlaceValues[k]) % 2

(* The bits that are left over are the last of the last byte loaded, and    *)
(* fewer than a byte has.                                                   *)
IsStream(s) ==
  /\ s.offset \in 0..Len(data)
  /\ s.buffer \in Seq(Bits)
  /\ Len(s.buffer) < 8
  /\ s.buffer # <<>> => s.offset >= 1
  /\ \A i \in 1..Len(s.buffer) :
       s.buffer[i] = BitOf(data[s.offset], 8 - Len(s.buffer) + i)

(* As many bytes are loaded as are needed, and none more. *)
LEMMA BytesToLoadAreEnough ==
  ASSUME NEW s, IsStream(s), NEW n \in Nat
  PROVE  LET k == BytesToLoad(s, n)
             L == Len(s.buffer)
         IN  /\ k \in Nat
             /\ n <= L => k = 0
             /\ n > L => k >= 1 /\ L + (8 * k) - n \in 0..7
<1>1. Len(s.buffer) \in Nat
  BY DEF IsStream
<1> DEFINE L == Len(s.buffer)
<1>2. BytesToLoad(s, n) = IF n <= L THEN 0 ELSE (n - L + 7) \div 8
  BY DEF BytesToLoad
<1> HIDE DEF L
<1>3. L \in Nat
  BY <1>1 DEF L
<1>4. CASE n <= L
  <2>1. BytesToLoad(s, n) = 0
    BY <1>2, <1>4
  <2> QED
    BY <1>3, <1>4, <2>1 DEF L
<1>5. CASE ~(n <= L)
  <2> DEFINE d == n - L + 7
             q == d \div 8
             r == d % 8
  <2>1. d \in Nat /\ d >= 8
    BY <1>3, <1>5
  <2> HIDE DEF d
  <2>2. q \in Nat /\ r \in 0..7 /\ d = (8 * q) + r
    BY <2>1
  <2> HIDE DEF q, r
  <2>3. q >= 1 /\ L + (8 * q) - n \in 0..7
    BY <1>3, <2>1, <2>2 DEF d
  <2>4. BytesToLoad(s, n) = q
    BY <1>2, <1>5 DEF d, q
  <2> QED
    BY <1>3, <1>5, <2>2, <2>3, <2>4 DEF L
<1> QED
  BY <1>4, <1>5

(* The bits of k bytes from an offset on, and where bit i comes from. *)
LEMMA LoadedBits ==
  ASSUME data \in Seq(Bytes), NEW o \in Nat, NEW k \in Nat, o + k <= Len(data)
  PROVE  LET B == BitsOfBytes(SubSeq(data, o + 1, o + k))
         IN  /\ B \in Seq(Bits)
             /\ Len(B) = 8 * k
             /\ \A j \in 1..8 : k >= 1 =>
                  B[(8 * (k - 1)) + j] = BitOf(data[o + k], j)
<1> DEFINE bytes == SubSeq(data, o + 1, o + k)
<1>1. /\ bytes \in Seq(Bytes) /\ Len(bytes) = k
      /\ \A i \in 1..k : bytes[i] = data[o + i]
  <2>1. o + 1 \in Nat /\ o + k \in Nat /\ 1 <= o + 1 /\ o + 1 <= (o + k) + 1
    OBVIOUS
  <2>2. (o + k) - (o + 1) + 1 = k
    OBVIOUS
  <2>3. /\ bytes \in Seq(Bytes)
        /\ Len(bytes) = (o + k) - (o + 1) + 1
        /\ \A i \in 1..((o + k) - (o + 1) + 1) : bytes[i] = data[(o + 1) + i - 1]
    BY <2>1, SubSeqOf
  <2>4. \A i \in 1..k : (o + 1) + i - 1 = o + i
    OBVIOUS
  <2> QED
    BY <2>2, <2>3, <2>4
<1> HIDE DEF bytes
<1>2. /\ BitsOfBytes(bytes) \in Seq(Bits)
      /\ Len(BitsOfBytes(bytes)) = 8 * k
      /\ \A p \in 1..(8 * k) : BitsOfBytes(bytes)[p] =
           (bytes[((p - 1) \div 8) + 1] \div PlaceValues[((p - 1) % 8) + 1]) % 2
  BY <1>1, BitsOfBytesAreBits
<1>3. ASSUME NEW j \in 1..8, k >= 1
      PROVE  BitsOfBytes(bytes)[(8 * (k - 1)) + j] = BitOf(data[o + k], j)
  <2> DEFINE p == (8 * (k - 1)) + j
  <2>1. p \in 1..(8 * k) /\ ((p - 1) \div 8) + 1 = k /\ ((p - 1) % 8) + 1 = j
    BY <1>3
  <2> HIDE DEF p
  <2>2. BitsOfBytes(bytes)[p] = (bytes[k] \div PlaceValues[j]) % 2
    BY <1>2, <2>1
  <2>3. bytes[k] = data[o + k]
    BY <1>1, <1>3
  <2> QED
    BY <2>2, <2>3 DEF p, BitOf
<1> QED
  BY <1>2, <1>3 DEF bytes

(* What get_value returns are n bits, and a stream in order. *)
LEMMA ValuesOfStream ==
  ASSUME data \in Seq(Bytes), NEW s, IsStream(s), NEW n \in Nat,
         NEW v \in Values(s, n)
  PROVE  /\ v.bits \in Seq(Bits)
         /\ Len(v.bits) = n
         /\ IsStream(v.stream)
<1> DEFINE k == BytesToLoad(s, n)
           o == s.offset
           L == Len(s.buffer)
           B == BitsOfBytes(SubSeq(data, o + 1, o + k))
           bits == s.buffer \o B
           r == L + (8 * k) - n
<1>1. /\ o + k <= Len(data)
      /\ v.bits = SubSeq(bits, 1, n)
      /\ v.stream.offset = o + k
      /\ v.stream.buffer = SubSeq(bits, n + 1, Len(bits))
  <2>1. Values(s, n) =
          IF o + k > Len(data) THEN {}
          ELSE {[bits |-> SubSeq(bits, 1, n),
                 stream |-> [offset |-> o + k,
                             buffer |-> SubSeq(bits, n + 1, Len(bits))]]}
    BY DEF Values
  <2> HIDE DEF bits, k, o
  <2>2. ~(o + k > Len(data))
    BY <2>1
  <2>3. v = [bits |-> SubSeq(bits, 1, n),
             stream |-> [offset |-> o + k,
                         buffer |-> SubSeq(bits, n + 1, Len(bits))]]
    BY <2>1, <2>2
  <2>4. o \in Nat /\ Len(data) \in Nat
    BY DEF IsStream, o
  <2>5. k \in Nat
    BY BytesToLoadAreEnough DEF k
  <2> QED
    BY <2>2, <2>3, <2>4, <2>5
<1>2. o \in Nat /\ L \in 0..7 /\ s.buffer \in Seq(Bits)
  <2>1. s.buffer \in Seq(Bits) /\ L < 8 /\ o \in 0..Len(data)
    BY DEF IsStream
  <2>2. Len(data) \in Nat /\ L \in Nat
    BY <2>1
  <2>3. o \in Nat
    BY <2>1, <2>2
  <2> HIDE DEF L, o
  <2>4. L \in 0..7
    BY <2>1, <2>2
  <2> QED
    BY <2>1, <2>3, <2>4
<1>3. k \in Nat /\ (n <= L => k = 0) /\ (n > L => k >= 1 /\ r \in 0..7)
  BY BytesToLoadAreEnough
<1> HIDE DEF k, o
<1>4. /\ B \in Seq(Bits) /\ Len(B) = 8 * k
      /\ \A j \in 1..8 : k >= 1 => B[(8 * (k - 1)) + j] = BitOf(data[o + k], j)
  BY <1>1, <1>2, <1>3, LoadedBits
<1> HIDE DEF B
<1>5. /\ bits \in Seq(Bits) /\ Len(bits) = L + (8 * k)
      /\ \A i \in 1..L : bits[i] = s.buffer[i]
      /\ \A i \in (L + 1)..(L + (8 * k)) : bits[i] = B[i - L]
  <2>1. /\ bits \in Seq(Bits) /\ Len(bits) = L + Len(B)
        /\ \A i \in 1..L : bits[i] = s.buffer[i]
        /\ \A i \in (L + 1)..(L + Len(B)) : bits[i] = B[i - L]
    <3>1. B \in Seq(Bits) /\ s.buffer \in Seq(Bits)
      BY <1>2, <1>4
    <3> QED
      BY <3>1, ConcatenationOf
  <2> QED
    BY <1>4, <2>1
<1> HIDE DEF bits, L
<1>6. r \in 0..7 /\ n = L + (8 * k) - r
  <2>1. CASE n <= L
    BY <1>2, <1>3, <2>1
  <2>2. CASE n > L
    BY <1>2, <1>3, <2>2
  <2> QED
    BY <1>2, <2>1, <2>2
<1> HIDE DEF r
<1>7. v.bits \in Seq(Bits) /\ Len(v.bits) = n
  <2>1. 1 <= n + 1 /\ n <= Len(bits) /\ 1 \in Nat /\ 1 <= 1 /\ n - 1 + 1 = n
    BY <1>2, <1>3, <1>5, <1>6
  <2> QED
    BY <1>1, <1>5, <2>1, SubSeqOf
<1>8. /\ v.stream.buffer \in Seq(Bits)
      /\ Len(v.stream.buffer) = r
      /\ \A i \in 1..r : v.stream.buffer[i] = bits[n + i]
  <2>1. /\ n + 1 \in Nat /\ Len(bits) \in Nat /\ 1 <= n + 1
        /\ n + 1 <= Len(bits) + 1 /\ Len(bits) - (n + 1) + 1 = r
    BY <1>2, <1>3, <1>5, <1>6
  <2>2. /\ v.stream.buffer \in Seq(Bits)
        /\ Len(v.stream.buffer) = Len(bits) - (n + 1) + 1
        /\ \A i \in 1..(Len(bits) - (n + 1) + 1) :
             v.stream.buffer[i] = bits[(n + 1) + i - 1]
    BY <1>1, <1>5, <2>1, SubSeqOf
  <2>3. \A i \in 1..r : (n + 1) + i - 1 = n + i
    BY <1>6
  <2> QED
    BY <2>1, <2>2, <2>3
<1>9. ASSUME NEW i \in 1..r
      PROVE  v.stream.buffer[i] = BitOf(data[o + k], 8 - r + i)
  <2>1. CASE k >= 1
    <3>1. 8 - r + i \in 1..8
      BY <1>6
    <3>2. /\ n + i \in (L + 1)..(L + (8 * k))
          /\ (n + i) - L = (8 * (k - 1)) + (8 - r + i)
      BY <1>2, <1>3, <1>6, <2>1
    <3>3. v.stream.buffer[i] = bits[n + i] /\ bits[n + i] = B[(n + i) - L]
      BY <1>5, <1>8, <3>2
    <3>4. B[(8 * (k - 1)) + (8 - r + i)] = BitOf(data[o + k], 8 - r + i)
      BY <1>4, <2>1, <3>1
    <3> QED
      BY <3>2, <3>3, <3>4
  <2>2. CASE k = 0
    <3>1. n + i \in 1..L /\ 8 - r + i = 8 - L + (n + i) /\ o + k = o
      BY <1>2, <1>6, <2>2
    <3>2. v.stream.buffer[i] = s.buffer[n + i]
      BY <1>5, <1>8, <3>1
    <3>3. s.buffer[n + i] = BitOf(data[o], 8 - L + (n + i))
      BY <3>1 DEF IsStream, L, o
    <3> QED
      BY <3>1, <3>2, <3>3
  <2> QED
    BY <1>3, <2>1, <2>2
<1>10. v.stream.buffer # <<>> => o + k >= 1
  <2>1. CASE k >= 1
    BY <1>2, <1>3, <2>1
  <2>2. CASE k = 0
    <3>1. L >= r
      BY <1>2, <1>3, <1>6, <2>2
    <3>2. r = 0 => v.stream.buffer = <<>>
      BY <1>8
    <3>3. s.buffer # <<>> => o >= 1
      BY DEF IsStream, o
    <3>4. L > 0 => s.buffer # <<>>
      BY DEF L
    <3> QED
      BY <1>2, <1>6, <2>2, <3>1, <3>2, <3>3, <3>4
  <2> QED
    BY <1>3, <2>1, <2>2
<1>11. o + k \in 0..Len(data)
  BY <1>1, <1>2, <1>3
<1>12. IsStream(v.stream)
  <2>1. Len(v.stream.buffer) < 8 /\ v.stream.offset \in 0..Len(data)
    BY <1>1, <1>6, <1>8, <1>11
  <2>2. v.stream.buffer # <<>> => v.stream.offset >= 1
    BY <1>1, <1>10
  <2>3. \A i \in 1..Len(v.stream.buffer) :
          v.stream.buffer[i]
            = BitOf(data[v.stream.offset], 8 - Len(v.stream.buffer) + i)
    BY <1>1, <1>8, <1>9
  <2> QED
    BY <1>8, <2>1, <2>2, <2>3 DEF IsStream
<1> QED
  BY <1>7, <1>12

-----------------------------------------------------------------------------
(* Trees.                                                                  *)

(* The first index of a size and the number of codes of it stay below the   *)
(* number of codes of all sizes.                                            *)
LEMMA SumsStay ==
  ASSUME NEW length \in [0..15 -> Nat], NEW counts, NEW first \in [1..15 -> Nat],
         \A n \in 1..15 : counts[n] \in Nat,
         length[0] = 0,
         \A n \in 1..15 : length[n] = length[n - 1] + counts[n],
         first[1] = 0,
         \A n \in 2..15 : first[n] = first[n - 1] + counts[n - 1]
  PROVE  \A n \in 1..15 : first[n] + counts[n] <= length[15]
<1> DEFINE S == {n \in 1..15 : first[n] = length[n - 1]}
           T == {n \in 0..15 : \A m \in 0..n : length[m] <= length[n]}
<1>1. 0 \in Int /\ 1 \in Int /\ 15 \in Int
  OBVIOUS
<1>2. \A n \in 1..15 : n \in S
  <2>1. 1 \in S
    OBVIOUS
  <2>2. ASSUME NEW k \in 1..(15 - 1), k \in S PROVE k + 1 \in S
    <3>1. /\ k + 1 \in 1..15 /\ k + 1 \in 2..15 /\ k \in 1..15
          /\ k \in 1..15 /\ (k + 1) - 1 = k
      OBVIOUS
    <3>2. first[k + 1] = first[k] + counts[k] /\ length[k] = length[k - 1] + counts[k]
      BY <3>1
    <3> QED
      BY <2>2, <3>1, <3>2
  <2> HIDE DEF S
  <2> QED
    BY <1>1, <2>1, <2>2, UpTo
<1>3. \A n \in 0..15 : n \in T
  <2>1. 0 \in T
    OBVIOUS
  <2>2. ASSUME NEW k \in 0..(15 - 1), k \in T PROVE k + 1 \in T
    <3>1. /\ k + 1 \in 0..15 /\ k + 1 \in 1..15 /\ k + 1 \in 1..15
          /\ k \in 0..15 /\ (k + 1) - 1 = k
      OBVIOUS
    <3>2. length[k + 1] = length[k] + counts[k + 1] /\ counts[k + 1] \in Nat
      BY <3>1
    <3>3. length[k] <= length[k + 1]
      BY <3>1, <3>2
    <3>4. ASSUME NEW m \in 0..(k + 1) PROVE length[m] <= length[k + 1]
      <4>1. CASE m = k + 1
        BY <3>1, <4>1
      <4>2. CASE m # k + 1
        <5>1. m \in 0..k /\ m \in 0..15
          BY <3>4, <4>2
        <5>2. length[m] <= length[k]
          BY <2>2, <5>1
        <5> QED
          BY <3>1, <3>3, <5>1, <5>2
      <4> QED
        BY <4>1, <4>2
    <3> QED
      BY <3>1, <3>4
  <2> HIDE DEF T
  <2> QED
    BY <1>1, <2>1, <2>2, UpTo
<1>4. ASSUME NEW n \in 1..15 PROVE first[n] + counts[n] <= length[15]
  <2>1. n \in 1..15 /\ n \in 0..15 /\ 15 \in 0..15
    OBVIOUS
  <2>2. first[n] = length[n - 1] /\ length[n] = length[n - 1] + counts[n]
    BY <1>2, <2>1
  <2>3. length[n] <= length[15]
    BY <1>3, <2>1
  <2> QED
    BY <2>2, <2>3
<1> QED
  BY <1>4

(* Sizes below another size. *)
LEMMA BelowSize ==
  ASSUME NEW n \in 1..15, NEW k \in 1..(n - 1)
  PROVE  /\ k \in 1..n /\ k # n /\ k + 1 \in 1..n /\ k + 1 \in 2..15
         /\ k \in 1..15 /\ (k + 1) - 1 = k /\ k \in 0..n /\ k + 1 \in 0..n
         /\ k + 1 \in 1..15
  OBVIOUS

(* The step from the codes of one size to those of the next. *)
LEMMA DoubledStays ==
  ASSUME NEW c \in Int, NEW n \in Int, NEW f \in Int, NEW b \in Nat, ~(c - n < f)
  PROVE  (2 * c) + b >= (f + n) * 2
  OBVIOUS

(* A code of the tree comes after the shorter ones, which is what the       *)
(* comparison with the last code of each size relies on.                    *)
IsFirstCode(n, codes, bits, counts, first) ==
  /\ \A k \in 1..n : bits[k] \in Nat
  /\ codes \in [0..n -> Nat]
  /\ \A k \in 1..n : codes[k] = (2 * codes[k - 1]) + bits[k]
  /\ \A k \in 1..15 : counts[k] \in Nat
  /\ first \in [1..15 -> Nat]
  /\ first[1] = 0
  /\ \A k \in 2..15 : first[k] = (first[k - 1] + counts[k - 1]) * 2
  /\ \A m \in 1..n : codes[m] - counts[m] < first[m] <=> m = n

(* So a code that is found is one of the codes of its size. *)
LEMMA CodesAfterFirst ==
  ASSUME NEW n \in 1..15, NEW codes, NEW bits, NEW counts, NEW first,
         IsFirstCode(n, codes, bits, counts, first)
  PROVE  codes[n] >= first[n] /\ codes[n] - counts[n] < first[n]
<1> DEFINE S == {m \in 1..n : codes[m] >= first[m]}
<1>1. 1 \in S
  <2>1. 1 \in 1..n /\ 1 \in 0..n
    OBVIOUS
  <2>2. codes[1] \in Nat /\ first[1] = 0
    BY <2>1 DEF IsFirstCode
  <2> QED
    BY <2>1, <2>2
<1>2. ASSUME NEW k \in 1..(n - 1), k \in S PROVE k + 1 \in S
  <2>1. /\ k \in 1..n /\ k # n /\ k + 1 \in 1..n /\ k + 1 \in 2..15
        /\ k \in 1..15 /\ (k + 1) - 1 = k /\ k \in 0..n /\ k + 1 \in 0..n
        /\ k + 1 \in 1..15
    BY BelowSize
  <2>2. ~(codes[k] - counts[k] < first[k])
    BY <2>1 DEF IsFirstCode
  <2>3. first[k + 1] = (first[k] + counts[k]) * 2
    BY <2>1 DEF IsFirstCode
  <2>4. codes[k + 1] = (2 * codes[k]) + bits[k + 1] /\ bits[k + 1] \in Nat
    BY <2>1 DEF IsFirstCode
  <2>5. codes[k] \in Nat /\ counts[k] \in Nat /\ first[k] \in Nat
    BY <2>1 DEF IsFirstCode
  <2>6. codes[k + 1] >= first[k + 1]
    BY <2>2, <2>3, <2>4, <2>5, DoubledStays
  <2> QED
    BY <2>1, <2>6
<1>3. \A m \in 1..n : m \in S
  <2>1. 1 \in Int /\ n \in Int
    OBVIOUS
  <2> HIDE DEF S
  <2> QED
    BY <1>1, <1>2, <2>1, UpTo
<1>4. n \in 1..n
  OBVIOUS
<1>5. codes[n] - counts[n] < first[n]
  BY <1>4 DEF IsFirstCode
<1> QED
  BY <1>3, <1>4, <1>5

(* Of each size there are as many symbols as counted, one size after the    *)
(* other, and symbols are those of the N codes.                             *)
IsTree(tree, N) ==
  /\ tree.code_size_counts \in [CodeSizes -> Nat]
  /\ tree.symbols \in Seq(0..(N - 1))
  /\ \A n \in CodeSizes :
       FirstIndex(tree)[n] + tree.code_size_counts[n] <= Len(tree.symbols)

(* Sizes of codes as the other lemmas have them. *)
LEMMA SizesAreNumbers == CodeSizes = 1..15
BY DEF CodeSizes, MaximumCodeSize

(* Symbols are numbers of codes. *)
LEMMA SymbolsAreOfCodes ==
  ASSUME NEW code_sizes, Len(code_sizes) \in Nat, NEW n
  PROVE  SymbolsOfSize(code_sizes, n) \in Seq(0..(Len(code_sizes) - 1))
<1> DEFINE N == Len(code_sizes)
<1>1. PICK f \in [0..N -> Seq(0..(N - 1))] : SymbolsOfSize(code_sizes, n) = f[N]
  BY SymbolsByRecursion
<1>2. N \in 0..N
  OBVIOUS
<1> HIDE DEF N
<1>3. SymbolsOfSize(code_sizes, n) \in Seq(0..(N - 1))
  BY <1>1, <1>2
<1> QED
  BY <1>3 DEF N

(* Every tree that is made from sizes of codes is one. *)
LEMMA TreeFits ==
  ASSUME NEW code_sizes, Len(code_sizes) \in Nat
  PROVE  IsTree(Tree(code_sizes), Len(code_sizes))
<1> DEFINE N == Len(code_sizes)
           tree == Tree(code_sizes)
           counts == tree.code_size_counts
           first == FirstIndex(tree)
           Codes == Seq(0..(N - 1))
<1>1. \A n : SymbolsOfSize(code_sizes, n) \in Codes
  BY SymbolsAreOfCodes
<1>2. /\ counts = [n \in CodeSizes |-> Len(SymbolsOfSize(code_sizes, n))]
      /\ tree.symbols = SortedSymbols(code_sizes)
  BY DEF Tree, CodeSizeCounts
<1>3. PICK f \in [0..15 -> Codes] :
        /\ f[0] = <<>>
        /\ \A n \in 1..15 : f[n] = f[n - 1] \o SymbolsOfSize(code_sizes, n)
        /\ SortedSymbols(code_sizes) = f[15]
  BY <1>1, SortedByRecursion
<1>4. \A c \in Codes : Len(c) \in Nat
  OBVIOUS
<1>5. \A c, d \in Codes : Len(c \o d) = Len(c) + Len(d)
  BY ConcatenationOf
<1>6. Len(<<>>) = 0
  OBVIOUS
<1> DEFINE length == [n \in 0..15 |-> Len(f[n])]
<1> HIDE DEF Codes
<1>7. counts \in [CodeSizes -> Nat]
  <2>1. \A n \in CodeSizes : Len(SymbolsOfSize(code_sizes, n)) \in Nat
    BY <1>1, <1>4
  <2> HIDE DEF tree
  <2> QED
    BY <1>2, <2>1
<1> HIDE DEF tree
<1>8. /\ first \in [1..15 -> Nat]
      /\ first[1] = 0
      /\ \A k \in 2..15 : first[k] = first[k - 1] + counts[k - 1]
  BY <1>7, FirstIndexByRecursion
<1> HIDE DEF first
<1>9. \A n \in 1..15 : counts[n] \in Nat
  BY <1>7, SizesAreNumbers
<1>10. length \in [0..15 -> Nat] /\ length[0] = 0
  <2>1. \A n \in 0..15 : Len(f[n]) \in Nat
    BY <1>3, <1>4
  <2>2. 0 \in 0..15
    OBVIOUS
  <2> QED
    BY <1>3, <1>6, <2>1, <2>2
<1>11. ASSUME NEW n \in 1..15 PROVE length[n] = length[n - 1] + counts[n]
  <2>1. n \in CodeSizes /\ n \in 0..15 /\ n - 1 \in 0..15
    BY SizesAreNumbers
  <2>2. f[n] = f[n - 1] \o SymbolsOfSize(code_sizes, n)
    BY <1>3
  <2>3. f[n - 1] \in Codes
    BY <1>3, <2>1
  <2>4. Len(f[n]) = Len(f[n - 1]) + Len(SymbolsOfSize(code_sizes, n))
    BY <1>1, <1>5, <2>2, <2>3
  <2>5. counts[n] = Len(SymbolsOfSize(code_sizes, n))
    BY <1>2, <2>1
  <2>6. length[n] = Len(f[n]) /\ length[n - 1] = Len(f[n - 1])
    BY <2>1
  <2> HIDE DEF length, counts
  <2> QED
    BY <2>4, <2>5, <2>6
<1>12. length[15] = Len(tree.symbols)
  BY <1>2, <1>3
<1> HIDE DEF length
<1>13. \A n \in 1..15 : first[n] + counts[n] <= length[15]
  <2> HIDE DEF counts
  <2> QED
    BY <1>8, <1>9, <1>10, <1>11, SumsStay
<1>14. tree.symbols \in Codes
  <2>1. 15 \in 0..15
    OBVIOUS
  <2> QED
    BY <1>2, <1>3, <2>1
<1> HIDE DEF N
<1>15. \A n \in CodeSizes : FirstIndex(tree)[n] + counts[n] <= Len(tree.symbols)
  BY <1>12, <1>13, SizesAreNumbers DEF first
<1>16. IsTree(tree, N)
  BY <1>7, <1>14, <1>15 DEF IsTree, Codes
<1> QED
  BY <1>16 DEF tree, N

(* A code that is one of the count of its size is a place among the symbols. *)
LEMMA PlaceAmongSymbols ==
  ASSUME NEW index \in Nat, NEW code \in Nat, NEW first \in Nat, NEW count \in Nat,
         NEW total \in Nat, code >= first, code - count < first,
         index + count <= total
  PROVE  index + code - first + 1 \in 1..total
OBVIOUS

(* The first code that the tree has is one of its size, and has a symbol.   *)
LEMMA CodeOfTree ==
  ASSUME NEW tree, NEW N \in Nat, IsTree(tree, N), NEW bits \in Seq(Bits),
         NEW n \in SizesOfCode(tree, HuffmanCodes(bits)), n <= 15
  PROVE  /\ n \in 1..Len(bits)
         /\ FirstIndex(tree)[n] + HuffmanCodes(bits)[n] - FirstHuffmanCode(tree)[n]
              + 1 \in 1..Len(tree.symbols)
<1> DEFINE codes == HuffmanCodes(bits)
           first == FirstHuffmanCode(tree)
           index == FirstIndex(tree)
           counts == tree.code_size_counts
           L == Len(bits)
<1>1. /\ codes \in [0..L -> Nat]
      /\ \A k \in 1..L : codes[k] = (2 * codes[k - 1]) + bits[k]
  BY CodesByRecursion
<1>2. counts \in [CodeSizes -> Nat]
  BY DEF IsTree
<1>3. /\ first \in [1..15 -> Nat]
      /\ first[1] = 0
      /\ \A k \in 2..15 : first[k] = (first[k - 1] + counts[k - 1]) * 2
  BY <1>2, FirstCodeByRecursion
<1>4. index \in [1..15 -> Nat]
  BY <1>2, FirstIndexByRecursion
<1>5. /\ n \in DOMAIN codes \ {0}
      /\ \A m \in 1..n : IsCode(tree, codes[m], m) <=> m = n
  BY DEF SizesOfCode
<1>6. /\ Len(tree.symbols) \in Nat
      /\ \A m \in CodeSizes : index[m] + counts[m] <= Len(tree.symbols)
  BY DEF IsTree
<1>7. \A m : IsCode(tree, codes[m], m) <=> codes[m] - counts[m] < first[m]
  BY DEF IsCode
<1>8. L \in Nat /\ \A k \in 1..L : bits[k] \in Nat
  BY DEF Bits
<1> HIDE DEF codes, first, index, counts, L
<1>9. n \in 1..L /\ n \in 1..15
  <2>1. n \in 0..L /\ n # 0
    BY <1>1, <1>5
  <2> QED
    BY <1>8, <2>1
<1> DEFINE code == [k \in 0..n |-> codes[k]]
<1>10. IsFirstCode(n, code, bits, counts, first)
  <2>1. \A k \in 1..n : bits[k] \in Nat
    BY <1>8, <1>9
  <2>2. \A k \in 0..n : codes[k] \in Nat
    BY <1>1, <1>8, <1>9
  <2>3. code \in [0..n -> Nat]
    BY <2>2
  <2>4. ASSUME NEW k \in 1..n PROVE code[k] = (2 * code[k - 1]) + bits[k]
    <3>1. k \in 0..n /\ k - 1 \in 0..n /\ k \in 1..L
      BY <1>8, <1>9
    <3>2. code[k] = codes[k] /\ code[k - 1] = codes[k - 1]
      BY <3>1
    <3> QED
      BY <1>1, <3>1, <3>2
  <2>5. \A k \in 1..15 : counts[k] \in Nat
    BY <1>2, SizesAreNumbers
  <2>6. ASSUME NEW m \in 1..n PROVE code[m] - counts[m] < first[m] <=> m = n
    <3>1. code[m] = codes[m]
      <4>1. m \in 0..n
        OBVIOUS
      <4> QED
        BY <4>1
    <3>2. IsCode(tree, codes[m], m) <=> m = n
      BY <1>5
    <3> QED
      BY <1>7, <3>1, <3>2
  <2> HIDE DEF code
  <2> QED
    BY <1>3, <2>1, <2>3, <2>4, <2>5, <2>6 DEF IsFirstCode
<1>11. code[n] = codes[n]
  <2>1. n \in 0..n
    BY <1>9
  <2> QED
    BY <2>1
<1> HIDE DEF code
<1>12. codes[n] >= first[n] /\ codes[n] - counts[n] < first[n]
  BY <1>9, <1>10, <1>11, CodesAfterFirst
<1>13. index[n] + counts[n] <= Len(tree.symbols)
  BY <1>6, <1>9, SizesAreNumbers
<1>14. codes[n] \in Nat /\ counts[n] \in Nat /\ first[n] \in Nat /\ index[n] \in Nat
  <2>1. n \in 0..L
    BY <1>8, <1>9
  <2> QED
    BY <1>1, <1>2, <1>3, <1>4, <1>9, <2>1, SizesAreNumbers
<1> DEFINE M == Len(tree.symbols)
<1>15. index[n] + codes[n] - first[n] + 1 \in 1..M
  BY <1>6, <1>12, <1>13, <1>14, PlaceAmongSymbols
<1> HIDE DEF M
<1> QED
  BY <1>9, <1>15 DEF L, M, index, codes, first

(* Up to 15 bits are looked at to find a code. *)
LEMMA NextBitsAreBits ==
  ASSUME data \in Seq(Bytes), NEW s, IsStream(s)
  PROVE  NextBits(s) \in Seq(Bits) /\ Len(NextBits(s)) <= 15
<1> DEFINE o == s.offset
           end == Least(o + 2, Len(data))
           B == BitsOfBytes(SubSeq(data, o + 1, end))
           loaded == s.buffer \o B
<1>1. o \in 0..Len(data) /\ s.buffer \in Seq(Bits) /\ Len(data) \in Nat
  BY DEF IsStream
<1>2. end \in Nat /\ o <= end /\ end <= Len(data) /\ o \in Nat
  BY <1>1 DEF Least
<1> HIDE DEF end, o
<1>3. SubSeq(data, o + 1, end) \in Seq(Bytes)
  <2>1. o + 1 \in Nat /\ 1 <= o + 1 /\ o + 1 <= end + 1
    BY <1>2
  <2> QED
    BY <1>2, <2>1, SubSeqOf
<1>4. B \in Seq(Bits)
  BY <1>3, BitsOfBytesAreBits
<1> HIDE DEF B
<1>5. loaded \in Seq(Bits)
  BY <1>1, <1>4, ConcatenationOf
<1>6. NextBits(s) = SubSeq(loaded, 1, Least(15, Len(loaded)))
  BY DEF NextBits, MaximumCodeSize, B, end, o
<1> HIDE DEF loaded
<1> DEFINE n == Least(15, Len(loaded))
<1>7. n \in Nat /\ n <= Len(loaded) /\ n <= 15 /\ 1 \in Nat /\ 1 <= 1 /\ 1 <= n + 1
      /\ n - 1 + 1 = n
  BY <1>5 DEF Least
<1> HIDE DEF n
<1>8. SubSeq(loaded, 1, n) \in Seq(Bits) /\ Len(SubSeq(loaded, 1, n)) = n
  BY <1>5, <1>7, SubSeqOf
<1> QED
  BY <1>6, <1>7, <1>8 DEF n

(* What is decoded is a symbol of the tree, whatever the data.              *)
LEMMA SymbolOfTree ==
  ASSUME data \in Seq(Bytes), NEW s, IsStream(s),
         NEW tree, NEW N \in Nat, IsTree(tree, N), NEW d \in Symbols(tree, s)
  PROVE  /\ d.symbol \in 0..(N - 1)
         /\ IsStream(d.stream)
<1> DEFINE codes == HuffmanCodes(NextBits(s))
           Index(n) == FirstIndex(tree)[n] + codes[n] - FirstHuffmanCode(tree)[n] + 1
<1>1. \E n \in SizesOfCode(tree, codes) : \E v \in Values(s, n) :
        d = [symbol |-> tree.symbols[Index(n)], stream |-> v.stream]
  BY DEF Symbols
<1>2. PICK n \in SizesOfCode(tree, codes) : \E v \in Values(s, n) :
        d = [symbol |-> tree.symbols[Index(n)], stream |-> v.stream]
  BY <1>1
<1>3. PICK v \in Values(s, n) :
        d = [symbol |-> tree.symbols[Index(n)], stream |-> v.stream]
  BY <1>2
<1>4. NextBits(s) \in Seq(Bits) /\ Len(NextBits(s)) <= 15
  BY NextBitsAreBits
<1>5. n \in Nat /\ n <= 15
  <2>1. codes \in [0..Len(NextBits(s)) -> Nat]
    BY <1>4, CodesByRecursion
  <2>2. n \in DOMAIN codes
    BY DEF SizesOfCode
  <2>3. Len(NextBits(s)) \in Nat
    BY <1>4
  <2> HIDE DEF codes
  <2>4. n \in 0..Len(NextBits(s))
    BY <2>1, <2>2
  <2> QED
    BY <1>4, <2>3, <2>4
<1>6. Index(n) \in 1..Len(tree.symbols)
  BY <1>4, <1>5, CodeOfTree
<1> HIDE DEF Index
<1>7. tree.symbols[Index(n)] \in 0..(N - 1)
  BY <1>6 DEF IsTree
<1>8. IsStream(v.stream)
  BY <1>5, ValuesOfStream
<1> QED
  BY <1>3, <1>7, <1>8

(* How many numbers there are of so few bits. *)
NumbersOf(n) == <<1, 2, 4, 8, 16, 32>>[n + 1]

(* Bits make a number. *)
LEMMA NumberIsNatural ==
  ASSUME NEW bits \in Seq(Bits)
  PROVE  Number(bits) \in Nat
<1>1. PICK f \in [0..Len(bits) -> Nat] : Number(bits) = f[Len(bits)]
  BY NumberByRecursion
<1>2. Len(bits) \in 0..Len(bits)
  OBVIOUS
<1> QED
  BY <1>1, <1>2

(* Few bits make a small number. *)
LEMMA NumberOfFewBits ==
  ASSUME NEW bits \in Seq(Bits), Len(bits) <= 5
  PROVE  Number(bits) \in Nat /\ Number(bits) < NumbersOf(Len(bits))
<1> DEFINE L == Len(bits)
<1>1. L \in Nat /\ L <= 5 /\ \A k \in 1..L : bits[k] \in 0..1
  BY DEF Bits
<1>2. PICK f :
        /\ f \in [0..L -> Nat]
        /\ f[0] = 0
        /\ \A k \in 1..L : f[k] = bits[L - k + 1] + (2 * f[k - 1])
        /\ Number(bits) = f[L]
  BY NumberByRecursion
<1> HIDE DEF L
<1>3. ASSUME NEW k \in 1..L PROVE f[k] \in Nat /\ f[k] <= (2 * f[k - 1]) + 1
  <2>1. L - k + 1 \in 1..L /\ k \in 1..L /\ k - 1 \in 0..L
    BY <1>1
  <2>2. bits[L - k + 1] \in 0..1 /\ f[k - 1] \in Nat
    BY <1>1, <1>2, <2>1
  <2>3. f[k] = bits[L - k + 1] + (2 * f[k - 1])
    BY <1>2, <2>1
  <2> QED
    BY <2>2, <2>3
<1>4. f[0] \in Nat /\ f[0] <= 0
  BY <1>2
<1>5. ASSUME 1 <= L PROVE f[1] \in Nat /\ f[1] <= 1
  <2>1. 1 \in 1..L /\ 1 - 1 = 0
    BY <1>1, <1>5
  <2>2. f[1] \in Nat /\ f[1] <= (2 * f[0]) + 1
    BY <1>3, <2>1
  <2> QED
    BY <1>4, <2>2
<1>6. ASSUME 2 <= L PROVE f[2] \in Nat /\ f[2] <= 3
  <2>1. 2 \in 1..L /\ 2 - 1 = 1 /\ 1 <= L
    BY <1>1, <1>6
  <2>2. f[2] \in Nat /\ f[2] <= (2 * f[1]) + 1
    BY <1>3, <2>1
  <2> QED
    BY <1>5, <2>1, <2>2
<1>7. ASSUME 3 <= L PROVE f[3] \in Nat /\ f[3] <= 7
  <2>1. 3 \in 1..L /\ 3 - 1 = 2 /\ 2 <= L
    BY <1>1, <1>7
  <2>2. f[3] \in Nat /\ f[3] <= (2 * f[2]) + 1
    BY <1>3, <2>1
  <2> QED
    BY <1>6, <2>1, <2>2
<1>8. ASSUME 4 <= L PROVE f[4] \in Nat /\ f[4] <= 15
  <2>1. 4 \in 1..L /\ 4 - 1 = 3 /\ 3 <= L
    BY <1>1, <1>8
  <2>2. f[4] \in Nat /\ f[4] <= (2 * f[3]) + 1
    BY <1>3, <2>1
  <2> QED
    BY <1>7, <2>1, <2>2
<1>9. ASSUME 5 <= L PROVE f[5] \in Nat /\ f[5] <= 31
  <2>1. 5 \in 1..L /\ 5 - 1 = 4 /\ 4 <= L
    BY <1>1, <1>9
  <2>2. f[5] \in Nat /\ f[5] <= (2 * f[4]) + 1
    BY <1>3, <2>1
  <2>3. f[4] \in Nat /\ f[4] <= 15
    BY <1>8, <2>1
  <2> QED
    BY <2>2, <2>3
<1>10. /\ NumbersOf(0) = 1 /\ NumbersOf(1) = 2 /\ NumbersOf(2) = 4
       /\ NumbersOf(3) = 8 /\ NumbersOf(4) = 16 /\ NumbersOf(5) = 32
  BY DEF NumbersOf
<1>11. L = 0 \/ L = 1 \/ L = 2 \/ L = 3 \/ L = 4 \/ L = 5
  BY <1>1
<1>12. f[L] \in Nat /\ f[L] < NumbersOf(L)
  <2>1. CASE L = 0
    BY <1>4, <1>10, <2>1
  <2>2. CASE L = 1
    BY <1>5, <1>10, <2>2
  <2>3. CASE L = 2
    BY <1>6, <1>10, <2>3
  <2>4. CASE L = 3
    BY <1>7, <1>10, <2>4
  <2>5. CASE L = 4
    BY <1>8, <1>10, <2>5
  <2>6. CASE L = 5
    BY <1>9, <1>10, <2>6
  <2> QED
    BY <1>11, <2>1, <2>2, <2>3, <2>4, <2>5, <2>6
<1> QED
  BY <1>2, <1>12 DEF L

(* No size of a match is more than 258. *)
LEMMA ExtraBitsOfSizes ==
  ASSUME NEW s \in 257..285
  PROVE  /\ literal_codes_base[s - 256] \in Nat
         /\ literal_codes_number_of_extra_bits[s - 256] \in 0..5
         /\ literal_codes_base[s - 256]
              + NumbersOf(literal_codes_number_of_extra_bits[s - 256]) <= 259
<1> DEFINE k == s - 256
<1>1. k \in 1..29
  OBVIOUS
<1> HIDE DEF k
<1>2. literal_codes_base[k] \in Nat
  BY <1>1 DEF literal_codes_base
<1>3. literal_codes_number_of_extra_bits[k] \in 0..5
  BY <1>1 DEF literal_codes_number_of_extra_bits
<1>4. literal_codes_base[k] + NumbersOf(literal_codes_number_of_extra_bits[k]) <= 259
  BY <1>1 DEF literal_codes_base, literal_codes_number_of_extra_bits, NumbersOf
<1> QED
  BY <1>2, <1>3, <1>4 DEF k

(* No distance is 0. *)
LEMMA ExtraBitsOfDistances ==
  ASSUME NEW k \in 1..30
  PROVE  /\ distance_codes_base[k] \in Nat \ {0}
         /\ distance_codes_number_of_extra_bits[k] \in Nat
<1>1. distance_codes_base[k] \in Nat \ {0}
  BY DEF distance_codes_base
<1>2. distance_codes_number_of_extra_bits[k] \in Nat
  BY DEF distance_codes_number_of_extra_bits
<1> QED
  BY <1>1, <1>2

(* A function from 1..n is a sequence. *)
LEMMA SequenceOf ==
  ASSUME NEW n \in Nat, NEW S, NEW f \in [1..n -> S]
  PROVE  f \in Seq(S) /\ Len(f) = n
OBVIOUS

(* A tree of few codes is one of more codes. *)
LEMMA WiderTree ==
  ASSUME NEW tree, NEW M \in Nat, NEW N \in Nat, M <= N, IsTree(tree, M)
  PROVE  IsTree(tree, N)
<1>1. \A k \in 0..(M - 1) : k \in 0..(N - 1)
  OBVIOUS
<1>2. tree.symbols \in Seq(0..(M - 1))
  BY DEF IsTree
<1>3. tree.symbols \in Seq(0..(N - 1))
  BY <1>1, <1>2
<1> QED
  BY <1>3 DEF IsTree

(* A tree that is built from at most N sizes of codes is one of N codes. *)
LEMMA BuiltTreeFits ==
  ASSUME NEW code_sizes, NEW N \in Nat, Len(code_sizes) \in Nat,
         Len(code_sizes) <= N, NEW t \in Trees(code_sizes)
  PROVE  IsTree(t, N)
<1>1. t = Tree(code_sizes)
  BY DEF Trees
<1>2. IsTree(t, Len(code_sizes))
  BY <1>1, TreeFits
<1> QED
  BY <1>2, WiderTree

(* The fixed trees are trees. *)
LEMMA FixedTreesFit ==
  IsTree(FixedLiterals, 288) /\ IsTree(FixedDistances, 30)
<1> DEFINE l == [s \in 1..288 |->
             IF s <= 144 THEN 8 ELSE IF s <= 256 THEN 9 ELSE IF s <= 280 THEN 7 ELSE 8]
           d == [s \in 1..30 |-> 5]
<1>1. l \in [1..288 -> Nat] /\ 288 \in Nat
  OBVIOUS
<1>2. d \in [1..30 -> Nat] /\ 30 \in Nat
  OBVIOUS
<1>3. FixedLiterals = Tree(l) /\ FixedDistances = Tree(d)
  BY DEF FixedLiterals, FixedDistances
<1> HIDE DEF l, d
<1>4. Len(l) = 288
  BY <1>1, SequenceOf
<1>5. Len(d) = 30
  BY <1>2, SequenceOf
<1>6. IsTree(Tree(l), Len(l))
  BY <1>1, <1>4, TreeFits
<1>7. IsTree(Tree(d), Len(d))
  BY <1>2, <1>5, TreeFits
<1> QED
  BY <1>3, <1>4, <1>5, <1>6, <1>7

-----------------------------------------------------------------------------
(* The functions of DeflateFormat that are defined by recursion.           *)

(* Parts are put together one after the other. *)
LEMMA JoinedByRecursion ==
  ASSUME NEW parts, NEW count \in Nat
  PROVE  /\ JoinedUpTo(parts, count) = [k \in 0..count |-> JoinedUpTo(parts, count)[k]]
         /\ JoinedUpTo(parts, count)[0] = <<>>
         /\ \A k \in 1..count : JoinedUpTo(parts, count)[k] =
              JoinedUpTo(parts, count)[k - 1] \o parts[k]
<1> DEFINE Next(k, v) == v \o parts[k]
           F == JoinedUpTo(parts, count)
           Is(f, n) == f = [k \in 0..n |-> IF k = 0 THEN <<>> ELSE Next(k, f[k - 1])]
           T == {n \in 0..(count) : \E f : Is(f, n)}
<1>1. count \in Int /\ 0 <= count /\ 0 \in Int
  OBVIOUS
<1>2. (\E f : Is(f, count)) => Is(F, count)
  BY Zenon DEF JoinedUpTo
<1> HIDE DEF Next, F
<1>3. 0 \in T
  <2> DEFINE g == [k \in 0..0 |-> <<>>]
  <2>1. Is(g, 0)
    OBVIOUS
  <2> HIDE DEF g, Is
  <2> QED
    BY <1>1, <2>1
<1>4. ASSUME NEW n \in 0..(count - 1), n \in T PROVE n + 1 \in T
  <2>1. PICK f : Is(f, n)
    BY <1>4
  <2> DEFINE g == [k \in 0..(n + 1) |-> IF k = n + 1 THEN Next(n + 1, f[n]) ELSE f[k]]
  <2>2. \A k \in 0..n : k # 0 => f[k] = Next(k, f[k - 1])
    BY <2>1
  <2>3. f[0] = <<>>
    BY <1>1, <2>1
  <2>4. g[n + 1] = Next(n + 1, f[n]) /\ \A k \in 0..n : g[k] = f[k]
    BY <1>1
  <2>5. g[0] = <<>>
    BY <1>1, <2>3, <2>4
  <2>6. ASSUME NEW k \in 0..(n + 1), k # 0 PROVE g[k] = Next(k, g[k - 1])
    <3>1. k - 1 \in 0..n /\ g[k - 1] = f[k - 1]
      BY <1>1, <2>4, <2>6
    <3>2. CASE k = n + 1
      <4>1. k - 1 = n
        BY <3>2
      <4> QED
        BY <2>4, <3>1, <3>2, <4>1
    <3>3. CASE k # n + 1
      <4>1. k \in 0..n
        BY <2>6, <3>3
      <4> QED
        BY <2>2, <2>4, <2>6, <3>1, <4>1
    <3> QED
      BY <3>2, <3>3
  <2>7. g = [k \in 0..(n + 1) |-> g[k]]
    OBVIOUS
  <2> HIDE DEF g
  <2>8. Is(g, n + 1)
    BY <2>5, <2>6, <2>7
  <2> QED
    BY <1>1, <2>8
<1>5. \A n \in 0..count : n \in T
  <2> HIDE DEF T
  <2> QED
    BY <1>1, <1>3, <1>4, UpTo
<1>6. count \in T
  BY <1>1, <1>5
<1>7. Is(F, count)
  BY <1>2, <1>6
<1>8. F = [k \in 0..count |-> F[k]] /\ F[0] = <<>>
  BY <1>1, <1>7
<1>9. \A k \in 1..count : F[k] = Next(k, F[k - 1])
  BY <1>1, <1>7
<1> QED
  BY <1>8, <1>9, Zenon DEF F, Next

(* The text after each item of a block. *)
LEMMA ItemTextsByRecursion ==
  ASSUME NEW text, NEW items, NEW count \in Nat, Len(items) = count
  PROVE  /\ ItemTexts(text, items) = [k \in 0..count |-> ItemTexts(text, items)[k]]
         /\ ItemTexts(text, items)[0] = text
         /\ \A k \in 1..count : ItemTexts(text, items)[k] =
              TextAfterItem(ItemTexts(text, items)[k - 1], items[k])
<1> DEFINE Next(k, v) == TextAfterItem(v, items[k])
           F == ItemTexts(text, items)
           Is(f, n) == f = [k \in 0..n |-> IF k = 0 THEN text ELSE Next(k, f[k - 1])]
           T == {n \in 0..(count) : \E f : Is(f, n)}
<1>1. count \in Int /\ 0 <= count /\ 0 \in Int
  OBVIOUS
<1>2. (\E f : Is(f, count)) => Is(F, count)
  BY Zenon DEF ItemTexts
<1> HIDE DEF Next, F
<1>3. 0 \in T
  <2> DEFINE g == [k \in 0..0 |-> text]
  <2>1. Is(g, 0)
    OBVIOUS
  <2> HIDE DEF g, Is
  <2> QED
    BY <1>1, <2>1
<1>4. ASSUME NEW n \in 0..(count - 1), n \in T PROVE n + 1 \in T
  <2>1. PICK f : Is(f, n)
    BY <1>4
  <2> DEFINE g == [k \in 0..(n + 1) |-> IF k = n + 1 THEN Next(n + 1, f[n]) ELSE f[k]]
  <2>2. \A k \in 0..n : k # 0 => f[k] = Next(k, f[k - 1])
    BY <2>1
  <2>3. f[0] = text
    BY <1>1, <2>1
  <2>4. g[n + 1] = Next(n + 1, f[n]) /\ \A k \in 0..n : g[k] = f[k]
    BY <1>1
  <2>5. g[0] = text
    BY <1>1, <2>3, <2>4
  <2>6. ASSUME NEW k \in 0..(n + 1), k # 0 PROVE g[k] = Next(k, g[k - 1])
    <3>1. k - 1 \in 0..n /\ g[k - 1] = f[k - 1]
      BY <1>1, <2>4, <2>6
    <3>2. CASE k = n + 1
      <4>1. k - 1 = n
        BY <3>2
      <4> QED
        BY <2>4, <3>1, <3>2, <4>1
    <3>3. CASE k # n + 1
      <4>1. k \in 0..n
        BY <2>6, <3>3
      <4> QED
        BY <2>2, <2>4, <2>6, <3>1, <4>1
    <3> QED
      BY <3>2, <3>3
  <2>7. g = [k \in 0..(n + 1) |-> g[k]]
    OBVIOUS
  <2> HIDE DEF g
  <2>8. Is(g, n + 1)
    BY <2>5, <2>6, <2>7
  <2> QED
    BY <1>1, <2>8
<1>5. \A n \in 0..count : n \in T
  <2> HIDE DEF T
  <2> QED
    BY <1>1, <1>3, <1>4, UpTo
<1>6. count \in T
  BY <1>1, <1>5
<1>7. Is(F, count)
  BY <1>2, <1>6
<1>8. F = [k \in 0..count |-> F[k]] /\ F[0] = text
  BY <1>1, <1>7
<1>9. \A k \in 1..count : F[k] = Next(k, F[k - 1])
  BY <1>1, <1>7
<1> QED
  BY <1>8, <1>9, Zenon DEF F, Next

(* The text after each block. *)
LEMMA BlockTextsByRecursion ==
  ASSUME NEW blocks, NEW count \in Nat, Len(blocks) = count
  PROVE  /\ BlockTexts(blocks) = [k \in 0..count |-> BlockTexts(blocks)[k]]
         /\ BlockTexts(blocks)[0] = <<>>
         /\ \A k \in 1..count : BlockTexts(blocks)[k] =
              TextAfterBlock(BlockTexts(blocks)[k - 1], blocks[k])
<1> DEFINE Next(k, v) == TextAfterBlock(v, blocks[k])
           F == BlockTexts(blocks)
           Is(f, n) == f = [k \in 0..n |-> IF k = 0 THEN <<>> ELSE Next(k, f[k - 1])]
           T == {n \in 0..(count) : \E f : Is(f, n)}
<1>1. count \in Int /\ 0 <= count /\ 0 \in Int
  OBVIOUS
<1>2. (\E f : Is(f, count)) => Is(F, count)
  BY Zenon DEF BlockTexts
<1> HIDE DEF Next, F
<1>3. 0 \in T
  <2> DEFINE g == [k \in 0..0 |-> <<>>]
  <2>1. Is(g, 0)
    OBVIOUS
  <2> HIDE DEF g, Is
  <2> QED
    BY <1>1, <2>1
<1>4. ASSUME NEW n \in 0..(count - 1), n \in T PROVE n + 1 \in T
  <2>1. PICK f : Is(f, n)
    BY <1>4
  <2> DEFINE g == [k \in 0..(n + 1) |-> IF k = n + 1 THEN Next(n + 1, f[n]) ELSE f[k]]
  <2>2. \A k \in 0..n : k # 0 => f[k] = Next(k, f[k - 1])
    BY <2>1
  <2>3. f[0] = <<>>
    BY <1>1, <2>1
  <2>4. g[n + 1] = Next(n + 1, f[n]) /\ \A k \in 0..n : g[k] = f[k]
    BY <1>1
  <2>5. g[0] = <<>>
    BY <1>1, <2>3, <2>4
  <2>6. ASSUME NEW k \in 0..(n + 1), k # 0 PROVE g[k] = Next(k, g[k - 1])
    <3>1. k - 1 \in 0..n /\ g[k - 1] = f[k - 1]
      BY <1>1, <2>4, <2>6
    <3>2. CASE k = n + 1
      <4>1. k - 1 = n
        BY <3>2
      <4> QED
        BY <2>4, <3>1, <3>2, <4>1
    <3>3. CASE k # n + 1
      <4>1. k \in 0..n
        BY <2>6, <3>3
      <4> QED
        BY <2>2, <2>4, <2>6, <3>1, <4>1
    <3> QED
      BY <3>2, <3>3
  <2>7. g = [k \in 0..(n + 1) |-> g[k]]
    OBVIOUS
  <2> HIDE DEF g
  <2>8. Is(g, n + 1)
    BY <2>5, <2>6, <2>7
  <2> QED
    BY <1>1, <2>8
<1>5. \A n \in 0..count : n \in T
  <2> HIDE DEF T
  <2> QED
    BY <1>1, <1>3, <1>4, UpTo
<1>6. count \in T
  BY <1>1, <1>5
<1>7. Is(F, count)
  BY <1>2, <1>6
<1>8. F = [k \in 0..count |-> F[k]] /\ F[0] = <<>>
  BY <1>1, <1>7
<1>9. \A k \in 1..count : F[k] = Next(k, F[k - 1])
  BY <1>1, <1>7
<1> QED
  BY <1>8, <1>9, Zenon DEF F, Next

(* What codes of fewer bits take up. *)
LEMMA TakenBeforeByRecursion ==
  ASSUME NEW code_sizes, NEW size \in Nat \ {0}, NEW last \in Nat, last = size - 1
  PROVE  /\ TakenBefore(code_sizes, size) =
              [k \in 0..last |-> TakenBefore(code_sizes, size)[k]]
         /\ TakenBefore(code_sizes, size)[0] = 0
         /\ \A k \in 1..last : TakenBefore(code_sizes, size)[k] =
              TakenBefore(code_sizes, size)[k - 1]
                + Cardinality(HasSize(code_sizes, k)) * 2 ^ (size - k)
<1> DEFINE Next(k, v) == v + Cardinality(HasSize(code_sizes, k)) * 2 ^ (size - k)
           F == TakenBefore(code_sizes, size)
           Is(f, n) == f = [k \in 0..n |-> IF k = 0 THEN 0 ELSE Next(k, f[k - 1])]
           T == {n \in 0..(last) : \E f : Is(f, n)}
<1>1. last \in Int /\ 0 <= last /\ 0 \in Int
  OBVIOUS
<1>2. (\E f : Is(f, last)) => Is(F, last)
  BY Zenon DEF TakenBefore
<1> HIDE DEF Next, F
<1>3. 0 \in T
  <2> DEFINE g == [k \in 0..0 |-> 0]
  <2>1. Is(g, 0)
    OBVIOUS
  <2> HIDE DEF g, Is
  <2> QED
    BY <1>1, <2>1
<1>4. ASSUME NEW n \in 0..(last - 1), n \in T PROVE n + 1 \in T
  <2>1. PICK f : Is(f, n)
    BY <1>4
  <2> DEFINE g == [k \in 0..(n + 1) |-> IF k = n + 1 THEN Next(n + 1, f[n]) ELSE f[k]]
  <2>2. \A k \in 0..n : k # 0 => f[k] = Next(k, f[k - 1])
    BY <2>1
  <2>3. f[0] = 0
    BY <1>1, <2>1
  <2>4. g[n + 1] = Next(n + 1, f[n]) /\ \A k \in 0..n : g[k] = f[k]
    BY <1>1
  <2>5. g[0] = 0
    BY <1>1, <2>3, <2>4
  <2>6. ASSUME NEW k \in 0..(n + 1), k # 0 PROVE g[k] = Next(k, g[k - 1])
    <3>1. k - 1 \in 0..n /\ g[k - 1] = f[k - 1]
      BY <1>1, <2>4, <2>6
    <3>2. CASE k = n + 1
      <4>1. k - 1 = n
        BY <3>2
      <4> QED
        BY <2>4, <3>1, <3>2, <4>1
    <3>3. CASE k # n + 1
      <4>1. k \in 0..n
        BY <2>6, <3>3
      <4> QED
        BY <2>2, <2>4, <2>6, <3>1, <4>1
    <3> QED
      BY <3>2, <3>3
  <2>7. g = [k \in 0..(n + 1) |-> g[k]]
    OBVIOUS
  <2> HIDE DEF g
  <2>8. Is(g, n + 1)
    BY <2>5, <2>6, <2>7
  <2> QED
    BY <1>1, <2>8
<1>5. \A n \in 0..last : n \in T
  <2> HIDE DEF T
  <2> QED
    BY <1>1, <1>3, <1>4, UpTo
<1>6. last \in T
  BY <1>1, <1>5
<1>7. Is(F, last)
  BY <1>2, <1>6
<1>8. F = [k \in 0..last |-> F[k]] /\ F[0] = 0
  BY <1>1, <1>7
<1>9. \A k \in 1..last : F[k] = Next(k, F[k - 1])
  BY <1>1, <1>7
<1> QED
  BY <1>8, <1>9, Zenon DEF F, Next

(* What codes of all sizes take up. *)
LEMMA TakenByRecursion ==
  ASSUME NEW code_sizes
  PROVE  /\ Taken(code_sizes) = [k \in 0..15 |-> Taken(code_sizes)[k]]
         /\ Taken(code_sizes)[0] = 0
         /\ \A k \in 1..15 : Taken(code_sizes)[k] =
              Taken(code_sizes)[k - 1] + Cardinality(HasSize(code_sizes, k)) * 2 ^ (15 - k)
<1> DEFINE Next(k, v) == v + Cardinality(HasSize(code_sizes, k)) * 2 ^ (15 - k)
           F == Taken(code_sizes)
           Is(f, n) == f = [k \in 0..n |-> IF k = 0 THEN 0 ELSE Next(k, f[k - 1])]
           T == {n \in 0..(15) : \E f : Is(f, n)}
<1>1. 15 \in Int /\ 0 <= 15 /\ 0 \in Int
  OBVIOUS
<1>2. (\E f : Is(f, 15)) => Is(F, 15)
  BY Zenon DEF Taken
<1> HIDE DEF Next, F
<1>3. 0 \in T
  <2> DEFINE g == [k \in 0..0 |-> 0]
  <2>1. Is(g, 0)
    OBVIOUS
  <2> HIDE DEF g, Is
  <2> QED
    BY <1>1, <2>1
<1>4. ASSUME NEW n \in 0..(15 - 1), n \in T PROVE n + 1 \in T
  <2>1. PICK f : Is(f, n)
    BY <1>4
  <2> DEFINE g == [k \in 0..(n + 1) |-> IF k = n + 1 THEN Next(n + 1, f[n]) ELSE f[k]]
  <2>2. \A k \in 0..n : k # 0 => f[k] = Next(k, f[k - 1])
    BY <2>1
  <2>3. f[0] = 0
    BY <1>1, <2>1
  <2>4. g[n + 1] = Next(n + 1, f[n]) /\ \A k \in 0..n : g[k] = f[k]
    BY <1>1
  <2>5. g[0] = 0
    BY <1>1, <2>3, <2>4
  <2>6. ASSUME NEW k \in 0..(n + 1), k # 0 PROVE g[k] = Next(k, g[k - 1])
    <3>1. k - 1 \in 0..n /\ g[k - 1] = f[k - 1]
      BY <1>1, <2>4, <2>6
    <3>2. CASE k = n + 1
      <4>1. k - 1 = n
        BY <3>2
      <4> QED
        BY <2>4, <3>1, <3>2, <4>1
    <3>3. CASE k # n + 1
      <4>1. k \in 0..n
        BY <2>6, <3>3
      <4> QED
        BY <2>2, <2>4, <2>6, <3>1, <4>1
    <3> QED
      BY <3>2, <3>3
  <2>7. g = [k \in 0..(n + 1) |-> g[k]]
    OBVIOUS
  <2> HIDE DEF g
  <2>8. Is(g, n + 1)
    BY <2>5, <2>6, <2>7
  <2> QED
    BY <1>1, <2>8
<1>5. \A n \in 0..15 : n \in T
  <2> HIDE DEF T
  <2> QED
    BY <1>1, <1>3, <1>4, UpTo
<1>6. 15 \in T
  BY <1>1, <1>5
<1>7. Is(F, 15)
  BY <1>2, <1>6
<1>8. F = [k \in 0..15 |-> F[k]] /\ F[0] = 0
  BY <1>1, <1>7
<1>9. \A k \in 1..15 : F[k] = Next(k, F[k - 1])
  BY <1>1, <1>7
<1> QED
  BY <1>8, <1>9, Zenon DEF F, Next

(* The sizes that items stand for. *)
LEMMA SizesByRecursion ==
  ASSUME NEW items, NEW count \in Nat, Len(items) = count
  PROVE  /\ SizesUpTo(items) = [k \in 0..count |-> SizesUpTo(items)[k]]
         /\ SizesUpTo(items)[0] = <<>>
         /\ \A k \in 1..count : SizesUpTo(items)[k] =
              SizesUpTo(items)[k - 1] \o SizeItem(SizesUpTo(items)[k - 1], items[k])
<1> DEFINE Next(k, v) == v \o SizeItem(v, items[k])
           F == SizesUpTo(items)
           Is(f, n) == f = [k \in 0..n |-> IF k = 0 THEN <<>> ELSE Next(k, f[k - 1])]
           T == {n \in 0..(count) : \E f : Is(f, n)}
<1>1. count \in Int /\ 0 <= count /\ 0 \in Int
  OBVIOUS
<1>2. (\E f : Is(f, count)) => Is(F, count)
  BY Zenon DEF SizesUpTo
<1> HIDE DEF Next, F
<1>3. 0 \in T
  <2> DEFINE g == [k \in 0..0 |-> <<>>]
  <2>1. Is(g, 0)
    OBVIOUS
  <2> HIDE DEF g, Is
  <2> QED
    BY <1>1, <2>1
<1>4. ASSUME NEW n \in 0..(count - 1), n \in T PROVE n + 1 \in T
  <2>1. PICK f : Is(f, n)
    BY <1>4
  <2> DEFINE g == [k \in 0..(n + 1) |-> IF k = n + 1 THEN Next(n + 1, f[n]) ELSE f[k]]
  <2>2. \A k \in 0..n : k # 0 => f[k] = Next(k, f[k - 1])
    BY <2>1
  <2>3. f[0] = <<>>
    BY <1>1, <2>1
  <2>4. g[n + 1] = Next(n + 1, f[n]) /\ \A k \in 0..n : g[k] = f[k]
    BY <1>1
  <2>5. g[0] = <<>>
    BY <1>1, <2>3, <2>4
  <2>6. ASSUME NEW k \in 0..(n + 1), k # 0 PROVE g[k] = Next(k, g[k - 1])
    <3>1. k - 1 \in 0..n /\ g[k - 1] = f[k - 1]
      BY <1>1, <2>4, <2>6
    <3>2. CASE k = n + 1
      <4>1. k - 1 = n
        BY <3>2
      <4> QED
        BY <2>4, <3>1, <3>2, <4>1
    <3>3. CASE k # n + 1
      <4>1. k \in 0..n
        BY <2>6, <3>3
      <4> QED
        BY <2>2, <2>4, <2>6, <3>1, <4>1
    <3> QED
      BY <3>2, <3>3
  <2>7. g = [k \in 0..(n + 1) |-> g[k]]
    OBVIOUS
  <2> HIDE DEF g
  <2>8. Is(g, n + 1)
    BY <2>5, <2>6, <2>7
  <2> QED
    BY <1>1, <2>8
<1>5. \A n \in 0..count : n \in T
  <2> HIDE DEF T
  <2> QED
    BY <1>1, <1>3, <1>4, UpTo
<1>6. count \in T
  BY <1>1, <1>5
<1>7. Is(F, count)
  BY <1>2, <1>6
<1>8. F = [k \in 0..count |-> F[k]] /\ F[0] = <<>>
  BY <1>1, <1>7
<1>9. \A k \in 1..count : F[k] = Next(k, F[k - 1])
  BY <1>1, <1>7
<1> QED
  BY <1>8, <1>9, Zenon DEF F, Next

(* The bits of a message, block by block. *)
LEMMA BitsByRecursion ==
  ASSUME NEW blocks, NEW count \in Nat, Len(blocks) = count
  PROVE  /\ BitsUpTo(blocks) = [k \in 0..count |-> BitsUpTo(blocks)[k]]
         /\ BitsUpTo(blocks)[0] = <<>>
         /\ \A k \in 1..count : BitsUpTo(blocks)[k] =
              BitsUpTo(blocks)[k - 1]
                \o BlockBits(Len(BitsUpTo(blocks)[k - 1]), blocks[k], k = Len(blocks))
<1> DEFINE Next(k, v) == v \o BlockBits(Len(v), blocks[k], k = Len(blocks))
           F == BitsUpTo(blocks)
           Is(f, n) == f = [k \in 0..n |-> IF k = 0 THEN <<>> ELSE Next(k, f[k - 1])]
           T == {n \in 0..(count) : \E f : Is(f, n)}
<1>1. count \in Int /\ 0 <= count /\ 0 \in Int
  OBVIOUS
<1>2. (\E f : Is(f, count)) => Is(F, count)
  BY Zenon DEF BitsUpTo
<1> HIDE DEF Next, F
<1>3. 0 \in T
  <2> DEFINE g == [k \in 0..0 |-> <<>>]
  <2>1. Is(g, 0)
    OBVIOUS
  <2> HIDE DEF g, Is
  <2> QED
    BY <1>1, <2>1
<1>4. ASSUME NEW n \in 0..(count - 1), n \in T PROVE n + 1 \in T
  <2>1. PICK f : Is(f, n)
    BY <1>4
  <2> DEFINE g == [k \in 0..(n + 1) |-> IF k = n + 1 THEN Next(n + 1, f[n]) ELSE f[k]]
  <2>2. \A k \in 0..n : k # 0 => f[k] = Next(k, f[k - 1])
    BY <2>1
  <2>3. f[0] = <<>>
    BY <1>1, <2>1
  <2>4. g[n + 1] = Next(n + 1, f[n]) /\ \A k \in 0..n : g[k] = f[k]
    BY <1>1
  <2>5. g[0] = <<>>
    BY <1>1, <2>3, <2>4
  <2>6. ASSUME NEW k \in 0..(n + 1), k # 0 PROVE g[k] = Next(k, g[k - 1])
    <3>1. k - 1 \in 0..n /\ g[k - 1] = f[k - 1]
      BY <1>1, <2>4, <2>6
    <3>2. CASE k = n + 1
      <4>1. k - 1 = n
        BY <3>2
      <4> QED
        BY <2>4, <3>1, <3>2, <4>1
    <3>3. CASE k # n + 1
      <4>1. k \in 0..n
        BY <2>6, <3>3
      <4> QED
        BY <2>2, <2>4, <2>6, <3>1, <4>1
    <3> QED
      BY <3>2, <3>3
  <2>7. g = [k \in 0..(n + 1) |-> g[k]]
    OBVIOUS
  <2> HIDE DEF g
  <2>8. Is(g, n + 1)
    BY <2>5, <2>6, <2>7
  <2> QED
    BY <1>1, <2>8
<1>5. \A n \in 0..count : n \in T
  <2> HIDE DEF T
  <2> QED
    BY <1>1, <1>3, <1>4, UpTo
<1>6. count \in T
  BY <1>1, <1>5
<1>7. Is(F, count)
  BY <1>2, <1>6
<1>8. F = [k \in 0..count |-> F[k]] /\ F[0] = <<>>
  BY <1>1, <1>7
<1>9. \A k \in 1..count : F[k] = Next(k, F[k - 1])
  BY <1>1, <1>7
<1> QED
  BY <1>8, <1>9, Zenon DEF F, Next

(* The bits of a byte, one after the other. *)
LEMMA ByteByRecursion ==
  ASSUME NEW bits, NEW m
  PROVE  /\ ByteOf(bits, m) = [k \in 0..8 |-> ByteOf(bits, m)[k]]
         /\ ByteOf(bits, m)[0] = 0
         /\ \A k \in 1..8 : ByteOf(bits, m)[k] =
              ByteOf(bits, m)[k - 1] + (BitOrZero(bits, (8 * m) - 8 + k) * 2 ^ (k - 1))
<1> DEFINE Next(k, v) == v + (BitOrZero(bits, (8 * m) - 8 + k) * 2 ^ (k - 1))
           F == ByteOf(bits, m)
           Is(f, n) == f = [k \in 0..n |-> IF k = 0 THEN 0 ELSE Next(k, f[k - 1])]
           T == {n \in 0..(8) : \E f : Is(f, n)}
<1>1. 8 \in Int /\ 0 <= 8 /\ 0 \in Int
  OBVIOUS
<1>2. (\E f : Is(f, 8)) => Is(F, 8)
  BY Zenon DEF ByteOf
<1> HIDE DEF Next, F
<1>3. 0 \in T
  <2> DEFINE g == [k \in 0..0 |-> 0]
  <2>1. Is(g, 0)
    OBVIOUS
  <2> HIDE DEF g, Is
  <2> QED
    BY <1>1, <2>1
<1>4. ASSUME NEW n \in 0..(8 - 1), n \in T PROVE n + 1 \in T
  <2>1. PICK f : Is(f, n)
    BY <1>4
  <2> DEFINE g == [k \in 0..(n + 1) |-> IF k = n + 1 THEN Next(n + 1, f[n]) ELSE f[k]]
  <2>2. \A k \in 0..n : k # 0 => f[k] = Next(k, f[k - 1])
    BY <2>1
  <2>3. f[0] = 0
    BY <1>1, <2>1
  <2>4. g[n + 1] = Next(n + 1, f[n]) /\ \A k \in 0..n : g[k] = f[k]
    BY <1>1
  <2>5. g[0] = 0
    BY <1>1, <2>3, <2>4
  <2>6. ASSUME NEW k \in 0..(n + 1), k # 0 PROVE g[k] = Next(k, g[k - 1])
    <3>1. k - 1 \in 0..n /\ g[k - 1] = f[k - 1]
      BY <1>1, <2>4, <2>6
    <3>2. CASE k = n + 1
      <4>1. k - 1 = n
        BY <3>2
      <4> QED
        BY <2>4, <3>1, <3>2, <4>1
    <3>3. CASE k # n + 1
      <4>1. k \in 0..n
        BY <2>6, <3>3
      <4> QED
        BY <2>2, <2>4, <2>6, <3>1, <4>1
    <3> QED
      BY <3>2, <3>3
  <2>7. g = [k \in 0..(n + 1) |-> g[k]]
    OBVIOUS
  <2> HIDE DEF g
  <2>8. Is(g, n + 1)
    BY <2>5, <2>6, <2>7
  <2> QED
    BY <1>1, <2>8
<1>5. \A n \in 0..8 : n \in T
  <2> HIDE DEF T
  <2> QED
    BY <1>1, <1>3, <1>4, UpTo
<1>6. 8 \in T
  BY <1>1, <1>5
<1>7. Is(F, 8)
  BY <1>2, <1>6
<1>8. F = [k \in 0..8 |-> F[k]] /\ F[0] = 0
  BY <1>1, <1>7
<1>9. \A k \in 1..8 : F[k] = Next(k, F[k - 1])
  BY <1>1, <1>7
<1> QED
  BY <1>8, <1>9, Zenon DEF F, Next

-----------------------------------------------------------------------------
(* Halves and powers of two.                                               *)

(* The next power of two is twice the one before. *)
LEMMA NextPower ==
  ASSUME NEW n \in Nat
  PROVE  2 ^ (n + 1) = 2 * (2 ^ n) /\ 2 ^ n \in Nat \ {0}
<1>1. 2 ^ (n + 1) = (2 ^ n) * (2 ^ 1)
  BY PowerOfSum
<1>2. 2 ^ 1 = 2
  OBVIOUS
<1>3. 2 ^ n \in Nat \ {0}
  BY PowerIsNat
<1> QED
  BY <1>1, <1>2, <1>3

(* Half of a quotient is the quotient by twice as much. *)
LEMMA HalfOfQuotient ==
  ASSUME NEW n \in Nat, NEW p \in Nat \ {0}
  PROVE  n \div (2 * p) = (n \div p) \div 2
<1> DEFINE q == n \div p
           r == n % p
           h == q \div 2
           b == q % 2
           d == 2 * p
<1>1. q \in Nat /\ r \in 0..(p - 1) /\ n = (q * p) + r
  BY Division
<1> HIDE DEF q, r
<1>2. h \in Nat /\ b \in 0..1 /\ q = (2 * h) + b
  BY <1>1
<1> HIDE DEF h, b
<1>3. n = (h * d) + ((b * p) + r)
  <2>1. q * p = (h * (2 * p)) + (b * p)
    BY <1>2
  <2>2. h * (2 * p) \in Nat /\ b * p \in Nat
    BY <1>2
  <2> QED
    BY <1>1, <2>1, <2>2
<1>4. (b * p) + r \in 0..(d - 1) /\ d \in Nat \ {0}
  <2>1. b = 0 \/ b = 1
    BY <1>2
  <2>2. b * p = 0 \/ b * p = p
    BY <2>1
  <2> QED
    BY <1>1, <2>2
<1> HIDE DEF d
<1>5. n \div d = h
  BY <1>2, <1>3, <1>4
<1> QED
  BY <1>5 DEF d, h, q

(* What is left after k bits of count, lowest or highest first. *)
Part(n, k) == n \div (2 ^ k)

LEMMA PartByPart ==
  ASSUME NEW n \in Nat, NEW k \in Nat
  PROVE  /\ Part(n, k) \in Nat
         /\ Part(n, k) % 2 \in Bits
         /\ Part(n, k) = (2 * Part(n, k + 1)) + (Part(n, k) % 2)
<1> DEFINE q == Part(n, k)
<1>1. 2 ^ (k + 1) = 2 * (2 ^ k) /\ 2 ^ k \in Nat \ {0}
  BY NextPower
<1>2. n \div (2 * (2 ^ k)) = (n \div (2 ^ k)) \div 2
  BY <1>1, HalfOfQuotient
<1>3. Part(n, k + 1) = q \div 2
  BY <1>1, <1>2 DEF Part
<1>4. q \in Nat
  BY <1>1, Division DEF Part
<1> HIDE DEF q
<1>5. q % 2 \in 0..1 /\ q = (2 * (q \div 2)) + (q % 2)
  BY <1>4
<1> QED
  BY <1>3, <1>4, <1>5 DEF q, Bits

LEMMA WholePart ==
  ASSUME NEW n \in Nat, NEW k \in Nat
  PROVE  /\ Part(n, 0) = n
         /\ n < 2 ^ k => Part(n, k) = 0
<1>1. 2 ^ 0 = 1
  OBVIOUS
<1>2. n \div 1 = n
  OBVIOUS
<1>3. 2 ^ k \in Nat \ {0}
  BY PowerIsNat
<1> DEFINE p == 2 ^ k
<1> HIDE DEF p
<1>4. n < p => n \div p = 0
  BY <1>3 DEF p
<1> QED
  BY <1>1, <1>2, <1>4 DEF Part, p

-----------------------------------------------------------------------------
(* Numbers in bits.                                                        *)

LEMMA LowFirstBits ==
  ASSUME NEW n \in Nat, NEW count \in Nat
  PROVE  /\ LowFirst(n, count) \in Seq(Bits)
         /\ Len(LowFirst(n, count)) = count
         /\ \A k \in 1..count : LowFirst(n, count)[k] = Part(n, k - 1) % 2
<1> DEFINE Bit(k) == Part(n, k - 1) % 2
<1>1. LowFirst(n, count) = [k \in 1..count |-> Bit(k)]
  BY DEF LowFirst, Part
<1>2. \A k \in 1..count : Bit(k) \in Bits
  <2> TAKE k \in 1..count
  <2>1. k - 1 \in Nat
    OBVIOUS
  <2> QED
    BY <2>1, PartByPart
<1> HIDE DEF Bit
<1>3. [k \in 1..count |-> Bit(k)] \in [1..count -> Bits]
  BY <1>2
<1>4. LowFirst(n, count) \in Seq(Bits) /\ Len(LowFirst(n, count)) = count
  BY <1>1, <1>3, SequenceOf
<1>5. \A k \in 1..count : LowFirst(n, count)[k] = Bit(k)
  BY <1>1
<1> QED
  BY <1>4, <1>5 DEF Bit

(* A number that is written and read again is the same. *)
LEMMA NumberOfLowFirst ==
  ASSUME NEW n \in Nat, NEW count \in Nat, n < 2 ^ count
  PROVE  Number(LowFirst(n, count)) = n
<1> DEFINE bits == LowFirst(n, count)
<1>1. /\ bits \in Seq(Bits) /\ Len(bits) = count
      /\ \A k \in 1..count : bits[k] = Part(n, k - 1) % 2
  BY LowFirstBits
<1> HIDE DEF bits
<1>2. PICK f \in [0..count -> Nat] :
        /\ f[0] = 0
        /\ \A k \in 1..count : f[k] = bits[count - k + 1] + (2 * f[k - 1])
        /\ Number(bits) = f[count]
  BY <1>1, NumberByRecursion
<1> DEFINE S == {k \in 0..count : f[k] = Part(n, count - k)}
<1>3. 0 \in S
  BY <1>2, WholePart
<1>4. ASSUME NEW k \in 0..(count - 1), k \in S PROVE k + 1 \in S
  <2>1. k + 1 \in 1..count /\ k + 1 \in 0..count /\ (k + 1) - 1 = k
    OBVIOUS
  <2> DEFINE j == count - (k + 1)
  <2>2. j \in Nat /\ j + 1 = count - k /\ count - (k + 1) + 1 = j + 1 /\ j + 1 \in 1..count
    OBVIOUS
  <2>3. f[k + 1] = bits[j + 1] + (2 * f[k])
    BY <1>2, <2>1, <2>2
  <2>4. bits[j + 1] = Part(n, j) % 2
    <3>1. (j + 1) - 1 = j
      OBVIOUS
    <3> QED
      BY <1>1, <2>2, <3>1
  <2>5. f[k] = Part(n, j + 1)
    BY <1>4, <2>2
  <2> HIDE DEF j
  <2>6. Part(n, j) = (2 * Part(n, j + 1)) + (Part(n, j) % 2) /\ Part(n, j + 1) \in Nat
        /\ Part(n, j) % 2 \in Bits
    <3>1. j + 1 \in Nat
      BY <2>2
    <3> QED
      BY <2>2, <3>1, PartByPart
  <2>7. f[k + 1] = Part(n, j)
    BY <2>3, <2>4, <2>5, <2>6 DEF Bits
  <2> QED
    BY <2>1, <2>7 DEF j
<1>5. \A k \in 0..count : k \in S
  <2>1. 0 \in Int /\ count \in Int
    OBVIOUS
  <2> HIDE DEF S
  <2> QED
    BY <1>3, <1>4, <2>1, UpTo
<1>6. f[count] = Part(n, 0)
  <2>1. count \in 0..count /\ count - count = 0
    OBVIOUS
  <2> QED
    BY <1>5, <2>1
<1> QED
  BY <1>2, <1>6, WholePart DEF bits

-----------------------------------------------------------------------------
(* Bytes and their bits.                                                   *)

(* The bits of a byte are those of the number. *)
LEMMA BitOfByte ==
  ASSUME NEW byte \in Nat, NEW k \in 1..8
  PROVE  BitOf(byte, k) = LowFirst(byte, 8)[k]
<1>1. PlaceValues[k] = 2 ^ (k - 1)
  <2>1. CASE k = 1
    <3>1. k - 1 = 0 /\ 2 ^ 0 = 1 /\ PlaceValues[1] = 1
      BY <2>1 DEF PlaceValues
    <3> QED
      BY <2>1, <3>1
  <2>2. CASE k = 2
    <3>1. k - 1 = 1 /\ 2 ^ 1 = 2 /\ PlaceValues[2] = 2
      BY <2>2 DEF PlaceValues
    <3> QED
      BY <2>2, <3>1
  <2>3. CASE k = 3
    <3>1. k - 1 = 2 /\ 2 ^ 2 = 4 /\ PlaceValues[3] = 4
      BY <2>3 DEF PlaceValues
    <3> QED
      BY <2>3, <3>1
  <2>4. CASE k = 4
    <3>1. k - 1 = 3 /\ 2 ^ 3 = 8 /\ PlaceValues[4] = 8
      BY <2>4 DEF PlaceValues
    <3> QED
      BY <2>4, <3>1
  <2>5. CASE k = 5
    <3>1. k - 1 = 4 /\ 2 ^ 4 = 16 /\ PlaceValues[5] = 16
      BY <2>5 DEF PlaceValues
    <3> QED
      BY <2>5, <3>1
  <2>6. CASE k = 6
    <3>1. k - 1 = 5 /\ 2 ^ 5 = 32 /\ PlaceValues[6] = 32
      BY <2>6 DEF PlaceValues
    <3> QED
      BY <2>6, <3>1
  <2>7. CASE k = 7
    <3>1. k - 1 = 6 /\ 2 ^ 6 = 64 /\ PlaceValues[7] = 64
      BY <2>7 DEF PlaceValues
    <3> QED
      BY <2>7, <3>1
  <2>8. CASE k = 8
    <3>1. k - 1 = 7 /\ 2 ^ 7 = 128 /\ PlaceValues[8] = 128
      BY <2>8 DEF PlaceValues
    <3> QED
      BY <2>8, <3>1
  <2> QED
    BY <2>1, <2>2, <2>3, <2>4, <2>5, <2>6, <2>7, <2>8
<1>2. LowFirst(byte, 8)[k] = Part(byte, k - 1) % 2
  <2>1. 8 \in Nat
    OBVIOUS
  <2> QED
    BY <2>1, LowFirstBits
<1> QED
  BY <1>1, <1>2 DEF BitOf, Part

(* Bytes with the same bits are the same. *)
LEMMA SameBitsSameByte ==
  ASSUME NEW a \in Bytes, NEW b \in Bytes, \A k \in 1..8 : BitOf(a, k) = BitOf(b, k)
  PROVE  a = b
<1>1. a \in Nat /\ b \in Nat /\ a < 2 ^ 8 /\ b < 2 ^ 8
  <2>1. 2 ^ 8 = 256
    OBVIOUS
  <2> QED
    BY <2>1 DEF Bytes
<1>2. \A k \in 1..8 : LowFirst(a, 8)[k] = LowFirst(b, 8)[k]
  BY <1>1, BitOfByte
<1>3. /\ LowFirst(a, 8) \in Seq(Bits) /\ Len(LowFirst(a, 8)) = 8
      /\ LowFirst(b, 8) \in Seq(Bits) /\ Len(LowFirst(b, 8)) = 8
  BY <1>1, LowFirstBits
<1>4. LowFirst(a, 8) = LowFirst(b, 8)
  BY <1>2, <1>3
<1>5. Number(LowFirst(a, 8)) = a /\ Number(LowFirst(b, 8)) = b
  BY <1>1, NumberOfLowFirst
<1> QED
  BY <1>4, <1>5

(* The bits of a number that is added up from them. *)
EightBits(b) ==
  b[1] + (2 * b[2]) + (4 * b[3]) + (8 * b[4]) + (16 * b[5]) + (32 * b[6])
    + (64 * b[7]) + (128 * b[8])

LEMMA SumOfBits ==
  ASSUME NEW b \in [1..8 -> 0..1]
  PROVE  LET n == EightBits(b)
         IN  n \in 0..255 /\ \A k \in 1..8 : BitOf(n, k) = b[k]
<1> DEFINE n == EightBits(b)
           b1 == b[1]
           b2 == b[2]
           b3 == b[3]
           b4 == b[4]
           b5 == b[5]
           b6 == b[6]
           b7 == b[7]
           b8 == b[8]
<1>9. /\ b1 \in 0..1 /\ b2 \in 0..1 /\ b3 \in 0..1 /\ b4 \in 0..1
      /\ b5 \in 0..1 /\ b6 \in 0..1 /\ b7 \in 0..1 /\ b8 \in 0..1
  OBVIOUS
<1>10. n = b1 + (2 * b2) + (4 * b3) + (8 * b4) + (16 * b5) + (32 * b6)
             + (64 * b7) + (128 * b8)
  BY DEF EightBits
<1> HIDE DEF n, b1, b2, b3, b4, b5, b6, b7, b8
<1>11. n \in 0..255
  BY <1>9, <1>10
<1>1. (n \div 1) % 2 = b1
  <2> DEFINE h == b1 + (2 * b2) + (4 * b3) + (8 * b4) + (16 * b5)
                    + (32 * b6) + (64 * b7) + (128 * b8)
  <2>1. h \in Nat /\ n - (1 * h) \in 0..0
    BY <1>9, <1>10
  <2>2. h % 2 = b1
    BY <1>9
  <2> HIDE DEF h
  <2>3. n \div 1 = h
    BY <1>11, <2>1
  <2> QED
    BY <2>2, <2>3
<1>2. (n \div 2) % 2 = b2
  <2> DEFINE h == b2 + (2 * b3) + (4 * b4) + (8 * b5) + (16 * b6) + (32 * b7) + (64 * b8)
  <2>1. h \in Nat /\ n - (2 * h) \in 0..1
    BY <1>9, <1>10
  <2>2. h % 2 = b2
    BY <1>9
  <2> HIDE DEF h
  <2>3. n \div 2 = h
    BY <1>11, <2>1
  <2> QED
    BY <2>2, <2>3
<1>3. (n \div 4) % 2 = b3
  <2> DEFINE h == b3 + (2 * b4) + (4 * b5) + (8 * b6) + (16 * b7) + (32 * b8)
  <2>1. h \in Nat /\ n - (4 * h) \in 0..3
    BY <1>9, <1>10
  <2>2. h % 2 = b3
    BY <1>9
  <2> HIDE DEF h
  <2>3. n \div 4 = h
    BY <1>11, <2>1
  <2> QED
    BY <2>2, <2>3
<1>4. (n \div 8) % 2 = b4
  <2> DEFINE h == b4 + (2 * b5) + (4 * b6) + (8 * b7) + (16 * b8)
  <2>1. h \in Nat /\ n - (8 * h) \in 0..7
    BY <1>9, <1>10
  <2>2. h % 2 = b4
    BY <1>9
  <2> HIDE DEF h
  <2>3. n \div 8 = h
    BY <1>11, <2>1
  <2> QED
    BY <2>2, <2>3
<1>5. (n \div 16) % 2 = b5
  <2> DEFINE h == b5 + (2 * b6) + (4 * b7) + (8 * b8)
  <2>1. h \in Nat /\ n - (16 * h) \in 0..15
    BY <1>9, <1>10
  <2>2. h % 2 = b5
    BY <1>9
  <2> HIDE DEF h
  <2>3. n \div 16 = h
    BY <1>11, <2>1
  <2> QED
    BY <2>2, <2>3
<1>6. (n \div 32) % 2 = b6
  <2> DEFINE h == b6 + (2 * b7) + (4 * b8)
  <2>1. h \in Nat /\ n - (32 * h) \in 0..31
    BY <1>9, <1>10
  <2>2. h % 2 = b6
    BY <1>9
  <2> HIDE DEF h
  <2>3. n \div 32 = h
    BY <1>11, <2>1
  <2> QED
    BY <2>2, <2>3
<1>7. (n \div 64) % 2 = b7
  <2> DEFINE h == b7 + (2 * b8)
  <2>1. h \in Nat /\ n - (64 * h) \in 0..63
    BY <1>9, <1>10
  <2>2. h % 2 = b7
    BY <1>9
  <2> HIDE DEF h
  <2>3. n \div 64 = h
    BY <1>11, <2>1
  <2> QED
    BY <2>2, <2>3
<1>8. (n \div 128) % 2 = b8
  <2> DEFINE h == b8
  <2>1. h \in Nat /\ n - (128 * h) \in 0..127
    BY <1>9, <1>10
  <2>2. h % 2 = b8
    BY <1>9
  <2> HIDE DEF h
  <2>3. n \div 128 = h
    BY <1>11, <2>1
  <2> QED
    BY <2>2, <2>3
<1>12. ASSUME NEW k \in 1..8 PROVE BitOf(n, k) = b[k]
  <2>1. CASE k = 1
    <3>1. PlaceValues[1] = 1
      BY DEF PlaceValues
    <3> QED
      BY <1>1, <2>1, <3>1 DEF BitOf, b1
  <2>2. CASE k = 2
    <3>1. PlaceValues[2] = 2
      BY DEF PlaceValues
    <3> QED
      BY <1>2, <2>2, <3>1 DEF BitOf, b2
  <2>3. CASE k = 3
    <3>1. PlaceValues[3] = 4
      BY DEF PlaceValues
    <3> QED
      BY <1>3, <2>3, <3>1 DEF BitOf, b3
  <2>4. CASE k = 4
    <3>1. PlaceValues[4] = 8
      BY DEF PlaceValues
    <3> QED
      BY <1>4, <2>4, <3>1 DEF BitOf, b4
  <2>5. CASE k = 5
    <3>1. PlaceValues[5] = 16
      BY DEF PlaceValues
    <3> QED
      BY <1>5, <2>5, <3>1 DEF BitOf, b5
  <2>6. CASE k = 6
    <3>1. PlaceValues[6] = 32
      BY DEF PlaceValues
    <3> QED
      BY <1>6, <2>6, <3>1 DEF BitOf, b6
  <2>7. CASE k = 7
    <3>1. PlaceValues[7] = 64
      BY DEF PlaceValues
    <3> QED
      BY <1>7, <2>7, <3>1 DEF BitOf, b7
  <2>8. CASE k = 8
    <3>1. PlaceValues[8] = 128
      BY DEF PlaceValues
    <3> QED
      BY <1>8, <2>8, <3>1 DEF BitOf, b8
  <2> QED
    BY <2>1, <2>2, <2>3, <2>4, <2>5, <2>6, <2>7, <2>8
<1> QED
  BY <1>11, <1>12 DEF n

(* Eight bits make a byte that has them. *)
LEMMA ByteOfBits ==
  ASSUME NEW bits \in Seq(Bits), NEW m \in Nat \ {0}
  PROVE  /\ ByteOf(bits, m)[8] \in Bytes
         /\ \A k \in 1..8 :
              BitOf(ByteOf(bits, m)[8], k) = BitOrZero(bits, (8 * m) - 8 + k)
<1> DEFINE F == ByteOf(bits, m)
           B(k) == BitOrZero(bits, (8 * m) - 8 + k)
<1>1. F[0] = 0 /\ \A k \in 1..8 : F[k] = F[k - 1] + (B(k) * 2 ^ (k - 1))
  BY ByteByRecursion
<1>2. \A k \in 1..8 : B(k) \in 0..1
  <2> TAKE k \in 1..8
  <2>1. (8 * m) - 8 + k \in Nat \ {0} /\ Len(bits) \in Nat
    OBVIOUS
  <2>2. \A j \in 1..Len(bits) : bits[j] \in 0..1
    BY DEF Bits
  <2> QED
    BY <2>1, <2>2 DEF BitOrZero
<1> HIDE DEF B, F
<1>3. /\ 2 ^ 0 = 1 /\ 2 ^ 1 = 2 /\ 2 ^ 2 = 4 /\ 2 ^ 3 = 8
      /\ 2 ^ 4 = 16 /\ 2 ^ 5 = 32 /\ 2 ^ 6 = 64 /\ 2 ^ 7 = 128
  OBVIOUS
<1>4. /\ B(1) \in 0..1 /\ B(2) \in 0..1 /\ B(3) \in 0..1 /\ B(4) \in 0..1
      /\ B(5) \in 0..1 /\ B(6) \in 0..1 /\ B(7) \in 0..1 /\ B(8) \in 0..1
  BY <1>2
<1>5. /\ F[1] = F[0] + (B(1) * 2 ^ 0) /\ F[2] = F[1] + (B(2) * 2 ^ 1)
      /\ F[3] = F[2] + (B(3) * 2 ^ 2) /\ F[4] = F[3] + (B(4) * 2 ^ 3)
      /\ F[5] = F[4] + (B(5) * 2 ^ 4) /\ F[6] = F[5] + (B(6) * 2 ^ 5)
      /\ F[7] = F[6] + (B(7) * 2 ^ 6) /\ F[8] = F[7] + (B(8) * 2 ^ 7)
  BY <1>1
<1>6. F[8] = B(1) + (2 * B(2)) + (4 * B(3)) + (8 * B(4)) + (16 * B(5))
               + (32 * B(6)) + (64 * B(7)) + (128 * B(8))
  BY <1>1, <1>3, <1>4, <1>5
<1> DEFINE b == [k \in 1..8 |-> B(k)]
<1>7. b \in [1..8 -> 0..1] /\ \A k \in 1..8 : b[k] = B(k)
  BY <1>2
<1>8. /\ b[1] = B(1) /\ b[2] = B(2) /\ b[3] = B(3) /\ b[4] = B(4)
      /\ b[5] = B(5) /\ b[6] = B(6) /\ b[7] = B(7) /\ b[8] = B(8)
  BY <1>7
<1> HIDE DEF b
<1>9. F[8] = EightBits(b)
  BY <1>6, <1>8 DEF EightBits
<1>10. EightBits(b) \in 0..255 /\ \A k \in 1..8 : BitOf(EightBits(b), k) = b[k]
  BY <1>7, SumOfBits
<1> QED
  BY <1>7, <1>9, <1>10 DEF F, B, Bytes

(* The bit after any number of whole bytes and less than a byte more. *)
LEMMA BitInByte ==
  ASSUME NEW bytes \in Seq(Bytes), NEW m \in 1..Len(bytes), NEW k \in 1..8
  PROVE  BitsOfBytes(bytes)[(8 * (m - 1)) + k] = BitOf(bytes[m], k)
<1> DEFINE p == (8 * (m - 1)) + k
<1>1. p \in 1..(8 * Len(bytes)) /\ ((p - 1) \div 8) + 1 = m /\ ((p - 1) % 8) + 1 = k
  OBVIOUS
<1> HIDE DEF p
<1>2. BitsOfBytes(bytes)[p] =
        (bytes[((p - 1) \div 8) + 1] \div PlaceValues[((p - 1) % 8) + 1]) % 2
  BY <1>1, BitsOfBytesAreBits
<1> QED
  BY <1>1, <1>2 DEF p, BitOf

(* Bits that were made bytes are those bits, and zeros. *)
LEMMA BitsOfBytesOf ==
  ASSUME NEW bits \in Seq(Bits)
  PROVE  /\ BytesOf(bits) \in Seq(Bytes)
         /\ Len(BytesOf(bits)) = (Len(bits) + 7) \div 8
         /\ Len(bits) <= 8 * Len(BytesOf(bits))
         /\ 8 * Len(BytesOf(bits)) < Len(bits) + 8
         /\ \A p \in 1..Len(bits) : BitsOfBytes(BytesOf(bits))[p] = bits[p]
<1> DEFINE L == Len(bits)
           N == (L + 7) \div 8
           B(m) == ByteOf(bits, m)[8]
<1>1. L \in Nat /\ N \in Nat /\ L <= 8 * N /\ 8 * N < L + 8
  OBVIOUS
<1>2. \A m \in 1..N : m \in Nat \ {0}
  BY <1>1
<1>3. BytesOf(bits) = [m \in 1..N |-> B(m)]
  BY DEF BytesOf
<1>4. \A m \in 1..N : B(m) \in Bytes
  BY <1>2, ByteOfBits
<1> HIDE DEF N, B, L
<1>5. BytesOf(bits) \in [1..N -> Bytes]
  BY <1>3, <1>4
<1>6. BytesOf(bits) \in Seq(Bytes) /\ Len(BytesOf(bits)) = N
  BY <1>1, <1>5, SequenceOf
<1>7. ASSUME NEW p \in 1..L PROVE BitsOfBytes(BytesOf(bits))[p] = bits[p]
  <2> DEFINE m == ((p - 1) \div 8) + 1
             k == ((p - 1) % 8) + 1
  <2>1. k \in 1..8 /\ p = (8 * (m - 1)) + k /\ m \in Nat \ {0} /\ m <= N
        /\ (8 * m) - 8 + k = p
    <3>1. p \in Nat \ {0} /\ p <= 8 * N
      BY <1>1
    <3>2. (p - 1) \div 8 \in Nat /\ (p - 1) % 8 \in 0..7
          /\ p - 1 = (8 * ((p - 1) \div 8)) + ((p - 1) % 8)
      BY <3>1
    <3> QED
      BY <1>1, <3>1, <3>2
  <2> HIDE DEF m, k
  <2>2. m \in 1..Len(BytesOf(bits)) /\ m \in 1..N
    BY <1>1, <1>6, <2>1
  <2>3. BitsOfBytes(BytesOf(bits))[(8 * (m - 1)) + k] = BitOf(BytesOf(bits)[m], k)
    BY <1>6, <2>1, <2>2, BitInByte
  <2>4. BytesOf(bits)[m] = B(m)
    BY <1>3, <2>2
  <2>5. BitOf(B(m), k) = BitOrZero(bits, p)
    BY <2>1, ByteOfBits DEF B
  <2>6. BitOrZero(bits, p) = bits[p]
    BY <1>1 DEF BitOrZero, L
  <2> QED
    BY <2>1, <2>3, <2>4, <2>5, <2>6
<1> QED
  BY <1>1, <1>6, <1>7 DEF N, L

-----------------------------------------------------------------------------
(* What comes in the data.                                                 *)

DataBits == BitsOfBytes(data)

(* How many bits of the data have been read. *)
Position(s) == (8 * s.offset) - Len(s.buffer)

(* The data goes on with these bits after position q, as far as it goes,    *)
(* and if it is whole it has them all.                                      *)
Comes(q, bits) ==
  /\ \A k \in 1..Len(bits) : q + k <= 8 * Len(data) => DataBits[q + k] = bits[k]
  /\ input.damage = "none" => q + Len(bits) <= 8 * Len(data)

LEMMA PositionIsNat ==
  ASSUME data \in Seq(Bytes), NEW s, IsStream(s)
  PROVE  /\ Position(s) \in Nat
         /\ Position(s) <= 8 * Len(data)
         /\ Position(s) = (8 * s.offset) - Len(s.buffer)
         /\ s.offset \in Nat /\ s.offset <= Len(data)
         /\ s.buffer \in Seq(Bits) /\ Len(s.buffer) \in 0..7
         /\ s.offset = 0 => Len(s.buffer) = 0
<1> DEFINE o == s.offset
           L == Len(s.buffer)
<1>1. o \in 0..Len(data) /\ s.buffer \in Seq(Bits) /\ L < 8
  BY DEF IsStream
<1>2. L \in Nat /\ Len(data) \in Nat
  BY <1>1
<1>3. o = 0 => L = 0
  <2>1. s.buffer # <<>> => o >= 1
    BY DEF IsStream
  <2>2. s.buffer = <<>> => L = 0
    OBVIOUS
  <2> QED
    BY <2>1, <2>2
<1>4. Position(s) = (8 * o) - L
  BY DEF Position
<1> HIDE DEF o, L
<1>5. o \in Nat /\ o <= Len(data) /\ L \in 0..7 /\ ((8 * o) - L) \in Nat
      /\ (8 * o) - L <= 8 * Len(data)
  BY <1>1, <1>2, <1>3
<1> QED
  BY <1>1, <1>3, <1>4, <1>5 DEF o, L

(* The bits that are left over are the next ones. *)
LEMMA BufferIsNext ==
  ASSUME data \in Seq(Bytes), NEW s, IsStream(s), NEW k \in 1..Len(s.buffer)
  PROVE  s.buffer[k] = DataBits[Position(s) + k]
<1> DEFINE o == s.offset
           L == Len(s.buffer)
<1>1. /\ Position(s) = (8 * o) - L /\ o \in Nat /\ o <= Len(data)
      /\ L \in 0..7 /\ (o = 0 => L = 0)
  BY PositionIsNat
<1>2. s.buffer[k] = BitOf(data[o], 8 - L + k) /\ k \in 1..L
  BY DEF IsStream
<1>7. Len(data) \in Nat
  OBVIOUS
<1> HIDE DEF o, L
<1> DEFINE j == 8 - L + k
<1>3. j \in 1..8 /\ o \in 1..Len(data) /\ (8 * (o - 1)) + j = Position(s) + k
  BY <1>1, <1>2, <1>7
<1> HIDE DEF j
<1>4. BitsOfBytes(data)[(8 * (o - 1)) + j] = BitOf(data[o], j)
  BY <1>3, BitInByte
<1> QED
  BY <1>2, <1>3, <1>4 DEF DataBits, j

(* The next bits of the data up to the end of byte e. *)
LEMMA LoadedAreNext ==
  ASSUME data \in Seq(Bytes), NEW s, IsStream(s), NEW e \in Nat,
         s.offset <= e, e <= Len(data)
  PROVE  LET loaded == s.buffer \o BitsOfBytes(SubSeq(data, s.offset + 1, e))
         IN  /\ loaded \in Seq(Bits)
             /\ Len(loaded) = (8 * e) - Position(s)
             /\ \A k \in 1..Len(loaded) : loaded[k] = DataBits[Position(s) + k]
<1> DEFINE o == s.offset
           L == Len(s.buffer)
           part == SubSeq(data, o + 1, e)
           B == BitsOfBytes(part)
           loaded == s.buffer \o B
           q == Position(s)
<1>1. /\ q \in Nat /\ q = (8 * o) - L /\ o \in Nat /\ o <= e
      /\ s.buffer \in Seq(Bits) /\ L \in 0..7
  BY PositionIsNat
<1>2. Len(data) \in Nat /\ e <= Len(data)
  OBVIOUS
<1>3. \A k \in 1..L : s.buffer[k] = DataBits[q + k]
  BY BufferIsNext
<1> HIDE DEF o
<1>4. /\ part \in Seq(Bytes) /\ Len(part) = e - o
      /\ \A i \in 1..(e - o) : part[i] = data[o + i]
  <2>1. o + 1 \in Nat /\ 1 <= o + 1 /\ o + 1 <= e + 1 /\ e - (o + 1) + 1 = e - o
    BY <1>1
  <2>2. /\ part \in Seq(Bytes) /\ Len(part) = e - (o + 1) + 1
        /\ \A i \in 1..(e - (o + 1) + 1) : part[i] = data[(o + 1) + i - 1]
    BY <1>2, <2>1, SubSeqOf
  <2>3. \A i \in 1..(e - o) : (o + 1) + i - 1 = o + i
    BY <1>1
  <2> QED
    BY <2>1, <2>2, <2>3
<1> HIDE DEF part
<1>5. /\ B \in Seq(Bits) /\ Len(B) = 8 * (e - o)
  BY <1>4, BitsOfBytesAreBits
<1>6. ASSUME NEW p \in 1..(8 * (e - o)) PROVE B[p] = DataBits[(8 * o) + p]
  <2> DEFINE m == ((p - 1) \div 8) + 1
             k == ((p - 1) % 8) + 1
  <2>1. k \in 1..8 /\ p = (8 * (m - 1)) + k /\ m \in Nat \ {0} /\ m <= e - o
    <3>1. p \in Nat \ {0} /\ p <= 8 * (e - o) /\ e - o \in Nat
      BY <1>1
    <3>2. (p - 1) \div 8 \in Nat /\ (p - 1) % 8 \in 0..7
          /\ p - 1 = (8 * ((p - 1) \div 8)) + ((p - 1) % 8)
      BY <3>1
    <3> QED
      BY <3>1, <3>2
  <2> HIDE DEF m, k
  <2>2. m \in 1..(e - o) /\ m \in 1..Len(part) /\ o + m \in 1..Len(data)
        /\ (8 * ((o + m) - 1)) + k = (8 * o) + p
    BY <1>1, <1>2, <1>4, <2>1
  <2>3. B[p] = BitOf(part[m], k)
    BY <1>4, <2>1, <2>2, BitInByte
  <2>4. DataBits[(8 * ((o + m) - 1)) + k] = BitOf(data[o + m], k)
    BY <2>1, <2>2, BitInByte DEF DataBits
  <2> QED
    BY <1>4, <2>2, <2>3, <2>4
<1> HIDE DEF B
<1>7. /\ loaded \in Seq(Bits) /\ Len(loaded) = L + Len(B)
      /\ \A i \in 1..L : loaded[i] = s.buffer[i]
      /\ \A i \in (L + 1)..(L + Len(B)) : loaded[i] = B[i - L]
  BY <1>1, <1>5, ConcatenationOf
<1> HIDE DEF loaded, L, q
<1>8. ASSUME NEW k \in 1..Len(loaded) PROVE loaded[k] = DataBits[q + k]
  <2>1. CASE k \in 1..L
    BY <1>3, <1>7, <2>1 DEF L
  <2>2. CASE k \notin 1..L
    <3>1. k \in (L + 1)..(L + Len(B)) /\ k - L \in 1..(8 * (e - o))
          /\ (8 * o) + (k - L) = q + k
      BY <1>1, <1>5, <1>7, <2>2
    <3> QED
      BY <1>6, <1>7, <3>1
  <2> QED
    BY <2>1, <2>2
<1>9. Len(loaded) = (8 * e) - q
  BY <1>1, <1>5, <1>7
<1> QED
  BY <1>7, <1>8, <1>9 DEF loaded, q, B, part, o

(* What get_value returns are the next bits, as they are in the data, and   *)
(* nothing when the data has fewer.                                         *)
LEMMA ValuesAreNext ==
  ASSUME data \in Seq(Bytes), NEW s, IsStream(s), NEW n \in Nat
  PROVE  /\ \A v \in Values(s, n) :
              /\ v.bits \in Seq(Bits)
              /\ Len(v.bits) = n
              /\ \A k \in 1..n : v.bits[k] = DataBits[Position(s) + k]
              /\ IsStream(v.stream)
              /\ Position(v.stream) = Position(s) + n
         /\ Values(s, n) # {} <=> Position(s) + n <= 8 * Len(data)
<1> DEFINE k == BytesToLoad(s, n)
           o == s.offset
           L == Len(s.buffer)
           q == Position(s)
           e == o + k
           bits == s.buffer \o BitsOfBytes(SubSeq(data, o + 1, e))
<1>1. /\ q \in Nat /\ q = (8 * o) - L /\ o \in Nat /\ o <= Len(data)
      /\ s.buffer \in Seq(Bits) /\ L \in 0..7
  BY PositionIsNat
<1>2. k \in Nat /\ (n <= L => k = 0) /\ (n > L => k >= 1 /\ L + (8 * k) - n \in 0..7)
  BY BytesToLoadAreEnough
<1>3. Len(data) \in Nat
  OBVIOUS
<1>4. Values(s, n) =
        IF e > Len(data) THEN {}
        ELSE {[bits |-> SubSeq(bits, 1, n),
               stream |-> [offset |-> e, buffer |-> SubSeq(bits, n + 1, Len(bits))]]}
  BY DEF Values
<1>8. e \in Nat
  BY <1>1, <1>2
<1>5. Values(s, n) # {} <=> e <= Len(data)
  <2> HIDE DEF bits, e
  <2>1. CASE e > Len(data)
    BY <1>3, <1>4, <1>8, <2>1
  <2>2. CASE ~(e > Len(data))
    <3>1. Values(s, n) # {}
      BY <1>4, <2>2
    <3> QED
      BY <1>3, <1>8, <2>2, <3>1
  <2> QED
    BY <2>1, <2>2
<1>6. e <= Len(data) <=> q + n <= 8 * Len(data)
  <2> HIDE DEF k, o, L, q
  <2>1. CASE n <= L
    BY <1>1, <1>2, <1>3, <2>1
  <2>2. CASE n > L
    BY <1>1, <1>2, <1>3, <2>2
  <2> QED
    BY <1>1, <2>1, <2>2
<1>7. ASSUME NEW v \in Values(s, n)
      PROVE  /\ v.bits \in Seq(Bits)
             /\ Len(v.bits) = n
             /\ \A i \in 1..n : v.bits[i] = DataBits[q + i]
             /\ IsStream(v.stream)
             /\ Position(v.stream) = q + n
  <2>1. v.bits \in Seq(Bits) /\ Len(v.bits) = n /\ IsStream(v.stream)
    BY ValuesOfStream
  <2>2. /\ e <= Len(data) /\ v.bits = SubSeq(bits, 1, n)
        /\ v.stream.offset = e /\ v.stream.buffer = SubSeq(bits, n + 1, Len(bits))
    <3> HIDE DEF bits, e
    <3>1. e <= Len(data) /\ ~(e > Len(data))
      BY <1>3, <1>5, <1>8
    <3>2. v = [bits |-> SubSeq(bits, 1, n),
               stream |-> [offset |-> e, buffer |-> SubSeq(bits, n + 1, Len(bits))]]
      BY <1>4, <3>1
    <3> QED
      BY <3>1, <3>2
  <2>3. /\ bits \in Seq(Bits) /\ Len(bits) = (8 * e) - q
        /\ \A i \in 1..Len(bits) : bits[i] = DataBits[q + i]
    <3>1. e \in Nat /\ o <= e
      BY <1>1, <1>2
    <3> HIDE DEF e
    <3> QED
      BY <2>2, <3>1, LoadedAreNext
  <2>4. q + n <= 8 * e
    <3> HIDE DEF k, o, L, q
    <3> QED
      BY <1>1, <1>2
  <2> HIDE DEF bits, q, k, L, o
  <2>5. 1 <= n + 1 /\ n <= Len(bits) /\ 1 \in Nat /\ 1 <= 1 /\ n - 1 + 1 = n
    BY <1>1, <1>2, <2>3, <2>4
  <2>6. \A i \in 1..n : SubSeq(bits, 1, n)[i] = bits[i]
    <3>1. \A i \in 1..(n - 1 + 1) : SubSeq(bits, 1, n)[i] = bits[1 + i - 1]
      BY <2>3, <2>5, SubSeqOf
    <3>2. \A i \in 1..n : 1 + i - 1 = i
      OBVIOUS
    <3> QED
      BY <2>5, <3>1, <3>2
  <2>7. \A i \in 1..n : v.bits[i] = DataBits[q + i]
    <3>1. \A i \in 1..n : i \in 1..Len(bits)
      BY <2>3, <2>5
    <3> QED
      BY <2>2, <2>3, <2>6, <3>1
  <2>8. Position(v.stream) = q + n
    <3>1. n + 1 \in Nat /\ Len(bits) \in Nat /\ 1 <= n + 1 /\ n + 1 <= Len(bits) + 1
          /\ Len(bits) - (n + 1) + 1 = Len(bits) - n
      BY <2>3, <2>5
    <3>2. Len(SubSeq(bits, n + 1, Len(bits))) = Len(bits) - (n + 1) + 1
      BY <2>3, <3>1, SubSeqOf
    <3>3. Position(v.stream) = (8 * e) - (Len(bits) - n)
      BY <2>2, <3>1, <3>2 DEF Position
    <3> QED
      BY <1>1, <1>2, <2>3, <3>3
  <2> QED
    BY <2>1, <2>7, <2>8
<1> QED
  BY <1>5, <1>6, <1>7

(* What is read where these bits come is these bits. *)
LEMMA ReadsWhatComes ==
  ASSUME data \in Seq(Bytes), NEW s, IsStream(s), NEW x \in Seq(Bits),
         NEW n, n = Len(x), Comes(Position(s), x)
  PROVE  /\ \A v \in Values(s, n) :
              /\ v.bits = x
              /\ IsStream(v.stream)
              /\ Position(v.stream) = Position(s) + n
         /\ input.damage = "none" => Values(s, n) # {}
<1> DEFINE q == Position(s)
<1>1. n \in Nat /\ q \in Nat
  BY PositionIsNat
<1>2. /\ \A v \in Values(s, n) :
              /\ v.bits \in Seq(Bits)
              /\ Len(v.bits) = n
              /\ \A k \in 1..n : v.bits[k] = DataBits[q + k]
              /\ IsStream(v.stream)
              /\ Position(v.stream) = q + n
      /\ Values(s, n) # {} <=> q + n <= 8 * Len(data)
  BY <1>1, ValuesAreNext
<1>3. /\ \A k \in 1..n : q + k <= 8 * Len(data) => DataBits[q + k] = x[k]
      /\ input.damage = "none" => q + n <= 8 * Len(data)
  BY DEF Comes
<1> HIDE DEF q
<1>4. ASSUME NEW v \in Values(s, n) PROVE v.bits = x
  <2>1. q + n <= 8 * Len(data) /\ Len(data) \in Nat
    BY <1>2
  <2>2. \A k \in 1..n : q + k <= 8 * Len(data)
    BY <1>1, <2>1
  <2>3. \A k \in 1..n : v.bits[k] = x[k]
    BY <1>2, <1>3, <2>2
  <2>4. v.bits \in Seq(Bits) /\ Len(v.bits) = Len(x)
    BY <1>2
  <2> QED
    BY <2>3, <2>4
<1> QED
  BY <1>2, <1>3, <1>4 DEF q

(* What comes, part by part. *)
LEMMA PartsCome ==
  ASSUME data \in Seq(Bytes), NEW q \in Nat, NEW x \in Seq(Bits), NEW y \in Seq(Bits),
         Comes(q, x \o y)
  PROVE  Comes(q, x) /\ Comes(q + Len(x), y)
<1> DEFINE z == x \o y
           L == Len(x)
           M == Len(y)
           D == 8 * Len(data)
<1>1. /\ Len(z) = L + M
      /\ \A i \in 1..L : z[i] = x[i]
      /\ \A i \in (L + 1)..(L + M) : z[i] = y[i - L]
  BY ConcatenationOf
<1>2. L \in Nat /\ M \in Nat /\ D \in Nat
  OBVIOUS
<1>3. /\ \A k \in 1..Len(z) : q + k <= D => DataBits[q + k] = z[k]
      /\ input.damage = "none" => q + Len(z) <= D
  BY DEF Comes
<1> HIDE DEF z, L, M, D
<1>4. \A k \in 1..L : q + k <= D => DataBits[q + k] = x[k]
  BY <1>1, <1>2, <1>3
<1>5. ASSUME NEW k \in 1..M, (q + L) + k <= D PROVE DataBits[(q + L) + k] = y[k]
  <2>1. L + k \in 1..Len(z) /\ q + (L + k) = (q + L) + k /\ (L + k) - L = k
        /\ L + k \in (L + 1)..(L + M)
    BY <1>1, <1>2
  <2> QED
    BY <1>1, <1>3, <1>5, <2>1
<1>6. input.damage = "none" => q + L <= D /\ (q + L) + M <= D
  BY <1>1, <1>2, <1>3
<1> QED
  BY <1>4, <1>5, <1>6 DEF Comes, L, M, D

-----------------------------------------------------------------------------
(* Parts that are put together one after the other.                        *)

(* f[k] is g[1] to g[k], one after the other. *)
IsJoined(f, g, n, S) ==
  /\ f \in [0..n -> Seq(S)]
  /\ f[0] = <<>>
  /\ \A k \in 1..n : g[k] \in Seq(S) /\ f[k] = f[k - 1] \o g[k]

(* What is joined is a sequence when the parts are. *)
LEMMA JoinedIs ==
  ASSUME NEW n \in Nat, NEW S, NEW g, NEW f,
         f = [k \in 0..n |-> f[k]], f[0] = <<>>,
         \A k \in 1..n : g[k] \in Seq(S) /\ f[k] = f[k - 1] \o g[k]
  PROVE  IsJoined(f, g, n, S)
<1> DEFINE T == {k \in 0..n : f[k] \in Seq(S)}
<1>1. 0 \in T
  <2>1. <<>> \in Seq(S) /\ 0 \in 0..n
    OBVIOUS
  <2>2. f[0] \in Seq(S)
    BY <2>1, Zenon
  <2> QED
    BY <2>1, <2>2
<1>2. ASSUME NEW k \in 0..(n - 1), k \in T PROVE k + 1 \in T
  <2>1. k + 1 \in 1..n /\ k + 1 \in 0..n /\ (k + 1) - 1 = k
    OBVIOUS
  <2>2. f[k + 1] = f[k] \o g[k + 1] /\ g[k + 1] \in Seq(S)
    BY <2>1
  <2>3. f[k] \in Seq(S)
    BY <1>2
  <2>4. f[k + 1] \in Seq(S)
    BY <2>2, <2>3, ConcatenationOf
  <2> QED
    BY <2>1, <2>4
<1>3. \A k \in 0..n : k \in T
  <2>1. 0 \in Int /\ n \in Int
    OBVIOUS
  <2> HIDE DEF T
  <2> QED
    BY <1>1, <1>2, <2>1, UpTo
<1>4. f \in [0..n -> Seq(S)]
  BY <1>3
<1> QED
  BY <1>4 DEF IsJoined

LEMMA JoinedUpToIs ==
  ASSUME NEW n \in Nat, NEW S, NEW g, \A k \in 1..n : g[k] \in Seq(S)
  PROVE  IsJoined(JoinedUpTo(g, n), g, n, S)
<1> DEFINE f == JoinedUpTo(g, n)
<1>1. /\ f = [k \in 0..n |-> f[k]] /\ f[0] = <<>>
      /\ \A k \in 1..n : f[k] = f[k - 1] \o g[k]
  BY JoinedByRecursion
<1> HIDE DEF f
<1> QED
  BY <1>1, JoinedIs DEF f

(* Each part has its place in the whole, and what is before it starts it. *)
HasParts(f, g, n, S) ==
  /\ \A k \in 0..n :
       /\ f[k] \in Seq(S) /\ Len(f[k]) \in Nat /\ Len(f[k]) <= Len(f[n])
       /\ \A i \in 1..Len(f[k]) : f[n][i] = f[k][i]
  /\ \A k \in 1..n :
       /\ Len(f[k]) = Len(f[k - 1]) + Len(g[k])
       /\ \A i \in 1..Len(g[k]) : f[n][Len(f[k - 1]) + i] = g[k][i]

LEMMA PartsOfJoined ==
  ASSUME NEW n \in Nat, NEW S, NEW g, NEW f, IsJoined(f, g, n, S)
  PROVE  HasParts(f, g, n, S)
<1>1. /\ f \in [0..n -> Seq(S)] /\ f[0] = <<>>
      /\ \A k \in 1..n : g[k] \in Seq(S) /\ f[k] = f[k - 1] \o g[k]
  BY DEF IsJoined
<1>2. ASSUME NEW k \in 1..n
      PROVE  /\ Len(f[k]) = Len(f[k - 1]) + Len(g[k])
             /\ f[k - 1] \in Seq(S) /\ g[k] \in Seq(S) /\ f[k] \in Seq(S)
             /\ \A i \in 1..Len(f[k - 1]) : f[k][i] = f[k - 1][i]
             /\ \A i \in 1..Len(g[k]) : f[k][Len(f[k - 1]) + i] = g[k][i]
  <2>1. k - 1 \in 0..n /\ k \in 0..n
    OBVIOUS
  <2>2. f[k - 1] \in Seq(S) /\ g[k] \in Seq(S) /\ f[k] = f[k - 1] \o g[k] /\ f[k] \in Seq(S)
    BY <1>1, <2>1
  <2>3. /\ Len(f[k]) = Len(f[k - 1]) + Len(g[k])
        /\ \A i \in 1..Len(f[k - 1]) : f[k][i] = f[k - 1][i]
        /\ \A i \in (Len(f[k - 1]) + 1)..(Len(f[k - 1]) + Len(g[k])) :
             f[k][i] = g[k][i - Len(f[k - 1])]
    <3> DEFINE a == f[k - 1]
               b == g[k]
    <3>1. a \in Seq(S) /\ b \in Seq(S) /\ f[k] = a \o b
      BY <2>2
    <3> HIDE DEF a, b
    <3>2. /\ Len(a \o b) = Len(a) + Len(b)
          /\ \A i \in 1..Len(a) : (a \o b)[i] = a[i]
          /\ \A i \in (Len(a) + 1)..(Len(a) + Len(b)) : (a \o b)[i] = b[i - Len(a)]
      BY <3>1, ConcatenationOf
    <3> QED
      BY <3>1, <3>2, Zenon DEF a, b
  <2>4. ASSUME NEW i \in 1..Len(g[k]) PROVE f[k][Len(f[k - 1]) + i] = g[k][i]
    <3> DEFINE L == Len(f[k - 1])
               M == Len(g[k])
    <3>1. L \in Nat /\ M \in Nat /\ i \in 1..M
      BY <2>2
    <3> HIDE DEF L, M
    <3>2. L + i \in (L + 1)..(L + M) /\ (L + i) - L = i
      BY <3>1
    <3>3. f[k][L + i] = g[k][(L + i) - L]
      BY <2>3, <3>2 DEF L, M
    <3> QED
      BY <3>2, <3>3 DEF L
  <2> QED
    BY <2>2, <2>3, <2>4
<1>3. ASSUME NEW k \in 0..n
      PROVE  Len(f[k]) <= Len(f[n]) /\ \A i \in 1..Len(f[k]) : f[n][i] = f[k][i]
  <2> DEFINE T == {m \in k..n : /\ Len(f[k]) <= Len(f[m])
                                /\ \A i \in 1..Len(f[k]) : f[m][i] = f[k][i]}
  <2>0. \A m \in 0..n : Len(f[m]) \in Nat
    BY <1>1
  <2>1. k \in T
    BY <2>0
  <2>2. ASSUME NEW m \in k..(n - 1), m \in T PROVE m + 1 \in T
    <3>1. m + 1 \in 1..n /\ m + 1 \in k..n /\ (m + 1) - 1 = m /\ m \in 0..n
      OBVIOUS
    <3>2. /\ Len(f[m + 1]) = Len(f[m]) + Len(g[m + 1])
          /\ g[m + 1] \in Seq(S)
          /\ \A i \in 1..Len(f[m]) : f[m + 1][i] = f[m][i]
      <4> DEFINE p == m + 1
      <4>1. p \in 1..n /\ p - 1 = m
        BY <3>1
      <4> HIDE DEF p
      <4>2. /\ Len(f[p]) = Len(f[p - 1]) + Len(g[p])
            /\ g[p] \in Seq(S)
            /\ \A i \in 1..Len(f[p - 1]) : f[p][i] = f[p - 1][i]
        BY <1>2, <4>1, Zenon
      <4> QED
        BY <4>1, <4>2, Zenon DEF p
    <3>3. Len(f[k]) <= Len(f[m]) /\ \A i \in 1..Len(f[k]) : f[m][i] = f[k][i]
      BY <2>2
    <3>4. Len(f[k]) \in Nat /\ Len(f[m]) \in Nat /\ Len(g[m + 1]) \in Nat
      BY <2>0, <3>1, <3>2
    <3>5. \A i \in 1..Len(f[k]) : f[m + 1][i] = f[k][i]
      <4>1. \A i \in 1..Len(f[k]) : i \in 1..Len(f[m])
        BY <3>3, <3>4
      <4> QED
        BY <3>2, <3>3, <4>1
    <3>6. Len(f[k]) <= Len(f[m + 1])
      <4> DEFINE a == Len(f[k])
                 b == Len(f[m])
                 c == Len(f[m + 1])
                 d == Len(g[m + 1])
      <4>1. a \in Nat /\ b \in Nat /\ d \in Nat /\ c = b + d /\ a <= b
        BY <3>2, <3>3, <3>4
      <4> HIDE DEF a, b, c, d
      <4>2. a <= c
        BY <4>1
      <4> QED
        BY <4>2 DEF a, c
    <3> QED
      BY <3>1, <3>5, <3>6
  <2>3. \A m \in k..n : m \in T
    <3>1. k \in Int /\ n \in Int
      OBVIOUS
    <3> HIDE DEF T
    <3> QED
      BY <2>1, <2>2, <3>1, UpTo
  <2>4. n \in k..n
    OBVIOUS
  <2> QED
    BY <2>3, <2>4
<1>4. ASSUME NEW k \in 1..n, NEW i \in 1..Len(g[k])
      PROVE  f[n][Len(f[k - 1]) + i] = g[k][i]
  <2> DEFINE p == Len(f[k - 1]) + i
  <2>0. f[k - 1] \in Seq(S) /\ g[k] \in Seq(S)
    BY <1>2
  <2>1. Len(f[k - 1]) \in Nat /\ Len(g[k]) \in Nat /\ k \in 0..n
        /\ Len(f[k]) = Len(f[k - 1]) + Len(g[k])
    <3>1. Len(f[k]) = Len(f[k - 1]) + Len(g[k])
      BY <1>2, Zenon
    <3>2. Len(f[k - 1]) \in Nat /\ Len(g[k]) \in Nat /\ k \in 0..n
      BY <2>0
    <3> QED
      BY <3>1, <3>2
  <2>2. p \in 1..Len(f[k])
    <3> DEFINE a == Len(f[k - 1])
               b == Len(g[k])
               c == Len(f[k])
    <3>1. a \in Nat /\ b \in Nat /\ c = a + b /\ i \in 1..b
      BY <2>1
    <3> HIDE DEF a, b, c
    <3>2. a + i \in 1..c
      BY <3>1
    <3> QED
      BY <3>2 DEF a, c
  <2>3. f[k][p] = g[k][i]
    BY <1>2
  <2> HIDE DEF p
  <2>4. f[n][p] = f[k][p]
    BY <1>3, <2>1, <2>2
  <2> QED
    BY <2>3, <2>4 DEF p
<1>5. \A k \in 0..n : f[k] \in Seq(S) /\ Len(f[k]) \in Nat
  BY <1>1
<1> QED
  BY <1>2, <1>3, <1>4, <1>5 DEF HasParts

(* Each part of what comes, comes where it starts. *)
LEMMA JoinedComes ==
  ASSUME data \in Seq(Bytes), NEW q \in Nat, NEW n \in Nat, NEW g, NEW f,
         IsJoined(f, g, n, Bits), Comes(q, f[n]), NEW k \in 1..n
  PROVE  Comes(q + Len(f[k - 1]), g[k])
<1>0. HasParts(f, g, n, Bits)
  BY PartsOfJoined
<1> DEFINE L == Len(f[k - 1])
           M == Len(g[k])
           N == Len(f[n])
           D == 8 * Len(data)
<1>1. /\ L \in Nat /\ Len(f[k]) = L + M /\ Len(f[k]) <= N /\ N \in Nat
      /\ \A i \in 1..M : f[n][L + i] = g[k][i]
  <2>1. k - 1 \in 0..n /\ k \in 0..n /\ n \in 0..n
    OBVIOUS
  <2> HIDE DEF D
  <2> QED
    BY <1>0, <2>1, Zenon DEF HasParts
<1>2. M \in Nat /\ D \in Nat
  <2>1. g[k] \in Seq(Bits)
    BY DEF IsJoined
  <2> QED
    BY <2>1
<1>3. /\ \A i \in 1..N : q + i <= D => DataBits[q + i] = f[n][i]
      /\ input.damage = "none" => q + N <= D
  BY DEF Comes
<1> HIDE DEF L, M, N, D
<1>4. ASSUME NEW i \in 1..M, (q + L) + i <= D PROVE DataBits[(q + L) + i] = g[k][i]
  <2>1. L + i \in 1..N /\ q + (L + i) = (q + L) + i
    BY <1>1, <1>2
  <2> QED
    BY <1>1, <1>3, <1>4, <2>1
<1>5. input.damage = "none" => (q + L) + M <= D
  BY <1>1, <1>2, <1>3
<1> QED
  BY <1>4, <1>5 DEF Comes, L, M, D

-----------------------------------------------------------------------------
(* Codes are given out in the order of their symbols.                      *)

(* Of the first k symbols, those that have a code of n bits, from 1. *)
Among(code_sizes, n, k) == {t \in 1..k : code_sizes[t] = n}

LEMMA AmongIsFinite ==
  ASSUME NEW code_sizes, NEW n, NEW k \in Nat
  PROVE  /\ IsFiniteSet(Among(code_sizes, n, k))
         /\ Cardinality(Among(code_sizes, n, k)) \in Nat
<1>1. IsFiniteSet(1..k)
  BY FS_Interval
<1>2. Among(code_sizes, n, k) \subseteq 1..k
  BY DEF Among
<1>3. IsFiniteSet(Among(code_sizes, n, k))
  BY <1>1, <1>2, FS_Subset
<1> QED
  BY <1>3, FS_CardinalityType

LEMMA AmongNext ==
  ASSUME NEW code_sizes, NEW n, NEW k \in Nat
  PROVE  Cardinality(Among(code_sizes, n, k + 1)) =
           Cardinality(Among(code_sizes, n, k))
             + (IF code_sizes[k + 1] = n THEN 1 ELSE 0)
<1> DEFINE A == Among(code_sizes, n, k)
           B == Among(code_sizes, n, k + 1)
<1>1. IsFiniteSet(A) /\ Cardinality(A) \in Nat
  BY AmongIsFinite
<1>2. CASE code_sizes[k + 1] = n
  <2>1. B = A \cup {k + 1} /\ k + 1 \notin A
    BY <1>2 DEF Among
  <2> HIDE DEF A, B
  <2>2. Cardinality(A \cup {k + 1}) = Cardinality(A) + 1
    BY <1>1, <2>1, FS_AddElement
  <2> QED
    BY <1>2, <2>1, <2>2 DEF A, B
<1>3. CASE code_sizes[k + 1] # n
  <2>1. B = A
    BY <1>3 DEF Among
  <2> HIDE DEF A, B
  <2> QED
    BY <1>1, <1>3, <2>1 DEF A, B
<1> QED
  BY <1>2, <1>3

(* The symbols of a size are as many as have it, and in their order. *)
AreInOrder(symbols, code_sizes, n) ==
  /\ Len(symbols) = Cardinality(Among(code_sizes, n, Len(code_sizes)))
  /\ \A s \in 0..(Len(code_sizes) - 1) :
       code_sizes[s + 1] = n =>
         /\ Cardinality(Among(code_sizes, n, s)) + 1 \in 1..Len(symbols)
         /\ symbols[Cardinality(Among(code_sizes, n, s)) + 1] = s

LEMMA SymbolsAreInOrder ==
  ASSUME NEW code_sizes, Len(code_sizes) \in Nat, NEW n
  PROVE  AreInOrder(SymbolsOfSize(code_sizes, n), code_sizes, n)
<1> DEFINE N == Len(code_sizes)
           S == 0..(N - 1)
           g == [k \in 1..N |-> IF code_sizes[k] = n THEN <<k - 1>> ELSE <<>>]
           Rank(k) == Cardinality(Among(code_sizes, n, k))
<1>1. PICK f \in [0..N -> Seq(S)] :
        /\ f[0] = <<>>
        /\ \A k \in 1..N : f[k] =
             f[k - 1] \o (IF code_sizes[k] = n THEN <<k - 1>> ELSE <<>>)
        /\ SymbolsOfSize(code_sizes, n) = f[N]
  BY SymbolsByRecursion
<1>2. N \in Nat
  OBVIOUS
<1> HIDE DEF N
<1>3. \A k \in 1..N : /\ g[k] \in Seq(S)
                      /\ g[k] = IF code_sizes[k] = n THEN <<k - 1>> ELSE <<>>
  <2>1. ASSUME NEW k \in 1..N PROVE k - 1 \in S
    BY <1>2
  <2> HIDE DEF S
  <2> QED
    BY <2>1
<1>4. \A k \in 1..N : f[k] = f[k - 1] \o g[k]
  BY <1>1, <1>3
<1>5. IsJoined(f, g, N, S)
  <2> HIDE DEF g, S
  <2> QED
    BY <1>1, <1>3, <1>4 DEF IsJoined
<1>6. HasParts(f, g, N, S)
  <2> HIDE DEF g, S
  <2> QED
    BY <1>2, <1>5, PartsOfJoined
<1> HIDE DEF g, S
<1>7. \A k \in Nat : Rank(k) \in Nat
  BY AmongIsFinite
<1>8. \A k \in Nat : Rank(k + 1) = Rank(k) + (IF code_sizes[k + 1] = n THEN 1 ELSE 0)
  BY AmongNext
<1>9. Rank(0) = 0
  <2>1. Among(code_sizes, n, 0) = {}
    BY DEF Among
  <2> QED
    BY <2>1, FS_EmptySet
<1> HIDE DEF Rank
<1>10. \A k \in 1..N : Len(g[k]) = IF code_sizes[k] = n THEN 1 ELSE 0
  <2> TAKE k \in 1..N
  <2> HIDE DEF g
  <2>1. CASE code_sizes[k] = n
    <3>1. g[k] = <<k - 1>>
      BY <1>3, <2>1
    <3> QED
      BY <2>1, <3>1
  <2>2. CASE code_sizes[k] # n
    <3>1. g[k] = <<>>
      BY <1>3, <2>2
    <3> QED
      BY <2>2, <3>1
  <2> QED
    BY <2>1, <2>2
<1> DEFINE T == {k \in 0..N : Len(f[k]) = Rank(k)}
<1>11. \A k \in 0..N : k \in T
  <2>1. 0 \in T
    BY <1>1, <1>2, <1>9
  <2>2. ASSUME NEW k \in 0..(N - 1), k \in T PROVE k + 1 \in T
    <3>1. k + 1 \in 1..N /\ k + 1 \in 0..N /\ (k + 1) - 1 = k /\ k \in Nat
      BY <1>2
    <3>2. Len(f[k + 1]) = Len(f[k]) + Len(g[k + 1])
      <4> DEFINE p == k + 1
      <4>1. p \in 1..N /\ p - 1 = k
        BY <3>1
      <4> HIDE DEF p
      <4>2. Len(f[p]) = Len(f[p - 1]) + Len(g[p])
        BY <1>6, <4>1, Zenon DEF HasParts
      <4> QED
        BY <4>1, <4>2, Zenon DEF p
    <3>3. Len(f[k + 1]) = Rank(k + 1)
      BY <1>8, <1>10, <2>2, <3>1, <3>2
    <3> QED
      BY <3>1, <3>3
  <2>3. 0 \in Int /\ N \in Int
    BY <1>2
  <2> HIDE DEF T
  <2> QED
    BY <2>1, <2>2, <2>3, UpTo
<1>12. Len(f[N]) = Rank(N)
  BY <1>2, <1>11
<1>13. ASSUME NEW s \in 0..(N - 1), code_sizes[s + 1] = n
       PROVE  Rank(s) + 1 \in 1..Len(f[N]) /\ f[N][Rank(s) + 1] = s
  <2> DEFINE p == s + 1
  <2>1. p \in 1..N /\ p \in 0..N /\ p - 1 = s /\ s \in 0..N /\ s \in Nat /\ code_sizes[p] = n
    BY <1>2, <1>13
  <2> HIDE DEF p
  <2>2. g[p] = <<p - 1>>
    BY <1>3, <2>1
  <2>3. Len(g[p]) = 1 /\ g[p][1] = s
    BY <2>1, <2>2
  <2>4. Len(f[p - 1]) = Rank(s)
    BY <1>11, <2>1
  <2>5. /\ Len(f[p]) = Len(f[p - 1]) + Len(g[p])
        /\ \A i \in 1..Len(g[p]) : f[N][Len(f[p - 1]) + i] = g[p][i]
        /\ Len(f[p]) <= Len(f[N])
    BY <1>6, <2>1, Zenon DEF HasParts
  <2>6. f[N][Rank(s) + 1] = s
    <3>1. 1 \in 1..Len(g[p])
      BY <2>3
    <3>2. f[N][Len(f[p - 1]) + 1] = g[p][1]
      BY <2>5, <3>1
    <3> QED
      BY <2>3, <2>4, <3>2
  <2>7. Rank(s) + 1 <= Len(f[N]) /\ Rank(s) \in Nat
    BY <1>7, <2>1, <2>3, <2>4, <2>5
  <2>8. Len(f[N]) \in Nat
    BY <1>7, <1>2, <1>12
  <2> QED
    BY <2>6, <2>7, <2>8
<1> QED
  BY <1>1, <1>12, <1>13 DEF AreInOrder, Rank, N

(* The size after a size. *)
LEMMA NextSize ==
  ASSUME NEW k \in 1..(15 - 1)
  PROVE  k + 1 \in 1..15 /\ k + 1 \in 2..15 /\ (k + 1) - 1 = k /\ k \in 1..15
OBVIOUS

(* All symbols come in the order of the sizes of their codes. *)
LEMMA SortedInOrder ==
  ASSUME NEW code_sizes, Len(code_sizes) \in Nat, NEW n \in 1..15
  PROVE  LET tree == Tree(code_sizes)
             symbols == SymbolsOfSize(code_sizes, n)
         IN  /\ tree.code_size_counts[n] = Len(symbols)
             /\ \A i \in 1..Len(symbols) :
                  tree.symbols[FirstIndex(tree)[n] + i] = symbols[i]
<1> DEFINE N == Len(code_sizes)
           tree == Tree(code_sizes)
           first == FirstIndex(tree)
           S == 0..(N - 1)
           g == [k \in 1..15 |-> SymbolsOfSize(code_sizes, k)]
           counts == tree.code_size_counts
<1>1. \A k : SymbolsOfSize(code_sizes, k) \in Seq(S)
  BY SymbolsAreOfCodes
<1>2. /\ counts = [k \in CodeSizes |-> Len(SymbolsOfSize(code_sizes, k))]
      /\ tree.symbols = SortedSymbols(code_sizes)
  BY DEF Tree, CodeSizeCounts
<1>3. PICK f \in [0..15 -> Seq(S)] :
        /\ f[0] = <<>>
        /\ \A k \in 1..15 : f[k] = f[k - 1] \o SymbolsOfSize(code_sizes, k)
        /\ SortedSymbols(code_sizes) = f[15]
  BY <1>1, SortedByRecursion
<1> HIDE DEF S
<1>4. counts \in [CodeSizes -> Nat]
  <2>1. \A k \in CodeSizes : Len(SymbolsOfSize(code_sizes, k)) \in Nat
    BY <1>1
  <2> HIDE DEF tree
  <2> QED
    BY <1>2, <2>1
<1> HIDE DEF tree
<1>5. /\ first \in [1..15 -> Nat]
      /\ first[1] = 0
      /\ \A k \in 2..15 : first[k] = first[k - 1] + counts[k - 1]
  BY <1>4, FirstIndexByRecursion
<1> HIDE DEF first
<1>6. \A k \in 1..15 : counts[k] = Len(g[k]) /\ g[k] = SymbolsOfSize(code_sizes, k)
  BY <1>2, SizesAreNumbers
<1>7. IsJoined(f, g, 15, S)
  <2>1. \A k \in 1..15 : g[k] \in Seq(S) /\ f[k] = f[k - 1] \o g[k]
    BY <1>1, <1>3
  <2> HIDE DEF g
  <2> QED
    BY <1>3, <2>1 DEF IsJoined
<1> HIDE DEF g, counts
<1>8. HasParts(f, g, 15, S)
  BY <1>7, PartsOfJoined
<1> DEFINE T == {k \in 1..15 : first[k] = Len(f[k - 1])}
<1>9. \A k \in 1..15 : k \in T
  <2>1. 1 \in T
    BY <1>3, <1>5
  <2>2. ASSUME NEW k \in 1..(15 - 1), k \in T PROVE k + 1 \in T
    <3>1. k + 1 \in 1..15 /\ k + 1 \in 2..15 /\ (k + 1) - 1 = k /\ k \in 1..15
      BY NextSize
    <3>2. first[k + 1] = first[k] + counts[k]
      BY <1>5, <3>1
    <3>3. Len(f[k]) = Len(f[k - 1]) + Len(g[k])
      BY <1>8, <3>1, Zenon DEF HasParts
    <3> QED
      BY <1>6, <2>2, <3>1, <3>2, <3>3
  <2>3. 1 \in Int /\ 15 \in Int
    OBVIOUS
  <2> HIDE DEF T
  <2> QED
    BY <2>1, <2>2, <2>3, UpTo
<1>10. first[n] = Len(f[n - 1])
  BY <1>9
<1>11. \A i \in 1..Len(g[n]) : f[15][Len(f[n - 1]) + i] = g[n][i]
  BY <1>8, Zenon DEF HasParts
<1>12. counts[n] = Len(g[n]) /\ g[n] = SymbolsOfSize(code_sizes, n)
  BY <1>6
<1>13. \A i \in 1..Len(SymbolsOfSize(code_sizes, n)) :
         tree.symbols[first[n] + i] = SymbolsOfSize(code_sizes, n)[i]
  BY <1>2, <1>3, <1>10, <1>11, <1>12, Zenon
<1> QED
  BY <1>12, <1>13 DEF counts, first, tree

(* What is left of the code space after each size. *)
LEMMA LeftByRecursion ==
  ASSUME NEW counts
  PROVE  /\ LeftValue(counts) = [k \in 0..15 |-> LeftValue(counts)[k]]
         /\ LeftValue(counts)[0] = 1
         /\ \A k \in 1..15 : LeftValue(counts)[k] =
              (2 * LeftValue(counts)[k - 1]) - counts[k]
<1> DEFINE Next(k, v) == (2 * v) - counts[k]
           F == LeftValue(counts)
           Is(f, n) == f = [k \in 0..n |-> IF k = 0 THEN 1 ELSE Next(k, f[k - 1])]
           T == {n \in 0..(15) : \E f : Is(f, n)}
<1>1. 15 \in Int /\ 0 <= 15 /\ 0 \in Int
  OBVIOUS
<1>2. (\E f : Is(f, 15)) => Is(F, 15)
  BY Zenon DEF LeftValue, MaximumCodeSize
<1> HIDE DEF Next, F
<1>3. 0 \in T
  <2> DEFINE g == [k \in 0..0 |-> 1]
  <2>1. Is(g, 0)
    OBVIOUS
  <2> HIDE DEF g, Is
  <2> QED
    BY <1>1, <2>1
<1>4. ASSUME NEW n \in 0..(15 - 1), n \in T PROVE n + 1 \in T
  <2>1. PICK f : Is(f, n)
    BY <1>4
  <2> DEFINE g == [k \in 0..(n + 1) |-> IF k = n + 1 THEN Next(n + 1, f[n]) ELSE f[k]]
  <2>2. \A k \in 0..n : k # 0 => f[k] = Next(k, f[k - 1])
    BY <2>1
  <2>3. f[0] = 1
    BY <1>1, <2>1
  <2>4. g[n + 1] = Next(n + 1, f[n]) /\ \A k \in 0..n : g[k] = f[k]
    BY <1>1
  <2>5. g[0] = 1
    BY <1>1, <2>3, <2>4
  <2>6. ASSUME NEW k \in 0..(n + 1), k # 0 PROVE g[k] = Next(k, g[k - 1])
    <3>1. k - 1 \in 0..n /\ g[k - 1] = f[k - 1]
      BY <1>1, <2>4, <2>6
    <3>2. CASE k = n + 1
      <4>1. k - 1 = n
        BY <3>2
      <4> QED
        BY <2>4, <3>1, <3>2, <4>1
    <3>3. CASE k # n + 1
      <4>1. k \in 0..n
        BY <2>6, <3>3
      <4> QED
        BY <2>2, <2>4, <2>6, <3>1, <4>1
    <3> QED
      BY <3>2, <3>3
  <2>7. g = [k \in 0..(n + 1) |-> g[k]]
    OBVIOUS
  <2> HIDE DEF g
  <2>8. Is(g, n + 1)
    BY <2>5, <2>6, <2>7
  <2> QED
    BY <1>1, <2>8
<1>5. \A n \in 0..15 : n \in T
  <2> HIDE DEF T
  <2> QED
    BY <1>1, <1>3, <1>4, UpTo
<1>6. 15 \in T
  BY <1>1, <1>5
<1>7. Is(F, 15)
  BY <1>2, <1>6
<1>8. F = [k \in 0..15 |-> F[k]] /\ F[0] = 1
  BY <1>1, <1>7
<1>9. \A k \in 1..15 : F[k] = Next(k, F[k - 1])
  BY <1>1, <1>7
<1> QED
  BY <1>8, <1>9, Zenon DEF F, Next

(* The first size of each code. *)
LEMMA FirstSizesByRecursion ==
         /\ FirstSizes = [k \in 257..285 |-> FirstSizes[k]]
         /\ FirstSizes[257] = 3
         /\ \A k \in 258..285 : FirstSizes[k] =
              IF k = 285 THEN 258 ELSE FirstSizes[k - 1] + 2 ^ SizeExtra(k - 1)
<1> DEFINE Next(k, v) == IF k = 285 THEN 258 ELSE v + 2 ^ SizeExtra(k - 1)
           F == FirstSizes
           Is(f, n) == f = [k \in 257..n |-> IF k = 257 THEN 3 ELSE Next(k, f[k - 1])]
           T == {n \in 257..(285) : \E f : Is(f, n)}
<1>1. 285 \in Int /\ 257 <= 285 /\ 257 \in Int
  OBVIOUS
<1>2. (\E f : Is(f, 285)) => Is(F, 285)
  BY Zenon DEF FirstSizes
<1> HIDE DEF Next, F
<1>3. 257 \in T
  <2> DEFINE g == [k \in 257..257 |-> 3]
  <2>1. Is(g, 257)
    OBVIOUS
  <2> HIDE DEF g, Is
  <2> QED
    BY <1>1, <2>1
<1>4. ASSUME NEW n \in 257..(285 - 1), n \in T PROVE n + 1 \in T
  <2>1. PICK f : Is(f, n)
    BY <1>4
  <2> DEFINE g == [k \in 257..(n + 1) |-> IF k = n + 1 THEN Next(n + 1, f[n]) ELSE f[k]]
  <2>2. \A k \in 257..n : k # 257 => f[k] = Next(k, f[k - 1])
    BY <2>1
  <2>3. f[257] = 3
    BY <1>1, <2>1
  <2>4. g[n + 1] = Next(n + 1, f[n]) /\ \A k \in 257..n : g[k] = f[k]
    BY <1>1
  <2>5. g[257] = 3
    BY <1>1, <2>3, <2>4
  <2>6. ASSUME NEW k \in 257..(n + 1), k # 257 PROVE g[k] = Next(k, g[k - 1])
    <3>1. k - 1 \in 257..n /\ g[k - 1] = f[k - 1]
      BY <1>1, <2>4, <2>6
    <3>2. CASE k = n + 1
      <4>1. k - 1 = n
        BY <3>2
      <4> QED
        BY <2>4, <3>1, <3>2, <4>1
    <3>3. CASE k # n + 1
      <4>1. k \in 257..n
        BY <2>6, <3>3
      <4> QED
        BY <2>2, <2>4, <2>6, <3>1, <4>1
    <3> QED
      BY <3>2, <3>3
  <2>7. g = [k \in 257..(n + 1) |-> g[k]]
    OBVIOUS
  <2> HIDE DEF g
  <2>8. Is(g, n + 1)
    BY <2>5, <2>6, <2>7
  <2> QED
    BY <1>1, <2>8
<1>5. \A n \in 257..285 : n \in T
  <2> HIDE DEF T
  <2> QED
    BY <1>1, <1>3, <1>4, UpTo
<1>6. 285 \in T
  BY <1>1, <1>5
<1>7. Is(F, 285)
  BY <1>2, <1>6
<1>8. F = [k \in 257..285 |-> F[k]] /\ F[257] = 3
  BY <1>1, <1>7
<1>9. \A k \in 258..285 : F[k] = Next(k, F[k - 1])
  BY <1>1, <1>7
<1> QED
  BY <1>8, <1>9, Zenon DEF F, Next

(* The first distance of each code. *)
LEMMA FirstDistancesByRecursion ==
         /\ FirstDistances = [k \in 0..29 |-> FirstDistances[k]]
         /\ FirstDistances[0] = 1
         /\ \A k \in 1..29 : FirstDistances[k] =
              FirstDistances[k - 1] + 2 ^ DistanceExtra(k - 1)
<1> DEFINE Next(k, v) == v + 2 ^ DistanceExtra(k - 1)
           F == FirstDistances
           Is(f, n) == f = [k \in 0..n |-> IF k = 0 THEN 1 ELSE Next(k, f[k - 1])]
           T == {n \in 0..(29) : \E f : Is(f, n)}
<1>1. 29 \in Int /\ 0 <= 29 /\ 0 \in Int
  OBVIOUS
<1>2. (\E f : Is(f, 29)) => Is(F, 29)
  BY Zenon DEF FirstDistances
<1> HIDE DEF Next, F
<1>3. 0 \in T
  <2> DEFINE g == [k \in 0..0 |-> 1]
  <2>1. Is(g, 0)
    OBVIOUS
  <2> HIDE DEF g, Is
  <2> QED
    BY <1>1, <2>1
<1>4. ASSUME NEW n \in 0..(29 - 1), n \in T PROVE n + 1 \in T
  <2>1. PICK f : Is(f, n)
    BY <1>4
  <2> DEFINE g == [k \in 0..(n + 1) |-> IF k = n + 1 THEN Next(n + 1, f[n]) ELSE f[k]]
  <2>2. \A k \in 0..n : k # 0 => f[k] = Next(k, f[k - 1])
    BY <2>1
  <2>3. f[0] = 1
    BY <1>1, <2>1
  <2>4. g[n + 1] = Next(n + 1, f[n]) /\ \A k \in 0..n : g[k] = f[k]
    BY <1>1
  <2>5. g[0] = 1
    BY <1>1, <2>3, <2>4
  <2>6. ASSUME NEW k \in 0..(n + 1), k # 0 PROVE g[k] = Next(k, g[k - 1])
    <3>1. k - 1 \in 0..n /\ g[k - 1] = f[k - 1]
      BY <1>1, <2>4, <2>6
    <3>2. CASE k = n + 1
      <4>1. k - 1 = n
        BY <3>2
      <4> QED
        BY <2>4, <3>1, <3>2, <4>1
    <3>3. CASE k # n + 1
      <4>1. k \in 0..n
        BY <2>6, <3>3
      <4> QED
        BY <2>2, <2>4, <2>6, <3>1, <4>1
    <3> QED
      BY <3>2, <3>3
  <2>7. g = [k \in 0..(n + 1) |-> g[k]]
    OBVIOUS
  <2> HIDE DEF g
  <2>8. Is(g, n + 1)
    BY <2>5, <2>6, <2>7
  <2> QED
    BY <1>1, <2>8
<1>5. \A n \in 0..29 : n \in T
  <2> HIDE DEF T
  <2> QED
    BY <1>1, <1>3, <1>4, UpTo
<1>6. 29 \in T
  BY <1>1, <1>5
<1>7. Is(F, 29)
  BY <1>2, <1>6
<1>8. F = [k \in 0..29 |-> F[k]] /\ F[0] = 1
  BY <1>1, <1>7
<1>9. \A k \in 1..29 : F[k] = Next(k, F[k - 1])
  BY <1>1, <1>7
<1> QED
  BY <1>8, <1>9, Zenon DEF F, Next

-----------------------------------------------------------------------------
(* The code space.                                                         *)

LEMMA NotNegative ==
  ASSUME NEW a \in Int, NEW p \in Nat \ {0}, a * p >= 0
  PROVE  a >= 0
<1>1. CASE a < 0
  <2>1. a * p <= (-1) * p
    <3>1. a + 1 <= 0
      BY <1>1
    <3> QED
      BY <3>1
  <2> QED
    BY <2>1
<1> QED
  BY <1>1

(* Of the code space of 15 bits, what codes of n bits or fewer do not take, *)
(* are whole codes of n bits.                                               *)
LEMMA SpaceIsLeft ==
  ASSUME NEW counts, \A n \in 1..15 : counts[n] \in Nat,
         NEW left, left[0] = 1, \A n \in 1..15 : left[n] = (2 * left[n - 1]) - counts[n],
         NEW taken, taken[0] = 0,
         \A n \in 1..15 : taken[n] = taken[n - 1] + (counts[n] * 2 ^ (15 - n)),
         taken[15] <= 2 ^ 15
  PROVE  \A n \in 0..15 : left[n] \in Nat
<1> DEFINE P(n) == 2 ^ (15 - n)
           T == {n \in 0..15 : /\ left[n] \in Int /\ taken[n] \in Nat
                               /\ taken[n] + (left[n] * P(n)) = 2 ^ 15}
           U == {n \in 0..15 : taken[15 - n] <= 2 ^ 15}
<1>0. 0 \in Int /\ 15 \in Int
  OBVIOUS
<1>1. \A n \in 0..15 : P(n) \in Nat \ {0}
  <2> TAKE n \in 0..15
  <2>1. 15 - n \in Nat
    OBVIOUS
  <2> QED
    BY <2>1, PowerIsNat
<1>2. \A n \in 0..(15 - 1) : P(n) = 2 * P(n + 1)
  <2> TAKE n \in 0..(15 - 1)
  <2> DEFINE m == 15 - (n + 1)
  <2>1. m \in Nat /\ m + 1 = 15 - n
    OBVIOUS
  <2> HIDE DEF m
  <2>2. 2 ^ (m + 1) = 2 * (2 ^ m)
    BY <2>1, NextPower
  <2> QED
    BY <2>1, <2>2 DEF m
<1>3. \A n \in 1..15 : taken[n] = taken[n - 1] + (counts[n] * P(n))
  OBVIOUS
<1>4. P(0) = 2 ^ 15 /\ 2 ^ 15 \in Nat
  OBVIOUS
<1> HIDE DEF P
<1>5. \A n \in 0..15 : n \in T
  <2>1. 0 \in T
    <3>1. taken[0] + (left[0] * P(0)) = 2 ^ 15
      BY <1>1, <1>4
    <3> QED
      BY <3>1
  <2>2. ASSUME NEW n \in 0..(15 - 1), n \in T PROVE n + 1 \in T
    <3> DEFINE m == n + 1
    <3>1. m \in 1..15 /\ m \in 0..15 /\ m - 1 = n
      OBVIOUS
    <3>2. P(n) = 2 * P(m) /\ P(m) \in Nat \ {0}
      BY <1>1, <1>2, <3>1
    <3> HIDE DEF m
    <3>3. /\ left[m] = (2 * left[n]) - counts[m]
          /\ taken[m] = taken[n] + (counts[m] * P(m))
          /\ counts[m] \in Nat
      BY <1>3, <3>1
    <3>4. left[n] \in Int /\ taken[n] \in Nat /\ taken[n] + (left[n] * P(n)) = 2 ^ 15
      BY <2>2
    <3>5. left[m] * P(m) = (left[n] * P(n)) - (counts[m] * P(m))
      <4> DEFINE p == P(m)
                 c == counts[m]
                 l == left[n]
      <4>1. p \in Nat /\ c \in Nat /\ l \in Int
        BY <3>2, <3>3, <3>4
      <4> HIDE DEF p, c, l
      <4>2. ((2 * l) - c) * p = (l * (2 * p)) - (c * p)
        BY <4>1
      <4> QED
        BY <3>2, <3>3, <4>2 DEF p, c, l
    <3>6. counts[m] * P(m) \in Nat /\ left[n] * P(n) \in Int
      BY <3>2, <3>3, <3>4
    <3>7. left[m] \in Int /\ taken[m] \in Nat
      BY <3>3, <3>4, <3>6
    <3>8. taken[m] + (left[m] * P(m)) = 2 ^ 15
      BY <1>4, <3>3, <3>4, <3>5, <3>6
    <3> QED
      BY <3>1, <3>7, <3>8 DEF m
  <2> HIDE DEF T
  <2> QED
    BY <1>0, <2>1, <2>2, UpTo
<1>6. \A n \in 0..15 : n \in U
  <2>1. 0 \in U
    OBVIOUS
  <2>2. ASSUME NEW n \in 0..(15 - 1), n \in U PROVE n + 1 \in U
    <3> DEFINE m == 15 - n
    <3>1. m \in 1..15 /\ m - 1 \in 0..15 /\ m \in 0..15 /\ 15 - (n + 1) = m - 1
          /\ n + 1 \in 0..15
      OBVIOUS
    <3> HIDE DEF m
    <3>2. taken[m] = taken[m - 1] + (counts[m] * P(m)) /\ counts[m] \in Nat
          /\ P(m) \in Nat
      BY <1>1, <1>3, <3>1
    <3>3. counts[m] * P(m) \in Nat
      BY <3>2
    <3>4. taken[m] <= 2 ^ 15 /\ taken[m - 1] \in Nat
      BY <1>5, <2>2, <3>1 DEF m
    <3>5. taken[m - 1] <= 2 ^ 15
      BY <1>4, <3>2, <3>3, <3>4
    <3> QED
      BY <3>1, <3>5
  <2> HIDE DEF U
  <2> QED
    BY <1>0, <2>1, <2>2, UpTo
<1>7. ASSUME NEW n \in 0..15 PROVE left[n] \in Nat
  <2>1. left[n] \in Int /\ taken[n] \in Nat /\ taken[n] + (left[n] * P(n)) = 2 ^ 15
    BY <1>5
  <2>2. 15 - n \in 0..15 /\ 15 - (15 - n) = n
    OBVIOUS
  <2>3. taken[n] <= 2 ^ 15
    BY <1>6, <2>2
  <2>4. P(n) \in Nat \ {0}
    BY <1>1
  <2>5. left[n] * P(n) >= 0
    <3>1. left[n] * P(n) \in Int
      BY <2>1, <2>4
    <3> QED
      BY <1>4, <2>1, <2>3, <3>1
  <2>6. left[n] >= 0
    BY <2>1, <2>4, <2>5, NotNegative
  <2> QED
    BY <2>1, <2>6
<1> QED
  BY <1>7

(* The next size, from none on. *)
LEMMA SizeAfter ==
  ASSUME NEW n \in 0..(15 - 1)
  PROVE  n + 1 \in 1..15 /\ n + 1 \in 0..15 /\ (n + 1) - 1 = n /\ 15 - (n + 1) \in Nat
OBVIOUS

(* Something is taken only when there is a code. *)
LEMMA SomeCode ==
  ASSUME NEW counts, \A n \in 1..15 : counts[n] \in Nat,
         NEW taken, taken[0] = 0,
         \A n \in 1..15 : taken[n] = taken[n - 1] + (counts[n] * 2 ^ (15 - n)),
         taken[15] > 0
  PROVE  \E n \in 1..15 : counts[n] > 0
<1> SUFFICES ASSUME \A n \in 1..15 : ~(counts[n] > 0) PROVE FALSE
  OBVIOUS
<1>1. ASSUME NEW n \in 1..15 PROVE counts[n] = 0
  <2>1. counts[n] \in Nat /\ ~(counts[n] > 0)
    OBVIOUS
  <2> QED
    BY <2>1
<1> DEFINE T == {n \in 0..15 : taken[n] = 0}
<1>2. 0 \in T
  OBVIOUS
<1>3. ASSUME NEW n \in 0..(15 - 1), n \in T PROVE n + 1 \in T
  <2> DEFINE m == n + 1
  <2>1. m \in 1..15 /\ m \in 0..15 /\ m - 1 = n /\ 15 - m \in Nat
    BY SizeAfter
  <2> HIDE DEF m
  <2>2. taken[m] = taken[n] + (counts[m] * 2 ^ (15 - m)) /\ counts[m] = 0
    BY <1>1, <2>1
  <2>3. 2 ^ (15 - m) \in Nat
    BY <2>1, PowerIsNat
  <2>4. taken[m] = 0
    BY <1>3, <2>2, <2>3
  <2> QED
    BY <2>1, <2>4 DEF m
<1>4. \A n \in 0..15 : n \in T
  <2>1. 0 \in Int /\ 15 \in Int
    OBVIOUS
  <2> HIDE DEF T
  <2> QED
    BY <1>2, <1>3, <2>1, UpTo
<1>5. taken[15] = 0
  BY <1>4
<1> QED
  BY <1>5

(* The codes of n bits start after the shorter ones, and what is left comes *)
(* after them.                                                              *)
LEMMA SpaceOfSize ==
  ASSUME NEW counts, \A n \in 1..15 : counts[n] \in Nat,
         NEW left, left[0] = 1, \A n \in 1..15 : left[n] = (2 * left[n - 1]) - counts[n],
         \A n \in 0..15 : left[n] \in Nat,
         NEW first \in [1..15 -> Nat], first[1] = 0,
         \A n \in 2..15 : first[n] = (first[n - 1] + counts[n - 1]) * 2
  PROVE  \A n \in 1..15 : first[n] + counts[n] + left[n] = 2 ^ n
<1> DEFINE T == {n \in 1..15 : first[n] + counts[n] + left[n] = 2 ^ n}
<1>1. 1 \in T
  <2>1. left[1] = 2 - counts[1] /\ counts[1] \in Nat /\ first[1] = 0
    OBVIOUS
  <2>2. 2 ^ 1 = 2
    OBVIOUS
  <2> QED
    BY <2>1, <2>2
<1>2. ASSUME NEW n \in 1..(15 - 1), n \in T PROVE n + 1 \in T
  <2> DEFINE m == n + 1
  <2>1. m \in 1..15 /\ m \in 2..15 /\ m - 1 = n /\ n \in 1..15
    BY NextSize
  <2>2. 2 ^ m = 2 * (2 ^ n) /\ 2 ^ n \in Nat
    BY NextPower
  <2> HIDE DEF m
  <2>3. /\ left[m] = (2 * left[n]) - counts[m]
        /\ first[m] = (first[n] + counts[n]) * 2
    BY <2>1
  <2>4. counts[m] \in Nat /\ counts[n] \in Nat /\ left[n] \in Nat /\ first[n] \in Nat
    BY <2>1
  <2>5. first[n] + counts[n] + left[n] = 2 ^ n
    BY <1>2
  <2>6. first[m] + counts[m] + left[m] = 2 ^ m
    <3> DEFINE fm == first[m]
               fn == first[n]
               cm == counts[m]
               cn == counts[n]
               lm == left[m]
               ln == left[n]
               pm == 2 ^ m
               pn == 2 ^ n
    <3>1. /\ pm = 2 * pn /\ lm = (2 * ln) - cm /\ fm = (fn + cn) * 2
          /\ fn + cn + ln = pn
          /\ cm \in Nat /\ cn \in Nat /\ ln \in Nat /\ fn \in Nat
      BY <2>2, <2>3, <2>4, <2>5
    <3> HIDE DEF fm, fn, cm, cn, lm, ln, pm, pn
    <3>2. fm + cm + lm = pm
      BY <3>1
    <3> QED
      BY <3>2 DEF fm, cm, lm, pm
  <2> QED
    BY <2>1, <2>6 DEF m
<1>3. \A n \in 1..15 : n \in T
  <2>1. 1 \in Int /\ 15 \in Int
    OBVIOUS
  <2> HIDE DEF T
  <2> QED
    BY <1>1, <1>2, <2>1, UpTo
<1> QED
  BY <1>3

-----------------------------------------------------------------------------
(* The codes that a writer gives out, and the tree that is built.          *)

(* The codes of each size, and where they start. *)
IsSpace(code_sizes, counts, first) ==
  /\ \A n \in 1..15 : counts[n] \in Nat /\ counts[n] = Cardinality(HasSize(code_sizes, n))
  /\ first \in [1..15 -> Nat]
  /\ first[1] = 0
  /\ \A n \in 2..15 : first[n] = (first[n - 1] + counts[n - 1]) * 2
  /\ \A n \in 1..15 : first[n] + counts[n] <= 2 ^ n

LEMMA SizesAmong ==
  ASSUME NEW code_sizes \in Seq(0..15), NEW n
  PROVE  HasSize(code_sizes, n) = Among(code_sizes, n, Len(code_sizes))
<1>1. DOMAIN code_sizes = 1..Len(code_sizes)
  OBVIOUS
<1> QED
  BY <1>1 DEF HasSize, Among

(* A tree counts the codes of each size. *)
LEMMA TreeCounts ==
  ASSUME NEW code_sizes \in Seq(0..15), NEW n \in 1..15
  PROVE  /\ Tree(code_sizes).code_size_counts[n] = Cardinality(HasSize(code_sizes, n))
         /\ Tree(code_sizes).code_size_counts[n] \in Nat
<1> DEFINE N == Len(code_sizes)
<1>1. N \in Nat
  OBVIOUS
<1>2. Tree(code_sizes).code_size_counts[n] = Len(SymbolsOfSize(code_sizes, n))
  BY <1>1, SortedInOrder
<1>3. Len(SymbolsOfSize(code_sizes, n)) = Cardinality(Among(code_sizes, n, N))
  BY <1>1, SymbolsAreInOrder DEF AreInOrder
<1>4. HasSize(code_sizes, n) = Among(code_sizes, n, N)
  BY SizesAmong
<1>5. Cardinality(Among(code_sizes, n, N)) \in Nat
  BY <1>1, AmongIsFinite
<1> QED
  BY <1>2, <1>3, <1>4, <1>5

(* Sizes that a writer may use are built into a tree, and nothing else.     *)
LEMMA TreeIsBuilt ==
  ASSUME NEW code_sizes \in Seq(0..15), AreSizes(code_sizes)
  PROVE  /\ Trees(code_sizes) = {Tree(code_sizes)}
         /\ IsSpace(code_sizes, Tree(code_sizes).code_size_counts,
                    FirstHuffmanCode(Tree(code_sizes)))
<1> DEFINE tree == Tree(code_sizes)
           counts == tree.code_size_counts
           left == LeftValue(counts)
           taken == Taken(code_sizes)
           first == FirstHuffmanCode(tree)
           C(n) == Cardinality(HasSize(code_sizes, n))
<1>1. \A n \in 1..15 : counts[n] \in Nat /\ counts[n] = C(n)
  BY TreeCounts
<1>2. Len(code_sizes) \in Nat
  OBVIOUS
<1>3. counts \in [CodeSizes -> Nat]
  BY <1>2, TreeFits DEF IsTree
<1>4. taken[0] = 0 /\ \A n \in 1..15 : taken[n] = taken[n - 1] + (C(n) * 2 ^ (15 - n))
  BY TakenByRecursion
<1>5. taken[15] > 0 /\ taken[15] <= 2 ^ 15
  BY DEF AreSizes
<1>6. left[0] = 1 /\ \A n \in 1..15 : left[n] = (2 * left[n - 1]) - counts[n]
  BY LeftByRecursion
<1>7. Trees(code_sizes) = {t \in {tree} : IsCodeSpace(t.code_size_counts)}
  BY DEF Trees
<1> HIDE DEF tree
<1>8. /\ first \in [1..15 -> Nat]
      /\ first[1] = 0
      /\ \A n \in 2..15 : first[n] = (first[n - 1] + counts[n - 1]) * 2
  BY <1>3, FirstCodeByRecursion
<1> HIDE DEF counts, taken, left, first, C
<1>9. \A n \in 1..15 : counts[n] \in Nat
  BY <1>1
<1>10. \A n \in 1..15 : taken[n] = taken[n - 1] + (counts[n] * 2 ^ (15 - n))
  BY <1>1, <1>4
<1>11. \A n \in 0..15 : left[n] \in Nat
  <2>1. taken[0] = 0 /\ taken[15] <= 2 ^ 15
    BY <1>4, <1>5
  <2>2. left[0] = 1
    BY <1>6
  <2>3. \A n \in 1..15 : left[n] = (2 * left[n - 1]) - counts[n]
    BY <1>6
  <2> QED
    BY <1>9, <1>10, <2>1, <2>2, <2>3, SpaceIsLeft, Zenon
<1>12. \E n \in 1..15 : counts[n] > 0
  BY <1>4, <1>5, <1>9, <1>10, SomeCode
<1>13. \A n \in 1..15 : first[n] + counts[n] + left[n] = 2 ^ n
  BY <1>6, <1>8, <1>9, <1>11, SpaceOfSize
<1>14. ASSUME NEW n \in 1..15 PROVE first[n] + counts[n] <= 2 ^ n
  <2> DEFINE f == first[n]
             c == counts[n]
             l == left[n]
  <2>1. f \in Nat /\ c \in Nat /\ l \in Nat /\ f + c + l = 2 ^ n
    <3>1. n \in 0..15
      OBVIOUS
    <3> QED
      BY <1>8, <1>9, <1>11, <1>13, <3>1
  <2> HIDE DEF f, c, l
  <2>2. f + c <= f + c + l
    BY <2>1
  <2> QED
    BY <2>1, <2>2 DEF f, c
<1>15. IsCodeSpace(counts)
  <2>1. \A n \in CodeSizes : LeftValue(counts)[n] >= 0
    <3>1. \A n \in CodeSizes : n \in 0..15
      BY SizesAreNumbers
    <3>2. \A n \in CodeSizes : left[n] \in Nat
      BY <1>11, <3>1
    <3> QED
      BY <3>2 DEF left
  <2> QED
    BY <1>12, <2>1, SizesAreNumbers DEF IsCodeSpace
<1>16. Trees(code_sizes) = {tree}
  BY <1>7, <1>15 DEF counts
<1>17. IsSpace(code_sizes, counts, first)
  BY <1>1, <1>8, <1>14 DEF IsSpace, C
<1> QED
  BY <1>16, <1>17 DEF counts, first, tree

(* What codes of fewer bits take up, is where the codes of a size start. *)
LEMMA TakenIsFirst ==
  ASSUME NEW code_sizes, NEW counts, NEW first, IsSpace(code_sizes, counts, first),
         NEW z \in 1..15
  PROVE  TakenBefore(code_sizes, z)[z - 1] = first[z]
<1> DEFINE C(n) == Cardinality(HasSize(code_sizes, n))
           taken == TakenBefore(code_sizes, z)
           last == z - 1
           T == {n \in 0..last : taken[n] = first[n + 1] * (2 ^ (last - n))}
<1>0. last \in Nat /\ last + 1 = z /\ last < 15 /\ 0 \in Int /\ last \in Int
  OBVIOUS
<1>1. taken[0] = 0 /\ \A n \in 1..last : taken[n] = taken[n - 1] + C(n) * 2 ^ (z - n)
  <2>1. z \in Nat \ {0} /\ last \in Nat
    OBVIOUS
  <2> QED
    BY <2>1, TakenBeforeByRecursion
<1>2. /\ \A n \in 1..15 : counts[n] \in Nat /\ counts[n] = C(n)
      /\ first \in [1..15 -> Nat]
      /\ first[1] = 0
      /\ \A n \in 2..15 : first[n] = (first[n - 1] + counts[n - 1]) * 2
  BY DEF IsSpace
<1> HIDE DEF taken, C, last
<1>3. 0 \in T
  <2>1. last - 0 \in Nat /\ 0 \in 0..last /\ 0 + 1 = 1
    BY <1>0
  <2>2. 2 ^ (last - 0) \in Nat
    BY <2>1, PowerIsNat
  <2>3. taken[0] = first[0 + 1] * (2 ^ (last - 0))
    BY <1>1, <1>2, <2>1, <2>2
  <2> QED
    BY <2>1, <2>3
<1>4. ASSUME NEW n \in 0..(last - 1), n \in T PROVE n + 1 \in T
  <2> DEFINE m == n + 1
             p == 2 ^ (last - m)
             e == last - m
  <2>1. m \in 1..last /\ m \in 1..15 /\ m + 1 \in 2..15 /\ m \in 0..last
        /\ e \in Nat /\ e + 1 = last - n /\ z - m = e + 1 /\ m - 1 = n
        /\ (m + 1) - 1 = m
    BY <1>0
  <2>2. 2 ^ (e + 1) = 2 * p /\ p \in Nat
    <3> HIDE DEF m
    <3> QED
      BY <2>1, NextPower DEF e
  <2>3. taken[n] = first[m] * (2 ^ (e + 1))
    BY <1>4, <2>1
  <2> HIDE DEF m, p, e
  <2>4. taken[m] = taken[n] + C(m) * 2 ^ (e + 1)
    BY <1>1, <2>1
  <2>5. first[m + 1] = (first[m] + counts[m]) * 2 /\ counts[m] = C(m)
        /\ counts[m] \in Nat /\ first[m] \in Nat
    BY <1>2, <2>1
  <2>6. taken[m] = first[m + 1] * p
    <3> DEFINE f == first[m]
               c == counts[m]
    <3>1. f \in Nat /\ c \in Nat
      BY <2>5
    <3> HIDE DEF f, c
    <3>2. (f * (2 * p)) + (c * (2 * p)) = ((f + c) * 2) * p
      BY <2>2, <3>1
    <3> QED
      BY <2>2, <2>3, <2>4, <2>5, <3>2 DEF f, c
  <2> QED
    BY <2>1, <2>6 DEF m, p, e
<1>5. \A n \in 0..last : n \in T
  <2> HIDE DEF T
  <2> QED
    BY <1>0, <1>3, <1>4, UpTo
<1>6. taken[last] = first[last + 1] * (2 ^ (last - last))
  <2>1. last \in 0..last
    BY <1>0
  <2> QED
    BY <1>5, <2>1
<1>7. last - last = 0 /\ 2 ^ 0 = 1
  BY <1>0
<1>8. first[last + 1] \in Nat
  BY <1>0, <1>2
<1> QED
  BY <1>0, <1>6, <1>7, <1>8 DEF taken, last

(* The code of a symbol is one of its size: so many after the first. *)
LEMMA NumberOfCode ==
  ASSUME NEW code_sizes \in Seq(0..15), NEW counts, NEW first,
         IsSpace(code_sizes, counts, first), NEW s \in Nat, HasCode(code_sizes, s)
  PROVE  LET z == code_sizes[s + 1]
             c == CodeNumber(code_sizes, s)
         IN  /\ z \in 1..15
             /\ s \in 0..(Len(code_sizes) - 1)
             /\ c \in Nat
             /\ c = first[z] + Cardinality(Among(code_sizes, z, s))
             /\ first[z] <= c
             /\ c < first[z] + counts[z]
             /\ c < 2 ^ z
<1> DEFINE z == code_sizes[s + 1]
           c == CodeNumber(code_sizes, s)
           N == Len(code_sizes)
           r == Cardinality(Among(code_sizes, z, s))
<1>1. s \in 0..(N - 1) /\ N \in Nat
  BY DEF HasCode
<1>2. z \in 1..15
  <2>1. s + 1 \in 1..N /\ z # 0
    BY DEF HasCode
  <2>2. z \in 0..15
    BY <2>1
  <2> QED
    BY <2>1, <2>2
<1>3. c = TakenBefore(code_sizes, z)[z - 1] + r
  BY DEF CodeNumber, Among
<1>4. TakenBefore(code_sizes, z)[z - 1] = first[z]
  <2> HIDE DEF z
  <2> QED
    BY <1>2, TakenIsFirst
<1>5. r \in Nat
  BY AmongIsFinite
<1>6. r + 1 \in 1..Len(SymbolsOfSize(code_sizes, z))
  BY <1>1, SymbolsAreInOrder DEF AreInOrder
<1>7. Len(SymbolsOfSize(code_sizes, z)) = counts[z]
  <2>1. Len(SymbolsOfSize(code_sizes, z)) = Cardinality(Among(code_sizes, z, N))
    BY <1>1, SymbolsAreInOrder DEF AreInOrder
  <2>2. HasSize(code_sizes, z) = Among(code_sizes, z, N)
    BY SizesAmong
  <2> HIDE DEF z
  <2>3. counts[z] = Cardinality(HasSize(code_sizes, z))
    BY <1>2 DEF IsSpace
  <2> QED
    BY <2>1, <2>2, <2>3
<1> HIDE DEF z, r
<1>8. counts[z] \in Nat /\ first[z] \in Nat /\ first[z] + counts[z] <= 2 ^ z
  BY <1>2 DEF IsSpace
<1>9. 2 ^ z \in Nat
  BY <1>2, PowerIsNat
<1> HIDE DEF c
<1>10. c = first[z] + r /\ r < counts[z]
  <2>1. r + 1 \in 1..counts[z]
    BY <1>6, <1>7
  <2>2. r < counts[z]
    BY <1>5, <1>8, <2>1
  <2> QED
    BY <1>3, <1>4, <2>2
<1> DEFINE f == first[z]
           n == counts[z]
           p == 2 ^ z
<1>11. /\ f \in Nat /\ n \in Nat /\ p \in Nat /\ c = f + r /\ r < n /\ f + n <= p
  BY <1>8, <1>9, <1>10
<1> HIDE DEF f, n, p
<1>12. c \in Nat /\ f <= c /\ c < f + n /\ c < p
  BY <1>5, <1>11
<1> QED
  BY <1>1, <1>2, <1>10, <1>12 DEF z, c, r, f, n, p

-----------------------------------------------------------------------------
(* Codes are decoded.                                                      *)

LEMMA HighFirstBits ==
  ASSUME NEW n \in Nat, NEW count \in Nat
  PROVE  /\ HighFirst(n, count) \in Seq(Bits)
         /\ Len(HighFirst(n, count)) = count
         /\ \A k \in 1..count : HighFirst(n, count)[k] = Part(n, count - k) % 2
<1> DEFINE Bit(k) == Part(n, count - k) % 2
<1>1. HighFirst(n, count) = [k \in 1..count |-> Bit(k)]
  BY DEF HighFirst, Part
<1>2. \A k \in 1..count : Bit(k) \in Bits
  <2> TAKE k \in 1..count
  <2>1. count - k \in Nat
    OBVIOUS
  <2> QED
    BY <2>1, PartByPart
<1> HIDE DEF Bit
<1>3. [k \in 1..count |-> Bit(k)] \in [1..count -> Bits]
  BY <1>2
<1>4. HighFirst(n, count) \in Seq(Bits) /\ Len(HighFirst(n, count)) = count
  BY <1>1, <1>3, SequenceOf
<1>5. \A k \in 1..count : HighFirst(n, count)[k] = Bit(k)
  BY <1>1
<1> QED
  BY <1>4, <1>5 DEF Bit

LEMMA LeastOfTwo ==
  ASSUME NEW a \in Nat, NEW b \in Nat
  PROVE  /\ Least(a, b) \in Nat /\ Least(a, b) <= a /\ Least(a, b) <= b
         /\ Least(a, b) = a \/ Least(a, b) = b
BY DEF Least

(* What is looked at to find a code are the next bits. *)
LEMMA NextBitsAreNext ==
  ASSUME data \in Seq(Bytes), NEW s, IsStream(s)
  PROVE  /\ NextBits(s) \in Seq(Bits)
         /\ Len(NextBits(s)) = Least(15, (8 * Len(data)) - Position(s))
         /\ \A k \in 1..Len(NextBits(s)) : NextBits(s)[k] = DataBits[Position(s) + k]
<1> DEFINE o == s.offset
           e == Least(o + 2, Len(data))
           loaded == s.buffer \o BitsOfBytes(SubSeq(data, o + 1, e))
           q == Position(s)
           n == Least(15, Len(loaded))
<1>1. /\ q \in Nat /\ q = (8 * o) - Len(s.buffer) /\ o \in Nat /\ o <= Len(data)
      /\ Len(s.buffer) \in 0..7 /\ q <= 8 * Len(data)
  BY PositionIsNat
<1>2. Len(data) \in Nat
  OBVIOUS
<1>3. e \in Nat /\ o <= e /\ e <= Len(data) /\ (e = o + 2 \/ e = Len(data))
  <2>1. o + 2 \in Nat /\ Len(data) \in Nat
    BY <1>1, <1>2
  <2>2. e \in Nat /\ e <= o + 2 /\ e <= Len(data) /\ (e = o + 2 \/ e = Len(data))
    BY <2>1, LeastOfTwo
  <2> HIDE DEF e, o
  <2> QED
    BY <1>1, <1>2, <2>2
<1>4. NextBits(s) = SubSeq(loaded, 1, n)
  BY DEF NextBits, MaximumCodeSize
<1> HIDE DEF e, o
<1>5. /\ loaded \in Seq(Bits) /\ Len(loaded) = (8 * e) - q
      /\ \A k \in 1..Len(loaded) : loaded[k] = DataBits[q + k]
  BY <1>3, LoadedAreNext DEF o
<1> HIDE DEF loaded, q
<1>6. n \in Nat /\ n <= Len(loaded) /\ n = Least(15, (8 * Len(data)) - q)
  <2> DEFINE a == Len(loaded)
             b == (8 * Len(data)) - q
  <2>1. a \in Nat /\ b \in Nat /\ a <= b /\ (a = b \/ (a >= 15 /\ b >= 15))
    <3> DEFINE d == Len(data)
               L == Len(s.buffer)
    <3>1. /\ q \in Nat /\ q = (8 * o) - L /\ o \in Nat /\ L \in 0..7 /\ d \in Nat
          /\ e \in Nat /\ o <= e /\ e <= d /\ (e = o + 2 \/ e = d)
          /\ a = (8 * e) - q /\ b = (8 * d) - q
      BY <1>1, <1>2, <1>3, <1>5
    <3> HIDE DEF d, L, a, b
    <3> QED
      BY <3>1
  <2> HIDE DEF a, b
  <2>2. Least(15, a) \in Nat /\ Least(15, a) <= a /\ Least(15, a) = Least(15, b)
    BY <2>1 DEF Least
  <2> QED
    BY <2>2 DEF a, b
<1> HIDE DEF n
<1>7. 1 \in Nat /\ 1 <= 1 /\ 1 <= n + 1 /\ n - 1 + 1 = n
  BY <1>6
<1>8. /\ SubSeq(loaded, 1, n) \in Seq(Bits) /\ Len(SubSeq(loaded, 1, n)) = n - 1 + 1
      /\ \A i \in 1..(n - 1 + 1) : SubSeq(loaded, 1, n)[i] = loaded[1 + i - 1]
  BY <1>5, <1>6, <1>7, SubSeqOf
<1>9. ASSUME NEW k \in 1..n PROVE SubSeq(loaded, 1, n)[k] = DataBits[q + k]
  <2>1. 1 + k - 1 = k /\ k \in 1..Len(loaded)
    BY <1>5, <1>6
  <2> QED
    BY <1>5, <1>7, <1>8, <2>1
<1> QED
  BY <1>4, <1>6, <1>7, <1>8, <1>9 DEF q

(* The number of a code is read bit by bit. *)
LEMMA CodesArePartsOf ==
  ASSUME NEW bits \in Seq(Bits), NEW c \in Nat, NEW z \in Nat, c < 2 ^ z,
         NEW last \in 0..z, last <= Len(bits),
         \A k \in 1..last : bits[k] = Part(c, z - k) % 2
  PROVE  \A k \in 0..last : HuffmanCodes(bits)[k] = Part(c, z - k)
<1> DEFINE codes == HuffmanCodes(bits)
           T == {k \in 0..last : codes[k] = Part(c, z - k)}
<1>1. /\ codes[0] = 0
      /\ \A k \in 1..Len(bits) : codes[k] = (2 * codes[k - 1]) + bits[k]
  BY CodesByRecursion
<1> HIDE DEF codes
<1>2. 0 \in T
  <2>1. z - 0 = z
    OBVIOUS
  <2> QED
    BY <1>1, <2>1, WholePart
<1>3. ASSUME NEW k \in 0..(last - 1), k \in T PROVE k + 1 \in T
  <2> DEFINE m == k + 1
             e == z - m
  <2>0. Len(bits) \in Nat
    OBVIOUS
  <2>1. m \in 1..last /\ m \in 0..last /\ m \in 1..Len(bits) /\ m - 1 = k
        /\ e \in Nat /\ e + 1 = z - k
    BY <2>0
  <2>2. codes[k] = Part(c, e + 1)
    BY <1>3, <2>1
  <2> HIDE DEF m, e
  <2>3. codes[m] = (2 * codes[k]) + bits[m] /\ bits[m] = Part(c, e) % 2
    BY <1>1, <2>1 DEF e
  <2>4. Part(c, e) = (2 * Part(c, e + 1)) + (Part(c, e) % 2)
    BY <2>1, PartByPart
  <2>5. codes[m] = Part(c, e)
    BY <2>2, <2>3, <2>4
  <2> QED
    BY <2>1, <2>5 DEF m, e
<1>4. \A k \in 0..last : k \in T
  <2>1. 0 \in Int /\ last \in Int
    OBVIOUS
  <2> HIDE DEF T
  <2> QED
    BY <1>2, <1>3, <2>1, UpTo
<1> QED
  BY <1>4 DEF codes

(* Half of what is no less than twice a number. *)
LEMMA HalfIsNoLess ==
  ASSUME NEW a \in Nat, NEW b \in 0..1, NEW f \in Nat, (2 * a) + b >= f * 2
  PROVE  a >= f
OBVIOUS

(* The beginning of a code comes after all codes of fewer bits. *)
LEMMA AfterShorterCodes ==
  ASSUME NEW counts, \A n \in 1..15 : counts[n] \in Nat,
         NEW first \in [1..15 -> Nat],
         \A n \in 2..15 : first[n] = (first[n - 1] + counts[n - 1]) * 2,
         NEW z \in 1..15, NEW c \in Nat, c >= first[z], NEW m \in 1..(z - 1)
  PROVE  Part(c, z - m) >= first[m] + counts[m]
<1> DEFINE T == {k \in 0..(z - 1) : Part(c, k) >= first[z - k]}
<1>1. ASSUME NEW k \in 0..(z - 1 - 1), Part(c, k) >= first[z - k]
      PROVE  /\ Part(c, k + 1) >= first[z - (k + 1)] + counts[z - (k + 1)]
             /\ Part(c, k + 1) >= first[z - (k + 1)]
  <2> DEFINE j == z - (k + 1)
  <2>1. j \in 1..15 /\ j + 1 \in 2..15 /\ (j + 1) - 1 = j /\ j + 1 = z - k /\ k \in Nat
        /\ k + 1 \in Nat
    OBVIOUS
  <2> HIDE DEF j
  <2>2. first[j + 1] = (first[j] + counts[j]) * 2
    BY <2>1
  <2>3. first[j] \in Nat /\ counts[j] \in Nat
    BY <2>1
  <2>4. /\ Part(c, k) = (2 * Part(c, k + 1)) + (Part(c, k) % 2)
        /\ Part(c, k) % 2 \in 0..1
        /\ Part(c, k + 1) \in Nat
    BY <2>1, PartByPart DEF Bits
  <2> DEFINE f == first[j] + counts[j]
             a == Part(c, k + 1)
             b == Part(c, k) % 2
  <2>5. f \in Nat /\ a \in Nat /\ b \in 0..1 /\ (2 * a) + b >= f * 2 /\ f >= first[j]
    BY <1>1, <2>1, <2>2, <2>3, <2>4
  <2> HIDE DEF f, a, b
  <2>6. a >= f
    BY <2>5, HalfIsNoLess
  <2>7. a >= first[j]
    BY <2>3, <2>5, <2>6
  <2> QED
    BY <2>6, <2>7 DEF a, f, j
<1>2. \A k \in 0..(z - 1) : k \in T
  <2>1. 0 \in Int /\ z - 1 \in Int
    OBVIOUS
  <2>2. 0 \in T
    <3>1. z - 0 = z /\ 0 \in 0..(z - 1)
      OBVIOUS
    <3> QED
      BY <3>1, WholePart
  <2>3. ASSUME NEW k \in 0..(z - 1 - 1), k \in T PROVE k + 1 \in T
    <3>1. k + 1 \in 0..(z - 1)
      OBVIOUS
    <3>2. Part(c, k + 1) >= first[z - (k + 1)]
      BY <1>1, <2>3
    <3> QED
      BY <3>1, <3>2
  <2> HIDE DEF T
  <2> QED
    BY <2>1, <2>2, <2>3, UpTo
<1> DEFINE k == z - m - 1
<1>3. k \in 0..(z - 1 - 1) /\ k + 1 = z - m /\ z - (k + 1) = m /\ k \in 0..(z - 1)
  OBVIOUS
<1>4. Part(c, k) >= first[z - k]
  BY <1>2, <1>3
<1> HIDE DEF k
<1>5. Part(c, k + 1) >= first[z - (k + 1)] + counts[z - (k + 1)]
  BY <1>1, <1>3, <1>4
<1> QED
  BY <1>3, <1>5

(* The size of a code that comes is found, and no other. *)
IsFound(tree, bits, z, c, last) ==
  /\ \A n \in SizesOfCode(tree, HuffmanCodes(bits)) : n = z /\ z <= Len(bits)
  /\ last = z => z \in SizesOfCode(tree, HuffmanCodes(bits))
  /\ last = z => HuffmanCodes(bits)[z] = c

LEMMA SizeIsFound ==
  ASSUME NEW tree, NEW code_sizes, NEW counts, NEW first,
         counts = tree.code_size_counts, first = FirstHuffmanCode(tree),
         IsSpace(code_sizes, counts, first),
         NEW z \in 1..15, NEW c \in Nat, first[z] <= c, c < first[z] + counts[z],
         c < 2 ^ z,
         NEW bits \in Seq(Bits), NEW last \in 0..z, last <= Len(bits),
         \A k \in 1..last : bits[k] = Part(c, z - k) % 2,
         last = Len(bits) \/ last = z
  PROVE  IsFound(tree, bits, z, c, last)
<1> DEFINE codes == HuffmanCodes(bits)
           L == Len(bits)
<1>1. codes \in [0..L -> Nat] /\ L \in Nat
  BY CodesByRecursion
<1>2. \A k \in 0..last : codes[k] = Part(c, z - k)
  <2>1. z \in Nat
    OBVIOUS
  <2> QED
    BY <2>1, CodesArePartsOf
<1>3. /\ \A n \in 1..15 : counts[n] \in Nat
      /\ first \in [1..15 -> Nat]
      /\ \A n \in 2..15 : first[n] = (first[n - 1] + counts[n - 1]) * 2
  BY DEF IsSpace
<1>4. \A n \in SizesOfCode(tree, codes) :
        /\ n \in DOMAIN codes \ {0}
        /\ \A m \in 1..n : IsCode(tree, codes[m], m) <=> m = n
  BY DEF SizesOfCode
<1>5. \A n \in DOMAIN codes \ {0} :
        (\A m \in 1..n : IsCode(tree, codes[m], m) <=> m = n)
          => n \in SizesOfCode(tree, codes)
  BY DEF SizesOfCode
<1> HIDE DEF codes, L
<1>6. ASSUME NEW m \in 1..last, m # z PROVE ~IsCode(tree, codes[m], m)
  <2>1. m \in 1..(z - 1) /\ m \in 0..last /\ m \in 1..15 /\ z - m \in Nat
    BY <1>6
  <2>2. Part(c, z - m) >= first[m] + counts[m]
    BY <1>3, <2>1, AfterShorterCodes
  <2>3. codes[m] = Part(c, z - m)
    BY <1>2, <2>1
  <2>4. Part(c, z - m) \in Nat
    BY <2>1, PartByPart
  <2>5. first[m] \in Nat /\ counts[m] \in Nat
    BY <1>3, <2>1
  <2>6. ~(codes[m] - counts[m] < first[m])
    BY <2>2, <2>3, <2>4, <2>5
  <2> QED
    BY <2>6 DEF IsCode
<1>7. ASSUME last = z PROVE codes[z] = c /\ IsCode(tree, codes[z], z)
  <2>1. z \in 0..last /\ z - z = 0
    BY <1>7
  <2>2. codes[z] = Part(c, 0)
    BY <1>2, <2>1
  <2>3. codes[z] = c
    BY <2>2, WholePart
  <2>4. first[z] \in Nat /\ counts[z] \in Nat
    BY <1>3
  <2>5. codes[z] - counts[z] < first[z]
    BY <2>3, <2>4
  <2> QED
    BY <2>3, <2>5 DEF IsCode
<1>8. ASSUME NEW n \in SizesOfCode(tree, codes) PROVE n = z /\ z <= L
  <2>1. /\ n \in 1..L
        /\ \A m \in 1..n : IsCode(tree, codes[m], m) <=> m = n
    BY <1>1, <1>4
  <2>2. IsCode(tree, codes[n], n)
    BY <2>1
  <2>3. n \in 1..last => n = z
    BY <1>6, <2>2
  <2>4. CASE last = z
    <3>1. z <= n => z = n
      <4>1. z <= n => z \in 1..n
        BY <2>1
      <4>2. IsCode(tree, codes[z], z)
        BY <1>7, <2>4
      <4> QED
        BY <2>1, <4>1, <4>2
    <3>2. n = z
      BY <2>1, <2>3, <2>4, <3>1
    <3> QED
      BY <2>1, <3>2
  <2>5. CASE last = L
    BY <2>1, <2>3, <2>5
  <2> QED
    BY <2>4, <2>5 DEF L
<1>9. ASSUME last = z PROVE z \in SizesOfCode(tree, codes)
  <2>1. z \in DOMAIN codes \ {0}
    BY <1>1, <1>9 DEF L
  <2>2. \A m \in 1..z : IsCode(tree, codes[m], m) <=> m = z
    BY <1>6, <1>7, <1>9
  <2> QED
    BY <1>5, <2>1, <2>2
<1> QED
  BY <1>7, <1>8, <1>9 DEF codes, L, IsFound

(* A symbol that was written with its code is decoded from it: the tree     *)
(* that is built from sizes of codes finds the symbol for each code that a  *)
(* writer gives out for these sizes, and goes on after it.  When the data   *)
(* ends in a code, nothing is decoded (libqcow_huffman_tree_build,          *)
(* libqcow_huffman_tree_get_symbol_from_bit_stream).                        *)
THEOREM CodesAreDecoded ==
  ASSUME data \in Seq(Bytes), NEW s, IsStream(s),
         NEW code_sizes \in Seq(0..15), AreSizes(code_sizes),
         NEW symbol \in Nat, HasCode(code_sizes, symbol),
         Comes(Position(s), Code(code_sizes, symbol))
  PROVE  /\ \A d \in Symbols(Tree(code_sizes), s) :
              /\ d.symbol = symbol
              /\ IsStream(d.stream)
              /\ Position(d.stream) = Position(s) + Len(Code(code_sizes, symbol))
         /\ input.damage = "none" => Symbols(Tree(code_sizes), s) # {}
<1> DEFINE tree == Tree(code_sizes)
           counts == tree.code_size_counts
           first == FirstHuffmanCode(tree)
           index == FirstIndex(tree)
           z == code_sizes[symbol + 1]
           c == CodeNumber(code_sizes, symbol)
           rank == Cardinality(Among(code_sizes, z, symbol))
           bits == NextBits(s)
           codes == HuffmanCodes(bits)
           code == Code(code_sizes, symbol)
           q == Position(s)
           D == 8 * Len(data)
           last == Least(z, Len(bits))
           Index(n) == index[n] + codes[n] - first[n] + 1
<1>1. IsSpace(code_sizes, counts, first)
  BY TreeIsBuilt
<1>2. /\ z \in 1..15 /\ symbol \in 0..(Len(code_sizes) - 1)
      /\ c \in Nat /\ c = first[z] + rank /\ first[z] <= c /\ c < first[z] + counts[z]
      /\ c < 2 ^ z
  BY <1>1, NumberOfCode
<1>3. code = HighFirst(c, z)
  BY DEF Code
<1>4. /\ bits \in Seq(Bits) /\ Len(bits) = Least(15, D - q)
      /\ \A k \in 1..Len(bits) : bits[k] = DataBits[q + k]
  BY NextBitsAreNext
<1>5. q \in Nat /\ q <= D /\ D \in Nat
  BY PositionIsNat
<1>6. Symbols(tree, s) =
        UNION {{[symbol |-> tree.symbols[Index(n)], stream |-> v.stream] :
                  v \in Values(s, n)} : n \in SizesOfCode(tree, codes)}
  BY DEF Symbols
<1>7. /\ Len(code_sizes) \in Nat
      /\ tree.code_size_counts[z] = Len(SymbolsOfSize(code_sizes, z))
      /\ \A i \in 1..Len(SymbolsOfSize(code_sizes, z)) :
           tree.symbols[index[z] + i] = SymbolsOfSize(code_sizes, z)[i]
  <2>1. Len(code_sizes) \in Nat
    OBVIOUS
  <2> HIDE DEF z
  <2> QED
    BY <1>2, <2>1, SortedInOrder
<1>8. /\ rank + 1 \in 1..Len(SymbolsOfSize(code_sizes, z))
      /\ SymbolsOfSize(code_sizes, z)[rank + 1] = symbol
  BY <1>2, <1>7, SymbolsAreInOrder DEF AreInOrder
<1>9. index \in [1..15 -> Nat] /\ first \in [1..15 -> Nat]
  <2>1. counts \in [CodeSizes -> Nat]
    BY <1>7, TreeFits DEF IsTree
  <2> HIDE DEF tree
  <2> QED
    BY <2>1, FirstIndexByRecursion, FirstCodeByRecursion
<1>10. rank \in Nat
  BY <1>2, AmongIsFinite
<1> HIDE DEF c, z, code, q, D, rank
<1>11. /\ code \in Seq(Bits) /\ Len(code) = z
       /\ \A k \in 1..z : code[k] = Part(c, z - k) % 2
  <2>1. z \in Nat
    BY <1>2
  <2> QED
    BY <1>2, <1>3, <2>1, HighFirstBits
<1>12. Comes(q, code)
  BY DEF q, code
<1>13. /\ \A k \in 1..z : q + k <= D => DataBits[q + k] = code[k]
       /\ input.damage = "none" => q + z <= D
  BY <1>11, <1>12 DEF Comes, D
<1> HIDE DEF bits
<1>14. /\ last \in 0..z /\ last <= Len(bits) /\ (last = Len(bits) \/ last = z)
       /\ Len(bits) <= D - q /\ Len(bits) \in Nat
       /\ last = z <=> q + z <= D
  <2> DEFINE L == Len(bits)
  <2>1. L \in Nat /\ L = Least(15, D - q)
    BY <1>4
  <2> HIDE DEF L
  <2>2. L <= D - q /\ (L = D - q \/ L = 15)
    BY <1>5, <2>1 DEF Least
  <2>3. Least(z, L) \in 0..z /\ Least(z, L) <= L /\ (Least(z, L) = L \/ Least(z, L) = z)
        /\ (Least(z, L) = z <=> z <= L)
    BY <1>2, <2>1 DEF Least
  <2>4. z <= L <=> q + z <= D
    BY <1>2, <1>5, <2>1, <2>2
  <2> QED
    BY <2>1, <2>2, <2>3, <2>4 DEF L
<1> HIDE DEF last
<1>15. ASSUME NEW k \in 1..last PROVE bits[k] = Part(c, z - k) % 2
  <2>1. k \in 1..Len(bits) /\ k \in 1..z /\ q + k <= D
    BY <1>2, <1>5, <1>14
  <2>2. bits[k] = DataBits[q + k]
    BY <1>4, <2>1 DEF q
  <2> QED
    BY <1>11, <1>13, <2>1, <2>2
<1>16. /\ \A n \in SizesOfCode(tree, codes) : n = z /\ z <= Len(bits)
       /\ last = z => z \in SizesOfCode(tree, codes)
       /\ last = z => codes[z] = c
  <2> DEFINE cs == counts
             fs == first
  <2>1. cs = tree.code_size_counts /\ fs = FirstHuffmanCode(tree)
    OBVIOUS
  <2>2. /\ IsSpace(code_sizes, cs, fs) /\ fs[z] <= c /\ c < fs[z] + cs[z]
        /\ z \in 1..15 /\ c \in Nat /\ c < 2 ^ z
    BY <1>1, <1>2
  <2>3. bits \in Seq(Bits) /\ last \in 0..z /\ last <= Len(bits)
        /\ (last = Len(bits) \/ last = z)
    BY <1>4, <1>14
  <2>4. \A k \in 1..last : bits[k] = Part(c, z - k) % 2
    BY <1>15
  <2> HIDE DEF tree, cs, fs
  <2>5. IsFound(tree, bits, z, c, last)
    BY <2>1, <2>2, <2>3, <2>4, SizeIsFound
  <2> QED
    BY <2>5 DEF IsFound
<1>17. /\ \A v \in Values(s, z) : IsStream(v.stream) /\ Position(v.stream) = q + z
       /\ Values(s, z) # {} <=> q + z <= D
  <2>1. z \in Nat
    BY <1>2
  <2> QED
    BY <2>1, ValuesAreNext DEF q, D
<1>18. ASSUME NEW d \in Symbols(tree, s)
       PROVE  d.symbol = symbol /\ IsStream(d.stream) /\ Position(d.stream) = q + z
  <2>0. PICK n \in SizesOfCode(tree, codes) : \E v \in Values(s, n) :
          d = [symbol |-> tree.symbols[Index(n)], stream |-> v.stream]
    <3> HIDE DEF tree, codes, Index
    <3> QED
      BY <1>6
  <2>1. PICK v \in Values(s, n) :
          d = [symbol |-> tree.symbols[Index(n)], stream |-> v.stream]
    BY <2>0
  <2>2. n = z
    BY <1>16
  <2>3. v \in Values(s, z)
    BY <2>2
  <2>4. q + z <= D
    BY <1>17, <2>3
  <2>5. codes[z] = c
    BY <1>14, <1>16, <2>4
  <2>6. Index(z) = index[z] + (rank + 1)
    <3> DEFINE i == index[z]
               f == first[z]
    <3>1. i \in Nat /\ f \in Nat /\ c = f + rank /\ codes[z] = c
      BY <1>2, <1>9, <2>5
    <3> HIDE DEF i, f, codes
    <3>2. i + codes[z] - f + 1 = i + (rank + 1)
      BY <1>10, <3>1
    <3> QED
      BY <3>2 DEF i, f
  <2>7. tree.symbols[index[z] + (rank + 1)] = symbol
    <3> HIDE DEF tree, index
    <3> QED
      BY <1>7, <1>8, Zenon DEF index
  <2> HIDE DEF tree, Index
  <2> QED
    BY <1>17, <2>1, <2>2, <2>3, <2>6, <2>7
<1>19. ASSUME input.damage = "none" PROVE Symbols(tree, s) # {}
  <2>1. last = z /\ q + z <= D
    BY <1>13, <1>14, <1>19
  <2>2. z \in SizesOfCode(tree, codes)
    BY <1>16, <2>1
  <2>3. PICK v : v \in Values(s, z)
    BY <1>17, <2>1
  <2>4. [symbol |-> tree.symbols[Index(z)], stream |-> v.stream] \in Symbols(tree, s)
    <3> HIDE DEF tree, codes, Index
    <3> QED
      BY <1>6, <2>2, <2>3
  <2> QED
    BY <2>4
<1> QED
  BY <1>11, <1>18, <1>19 DEF q, code, tree

-----------------------------------------------------------------------------
(* Sizes and distances of matches.                                         *)

(* c is the last of the codes from a to b that starts with n or before. *)
IsLast(c, a, b, first, n) ==
  /\ c \in a..b
  /\ first[c] <= n
  /\ \A d \in a..b : first[d] <= n => d <= c

LEMMA LastWithIs ==
  ASSUME NEW a \in Nat, NEW b \in Nat, NEW first, NEW n, first[a] <= n, a <= b
  PROVE  IsLast(LastWith(a..b, first, n), a, b, first, n)
<1> DEFINE Is(c) == first[c] <= n /\ \A d \in a..b : first[d] <= n => d <= c
           T == {k \in 0..(b - a) : first[b - k] <= n}
<1>1. b - a \in T
  <2>1. b - (b - a) = a /\ b - a \in 0..(b - a)
    OBVIOUS
  <2> QED
    BY <2>1
<1>2. T \subseteq Nat
  OBVIOUS
<1>3. PICK m \in T : \A k \in T : m <= k
  <2> HIDE DEF T
  <2> QED
    BY <1>1, <1>2, LeastNatural
<1>4. Is(b - m) /\ b - m \in a..b
  <2>1. b - m \in a..b /\ first[b - m] <= n
    OBVIOUS
  <2>2. ASSUME NEW d \in a..b, first[d] <= n PROVE d <= b - m
    <3>1. b - d \in 0..(b - a) /\ b - (b - d) = d
      OBVIOUS
    <3>2. b - d \in T
      BY <2>2, <3>1
    <3>3. m <= b - d
      BY <1>3, <3>2
    <3> QED
      BY <3>3
  <2> QED
    BY <2>1, <2>2
<1>5. LastWith(a..b, first, n) = CHOOSE c \in a..b : Is(c)
  BY DEF LastWith
<1> HIDE DEF Is
<1>6. LastWith(a..b, first, n) \in a..b /\ Is(LastWith(a..b, first, n))
  BY <1>4, <1>5
<1> QED
  BY <1>6 DEF Is, IsLast

(* Powers of two, up to the extra bits that a distance has. *)
Powers == <<1, 2, 4, 8, 16, 32, 64, 128, 256, 512, 1024, 2048, 4096, 8192>>

LEMMA PowersAre ==
  ASSUME NEW e \in 0..13
  PROVE  2 ^ e = Powers[e + 1] /\ Powers[e + 1] \in Nat
<1>1. /\ 2 ^ 0 = 1 /\ 2 ^ 1 = 2 /\ 2 ^ 2 = 4 /\ 2 ^ 3 = 8 /\ 2 ^ 4 = 16 /\ 2 ^ 5 = 32
      /\ 2 ^ 6 = 64
  OBVIOUS
<1>2. /\ 2 ^ 7 = 128 /\ 2 ^ 8 = 256 /\ 2 ^ 9 = 512 /\ 2 ^ 10 = 1024 /\ 2 ^ 11 = 2048
      /\ 2 ^ 12 = 4096 /\ 2 ^ 13 = 8192
  OBVIOUS
<1>3. /\ Powers[1] = 1 /\ Powers[2] = 2 /\ Powers[3] = 4 /\ Powers[4] = 8
      /\ Powers[5] = 16 /\ Powers[6] = 32 /\ Powers[7] = 64
      /\ Powers[8] = 128 /\ Powers[9] = 256 /\ Powers[10] = 512 /\ Powers[11] = 1024
      /\ Powers[12] = 2048 /\ Powers[13] = 4096 /\ Powers[14] = 8192
  BY DEF Powers
<1>4. \/ e = 0 \/ e = 1 \/ e = 2 \/ e = 3 \/ e = 4 \/ e = 5 \/ e = 6 \/ e = 7
      \/ e = 8 \/ e = 9 \/ e = 10 \/ e = 11 \/ e = 12 \/ e = 13
  OBVIOUS
<1>5. CASE e = 0
  BY <1>1, <1>3, <1>5
<1>6. CASE e = 1
  BY <1>1, <1>3, <1>6
<1>7. CASE e = 2
  BY <1>1, <1>3, <1>7
<1>8. CASE e = 3
  BY <1>1, <1>3, <1>8
<1>9. CASE e = 4
  BY <1>1, <1>3, <1>9
<1>10. CASE e = 5
  BY <1>1, <1>3, <1>10
<1>11. CASE e = 6
  BY <1>1, <1>3, <1>11
<1>12. CASE e = 7
  BY <1>2, <1>3, <1>12
<1>13. CASE e = 8
  BY <1>2, <1>3, <1>13
<1>14. CASE e = 9
  BY <1>2, <1>3, <1>14
<1>15. CASE e = 10
  BY <1>2, <1>3, <1>15
<1>16. CASE e = 11
  BY <1>2, <1>3, <1>16
<1>17. CASE e = 12
  BY <1>2, <1>3, <1>17
<1>18. CASE e = 13
  BY <1>2, <1>3, <1>18
<1> QED
  BY <1>4, <1>5, <1>6, <1>7, <1>8, <1>9, <1>10, <1>11, <1>12, <1>13, <1>14, <1>15, <1>16, <1>17, <1>18

(* The tables of sizes are those of the rules they follow. *)
LEMMA SizesAreInTables ==
  ASSUME NEW c \in 257..285
  PROVE  /\ SizeExtra(c) = literal_codes_number_of_extra_bits[c - 256]
         /\ FirstSizes[c] = literal_codes_base[c - 256]
         /\ FirstSizes[c] \in Nat
         /\ SizeExtra(c) \in 0..5
<1> DEFINE T == {k \in 257..285 : FirstSizes[k] = literal_codes_base[k - 256]}
           base(k) == literal_codes_base[k]
           extra(k) == literal_codes_number_of_extra_bits[k]
<1>1. \A k \in 1..29 : base(k) \in Nat /\ extra(k) \in 0..5
  BY DEF literal_codes_base, literal_codes_number_of_extra_bits
<1>2. \A k \in 257..285 : SizeExtra(k) = extra(k - 256)
  <2> TAKE k \in 257..285
  <2>1. k - 256 \in 1..29
    OBVIOUS
  <2> DEFINE j == k - 256
  <2>2. j \in 1..29 /\ SizeExtra(k) = IF j < 9 \/ j = 29 THEN 0 ELSE (j - 5) \div 4
    BY DEF SizeExtra
  <2> HIDE DEF j
  <2>3. extra(j) = IF j < 9 \/ j = 29 THEN 0 ELSE (j - 5) \div 4
    BY <2>2 DEF literal_codes_number_of_extra_bits
  <2> QED
    BY <2>2, <2>3 DEF j
<1>3. \A k \in 1..27 : base(k + 1) = base(k) + Powers[extra(k) + 1]
  BY DEF literal_codes_base, literal_codes_number_of_extra_bits, Powers
<1>4. base(1) = 3 /\ base(29) = 258
  BY DEF literal_codes_base
<1>5. /\ FirstSizes[257] = 3
      /\ \A k \in 258..285 : FirstSizes[k] =
           IF k = 285 THEN 258 ELSE FirstSizes[k - 1] + 2 ^ SizeExtra(k - 1)
  BY FirstSizesByRecursion
<1> HIDE DEF base, extra
<1>6. \A k \in 257..285 : k \in T
  <2>1. 257 \in T
    BY <1>4, <1>5 DEF base
  <2>2. ASSUME NEW k \in 257..(285 - 1), k \in T PROVE k + 1 \in T
    <3> DEFINE m == k + 1
               j == k - 256
    <3>1. m \in 258..285 /\ m \in 257..285 /\ m - 1 = k /\ j + 1 = m - 256
          /\ k \in 257..285 /\ j \in 1..28 /\ j \in 1..29
      OBVIOUS
    <3> HIDE DEF m, j
    <3>2. FirstSizes[m] = IF m = 285 THEN 258 ELSE FirstSizes[k] + 2 ^ SizeExtra(k)
      BY <1>5, <3>1
    <3>3. FirstSizes[k] = base(j)
      BY <2>2 DEF base, j
    <3>4. CASE m = 285
      <4>1. j + 1 = 29
        BY <3>1, <3>4
      <4>2. FirstSizes[m] = base(j + 1)
        BY <1>4, <3>2, <3>4, <4>1
      <4> QED
        BY <3>1, <4>2 DEF base, m
    <3>5. CASE m # 285
      <4>1. j \in 1..27
        BY <3>1, <3>5
      <4>2. SizeExtra(k) = extra(j) /\ extra(j) \in 0..13
        BY <1>1, <1>2, <3>1 DEF j
      <4>3. 2 ^ extra(j) = Powers[extra(j) + 1]
        BY <4>2, PowersAre
      <4>4. FirstSizes[m] = base(j + 1)
        BY <1>3, <3>2, <3>3, <3>5, <4>1, <4>2, <4>3
      <4> QED
        BY <3>1, <4>4 DEF base, m
    <3> QED
      BY <3>4, <3>5
  <2>3. 257 \in Int /\ 285 \in Int
    OBVIOUS
  <2> HIDE DEF T
  <2> QED
    BY <2>1, <2>2, <2>3, UpTo
<1>7. c - 256 \in 1..29
  OBVIOUS
<1> QED
  BY <1>1, <1>2, <1>6, <1>7 DEF base, extra

LEMMA DistancesAreInTables ==
  ASSUME NEW c \in 0..29
  PROVE  /\ DistanceExtra(c) = distance_codes_number_of_extra_bits[c + 1]
         /\ FirstDistances[c] = distance_codes_base[c + 1]
         /\ FirstDistances[c] \in Nat
         /\ DistanceExtra(c) \in 0..13
<1> DEFINE T == {k \in 0..29 : FirstDistances[k] = distance_codes_base[k + 1]}
           base(k) == distance_codes_base[k]
           extra(k) == distance_codes_number_of_extra_bits[k]
<1>1. \A k \in 1..30 : base(k) \in Nat /\ extra(k) \in 0..13
  BY DEF distance_codes_base, distance_codes_number_of_extra_bits
<1>2. \A k \in 0..29 : DistanceExtra(k) = extra(k + 1)
  <2> TAKE k \in 0..29
  <2> DEFINE j == k + 1
  <2>2. j \in 1..30 /\ DistanceExtra(k) = IF j < 5 THEN 0 ELSE (j - 3) \div 2
    BY DEF DistanceExtra
  <2> HIDE DEF j
  <2>3. extra(j) = IF j < 5 THEN 0 ELSE (j - 3) \div 2
    BY <2>2 DEF distance_codes_number_of_extra_bits
  <2> QED
    BY <2>2, <2>3 DEF j
<1>3. \A k \in 1..29 : base(k + 1) = base(k) + Powers[extra(k) + 1]
  BY DEF distance_codes_base, distance_codes_number_of_extra_bits, Powers
<1>4. base(1) = 1
  BY DEF distance_codes_base
<1>5. /\ FirstDistances[0] = 1
      /\ \A k \in 1..29 : FirstDistances[k] =
           FirstDistances[k - 1] + 2 ^ DistanceExtra(k - 1)
  BY FirstDistancesByRecursion
<1> HIDE DEF base, extra
<1>6. \A k \in 0..29 : k \in T
  <2>1. 0 \in T
    <3>1. 0 + 1 = 1
      OBVIOUS
    <3> QED
      BY <1>4, <1>5, <3>1 DEF base
  <2>2. ASSUME NEW k \in 0..(29 - 1), k \in T PROVE k + 1 \in T
    <3> DEFINE m == k + 1
    <3>1. m \in 1..29 /\ m \in 0..29 /\ m - 1 = k /\ k \in 0..29 /\ m \in 1..30
      OBVIOUS
    <3>3. FirstDistances[k] = base(m)
      BY <2>2 DEF base
    <3>4. DistanceExtra(k) = extra(m) /\ extra(m) \in 0..13
      BY <1>1, <1>2, <3>1
    <3> HIDE DEF m
    <3>2. FirstDistances[m] = FirstDistances[k] + 2 ^ DistanceExtra(k)
      BY <1>5, <3>1
    <3>5. 2 ^ extra(m) = Powers[extra(m) + 1]
      BY <3>4, PowersAre
    <3>6. FirstDistances[m] = base(m + 1)
      BY <1>3, <3>1, <3>2, <3>3, <3>4, <3>5
    <3> QED
      BY <3>1, <3>6 DEF base, m
  <2>3. 0 \in Int /\ 29 \in Int
    OBVIOUS
  <2> HIDE DEF T
  <2> QED
    BY <2>1, <2>2, <2>3, UpTo
<1>7. c + 1 \in 1..30
  OBVIOUS
<1> QED
  BY <1>1, <1>2, <1>6, <1>7 DEF base, extra

(* The code of a size, and what its extra bits say. *)
LEMMA SizeCodeIs ==
  ASSUME NEW n \in Nat, 3 <= n, n <= MaximumMatch
  PROVE  LET c == SizeCode(n)
         IN  /\ c \in 257..285
             /\ n - FirstSizes[c] \in Nat
             /\ n - FirstSizes[c] < 2 ^ SizeExtra(c)
             /\ SizeExtra(c) \in 0..5
<1> DEFINE c == SizeCode(n)
           f == FirstSizes[c]
<1>1. FirstSizes[257] = 3
  BY FirstSizesByRecursion
<1>2. /\ c \in 257..285 /\ f <= n
      /\ \A d \in 257..285 : FirstSizes[d] <= n => d <= c
  <2>1. 257 \in Nat /\ 285 \in Nat /\ 257 <= 285 /\ FirstSizes[257] <= n
    BY <1>1
  <2>2. IsLast(c, 257, 285, FirstSizes, n)
    BY <2>1, LastWithIs, ZenonT(60) DEF SizeCode
  <2> HIDE DEF c
  <2> QED
    BY <2>2 DEF IsLast
<1>3. f \in Nat /\ SizeExtra(c) \in 0..5
  BY <1>2, SizesAreInTables
<1> HIDE DEF c
<1>4. 2 ^ SizeExtra(c) \in Nat
  <2> DEFINE e == SizeExtra(c)
  <2>1. e \in 0..13
    BY <1>3
  <2> HIDE DEF e
  <2>2. 2 ^ e = Powers[e + 1] /\ Powers[e + 1] \in Nat
    BY <2>1, PowersAre, Zenon
  <2> QED
    BY <2>2 DEF e
<1>5. n - f < 2 ^ SizeExtra(c)
  <2>1. CASE c = 285
    <3>1. FirstSizes[285] = 258
      BY FirstSizesByRecursion
    <3>2. 2 ^ SizeExtra(c) = 1
      BY <2>1 DEF SizeExtra
    <3> QED
      BY <2>1, <3>1, <3>2 DEF MaximumMatch
  <2>2. CASE c # 285
    <3> DEFINE m == c + 1
               g == FirstSizes[m]
    <3>1. m \in 258..285 /\ m \in 257..285 /\ m - 1 = c /\ ~(m <= c)
      BY <1>2, <2>2
    <3> HIDE DEF m
    <3>2. ~(g <= n)
      BY <1>2, <3>1
    <3>3. g \in Nat
      BY <3>1, SizesAreInTables
    <3>4. g > n
      BY <3>2, <3>3
    <3>5. CASE m = 285
      <4>1. c = 284
        BY <3>1, <3>5
      <4>2. f = 227
        <5>1. FirstSizes[284] = literal_codes_base[284 - 256]
          BY SizesAreInTables
        <5>2. 284 - 256 = 28 /\ literal_codes_base[28] = 227
          BY DEF literal_codes_base
        <5> QED
          BY <4>1, <5>1, <5>2
      <4>3. SizeExtra(284) = 5 /\ 2 ^ 5 = 32
        BY DEF SizeExtra
      <4>4. 2 ^ SizeExtra(c) = 32
        BY <4>1, <4>3
      <4>5. n - 227 < 32
        BY DEF MaximumMatch
      <4> QED
        BY <4>2, <4>4, <4>5
    <3>6. CASE m # 285
      <4>1. g = f + 2 ^ SizeExtra(c)
        BY <3>1, <3>6, FirstSizesByRecursion
      <4> DEFINE p == 2 ^ SizeExtra(c)
      <4>8. f \in Nat /\ g \in Nat /\ p \in Nat /\ g = f + p /\ g > n
        BY <1>3, <1>4, <3>3, <3>4, <4>1
      <4>9. n - f < p
        <5> HIDE DEF p, f, g
        <5> QED
          BY <4>8
      <4> QED
        BY <4>9
    <3> QED
      BY <3>5, <3>6
  <2> QED
    BY <2>1, <2>2
<1> QED
  BY <1>2, <1>3, <1>5 DEF c

LEMMA DistanceCodeIs ==
  ASSUME NEW n \in Nat, 1 <= n, n <= MaximumDistance
  PROVE  LET c == DistanceCode(n)
         IN  /\ c \in 0..29
             /\ n - FirstDistances[c] \in Nat
             /\ n - FirstDistances[c] < 2 ^ DistanceExtra(c)
             /\ DistanceExtra(c) \in 0..13
<1> DEFINE c == DistanceCode(n)
           f == FirstDistances[c]
<1>1. FirstDistances[0] = 1
  BY FirstDistancesByRecursion
<1>2. /\ c \in 0..29 /\ f <= n
      /\ \A d \in 0..29 : FirstDistances[d] <= n => d <= c
  <2>1. 0 \in Nat /\ 29 \in Nat /\ 0 <= 29 /\ FirstDistances[0] <= n
    BY <1>1
  <2>2. IsLast(c, 0, 29, FirstDistances, n)
    BY <2>1, LastWithIs, ZenonT(60) DEF DistanceCode
  <2> HIDE DEF c
  <2> QED
    BY <2>2 DEF IsLast
<1>3. f \in Nat /\ DistanceExtra(c) \in 0..13
  BY <1>2, DistancesAreInTables
<1> HIDE DEF c
<1>4. 2 ^ DistanceExtra(c) \in Nat
  <2> DEFINE e == DistanceExtra(c)
  <2>1. e \in 0..13
    BY <1>3
  <2> HIDE DEF e
  <2>2. 2 ^ e = Powers[e + 1] /\ Powers[e + 1] \in Nat
    BY <2>1, PowersAre, Zenon
  <2> QED
    BY <2>2 DEF e
<1>5. n - f < 2 ^ DistanceExtra(c)
  <2>1. CASE c = 29
    <3>1. FirstDistances[29] = 24577
      <4>1. FirstDistances[29] = distance_codes_base[29 + 1]
        BY DistancesAreInTables
      <4>2. 29 + 1 = 30 /\ distance_codes_base[30] = 24577
        BY DEF distance_codes_base
      <4> QED
        BY <4>1, <4>2
    <3>2. DistanceExtra(29) = 13 /\ 2 ^ 13 = 8192
      BY DEF DistanceExtra
    <3>3. 2 ^ DistanceExtra(c) = 8192
      <4>1. DistanceExtra(c) = 13
        BY <2>1, <3>2
      <4>2. \A e : e = 13 => 2 ^ e = 8192
        OBVIOUS
      <4> QED
        BY <4>1, <4>2
    <3>4. n - 24577 < 8192
      BY DEF MaximumDistance
    <3> QED
      BY <2>1, <3>1, <3>3, <3>4
  <2>2. CASE c # 29
    <3> DEFINE m == c + 1
               g == FirstDistances[m]
    <3>1. m \in 1..29 /\ m \in 0..29 /\ m - 1 = c /\ ~(m <= c)
      BY <1>2, <2>2
    <3> HIDE DEF m
    <3>2. ~(g <= n)
      BY <1>2, <3>1
    <3>3. g \in Nat
      BY <3>1, DistancesAreInTables
    <3>4. g > n
      BY <3>2, <3>3
    <3>5. g = f + 2 ^ DistanceExtra(c)
      BY <3>1, FirstDistancesByRecursion
    <3> DEFINE p == 2 ^ DistanceExtra(c)
    <3>8. f \in Nat /\ g \in Nat /\ p \in Nat /\ g = f + p /\ g > n
      BY <1>3, <1>4, <3>3, <3>4, <3>5
    <3>9. n - f < p
      <4> HIDE DEF p, f, g
      <4> QED
        BY <3>8
    <3> QED
      BY <3>9
  <2> QED
    BY <2>1, <2>2
<1> QED
  BY <1>2, <1>3, <1>5 DEF c

-----------------------------------------------------------------------------
(* Copies of bytes, and texts.                                             *)

LEMMA RemainderOfMore ==
  ASSUME NEW n \in Nat, NEW d \in Nat \ {0}
  PROVE  (n + d) % d = n % d /\ (n < d => n % d = n)
<1>1. (n + d) % d = n % d
  <2> DEFINE q == n \div d
             r == n % d
  <2>1. q \in Nat /\ r \in 0..(d - 1) /\ n = (q * d) + r
    BY Division
  <2>2. n + d = ((q + 1) * d) + r
    <3> HIDE DEF q, r
    <3> QED
      BY <2>1
  <2> HIDE DEF q
  <2>3. (((q + 1) * d) + r) % d = r
    <3> DEFINE p == q + 1
    <3>1. p \in Nat
      BY <2>1
    <3> HIDE DEF p, r
    <3> QED
      BY <2>1, <3>1
  <2> QED
    BY <2>2, <2>3
<1>2. n < d => n % d = n
  OBVIOUS
<1> QED
  BY <1>1, <1>2

(* A match copies bytes one after the other, which is the same as to repeat *)
(* those it starts with.                                                    *)
LEMMA CopiedIs ==
  ASSUME NEW text \in Seq(Bytes), NEW size \in Nat, NEW distance \in Nat \ {0},
         distance <= Len(text)
  PROVE  /\ Copied(text, size, distance) =
              [k \in 1..size |->
                 text[Len(text) - distance + 1 + ((k - 1) % distance)]]
         /\ Copied(text, size, distance) \in Seq(Bytes)
         /\ Len(Copied(text, size, distance)) = size
<1> DEFINE L == Len(text)
           C == [k \in 1..size |-> text[L - distance + 1 + ((k - 1) % distance)]]
           Is(f) == f = [k \in 1..size |-> IF k <= distance THEN text[L - distance + k]
                                          ELSE f[k - distance]]
           F == Copied(text, size, distance)
<1>1. \A k \in 1..size : C[k] = IF k <= distance THEN text[L - distance + k]
                                ELSE C[k - distance]
  <2> TAKE k \in 1..size
  <2>1. C[k] = text[L - distance + 1 + ((k - 1) % distance)]
    OBVIOUS
  <2>2. CASE k <= distance
    <3>1. (k - 1) % distance = k - 1
      <4>1. k - 1 \in Nat /\ k - 1 < distance
        BY <2>2
      <4> QED
        BY <4>1, RemainderOfMore
    <3>2. L - distance + 1 + (k - 1) = L - distance + k
      OBVIOUS
    <3> HIDE DEF C
    <3> QED
      BY <2>1, <2>2, <3>1, <3>2
  <2>3. CASE ~(k <= distance)
    <3> DEFINE m == k - distance
    <3>1. m \in 1..size /\ m - 1 \in Nat /\ k - 1 = (m - 1) + distance
      BY <2>3
    <3> HIDE DEF m
    <3>2. (k - 1) % distance = (m - 1) % distance
      BY <3>1, RemainderOfMore
    <3>3. C[m] = text[L - distance + 1 + ((m - 1) % distance)]
      BY <3>1
    <3> HIDE DEF C
    <3> QED
      BY <2>1, <2>3, <3>2, <3>3 DEF m
  <2> QED
    BY <2>2, <2>3
<1>2. C = [k \in 1..size |-> C[k]]
  OBVIOUS
<1>3. Is(C)
  <2> HIDE DEF C
  <2> QED
    BY <1>1, <1>2
<1>4. (\E f : Is(f)) => Is(F)
  BY Zenon DEF Copied
<1>5. Is(F)
  <2> HIDE DEF Is, F, C
  <2> QED
    BY <1>3, <1>4
<1> HIDE DEF F
<1>6. F = [k \in 1..size |-> F[k]]
  <2>1. DOMAIN F = 1..size
    BY <1>5
  <2> QED
    BY <1>5
<1>7. \A k \in 1..size : F[k] = IF k <= distance THEN text[L - distance + k]
                                ELSE F[k - distance]
  BY <1>5
<1> HIDE DEF C, Is
<1> DEFINE T == {n \in 0..size : \A k \in 1..n : F[k] = C[k]}
<1>8. \A n \in 0..size : n \in T
  <2>1. 0 \in T
    OBVIOUS
  <2>2. ASSUME NEW n \in 0..(size - 1), n \in T PROVE n + 1 \in T
    <3> DEFINE k == n + 1
    <3>1. k \in 1..size /\ k \in 0..size
      OBVIOUS
    <3>2. F[k] = C[k]
      <4>1. k > distance => k - distance \in 1..n
        OBVIOUS
      <4>2. k > distance => F[k - distance] = C[k - distance]
        BY <2>2, <4>1
      <4>3. k <= distance \/ k > distance
        OBVIOUS
      <4> HIDE DEF k, T
      <4> QED
        BY <1>1, <1>7, <3>1, <4>2, <4>3
    <3>3. \A j \in 1..k : F[j] = C[j]
      <4>1. \A j \in 1..k : j \in 1..n \/ j = k
        OBVIOUS
      <4> QED
        BY <2>2, <3>2, <4>1
    <3> QED
      BY <3>1, <3>3
  <2>3. 0 \in Int /\ size \in Int
    OBVIOUS
  <2> HIDE DEF T
  <2> QED
    BY <2>1, <2>2, <2>3, UpTo
<1>9. F = C
  <2>1. \A k \in 1..size : F[k] = C[k]
    BY <1>8
  <2> QED
    BY <1>2, <1>6, <2>1
<1>10. C \in [1..size -> Bytes]
  <2>1. ASSUME NEW k \in 1..size
        PROVE  text[L - distance + 1 + ((k - 1) % distance)] \in Bytes
    <3>1. (k - 1) % distance \in 0..(distance - 1)
      <4>1. k - 1 \in Nat
        OBVIOUS
      <4> QED
        BY <4>1, Division
    <3> DEFINE r == (k - 1) % distance
    <3> HIDE DEF r
    <3>2. L - distance + 1 + r \in 1..L
      BY <3>1 DEF r
    <3> HIDE DEF L
    <3>3. \A j \in 1..L : text[j] \in Bytes
      BY DEF L
    <3> QED
      BY <3>2, <3>3 DEF r
  <2> QED
    BY <2>1 DEF C
<1>11. C \in Seq(Bytes) /\ Len(C) = size
  BY <1>10, SequenceOf
<1> QED
  BY <1>9, <1>11 DEF F, C, L

-----------------------------------------------------------------------------
(* Texts that grow.                                                        *)

LEMMA BeginsAll ==
  ASSUME NEW S, NEW s \in Seq(S), NEW t \in Seq(S)
  PROVE  Begins(s, s \o t) /\ Begins(s, s)
<1>1. Len(s) \in Nat /\ Len(t) \in Nat /\ Len(s \o t) = Len(s) + Len(t)
      /\ \A k \in 1..Len(s) : (s \o t)[k] = s[k]
  BY ConcatenationOf
<1> QED
  BY <1>1 DEF Begins

LEMMA BeginsThrough ==
  ASSUME NEW S, NEW s \in Seq(S), NEW t \in Seq(S), NEW u \in Seq(S),
         Begins(s, t), Begins(t, u)
  PROVE  Begins(s, u)
<1> DEFINE l == Len(s)
           m == Len(t)
           n == Len(u)
<1>1. l \in Nat /\ m \in Nat /\ n \in Nat /\ l <= m /\ m <= n
  BY DEF Begins
<1>2. \A k \in 1..l : k \in 1..m
  BY <1>1
<1>3. \A k \in 1..l : u[k] = s[k]
  BY <1>2 DEF Begins
<1> QED
  BY <1>1, <1>3 DEF Begins

(* A sequence that another starts with is its first part. *)
LEMMA BeginningIs ==
  ASSUME NEW S, NEW s \in Seq(S), NEW t \in Seq(S), Begins(s, t)
  PROVE  /\ Len(s) <= Len(t) /\ s = SubSeq(t, 1, Len(s))
         /\ Len(s) = Len(t) => s = t
<1> DEFINE l == Len(s)
           u == SubSeq(t, 1, l)
<1>1. l \in Nat /\ l <= Len(t) /\ \A k \in 1..l : t[k] = s[k]
  BY DEF Begins
<1>2. u \in Seq(S) /\ Len(u) = l /\ \A k \in 1..l : u[k] = t[k]
  <2>1. 1 \in Nat /\ 1 <= 1 /\ 1 <= l + 1
    BY <1>1
  <2>2. /\ u \in Seq(S) /\ Len(u) = l - 1 + 1
        /\ \A k \in 1..(l - 1 + 1) : u[k] = t[1 + k - 1]
    BY <1>1, <2>1, SubSeqOf
  <2>3. l - 1 + 1 = l /\ \A k \in 1..l : 1 + k - 1 = k
    BY <1>1
  <2> QED
    BY <2>2, <2>3
<1>3. s = u
  BY <1>1, <1>2
<1>4. Len(s) = Len(t) => s = t
  BY <1>1
<1> QED
  BY <1>1, <1>3, <1>4

(* Texts, each of which starts with the one before. *)
AreTexts(f, n) ==
  /\ f \in [0..n -> Seq(Bytes)]
  /\ \A k \in 1..n : Begins(f[k - 1], f[k])

LEMMA TextsAreBeginnings ==
  ASSUME NEW n \in Nat, NEW f, AreTexts(f, n), NEW k \in 0..n
  PROVE  f[k] \in Seq(Bytes) /\ Begins(f[k], f[n])
<1> DEFINE T == {m \in 0..n : Begins(f[k], f[m])}
<1>1. \A m \in 0..n : f[m] \in Seq(Bytes)
  BY DEF AreTexts
<1>2. k \in T
  <2>1. <<>> \in Seq(Bytes)
    OBVIOUS
  <2>2. Begins(f[k], f[k])
    BY <1>1, <2>1, BeginsAll
  <2> QED
    BY <2>2
<1>3. ASSUME NEW m \in k..(n - 1), m \in T PROVE m + 1 \in T
  <2>1. m + 1 \in 1..n /\ m + 1 \in 0..n /\ m \in 0..n /\ (m + 1) - 1 = m
    OBVIOUS
  <2>2. Begins(f[m], f[m + 1])
    <3>1. Begins(f[(m + 1) - 1], f[m + 1])
      BY <2>1, Zenon DEF AreTexts
    <3> QED
      BY <2>1, <3>1
  <2>3. Begins(f[k], f[m])
    BY <1>3
  <2>4. Begins(f[k], f[m + 1])
    BY <1>1, <2>1, <2>2, <2>3, BeginsThrough
  <2> QED
    BY <2>1, <2>4
<1>4. \A m \in k..n : m \in T
  <2>1. k \in Int /\ n \in Int
    OBVIOUS
  <2> HIDE DEF T
  <2> QED
    BY <1>2, <1>3, <2>1, UpTo
<1>5. n \in T
  BY <1>4
<1> QED
  BY <1>1, <1>5

(* What an item adds to a text. *)
LEMMA TextAfterItemIs ==
  ASSUME NEW text \in Seq(Bytes), NEW literals, NEW distances, NEW item,
         IsItem(text, literals, distances, item)
  PROVE  /\ TextAfterItem(text, item) \in Seq(Bytes)
         /\ Begins(text, TextAfterItem(text, item))
         /\ Len(item) = 1 =>
              /\ item[1] \in Bytes
              /\ TextAfterItem(text, item) = Append(text, item[1])
              /\ Len(TextAfterItem(text, item)) = Len(text) + 1
         /\ Len(item) # 1 =>
              /\ Len(item) = 2
              /\ item[1] \in Nat /\ item[2] \in Nat \ {0} /\ item[2] <= Len(text)
              /\ TextAfterItem(text, item) = text \o Copied(text, item[1], item[2])
              /\ Len(TextAfterItem(text, item)) = Len(text) + item[1]
<1>1. CASE Len(item) = 1
  <2> DEFINE x == item[1]
  <2>1. x \in Bytes
    BY <1>1 DEF IsItem, Bytes
  <2>2. TextAfterItem(text, item) = text \o <<x>>
    BY <1>1 DEF TextAfterItem
  <2> HIDE DEF x
  <2>3. <<x>> \in Seq(Bytes) /\ Len(<<x>>) = 1 /\ Append(text, x) = text \o <<x>>
    BY <2>1
  <2> DEFINE w == <<x>>
  <2> HIDE DEF w
  <2>4. text \o w \in Seq(Bytes) /\ Len(text \o w) = Len(text) + 1
        /\ Begins(text, text \o w)
    <3>1. w \in Seq(Bytes) /\ Len(w) = 1
      BY <2>3 DEF w
    <3>2. Begins(text, text \o w)
      BY <3>1, BeginsAll
    <3>3. text \o w \in Seq(Bytes) /\ Len(text \o w) = Len(text) + Len(w)
      BY <3>1, ConcatenationOf
    <3> QED
      BY <3>1, <3>2, <3>3
  <2>5. TextAfterItem(text, item) = text \o w /\ Append(text, x) = text \o w
    BY <2>2, <2>3 DEF w
  <2> DEFINE after == text \o w
  <2> HIDE DEF after
  <2>6. /\ TextAfterItem(text, item) = after /\ Append(text, x) = after
        /\ after \in Seq(Bytes) /\ Len(after) = Len(text) + 1 /\ Begins(text, after)
    BY <2>4, <2>5 DEF after
  <2>7. /\ TextAfterItem(text, item) \in Seq(Bytes)
        /\ Begins(text, TextAfterItem(text, item))
        /\ x \in Bytes
        /\ TextAfterItem(text, item) = Append(text, x)
        /\ Len(TextAfterItem(text, item)) = Len(text) + 1
    BY <2>1, <2>6
  <2> QED
    BY <1>1, <2>7 DEF x
<1>2. CASE Len(item) # 1
  <2> DEFINE size == item[1]
             distance == item[2]
             c == Copied(text, size, distance)
  <2>1. Len(item) = 2 /\ size \in Nat /\ distance \in Nat \ {0} /\ distance <= Len(text)
    <3>1. Len(item) = 2 /\ size \in 3..MaximumMatch /\ distance \in 1..MaximumDistance
         /\ distance <= Len(text)
      BY <1>2, Zenon DEF IsItem
    <3>2. MaximumMatch \in Nat /\ MaximumDistance \in Nat
      BY DEF MaximumMatch, MaximumDistance
    <3> HIDE DEF size, distance
    <3> QED
      BY <3>1, <3>2
  <2>2. TextAfterItem(text, item) = text \o c
    BY <1>2 DEF TextAfterItem
  <2>3. c \in Seq(Bytes) /\ Len(c) = size
    BY <2>1, CopiedIs
  <2> HIDE DEF c
  <2>4. text \o c \in Seq(Bytes) /\ Len(text \o c) = Len(text) + size
        /\ Begins(text, text \o c)
    BY <2>3, ConcatenationOf, BeginsAll
  <2> QED
    BY <1>2, <2>1, <2>2, <2>4 DEF c
<1> QED
  BY <1>1, <1>2

(* The texts after the items of a block. *)
AreItemTexts(f, text, b) ==
  /\ Len(b.items) \in Nat
  /\ AreTexts(f, Len(b.items))
  /\ f[0] = text
  /\ \A k \in 1..Len(b.items) :
       /\ f[k] = TextAfterItem(f[k - 1], b.items[k])
       /\ IsItem(f[k - 1], LiteralSizes(b), DistanceSizes(b), b.items[k])

LEMMA ItemTextsAre ==
  ASSUME NEW text \in Seq(Bytes), NEW b, AreItems(text, b)
  PROVE  AreItemTexts(ItemTexts(text, b.items), text, b)
<1> DEFINE f == ItemTexts(text, b.items)
           n == Len(b.items)
           l == LiteralSizes(b)
           d == DistanceSizes(b)
           T == {k \in 0..n : f[k] \in Seq(Bytes)}
<1>1. n \in Nat /\ \A k \in 1..n : IsItem(f[k - 1], l, d, b.items[k])
  BY Zenon DEF AreItems
<1>2. /\ f = [k \in 0..n |-> f[k]] /\ f[0] = text
      /\ \A k \in 1..n : f[k] = TextAfterItem(f[k - 1], b.items[k])
  <2> DEFINE items == b.items
  <2>1. n = Len(items) /\ f = ItemTexts(text, items)
    OBVIOUS
  <2> HIDE DEF n, f, items
  <2>2. /\ f = [k \in 0..n |-> f[k]] /\ f[0] = text
        /\ \A k \in 1..n : f[k] = TextAfterItem(f[k - 1], items[k])
    BY <1>1, <2>1, ItemTextsByRecursion
  <2> QED
    BY <2>2 DEF items
<1> HIDE DEF f, l, d, n
<1>3. ASSUME NEW k \in 1..n, f[k - 1] \in Seq(Bytes)
      PROVE  f[k] \in Seq(Bytes) /\ Begins(f[k - 1], f[k])
  <2>1. IsItem(f[k - 1], l, d, b.items[k]) /\ f[k] = TextAfterItem(f[k - 1], b.items[k])
    BY <1>1, <1>2
  <2> QED
    BY <1>3, <2>1, TextAfterItemIs
<1>4. \A k \in 0..n : k \in T
  <2>1. 0 \in T
    BY <1>1, <1>2
  <2>2. ASSUME NEW k \in 0..(n - 1), k \in T PROVE k + 1 \in T
    <3>1. k + 1 \in 1..n /\ k + 1 \in 0..n /\ (k + 1) - 1 = k
      BY <1>1
    <3>2. f[(k + 1) - 1] \in Seq(Bytes)
      BY <2>2, <3>1
    <3>3. f[k + 1] \in Seq(Bytes)
      BY <1>3, <3>1, <3>2
    <3> QED
      BY <3>1, <3>3
  <2>3. 0 \in Int /\ n \in Int
    BY <1>1
  <2> HIDE DEF T
  <2> QED
    BY <2>1, <2>2, <2>3, UpTo
<1>5. f \in [0..n -> Seq(Bytes)]
  BY <1>2, <1>4
<1>6. \A k \in 1..n : Begins(f[k - 1], f[k])
  <2> TAKE k \in 1..n
  <2>1. k - 1 \in 0..n
    BY <1>1
  <2> QED
    BY <1>3, <1>5, <2>1
<1>7. AreTexts(f, n)
  BY <1>5, <1>6 DEF AreTexts
<1> QED
  BY <1>1, <1>2, <1>7 DEF AreItemTexts, f, n, l, d

(* The texts after the blocks of a message. *)
AreBlockTexts(f, blocks) ==
  /\ Len(blocks) \in Nat \ {0}
  /\ AreTexts(f, Len(blocks))
  /\ f[0] = <<>>
  /\ \A k \in 1..Len(blocks) :
       /\ f[k] = TextAfterBlock(f[k - 1], blocks[k])
       /\ IsBlock(f[k - 1], blocks[k])

LEMMA TextAfterBlockIs ==
  ASSUME NEW text \in Seq(Bytes), NEW b, IsBlock(text, b)
  PROVE  /\ TextAfterBlock(text, b) \in Seq(Bytes)
         /\ Begins(text, TextAfterBlock(text, b))
         /\ b.kind = "stored" => /\ b.bytes \in Seq(Bytes)
                                 /\ Len(b.bytes) <= MaximumStored
                                 /\ TextAfterBlock(text, b) = text \o b.bytes
         /\ b.kind # "stored" =>
              /\ AreItemTexts(ItemTexts(text, b.items), text, b)
              /\ TextAfterBlock(text, b) = ItemTexts(text, b.items)[Len(b.items)]
<1>1. CASE b.kind = "stored"
  <2> DEFINE c == b.bytes
  <2>1. c \in Seq(Bytes) /\ Len(c) <= MaximumStored
        /\ TextAfterBlock(text, b) = text \o c
    BY <1>1, Zenon DEF IsBlock, TextAfterBlock, Bytes
  <2> HIDE DEF c
  <2>2. text \o c \in Seq(Bytes) /\ Begins(text, text \o c)
    BY <2>1, ConcatenationOf, BeginsAll
  <2> QED
    BY <1>1, <2>1, <2>2, Zenon DEF c
<1>2. CASE b.kind # "stored"
  <2> DEFINE f == ItemTexts(text, b.items)
             n == Len(b.items)
  <2>1. AreItems(text, b)
    BY <1>2 DEF IsBlock
  <2>2. AreItemTexts(f, text, b)
    BY <2>1, ItemTextsAre
  <2>3. TextAfterBlock(text, b) = f[n]
    BY <1>2 DEF TextAfterBlock
  <2> HIDE DEF f
  <2>4. n \in Nat /\ AreTexts(f, n) /\ f[0] = text
    BY <2>2 DEF AreItemTexts
  <2> HIDE DEF n
  <2>5. 0 \in 0..n /\ n \in 0..n
    BY <2>4
  <2>6. f[n] \in Seq(Bytes) /\ Begins(text, f[n])
    BY <2>4, <2>5, TextsAreBeginnings
  <2> QED
    BY <1>2, <2>2, <2>3, <2>6 DEF f, n
<1> QED
  BY <1>1, <1>2

LEMMA BlockTextsAre ==
  ASSUME NEW blocks, IsMessage(blocks)
  PROVE  AreBlockTexts(BlockTexts(blocks), blocks)
<1> DEFINE f == BlockTexts(blocks)
           n == Len(blocks)
           T == {k \in 0..n : f[k] \in Seq(Bytes)}
<1>1. n \in Nat \ {0} /\ \A k \in 1..n : IsBlock(f[k - 1], blocks[k])
  BY Zenon DEF IsMessage
<1>2. /\ f = [k \in 0..n |-> f[k]] /\ f[0] = <<>>
      /\ \A k \in 1..n : f[k] = TextAfterBlock(f[k - 1], blocks[k])
  <2>1. n \in Nat
    BY <1>1
  <2> QED
    BY <2>1, BlockTextsByRecursion
<1> HIDE DEF f, n
<1>3. ASSUME NEW k \in 1..n, f[k - 1] \in Seq(Bytes)
      PROVE  f[k] \in Seq(Bytes) /\ Begins(f[k - 1], f[k])
  <2>1. IsBlock(f[k - 1], blocks[k]) /\ f[k] = TextAfterBlock(f[k - 1], blocks[k])
    BY <1>1, <1>2
  <2> QED
    BY <1>3, <2>1, TextAfterBlockIs
<1>4. \A k \in 0..n : k \in T
  <2>1. 0 \in T
    <3>1. <<>> \in Seq(Bytes) /\ 0 \in 0..n
      BY <1>1
    <3>2. f[0] \in Seq(Bytes)
      BY <1>2, <3>1, Zenon
    <3> QED
      BY <3>1, <3>2
  <2>2. ASSUME NEW k \in 0..(n - 1), k \in T PROVE k + 1 \in T
    <3>1. k + 1 \in 1..n /\ k + 1 \in 0..n /\ (k + 1) - 1 = k
      BY <1>1
    <3>2. f[(k + 1) - 1] \in Seq(Bytes)
      BY <2>2, <3>1
    <3>3. f[k + 1] \in Seq(Bytes)
      BY <1>3, <3>1, <3>2
    <3> QED
      BY <3>1, <3>3
  <2>3. 0 \in Int /\ n \in Int
    BY <1>1
  <2> HIDE DEF T
  <2> QED
    BY <2>1, <2>2, <2>3, UpTo
<1>5. f \in [0..n -> Seq(Bytes)]
  BY <1>2, <1>4
<1>6. \A k \in 1..n : Begins(f[k - 1], f[k])
  <2> TAKE k \in 1..n
  <2>1. k - 1 \in 0..n
    BY <1>1
  <2> QED
    BY <1>3, <1>5, <2>1
<1>7. AreTexts(f, n)
  BY <1>5, <1>6 DEF AreTexts
<1> QED
  BY <1>1, <1>2, <1>7 DEF AreBlockTexts, f, n

-----------------------------------------------------------------------------
(* Numbers, codes and matches are read as they are written.                *)

(* Sizes that a tree can be built of. *)
AreCodes(code_sizes) == code_sizes \in Seq(0..15) /\ AreSizes(code_sizes)

LEMMA CodeIs ==
  ASSUME NEW code_sizes, AreCodes(code_sizes), NEW symbol \in Nat,
         HasCode(code_sizes, symbol)
  PROVE  /\ Code(code_sizes, symbol) \in Seq(Bits)
         /\ Len(Code(code_sizes, symbol)) = code_sizes[symbol + 1]
         /\ code_sizes[symbol + 1] \in 1..15
<1> DEFINE z == code_sizes[symbol + 1]
           c == CodeNumber(code_sizes, symbol)
           t == Tree(code_sizes)
<1>1. code_sizes \in Seq(0..15) /\ AreSizes(code_sizes)
  BY DEF AreCodes
<1>2. IsSpace(code_sizes, t.code_size_counts, FirstHuffmanCode(t))
  BY <1>1, TreeIsBuilt
<1>3. z \in 1..15 /\ c \in Nat
  BY <1>1, <1>2, NumberOfCode
<1>4. Code(code_sizes, symbol) = HighFirst(c, z)
  BY DEF Code
<1> HIDE DEF z, c
<1>5. z \in Nat
  BY <1>3
<1>6. HighFirst(c, z) \in Seq(Bits) /\ Len(HighFirst(c, z)) = z
  BY <1>3, <1>5, HighFirstBits
<1> QED
  BY <1>3, <1>4, <1>6 DEF z

(* A number that comes is read. *)
LEMMA NumberIsRead ==
  ASSUME data \in Seq(Bytes), NEW s, IsStream(s), NEW n \in Nat, NEW count \in Nat,
         n < 2 ^ count, Comes(Position(s), LowFirst(n, count))
  PROVE  /\ \A v \in Values(s, count) :
              /\ Number(v.bits) = n
              /\ IsStream(v.stream)
              /\ Position(v.stream) = Position(s) + count
         /\ input.damage = "none" => Values(s, count) # {}
<1> DEFINE x == LowFirst(n, count)
<1>1. x \in Seq(Bits) /\ Len(x) = count /\ Number(x) = n
  BY LowFirstBits, NumberOfLowFirst
<1> HIDE DEF x
<1>2. Comes(Position(s), x)
  BY DEF x
<1>3. count = Len(x)
  BY <1>1
<1>4. /\ \A v \in Values(s, count) :
           v.bits = x /\ IsStream(v.stream) /\ Position(v.stream) = Position(s) + count
      /\ input.damage = "none" => Values(s, count) # {}
  BY <1>1, <1>2, <1>3, ReadsWhatComes
<1> QED
  BY <1>1, <1>4

(* A match is a size and a distance. *)
IsMatchSize(literals, n) ==
  n \in Nat /\ 3 <= n /\ n <= MaximumMatch /\ HasCode(literals, SizeCode(n))
IsMatchDistance(distances, n) ==
  n \in Nat /\ 1 <= n /\ n <= MaximumDistance /\ HasCode(distances, DistanceCode(n))

LEMMA SizeBitsAre ==
  ASSUME NEW literals, AreCodes(literals), NEW n, IsMatchSize(literals, n)
  PROVE  LET c == SizeCode(n)
             x == Code(literals, c)
             y == LowFirst(n - FirstSizes[c], SizeExtra(c))
         IN  /\ c \in 257..285 /\ SizeExtra(c) \in 0..5
             /\ n - FirstSizes[c] \in Nat /\ n - FirstSizes[c] < 2 ^ SizeExtra(c)
             /\ x \in Seq(Bits) /\ y \in Seq(Bits) /\ Len(y) = SizeExtra(c)
             /\ BitsOfSize(literals, n) = x \o y
             /\ BitsOfSize(literals, n) \in Seq(Bits)
             /\ Len(BitsOfSize(literals, n)) = Len(x) + Len(y)
             /\ Len(x) \in 1..15
<1> DEFINE c == SizeCode(n)
           x == Code(literals, c)
           r == n - FirstSizes[c]
           e == SizeExtra(c)
           y == LowFirst(r, e)
<1>1. c \in 257..285 /\ r \in Nat /\ r < 2 ^ e /\ e \in 0..5
  BY SizeCodeIs DEF IsMatchSize
<1>2. BitsOfSize(literals, n) = x \o y
  BY DEF BitsOfSize
<1>3. HasCode(literals, c)
  BY DEF IsMatchSize
<1> HIDE DEF c
<1>4. c \in Nat
  BY <1>1
<1>5. x \in Seq(Bits) /\ Len(x) \in 1..15
  BY <1>3, <1>4, CodeIs
<1>6. y \in Seq(Bits) /\ Len(y) = e
  <2> HIDE DEF r, e
  <2>1. e \in Nat
    BY <1>1
  <2> QED
    BY <1>1, <2>1, LowFirstBits
<1>7. x \o y \in Seq(Bits) /\ Len(x \o y) = Len(x) + Len(y)
  <2> HIDE DEF x, y
  <2> QED
    BY <1>5, <1>6, ConcatenationOf
<1> HIDE DEF x, y
<1> QED
  BY <1>1, <1>2, <1>5, <1>6, <1>7 DEF c, x, y

LEMMA DistanceBitsAre ==
  ASSUME NEW distances, AreCodes(distances), NEW n, IsMatchDistance(distances, n)
  PROVE  LET c == DistanceCode(n)
             x == Code(distances, c)
             y == LowFirst(n - FirstDistances[c], DistanceExtra(c))
         IN  /\ c \in 0..29 /\ DistanceExtra(c) \in 0..13
             /\ n - FirstDistances[c] \in Nat
             /\ n - FirstDistances[c] < 2 ^ DistanceExtra(c)
             /\ x \in Seq(Bits) /\ y \in Seq(Bits) /\ Len(y) = DistanceExtra(c)
             /\ BitsOfDistance(distances, n) = x \o y
             /\ BitsOfDistance(distances, n) \in Seq(Bits)
             /\ Len(BitsOfDistance(distances, n)) = Len(x) + Len(y)
<1> DEFINE c == DistanceCode(n)
           x == Code(distances, c)
           r == n - FirstDistances[c]
           e == DistanceExtra(c)
           y == LowFirst(r, e)
<1>1. c \in 0..29 /\ r \in Nat /\ r < 2 ^ e /\ e \in 0..13
  BY DistanceCodeIs DEF IsMatchDistance
<1>2. BitsOfDistance(distances, n) = x \o y
  BY DEF BitsOfDistance
<1>3. HasCode(distances, c)
  BY DEF IsMatchDistance
<1> HIDE DEF c
<1>4. c \in Nat
  BY <1>1
<1>5. x \in Seq(Bits)
  BY <1>3, <1>4, CodeIs
<1>6. y \in Seq(Bits) /\ Len(y) = e
  <2> HIDE DEF r, e
  <2>1. e \in Nat
    BY <1>1
  <2> QED
    BY <1>1, <2>1, LowFirstBits
<1>7. x \o y \in Seq(Bits) /\ Len(x \o y) = Len(x) + Len(y)
  <2> HIDE DEF x, y
  <2> QED
    BY <1>5, <1>6, ConcatenationOf
<1> HIDE DEF x, y
<1> QED
  BY <1>1, <1>2, <1>5, <1>6, <1>7 DEF c, x, y

(* The symbol that a code stands for, of sizes that a tree is built of. *)
LEMMA CodeIsRead ==
  ASSUME data \in Seq(Bytes), NEW s, IsStream(s), NEW code_sizes,
         AreCodes(code_sizes), NEW symbol \in Nat, HasCode(code_sizes, symbol),
         Comes(Position(s), Code(code_sizes, symbol))
  PROVE  /\ \A d \in Symbols(Tree(code_sizes), s) :
              /\ d.symbol = symbol
              /\ IsStream(d.stream)
              /\ Position(d.stream) = Position(s) + Len(Code(code_sizes, symbol))
         /\ input.damage = "none" => Symbols(Tree(code_sizes), s) # {}
<1>1. code_sizes \in Seq(0..15) /\ AreSizes(code_sizes)
  BY DEF AreCodes
<1> QED
  BY <1>1, CodesAreDecoded

(* A code, and a number after it. *)
IsReadAfter(d, n, count, q) ==
  /\ \A v \in Values(d.stream, count) :
       Number(v.bits) = n /\ IsStream(v.stream) /\ Position(v.stream) = q
  /\ input.damage = "none" => Values(d.stream, count) # {}

LEMMA CodeAndNumberAreRead ==
  ASSUME data \in Seq(Bytes), NEW s, IsStream(s), NEW code_sizes,
         AreCodes(code_sizes), NEW symbol \in Nat, HasCode(code_sizes, symbol),
         NEW n \in Nat, NEW count \in Nat, n < 2 ^ count,
         Comes(Position(s), Code(code_sizes, symbol) \o LowFirst(n, count)),
         NEW d \in Symbols(Tree(code_sizes), s)
  PROVE  /\ d.symbol = symbol
         /\ IsReadAfter(d, n, count,
              Position(s) + Len(Code(code_sizes, symbol) \o LowFirst(n, count)))
<1> DEFINE x == Code(code_sizes, symbol)
           y == LowFirst(n, count)
           q == Position(s)
<1>1. x \in Seq(Bits) /\ y \in Seq(Bits) /\ Len(y) = count
  BY CodeIs, LowFirstBits
<1>2. q \in Nat
  BY PositionIsNat
<1>3. Comes(q, x) /\ Comes(q + Len(x), y) /\ Len(x \o y) = Len(x) + count
  <2> HIDE DEF x, y, q
  <2>1. Comes(q, x \o y)
    BY DEF x, y, q
  <2>2. Comes(q, x) /\ Comes(q + Len(x), y)
    BY <1>1, <1>2, <2>1, PartsCome
  <2> QED
    BY <1>1, <2>2, ConcatenationOf
<1>4. d.symbol = symbol /\ IsStream(d.stream) /\ Position(d.stream) = q + Len(x)
  BY <1>3, CodeIsRead
<1>5. Comes(Position(d.stream), y)
  BY <1>3, <1>4
<1> DEFINE p == Position(d.stream)
<1>6. /\ \A v \in Values(d.stream, count) :
           Number(v.bits) = n /\ IsStream(v.stream) /\ Position(v.stream) = p + count
      /\ input.damage = "none" => Values(d.stream, count) # {}
  BY <1>4, <1>5, NumberIsRead
<1>7. p + count = q + Len(x \o y)
  <2>1. Len(x) \in Nat /\ p = q + Len(x)
    BY <1>1, <1>4
  <2> HIDE DEF p, q, x, y
  <2> QED
    BY <1>2, <1>3, <2>1
<1>8. IsReadAfter(d, n, count, q + Len(x \o y))
  <2> DEFINE e == q + Len(x \o y)
  <2>1. e = p + count
    BY <1>7
  <2> HIDE DEF e, p
  <2>2. IsReadAfter(d, n, count, e)
    BY <1>6, <2>1 DEF IsReadAfter, p
  <2> QED
    BY <2>2 DEF e
<1> QED
  BY <1>4, <1>8

(* The size of a match that comes is read. *)
LEMMA MatchSizeIsRead ==
  ASSUME data \in Seq(Bytes), NEW s, IsStream(s), NEW literals, AreCodes(literals),
         NEW n, IsMatchSize(literals, n), Comes(Position(s), BitsOfSize(literals, n)),
         NEW d \in Symbols(Tree(literals), s)
  PROVE  /\ d.symbol \in 257..285
         /\ \A m \in MatchSizes(d) :
              /\ m.size = n
              /\ IsStream(m.stream)
              /\ Position(m.stream) = Position(s) + Len(BitsOfSize(literals, n))
         /\ input.damage = "none" => MatchSizes(d) # {}
<1> DEFINE c == SizeCode(n)
           r == n - FirstSizes[c]
           e == SizeExtra(c)
           base == literal_codes_base[d.symbol - 256]
           extra == literal_codes_number_of_extra_bits[d.symbol - 256]
           q == Position(s) + Len(BitsOfSize(literals, n))
<1>1. /\ c \in 257..285 /\ e \in 0..5 /\ r \in Nat /\ r < 2 ^ e
      /\ BitsOfSize(literals, n) = Code(literals, c) \o LowFirst(r, e)
  BY SizeBitsAre
<1>2. HasCode(literals, c) /\ n \in Nat
  BY DEF IsMatchSize
<1>3. /\ FirstSizes[c] = literal_codes_base[c - 256] /\ FirstSizes[c] \in Nat
      /\ e = literal_codes_number_of_extra_bits[c - 256]
  BY <1>1, SizesAreInTables, ZenonT(60)
<1>4. Comes(Position(s), Code(literals, c) \o LowFirst(r, e))
  BY <1>1
<1> HIDE DEF c, e, r
<1>5. d.symbol = c /\ IsReadAfter(d, r, e, q)
  <2>1. c \in Nat /\ e \in Nat
    BY <1>1
  <2> QED
    BY <1>1, <1>2, <1>4, <2>1, CodeAndNumberAreRead
<1>6. base = FirstSizes[c] /\ extra = e /\ base + r = n
  <2>1. base = FirstSizes[c] /\ extra = e
    BY <1>3, <1>5
  <2>2. FirstSizes[c] + (n - FirstSizes[c]) = n
    BY <1>2, <1>3
  <2> QED
    BY <2>1, <2>2 DEF r
<1>7. MatchSizes(d) = {[size |-> base + Number(v.bits), stream |-> v.stream] :
                         v \in Values(d.stream, extra)}
  BY <1>1, <1>5 DEF MatchSizes
<1> HIDE DEF base, extra, q
<1>8. ASSUME NEW m \in MatchSizes(d)
      PROVE  m.size = n /\ IsStream(m.stream) /\ Position(m.stream) = q
  <2>1. PICK v \in Values(d.stream, e) :
          m = [size |-> base + Number(v.bits), stream |-> v.stream]
    BY <1>6, <1>7
  <2>2. Number(v.bits) = r /\ IsStream(v.stream) /\ Position(v.stream) = q
    BY <1>5 DEF IsReadAfter
  <2> QED
    BY <1>6, <2>1, <2>2
<1>9. ASSUME input.damage = "none" PROVE MatchSizes(d) # {}
  <2>1. PICK v : v \in Values(d.stream, extra)
    BY <1>5, <1>6, <1>9 DEF IsReadAfter
  <2>2. [size |-> base + Number(v.bits), stream |-> v.stream] \in MatchSizes(d)
    BY <1>7, <2>1
  <2> QED
    BY <2>2
<1> QED
  BY <1>1, <1>5, <1>8, <1>9 DEF q

(* The distance of a match that comes is read. *)
LEMMA DistanceIsRead ==
  ASSUME data \in Seq(Bytes), IsStream(Stream), NEW distances, AreCodes(distances),
         distances_tree = Tree(distances),
         NEW n, IsMatchDistance(distances, n),
         Comes(Position(Stream), BitsOfDistance(distances, n))
  PROVE  /\ \A m \in Distances :
              /\ m.distance = n
              /\ IsStream(m.stream)
              /\ Position(m.stream) = Position(Stream) + Len(BitsOfDistance(distances, n))
         /\ input.damage = "none" => Distances # {}
<1> DEFINE c == DistanceCode(n)
           r == n - FirstDistances[c]
           e == DistanceExtra(c)
           q == Position(Stream) + Len(BitsOfDistance(distances, n))
           Of(d) == {[distance |-> distance_codes_base[d.symbol + 1] + Number(v.bits),
                      stream |-> v.stream] :
              v \in Values(d.stream, distance_codes_number_of_extra_bits[d.symbol + 1])}
<1>1. /\ c \in 0..29 /\ e \in 0..13 /\ r \in Nat /\ r < 2 ^ e
      /\ BitsOfDistance(distances, n) = Code(distances, c) \o LowFirst(r, e)
  BY DistanceBitsAre
<1>2. HasCode(distances, c) /\ n \in Nat
  BY DEF IsMatchDistance
<1>3. /\ FirstDistances[c] = distance_codes_base[c + 1] /\ FirstDistances[c] \in Nat
      /\ e = distance_codes_number_of_extra_bits[c + 1]
  BY <1>1, DistancesAreInTables
<1>4. Comes(Position(Stream), Code(distances, c) \o LowFirst(r, e))
  BY <1>1
<1>5. r + FirstDistances[c] = n
  <2> DEFINE f == FirstDistances[c]
  <2>1. f \in Nat /\ n \in Nat
    BY <1>2, <1>3
  <2> HIDE DEF f
  <2>2. (n - f) + f = n
    BY <2>1
  <2> QED
    BY <2>2 DEF f, r
<1>6. c \in Nat /\ e \in Nat
  <2>1. c \in 0..29 /\ e \in 0..13
    BY <1>1
  <2> HIDE DEF c, e
  <2> QED
    BY <2>1
<1>7. Distances = UNION {Of(d) : d \in Symbols(Tree(distances), Stream)}
  BY DEF Distances
<1> HIDE DEF c, e, r
<1>8. ASSUME NEW d \in Symbols(Tree(distances), Stream)
      PROVE  /\ \A m \in Of(d) : m.distance = n /\ IsStream(m.stream)
                                 /\ Position(m.stream) = q
             /\ input.damage = "none" => Of(d) # {}
  <2> DEFINE base == distance_codes_base[d.symbol + 1]
             extra == distance_codes_number_of_extra_bits[d.symbol + 1]
  <2>1. d.symbol = c /\ IsReadAfter(d, r, e, q)
    BY <1>1, <1>2, <1>4, <1>6, CodeAndNumberAreRead
  <2>2. base = FirstDistances[c] /\ extra = e /\ base + r = n
    <3>1. base = FirstDistances[c] /\ extra = e
      BY <1>3, <2>1
    <3> QED
      BY <1>1, <1>3, <1>5, <3>1
  <2>3. Of(d) = {[distance |-> base + Number(v.bits), stream |-> v.stream] :
                   v \in Values(d.stream, extra)}
    OBVIOUS
  <2> HIDE DEF base, extra, q, Of
  <2>4. ASSUME NEW m \in Of(d)
        PROVE  m.distance = n /\ IsStream(m.stream) /\ Position(m.stream) = q
    <3>1. PICK v \in Values(d.stream, e) :
            m = [distance |-> base + Number(v.bits), stream |-> v.stream]
      BY <2>2, <2>3
    <3>2. Number(v.bits) = r /\ IsStream(v.stream) /\ Position(v.stream) = q
      BY <2>1 DEF IsReadAfter
    <3> QED
      BY <2>2, <3>1, <3>2
  <2>5. ASSUME input.damage = "none" PROVE Of(d) # {}
    <3>1. PICK v : v \in Values(d.stream, extra)
      BY <2>1, <2>2, <2>5 DEF IsReadAfter
    <3>2. [distance |-> base + Number(v.bits), stream |-> v.stream] \in Of(d)
      BY <2>3, <3>1
    <3> QED
      BY <3>2
  <2> QED
    BY <2>4, <2>5
<1>9. input.damage = "none" => Symbols(Tree(distances), Stream) # {}
  <2>1. Comes(Position(Stream), Code(distances, c))
    <3> DEFINE x == Code(distances, c)
               y == LowFirst(r, e)
               p == Position(Stream)
    <3>1. x \in Seq(Bits) /\ y \in Seq(Bits) /\ p \in Nat
      BY <1>1, <1>2, <1>6, CodeIs, LowFirstBits, PositionIsNat
    <3>2. Comes(p, x \o y)
      BY <1>4
    <3> HIDE DEF x, y, p
    <3>3. Comes(p, x)
      BY <3>1, <3>2, PartsCome
    <3> QED
      BY <3>3 DEF x, p
  <2> QED
    BY <1>2, <1>6, <2>1, CodeIsRead
<1> HIDE DEF Of, q
<1>10. \A m \in Distances : m.distance = n /\ IsStream(m.stream) /\ Position(m.stream) = q
  BY <1>7, <1>8
<1>11. input.damage = "none" => Distances # {}
  BY <1>7, <1>8, <1>9
<1> QED
  BY <1>10, <1>11 DEF q

-----------------------------------------------------------------------------
(* The items of a block.                                                   *)

(* The codes that the items of a block are written with. *)
HasTrees(b) ==
  /\ AreCodes(LiteralSizes(b)) /\ HasCode(LiteralSizes(b), 256)
  /\ AreCodes(DistanceSizes(b))

(* An item goes in bits as a code, or as a size and a distance. *)
LEMMA ItemBitsAre ==
  ASSUME NEW literals, AreCodes(literals), NEW distances, AreCodes(distances),
         NEW text, NEW item, IsItem(text, literals, distances, item)
  PROVE  /\ ItemBits(literals, distances, item) \in Seq(Bits)
         /\ Len(item) = 1 =>
              /\ item[1] \in 0..255
              /\ HasCode(literals, item[1])
              /\ ItemBits(literals, distances, item) = Code(literals, item[1])
         /\ Len(item) # 1 =>
              /\ Len(item) = 2
              /\ IsMatchSize(literals, item[1])
              /\ IsMatchDistance(distances, item[2])
              /\ BitsOfSize(literals, item[1]) \in Seq(Bits)
              /\ BitsOfDistance(distances, item[2]) \in Seq(Bits)
              /\ ItemBits(literals, distances, item) =
                   BitsOfSize(literals, item[1]) \o BitsOfDistance(distances, item[2])
<1>1. CASE Len(item) = 1
  <2> DEFINE x == item[1]
  <2>1. x \in 0..255 /\ HasCode(literals, x)
    BY <1>1 DEF IsItem
  <2>2. ItemBits(literals, distances, item) = Code(literals, x)
    BY <1>1 DEF ItemBits
  <2> HIDE DEF x
  <2>3. x \in Nat
    BY <2>1
  <2>4. Code(literals, x) \in Seq(Bits)
    BY <2>1, <2>3, CodeIs
  <2> QED
    BY <1>1, <2>1, <2>2, <2>4 DEF x
<1>2. CASE Len(item) # 1
  <2> DEFINE x == item[1]
             y == item[2]
             v == BitsOfSize(literals, x)
             w == BitsOfDistance(distances, y)
  <2>1. /\ Len(item) = 2 /\ x \in 3..MaximumMatch /\ y \in 1..MaximumDistance
        /\ HasCode(literals, SizeCode(x)) /\ HasCode(distances, DistanceCode(y))
    BY <1>2, Zenon DEF IsItem
  <2>2. ItemBits(literals, distances, item) = v \o w
    BY <1>2 DEF ItemBits
  <2> HIDE DEF x, y
  <2>3. /\ x \in Nat /\ 3 <= x /\ x <= MaximumMatch
        /\ y \in Nat /\ 1 <= y /\ y <= MaximumDistance
    <3>1. MaximumMatch \in Nat /\ MaximumDistance \in Nat
      BY DEF MaximumMatch, MaximumDistance
    <3> QED
      BY <2>1, <3>1
  <2>4. IsMatchSize(literals, x) /\ IsMatchDistance(distances, y)
    BY <2>1, <2>3 DEF IsMatchSize, IsMatchDistance
  <2>5. v \in Seq(Bits)
    BY <2>4, SizeBitsAre
  <2>6. w \in Seq(Bits)
    BY <2>4, DistanceBitsAre
  <2> HIDE DEF v, w
  <2>7. v \o w \in Seq(Bits)
    BY <2>5, <2>6, ConcatenationOf
  <2> QED
    BY <1>2, <2>1, <2>2, <2>4, <2>5, <2>6, <2>7 DEF v, w, x, y
<1> QED
  BY <1>1, <1>2

(* The bits of the first items of a block. *)
ItemsUpTo(b) ==
  JoinedUpTo(AllItemBits(LiteralSizes(b), DistanceSizes(b), b.items), Len(b.items))

BitsOfItem(b, k) == ItemBits(LiteralSizes(b), DistanceSizes(b), b.items[k])

LEMMA ItemsAreJoined ==
  ASSUME NEW b, HasTrees(b), NEW f, NEW text, AreItemTexts(f, text, b)
  PROVE  LET n == Len(b.items)
             F == ItemsUpTo(b)
             e == Code(LiteralSizes(b), 256)
         IN  /\ n \in Nat
             /\ \A k \in 0..n : F[k] \in Seq(Bits)
             /\ F[0] = <<>>
             /\ \A k \in 1..n :
                  /\ BitsOfItem(b, k) \in Seq(Bits)
                  /\ Len(F[k]) = Len(F[k - 1]) + Len(BitsOfItem(b, k))
             /\ e \in Seq(Bits)
             /\ BlockItemsBits(b) = F[n] \o e
             /\ BlockItemsBits(b) \in Seq(Bits)
             /\ Len(BlockItemsBits(b)) = Len(F[n]) + Len(e)
<1> DEFINE n == Len(b.items)
           F == ItemsUpTo(b)
           l == LiteralSizes(b)
           d == DistanceSizes(b)
           g == AllItemBits(l, d, b.items)
           e == Code(l, 256)
<1>1. n \in Nat /\ \A k \in 1..n : IsItem(f[k - 1], l, d, b.items[k])
  BY DEF AreItemTexts
<1>2. AreCodes(l) /\ HasCode(l, 256) /\ AreCodes(d)
  BY DEF HasTrees
<1>3. e \in Seq(Bits)
  BY <1>2, CodeIs
<1>4. \A k \in 1..n : BitsOfItem(b, k) \in Seq(Bits)
  <2> TAKE k \in 1..n
  <2>1. IsItem(f[k - 1], l, d, b.items[k])
    BY <1>1
  <2> HIDE DEF l, d
  <2>2. ItemBits(l, d, b.items[k]) \in Seq(Bits)
    BY <1>2, <2>1, ItemBitsAre
  <2> QED
    BY <2>2 DEF BitsOfItem, l, d
<1>5. \A k \in 1..n : g[k] = BitsOfItem(b, k)
  BY DEF AllItemBits, BitsOfItem
<1>6. F = JoinedUpTo(g, n)
  BY DEF ItemsUpTo
<1>7. BlockItemsBits(b) = F[n] \o e
  BY DEF BlockItemsBits, ItemsBits, Joined, ItemsUpTo
<1> HIDE DEF n, l, d, g, e, F
<1>8. IsJoined(F, g, n, Bits)
  <2>1. \A k \in 1..n : g[k] \in Seq(Bits)
    BY <1>4, <1>5
  <2> QED
    BY <1>1, <1>6, <2>1, JoinedUpToIs
<1>9. HasParts(F, g, n, Bits)
  BY <1>1, <1>8, PartsOfJoined
<1>10. \A k \in 0..n : F[k] \in Seq(Bits)
  BY <1>9 DEF HasParts
<1>11. \A k \in 1..n : Len(F[k]) = Len(F[k - 1]) + Len(BitsOfItem(b, k))
  BY <1>5, <1>9 DEF HasParts
<1>12. F[0] = <<>>
  BY <1>8 DEF IsJoined
<1>13. F[n] \o e \in Seq(Bits) /\ Len(F[n] \o e) = Len(F[n]) + Len(e)
  <2> DEFINE x == F[n]
  <2>1. x \in Seq(Bits)
    BY <1>1, <1>10
  <2> HIDE DEF x
  <2> QED
    BY <1>3, <2>1, ConcatenationOf DEF x
<1> QED
  BY <1>1, <1>3, <1>4, <1>7, <1>10, <1>11, <1>12, <1>13 DEF n, l, e, F

(* The bits of a block come item by item. *)
ItemsCome(b, q) ==
  /\ \A k \in 1..Len(b.items) : Comes(q + Len(ItemsUpTo(b)[k - 1]), BitsOfItem(b, k))
  /\ Comes(q + Len(ItemsUpTo(b)[Len(b.items)]), Code(LiteralSizes(b), 256))

LEMMA ItemsOfBlockCome ==
  ASSUME data \in Seq(Bytes), NEW b, HasTrees(b), NEW f, NEW text,
         AreItemTexts(f, text, b), NEW q \in Nat, Comes(q, BlockItemsBits(b))
  PROVE  ItemsCome(b, q)
<1> DEFINE n == Len(b.items)
           F == ItemsUpTo(b)
           l == LiteralSizes(b)
           d == DistanceSizes(b)
           g == AllItemBits(l, d, b.items)
           e == Code(l, 256)
           x == F[n]
<1>1. /\ n \in Nat /\ \A k \in 0..n : F[k] \in Seq(Bits)
      /\ \A k \in 1..n : BitsOfItem(b, k) \in Seq(Bits)
      /\ e \in Seq(Bits) /\ BlockItemsBits(b) = F[n] \o e
  BY ItemsAreJoined
<1>2. \A k \in 1..n : g[k] = BitsOfItem(b, k)
  BY DEF AllItemBits, BitsOfItem
<1>3. F = JoinedUpTo(g, n)
  BY DEF ItemsUpTo
<1> HIDE DEF n, l, d, g, e, F
<1>4. IsJoined(F, g, n, Bits)
  <2>1. \A k \in 1..n : g[k] \in Seq(Bits)
    BY <1>1, <1>2
  <2> QED
    BY <1>1, <1>3, <2>1, JoinedUpToIs
<1>5. x \in Seq(Bits)
  BY <1>1
<1>6. Comes(q, x) /\ Comes(q + Len(x), e)
  <2> HIDE DEF x
  <2>1. Comes(q, x \o e)
    BY <1>1 DEF x
  <2> QED
    BY <1>1, <1>5, <2>1, PartsCome
<1>7. \A k \in 1..n : Comes(q + Len(F[k - 1]), BitsOfItem(b, k))
  <2> TAKE k \in 1..n
  <2>1. Comes(q, F[n])
    BY <1>6
  <2>2. Comes(q + Len(F[k - 1]), g[k])
    BY <1>1, <1>4, <2>1, JoinedComes
  <2> QED
    BY <1>2, <2>2
<1> QED
  BY <1>6, <1>7 DEF ItemsCome, n, F, l, e

-----------------------------------------------------------------------------
(* The sizes of the codes of a dynamic block.                              *)

(* The code sizes that an item stands for. *)
LEMMA SizeItemIs ==
  ASSUME NEW code_sizes \in Seq(0..15), NEW codes, NEW item,
         IsSizeItem(code_sizes, codes, item)
  PROVE  /\ HasCode(codes, item[1])
         /\ SizeItem(code_sizes, item) \in Seq(0..15)
         /\ Len(SizeItem(code_sizes, item)) \in Nat \ {0}
         /\ Len(item) = 1 => /\ item[1] \in 0..15
                             /\ SizeItem(code_sizes, item) = <<item[1]>>
         /\ Len(item) # 1 =>
              /\ item[1] \in 16..18
              /\ item[2] \in Nat \ {0}
              /\ item[1] = 16 => item[2] \in 3..6 /\ code_sizes # <<>>
              /\ item[1] = 17 => item[2] \in 3..10
              /\ item[1] = 18 => item[2] \in 11..138
              /\ SizeItem(code_sizes, item) =
                   [k \in 1..item[2] |->
                      IF item[1] = 16 THEN code_sizes[Len(code_sizes)] ELSE 0]
<1>1. HasCode(codes, item[1])
  BY DEF IsSizeItem
<1>2. CASE Len(item) = 1
  <2> DEFINE x == item[1]
             w == <<x>>
  <2>1. x \in 0..15
    BY <1>2 DEF IsSizeItem
  <2>2. SizeItem(code_sizes, item) = w
    BY <1>2 DEF SizeItem
  <2> HIDE DEF x
  <2>3. w \in Seq(0..15) /\ Len(w) = 1
    BY <2>1
  <2> QED
    BY <1>1, <1>2, <2>1, <2>2, <2>3 DEF x
<1>3. CASE Len(item) # 1
  <2> DEFINE x == item[1]
             n == item[2]
             size == IF x = 16 THEN code_sizes[Len(code_sizes)] ELSE 0
             w == [k \in 1..n |-> size]
  <2>1. \/ x = 16 /\ n \in 3..6 /\ Len(code_sizes) > 0
        \/ x = 17 /\ n \in 3..10
        \/ x = 18 /\ n \in 11..138
    BY <1>3, Zenon DEF IsSizeItem
  <2>2. SizeItem(code_sizes, item) = w
    BY <1>3 DEF SizeItem
  <2> HIDE DEF x, n
  <2>3. n \in Nat \ {0} /\ x \in 16..18
    <3>1. /\ \A m \in 3..6 : m \in Nat \ {0}
          /\ \A m \in 3..10 : m \in Nat \ {0}
          /\ \A m \in 11..138 : m \in Nat \ {0}
      OBVIOUS
    <3>2. n \in Nat \ {0}
      BY <2>1, <3>1, Zenon
    <3>3. x = 16 \/ x = 17 \/ x = 18
      BY <2>1, Zenon
    <3> QED
      BY <3>2, <3>3
  <2>4. size \in 0..15
    <3>1. CASE x = 16
      <4>1. Len(code_sizes) \in 1..Len(code_sizes)
        BY <2>1, <3>1
      <4>2. code_sizes[Len(code_sizes)] \in 0..15
        BY <4>1
      <4> QED
        BY <3>1, <4>2
    <3>2. CASE x # 16
      BY <3>2
    <3> QED
      BY <3>1, <3>2
  <2> HIDE DEF size
  <2>5. w \in [1..n -> 0..15]
    BY <2>4
  <2> HIDE DEF w
  <2>6. w \in Seq(0..15) /\ Len(w) = n
    BY <2>3, <2>5, SequenceOf
  <2>7. /\ x = 16 => n \in 3..6 /\ code_sizes # <<>>
        /\ x = 17 => n \in 3..10
        /\ x = 18 => n \in 11..138
    BY <2>1
  <2> QED
    BY <1>1, <1>3, <2>2, <2>3, <2>6, <2>7 DEF w, x, n, size
<1> QED
  BY <1>2, <1>3

(* The sizes after each item, of which each adds some. *)
AreSizesUpTo(f, b) ==
  /\ Len(b.code_sizes) \in Nat
  /\ f \in [0..Len(b.code_sizes) -> Seq(0..15)]
  /\ f[0] = <<>>
  /\ \A k \in 1..Len(b.code_sizes) :
       /\ f[k] = f[k - 1] \o SizeItem(f[k - 1], b.code_sizes[k])
       /\ IsSizeItem(f[k - 1], b.codes, b.code_sizes[k])
       /\ Len(f[k]) = Len(f[k - 1]) + Len(SizeItem(f[k - 1], b.code_sizes[k]))
       /\ Len(f[k - 1]) < Len(f[k])

LEMMA SizesUpToAre ==
  ASSUME NEW b, AreTrees(b)
  PROVE  AreSizesUpTo(SizesUpTo(b.code_sizes), b)
<1> DEFINE items == b.code_sizes
           n == Len(items)
           f == SizesUpTo(items)
           T == {k \in 0..n : f[k] \in Seq(0..15)}
<1>1. n \in Nat /\ \A k \in 1..n : IsSizeItem(f[k - 1], b.codes, items[k])
  BY DEF AreTrees
<1> HIDE DEF items
<1>2. /\ f = [k \in 0..n |-> f[k]] /\ f[0] = <<>>
      /\ \A k \in 1..n : f[k] = f[k - 1] \o SizeItem(f[k - 1], items[k])
  BY <1>1, SizesByRecursion
<1> HIDE DEF f, n
<1>3. ASSUME NEW k \in 1..n, f[k - 1] \in Seq(0..15)
      PROVE  /\ f[k] \in Seq(0..15)
             /\ Len(f[k]) = Len(f[k - 1]) + Len(SizeItem(f[k - 1], items[k]))
             /\ Len(f[k - 1]) < Len(f[k])
  <2> DEFINE s == f[k - 1]
             t == SizeItem(s, items[k])
  <2>1. IsSizeItem(s, b.codes, items[k]) /\ f[k] = s \o t /\ s \in Seq(0..15)
    BY <1>1, <1>2, <1>3
  <2> HIDE DEF s
  <2>2. t \in Seq(0..15) /\ Len(t) \in Nat \ {0}
    BY <2>1, SizeItemIs
  <2> HIDE DEF t
  <2>3. s \o t \in Seq(0..15) /\ Len(s \o t) = Len(s) + Len(t)
    BY <2>1, <2>2, ConcatenationOf
  <2>4. Len(s) \in Nat
    BY <2>1
  <2>5. Len(s) < Len(f[k])
    BY <2>1, <2>2, <2>3, <2>4
  <2> QED
    BY <2>1, <2>3, <2>5 DEF s, t
<1>4. \A k \in 0..n : k \in T
  <2>1. 0 \in T
    <3>1. <<>> \in Seq(0..15) /\ 0 \in 0..n
      BY <1>1
    <3>2. f[0] \in Seq(0..15)
      BY <1>2, <3>1, Zenon
    <3> QED
      BY <3>1, <3>2
  <2>2. ASSUME NEW k \in 0..(n - 1), k \in T PROVE k + 1 \in T
    <3>1. k + 1 \in 1..n /\ k + 1 \in 0..n /\ (k + 1) - 1 = k
      BY <1>1
    <3>2. f[(k + 1) - 1] \in Seq(0..15)
      BY <2>2, <3>1
    <3>3. f[k + 1] \in Seq(0..15)
      BY <1>3, <3>1, <3>2
    <3> QED
      BY <3>1, <3>3
  <2>3. 0 \in Int /\ n \in Int
    BY <1>1
  <2> HIDE DEF T
  <2> QED
    BY <2>1, <2>2, <2>3, UpTo
<1>5. f \in [0..n -> Seq(0..15)]
  BY <1>2, <1>4
<1>6. \A k \in 1..n : f[k - 1] \in Seq(0..15)
  <2> TAKE k \in 1..n
  <2>1. k - 1 \in 0..n
    BY <1>1
  <2> QED
    BY <1>5, <2>1
<1> QED
  BY <1>1, <1>2, <1>3, <1>5, <1>6 DEF AreSizesUpTo, f, n, items

LEMMA SizesGrow ==
  ASSUME NEW b, NEW f, AreSizesUpTo(f, b), NEW k \in 0..Len(b.code_sizes)
  PROVE  /\ f[k] \in Seq(0..15)
         /\ Len(f[k]) <= Len(f[Len(b.code_sizes)])
         /\ k # Len(b.code_sizes) => Len(f[k]) < Len(f[Len(b.code_sizes)])
<1> DEFINE n == Len(b.code_sizes)
           T == {m \in 0..n : Len(f[k]) <= Len(f[m]) /\ (m # k => Len(f[k]) < Len(f[m]))}
<1>1. /\ n \in Nat /\ \A m \in 0..n : f[m] \in Seq(0..15)
      /\ \A m \in 1..n : Len(f[m - 1]) < Len(f[m])
  BY DEF AreSizesUpTo
<1> HIDE DEF n
<1>0. \A m \in 0..n : Len(f[m]) \in Nat
  BY <1>1
<1>2. k \in T
  BY <1>0 DEF n
<1>3. ASSUME NEW m \in k..(n - 1), m \in T PROVE m + 1 \in T
  <2>0. k \in 0..n
    BY DEF n
  <2>1. m + 1 \in 1..n /\ m + 1 \in 0..n /\ m \in 0..n /\ (m + 1) - 1 = m
    BY <1>1, <2>0
  <2>2. Len(f[m]) < Len(f[m + 1])
    BY <1>1, <2>1
  <2>3. Len(f[k]) <= Len(f[m])
    BY <1>3
  <2>4. Len(f[k]) < Len(f[m + 1])
    BY <1>0, <2>0, <2>1, <2>2, <2>3
  <2> QED
    BY <1>0, <2>0, <2>1, <2>4
<1>4. \A m \in k..n : m \in T
  <2>1. k \in Int /\ n \in Int
    BY <1>1 DEF n
  <2> HIDE DEF T
  <2> QED
    BY <1>2, <1>3, <2>1, UpTo
<1>5. n \in T
  BY <1>1, <1>4 DEF n
<1> QED
  BY <1>1, <1>5 DEF n

(* What follows the code of a repetition says how often. *)
LEMMA RepeatBitsAre ==
  ASSUME NEW item, item[1] \in 16..18,
         item[1] = 16 => item[2] \in 3..6,
         item[1] = 17 => item[2] \in 3..10,
         item[1] = 18 => item[2] \in 11..138
  PROVE  LET r == Repeat(item[1])
         IN  /\ r.bits \in Nat /\ r.times \in Nat
             /\ item[2] - r.times \in Nat
             /\ item[2] - r.times < 2 ^ r.bits
             /\ RepeatBits(item) = LowFirst(item[2] - r.times, r.bits)
<1> DEFINE x == item[1]
           n == item[2]
<1> HIDE DEF x, n
<1>1. x = 16 \/ x = 17 \/ x = 18
  BY DEF x
<1>2. CASE x = 16
  <2>1. Repeat(x) = [bits |-> 2, times |-> 3]
    BY <1>2 DEF Repeat
  <2>2. RepeatBits(item) = LowFirst(n - 3, 2)
    BY <1>2 DEF RepeatBits, x, n
  <2>3. n \in 3..6
    BY <1>2 DEF x, n
  <2>4. n - 3 \in Nat /\ n - 3 < 2 ^ 2
    BY <2>3
  <2> QED
    BY <2>1, <2>2, <2>4 DEF x, n
<1>3. CASE x = 17
  <2>1. Repeat(x) = [bits |-> 3, times |-> 3]
    BY <1>3 DEF Repeat
  <2>2. RepeatBits(item) = LowFirst(n - 3, 3)
    BY <1>3 DEF RepeatBits, x, n
  <2>3. n \in 3..10
    BY <1>3 DEF x, n
  <2>4. n - 3 \in Nat /\ n - 3 < 2 ^ 3
    BY <2>3
  <2> QED
    BY <2>1, <2>2, <2>4 DEF x, n
<1>4. CASE x = 18
  <2>1. Repeat(x) = [bits |-> 7, times |-> 11]
    BY <1>4 DEF Repeat
  <2>2. RepeatBits(item) = LowFirst(n - 11, 7)
    BY <1>4 DEF RepeatBits, x, n
  <2>3. n \in 11..138
    BY <1>4 DEF x, n
  <2>4. n - 11 \in Nat /\ n - 11 < 2 ^ 7
    BY <2>3
  <2> QED
    BY <2>1, <2>2, <2>4 DEF x, n
<1> QED
  BY <1>1, <1>2, <1>3, <1>4

-----------------------------------------------------------------------------
(* The sizes of codes, as they are written.                                *)

BitsOfSizes(b, k) == SizeItemBits(b.codes, b.code_sizes[k])

LEMMA SizeItemBitsAre ==
  ASSUME NEW code_sizes \in Seq(0..15), NEW codes, AreCodes(codes), NEW item,
         IsSizeItem(code_sizes, codes, item)
  PROVE  /\ SizeItemBits(codes, item) \in Seq(Bits)
         /\ item[1] \in Nat
         /\ Len(item) = 1 => SizeItemBits(codes, item) = Code(codes, item[1])
         /\ Len(item) # 1 =>
              SizeItemBits(codes, item) =
                Code(codes, item[1])
                  \o LowFirst(item[2] - Repeat(item[1]).times, Repeat(item[1]).bits)
<1> DEFINE x == item[1]
           c == Code(codes, x)
<1>1. HasCode(codes, x)
  BY SizeItemIs
<1>2. x \in Nat
  <2>1. CASE Len(item) = 1
    <3>1. x \in 0..15
      BY <2>1, SizeItemIs
    <3> QED
      BY <3>1
  <2>2. CASE Len(item) # 1
    <3>1. x \in 16..18
      BY <2>2, SizeItemIs
    <3> QED
      BY <3>1
  <2> QED
    BY <2>1, <2>2
<1>3. c \in Seq(Bits)
  BY <1>1, <1>2, CodeIs
<1>4. CASE Len(item) = 1
  <2>1. SizeItemBits(codes, item) = c \o <<>>
    BY <1>4 DEF SizeItemBits
  <2> HIDE DEF c
  <2>2. c \o <<>> = c
    BY <1>3
  <2> QED
    BY <1>2, <1>3, <1>4, <2>1, <2>2 DEF c
<1>5. CASE Len(item) # 1
  <2> DEFINE r == Repeat(x)
             n == item[2] - r.times
             w == LowFirst(n, r.bits)
  <2>1. /\ x \in 16..18
        /\ x = 16 => item[2] \in 3..6
        /\ x = 17 => item[2] \in 3..10
        /\ x = 18 => item[2] \in 11..138
    BY <1>5, SizeItemIs
  <2>2. /\ r.bits \in Nat /\ n \in Nat /\ RepeatBits(item) = w
    BY <2>1, RepeatBitsAre
  <2>3. SizeItemBits(codes, item) = c \o w
    BY <1>5, <2>2 DEF SizeItemBits
  <2>4. w \in Seq(Bits)
    <3> HIDE DEF n, r
    <3> QED
      BY <2>2, LowFirstBits
  <2> HIDE DEF c, w
  <2>5. c \o w \in Seq(Bits)
    BY <1>3, <2>4, ConcatenationOf
  <2> QED
    BY <1>2, <1>5, <2>3, <2>5 DEF c, w
<1> QED
  BY <1>4, <1>5

(* The code sizes of an item that comes are read. *)
IsRun(r, run, q) == r.run = run /\ IsStream(r.stream) /\ Position(r.stream) = q

LEMMA RunIsRead ==
  ASSUME data \in Seq(Bytes), IsStream(Stream), NEW codes, AreCodes(codes),
         codes_tree = Tree(codes), code_size_array \in Seq(0..15),
         NEW item, IsSizeItem(code_size_array, codes, item),
         Comes(Position(Stream), SizeItemBits(codes, item)),
         NEW total, total = number_of_code_sizes,
         Len(code_size_array) + Len(SizeItem(code_size_array, item)) <= total
  PROVE  /\ \A r \in Runs :
              IsRun(r, SizeItem(code_size_array, item),
                    Position(Stream) + Len(SizeItemBits(codes, item)))
         /\ input.damage = "none" => Runs # {}
<1> DEFINE x == item[1]
           run == SizeItem(code_size_array, item)
           p == Position(Stream)
           q == p + Len(SizeItemBits(codes, item))
           ds == Symbols(Tree(codes), Stream)
           size == IF x = 16 THEN code_size_array[Len(code_size_array)] ELSE 0
           Of(d) ==
             IF d.symbol < 16 THEN {[run |-> <<d.symbol>>, stream |-> d.stream]}
             ELSE IF d.symbol = 16 /\ code_size_array = <<>> THEN {}
             ELSE LET z == IF d.symbol = 16
                         THEN code_size_array[Len(code_size_array)] ELSE 0
             IN  {[run |-> [k \in 1..(Repeat(d.symbol).times + Number(v.bits))
                              |-> z],
                   stream |-> v.stream] :
                    v \in Values(d.stream, Repeat(d.symbol).bits)}
<1>1. HasCode(codes, x) /\ x \in Nat
  BY SizeItemIs, SizeItemBitsAre
<1>2. Runs = {r \in UNION {Of(d) : d \in ds} : Len(code_size_array) + Len(r.run) <= total}
  BY DEF Runs
<1>3. /\ \A d \in ds : \A r \in Of(d) : IsRun(r, run, q)
      /\ input.damage = "none" => \E d \in ds : Of(d) # {}
  <2>1. CASE Len(item) = 1
    <3>1. /\ x \in 0..15 /\ run = <<x>>
          /\ SizeItemBits(codes, item) = Code(codes, x)
      BY <2>1, SizeItemIs, SizeItemBitsAre
    <3>2. /\ \A d \in ds : d.symbol = x /\ IsStream(d.stream) /\ Position(d.stream) = q
          /\ input.damage = "none" => ds # {}
      <4>1. Comes(p, Code(codes, x))
        BY <3>1
      <4>2. q = p + Len(Code(codes, x))
        BY <3>1
      <4> HIDE DEF q, x
      <4> QED
        BY <1>1, <4>1, <4>2, CodeIsRead
    <3>3. \A d \in ds : Of(d) = {[run |-> <<x>>, stream |-> d.stream]}
      <4> TAKE d \in ds
      <4>1. d.symbol = x /\ x < 16
        BY <3>1, <3>2
      <4> HIDE DEF x, ds
      <4> QED
        BY <4>1
    <3>0. run = <<x>>
      BY <3>1
    <3> HIDE DEF Of, ds, x, run, q
    <3>4. ASSUME NEW d \in ds, NEW r \in Of(d) PROVE IsRun(r, run, q)
      <4>1. r = [run |-> <<x>>, stream |-> d.stream]
        BY <3>3
      <4>2. r.run = <<x>> /\ r.stream = d.stream
        BY <4>1
      <4>3. IsStream(d.stream) /\ Position(d.stream) = q
        BY <3>2
      <4> QED
        BY <3>0, <4>2, <4>3 DEF IsRun
    <3>5. ASSUME input.damage = "none" PROVE \E d \in ds : Of(d) # {}
      BY <3>2, <3>3, <3>5
    <3> QED
      BY <3>4, <3>5
  <2>2. CASE Len(item) # 1
    <3> DEFINE R == Repeat(x)
               n == item[2] - R.times
    <3>1. /\ x \in 16..18
          /\ item[2] \in Nat \ {0}
          /\ x = 16 => item[2] \in 3..6 /\ code_size_array # <<>>
          /\ x = 17 => item[2] \in 3..10
          /\ x = 18 => item[2] \in 11..138
          /\ run = [k \in 1..item[2] |-> size]
      BY <2>2, SizeItemIs
    <3>2. /\ R.bits \in Nat /\ R.times \in Nat /\ n \in Nat /\ n < 2 ^ R.bits
      BY <3>1, RepeatBitsAre
    <3>3. SizeItemBits(codes, item) = Code(codes, x) \o LowFirst(n, R.bits)
      BY <2>2, SizeItemBitsAre
    <3>4. Comes(p, Code(codes, x) \o LowFirst(n, R.bits))
      BY <3>3
    <3>5. q = p + Len(Code(codes, x) \o LowFirst(n, R.bits))
      BY <3>3
    <3>6. R.times + n = item[2]
      <4> DEFINE t == R.times
                 m == item[2]
      <4>1. t \in Nat /\ m \in Nat
        BY <3>1, <3>2
      <4> HIDE DEF t, m
      <4>2. t + (m - t) = m
        BY <4>1
      <4> QED
        BY <4>2 DEF t, m
    <3> HIDE DEF q, n
    <3>7. \A d \in ds : d.symbol = x /\ IsReadAfter(d, n, R.bits, q)
      <4> HIDE DEF R, x
      <4> QED
        BY <1>1, <3>2, <3>4, <3>5, CodeAndNumberAreRead
    <3>8. \A d \in ds : Of(d) =
            {[run |-> [k \in 1..(R.times + Number(v.bits)) |-> size],
              stream |-> v.stream] : v \in Values(d.stream, R.bits)}
      <4> TAKE d \in ds
      <4>1. d.symbol = x
        BY <3>7
      <4>2. ~(x < 16)
        <5>1. \A m \in 16..18 : ~(m < 16)
          OBVIOUS
        <5> QED
          BY <3>1, <5>1, Zenon
      <4>3. ~(x = 16 /\ code_size_array = <<>>)
        BY <3>1, Zenon
      <4> HIDE DEF x, ds
      <4> QED
        BY <4>1, <4>2, <4>3
    <3>9. input.damage = "none" => ds # {}
      <4> DEFINE u == Code(codes, x)
                 w == LowFirst(n, R.bits)
      <4>1. u \in Seq(Bits) /\ w \in Seq(Bits) /\ p \in Nat
        <5>1. u \in Seq(Bits)
          BY <1>1, CodeIs
        <5>2. w \in Seq(Bits)
          <6> HIDE DEF R
          <6> QED
            BY <3>2, LowFirstBits
        <5> QED
          BY <5>1, <5>2, PositionIsNat
      <4>2. Comes(p, u)
        <5> HIDE DEF u, w, p
        <5>1. Comes(p, u \o w)
          BY <3>4 DEF u, w, p
        <5> QED
          BY <4>1, <5>1, PartsCome
      <4> HIDE DEF x
      <4> QED
        BY <1>1, <4>2, CodeIsRead
    <3> HIDE DEF Of, ds, x, size, q, R
    <3>10. ASSUME NEW d \in ds, NEW r \in Of(d) PROVE IsRun(r, run, q)
      <4>1. PICK v \in Values(d.stream, R.bits) :
              r = [run |-> [k \in 1..(R.times + Number(v.bits)) |-> size],
                   stream |-> v.stream]
        BY <3>8
      <4>2. Number(v.bits) = n /\ IsStream(v.stream) /\ Position(v.stream) = q
        BY <3>7 DEF IsReadAfter
      <4>3. r.run = [k \in 1..item[2] |-> size]
        BY <3>6, <4>1, <4>2
      <4> QED
        BY <3>1, <4>1, <4>2, <4>3 DEF IsRun
    <3>11. ASSUME input.damage = "none" PROVE \E d \in ds : Of(d) # {}
      <4>1. PICK d : d \in ds
        BY <3>9, <3>11
      <4>2. PICK v : v \in Values(d.stream, R.bits)
        BY <3>7, <3>11, <4>1 DEF IsReadAfter
      <4>3. [run |-> [k \in 1..(R.times + Number(v.bits)) |-> size],
             stream |-> v.stream] \in Of(d)
        BY <3>8, <4>1, <4>2
      <4> QED
        BY <4>1, <4>3
    <3> QED
      BY <3>10, <3>11
  <2> QED
    BY <2>1, <2>2
<1> HIDE DEF Of, ds, q, run
<1>4. \A r \in Runs : IsRun(r, run, q)
  BY <1>2, <1>3
<1>5. ASSUME input.damage = "none" PROVE Runs # {}
  <2>1. PICK d \in ds : Of(d) # {}
    BY <1>3, <1>5
  <2>2. PICK r : r \in Of(d)
    BY <2>1
  <2>3. r.run = run
    BY <1>3, <2>2 DEF IsRun
  <2>4. Len(code_size_array) + Len(run) <= total
    BY DEF run
  <2>5. r \in Runs
    BY <1>2, <2>2, <2>3, <2>4
  <2> QED
    BY <2>5
<1> QED
  BY <1>4, <1>5 DEF run, q

-----------------------------------------------------------------------------
(* What a dynamic block starts with.                                       *)

LEMMA SubSeqIs ==
  ASSUME NEW S, NEW x \in Seq(S), NEW y \in Seq(S), NEW m \in Nat, NEW n \in Nat,
         1 <= m, n <= Len(x), Len(y) = n - m + 1,
         \A i \in 1..Len(y) : x[m + i - 1] = y[i]
  PROVE  SubSeq(x, m, n) = y
<1> DEFINE z == SubSeq(x, m, n)
           l == Len(y)
<1>1. l \in Nat /\ l = n - m + 1 /\ m <= n + 1
  <2>1. l \in Nat /\ l = n - m + 1
    OBVIOUS
  <2> HIDE DEF l
  <2> QED
    BY <2>1
<1>2. z \in Seq(S) /\ Len(z) = l /\ \A i \in 1..l : z[i] = x[m + i - 1]
  BY <1>1, SubSeqOf
<1> HIDE DEF z
<1>3. \A i \in 1..l : z[i] = y[i]
  BY <1>2
<1> HIDE DEF l
<1>4. z = y
  BY <1>2, <1>3 DEF l
<1> QED
  BY <1>4 DEF z

(* Three sequences, one after the other. *)
IsOfThree(x, a, b, c, S) ==
  /\ x \in Seq(S)
  /\ Len(x) = Len(a) + Len(b) + Len(c)
  /\ SubSeq(x, 1, Len(a)) = a
  /\ SubSeq(x, Len(a) + 1, Len(a) + Len(b)) = b
  /\ SubSeq(x, Len(a) + Len(b) + 1, Len(a) + Len(b) + Len(c)) = c

LEMMA ThreeParts ==
  ASSUME NEW S, NEW a \in Seq(S), NEW b \in Seq(S), NEW c \in Seq(S)
  PROVE  IsOfThree((a \o b) \o c, a, b, c, S)
<1> DEFINE y == a \o b
           x == y \o c
           l == Len(a)
           m == Len(b)
           n == Len(c)
<1>1. /\ y \in Seq(S) /\ Len(y) = l + m
      /\ \A i \in 1..l : y[i] = a[i]
      /\ \A i \in (l + 1)..(l + m) : y[i] = b[i - l]
  BY ConcatenationOf
<1> HIDE DEF y
<1>2. /\ x \in Seq(S) /\ Len(x) = Len(y) + n
      /\ \A i \in 1..Len(y) : x[i] = y[i]
      /\ \A i \in (Len(y) + 1)..(Len(y) + n) : x[i] = c[i - Len(y)]
  <2>1. y \in Seq(S)
    BY <1>1
  <2> QED
    BY <2>1, ConcatenationOf
<1>3. l \in Nat /\ m \in Nat /\ n \in Nat
  OBVIOUS
<1> HIDE DEF x, l, m, n
<1>4. Len(x) = l + m + n
  BY <1>1, <1>2, <1>3
<1>5. \A i \in 1..l : x[1 + i - 1] = a[i]
  <2> TAKE i \in 1..l
  <2>1. 1 + i - 1 = i /\ i \in 1..(l + m)
    BY <1>3
  <2> QED
    BY <1>1, <1>2, <2>1
<1>6. \A i \in 1..m : x[(l + 1) + i - 1] = b[i]
  <2> TAKE i \in 1..m
  <2>1. (l + 1) + i - 1 = l + i /\ l + i \in (l + 1)..(l + m) /\ l + i \in 1..(l + m)
        /\ (l + i) - l = i
    BY <1>3
  <2> QED
    BY <1>1, <1>2, <2>1
<1>7. \A i \in 1..n : x[(l + m + 1) + i - 1] = c[i]
  <2> TAKE i \in 1..n
  <2>1. (l + m + 1) + i - 1 = l + m + i
        /\ l + m + i \in ((l + m) + 1)..((l + m) + n)
        /\ (l + m + i) - (l + m) = i
    BY <1>3
  <2> QED
    BY <1>1, <1>2, <2>1
<1>8. SubSeq(x, 1, l) = a
  <2>1. 1 \in Nat /\ 1 <= 1 /\ l <= Len(x) /\ Len(a) = l - 1 + 1 /\ Len(a) = l
    BY <1>3, <1>4 DEF l
  <2> QED
    BY <1>2, <1>3, <1>5, <2>1, SubSeqIs
<1>9. SubSeq(x, l + 1, l + m) = b
  <2> DEFINE p == l + 1
             q == l + m
  <2>1. p \in Nat /\ q \in Nat /\ 1 <= p /\ q <= Len(x) /\ Len(b) = q - p + 1
        /\ Len(b) = m
    BY <1>3, <1>4 DEF m
  <2>2. \A i \in 1..m : x[p + i - 1] = b[i]
    BY <1>6
  <2> HIDE DEF p, q
  <2>3. SubSeq(x, p, q) = b
    BY <1>2, <2>1, <2>2, SubSeqIs
  <2> QED
    BY <2>3 DEF p, q
<1>10. SubSeq(x, l + m + 1, l + m + n) = c
  <2> DEFINE p == l + m + 1
             q == l + m + n
  <2>1. p \in Nat /\ q \in Nat /\ 1 <= p /\ q <= Len(x) /\ Len(c) = q - p + 1
        /\ Len(c) = n
    BY <1>3, <1>4 DEF n
  <2>2. \A i \in 1..n : x[p + i - 1] = c[i]
    BY <1>7
  <2> HIDE DEF p, q
  <2>3. SubSeq(x, p, q) = c
    BY <1>2, <2>1, <2>2, SubSeqIs
  <2> QED
    BY <2>3 DEF p, q
<1> QED
  BY <1>2, <1>4, <1>8, <1>9, <1>10 DEF x, y, l, m, n, IsOfThree

(* Codes are written with sizes, three bits for each. *)
CodeSize(b, k) == b.codes[Order[k] + 1]

LEMMA PlacesAreInOrder ==
  /\ \A k \in 1..19 : Order[k] \in 0..18
  /\ \A s \in 0..18 : code_size_index[s] \in 1..19 /\ Order[code_size_index[s]] = s
<1>1. \A k \in 1..19 : Order[k] \in 0..18
  BY DEF Order
<1>2. code_sizes_sequence = Order
  BY DEF code_sizes_sequence, Order
<1>3. \A s \in 0..18 : \E k \in 1..19 : Order[k] = s
  <2> TAKE s \in 0..18
  <2>1. /\ Order[1] = 16 /\ Order[2] = 17 /\ Order[3] = 18 /\ Order[4] = 0
        /\ Order[5] = 8 /\ Order[6] = 7 /\ Order[7] = 9 /\ Order[8] = 6
        /\ Order[9] = 10 /\ Order[10] = 5 /\ Order[11] = 11 /\ Order[12] = 4
        /\ Order[13] = 12 /\ Order[14] = 3 /\ Order[15] = 13 /\ Order[16] = 2
        /\ Order[17] = 14 /\ Order[18] = 1 /\ Order[19] = 15
    BY DEF Order
  <2> HIDE DEF Order
  <2>2. \/ s = 0 \/ s = 1 \/ s = 2 \/ s = 3 \/ s = 4 \/ s = 5 \/ s = 6 \/ s = 7
        \/ s = 8 \/ s = 9 \/ s = 10 \/ s = 11 \/ s = 12 \/ s = 13 \/ s = 14
        \/ s = 15 \/ s = 16 \/ s = 17 \/ s = 18
    OBVIOUS
  <2>3. /\ 1 \in 1..19 /\ 2 \in 1..19 /\ 3 \in 1..19 /\ 4 \in 1..19 /\ 5 \in 1..19
        /\ 6 \in 1..19 /\ 7 \in 1..19 /\ 8 \in 1..19 /\ 9 \in 1..19 /\ 10 \in 1..19
        /\ 11 \in 1..19 /\ 12 \in 1..19 /\ 13 \in 1..19 /\ 14 \in 1..19
        /\ 15 \in 1..19 /\ 16 \in 1..19 /\ 17 \in 1..19 /\ 18 \in 1..19
        /\ 19 \in 1..19
    OBVIOUS
  <2> QED
    BY <2>1, <2>2, <2>3, ZenonT(60)
<1>4. ASSUME NEW s \in 0..18
      PROVE  code_size_index[s] \in 1..19 /\ Order[code_size_index[s]] = s
  <2>1. code_size_index[s] = CHOOSE k \in 1..19 : Order[k] = s
    BY <1>2 DEF code_size_index
  <2> QED
    BY <1>3, <2>1
<1> QED
  BY <1>1, <1>4

LEMMA CodesBitsAre ==
  ASSUME NEW b, AreTrees(b)
  PROVE  LET x == Joined(CodesBits(b), b.used)
         IN  /\ x \in Seq(Bits)
             /\ Len(x) = 3 * b.used
             /\ \A k \in 1..b.used :
                  SubSeq(x, (3 * k) - 2, 3 * k) = LowFirst(CodeSize(b, k), 3)
<1> DEFINE u == b.used
           g == CodesBits(b)
           F == JoinedUpTo(g, u)
<1>1. u \in 4..19 /\ b.codes \in [1..19 -> 0..7]
  BY DEF AreTrees
<1>2. Joined(g, u) = F[u]
  BY DEF Joined
<1>3. \A k \in 1..u : g[k] = LowFirst(CodeSize(b, k), 3)
  BY DEF CodesBits, CodeSize
<1> HIDE DEF u, g, F
<1>4. u \in Nat /\ u <= 19
  BY <1>1
<1>5. \A k \in 1..u : CodeSize(b, k) \in 0..7
  <2> TAKE k \in 1..u
  <2>1. k \in 1..19
    BY <1>4
  <2>2. Order[k] \in 0..18
    BY <2>1, PlacesAreInOrder
  <2> DEFINE o == Order[k]
  <2> HIDE DEF o
  <2>3. o + 1 \in 1..19
    BY <2>2 DEF o
  <2>4. b.codes[o + 1] \in 0..7
    BY <1>1, <2>3
  <2> QED
    BY <2>4 DEF CodeSize, o
<1>6. \A k \in 1..u : g[k] \in Seq(Bits) /\ Len(g[k]) = 3
  <2> TAKE k \in 1..u
  <2> DEFINE n == CodeSize(b, k)
  <2>1. n \in Nat /\ 3 \in Nat
    BY <1>5
  <2> HIDE DEF n
  <2>2. LowFirst(n, 3) \in Seq(Bits) /\ Len(LowFirst(n, 3)) = 3
    BY <2>1, LowFirstBits
  <2> QED
    BY <1>3, <2>2 DEF n
<1>7. IsJoined(F, g, u, Bits)
  BY <1>4, <1>6, JoinedUpToIs DEF F
<1>8. HasParts(F, g, u, Bits)
  BY <1>4, <1>7, PartsOfJoined
<1>9. \A k \in 1..u : /\ Len(F[k]) = Len(F[k - 1]) + 3
                      /\ \A i \in 1..3 : F[u][Len(F[k - 1]) + i] = g[k][i]
  BY <1>6, <1>8 DEF HasParts
<1>10. \A k \in 0..u : F[k] \in Seq(Bits)
  BY <1>8 DEF HasParts
<1> DEFINE T == {k \in 0..u : Len(F[k]) = 3 * k}
<1>11. \A k \in 0..u : k \in T
  <2>1. 0 \in T
    <3>1. F[0] = <<>>
      BY <1>7 DEF IsJoined
    <3> QED
      BY <1>4, <3>1
  <2>2. ASSUME NEW k \in 0..(u - 1), k \in T PROVE k + 1 \in T
    <3>1. k + 1 \in 1..u /\ k + 1 \in 0..u /\ (k + 1) - 1 = k
      BY <1>4
    <3>2. Len(F[k + 1]) = Len(F[k]) + 3
      BY <1>9, <3>1
    <3>3. Len(F[k]) = 3 * k
      BY <2>2
    <3>4. (3 * k) + 3 = 3 * (k + 1)
      OBVIOUS
    <3> QED
      BY <3>1, <3>2, <3>3, <3>4
  <2>3. 0 \in Int /\ u \in Int
    BY <1>4
  <2> HIDE DEF T
  <2> QED
    BY <2>1, <2>2, <2>3, UpTo
<1> DEFINE x == F[u]
<1>12. x \in Seq(Bits) /\ Len(x) = 3 * u
  <2>1. u \in 0..u
    BY <1>4
  <2> QED
    BY <1>10, <1>11, <2>1
<1>13. ASSUME NEW k \in 1..u PROVE SubSeq(x, (3 * k) - 2, 3 * k) = g[k]
  <2>1. k - 1 \in 0..u
    BY <1>4
  <2>2. Len(F[k - 1]) = 3 * (k - 1)
    BY <1>11, <2>1
  <2> DEFINE m == (3 * k) - 2
             n == 3 * k
  <2>3. m \in Nat /\ n \in Nat /\ 1 <= m /\ n <= 3 * u /\ 3 = n - m + 1
        /\ \A i \in 1..3 : m + i - 1 = (3 * (k - 1)) + i
    BY <1>4
  <2>4. \A i \in 1..3 : x[(3 * (k - 1)) + i] = g[k][i]
    BY <1>9, <2>2
  <2>5. g[k] \in Seq(Bits) /\ Len(g[k]) = 3
    BY <1>6
  <2> HIDE DEF x, m, n
  <2>6. \A i \in 1..3 : x[m + i - 1] = g[k][i]
    BY <2>3, <2>4
  <2> DEFINE y == g[k]
  <2> HIDE DEF y
  <2>7. y \in Seq(Bits) /\ Len(y) = 3 /\ \A i \in 1..3 : x[m + i - 1] = y[i]
    BY <2>5, <2>6 DEF y
  <2>8. SubSeq(x, m, n) = y
    BY <1>12, <2>3, <2>7, SubSeqIs
  <2> QED
    BY <2>8 DEF y, m, n
<1> QED
  BY <1>2, <1>3, <1>12, <1>13 DEF u, x, g

(* The tree of the codes that sizes are written with. *)
LEMMA CodesTreesAre ==
  ASSUME NEW b, AreTrees(b)
  PROVE  /\ CodesTrees(Joined(CodesBits(b), b.used)) = {Tree(b.codes)}
         /\ AreCodes(b.codes)
<1> DEFINE x == Joined(CodesBits(b), b.used)
           u == b.used
           Size(k) == IF 3 * k <= Len(x)
                      THEN Number(SubSeq(x, (3 * k) - 2, 3 * k)) ELSE 0
           sizes_read == [s \in 1..19 |-> Size(code_size_index[s - 1])]
<1>1. /\ u \in 4..19 /\ b.codes \in [1..19 -> 0..7] /\ AreSizes(b.codes)
      /\ \A k \in (u + 1)..19 : CodeSize(b, k) = 0
  BY DEF AreTrees, CodeSize
<1>2. /\ x \in Seq(Bits) /\ Len(x) = 3 * u
      /\ \A k \in 1..u : SubSeq(x, (3 * k) - 2, 3 * k) = LowFirst(CodeSize(b, k), 3)
  BY CodesBitsAre
<1>3. CodesTrees(x) = Trees(sizes_read)
  BY DEF CodesTrees
<1>4. AreCodes(b.codes)
  <2> DEFINE c == b.codes
  <2>1. c \in [1..19 -> 0..7]
    BY <1>1
  <2> HIDE DEF c
  <2>2. \A k \in 1..19 : c[k] \in 0..15
    <3>1. \A n \in 0..7 : n \in 0..15
      OBVIOUS
    <3> QED
      BY <2>1, <3>1
  <2>3. c \in [1..19 -> 0..15]
    BY <2>1, <2>2
  <2>4. c \in Seq(0..15)
    BY <2>3, SequenceOf
  <2> QED
    BY <1>1, <2>4 DEF AreCodes, c
<1> HIDE DEF x, u
<1>5. ASSUME NEW s \in 1..19 PROVE sizes_read[s] = b.codes[s]
  <2> DEFINE k == code_size_index[s - 1]
             n == b.codes[s]
  <2>1. s - 1 \in 0..18 /\ (s - 1) + 1 = s
    OBVIOUS
  <2>2. k \in 1..19 /\ Order[k] = s - 1
    BY <2>1, PlacesAreInOrder
  <2>3. CodeSize(b, k) = n
    <3> HIDE DEF k
    <3> QED
      BY <2>1, <2>2 DEF CodeSize
  <2>4. n \in 0..7
    BY <1>1
  <2>5. sizes_read[s] = Size(k)
    OBVIOUS
  <2> HIDE DEF k, n, sizes_read
  <2>6. CASE k <= u
    <3>1. k \in 1..u /\ 3 * k <= 3 * u
      BY <1>1, <2>2, <2>6
    <3>2. Size(k) = Number(LowFirst(n, 3))
      BY <1>2, <2>3, <3>1
    <3>3. Number(LowFirst(n, 3)) = n
      <4>1. 3 \in Nat /\ n \in Nat /\ n < 2 ^ 3
        BY <2>4
      <4> QED
        BY <4>1, NumberOfLowFirst
    <3> QED
      BY <2>5, <3>2, <3>3 DEF n
  <2>7. CASE ~(k <= u)
    <3>1. k \in (u + 1)..19 /\ ~(3 * k <= 3 * u)
      BY <1>1, <2>2, <2>7
    <3>2. Size(k) = 0
      BY <1>2, <3>1
    <3>3. n = 0
      BY <1>1, <2>3, <3>1
    <3> QED
      BY <2>5, <3>2, <3>3 DEF n
  <2> QED
    BY <2>6, <2>7
<1>6. sizes_read = b.codes
  <2>1. sizes_read = [s \in 1..19 |-> sizes_read[s]]
    OBVIOUS
  <2> HIDE DEF sizes_read
  <2> QED
    BY <1>1, <1>5, <2>1
<1>7. Trees(b.codes) = {Tree(b.codes)}
  BY <1>4, TreeIsBuilt DEF AreCodes
<1> QED
  BY <1>3, <1>4, <1>6, <1>7 DEF x, u

(* The numbers of codes. *)
TreesHeader(b) ==
  LowFirst(b.literals - 257, 5) \o LowFirst(b.distances - 1, 5)
    \o LowFirst(b.used - 4, 4)
SizesBitsUpTo(b) == JoinedUpTo(CodeSizesBits(b), Len(b.code_sizes))

IsLowFirst(bits, n, count) ==
  bits \in Seq(Bits) /\ Len(bits) = count /\ Number(bits) = n

LEMMA FewLowFirst ==
  ASSUME NEW n \in Nat, NEW count \in Nat, n < 2 ^ count
  PROVE  IsLowFirst(LowFirst(n, count), n, count)
BY LowFirstBits, NumberOfLowFirst DEF IsLowFirst

LEMMA TreesHeaderIs ==
  ASSUME NEW b, AreTrees(b)
  PROVE  LET x == TreesHeader(b)
         IN  /\ x \in Seq(Bits) /\ Len(x) = 14
             /\ Number(SubSeq(x, 1, 5)) + 257 = b.literals
             /\ Number(SubSeq(x, 6, 10)) + 1 = b.distances
             /\ Number(SubSeq(x, 11, 14)) + 4 = b.used
             /\ b.literals <= 286 /\ b.distances <= 30
             /\ b.literals \in Nat /\ b.distances \in Nat /\ b.used \in 4..19
<1> DEFINE l == b.literals
           d == b.distances
           u == b.used
           p == LowFirst(l - 257, 5)
           q == LowFirst(d - 1, 5)
           r == LowFirst(u - 4, 4)
           x == (p \o q) \o r
<1>1. l \in 257..286 /\ d \in 1..30 /\ u \in 4..19
  BY DEF AreTrees
<1>2. TreesHeader(b) = x
  BY DEF TreesHeader
<1> HIDE DEF l, d, u
<1>3. /\ l - 257 \in Nat /\ l - 257 < 2 ^ 5
      /\ d - 1 \in Nat /\ d - 1 < 2 ^ 5
      /\ u - 4 \in Nat /\ u - 4 < 2 ^ 4
  BY <1>1
<1>4. /\ p \in Seq(Bits) /\ Len(p) = 5 /\ Number(p) = l - 257
      /\ q \in Seq(Bits) /\ Len(q) = 5 /\ Number(q) = d - 1
      /\ r \in Seq(Bits) /\ Len(r) = 4 /\ Number(r) = u - 4
  <2>1. p \in Seq(Bits) /\ Len(p) = 5 /\ Number(p) = l - 257
    <3> DEFINE n == l - 257
               k == 5
    <3>1. n \in Nat /\ k \in Nat /\ n < 2 ^ k
      BY <1>3
    <3> HIDE DEF n, k
    <3>2. IsLowFirst(LowFirst(n, k), n, k)
      BY <3>1, FewLowFirst
    <3> QED
      BY <3>2 DEF IsLowFirst, n, k
  <2>2. q \in Seq(Bits) /\ Len(q) = 5 /\ Number(q) = d - 1
    <3> DEFINE n == d - 1
               k == 5
    <3>1. n \in Nat /\ k \in Nat /\ n < 2 ^ k
      BY <1>3
    <3> HIDE DEF n, k
    <3>2. IsLowFirst(LowFirst(n, k), n, k)
      BY <3>1, FewLowFirst
    <3> QED
      BY <3>2 DEF IsLowFirst, n, k
  <2>3. r \in Seq(Bits) /\ Len(r) = 4 /\ Number(r) = u - 4
    <3> DEFINE n == u - 4
               k == 4
    <3>1. n \in Nat /\ k \in Nat /\ n < 2 ^ k
      BY <1>3
    <3> HIDE DEF n, k
    <3>2. IsLowFirst(LowFirst(n, k), n, k)
      BY <3>1, FewLowFirst
    <3> QED
      BY <3>2 DEF IsLowFirst, n, k
  <2> QED
    BY <2>1, <2>2, <2>3
<1> HIDE DEF p, q, r
<1>5. /\ x \in Seq(Bits) /\ Len(x) = 14
      /\ SubSeq(x, 1, 5) = p /\ SubSeq(x, 6, 10) = q /\ SubSeq(x, 11, 14) = r
  <2>1. /\ x \in Seq(Bits)
        /\ Len(x) = Len(p) + Len(q) + Len(r)
        /\ SubSeq(x, 1, Len(p)) = p
        /\ SubSeq(x, Len(p) + 1, Len(p) + Len(q)) = q
        /\ SubSeq(x, Len(p) + Len(q) + 1, Len(p) + Len(q) + Len(r)) = r
    <3>1. IsOfThree(x, p, q, r, Bits)
      BY <1>4, ThreeParts
    <3> HIDE DEF x
    <3> QED
      BY <3>1 DEF IsOfThree
  <2> HIDE DEF x
  <2>2. Len(p) + 1 = 6 /\ Len(p) + Len(q) = 10 /\ Len(p) + Len(q) + 1 = 11
        /\ Len(p) + Len(q) + Len(r) = 14 /\ Len(p) = 5
    BY <1>4
  <2> QED
    BY <2>1, <2>2
<1> HIDE DEF x
<1>6. (l - 257) + 257 = l /\ (d - 1) + 1 = d /\ (u - 4) + 4 = u
      /\ l <= 286 /\ d <= 30 /\ l \in Nat /\ d \in Nat
  BY <1>1
<1> QED
  BY <1>1, <1>2, <1>4, <1>5, <1>6 DEF l, d, u

(* The parts of what a dynamic block starts with. *)
LEMMA TreesBitsAre ==
  ASSUME NEW b, AreTrees(b)
  PROVE  LET x == TreesHeader(b)
             y == Joined(CodesBits(b), b.used)
             n == Len(b.code_sizes)
             F == SizesBitsUpTo(b)
         IN  /\ n \in Nat
             /\ x \in Seq(Bits) /\ Len(x) = 14
             /\ y \in Seq(Bits) /\ Len(y) = 3 * b.used
             /\ \A k \in 0..n : F[k] \in Seq(Bits)
             /\ F[0] = <<>>
             /\ \A k \in 1..n :
                  /\ BitsOfSizes(b, k) \in Seq(Bits)
                  /\ Len(F[k]) = Len(F[k - 1]) + Len(BitsOfSizes(b, k))
             /\ IsJoined(F, CodeSizesBits(b), n, Bits)
             /\ TreesBits(b) = (x \o y) \o F[n]
             /\ TreesBits(b) \in Seq(Bits)
             /\ Len(TreesBits(b)) = 14 + (3 * b.used) + Len(F[n])
<1> DEFINE x == TreesHeader(b)
           y == Joined(CodesBits(b), b.used)
           n == Len(b.code_sizes)
           F == SizesBitsUpTo(b)
           f == SizesUpTo(b.code_sizes)
           g == CodeSizesBits(b)
           u == b.used
<1>1. AreSizesUpTo(f, b)
  BY SizesUpToAre
<1>2. n \in Nat
  BY DEF AreTrees
<1>3. x \in Seq(Bits) /\ Len(x) = 14 /\ u \in 4..19
  BY TreesHeaderIs
<1>4. y \in Seq(Bits) /\ Len(y) = 3 * u
  BY CodesBitsAre
<1>5. AreCodes(b.codes)
  BY CodesTreesAre
<1>6. TreesBits(b) = (x \o y) \o F[n]
  BY DEF TreesBits, TreesHeader, SizesBitsUpTo, Joined
<1>7. \A k \in 1..n : BitsOfSizes(b, k) \in Seq(Bits)
  <2> TAKE k \in 1..n
  <2> DEFINE s == f[k - 1]
             item == b.code_sizes[k]
  <2>1. IsSizeItem(s, b.codes, item)
    BY <1>1 DEF AreSizesUpTo
  <2>2. s \in Seq(0..15)
    <3>1. k - 1 \in 0..n
      BY <1>2
    <3> HIDE DEF f
    <3> QED
      BY <1>1, <3>1 DEF AreSizesUpTo
  <2> HIDE DEF s, item
  <2>3. SizeItemBits(b.codes, item) \in Seq(Bits)
    BY <1>5, <2>1, <2>2, SizeItemBitsAre
  <2> QED
    BY <2>3 DEF item, BitsOfSizes
<1>8. \A k \in 1..n : g[k] = BitsOfSizes(b, k)
  BY DEF CodeSizesBits, BitsOfSizes
<1>9. F = JoinedUpTo(g, n)
  BY DEF SizesBitsUpTo
<1> HIDE DEF x, y, n, F, f, g, u
<1>10. IsJoined(F, g, n, Bits)
  <2>1. \A k \in 1..n : g[k] \in Seq(Bits)
    BY <1>7, <1>8
  <2> QED
    BY <1>2, <1>9, <2>1, JoinedUpToIs
<1>11. HasParts(F, g, n, Bits)
  BY <1>2, <1>10, PartsOfJoined
<1>12. /\ \A k \in 0..n : F[k] \in Seq(Bits)
       /\ \A k \in 1..n : Len(F[k]) = Len(F[k - 1]) + Len(BitsOfSizes(b, k))
  BY <1>8, <1>11 DEF HasParts
<1>13. F[0] = <<>>
  BY <1>10 DEF IsJoined
<1>14. /\ (x \o y) \o F[n] \in Seq(Bits)
       /\ Len((x \o y) \o F[n]) = 14 + (3 * u) + Len(F[n])
  <2> DEFINE z == F[n]
  <2>1. z \in Seq(Bits)
    BY <1>2, <1>12
  <2> HIDE DEF z
  <2>2. (x \o y) \o z \in Seq(Bits) /\ Len((x \o y) \o z) = Len(x) + Len(y) + Len(z)
    <3>1. IsOfThree((x \o y) \o z, x, y, z, Bits)
      BY <1>3, <1>4, <2>1, ThreeParts
    <3> QED
      BY <3>1 DEF IsOfThree
  <2> QED
    BY <1>3, <1>4, <2>2 DEF z
<1> QED
  BY <1>2, <1>3, <1>4, <1>6, <1>7, <1>10, <1>12, <1>13, <1>14 DEF x, y, n, F, g, u

(* The numbers of codes, and the tree they give, are read. *)
IsCodesHeader(h, b, q) ==
  /\ h.literals = b.literals
  /\ h.distances = b.distances
  /\ h.bits = Joined(CodesBits(b), b.used)
  /\ IsStream(h.stream)
  /\ Position(h.stream) = q

LEMMA TreesHeaderIsRead ==
  ASSUME data \in Seq(Bytes), IsStream(Stream), NEW b, AreTrees(b),
         Comes(Position(Stream), TreesHeader(b) \o Joined(CodesBits(b), b.used))
  PROVE  /\ \A h \in CodesHeaders :
              IsCodesHeader(h, b, Position(Stream) + 14 + (3 * b.used))
         /\ input.damage = "none" => CodesHeaders # {}
<1> DEFINE x == TreesHeader(b)
           y == Joined(CodesBits(b), b.used)
           u == b.used
           p == Position(Stream)
           q == p + 14 + (3 * u)
           Of(n) == UNION {
             {[literals |-> Number(SubSeq(v.bits, 1, 5)) + 257,
               distances |-> Number(SubSeq(v.bits, 6, 10)) + 1,
               bits |-> w.bits, stream |-> w.stream] :
                w \in Values(v.stream, 3 * n)} :
              v \in {t \in Values(Stream, 14) : Number(SubSeq(t.bits, 11, 14)) + 4 = n}}
<1>1. /\ x \in Seq(Bits) /\ Len(x) = 14
      /\ Number(SubSeq(x, 1, 5)) + 257 = b.literals
      /\ Number(SubSeq(x, 6, 10)) + 1 = b.distances
      /\ Number(SubSeq(x, 11, 14)) + 4 = u
      /\ b.literals <= 286 /\ b.distances <= 30 /\ u \in 4..19
  BY TreesHeaderIs
<1>2. y \in Seq(Bits) /\ Len(y) = 3 * u
  BY CodesBitsAre
<1>3. p \in Nat
  BY PositionIsNat
<1>4. CodesHeaders = {h \in UNION {Of(n) : n \in 4..19} :
                        h.literals <= 286 /\ h.distances <= 30}
  BY DEF CodesHeaders
<1>5. Comes(p, x) /\ Comes(p + 14, y)
  <2> HIDE DEF x, y, p
  <2>1. Comes(p, x \o y)
    BY DEF x, y, p
  <2>2. Comes(p, x) /\ Comes(p + Len(x), y)
    BY <1>1, <1>2, <1>3, <2>1, PartsCome
  <2> QED
    BY <1>1, <2>2
<1> HIDE DEF x, y, u
<1>6. /\ \A v \in Values(Stream, 14) :
           v.bits = x /\ IsStream(v.stream) /\ Position(v.stream) = p + 14
      /\ input.damage = "none" => Values(Stream, 14) # {}
  <2>1. 14 = Len(x)
    BY <1>1
  <2> QED
    <3> DEFINE s == Stream
               n == 14
    <3>1. IsStream(s) /\ Position(s) = p
      OBVIOUS
    <3>2. n = Len(x) /\ x \in Seq(Bits)
      BY <1>1
    <3> HIDE DEF s, p, n
    <3>3. Comes(Position(s), x)
      BY <1>5, <3>1
    <3>4. /\ \A v \in Values(s, n) :
               v.bits = x /\ IsStream(v.stream) /\ Position(v.stream) = Position(s) + n
          /\ input.damage = "none" => Values(s, n) # {}
      BY <3>1, <3>2, <3>3, ReadsWhatComes
    <3> QED
      BY <3>1, <3>4 DEF s, n
<1>7. ASSUME NEW v \in Values(Stream, 14)
      PROVE  /\ \A w \in Values(v.stream, 3 * u) :
                  w.bits = y /\ IsStream(w.stream) /\ Position(w.stream) = q
             /\ input.damage = "none" => Values(v.stream, 3 * u) # {}
  <2> DEFINE s == v.stream
             m == 3 * u
  <2>1. IsStream(s) /\ Position(s) = p + 14
    BY <1>6
  <2>2. m = Len(y)
    BY <1>2
  <2> HIDE DEF s, m
  <2>3. Comes(Position(s), y)
    BY <1>5, <2>1
  <2>4. /\ \A w \in Values(s, m) :
             w.bits = y /\ IsStream(w.stream) /\ Position(w.stream) = Position(s) + m
        /\ input.damage = "none" => Values(s, m) # {}
    BY <1>2, <2>1, <2>2, <2>3, ReadsWhatComes
  <2>5. Position(s) + m = q
    BY <2>1 DEF m
  <2> QED
    BY <2>4, <2>5 DEF s, m
<1> HIDE DEF q
<1>8. ASSUME NEW h \in CodesHeaders PROVE IsCodesHeader(h, b, q)
  <2>1. PICK n \in 4..19 : h \in Of(n)
    BY <1>4
  <2>2. PICK v \in {t \in Values(Stream, 14) : Number(SubSeq(t.bits, 11, 14)) + 4 = n} :
          \E w \in Values(v.stream, 3 * n) :
            h = [literals |-> Number(SubSeq(v.bits, 1, 5)) + 257,
                 distances |-> Number(SubSeq(v.bits, 6, 10)) + 1,
                 bits |-> w.bits, stream |-> w.stream]
    BY <2>1
  <2>3. PICK w \in Values(v.stream, 3 * n) :
            h = [literals |-> Number(SubSeq(v.bits, 1, 5)) + 257,
                 distances |-> Number(SubSeq(v.bits, 6, 10)) + 1,
                 bits |-> w.bits, stream |-> w.stream]
    BY <2>2
  <2>4. v \in Values(Stream, 14) /\ v.bits = x
    BY <1>6
  <2>5. n = u
    BY <1>1, <2>2, <2>4
  <2>6. w.bits = y /\ IsStream(w.stream) /\ Position(w.stream) = q
    BY <1>7, <2>4, <2>5
  <2>7. h.literals = b.literals /\ h.distances = b.distances
    BY <1>1, <2>3, <2>4
  <2>8. h.bits = w.bits /\ h.stream = w.stream
    BY <2>3
  <2> QED
    BY <2>6, <2>7, <2>8 DEF IsCodesHeader, y
<1>9. ASSUME input.damage = "none" PROVE CodesHeaders # {}
  <2>1. PICK v : v \in Values(Stream, 14)
    BY <1>6, <1>9
  <2>2. PICK w : w \in Values(v.stream, 3 * u)
    BY <1>7, <1>9, <2>1
  <2> DEFINE h == [literals |-> Number(SubSeq(v.bits, 1, 5)) + 257,
                   distances |-> Number(SubSeq(v.bits, 6, 10)) + 1,
                   bits |-> w.bits, stream |-> w.stream]
  <2>3. v.bits = x
    BY <1>6, <2>1
  <2>4. v \in {t \in Values(Stream, 14) : Number(SubSeq(t.bits, 11, 14)) + 4 = u}
    BY <1>1, <2>1, <2>3
  <2>5. h \in Of(u)
    BY <2>2, <2>4
  <2>6. h.literals = b.literals /\ h.distances = b.distances
    BY <1>1, <2>3
  <2> HIDE DEF h, Of
  <2>7. h \in CodesHeaders
    BY <1>1, <1>4, <2>5, <2>6
  <2> QED
    BY <2>7
<1> QED
  BY <1>8, <1>9 DEF q, u

-----------------------------------------------------------------------------
(* The codes of a block that is not stored.                                *)

LEMMA DynamicHasTrees ==
  ASSUME NEW b, b.kind = "dynamic", AreTrees(b)
  PROVE  /\ HasTrees(b)
         /\ SizesOf(b.code_sizes) \in Seq(0..15)
         /\ LiteralSizes(b) = SubSeq(SizesOf(b.code_sizes), 1, b.literals)
         /\ DistanceSizes(b) = SubSeq(SizesOf(b.code_sizes), b.literals + 1,
                                      b.literals + b.distances)
         /\ SizesOf(b.code_sizes)[257] # 0
<1> DEFINE s == SizesOf(b.code_sizes)
           f == SizesUpTo(b.code_sizes)
           n == Len(b.code_sizes)
           l == b.literals
           d == b.distances
           m == l + d
           x == SubSeq(s, 1, l)
           y == SubSeq(s, l + 1, m)
<1>1. /\ l \in 257..286 /\ d \in 1..30 /\ Len(s) = m
      /\ AreSizes(LiteralSizes(b)) /\ HasCode(LiteralSizes(b), 256)
      /\ AreSizes(DistanceSizes(b))
  BY DEF AreTrees
<1>2. LiteralSizes(b) = x /\ DistanceSizes(b) = y
  BY DEF LiteralSizes, DistanceSizes
<1>3. s = f[n]
  BY DEF SizesOf
<1>4. s \in Seq(0..15)
  <2>1. AreSizesUpTo(f, b)
    BY SizesUpToAre
  <2>2. n \in 0..n
    <3>1. n \in Nat
      BY DEF AreTrees
    <3> HIDE DEF n
    <3> QED
      BY <3>1
  <2> HIDE DEF s, f, n
  <2>3. f[n] \in Seq(0..15)
    BY <2>1, <2>2 DEF AreSizesUpTo, n
  <2> QED
    BY <1>3, <2>3
<1> HIDE DEF s, l, d
<1>5. l \in Nat /\ d \in Nat /\ m \in Nat /\ 1 <= l + 1 /\ l <= m /\ l + 1 <= m + 1
      /\ 257 \in 1..l /\ 1 \in Nat /\ 1 <= 1 /\ 1 + 257 - 1 = 257 /\ l - 1 + 1 = l
      /\ l + 1 \in Nat /\ l <= Len(s) /\ m <= Len(s)
  BY <1>1
<1>6. x \in Seq(0..15) /\ Len(x) = l - 1 + 1
      /\ \A i \in 1..(l - 1 + 1) : x[i] = s[1 + i - 1]
  <2> HIDE DEF m
  <2> QED
    BY <1>4, <1>5, SubSeqOf
<1>7. y \in Seq(0..15)
  <2> DEFINE a == l + 1
  <2>1. a \in Nat /\ 1 <= a /\ a <= m + 1
    BY <1>5
  <2> HIDE DEF m, a
  <2>2. SubSeq(s, a, m) \in Seq(0..15)
    BY <1>4, <1>5, <2>1, SubSeqOf
  <2> QED
    BY <2>2 DEF a
<1> HIDE DEF x, y
<1>8. s[257] # 0
  <2>1. HasCode(x, 256)
    BY <1>1, <1>2
  <2>2. x[256 + 1] # 0 /\ 256 + 1 = 257
    BY <2>1 DEF HasCode
  <2>3. x[257] = s[257]
    BY <1>5, <1>6
  <2> QED
    BY <2>2, <2>3
<1>9. HasTrees(b)
  BY <1>1, <1>2, <1>6, <1>7 DEF HasTrees, AreCodes
<1> QED
  BY <1>2, <1>4, <1>8, <1>9 DEF s, x, y, l, d

(* The codes of fixed blocks. *)
LEMMA FixedSizesAre ==
  /\ FixedLiteralSizes \in Seq(0..15) /\ FixedDistanceSizes \in Seq(0..15)
  /\ HasCode(FixedLiteralSizes, 256)
  /\ FixedLiterals = Tree(FixedLiteralSizes)
  /\ FixedDistances = Tree(FixedDistanceSizes)
<1> DEFINE l == FixedLiteralSizes
           d == FixedDistanceSizes
<1>1. l \in Seq(0..15) /\ d \in Seq(0..15)
  <2>1. \A s \in 1..288 : l[s] \in 0..15
    BY DEF FixedLiteralSizes
  <2>2. \A s \in 1..30 : d[s] \in 0..15
    BY DEF FixedDistanceSizes
  <2>3. l = [s \in 1..288 |-> l[s]] /\ d = [s \in 1..30 |-> d[s]]
    BY DEF FixedLiteralSizes, FixedDistanceSizes
  <2> HIDE DEF l, d
  <2>4. l \in [1..288 -> 0..15] /\ d \in [1..30 -> 0..15]
    BY <2>1, <2>2, <2>3
  <2> DEFINE N == 288
             M == 30
  <2>5. N \in Nat /\ M \in Nat
    OBVIOUS
  <2>6. l \in [1..N -> 0..15] /\ d \in [1..M -> 0..15]
    BY <2>4
  <2> HIDE DEF N, M
  <2> QED
    BY <2>5, <2>6, SequenceOf
<1>2. HasCode(l, 256)
  BY DEF HasCode, FixedLiteralSizes
<1>3. FixedLiterals = Tree(l)
  <2> DEFINE k == [s \in 1..288 |->
               IF s <= 144 THEN 8 ELSE IF s <= 256 THEN 9 ELSE IF s <= 280 THEN 7 ELSE 8]
  <2>1. \A s \in 1..288 : k[s] = l[s]
    BY DEF FixedLiteralSizes
  <2>2. k = l
    <3>1. k = [s \in 1..288 |-> k[s]]
      OBVIOUS
    <3>2. l = [s \in 1..288 |-> l[s]]
      BY DEF FixedLiteralSizes
    <3> DEFINE N == 1..288
    <3>3. /\ \A s \in N : k[s] = l[s]
          /\ k = [s \in N |-> k[s]] /\ l = [s \in N |-> l[s]]
      BY <2>1, <3>1, <3>2, Zenon
    <3> HIDE DEF k, l, N
    <3> QED
      BY <3>3
  <2>3. FixedLiterals = Tree(k)
    BY DEF FixedLiterals
  <2> HIDE DEF k, l
  <2> QED
    BY <2>2, <2>3
<1>4. FixedDistances = Tree(d)
  BY DEF FixedDistances, FixedDistanceSizes
<1> QED
  BY <1>1, <1>2, <1>3, <1>4

LEMMA IntervalHas ==
  ASSUME NEW a \in Nat, NEW b \in Nat, a <= b + 1
  PROVE  IsFiniteSet(a..b) /\ Cardinality(a..b) = b - a + 1
<1>1. a \in Int /\ b \in Int
  OBVIOUS
<1> QED
  BY <1>1, FS_Interval

LEMMA FixedSizesTake ==
  AreSizes(FixedLiteralSizes) /\ AreSizes(FixedDistanceSizes)
<1> DEFINE l == FixedLiteralSizes
           d == FixedDistanceSizes
           A == 1..144
           B == 281..288
           C == 145..256
           D == 257..280
           E == 1..30
<1>1. /\ \A n \in 1..15 : n # 7 /\ n # 8 /\ n # 9 => HasSize(l, n) = {}
      /\ HasSize(l, 7) = D /\ HasSize(l, 8) = A \cup B /\ HasSize(l, 9) = C
  <2>1. DOMAIN l = 1..288
    BY DEF FixedLiteralSizes
  <2>2. \A s \in 1..288 : l[s] = IF s \in C THEN 9 ELSE IF s \in D THEN 7 ELSE 8
    BY DEF FixedLiteralSizes
  <2>3. \A n : HasSize(l, n) = {t \in 1..288 : l[t] = n}
    <3> HIDE DEF l
    <3> QED
      BY <2>1 DEF HasSize
  <2>4. \A s : s \in 1..288 <=> s \in A \/ s \in B \/ s \in C \/ s \in D
    OBVIOUS
  <2>5. \A s : ~(s \in A /\ s \in C) /\ ~(s \in A /\ s \in D) /\ ~(s \in B /\ s \in C)
               /\ ~(s \in B /\ s \in D) /\ ~(s \in C /\ s \in D)
    OBVIOUS
  <2> DEFINE N == 1..288
  <2> HIDE DEF l, A, B, C, D
  <2>9. /\ \A s \in N : l[s] = IF s \in C THEN 9 ELSE IF s \in D THEN 7 ELSE 8
        /\ \A n : HasSize(l, n) = {t \in N : l[t] = n}
        /\ \A s : s \in N <=> s \in A \/ s \in B \/ s \in C \/ s \in D
    BY <2>2, <2>3, <2>4, Zenon
  <2> HIDE DEF N
  <2>6. \A s : s \in N => (l[s] = 9 <=> s \in C) /\ (l[s] = 7 <=> s \in D)
                 /\ (l[s] = 8 <=> s \in A \/ s \in B) /\ l[s] \in {7, 8, 9}
    BY <2>5, <2>9
  <2>7. HasSize(l, 7) = D /\ HasSize(l, 8) = A \cup B /\ HasSize(l, 9) = C
    BY <2>6, <2>9
  <2>8. \A n \in 1..15 : n # 7 /\ n # 8 /\ n # 9 => HasSize(l, n) = {}
    BY <2>6, <2>9
  <2> QED
    BY <2>7, <2>8
<1>2. /\ \A n \in 1..15 : n # 5 => HasSize(d, n) = {}
      /\ HasSize(d, 5) = E
  BY DEF HasSize, FixedDistanceSizes
<1>3. /\ Cardinality(D) = 24 /\ Cardinality(C) = 112 /\ Cardinality(E) = 30
      /\ Cardinality(A \cup B) = 152
  <2>1. Cardinality(D) = 24 /\ Cardinality(C) = 112 /\ Cardinality(E) = 30
    <3>0. /\ 257 \in Nat /\ 280 \in Nat /\ 257 <= 280 + 1
          /\ 145 \in Nat /\ 256 \in Nat /\ 145 <= 256 + 1
          /\ 1 \in Nat /\ 30 \in Nat /\ 1 <= 30 + 1
      OBVIOUS
    <3>1. Cardinality(D) = 280 - 257 + 1
      BY <3>0, IntervalHas, ZenonT(60)
    <3>2. Cardinality(C) = 256 - 145 + 1
      BY <3>0, IntervalHas, ZenonT(60)
    <3>3. Cardinality(E) = 30 - 1 + 1
      BY <3>0, IntervalHas, ZenonT(60)
    <3> HIDE DEF C, D, E
    <3> QED
      BY <3>1, <3>2, <3>3
  <2>0. /\ 1 \in Nat /\ 144 \in Nat /\ 1 <= 144 + 1
        /\ 281 \in Nat /\ 288 \in Nat /\ 281 <= 288 + 1
    OBVIOUS
  <2>2. IsFiniteSet(A) /\ Cardinality(A) = 144 - 1 + 1
    BY <2>0, IntervalHas, ZenonT(60)
  <2>3. IsFiniteSet(B) /\ Cardinality(B) = 288 - 281 + 1
    BY <2>0, IntervalHas, ZenonT(60)
  <2>4. A \cap B = {}
    OBVIOUS
  <2> HIDE DEF A, B
  <2>5. Cardinality(A \cup B) = Cardinality(A) + Cardinality(B) - Cardinality(A \cap B)
    BY <2>2, <2>3, FS_Union
  <2>6. Cardinality(A \cap B) = 0
    BY <2>4, FS_EmptySet
  <2>7. Cardinality(A \cup B) = 152
    BY <2>2, <2>3, <2>5, <2>6
  <2> QED
    BY <2>1, <2>7
<1> HIDE DEF l, d, A, B, C, D, E
<1>4. Cardinality({}) = 0
  BY FS_EmptySet
<1> DEFINE t == Taken(l)
           u == Taken(d)
<1>5. /\ t[0] = 0
      /\ \A k \in 1..15 : t[k] = t[k - 1] + Cardinality(HasSize(l, k)) * 2 ^ (15 - k)
  BY TakenByRecursion
<1>6. /\ u[0] = 0
      /\ \A k \in 1..15 : u[k] = u[k - 1] + Cardinality(HasSize(d, k)) * 2 ^ (15 - k)
  BY TakenByRecursion
<1> HIDE DEF t, u
<1>7. \A k \in 1..15 : /\ k # 7 /\ k # 8 /\ k # 9 => Cardinality(HasSize(l, k)) = 0
                       /\ k # 5 => Cardinality(HasSize(d, k)) = 0
  BY <1>1, <1>2, <1>4
<1>8. \A k \in 1..15 : 2 ^ (15 - k) \in Nat
  <2> TAKE k \in 1..15
  <2>1. 15 - k \in Nat
    OBVIOUS
  <2> DEFINE e == 15 - k
  <2> HIDE DEF e
  <2>2. 2 ^ e \in Nat
    BY <2>1, PowerIsNat DEF e
  <2> QED
    BY <2>2 DEF e
<1>9. \A k \in 1..15 : /\ k # 7 /\ k # 8 /\ k # 9 => t[k] = t[k - 1] + 0
                       /\ k # 5 => u[k] = u[k - 1] + 0
  <2> TAKE k \in 1..15
  <2> DEFINE p == 2 ^ (15 - k)
  <2>1. p \in Nat
    BY <1>8
  <2>2. /\ t[k] = t[k - 1] + Cardinality(HasSize(l, k)) * p
        /\ u[k] = u[k - 1] + Cardinality(HasSize(d, k)) * p
    BY <1>5, <1>6
  <2> HIDE DEF p
  <2>3. 0 * p = 0
    BY <2>1
  <2> QED
    BY <1>7, <2>2, <2>3
<1>10. t[15] = 32768
  <2>1. t[7] = t[6] + 24 * 256 /\ t[8] = t[7] + 152 * 128 /\ t[9] = t[8] + 112 * 64
    <3>1. /\ t[7] = t[6] + Cardinality(HasSize(l, 7)) * 256
          /\ t[8] = t[7] + Cardinality(HasSize(l, 8)) * 128
          /\ t[9] = t[8] + Cardinality(HasSize(l, 9)) * 64
      <4>1. 7 \in 1..15 /\ 8 \in 1..15 /\ 9 \in 1..15 /\ 7 - 1 = 6 /\ 8 - 1 = 7 /\ 9 - 1 = 8
            /\ 2 ^ (15 - 7) = 256 /\ 2 ^ (15 - 8) = 128 /\ 2 ^ (15 - 9) = 64
        OBVIOUS
      <4> QED
        BY <1>5, <4>1
    <3>2. HasSize(l, 7) = D /\ HasSize(l, 8) = A \cup B /\ HasSize(l, 9) = C
      BY <1>1
    <3>3. /\ Cardinality(HasSize(l, 7)) = 24 /\ Cardinality(HasSize(l, 8)) = 152
          /\ Cardinality(HasSize(l, 9)) = 112
      BY <1>3, <3>2, ZenonT(60)
    <3> QED
      BY <3>1, <3>3
  <2>2. t[1] = 0 /\ t[2] = 0 /\ t[3] = 0 /\ t[4] = 0 /\ t[5] = 0 /\ t[6] = 0
    BY <1>5, <1>9
  <2>3. t[9] = 32768
    BY <2>1, <2>2
  <2>4. t[10] = 32768 /\ t[11] = 32768 /\ t[12] = 32768
    BY <1>9, <2>3
  <2>5. t[13] = 32768 /\ t[14] = 32768 /\ t[15] = 32768
    BY <1>9, <2>4
  <2> QED
    BY <2>5
<1>11. u[15] = 30720
  <2>1. u[5] = u[4] + 30 * 1024
    <3>1. 5 \in 1..15 /\ 5 - 1 = 4 /\ 2 ^ (15 - 5) = 1024
      OBVIOUS
    <3>2. u[5] = u[4] + Cardinality(HasSize(d, 5)) * 1024
      BY <1>6, <3>1
    <3>3. Cardinality(HasSize(d, 5)) = 30
      BY <1>2, <1>3, Zenon
    <3> QED
      BY <3>2, <3>3
  <2>2. u[1] = 0 /\ u[2] = 0 /\ u[3] = 0 /\ u[4] = 0
    BY <1>6, <1>9
  <2>3. u[5] = 30720
    BY <2>1, <2>2
  <2>4. u[6] = 30720 /\ u[7] = 30720 /\ u[8] = 30720 /\ u[9] = 30720 /\ u[10] = 30720
    BY <1>9, <2>3
  <2>5. u[11] = 30720 /\ u[12] = 30720 /\ u[13] = 30720 /\ u[14] = 30720 /\ u[15] = 30720
    BY <1>9, <2>4
  <2> QED
    BY <2>5
<1>12. 2 ^ 15 = 32768
  OBVIOUS
<1> QED
  BY <1>10, <1>11, <1>12 DEF AreSizes, t, u, l, d

-----------------------------------------------------------------------------
(* Stored blocks.                                                          *)

(* A block with fixed trees has them. *)
LEMMA FixedHasTrees ==
  ASSUME NEW b, b.kind = "fixed"
  PROVE  /\ HasTrees(b)
         /\ LiteralSizes(b) = FixedLiteralSizes
         /\ DistanceSizes(b) = FixedDistanceSizes
<1>1. LiteralSizes(b) = FixedLiteralSizes /\ DistanceSizes(b) = FixedDistanceSizes
  BY DEF LiteralSizes, DistanceSizes
<1> QED
  BY <1>1, FixedSizesAre, FixedSizesTake DEF HasTrees, AreCodes

(* Two numbers that add up to an odd one have different lowest bits. *)
LEMMA HalvesOfOddSum ==
  ASSUME NEW a \in Nat, NEW b \in Nat, NEW x \in Bits, NEW y \in Bits, NEW s \in Int,
         (2 * a) + x + (2 * b) + y = (2 * s) + 1
  PROVE  x # y /\ a + b = s
BY DEF Bits

(* The second word of a stored block is the complement of the first. *)
LEMMA ComplementIs ==
  ASSUME NEW n \in Nat, NEW m \in Nat, n + m = MaximumStored
  PROVE  \A k \in 1..16 : LowFirst(n, 16)[k] # LowFirst(m, 16)[k]
<1> DEFINE T == {k \in 0..16 : Part(n, k) + Part(m, k) = 2 ^ (16 - k) - 1}
<1>1. 0 \in T
  <2>1. Part(n, 0) = n /\ Part(m, 0) = m
    BY WholePart
  <2>2. 2 ^ (16 - 0) = 65536
    OBVIOUS
  <2>3. n + m = 65535
    BY DEF MaximumStored
  <2> QED
    BY <2>1, <2>2, <2>3
<1>2. ASSUME NEW k \in 0..15, k \in T
      PROVE  k + 1 \in T /\ Part(n, k) % 2 # Part(m, k) % 2
  <2> DEFINE e == 15 - k
             p == 2 ^ e
             a == Part(n, k + 1)
             b == Part(m, k + 1)
             x == Part(n, k) % 2
             y == Part(m, k) % 2
  <2>1. e \in Nat /\ 16 - k = e + 1 /\ 16 - (k + 1) = e /\ k \in Nat /\ k + 1 \in 0..16
        /\ k + 1 \in Nat
    OBVIOUS
  <2>2. a \in Nat /\ b \in Nat
    BY <2>1, PartByPart
  <2>3. /\ x \in Bits /\ y \in Bits
        /\ Part(n, k) = (2 * a) + x /\ Part(m, k) = (2 * b) + y
    BY <2>1, PartByPart
  <2>4. Part(n, k) + Part(m, k) = 2 ^ (e + 1) - 1
    BY <1>2, <2>1
  <2> HIDE DEF e
  <2>5. 2 ^ (e + 1) = 2 * p /\ p \in Nat
    BY <2>1, NextPower
  <2> HIDE DEF a, b, x, y, p
  <2>6. (2 * a) + x + (2 * b) + y = (2 * (p - 1)) + 1 /\ p - 1 \in Int
    BY <2>2, <2>3, <2>4, <2>5 DEF Bits
  <2> DEFINE s == p - 1
  <2>7. s \in Int /\ (2 * a) + x + (2 * b) + y = (2 * s) + 1
    BY <2>6
  <2> HIDE DEF s
  <2>8. x # y /\ a + b = s
    BY <2>2, <2>3, <2>7, HalvesOfOddSum
  <2>9. Part(n, k + 1) + Part(m, k + 1) = 2 ^ (16 - (k + 1)) - 1
    BY <2>1, <2>8 DEF s, p, a, b
  <2> QED
    BY <2>1, <2>8, <2>9 DEF x, y
<1>3. \A k \in 0..16 : k \in T
  <2>1. \A k \in 0..(16 - 1) : k \in T => k + 1 \in T
    <3>1. 16 - 1 = 15
      OBVIOUS
    <3> HIDE DEF T
    <3> QED
      BY <1>2, <3>1
  <2>2. 0 \in Int /\ 16 \in Int
    OBVIOUS
  <2> HIDE DEF T
  <2> QED
    BY <1>1, <2>1, <2>2, UpTo
<1>4. ASSUME NEW k \in 1..16 PROVE LowFirst(n, 16)[k] # LowFirst(m, 16)[k]
  <2>1. k - 1 \in 0..15 /\ k - 1 \in 0..16 /\ 16 \in Nat
    OBVIOUS
  <2>2. LowFirst(n, 16)[k] = Part(n, k - 1) % 2 /\ LowFirst(m, 16)[k] = Part(m, k - 1) % 2
    BY <2>1, LowFirstBits
  <2> DEFINE i == k - 1
  <2> HIDE DEF i, T
  <2>3. Part(n, i) % 2 # Part(m, i) % 2
    BY <1>2, <1>3, <2>1 DEF i
  <2> QED
    BY <2>2, <2>3 DEF i
<1> QED
  BY <1>4

(* The bits of bytes, one byte after the other. *)
LEMMA JoinedBytesAre ==
  ASSUME NEW bytes \in Seq(Bytes)
  PROVE  LET x == Joined(ByteBits(bytes), Len(bytes))
         IN  /\ x \in Seq(Bits)
             /\ Len(x) = 8 * Len(bytes)
             /\ \A m \in 1..Len(bytes) : \A k \in 1..8 :
                  x[(8 * (m - 1)) + k] = BitOf(bytes[m], k)
<1> DEFINE u == Len(bytes)
           g == ByteBits(bytes)
           F == JoinedUpTo(g, u)
<1>1. u \in Nat /\ \A m \in 1..u : bytes[m] \in Nat
  BY BytesAreNatural
<1>2. Joined(g, u) = F[u]
  BY DEF Joined
<1>3. \A m \in 1..u : g[m] = LowFirst(bytes[m], 8)
  BY DEF ByteBits
<1> HIDE DEF u, g, F
<1>4. \A m \in 1..u : /\ g[m] \in Seq(Bits) /\ Len(g[m]) = 8
                      /\ \A k \in 1..8 : g[m][k] = BitOf(bytes[m], k)
  <2> TAKE m \in 1..u
  <2> DEFINE n == bytes[m]
  <2>1. n \in Nat /\ 8 \in Nat
    BY <1>1
  <2> HIDE DEF n
  <2>2. LowFirst(n, 8) \in Seq(Bits) /\ Len(LowFirst(n, 8)) = 8
    BY <2>1, LowFirstBits
  <2>3. \A k \in 1..8 : BitOf(n, k) = LowFirst(n, 8)[k]
    BY <2>1, BitOfByte
  <2> QED
    BY <1>3, <2>2, <2>3 DEF n
<1>5. IsJoined(F, g, u, Bits)
  BY <1>1, <1>4, JoinedUpToIs DEF F
<1>6. HasParts(F, g, u, Bits)
  BY <1>1, <1>5, PartsOfJoined
<1>7. \A m \in 1..u : /\ Len(F[m]) = Len(F[m - 1]) + 8
                      /\ \A k \in 1..8 : F[u][Len(F[m - 1]) + k] = g[m][k]
  BY <1>4, <1>6 DEF HasParts
<1>8. \A m \in 0..u : F[m] \in Seq(Bits)
  BY <1>6 DEF HasParts
<1> DEFINE T == {m \in 0..u : Len(F[m]) = 8 * m}
<1>9. \A m \in 0..u : m \in T
  <2>1. 0 \in T
    <3>1. F[0] = <<>>
      BY <1>5 DEF IsJoined
    <3> QED
      BY <1>1, <3>1
  <2>2. ASSUME NEW m \in 0..(u - 1), m \in T PROVE m + 1 \in T
    <3>1. m + 1 \in 1..u /\ m + 1 \in 0..u /\ (m + 1) - 1 = m
      BY <1>1
    <3>2. Len(F[m + 1]) = Len(F[m]) + 8
      BY <1>7, <3>1
    <3>3. Len(F[m]) = 8 * m
      BY <2>2
    <3>4. (8 * m) + 8 = 8 * (m + 1)
      OBVIOUS
    <3> QED
      BY <3>1, <3>2, <3>3, <3>4
  <2>3. 0 \in Int /\ u \in Int
    BY <1>1
  <2> HIDE DEF T
  <2> QED
    BY <2>1, <2>2, <2>3, UpTo
<1> DEFINE x == F[u]
<1>10. x \in Seq(Bits) /\ Len(x) = 8 * u
  <2>1. u \in 0..u
    BY <1>1
  <2> QED
    BY <1>8, <1>9, <2>1
<1>11. ASSUME NEW m \in 1..u, NEW k \in 1..8
       PROVE  x[(8 * (m - 1)) + k] = BitOf(bytes[m], k)
  <2>1. m - 1 \in 0..u
    BY <1>1
  <2>2. Len(F[m - 1]) = 8 * (m - 1)
    BY <1>9, <2>1
  <2>3. x[Len(F[m - 1]) + k] = g[m][k]
    BY <1>7
  <2> QED
    BY <1>4, <2>2, <2>3
<1> QED
  BY <1>2, <1>10, <1>11 DEF u, x, g

-----------------------------------------------------------------------------
(* Reading a stored block.                                                 *)

(* The bytes that come are those of the block. *)
LEMMA BytesCome ==
  ASSUME data \in Seq(Bytes), NEW o \in Nat, NEW bytes \in Seq(Bytes),
         o + Len(bytes) <= Len(data),
         Comes(8 * o, Joined(ByteBits(bytes), Len(bytes)))
  PROVE  SubSeq(data, o + 1, o + Len(bytes)) = bytes
<1> DEFINE L == Len(bytes)
           D == Len(data)
           x == Joined(ByteBits(bytes), Len(bytes))
<1>1. L \in Nat /\ D \in Nat /\ o + L <= D
  OBVIOUS
<1>2. /\ x \in Seq(Bits) /\ Len(x) = 8 * L
      /\ \A m \in 1..L : \A k \in 1..8 : x[(8 * (m - 1)) + k] = BitOf(bytes[m], k)
  BY JoinedBytesAre
<1>3. \A k \in 1..Len(x) : (8 * o) + k <= 8 * D => DataBits[(8 * o) + k] = x[k]
  BY DEF Comes
<1> HIDE DEF x
<1>4. ASSUME NEW m \in 1..L PROVE data[o + m] = bytes[m]
  <2> DEFINE p == o + m
  <2>1. p \in 1..D /\ m \in 1..L /\ p \in Nat
    BY <1>1
  <2>2. data[p] \in Bytes /\ bytes[m] \in Bytes
    BY <2>1
  <2>3. ASSUME NEW k \in 1..8 PROVE BitOf(data[p], k) = BitOf(bytes[m], k)
    <3> DEFINE i == (8 * (m - 1)) + k
    <3>1. i \in 1..(8 * L) /\ (8 * o) + i = (8 * (p - 1)) + k /\ (8 * o) + i <= 8 * D
      BY <1>1
    <3>2. x[i] = BitOf(bytes[m], k)
      BY <1>2
    <3> HIDE DEF i, p, L, D
    <3>3. DataBits[(8 * o) + i] = x[i]
      BY <1>2, <1>3, <3>1
    <3>4. BitsOfBytes(data)[(8 * (p - 1)) + k] = BitOf(data[p], k)
      BY <2>1, BitInByte DEF D
    <3> QED
      BY <3>1, <3>2, <3>3, <3>4 DEF DataBits
  <2> HIDE DEF p
  <2>4. data[p] = bytes[m]
    BY <2>2, <2>3, SameBitsSameByte
  <2> QED
    BY <2>4 DEF p
<1> DEFINE a == o + 1
           z == o + L
<1>5. /\ a \in Nat /\ z \in Nat /\ 1 <= a /\ z <= Len(data) /\ Len(bytes) = z - a + 1
      /\ \A i \in 1..L : a + i - 1 = o + i
  BY <1>1
<1>6. \A i \in 1..Len(bytes) : data[a + i - 1] = bytes[i]
  BY <1>4, <1>5
<1> HIDE DEF a, z
<1>7. SubSeq(data, a, z) = bytes
  BY <1>5, <1>6, SubSeqIs
<1> QED
  BY <1>7 DEF a, z

(* What is skipped is what is left in the buffer. *)
LEMMA SkippedIs ==
  ASSUME NEW n \in Nat, NEW o \in Int, NEW size \in 0..7, n = (8 * o) - size
  PROVE  Skipped(n) = size
<1>1. CASE size = 0
  <2>1. n % 8 = 0
    BY <1>1
  <2> QED
    BY <1>1, <2>1 DEF Skipped
<1>2. CASE size # 0
  <2>1. n = (8 * (o - 1)) + (8 - size) /\ 8 - size \in 1..7
    BY <1>2
  <2>2. n % 8 = 8 - size
    BY <2>1
  <2>3. 8 - (n % 8) = size
    BY <2>2
  <2> QED
    BY <1>2, <2>3 DEF Skipped
<1> QED
  BY <1>1, <1>2

(* What comes after one another comes together. *)
LEMMA ComeTogether ==
  ASSUME data \in Seq(Bytes), NEW q \in Nat, NEW x \in Seq(Bits), NEW y \in Seq(Bits),
         Comes(q, x), Comes(q + Len(x), y)
  PROVE  Comes(q, x \o y)
<1> DEFINE X == Len(x)
           Y == Len(y)
           w == x \o y
<1>1. X \in Nat /\ Y \in Nat /\ 8 * Len(data) \in Nat
  OBVIOUS
<1>2. /\ Len(w) = X + Y
      /\ \A i \in 1..X : w[i] = x[i]
      /\ \A i \in (X + 1)..(X + Y) : w[i] = y[i - X]
  BY ConcatenationOf
<1> DEFINE D == 8 * Len(data)
<1>3. /\ \A k \in 1..X : q + k <= D => DataBits[q + k] = x[k]
      /\ \A k \in 1..Y : (q + X) + k <= D => DataBits[(q + X) + k] = y[k]
      /\ input.damage = "none" => (q + X) + Y <= D
  BY DEF Comes
<1> HIDE DEF w, X, Y, D
<1>4. ASSUME NEW k \in 1..(X + Y), q + k <= D PROVE DataBits[q + k] = w[k]
  <2>1. CASE k <= X
    <3>1. k \in 1..X
      BY <1>1, <2>1
    <3> QED
      BY <1>2, <1>3, <1>4, <3>1
  <2>2. CASE k > X
    <3> DEFINE i == k - X
    <3>1. i \in 1..Y /\ k \in (X + 1)..(X + Y) /\ (q + X) + i = q + k
      BY <1>1, <2>2
    <3>2. w[k] = y[i]
      BY <1>2, <3>1
    <3> HIDE DEF i
    <3>3. DataBits[(q + X) + i] = y[i]
      BY <1>3, <1>4, <3>1
    <3> QED
      BY <3>1, <3>2, <3>3
  <2> QED
    BY <1>1, <2>1, <2>2
<1>5. input.damage = "none" => q + (X + Y) <= D
  BY <1>1, <1>3
<1> QED
  BY <1>2, <1>4, <1>5 DEF Comes, w, D

(* The parts of a stored block, after n bits. *)
SkippedBits(n) == [k \in 1..Skipped(n) |-> 0]
FirstWord(b) == LowFirst(Len(b.bytes), 16)
SecondWord(b) == LowFirst(MaximumStored - Len(b.bytes), 16)
BitsOfStored(b) == Joined(ByteBits(b.bytes), Len(b.bytes))

LEMMA StoredBitsAre ==
  ASSUME NEW b, b.bytes \in Seq(Bytes), Len(b.bytes) <= MaximumStored, NEW n \in Nat
  PROVE  LET z == SkippedBits(n)
             x == FirstWord(b)
             y == SecondWord(b)
             w == BitsOfStored(b)
         IN  /\ z \in Seq(Bits) /\ Len(z) = Skipped(n) /\ Skipped(n) \in 0..7
             /\ x \in Seq(Bits) /\ Len(x) = 16 /\ Number(x) = Len(b.bytes)
             /\ y \in Seq(Bits) /\ Len(y) = 16
             /\ \A k \in 1..16 : x[k] # y[k]
             /\ w \in Seq(Bits) /\ Len(w) = 8 * Len(b.bytes)
             /\ StoredBits(n, b) = ((z \o x) \o y) \o w
             /\ StoredBits(n, b) \in Seq(Bits)
             /\ Len(StoredBits(n, b)) = Skipped(n) + 32 + (8 * Len(b.bytes))
<1> DEFINE z == SkippedBits(n)
           x == FirstWord(b)
           y == SecondWord(b)
           w == BitsOfStored(b)
           L == Len(b.bytes)
           M == MaximumStored - L
<1>1. L \in Nat /\ M \in Nat /\ L + M = MaximumStored
  BY DEF MaximumStored
<1>2. Skipped(n) \in 0..7
  BY DEF Skipped
<1>3. z \in Seq(Bits) /\ Len(z) = Skipped(n)
  <2> DEFINE s == Skipped(n)
  <2>1. s \in Nat
    BY <1>2
  <2>2. z = [k \in 1..s |-> 0]
    BY DEF SkippedBits
  <2> HIDE DEF s, z
  <2>3. 0 \in Bits
    BY DEF Bits
  <2>4. z \in [1..s -> Bits]
    BY <2>2, <2>3
  <2> QED
    BY <2>1, <2>4, SequenceOf DEF s
<1> HIDE DEF z
<1>4. /\ x \in Seq(Bits) /\ Len(x) = 16 /\ Number(x) = L
      /\ y \in Seq(Bits) /\ Len(y) = 16
  <2>1. x = LowFirst(L, 16) /\ y = LowFirst(M, 16)
    BY DEF FirstWord, SecondWord
  <2>2. L < 2 ^ 16 /\ 16 \in Nat
    <3>1. 2 ^ 16 = 65536
      OBVIOUS
    <3> QED
      BY <1>1, <3>1 DEF MaximumStored
  <2> DEFINE c == 16
  <2>3. c \in Nat /\ L < 2 ^ c
    BY <2>2
  <2> HIDE DEF c, L, M, x, y
  <2>4. /\ LowFirst(L, c) \in Seq(Bits) /\ Len(LowFirst(L, c)) = c
        /\ LowFirst(M, c) \in Seq(Bits) /\ Len(LowFirst(M, c)) = c
        /\ Number(LowFirst(L, c)) = L
    BY <1>1, <2>3, LowFirstBits, NumberOfLowFirst
  <2> QED
    BY <2>1, <2>4 DEF c
<1>5. \A k \in 1..16 : x[k] # y[k]
  <2>1. x = LowFirst(L, 16) /\ y = LowFirst(M, 16)
    BY DEF FirstWord, SecondWord
  <2> HIDE DEF L, M, x, y
  <2>2. \A k \in 1..16 : LowFirst(L, 16)[k] # LowFirst(M, 16)[k]
    BY <1>1, ComplementIs
  <2> QED
    BY <2>1, <2>2
<1>6. w \in Seq(Bits) /\ Len(w) = 8 * L
  BY JoinedBytesAre DEF BitsOfStored
<1>7. StoredBits(n, b) = ((z \o x) \o y) \o w
  BY DEF StoredBits, SkippedBits, FirstWord, SecondWord, BitsOfStored, z
<1> HIDE DEF x, y, w, L
<1>8. z \o x \in Seq(Bits) /\ Len(z \o x) = Skipped(n) + 16
  <2>1. z \in Seq(Bits) /\ x \in Seq(Bits)
    BY <1>3, <1>4
  <2>2. z \o x \in Seq(Bits) /\ Len(z \o x) = Len(z) + Len(x)
    BY <2>1, ConcatenationOf
  <2> QED
    BY <1>3, <1>4, <2>2
<1>9. (z \o x) \o y \in Seq(Bits) /\ Len((z \o x) \o y) = Skipped(n) + 32
  <2> DEFINE u == z \o x
  <2>1. u \in Seq(Bits) /\ Len(u) = Skipped(n) + 16
    BY <1>8
  <2> HIDE DEF u
  <2>2. u \o y \in Seq(Bits) /\ Len(u \o y) = Len(u) + Len(y)
    BY <1>4, <2>1, ConcatenationOf
  <2> QED
    BY <1>2, <1>4, <2>1, <2>2 DEF u
<1>10. /\ ((z \o x) \o y) \o w \in Seq(Bits)
       /\ Len(((z \o x) \o y) \o w) = Skipped(n) + 32 + (8 * L)
  <2> DEFINE u == (z \o x) \o y
  <2>1. u \in Seq(Bits) /\ Len(u) = Skipped(n) + 32
    BY <1>9
  <2> HIDE DEF u
  <2>2. u \o w \in Seq(Bits) /\ Len(u \o w) = Len(u) + Len(w)
    BY <1>6, <2>1, ConcatenationOf
  <2> QED
    BY <1>6, <2>1, <2>2 DEF u
<1> QED
  BY <1>2, <1>3, <1>4, <1>5, <1>6, <1>7, <1>10 DEF z, x, y, w, L

-----------------------------------------------------------------------------
(* The size of a stored block, and the byte it starts with. *)
IsStoredAt(z, b, q) ==
  /\ z.size = Len(b.bytes)
  /\ IsStream(z.stream)
  /\ Position(z.stream) = q
  /\ 8 * z.stream.offset = q

(* The two words of a stored block. *)
LEMMA WordsAreRead ==
  ASSUME data \in Seq(Bytes), NEW s, IsStream(s), NEW q, Position(s) = q,
         NEW b, b.bytes \in Seq(Bytes), Len(b.bytes) <= MaximumStored,
         Comes(q, FirstWord(b) \o SecondWord(b)), NEW o \in Nat, q = 8 * o
  PROVE  /\ \A v \in Values(s, 32) :
              /\ \A k \in 1..16 : v.bits[k] # v.bits[k + 16]
              /\ IsStoredAt([size |-> Number(SubSeq(v.bits, 1, 16)),
                             stream |-> v.stream], b, q + 32)
         /\ input.damage = "none" => Values(s, 32) # {}
<1> DEFINE x == FirstWord(b)
           y == SecondWord(b)
           t == x \o y
           c == 32
<1>1. /\ x \in Seq(Bits) /\ Len(x) = 16 /\ Number(x) = Len(b.bytes)
      /\ y \in Seq(Bits) /\ Len(y) = 16
      /\ \A k \in 1..16 : x[k] # y[k]
  <2>1. 0 \in Nat
    OBVIOUS
  <2> QED
    BY <2>1, StoredBitsAre
<1>2. Comes(q, t)
  OBVIOUS
<1> HIDE DEF x, y
<1>3. x \in Seq(Bits) /\ y \in Seq(Bits)
  BY <1>1
<1>4. /\ t \in Seq(Bits) /\ Len(t) = 32
      /\ \A k \in 1..16 : t[k] = x[k]
      /\ \A k \in 1..16 : t[k + 16] = y[k]
  <2>1. /\ t \in Seq(Bits) /\ Len(t) = Len(x) + Len(y)
        /\ \A k \in 1..Len(x) : t[k] = x[k]
        /\ \A k \in (Len(x) + 1)..(Len(x) + Len(y)) : t[k] = y[k - Len(x)]
    BY <1>3, ConcatenationOf
  <2> HIDE DEF t
  <2>2. \A k \in 1..16 : t[k + 16] = y[k]
    <3> TAKE k \in 1..16
    <3>1. k + 16 \in (Len(x) + 1)..(Len(x) + Len(y)) /\ (k + 16) - Len(x) = k
      BY <1>1
    <3> QED
      BY <2>1, <3>1
  <2> QED
    BY <1>1, <2>1, <2>2
<1>5. SubSeq(t, 1, 16) = x
  <2>1. t \in Seq(Bits) /\ 1 \in Nat /\ 16 \in Nat /\ 1 <= 1 /\ 16 <= Len(t)
        /\ Len(x) = 16 - 1 + 1
    BY <1>1, <1>4
  <2> HIDE DEF t
  <2>2. \A i \in 1..Len(x) : t[1 + i - 1] = x[i]
    <3> TAKE i \in 1..Len(x)
    <3>1. Len(x) = 16
      BY <1>1
    <3> HIDE DEF x
    <3>2. i \in 1..16 /\ 1 + i - 1 = i
      BY <3>1
    <3> QED
      BY <1>4, <3>2
  <2> QED
    BY <1>3, <2>1, <2>2, SubSeqIs, ZenonT(60)
<1> HIDE DEF t
<1>6. c = Len(t)
  BY <1>4
<1>7. Comes(Position(s), t)
  BY <1>2
<1> HIDE DEF c
<1>8. /\ \A v \in Values(s, c) :
           v.bits = t /\ IsStream(v.stream) /\ Position(v.stream) = Position(s) + c
      /\ input.damage = "none" => Values(s, c) # {}
  <2>1. t \in Seq(Bits)
    BY <1>4
  <2>2. \A bits \in Seq(Bits) : c = Len(bits) /\ Comes(Position(s), bits) =>
          /\ \A v \in Values(s, c) :
               v.bits = bits /\ IsStream(v.stream) /\ Position(v.stream) = Position(s) + c
          /\ input.damage = "none" => Values(s, c) # {}
    BY ReadsWhatComes, Zenon
  <2> QED
    BY <1>6, <1>7, <2>1, <2>2, Zenon
<1>9. ASSUME NEW v \in Values(s, c)
      PROVE  /\ \A k \in 1..16 : v.bits[k] # v.bits[k + 16]
             /\ IsStoredAt([size |-> Number(SubSeq(v.bits, 1, 16)),
                            stream |-> v.stream], b, q + 32)
  <2>1. v.bits = t /\ IsStream(v.stream) /\ Position(v.stream) = q + 32
    BY <1>8 DEF c
  <2>2. \A k \in 1..16 : v.bits[k] # v.bits[k + 16]
    BY <1>1, <1>4, <2>1
  <2>3. Number(SubSeq(v.bits, 1, 16)) = Len(b.bytes)
    BY <1>1, <1>5, <2>1
  <2>4. 8 * v.stream.offset = q + 32
    <3> DEFINE e == v.stream.offset
               l == Len(v.stream.buffer)
               p == Position(v.stream)
    <3>1. p = (8 * e) - l /\ e \in Nat /\ l \in 0..7
      BY <2>1, PositionIsNat
    <3>2. p = (8 * o) + 32
      BY <2>1
    <3> HIDE DEF e, l, p
    <3>3. l = 8 * (e - (o + 4))
      BY <3>1, <3>2
    <3>4. 8 * e = p
      BY <3>1, <3>3
    <3> QED
      BY <2>1, <3>4 DEF e, p
  <2> QED
    BY <2>1, <2>2, <2>3, <2>4 DEF IsStoredAt
<1> QED
  BY <1>8, <1>9 DEF c

(* A stored block after n bits that come at a byte. *)
LEMMA StoredSizeIsRead ==
  ASSUME data \in Seq(Bytes), IsStream(Stream), NEW b, b.bytes \in Seq(Bytes),
         Len(b.bytes) <= MaximumStored, NEW n \in Nat, NEW h \in Nat,
         Position(Stream) = (8 * h) + n, Comes(Position(Stream), StoredBits(n, b))
  PROVE  /\ \A z \in BlockSizes :
              /\ IsStoredAt(z, b, Position(Stream) + Skipped(n) + 32)
              /\ z.stream.offset \in Nat
              /\ z.stream.offset + Len(b.bytes) <= Len(data) =>
                   SubSeq(data, z.stream.offset + 1, z.stream.offset + Len(b.bytes))
                     = b.bytes
         /\ input.damage = "none" =>
              /\ BlockSizes # {}
              /\ \A z \in BlockSizes : z.stream.offset + Len(b.bytes) <= Len(data)
<1> DEFINE q == Position(Stream)
           o == byte_stream_offset
           l == Len(bit_buffer)
           z == SkippedBits(n)
           x == FirstWord(b)
           y == SecondWord(b)
           w == BitsOfStored(b)
           L == Len(b.bytes)
<1>1. q \in Nat /\ q = (8 * o) - l /\ o \in Nat /\ l \in 0..7
  <2>1. Stream.offset = byte_stream_offset /\ Stream.buffer = bit_buffer
    BY DEF Stream
  <2> QED
    BY <2>1, PositionIsNat
<1>2. Skipped(n) = l
  <2>0. q = (8 * h) + n
    OBVIOUS
  <2> HIDE DEF q, o, l
  <2>1. n = (8 * (o - h)) - l
    BY <1>1, <2>0
  <2> DEFINE i == o - h
  <2>2. i \in Int /\ n = (8 * i) - l
    BY <1>1, <2>1
  <2> HIDE DEF i
  <2> QED
    BY <1>1, <2>2, SkippedIs
<1>3. SkipBits = l
  <2>1. SkipBits = l % 8
    BY DEF SkipBits
  <2> HIDE DEF l
  <2>2. l % 8 = l
    BY <1>1
  <2> QED
    BY <2>1, <2>2
<1>4. /\ z \in Seq(Bits) /\ Len(z) = l
      /\ x \in Seq(Bits) /\ Len(x) = 16
      /\ y \in Seq(Bits) /\ Len(y) = 16
      /\ w \in Seq(Bits) /\ Len(w) = 8 * L
      /\ StoredBits(n, b) = ((z \o x) \o y) \o w
      /\ Len(StoredBits(n, b)) = l + 32 + (8 * L)
  BY <1>2, StoredBitsAre
<1>5. Comes(q, StoredBits(n, b))
  OBVIOUS
<1>6. L \in Nat /\ Len(data) \in Nat
  OBVIOUS
<1> HIDE DEF q, o, l, z, x, y, w, L
<1>7. z \in Seq(Bits) /\ x \in Seq(Bits) /\ y \in Seq(Bits) /\ w \in Seq(Bits)
  BY <1>4
<1>8. z \o x \in Seq(Bits) /\ Len(z \o x) = l + 16
  <2>1. z \o x \in Seq(Bits) /\ Len(z \o x) = Len(z) + Len(x)
    BY <1>7, ConcatenationOf
  <2> QED
    BY <1>4, <2>1
<1> DEFINE u == z \o x
           t == u \o y
<1>9. t \in Seq(Bits) /\ Len(t) = l + 32
  <2>1. u \in Seq(Bits)
    BY <1>8
  <2>2. Len(u) = l + 16
    BY <1>8
  <2> HIDE DEF u
  <2>3. u \o y \in Seq(Bits) /\ Len(u \o y) = Len(u) + Len(y)
    BY <1>7, <2>1, ConcatenationOf
  <2> QED
    BY <1>1, <1>4, <2>2, <2>3
<1>10. Comes(q, t) /\ Comes(q + (l + 32), w)
  <2>1. t \in Seq(Bits) /\ Comes(q, t \o w)
    BY <1>4, <1>5, <1>9
  <2> HIDE DEF t
  <2>2. Comes(q, t) /\ Comes(q + Len(t), w)
    BY <1>1, <1>7, <2>1, PartsCome
  <2> QED
    BY <1>9, <2>2
<1>11. Comes(q, u) /\ Comes(q + (l + 16), y)
  <2>1. u \in Seq(Bits) /\ Comes(q, u \o y)
    BY <1>8, <1>10
  <2> HIDE DEF u
  <2>2. Comes(q, u) /\ Comes(q + Len(u), y)
    BY <1>1, <1>7, <2>1, PartsCome
  <2> QED
    BY <1>8, <2>2 DEF u
<1>12. Comes(q, z) /\ Comes(q + l, x)
  <2>1. Comes(q, z) /\ Comes(q + Len(z), x)
    BY <1>1, <1>7, <1>11, PartsCome
  <2> QED
    BY <1>4, <2>1
<1> HIDE DEF u, t
<1> DEFINE p == q + l
<1>13. p \in Nat /\ p = 8 * o /\ p + Len(x) = q + (l + 16) /\ p + 32 = q + (l + 32)
       /\ p + 32 = q + l + 32 /\ p + 32 = 8 * (o + 4)
  BY <1>1, <1>4
<1> HIDE DEF p
<1>14. Comes(p, x \o y)
  <2>1. Comes(p, x)
    BY <1>12 DEF p
  <2>2. Comes(p + Len(x), y)
    BY <1>11, <1>13
  <2> QED
    BY <1>7, <1>13, <2>1, <2>2, ComeTogether
<1>15. /\ \A v \in Values(Stream, l) : IsStream(v.stream) /\ Position(v.stream) = p
       /\ input.damage = "none" => Values(Stream, l) # {}
  <2>1. l = Len(z) /\ Comes(Position(Stream), z)
    BY <1>4, <1>12 DEF q
  <2> HIDE DEF z
  <2>2. /\ \A v \in Values(Stream, l) :
             v.bits = z /\ IsStream(v.stream) /\ Position(v.stream) = Position(Stream) + l
        /\ input.damage = "none" => Values(Stream, l) # {}
    BY <1>7, <2>1, ReadsWhatComes
  <2> QED
    BY <2>2 DEF p, q
<1>16. ASSUME NEW v \in Values(Stream, l)
       PROVE  /\ \A r \in Values(v.stream, 32) :
                   /\ \A k \in 1..16 : r.bits[k] # r.bits[k + 16]
                   /\ IsStoredAt([size |-> Number(SubSeq(r.bits, 1, 16)),
                                  stream |-> r.stream], b, p + 32)
              /\ input.damage = "none" => Values(v.stream, 32) # {}
  <2> DEFINE s == v.stream
  <2>1. IsStream(s) /\ Position(s) = p
    BY <1>15
  <2>2. Comes(p, FirstWord(b) \o SecondWord(b))
    BY <1>14 DEF x, y
  <2> HIDE DEF s
  <2>3. /\ \A r \in Values(s, 32) :
             /\ \A k \in 1..16 : r.bits[k] # r.bits[k + 16]
             /\ IsStoredAt([size |-> Number(SubSeq(r.bits, 1, 16)),
                            stream |-> r.stream], b, p + 32)
        /\ input.damage = "none" => Values(s, 32) # {}
    BY <1>1, <1>13, <2>1, <2>2, WordsAreRead, ZenonT(60)
  <2> QED
    BY <2>3 DEF s
<1>17. ASSUME NEW d \in BlockSizes PROVE IsStoredAt(d, b, p + 32)
  <2>1. PICK r : /\ r \in UNION {Values(v.stream, 32) : v \in Values(Stream, l)}
                 /\ d = [size |-> Number(SubSeq(r.bits, 1, 16)), stream |-> r.stream]
    BY <1>3 DEF BlockSizes
  <2>2. PICK v \in Values(Stream, l) : r \in Values(v.stream, 32)
    BY <2>1
  <2> QED
    BY <1>16, <2>1, <2>2
<1>18. input.damage = "none" => BlockSizes # {}
  <2> SUFFICES ASSUME input.damage = "none" PROVE BlockSizes # {}
    OBVIOUS
  <2>1. PICK v \in Values(Stream, l) : TRUE
    BY <1>15
  <2>2. PICK r \in Values(v.stream, 32) : TRUE
    BY <1>16
  <2>3. /\ r \in UNION {Values(e.stream, 32) : e \in Values(Stream, SkipBits)}
        /\ \A k \in 1..16 : r.bits[k] # r.bits[k + 16]
    BY <1>3, <1>16
  <2>4. [size |-> Number(SubSeq(r.bits, 1, 16)), stream |-> r.stream] \in BlockSizes
    BY <2>3 DEF BlockSizes
  <2> QED
    BY <2>4
<1>19. ASSUME NEW d \in BlockSizes
       PROVE  /\ d.stream.offset \in Nat
              /\ d.stream.offset + L <= Len(data) =>
                   SubSeq(data, d.stream.offset + 1, d.stream.offset + L) = b.bytes
              /\ input.damage = "none" => d.stream.offset + L <= Len(data)
  <2> DEFINE e == d.stream.offset
  <2>1. 8 * e = p + 32 /\ IsStream(d.stream)
    BY <1>17 DEF IsStoredAt
  <2>2. e \in Nat
    BY <2>1 DEF IsStream
  <2>3. Comes(8 * e, Joined(ByteBits(b.bytes), Len(b.bytes)))
    BY <1>10, <1>13, <2>1 DEF w, BitsOfStored
  <2> HIDE DEF e
  <2>4. e + L <= Len(data) => SubSeq(data, e + 1, e + L) = b.bytes
    BY <2>2, <2>3, BytesCome DEF L
  <2>5. input.damage = "none" => e + L <= Len(data)
    <3> SUFFICES ASSUME input.damage = "none" PROVE e + L <= Len(data)
      OBVIOUS
    <3>1. q + Len(StoredBits(n, b)) <= 8 * Len(data)
      BY <1>5 DEF Comes
    <3>2. q + (l + 32 + (8 * L)) <= 8 * Len(data)
      BY <1>4, <3>1
    <3>3. 8 * e = q + l + 32
      BY <1>13, <2>1
    <3> QED
      BY <1>1, <1>6, <2>2, <3>2, <3>3
  <2> QED
    BY <2>2, <2>4, <2>5 DEF e
<1>20. p + 32 = Position(Stream) + Skipped(n) + 32
  BY <1>2 DEF p, q
<1> QED
  BY <1>17, <1>18, <1>19, <1>20 DEF L

-----------------------------------------------------------------------------
(* The bits of a block, and of a message.                                  *)

(* The header of a block says its kind, and whether it is the last. *)
LEMMA BlockHeaderIs ==
  ASSUME NEW b, b.kind \in {"stored", "fixed", "dynamic"}, NEW last \in BOOLEAN
  PROVE  LET x == BlockHeader(b, last)
             n == Number(SubSeq(x, 2, 3))
         IN  /\ x \in Seq(Bits) /\ Len(x) = 3
             /\ (x[1] = 1) = last
             /\ n # 3
             /\ <<"stored", "fixed", "dynamic">>[n + 1] = b.kind
<1> DEFINE n == CASE b.kind = "stored" -> 0
                  [] b.kind = "fixed" -> 1
                  [] b.kind = "dynamic" -> 2
           f == <<IF last THEN 1 ELSE 0>>
           c == 2
           y == LowFirst(n, c)
           x == f \o y
<1>1. BlockHeader(b, last) = x
  BY DEF BlockHeader
<1>2. n \in 0..2 /\ <<"stored", "fixed", "dynamic">>[n + 1] = b.kind
  <2>1. CASE b.kind = "stored"
    <3>1. n = 0
      BY <2>1
    <3> QED
      BY <2>1, <3>1
  <2>2. CASE b.kind = "fixed"
    <3>1. n = 1
      BY <2>2
    <3> QED
      BY <2>2, <3>1
  <2>3. CASE b.kind = "dynamic"
    <3>1. n = 2
      BY <2>3
    <3> QED
      BY <2>3, <3>1
  <2> QED
    BY <2>1, <2>2, <2>3
<1>3. f \in Seq(Bits) /\ Len(f) = 1 /\ (f[1] = 1) = last
  BY DEF Bits
<1> HIDE DEF n, f
<1>4. y \in Seq(Bits) /\ Len(y) = 2 /\ Number(y) = n
  <2>1. n \in Nat /\ c \in Nat /\ n < 2 ^ c
    BY <1>2
  <2> HIDE DEF c
  <2>2. y \in Seq(Bits) /\ Len(y) = c /\ Number(y) = n
    BY <2>1, LowFirstBits, NumberOfLowFirst
  <2> QED
    BY <2>2 DEF c
<1> HIDE DEF y
<1>5. /\ x \in Seq(Bits) /\ Len(x) = 3 /\ x[1] = f[1]
      /\ \A i \in 1..2 : x[2 + i - 1] = y[i]
  <2>1. f \in Seq(Bits) /\ y \in Seq(Bits)
    BY <1>3, <1>4
  <2>2. /\ x \in Seq(Bits) /\ Len(x) = Len(f) + Len(y)
        /\ \A i \in 1..Len(f) : x[i] = f[i]
        /\ \A i \in (Len(f) + 1)..(Len(f) + Len(y)) : x[i] = y[i - Len(f)]
    BY <2>1, ConcatenationOf
  <2> HIDE DEF x
  <2>3. \A i \in 1..2 : x[2 + i - 1] = y[i]
    <3> TAKE i \in 1..2
    <3>1. 2 + i - 1 \in (Len(f) + 1)..(Len(f) + Len(y)) /\ (2 + i - 1) - Len(f) = i
      BY <1>3, <1>4
    <3> QED
      BY <2>2, <3>1
  <2> QED
    BY <1>3, <1>4, <2>2, <2>3
<1> HIDE DEF x
<1>6. SubSeq(x, 2, 3) = y
  <2>1. x \in Seq(Bits) /\ y \in Seq(Bits)
    BY <1>4, <1>5
  <2>2. /\ 2 \in Nat /\ 3 \in Nat /\ 1 <= 2 /\ 3 <= Len(x) /\ Len(y) = 3 - 2 + 1
        /\ \A i \in 1..Len(y) : x[2 + i - 1] = y[i]
    BY <1>4, <1>5
  <2> QED
    BY <2>1, <2>2, SubSeqIs
<1>7. Number(SubSeq(x, 2, 3)) = n
  BY <1>4, <1>6
<1>8. (x[1] = 1) = last
  BY <1>3, <1>5
<1> QED
  BY <1>1, <1>2, <1>5, <1>7, <1>8

(* The kinds of blocks. *)
LEMMA KindsAre ==
  ASSUME NEW text, NEW b, IsBlock(text, b)
  PROVE  b.kind \in {"stored", "fixed", "dynamic"}
BY DEF IsBlock

(* A block that is not stored has trees, and items after a text. *)
LEMMA BlockHasTrees ==
  ASSUME NEW text \in Seq(Bytes), NEW b, IsBlock(text, b), b.kind # "stored"
  PROVE  /\ HasTrees(b)
         /\ AreItemTexts(ItemTexts(text, b.items), text, b)
         /\ b.kind = "dynamic" => AreTrees(b)
<1>1. AreItems(text, b) /\ (b.kind = "fixed" \/ (b.kind = "dynamic" /\ AreTrees(b)))
  BY DEF IsBlock
<1>2. AreItemTexts(ItemTexts(text, b.items), text, b)
  BY <1>1, ItemTextsAre
<1>3. HasTrees(b)
  BY <1>1, FixedHasTrees, DynamicHasTrees
<1> QED
  BY <1>1, <1>2, <1>3

(* What comes after the header of a block that n bits precede. *)
BlockBody(n, b) ==
  CASE b.kind = "stored" -> StoredBits(n + 3, b)
    [] b.kind = "fixed" -> BlockItemsBits(b)
    [] b.kind = "dynamic" -> TreesBits(b) \o BlockItemsBits(b)

LEMMA BlockBodyIs ==
  ASSUME NEW text \in Seq(Bytes), NEW b, IsBlock(text, b), NEW n \in Nat
  PROVE  /\ BlockBody(n, b) \in Seq(Bits)
         /\ Len(BlockBody(n, b)) >= 5
         /\ b.kind = "stored" => BlockBody(n, b) = StoredBits(n + 3, b)
         /\ b.kind = "fixed" => BlockBody(n, b) = BlockItemsBits(b)
         /\ b.kind = "dynamic" =>
              /\ BlockBody(n, b) = TreesBits(b) \o BlockItemsBits(b)
              /\ Len(BlockBody(n, b)) = Len(TreesBits(b)) + Len(BlockItemsBits(b))
<1>1. b.kind \in {"stored", "fixed", "dynamic"}
  BY KindsAre
<1>2. /\ b.kind = "stored" => BlockBody(n, b) = StoredBits(n + 3, b)
      /\ b.kind = "fixed" => BlockBody(n, b) = BlockItemsBits(b)
      /\ b.kind = "dynamic" => BlockBody(n, b) = TreesBits(b) \o BlockItemsBits(b)
  BY DEF BlockBody
<1>3. ASSUME b.kind = "stored"
      PROVE  StoredBits(n + 3, b) \in Seq(Bits) /\ Len(StoredBits(n + 3, b)) >= 5
  <2>1. b.bytes \in Seq(Bytes) /\ Len(b.bytes) <= MaximumStored
    BY <1>3, TextAfterBlockIs
  <2> DEFINE m == n + 3
             L == Len(b.bytes)
  <2>2. m \in Nat
    OBVIOUS
  <2> HIDE DEF m
  <2>3. /\ StoredBits(m, b) \in Seq(Bits)
        /\ Len(StoredBits(m, b)) = Skipped(m) + 32 + (8 * L) /\ Skipped(m) \in 0..7
    BY <2>1, <2>2, StoredBitsAre
  <2>4. L \in Nat
    BY <2>1
  <2> HIDE DEF L
  <2>5. Len(StoredBits(m, b)) >= 5
    BY <2>3, <2>4
  <2> QED
    BY <2>3, <2>5 DEF m
<1>4. ASSUME b.kind # "stored"
      PROVE  /\ BlockItemsBits(b) \in Seq(Bits)
             /\ b.kind = "fixed" => Len(BlockItemsBits(b)) >= 5
  <2> DEFINE F == ItemsUpTo(b)
             m == Len(b.items)
             l == LiteralSizes(b)
             e == Code(l, 256)
  <2>1. HasTrees(b) /\ AreItemTexts(ItemTexts(text, b.items), text, b)
    BY <1>4, BlockHasTrees
  <2>2. /\ m \in Nat /\ \A k \in 0..m : F[k] \in Seq(Bits)
        /\ BlockItemsBits(b) \in Seq(Bits)
        /\ Len(BlockItemsBits(b)) = Len(F[m]) + Len(e)
    BY <2>1, ItemsAreJoined
  <2>3. Len(F[m]) \in Nat
    <3> HIDE DEF F, m
    <3>1. m \in 0..m
      BY <2>2
    <3> QED
      BY <2>2, <3>1
  <2>4. ASSUME b.kind = "fixed" PROVE Len(e) = 7
    <3>1. AreCodes(l) /\ HasCode(l, 256)
      BY <2>1 DEF HasTrees
    <3>2. l = FixedLiteralSizes
      BY <2>4, FixedHasTrees
    <3>3. FixedLiteralSizes[257] = 7
      BY DEF FixedLiteralSizes
    <3> HIDE DEF l
    <3> DEFINE s == 256
    <3>4. s \in Nat /\ s + 1 = 257
      OBVIOUS
    <3> HIDE DEF s
    <3>5. Len(Code(l, s)) = l[s + 1]
      BY <3>1, <3>4, CodeIs DEF s
    <3> QED
      BY <3>2, <3>3, <3>4, <3>5 DEF s
  <2> HIDE DEF F, m, e
  <2>5. b.kind = "fixed" => Len(BlockItemsBits(b)) >= 5
    <3> DEFINE a == Len(F[m])
               c == Len(BlockItemsBits(b))
               d == Len(e)
    <3>1. c = a + d /\ a \in Nat /\ (b.kind = "fixed" => d = 7)
      BY <2>2, <2>3, <2>4, Zenon
    <3> HIDE DEF a, c, d
    <3>2. b.kind = "fixed" => c >= 5
      BY <3>1
    <3> QED
      BY <3>2 DEF c
  <2> QED
    BY <2>2, <2>5
<1>5. ASSUME b.kind = "dynamic"
      PROVE  LET w == TreesBits(b) \o BlockItemsBits(b)
             IN  /\ w \in Seq(Bits) /\ Len(w) >= 5
                 /\ Len(w) = Len(TreesBits(b)) + Len(BlockItemsBits(b))
  <2>1. AreTrees(b)
    BY <1>5 DEF IsBlock
  <2> DEFINE y == TreesBits(b)
             z == BlockItemsBits(b)
             G == SizesBitsUpTo(b)
             m == Len(b.code_sizes)
  <2>2. /\ m \in Nat /\ \A k \in 0..m : G[k] \in Seq(Bits)
        /\ y \in Seq(Bits) /\ Len(y) = 14 + (3 * b.used) + Len(G[m])
    BY <2>1, TreesBitsAre
  <2>3. b.used \in 4..19
    BY <2>1 DEF AreTrees
  <2>4. z \in Seq(Bits)
    BY <1>4, <1>5
  <2> HIDE DEF y, z, G, m
  <2>5. Len(G[m]) \in Nat
    <3>1. m \in 0..m
      BY <2>2
    <3> QED
      BY <2>2, <3>1
  <2>6. y \in Seq(Bits) /\ Len(y) >= 5
    <3> DEFINE a == Len(G[m])
               c == Len(y)
    <3>1. c = 14 + (3 * b.used) + a /\ a \in Nat
      BY <2>2, <2>5
    <3> DEFINE u == b.used
    <3>3. c = 14 + (3 * u) + a /\ u \in Nat
      BY <2>3, <3>1
    <3> HIDE DEF a, c, u
    <3>2. c >= 5
      BY <3>1, <3>3
    <3> QED
      BY <2>2, <3>2 DEF c
  <2>7. y \o z \in Seq(Bits) /\ Len(y \o z) = Len(y) + Len(z)
    BY <2>4, <2>6, ConcatenationOf
  <2>8. Len(y \o z) >= 5
    BY <2>4, <2>6, <2>7
  <2> QED
    BY <2>7, <2>8 DEF y, z
<1> QED
  BY <1>1, <1>2, <1>3, <1>4, <1>5

(* The bits of a block that n bits precede. *)
LEMMA BlockBitsAre ==
  ASSUME NEW text \in Seq(Bytes), NEW b, IsBlock(text, b), NEW n \in Nat,
         NEW last \in BOOLEAN
  PROVE  /\ BlockHeader(b, last) \in Seq(Bits) /\ Len(BlockHeader(b, last)) = 3
         /\ BlockBody(n, b) \in Seq(Bits)
         /\ BlockBits(n, b, last) = BlockHeader(b, last) \o BlockBody(n, b)
         /\ BlockBits(n, b, last) \in Seq(Bits)
         /\ Len(BlockBits(n, b, last)) = 3 + Len(BlockBody(n, b))
         /\ Len(BlockBits(n, b, last)) >= 8
<1> DEFINE x == BlockHeader(b, last)
           y == BlockBody(n, b)
<1>1. x \in Seq(Bits) /\ Len(x) = 3
  BY KindsAre, BlockHeaderIs
<1>2. y \in Seq(Bits) /\ Len(y) >= 5
  BY BlockBodyIs
<1>3. BlockBits(n, b, last) = x \o y
  BY DEF BlockBits, BlockBody
<1> HIDE DEF x, y
<1>4. x \o y \in Seq(Bits) /\ Len(x \o y) = Len(x) + Len(y)
  <2>1. x \in Seq(Bits) /\ y \in Seq(Bits)
    BY <1>1, <1>2
  <2> QED
    BY <2>1, ConcatenationOf
<1>5. Len(x \o y) >= 8
  BY <1>1, <1>2, <1>4
<1> QED
  BY <1>1, <1>2, <1>3, <1>4, <1>5 DEF x, y

-----------------------------------------------------------------------------
(* The blocks of a message, in the data.                                   *)

BitsOfBlocks(B) ==
  [k \in 1..Len(B) |-> BlockBits(Len(BitsUpTo(B)[k - 1]), B[k], k = Len(B))]

LEMMA MessageIsJoined ==
  ASSUME NEW B, IsMessage(B)
  PROVE  /\ Len(B) \in Nat \ {0}
         /\ IsJoined(BitsUpTo(B), BitsOfBlocks(B), Len(B), Bits)
<1> DEFINE N == Len(B)
           F == BitsUpTo(B)
           T == BlockTexts(B)
           G == BitsOfBlocks(B)
<1>1. N \in Nat \ {0} /\ AreTexts(T, N) /\ \A k \in 1..N : IsBlock(T[k - 1], B[k])
  BY BlockTextsAre DEF AreBlockTexts
<1>2. \A k \in 0..N : T[k] \in Seq(Bytes)
  BY <1>1 DEF AreTexts
<1>3. /\ F = [k \in 0..N |-> F[k]] /\ F[0] = <<>>
      /\ \A k \in 1..N : F[k] = F[k - 1] \o BlockBits(Len(F[k - 1]), B[k], k = N)
  BY <1>1, BitsByRecursion
<1>4. \A k \in 1..N : G[k] = BlockBits(Len(F[k - 1]), B[k], k = N)
  BY DEF BitsOfBlocks
<1> HIDE DEF N, F, T, G
<1>5. ASSUME NEW k \in 1..N, F[k - 1] \in Seq(Bits)
      PROVE  G[k] \in Seq(Bits) /\ F[k] = F[k - 1] \o G[k] /\ F[k] \in Seq(Bits)
  <2> DEFINE n == Len(F[k - 1])
             last == (k = N)
             t == T[k - 1]
             b == B[k]
             g == G[k]
             f == F[k - 1]
  <2>1. n \in Nat /\ last \in BOOLEAN
    BY <1>5
  <2>2. t \in Seq(Bytes) /\ IsBlock(t, b)
    <3>1. k - 1 \in 0..N
      BY <1>1
    <3> QED
      BY <1>1, <1>2, <3>1
  <2>3. g = BlockBits(n, b, last) /\ F[k] = f \o g
    BY <1>3, <1>4
  <2>4. f \in Seq(Bits)
    BY <1>5
  <2> HIDE DEF n, last, t, b, g, f
  <2>5. g \in Seq(Bits)
    BY <2>1, <2>2, <2>3, BlockBitsAre
  <2>6. f \o g \in Seq(Bits)
    BY <2>4, <2>5, ConcatenationOf
  <2> QED
    BY <2>3, <2>5, <2>6 DEF f, g
<1> DEFINE S == {k \in 0..N : F[k] \in Seq(Bits)}
<1>6. \A k \in 0..N : k \in S
  <2>1. 0 \in S
    <3>0. <<>> \in Seq(Bits) /\ F[0] = <<>>
      BY <1>3
    <3>1. F[0] \in Seq(Bits)
      BY <3>0, Zenon
    <3> QED
      BY <1>1, <3>1
  <2>2. ASSUME NEW k \in 0..(N - 1), k \in S PROVE k + 1 \in S
    <3> DEFINE m == k + 1
    <3>1. m \in 1..N /\ m \in 0..N /\ m - 1 = k
      BY <1>1
    <3> HIDE DEF m
    <3>2. F[m - 1] \in Seq(Bits)
      BY <2>2, <3>1
    <3>3. F[m] \in Seq(Bits)
      BY <1>5, <3>1, <3>2
    <3> QED
      BY <3>1, <3>3 DEF m
  <2>3. 0 \in Int /\ N \in Int
    BY <1>1
  <2> HIDE DEF S
  <2> QED
    BY <2>1, <2>2, <2>3, UpTo
<1>7. \A k \in 1..N : G[k] \in Seq(Bits) /\ F[k] = F[k - 1] \o G[k]
  <2> TAKE k \in 1..N
  <2>1. k - 1 \in 0..N
    BY <1>1
  <2>2. F[k - 1] \in Seq(Bits)
    BY <1>6, <2>1
  <2> QED
    BY <1>5, <2>2
<1>8. IsJoined(F, G, N, Bits)
  <2>1. N \in Nat
    BY <1>1
  <2> QED
    BY <1>3, <1>7, <2>1, JoinedIs
<1> QED
  BY <1>1, <1>8 DEF N, F, G

(* Where a block ends when the message starts after q bits, and the text up *)
(* to there.                                                                *)
BlockAt(B, q, j) == q + Len(BitsUpTo(B)[j])
TextAt(B, j) == BlockTexts(B)[j]
BitsBefore(B, j) == Len(BitsUpTo(B)[j])

(* The texts of the blocks are beginnings of the text of the message. *)
LEMMA TextsOfBlocks ==
  ASSUME NEW B, IsMessage(B), NEW j \in 1..Len(B)
  PROVE  /\ Len(B) \in Nat /\ j - 1 \in 0..Len(B) /\ j \in 0..Len(B)
         /\ TextAt(B, j - 1) \in Seq(Bytes) /\ TextAt(B, j) \in Seq(Bytes)
         /\ IsBlock(TextAt(B, j - 1), B[j])
         /\ TextAt(B, j) = TextAfterBlock(TextAt(B, j - 1), B[j])
         /\ TextAt(B, 0) = <<>>
<1> DEFINE N == Len(B)
           T == BlockTexts(B)
<1>1. /\ N \in Nat /\ AreTexts(T, N) /\ T[0] = <<>>
      /\ \A k \in 1..N : T[k] = TextAfterBlock(T[k - 1], B[k]) /\ IsBlock(T[k - 1], B[k])
  BY BlockTextsAre DEF AreBlockTexts
<1>2. \A k \in 0..N : T[k] \in Seq(Bytes)
  BY <1>1 DEF AreTexts
<1> HIDE DEF T
<1>3. j - 1 \in 0..N /\ j \in 0..N
  BY <1>1
<1> QED
  BY <1>1, <1>2, <1>3 DEF T, TextAt

LEMMA TextsOfMessage ==
  ASSUME NEW B, IsMessage(B), NEW j \in 0..Len(B)
  PROVE  /\ TextAt(B, j) \in Seq(Bytes) /\ Text(B) \in Seq(Bytes)
         /\ Begins(TextAt(B, j), Text(B))
         /\ j = Len(B) => TextAt(B, j) = Text(B)
<1> DEFINE N == Len(B)
           T == BlockTexts(B)
<1>1. N \in Nat /\ AreTexts(T, N)
  BY BlockTextsAre DEF AreBlockTexts
<1>2. N \in 0..N
  BY <1>1
<1>3. T[j] \in Seq(Bytes) /\ T[N] \in Seq(Bytes) /\ Begins(T[j], T[N])
  BY <1>1, <1>2, TextsAreBeginnings
<1> QED
  BY <1>3 DEF TextAt, Text

(* Where the parts of a block come. *)
IsBlockAt(B, q, j) ==
  /\ BlockAt(B, q, j - 1) \in Nat
  /\ BitsBefore(B, j - 1) \in Nat
  /\ BlockAt(B, q, j - 1) = q + BitsBefore(B, j - 1)
  /\ Comes(BlockAt(B, q, j - 1), BlockHeader(B[j], j = Len(B)))
  /\ Comes(BlockAt(B, q, j - 1) + 3, BlockBody(BitsBefore(B, j - 1), B[j]))
  /\ BlockAt(B, q, j) =
       BlockAt(B, q, j - 1) + 3 + Len(BlockBody(BitsBefore(B, j - 1), B[j]))
  /\ BlockAt(B, q, j) >= BlockAt(B, q, j - 1) + 8
  /\ BlockAt(B, q, j) \in Nat

LEMMA BlockComes ==
  ASSUME data \in Seq(Bytes), NEW B, IsMessage(B), NEW q \in Nat,
         Comes(q, MessageBits(B)), NEW j \in 1..Len(B)
  PROVE  IsBlockAt(B, q, j)
<1> DEFINE N == Len(B)
           F == BitsUpTo(B)
           G == BitsOfBlocks(B)
           n == Len(F[j - 1])
           b == B[j]
           last == (j = N)
           x == BlockHeader(b, last)
           y == BlockBody(n, b)
           t == TextAt(B, j - 1)
<1>1. N \in Nat \ {0} /\ IsJoined(F, G, N, Bits)
  BY MessageIsJoined
<1>2. Comes(q, F[N])
  BY DEF MessageBits
<1>3. G[j] = BlockBits(n, b, last)
  BY DEF BitsOfBlocks
<1>4. t \in Seq(Bytes) /\ IsBlock(t, b) /\ j - 1 \in 0..N /\ j \in 0..N
  BY TextsOfBlocks
<1> HIDE DEF F, G, x, y, t, b
<1>5. N \in Nat /\ j \in 1..N
  BY <1>1
<1>6. Comes(q + Len(F[j - 1]), G[j])
  <2> HIDE DEF N
  <2> QED
    BY <1>1, <1>2, <1>5, JoinedComes
<1>7. /\ F[j - 1] \in Seq(Bits) /\ F[j] \in Seq(Bits)
      /\ Len(F[j]) = Len(F[j - 1]) + Len(G[j])
  <2> HIDE DEF N
  <2>1. HasParts(F, G, N, Bits)
    BY <1>1, <1>5, PartsOfJoined
  <2> QED
    BY <1>4, <1>5, <2>1 DEF HasParts
<1>8. n \in Nat /\ last \in BOOLEAN
  BY <1>7
<1> HIDE DEF n, last
<1>9. /\ x \in Seq(Bits) /\ Len(x) = 3 /\ y \in Seq(Bits)
      /\ G[j] = x \o y
      /\ Len(G[j]) = 3 + Len(y)
      /\ Len(G[j]) >= 8
  BY <1>3, <1>4, <1>8, BlockBitsAre DEF x, y
<1> DEFINE p == q + n
<1>10. p \in Nat /\ Comes(p, x \o y)
  BY <1>6, <1>8, <1>9 DEF n
<1>11. Comes(p, x) /\ Comes(p + 3, y)
  <2>1. x \in Seq(Bits) /\ y \in Seq(Bits)
    BY <1>9
  <2> HIDE DEF p
  <2>2. Comes(p, x) /\ Comes(p + Len(x), y)
    BY <1>10, <2>1, PartsCome
  <2> QED
    BY <1>9, <2>2
<1>12. /\ q + Len(F[j]) = p + 3 + Len(y)
       /\ q + Len(F[j]) >= p + 8
       /\ q + Len(F[j]) \in Nat
  <2> DEFINE a == Len(F[j])
             c == Len(G[j])
             d == Len(y)
  <2>1. a = n + c /\ c = 3 + d /\ c >= 8 /\ d \in Nat
    <3>1. y \in Seq(Bits)
      BY <1>9
    <3>2. d \in Nat
      BY <3>1
    <3> QED
      BY <1>7, <1>9, <3>2 DEF n
  <2> HIDE DEF a, c, d
  <2>2. q + a = p + 3 + d /\ q + a >= p + 8 /\ q + a \in Nat
    BY <1>8, <2>1
  <2> QED
    BY <2>2 DEF a, d
<1> QED
  BY <1>8, <1>10, <1>11, <1>12
     DEF IsBlockAt, BlockAt, BitsBefore, x, y, b, n, last, F
=============================================================================
