------------------------------- MODULE Powers -------------------------------
(***************************************************************************)
(* Powers of two, which the widths of registers and of loads and the sizes  *)
(* of PCI BARs are.  Exponentiation has no laws the provers know, but 2^n   *)
(* is the number of subsets of a set of n numbers, and of these there is a  *)
(* theorem (FS_SUBSET).                                                     *)
(***************************************************************************)
EXTENDS Integers, FiniteSetTheorems, TLAPS

(* 2^n is the number of subsets of n numbers.                               *)
LEMMA PowerIsCount ==
  ASSUME NEW a \in Nat, NEW n \in Nat
  PROVE  /\ IsFiniteSet(SUBSET (a + 1 .. a + n))
         /\ Cardinality(SUBSET (a + 1 .. a + n)) = 2 ^ n
<1> DEFINE S == a + 1 .. a + n
<1>1. a + 1 \in Int /\ a + n \in Int
  OBVIOUS
<1>2. IsFiniteSet(S) /\ Cardinality(S) = IF a + 1 > a + n THEN 0 ELSE (a + n) - (a + 1) + 1
  BY <1>1, FS_Interval, Zenon
<1>3. Cardinality(S) = n
  BY <1>2
<1> HIDE DEF S
<1>4. IsFiniteSet(SUBSET S) /\ Cardinality(SUBSET S) = 2 ^ Cardinality(S)
  BY <1>2, FS_SUBSET
<1> QED
  BY <1>3, <1>4 DEF S

(* There is a subset, the empty one.                                        *)
LEMMA PowerPositive ==
  ASSUME NEW n \in Nat
  PROVE  2 ^ n \in Nat /\ 2 ^ n >= 1
<1>1. IsFiniteSet(SUBSET (0 + 1 .. 0 + n)) /\ Cardinality(SUBSET (0 + 1 .. 0 + n)) = 2 ^ n
  BY PowerIsCount
<1>2. SUBSET (0 + 1 .. 0 + n) # {}
  OBVIOUS
<1>3. 2 ^ n \in Nat /\ 2 ^ n # 0
  BY <1>1, <1>2, FS_CardinalityType, FS_EmptySet
<1> QED
  BY <1>3

(* A function that takes every value once.                                  *)
LEMMA OneToOne ==
  ASSUME NEW S, NEW T, NEW f \in [S -> T],
         \A p, q \in S : f[p] = f[q] => p = q, \A t \in T : \E p \in S : f[p] = t
  PROVE  ExistsBijection(S, T)
<1>1. f \in Injection(S, T)
  BY DEF Injection, IsInjective
<1>2. f \in Surjection(S, T)
  BY DEF Surjection
<1> QED
  BY <1>1, <1>2 DEF ExistsBijection, Bijection

(* The law of exponents: a subset of a + b numbers is one of the first a    *)
(* and one of the others.                                                   *)
LEMMA PowerSum ==
  ASSUME NEW a \in Nat, NEW b \in Nat
  PROVE  2 ^ (a + b) = 2 ^ a * 2 ^ b
<1> DEFINE A == 1 .. a  B == a + 1 .. a + b  C == 1 .. a + b
           F == [p \in (SUBSET A) \X (SUBSET B) |-> p[1] \cup p[2]]
<1>1. /\ IsFiniteSet(SUBSET A) /\ Cardinality(SUBSET A) = 2 ^ a
      /\ IsFiniteSet(SUBSET B) /\ Cardinality(SUBSET B) = 2 ^ b
      /\ IsFiniteSet(SUBSET C) /\ Cardinality(SUBSET C) = 2 ^ (a + b)
  <2>1. 0 + 1 = 1 /\ 0 + a = a /\ 0 + (a + b) = a + b /\ a + b \in Nat /\ 0 \in Nat
    OBVIOUS
  <2> QED
    BY <2>1, PowerIsCount
<1>2. A \cap B = {} /\ A \cup B = C
  OBVIOUS
<1> HIDE DEF A, B, C
<1>3. F \in [(SUBSET A) \X (SUBSET B) -> SUBSET C]
  BY <1>2
<1>4. \A p, q \in (SUBSET A) \X (SUBSET B) : F[p] = F[q] => p = q
  <2> SUFFICES ASSUME NEW p \in (SUBSET A) \X (SUBSET B), NEW q \in (SUBSET A) \X (SUBSET B),
                      p[1] \cup p[2] = q[1] \cup q[2]
               PROVE  p = q
    OBVIOUS
  <2>1. p[1] \subseteq A /\ q[1] \subseteq A /\ p[2] \subseteq B /\ q[2] \subseteq B
    OBVIOUS
  <2>2. p[1] = q[1] /\ p[2] = q[2]
    BY <1>2, <2>1
  <2> QED
    BY <2>2
<1>5. \A x \in SUBSET C : \E p \in (SUBSET A) \X (SUBSET B) : F[p] = x
  <2> SUFFICES ASSUME NEW x \in SUBSET C
               PROVE  \E p \in (SUBSET A) \X (SUBSET B) : p[1] \cup p[2] = x
    OBVIOUS
  <2>1. <<x \cap A, x \cap B>> \in (SUBSET A) \X (SUBSET B) /\ (x \cap A) \cup (x \cap B) = x
    BY <1>2
  <2> QED
    BY <2>1
<1> HIDE DEF F
<1>6. ExistsBijection((SUBSET A) \X (SUBSET B), SUBSET C)
  <2> DEFINE P == (SUBSET A) \X (SUBSET B)  Q == SUBSET C
  <2>1. F \in [P -> Q] /\ (\A p, q \in P : F[p] = F[q] => p = q) /\ \A t \in Q : \E p \in P : F[p] = t
    BY <1>3, <1>4, <1>5
  <2> HIDE DEF P, Q
  <2>2. ExistsBijection(P, Q)
    BY <2>1, OneToOne
  <2> QED
    BY <2>2 DEF P, Q
<1>7. /\ IsFiniteSet((SUBSET A) \X (SUBSET B))
      /\ Cardinality((SUBSET A) \X (SUBSET B)) = Cardinality(SUBSET A) * Cardinality(SUBSET B)
  BY <1>1, FS_Product, Zenon
<1> QED
  BY <1>1, <1>6, <1>7, FS_Bijection

(* One bit more.                                                            *)
LEMMA PowerDouble ==
  ASSUME NEW n \in Nat
  PROVE  2 ^ (n + 1) = 2 * 2 ^ n
<1>1. 2 ^ (n + 1) = 2 ^ n * 2 ^ 1
  BY PowerSum
<1>2. 2 ^ 1 = 2
  OBVIOUS
<1>3. 2 ^ n \in Nat
  BY PowerPositive
<1> QED
  BY <1>1, <1>2, <1>3

(* Powers grow.                                                             *)
LEMMA PowerGrows ==
  ASSUME NEW a \in Nat, NEW b \in Nat, a <= b
  PROVE  /\ 2 ^ a \in Nat /\ 2 ^ b \in Nat /\ 2 ^ a <= 2 ^ b
         /\ \E q \in Nat \ {0} : 2 ^ b = 2 ^ a * q
<1>1. b - a \in Nat /\ a + (b - a) = b
  OBVIOUS
<1>2. 2 ^ b = 2 ^ a * 2 ^ (b - a)
  BY <1>1, PowerSum
<1>3. 2 ^ a \in Nat \ {0} /\ 2 ^ (b - a) \in Nat \ {0} /\ 2 ^ b \in Nat
  BY <1>1, PowerPositive
<1>4. \A p, q \in Nat \ {0} : p <= p * q
  OBVIOUS
<1> QED
  BY <1>2, <1>3, <1>4

(* The powers of the type bits.                                             *)
LEMMA SmallPowers == 2 ^ 1 = 2 /\ 2 ^ 2 = 4 /\ 2 ^ 4 = 16
<1>1. 2 ^ 0 = 1
  OBVIOUS
<1>2. 2 ^ (0 + 1) = 2 * 2 ^ 0 /\ 2 ^ (1 + 1) = 2 * 2 ^ 1
  BY PowerDouble
<1>3. 2 ^ (2 + 1) = 2 * 2 ^ 2 /\ 2 ^ (3 + 1) = 2 * 2 ^ 3
  BY PowerDouble
<1> QED
  BY <1>1, <1>2, <1>3
=============================================================================
