------------------------- MODULE RecoveryTries_proofs -------------------------
(***************************************************************************)
(* How many wrong codes Recovery tests against one reset code, for every   *)
(* value of its constants.                                                 *)
(*                                                                         *)
(* Each test ends in a write of the attempts that were read before it,     *)
(* plus one, so that a late write sets the attempts back.  What falls all  *)
(* the same is, for each number below the limit, how many requests hold it *)
(* or a smaller one, and with that a rank: the tests a code can still take *)
(* are as many as there are functions below, in the order of the first     *)
(* difference, and of those there are fewer than (m + n over n).           *)
(***************************************************************************)
EXTENDS Recovery_proofs, FiniteSetTheorems, NaturalsInduction, Integers

(* Numbers, and the factorials that choose is defined by. *)

\* A set of numbers has a least one.
LEMMA LeastNat ==
    ASSUME NEW T \in SUBSET Nat, T # {}
    PROVE  \E x \in T : \A y \in T : x <= y
  <1>1. \A x, y \in Nat : <<y, x>> \in OpToRel(<, Nat) <=> y < x
    BY DEF OpToRel
  <1>2. PICK x \in T : \A y \in T : ~(<<y, x>> \in OpToRel(<, Nat))
    BY WFMin, NatLessThanWellFounded
  <1>3. \A y \in T : ~(y < x)
    BY <1>1, <1>2
  <1>4. SUFFICES \A y \in T : x <= y
    OBVIOUS
  <1> QED BY <1>3

\* Induction over the numbers in a set.
LEMMA EveryNat ==
    ASSUME NEW S, 0 \in S, \A n \in Nat : n \in S => n + 1 \in S
    PROVE  \A n \in Nat : n \in S
  <1> DEFINE T == Nat \ S
  <1>1. SUFFICES ASSUME T # {} PROVE FALSE
    OBVIOUS
  <1>2. PICK x \in T : \A y \in T : x <= y
    BY <1>1, LeastNat
  <1>3. x # 0 /\ x - 1 \in Nat /\ x - 1 \notin T
    BY <1>2
  <1>4. x - 1 \in S /\ (x - 1) + 1 = x
    BY <1>3
  <1> QED BY <1>3, <1>4

LEMMA FactorialStep ==
    \A n \in Nat : factorial[n] = IF n = 0 THEN 1 ELSE n * factorial[n - 1]
  <1>1. NatInductiveDefHypothesis(factorial, 1, LAMBDA v, n : n * v)
    BY DEF NatInductiveDefHypothesis, factorial
  <1>2. NatInductiveDefConclusion(factorial, 1, LAMBDA v, n : n * v)
    BY <1>1, NatInductiveDef
  <1> QED BY <1>2 DEF NatInductiveDefConclusion

LEMMA FactorialType == \A n \in Nat : factorial[n] \in Nat \ {0}
  <1> DEFINE S == {n \in Nat : factorial[n] \in Nat \ {0}}
  <1>1. 0 \in S
    BY FactorialStep
  <1>2. ASSUME NEW n \in Nat, n \in S PROVE n + 1 \in S
    <2>1. factorial[n + 1] = (n + 1) * factorial[n]
      BY FactorialStep
    <2>2. factorial[n] \in Nat /\ factorial[n] # 0
      BY <1>2
    <2> QED BY <2>1, <2>2
  <1>3. \A n \in Nat : n \in S
    <2> HIDE DEF S
    <2> QED BY <1>1, <1>2, EveryNat
  <1> QED BY <1>3

LEMMA Quotient ==
    ASSUME NEW b \in Nat, NEW d \in Nat \ {0}
    PROVE  (b * d) \div d = b
  OBVIOUS

\* Products of which the factors are regrouped.
LEMMA Regroup ==
    ASSUME NEW x \in Nat, NEW b \in Nat, NEW p \in Nat, NEW q \in Nat, NEW s \in Nat,
           x = b * (p * q)
    PROVE  s * x = b * (p * (s * q)) /\ s * x = b * ((s * p) * q)
  OBVIOUS

\* A factorial is divided by those that choose divides it by, without a remainder; and so the
\* quotients are added as in the triangle of Pascal.
Divides(n) ==
    \A k \in 0 .. n : \E b \in Nat : factorial[n] = b * (factorial[k] * factorial[n - k])

LEMMA Chosen ==
    ASSUME NEW n \in Nat, NEW k \in 0 .. n, NEW b \in Nat,
           factorial[n] = b * (factorial[k] * factorial[n - k])
    PROVE  choose(n, k) = b
  <1> DEFINE d == factorial[k] * factorial[n - k]
  <1>1. k \in Nat /\ n - k \in Nat
    OBVIOUS
  <1>2. factorial[k] \in Nat \ {0} /\ factorial[n - k] \in Nat \ {0}
    BY <1>1, FactorialType
  <1>3. d \in Nat \ {0}
    BY <1>2
  <1>4. choose(n, k) = factorial[n] \div d
    BY DEF choose
  <1> HIDE DEF d
  <1>5. (b * d) \div d = b
    BY <1>3, Quotient
  <1> QED BY <1>4, <1>5 DEF d

LEMMA PascalStep ==
    ASSUME NEW n \in Nat, Divides(n), NEW k \in 1 .. n
    PROVE  \E b1, b2 \in Nat : /\ b1 = choose(n, k) /\ b2 = choose(n, k - 1)
                             /\ factorial[n + 1] =
                                  (b1 + b2) * (factorial[k] * factorial[n + 1 - k])
  <1> DEFINE x == factorial[n]
             p == factorial[k - 1]
             q == factorial[n - k]
  <1>0. /\ n - k \in Nat /\ n - (k - 1) = n + 1 - k /\ n + 1 - k \in Nat \ {0}
        /\ k \in 0 .. n /\ k - 1 \in 0 .. n /\ k \in Nat \ {0} /\ (n + 1 - k) - 1 = n - k
        /\ k - 1 \in Nat
    OBVIOUS
  <1>1. x \in Nat /\ p \in Nat /\ q \in Nat
    BY <1>0, FactorialType
  <1>2. factorial[k] = k * p
    BY <1>0, FactorialStep
  <1>3. factorial[n + 1 - k] = (n + 1 - k) * q
    BY <1>0, FactorialStep
  <1>4. PICK b1 \in Nat : x = b1 * (factorial[k] * q)
    BY <1>0 DEF Divides
  <1>5. PICK b2 \in Nat : x = b2 * (p * factorial[n - (k - 1)])
    BY <1>0 DEF Divides
  <1>6. b1 = choose(n, k) /\ b2 = choose(n, k - 1)
    BY <1>0, <1>4, <1>5, Chosen
  <1>7. factorial[n + 1] = (n + 1) * x
    BY FactorialStep
  <1> HIDE DEF x, p, q
  <1>8. (n + 1 - k) * x = b1 * (factorial[k] * ((n + 1 - k) * q))
    <2>1. factorial[k] \in Nat
      BY <1>0, FactorialType
    <2> QED BY <1>0, <1>1, <1>4, <2>1, Regroup
  <1>9. k * x = b2 * ((k * p) * factorial[n + 1 - k])
    <2>1. factorial[n + 1 - k] \in Nat /\ x = b2 * (p * factorial[n + 1 - k])
      BY <1>0, <1>5, FactorialType
    <2> QED BY <1>0, <1>1, <2>1, Regroup
  <1>10. (n + 1) * x = (n + 1 - k) * x + k * x
    BY <1>0, <1>1
  <1> DEFINE d == factorial[k] * factorial[n + 1 - k]
  <1>11. (n + 1 - k) * x = b1 * d /\ k * x = b2 * d /\ d \in Nat
    <2>1. factorial[k] \in Nat /\ factorial[n + 1 - k] \in Nat
      BY <1>0, FactorialType
    <2> QED BY <1>2, <1>3, <1>8, <1>9, <2>1
  <1> HIDE DEF d
  <1>12. b1 * d + b2 * d = (b1 + b2) * d
    BY <1>11
  <1>13. factorial[n + 1] = (b1 + b2) * d
    BY <1>7, <1>10, <1>11, <1>12
  <1> QED BY <1>6, <1>13 DEF d

LEMMA AllOrNone ==
    ASSUME NEW n \in Nat
    PROVE  /\ factorial[n] = 1 * (factorial[0] * factorial[n - 0])
           /\ factorial[n] = 1 * (factorial[n] * factorial[n - n])
  <1>1. factorial[0] = 1 /\ n - 0 = n /\ n - n = 0 /\ factorial[n] \in Nat
    BY FactorialStep, FactorialType
  <1> QED BY <1>1

LEMMA AllDivide == \A n \in Nat : Divides(n)
  <1> DEFINE S == {n \in Nat : Divides(n)}
  <1>1. ASSUME NEW n \in Nat, \A k \in 1 .. n - 1 :
                  \E b \in Nat : factorial[n] = b * (factorial[k] * factorial[n - k])
        PROVE  Divides(n)
    <2> SUFFICES ASSUME NEW k \in 0 .. n
                 PROVE  \E b \in Nat : factorial[n] = b * (factorial[k] * factorial[n - k])
      BY DEF Divides
    <2>1. CASE k = 0 \/ k = n
      <3>1. factorial[n] = 1 * (factorial[k] * factorial[n - k]) /\ 1 \in Nat
        BY <2>1, AllOrNone
      <3> QED BY <3>1
    <2>2. CASE k \in 1 .. n - 1
      BY <1>1, <2>2
    <2> QED BY <2>1, <2>2
  <1>2. Divides(0)
    BY <1>1
  <1>3. ASSUME NEW n \in Nat, Divides(n) PROVE Divides(n + 1)
    <2>1. ASSUME NEW k \in 1 .. n
          PROVE  \E b \in Nat : factorial[n + 1] = b * (factorial[k] * factorial[n + 1 - k])
      <3>1. PICK b1, b2 \in Nat :
              factorial[n + 1] = (b1 + b2) * (factorial[k] * factorial[n + 1 - k])
        BY <1>3, <2>1, PascalStep
      <3>2. PICK b \in Nat : b = b1 + b2
        OBVIOUS
      <3> QED BY <3>1, <3>2
    <2>2. (n + 1) - 1 = n /\ n + 1 \in Nat
      OBVIOUS
    <2> QED BY <1>1, <2>1, <2>2
  <1>4. \A n \in Nat : n \in S
    <2>1. 0 \in S /\ \A n \in Nat : n \in S => n + 1 \in S
      BY <1>2, <1>3
    <2> HIDE DEF S
    <2> QED BY <2>1, EveryNat
  <1> QED BY <1>4

LEMMA Pascal ==
    /\ \A n \in Nat : choose(n, 0) = 1 /\ choose(n, n) = 1
    /\ \A n \in Nat : \A k \in 1 .. n : choose(n + 1, k) = choose(n, k) + choose(n, k - 1)
    /\ \A n \in Nat : \A k \in 0 .. n : choose(n, k) \in Nat
  <1>1. ASSUME NEW n \in Nat PROVE choose(n, 0) = 1 /\ choose(n, n) = 1
    <2>1. 0 \in 0 .. n /\ n \in 0 .. n /\ 1 \in Nat
      OBVIOUS
    <2> QED BY <2>1, AllOrNone, Chosen
  <1>2. ASSUME NEW n \in Nat, NEW k \in 1 .. n
        PROVE  choose(n + 1, k) = choose(n, k) + choose(n, k - 1)
    <2>1. PICK b1, b2 \in Nat : /\ b1 = choose(n, k) /\ b2 = choose(n, k - 1)
                              /\ factorial[n + 1] =
                                   (b1 + b2) * (factorial[k] * factorial[n + 1 - k])
      BY AllDivide, PascalStep
    <2>2. b1 + b2 \in Nat /\ n + 1 \in Nat /\ k \in 0 .. n + 1
      OBVIOUS
    <2>3. choose(n + 1, k) = b1 + b2
      BY <2>1, <2>2, Chosen
    <2> QED BY <2>1, <2>3
  <1>3. ASSUME NEW n \in Nat, NEW k \in 0 .. n PROVE choose(n, k) \in Nat
    <2>1. PICK b \in Nat : factorial[n] = b * (factorial[k] * factorial[n - k])
      BY AllDivide DEF Divides
    <2> QED BY <2>1, Chosen
  <1> QED BY <1>1, <1>2, <1>3

-----------------------------------------------------------------------------
(* How many functions rise. *)

\* The functions that rise, from m places to 0 .. n.
Rising(m, n) ==
    {f \in [0 .. m - 1 -> 0 .. n] : \A u, v \in 0 .. m - 1 : u <= v => f[u] <= f[v]}

LEMMA RisingEnd ==
    ASSUME NEW m \in Nat, NEW n \in Nat, m = 0 \/ n = 0
    PROVE  IsFiniteSet(Rising(m, n)) /\ Cardinality(Rising(m, n)) = 1
  <1> DEFINE z == [u \in 0 .. m - 1 |-> 0]
  <1>1. Rising(m, n) = {z}
    <2>1. z \in Rising(m, n)
      BY DEF Rising
    <2>2. ASSUME NEW f \in Rising(m, n) PROVE f = z
      <3>1. f \in [0 .. m - 1 -> 0 .. n]
        BY DEF Rising
      <3>2. \A u \in 0 .. m - 1 : f[u] = 0
        BY <3>1
      <3> QED BY <3>1, <3>2
    <2> QED BY <2>1, <2>2
  <1> QED BY <1>1, FS_Singleton

LEMMA RisingStep ==
    ASSUME NEW m \in Nat \ {0}, NEW n \in Nat \ {0},
           IsFiniteSet(Rising(m - 1, n)), IsFiniteSet(Rising(m, n - 1))
    PROVE  /\ IsFiniteSet(Rising(m, n))
           /\ Cardinality(Rising(m, n)) <=
                Cardinality(Rising(m - 1, n)) + Cardinality(Rising(m, n - 1))
  <1> DEFINE A == {f \in Rising(m, n) : f[m - 1] = n}
             B == {f \in Rising(m, n) : f[m - 1] # n}
             cut == [f \in A |-> [u \in 0 .. m - 2 |-> f[u]]]
  <1>1. B \in SUBSET Rising(m, n - 1)
    <2> SUFFICES ASSUME NEW f \in B PROVE f \in Rising(m, n - 1)
      OBVIOUS
    <2>1. /\ f \in [0 .. m - 1 -> 0 .. n] /\ f[m - 1] # n /\ m - 1 \in 0 .. m - 1
          /\ \A u, v \in 0 .. m - 1 : u <= v => f[u] <= f[v]
      BY DEF Rising
    <2>2. f[m - 1] \in 0 .. n - 1
      BY <2>1
    <2>3. ASSUME NEW u \in 0 .. m - 1 PROVE f[u] \in 0 .. n - 1
      <3>1. f[u] <= f[m - 1] /\ f[u] \in 0 .. n
        BY <2>1
      <3> QED BY <2>2, <3>1
    <2> QED BY <2>1, <2>3 DEF Rising
  <1>2. cut \in Injection(A, Rising(m - 1, n))
    <2>1. ASSUME NEW f \in A PROVE cut[f] \in Rising(m - 1, n)
      <3>1. /\ f \in [0 .. m - 1 -> 0 .. n]
            /\ \A u, v \in 0 .. m - 1 : u <= v => f[u] <= f[v]
        BY DEF Rising
      <3>2. (m - 1) - 1 = m - 2
        OBVIOUS
      <3> QED BY <3>1, <3>2 DEF Rising
    <2>2. ASSUME NEW f \in A, NEW g \in A, cut[f] = cut[g] PROVE f = g
      <3>1. /\ f \in [0 .. m - 1 -> 0 .. n] /\ g \in [0 .. m - 1 -> 0 .. n]
            /\ f[m - 1] = g[m - 1]
        BY DEF Rising
      <3>2. ASSUME NEW u \in 0 .. m - 1 PROVE f[u] = g[u]
        <4>1. CASE u = m - 1
          BY <3>1, <4>1
        <4>2. CASE u # m - 1
          <5>1. u \in 0 .. m - 2
            BY <4>2
          <5>2. cut[f][u] = f[u] /\ cut[g][u] = g[u]
            BY <5>1
          <5> QED BY <2>2, <5>2
        <4> QED BY <4>1, <4>2
      <3> QED BY <3>1, <3>2
    <2>3. cut \in [A -> Rising(m - 1, n)]
      BY <2>1
    <2> HIDE DEF cut, A
    <2> QED BY <2>2, <2>3 DEF Injection, IsInjective
  <1>3. IsFiniteSet(A) /\ Cardinality(A) <= Cardinality(Rising(m - 1, n))
    BY <1>2, FS_Injection
  <1>4. IsFiniteSet(B) /\ Cardinality(B) <= Cardinality(Rising(m, n - 1))
    BY <1>1, FS_Subset
  <1>5. A \cup B = Rising(m, n) /\ A \cap B = {}
    OBVIOUS
  <1> HIDE DEF A, B, cut
  <1>6. IsFiniteSet(A \cup B) /\ Cardinality(A \cup B) = Cardinality(A) + Cardinality(B) - 0
    BY <1>3, <1>4, <1>5, FS_Union, FS_EmptySet
  <1>7. /\ Cardinality(A) \in Nat /\ Cardinality(B) \in Nat
        /\ Cardinality(Rising(m - 1, n)) \in Nat /\ Cardinality(Rising(m, n - 1)) \in Nat
    BY <1>3, <1>4, FS_CardinalityType
  <1>8. /\ IsFiniteSet(Rising(m, n))
        /\ Cardinality(Rising(m, n)) = Cardinality(A) + Cardinality(B)
    BY <1>5, <1>6, <1>7
  <1>9. Cardinality(A) + Cardinality(B) <=
          Cardinality(Rising(m - 1, n)) + Cardinality(Rising(m, n - 1))
    BY <1>3, <1>4, <1>7
  <1> QED BY <1>8, <1>9

\* There are at most (m + n over n) of them.
FewRising(m, n) ==
    IsFiniteSet(Rising(m, n)) /\ Cardinality(Rising(m, n)) <= choose(m + n, n)

LEMMA RisingBound == \A m, n \in Nat : FewRising(m, n)
  <1> DEFINE S == {s \in Nat : \A m, n \in Nat : m + n = s => FewRising(m, n)}
  <1>1. ASSUME NEW m \in Nat, NEW n \in Nat, m = 0 \/ n = 0 PROVE FewRising(m, n)
    <2>1. choose(m + n, n) = 1
      <3>1. CASE m = 0
        BY <3>1, Pascal
      <3>2. CASE n = 0
        BY <3>2, Pascal
      <3> QED BY <1>1, <3>1, <3>2
    <2> QED BY <1>1, <2>1, RisingEnd DEF FewRising
  <1>2. 0 \in S
    <2>1. \A m, n \in Nat : m + n = 0 => m = 0
      OBVIOUS
    <2> QED BY <1>1, <2>1
  <1>3. ASSUME NEW s \in Nat, s \in S PROVE s + 1 \in S
    <2> SUFFICES ASSUME NEW m \in Nat, NEW n \in Nat, m + n = s + 1 PROVE FewRising(m, n)
      OBVIOUS
    <2>1. CASE m = 0 \/ n = 0
      BY <1>1, <2>1
    <2>2. CASE m # 0 /\ n # 0
      <3>1. /\ m - 1 \in Nat /\ n - 1 \in Nat /\ (m - 1) + n = s /\ m + (n - 1) = s
            /\ n \in 1 .. s /\ n - 1 \in 0 .. s
        BY <2>2
      <3>2. FewRising(m - 1, n) /\ FewRising(m, n - 1)
        BY <1>3, <3>1
      <3>3. choose(s + 1, n) = choose(s, n) + choose(s, n - 1)
        BY <3>1, Pascal
      <3>4. choose(s, n) \in Nat /\ choose(s, n - 1) \in Nat
        BY <3>1, Pascal
      <3>5. /\ IsFiniteSet(Rising(m, n))
            /\ Cardinality(Rising(m, n)) <=
                 Cardinality(Rising(m - 1, n)) + Cardinality(Rising(m, n - 1))
        BY <2>2, <3>2, RisingStep DEF FewRising
      <3>6. /\ Cardinality(Rising(m - 1, n)) <= choose(s, n)
            /\ Cardinality(Rising(m, n - 1)) <= choose(s, n - 1)
        BY <3>1, <3>2 DEF FewRising
      <3>7. /\ Cardinality(Rising(m - 1, n)) \in Nat /\ Cardinality(Rising(m, n - 1)) \in Nat
            /\ Cardinality(Rising(m, n)) \in Nat
        BY <3>2, <3>5, FS_CardinalityType DEF FewRising
      <3>8. Cardinality(Rising(m, n)) <= choose(s + 1, n)
        BY <3>3, <3>4, <3>5, <3>6, <3>7
      <3> QED BY <3>5, <3>8 DEF FewRising
    <2> QED BY <2>1, <2>2
  <1>4. \A s \in Nat : s \in S
    <2> HIDE DEF S
    <2> QED BY <1>2, <1>3, EveryNat
  <1>5. ASSUME NEW m \in Nat, NEW n \in Nat PROVE FewRising(m, n)
    <2>1. PICK s \in Nat : s = m + n
      OBVIOUS
    <2>2. s \in S
      BY <1>4
    <2> QED BY <2>1, <2>2
  <1> QED BY <1>5

-----------------------------------------------------------------------------
(* The order of those functions by the first place where they differ. *)

Before(f, g, m) ==
    \E u \in 0 .. m - 1 : f[u] < g[u] /\ \A v \in 0 .. u - 1 : f[v] = g[v]

Lower(g, m, n) == {f \in Rising(m, n) : Before(f, g, m)}

Rank(g, m, n) == Cardinality(Lower(g, m, n))

LEMMA BeforeOrder ==
    ASSUME NEW m \in Nat, NEW n \in Nat,
           NEW f \in Rising(m, n), NEW g \in Rising(m, n), NEW h \in Rising(m, n)
    PROVE  ~Before(f, f, m) /\ (Before(f, g, m) /\ Before(g, h, m) => Before(f, h, m))
  <1>1. \A u \in 0 .. m - 1 : f[u] \in Nat /\ g[u] \in Nat /\ h[u] \in Nat
    BY DEF Rising
  <1>2. ~Before(f, f, m)
    BY <1>1 DEF Before
  <1>3. ASSUME Before(f, g, m), Before(g, h, m) PROVE Before(f, h, m)
    <2>1. PICK u \in 0 .. m - 1 : f[u] < g[u] /\ \A v \in 0 .. u - 1 : f[v] = g[v]
      BY <1>3 DEF Before
    <2>2. PICK w \in 0 .. m - 1 : g[w] < h[w] /\ \A v \in 0 .. w - 1 : g[v] = h[v]
      BY <1>3 DEF Before
    <2>3. PICK x \in 0 .. m - 1 : x = IF u < w THEN u ELSE w
      OBVIOUS
    <2>4. f[x] < h[x]
      <3>1. CASE u < w
        BY <1>1, <2>1, <2>2, <2>3, <3>1
      <3>2. CASE u = w
        BY <1>1, <2>1, <2>2, <2>3, <3>2
      <3>3. CASE w < u
        BY <1>1, <2>1, <2>2, <2>3, <3>3
      <3> QED BY <3>1, <3>2, <3>3
    <2>5. ASSUME NEW v \in 0 .. x - 1 PROVE f[v] = h[v]
      <3>1. v \in 0 .. u - 1 /\ v \in 0 .. w - 1
        BY <2>3
      <3> QED BY <2>1, <2>2, <3>1
    <2> QED BY <2>4, <2>5 DEF Before
  <1> QED BY <1>2, <1>3

LEMMA RankType ==
    ASSUME NEW m \in Nat, NEW n \in Nat, NEW g \in Rising(m, n)
    PROVE  /\ IsFiniteSet(Lower(g, m, n)) /\ Rank(g, m, n) \in Nat
           /\ Rank(g, m, n) <= choose(m + n, n) - 1
  <1>1. IsFiniteSet(Rising(m, n)) /\ Cardinality(Rising(m, n)) <= choose(m + n, n)
    BY RisingBound DEF FewRising
  <1>2. Lower(g, m, n) \in SUBSET (Rising(m, n) \ {g})
    BY BeforeOrder DEF Lower
  <1>3. /\ IsFiniteSet(Rising(m, n) \ {g})
        /\ Cardinality(Rising(m, n) \ {g}) = Cardinality(Rising(m, n)) - 1
    BY <1>1, FS_RemoveElement
  <1>4. /\ IsFiniteSet(Lower(g, m, n))
        /\ Rank(g, m, n) <= Cardinality(Rising(m, n)) - 1
    BY <1>2, <1>3, FS_Subset DEF Rank
  <1>5. Rank(g, m, n) \in Nat /\ Cardinality(Rising(m, n)) \in Nat
    BY <1>1, <1>4, FS_CardinalityType DEF Rank
  <1>6. choose(m + n, n) \in Nat
    <2>1. n \in 0 .. m + n /\ m + n \in Nat
      OBVIOUS
    <2> QED BY <2>1, Pascal
  <1> QED BY <1>1, <1>4, <1>5, <1>6

LEMMA RankFalls ==
    ASSUME NEW m \in Nat, NEW n \in Nat, NEW f \in Rising(m, n), NEW g \in Rising(m, n),
           Before(f, g, m)
    PROVE  Rank(f, m, n) + 1 <= Rank(g, m, n)
  <1>1. IsFiniteSet(Lower(f, m, n)) /\ IsFiniteSet(Lower(g, m, n))
    BY RankType
  <1>2. f \notin Lower(f, m, n)
    BY BeforeOrder DEF Lower
  <1>3. Lower(f, m, n) \cup {f} \in SUBSET Lower(g, m, n)
    BY BeforeOrder DEF Lower
  <1>4. Cardinality(Lower(f, m, n) \cup {f}) = Cardinality(Lower(f, m, n)) + 1
    BY <1>1, <1>2, FS_AddElement
  <1> QED BY <1>1, <1>3, <1>4, FS_Subset DEF Rank

\* Below a function whose last value is p there are p others.
LEMMA RankRoom ==
    ASSUME NEW m \in Nat \ {0}, NEW n \in Nat, NEW g \in Rising(m, n),
           NEW p \in Nat, p <= g[m - 1]
    PROVE  p <= Rank(g, m, n)
  <1> DEFINE low == [j \in 0 .. p - 1 |-> [u \in 0 .. m - 1 |-> IF g[u] < j THEN g[u] ELSE j]]
  <1>1. /\ g \in [0 .. m - 1 -> 0 .. n] /\ m - 1 \in 0 .. m - 1
        /\ \A u, v \in 0 .. m - 1 : u <= v => g[u] <= g[v]
    BY DEF Rising
  <1>2. g[m - 1] \in 0 .. n
    BY <1>1
  <1>3. ASSUME NEW j \in 0 .. p - 1
        PROVE  low[j] \in Lower(g, m, n) /\ low[j][m - 1] = j
    <2> DEFINE f == [u \in 0 .. m - 1 |-> IF g[u] < j THEN g[u] ELSE j]
    <2>1. low[j] = f
      OBVIOUS
    <2>2. \A u \in 0 .. m - 1 : f[u] \in 0 .. n /\ f[u] <= g[u] /\ f[u] <= j
                               /\ (f[u] = g[u] \/ f[u] = j)
      BY <1>1, <1>2
    <2>3. f[m - 1] = j /\ j < g[m - 1]
      BY <1>1, <1>2
    <2>4. \A u, v \in 0 .. m - 1 : u <= v => f[u] <= f[v]
      <3>1. SUFFICES ASSUME NEW u \in 0 .. m - 1, NEW v \in 0 .. m - 1, u <= v
                     PROVE  f[u] <= f[v]
        OBVIOUS
      <3>2. g[u] <= g[v] /\ g[u] \in Nat /\ g[v] \in Nat
        BY <1>1, <3>1
      <3> QED BY <3>2
    <2>5. f \in Rising(m, n)
      <3>1. f \in [0 .. m - 1 -> 0 .. n]
        BY <2>2
      <3> HIDE DEF f
      <3> QED BY <2>4, <3>1 DEF Rising
    <2>6. Before(f, g, m)
      <3> DEFINE D == {u \in 0 .. m - 1 : f[u] # g[u]}
      <3>1. m - 1 \in D /\ D \in SUBSET Nat
        BY <1>1, <1>2, <2>3
      <3>2. PICK u \in D : \A v \in D : u <= v
        <4> HIDE DEF D
        <4> QED BY <3>1, LeastNat
      <3>3. u \in 0 .. m - 1 /\ f[u] < g[u]
        <4>1. u \in 0 .. m - 1 /\ f[u] # g[u]
          OBVIOUS
        <4>2. f[u] <= g[u] /\ f[u] \in Nat /\ g[u] \in Nat
          BY <1>1, <2>2, <4>1
        <4> QED BY <4>1, <4>2
      <3>4. \A v \in 0 .. u - 1 : f[v] = g[v]
        BY <3>2, <3>3
      <3> QED BY <3>3, <3>4 DEF Before
    <2> HIDE DEF f
    <2> QED BY <2>1, <2>3, <2>5, <2>6 DEF Lower
  <1>4. low \in Injection(0 .. p - 1, Lower(g, m, n))
    <2>1. low \in [0 .. p - 1 -> Lower(g, m, n)]
      BY <1>3
    <2> HIDE DEF low
    <2> QED BY <1>3, <2>1 DEF Injection, IsInjective
  <1>5. IsFiniteSet(Lower(g, m, n))
    BY RankType
  <1>6. Cardinality(0 .. p - 1) = p
    BY FS_Interval
  <1> HIDE DEF low
  <1> QED BY <1>4, <1>5, <1>6, FS_Injection DEF Rank

-----------------------------------------------------------------------------
(* How the attempts that are written fall. *)

N == Cardinality(Calls)

\* For each number below the limit, how many requests have it or a smaller one.
Below(w, u) == {c \in Calls : w[c] <= u}

Profile(w) == [u \in 0 .. MaxTries - 1 |-> Cardinality(Below(w, u))]

LEMMA BelowType ==
    ASSUME NEW w, NEW u
    PROVE  IsFiniteSet(Below(w, u)) /\ Cardinality(Below(w, u)) \in 0 .. N
  <1>1. IsFiniteSet(Calls) /\ Below(w, u) \in SUBSET Calls
    BY RecoveryAssumption DEF Below
  <1>2. IsFiniteSet(Below(w, u)) /\ Cardinality(Below(w, u)) <= N
    BY <1>1, FS_Subset DEF N
  <1>3. Cardinality(Below(w, u)) \in Nat /\ N \in Nat
    BY <1>1, <1>2, FS_CardinalityType DEF N
  <1> QED BY <1>2, <1>3

LEMMA ProfileType ==
    ASSUME NEW w \in [Calls -> Nat]
    PROVE  MaxTries \in Nat /\ N \in Nat /\ Profile(w) \in Rising(MaxTries, N)
  <1>1. MaxTries \in Nat /\ N \in Nat
    BY RecoveryAssumption, FS_CardinalityType DEF N
  <1>2. Profile(w) \in [0 .. MaxTries - 1 -> 0 .. N]
    BY BelowType DEF Profile
  <1>3. ASSUME NEW u \in 0 .. MaxTries - 1, NEW v \in 0 .. MaxTries - 1, u <= v
        PROVE  Profile(w)[u] <= Profile(w)[v]
    <2>1. Below(w, u) \in SUBSET Below(w, v)
      BY <1>1, <1>3 DEF Below
    <2>2. Cardinality(Below(w, u)) <= Cardinality(Below(w, v))
      BY <2>1, BelowType, FS_Subset
    <2> QED BY <2>2 DEF Profile
  <1> QED BY <1>1, <1>2, <1>3 DEF Rising

\* Of two assignments the second is before the first if, up to some number below the limit,
\* the same requests have the numbers, and there fewer.
LEMMA ProfileFalls ==
    ASSUME NEW w \in [Calls -> Nat], NEW z \in [Calls -> Nat], NEW u \in 0 .. MaxTries - 1,
           \A v \in 0 .. u - 1 : Below(z, v) = Below(w, v),
           Below(z, u) \in SUBSET Below(w, u), NEW c \in Below(w, u) \ Below(z, u)
    PROVE  Before(Profile(z), Profile(w), MaxTries)
  <1>1. MaxTries \in Nat
    BY RecoveryAssumption
  <1>2. Cardinality(Below(z, u)) < Cardinality(Below(w, u))
    <2>1. /\ Cardinality(Below(z, u)) <= Cardinality(Below(w, u))
          /\ Cardinality(Below(w, u)) = Cardinality(Below(z, u)) => Below(w, u) = Below(z, u)
      BY BelowType, FS_Subset
    <2>2. Below(w, u) # Below(z, u)
      OBVIOUS
    <2>3. Cardinality(Below(z, u)) \in 0 .. N /\ Cardinality(Below(w, u)) \in 0 .. N /\ N \in Nat
      BY BelowType, ProfileType
    <2> QED BY <2>1, <2>2, <2>3
  <1>3. Profile(z)[u] < Profile(w)[u]
    BY <1>2 DEF Profile
  <1>4. ASSUME NEW v \in 0 .. u - 1 PROVE Profile(z)[v] = Profile(w)[v]
    <2>1. v \in 0 .. MaxTries - 1
      BY <1>1
    <2> QED BY <2>1 DEF Profile
  <1> QED BY <1>3, <1>4 DEF Before

\* Request c of P writes one more than it has read: all outside P, which had a, and c have
\* that now.
Wrote(w, z, P, c, a) ==
    /\ w[c] < MaxTries
    /\ \A d \in Calls \ P : w[d] = a /\ z[d] = w[c] + 1
    /\ z[c] = w[c] + 1
    /\ \A d \in P \ {c} : z[d] = w[d]

LEMMA WriteFalls ==
    ASSUME NEW w \in [Calls -> Nat], NEW z \in [Calls -> Nat], NEW P \in SUBSET Calls,
           NEW c \in P, NEW a \in Nat, Wrote(w, z, P, c, a)
    PROVE  Before(Profile(z), Profile(w), MaxTries)
  <1> USE DEF Wrote
  <1>1. MaxTries \in Nat /\ w[c] \in 0 .. MaxTries - 1
    BY RecoveryAssumption
  <1>2. CASE P # Calls /\ a < w[c]
    <2>1. a \in 0 .. MaxTries - 1
      BY <1>1, <1>2
    <2>2. ASSUME NEW v \in 0 .. a - 1 PROVE Below(z, v) = Below(w, v)
      <3>1. ASSUME NEW d \in Calls PROVE z[d] <= v <=> w[d] <= v
        <4>1. CASE d \in P \ {c}
          BY <4>1
        <4>2. CASE d = c
          BY <1>1, <1>2, <4>2
        <4>3. CASE d \notin P
          <5>1. w[d] = a /\ z[d] = w[c] + 1
            BY <4>3
          <5> QED BY <1>1, <1>2, <5>1
        <4> QED BY <4>1, <4>2, <4>3
      <3> QED BY <3>1 DEF Below
    <2>3. ASSUME NEW d \in Below(z, a) PROVE d \in Below(w, a)
      <3>1. d \in Calls /\ z[d] <= a
        BY DEF Below
      <3>2. d \in P \ {c}
        BY <1>1, <1>2, <3>1
      <3> QED BY <3>1, <3>2 DEF Below
    <2>4. PICK d \in Calls : d \notin P
      BY <1>2
    <2>5. d \in Below(w, a) /\ d \notin Below(z, a)
      BY <1>1, <1>2, <2>4 DEF Below
    <2> QED BY <2>1, <2>2, <2>3, <2>5, ProfileFalls
  <1>3. CASE P = Calls \/ w[c] <= a
    <2>1. ASSUME NEW d \in Calls, d \notin P PROVE w[d] = a /\ w[c] <= a /\ z[d] = w[c] + 1
      BY <1>3, <2>1
    <2>2. ASSUME NEW v \in 0 .. w[c] - 1 PROVE Below(z, v) = Below(w, v)
      <3>1. ASSUME NEW d \in Calls PROVE z[d] <= v <=> w[d] <= v
        <4>1. CASE d \in P \ {c}
          BY <4>1
        <4>2. CASE d = c
          BY <1>1, <4>2
        <4>3. CASE d \notin P
          BY <1>1, <2>1, <4>3
        <4> QED BY <4>1, <4>2, <4>3
      <3> QED BY <3>1 DEF Below
    <2>3. ASSUME NEW d \in Below(z, w[c]) PROVE d \in Below(w, w[c])
      <3>1. d \in Calls /\ z[d] <= w[c]
        BY DEF Below
      <3>2. d \in P \ {c}
        BY <1>1, <3>1
      <3> QED BY <3>1, <3>2 DEF Below
    <2>4. c \in Below(w, w[c]) /\ c \notin Below(z, w[c])
      BY <1>1 DEF Below
    <2> QED BY <1>1, <2>2, <2>3, <2>4, ProfileFalls
  <1>4. MaxTries \in Nat /\ (a < w[c] \/ w[c] <= a)
    BY <1>1
  <1> QED BY <1>2, <1>3, <1>4

-----------------------------------------------------------------------------
(* The tries that are left. *)

\* The requests that will write the attempts of row i.
Trying(i) == {c \in Calls : call[c].pc = "tried" /\ call[c].row = i}

\* The attempts as the requests of P have read them, and the others would now.
Holds(P, i) == [c \in Calls |-> IF c \in P THEN call[c].n ELSE codes[i].attempts]

\* As many tests as requests that died.
Lost == IF "crash" \in past.races THEN events ELSE 0

Ceiling == choose(MaxTries + N, N) - 1

\* Whichever of the requests write last, there is room below for the tests that were made.
Room(i) ==
    \A P \in SUBSET Trying(i) :
        past.tries[i] + Rank(Profile(Holds(P, i)), MaxTries, N)
            <= Ceiling + Cardinality(Trying(i)) + Lost

\* One request at a time tests and writes.
InTurn(i) ==
    /\ \A c, d \in Trying(i) : c = d
    /\ \A c \in Trying(i) : call[c].n = codes[i].attempts
    /\ past.tries[i] <= codes[i].attempts + Cardinality(Trying(i)) + Lost

RowTries(i) ==
    /\ codes[i].st = "none" => codes[i].attempts = 0 /\ Trying(i) = {}
    /\ codes[i].attempts <= MaxTries
    /\ \A c \in Trying(i) : call[c].n < MaxTries
    /\ Room(i)
    /\ "tries" \notin past.races => InTurn(i)

TriesInv ==
    /\ events <= MaxEvents
    /\ \A i \in Rows : RowTries(i)

LEMMA TriesTypes ==
    ASSUME TypeInv, NEW i \in Rows
    PROVE  /\ codes[i].attempts \in Nat /\ past.tries[i] \in Nat /\ Lost \in Nat
           /\ codes[i].st \in {"none", "unused", "used"}
           /\ MaxTries \in Nat /\ MaxEvents \in Nat /\ N \in Nat /\ Ceiling \in Nat
           /\ IsFiniteSet(Trying(i)) /\ Cardinality(Trying(i)) \in Nat
           /\ \A P \in SUBSET Calls :
                /\ Holds(P, i) \in [Calls -> Nat]
                /\ Rank(Profile(Holds(P, i)), MaxTries, N) \in Nat
                /\ Rank(Profile(Holds(P, i)), MaxTries, N) <= Ceiling
  <1>1. /\ codes[i].attempts \in Nat /\ past.tries[i] \in Nat /\ Lost \in Nat
        /\ codes[i].st \in {"none", "unused", "used"}
        /\ \A c \in Calls : call[c].n \in Nat
    BY DEF TypeInv, TypeOK, Code, Call, Past, Lost
  <1>2. MaxTries \in Nat /\ MaxEvents \in Nat /\ N \in Nat
    BY RecoveryAssumption, FS_CardinalityType DEF N
  <1>3. IsFiniteSet(Trying(i)) /\ Cardinality(Trying(i)) \in Nat
    <2>1. IsFiniteSet(Calls) /\ Trying(i) \in SUBSET Calls
      BY RecoveryAssumption DEF Trying
    <2>2. IsFiniteSet(Trying(i))
      BY <2>1, FS_Subset
    <2> QED BY <2>2, FS_CardinalityType
  <1>4. ASSUME NEW P \in SUBSET Calls
        PROVE  /\ Holds(P, i) \in [Calls -> Nat]
               /\ Rank(Profile(Holds(P, i)), MaxTries, N) \in Nat
               /\ Rank(Profile(Holds(P, i)), MaxTries, N) <= Ceiling
    <2>1. Holds(P, i) \in [Calls -> Nat]
      BY <1>1 DEF Holds
    <2>2. Profile(Holds(P, i)) \in Rising(MaxTries, N)
      BY <2>1, ProfileType
    <2> QED BY <1>2, <2>1, <2>2, RankType DEF Ceiling
  <1>5. Ceiling \in Nat
    <2>1. Rank(Profile(Holds({}, i)), MaxTries, N) \in Nat
      BY <1>4
    <2>2. Rank(Profile(Holds({}, i)), MaxTries, N) <= Ceiling
      BY <1>4
    <2>3. choose(MaxTries + N, N) \in Nat
      <3>1. N \in 0 .. MaxTries + N /\ MaxTries + N \in Nat
        BY <1>2
      <3> QED BY <3>1, Pascal
    <2>4. Ceiling \in Int
      BY <2>3 DEF Ceiling
    <2> QED BY <2>1, <2>2, <2>4
  <1> QED BY <1>1, <1>2, <1>3, <1>4, <1>5

\* A step that does not test a code against row i, and writes no attempts there.
Quiet(i) ==
    /\ \A d \in Calls : d \in Trying(i) \/ d \in Trying(i)' => call'[d] = call[d]
    /\ codes'[i].attempts = codes[i].attempts
    /\ codes'[i].st = "none" => codes[i].st = "none"
    /\ past'.tries[i] = past.tries[i] /\ past.races \subseteq past'.races
    /\ events <= events'

LEMMA RowKept ==
    ASSUME TypeInv, TypeInv', NEW i \in Rows, RowTries(i), Quiet(i)
    PROVE  RowTries(i)'
  <1>1. Trying(i)' = Trying(i) /\ \A c \in Trying(i) : call'[c] = call[c]
    BY DEF Quiet, Trying
  <1>2. /\ codes'[i].attempts = codes[i].attempts /\ past'.tries[i] = past.tries[i]
        /\ codes'[i].st = "none" => codes[i].st = "none"
    BY DEF Quiet
  <1>3. Lost <= Lost' /\ Lost \in Nat /\ Lost' \in Nat
    BY DEF Quiet, Lost, TypeInv, TypeOK
  <1>4. Room(i)'
    <2> SUFFICES ASSUME NEW P \in SUBSET Trying(i)
                 PROVE  past'.tries[i] + Rank(Profile(Holds(P, i)'), MaxTries, N)
                          <= Ceiling + Cardinality(Trying(i)') + Lost'
      BY <1>1 DEF Room
    <2>1. Holds(P, i)' = Holds(P, i)
      BY <1>1, <1>2 DEF Holds
    <2>2. past.tries[i] + Rank(Profile(Holds(P, i)), MaxTries, N)
            <= Ceiling + Cardinality(Trying(i)) + Lost
      BY DEF RowTries, Room
    <2>3. P \in SUBSET Calls
      BY DEF Trying
    <2> QED BY <1>1, <1>2, <1>3, <2>1, <2>2, <2>3, TriesTypes
  <1>5. ASSUME "tries" \notin past'.races PROVE InTurn(i)'
    <2>1. InTurn(i)
      BY <1>5 DEF RowTries, Quiet
    <2> QED BY <1>1, <1>2, <1>3, <2>1, TriesTypes DEF InTurn
  <1> QED BY <1>1, <1>2, <1>4, <1>5 DEF RowTries

\* Request c finds that its code is not the one of row i.
LEMMA RowTested ==
    ASSUME TypeInv, TypeInv', NEW i \in Rows, RowTries(i), NEW c \in Calls,
           call[c].pc # "tried", call'[c].pc = "tried", call'[c].row = i,
           call'[c].n = codes[i].attempts, TriesLeft(i), codes[i].st # "none",
           \A d \in Calls \ {c} : call'[d] = call[d],
           codes' = codes, events' = events, past.races \subseteq past'.races,
           past'.tries[i] = past.tries[i] + 1,
           "tries" \notin past'.races => \A d \in Others(c, {"tried"}) : call[d].row # i
    PROVE  RowTries(i)'
  <1>1. /\ Trying(i)' = Trying(i) \cup {c} /\ c \notin Trying(i)
        /\ \A d \in Trying(i) : call'[d] = call[d]
    BY DEF Trying
  <1>2. Cardinality(Trying(i)') = Cardinality(Trying(i)) + 1
    <2>1. IsFiniteSet(Trying(i))
      BY TriesTypes
    <2> QED BY <1>1, <2>1, FS_AddElement
  <1>3. Lost <= Lost' /\ Lost \in Nat /\ Lost' \in Nat
    BY DEF Lost, TypeInv, TypeOK
  <1>4. Room(i)'
    <2> SUFFICES ASSUME NEW P \in SUBSET (Trying(i) \cup {c})
                 PROVE  past'.tries[i] + Rank(Profile(Holds(P, i)'), MaxTries, N)
                          <= Ceiling + Cardinality(Trying(i)') + Lost'
      BY <1>1 DEF Room
    <2>1. P \ {c} \in SUBSET Trying(i) /\ P \ {c} \in SUBSET Calls
      BY DEF Trying
    <2>2. Holds(P, i)' = Holds(P \ {c}, i)
      BY <1>1 DEF Holds
    <2>3. past.tries[i] + Rank(Profile(Holds(P \ {c}, i)), MaxTries, N)
            <= Ceiling + Cardinality(Trying(i)) + Lost
      BY <2>1 DEF RowTries, Room
    <2> QED BY <1>2, <1>3, <2>1, <2>2, <2>3, TriesTypes
  <1>5. ASSUME "tries" \notin past'.races PROVE InTurn(i)'
    <2>1. InTurn(i)
      BY <1>5 DEF RowTries
    <2>2. Trying(i) = {}
      BY <1>1, <1>5 DEF Trying, Others
    <2>3. Trying(i)' = {c} /\ call'[c].n = codes'[i].attempts
      BY <1>1, <2>2
    <2>4. past'.tries[i] <= codes'[i].attempts + Cardinality(Trying(i)') + Lost'
      <3>1. past.tries[i] <= codes[i].attempts + Cardinality(Trying(i)) + Lost
        BY <2>1 DEF InTurn
      <3> QED BY <1>2, <1>3, <3>1, TriesTypes
    <2> QED BY <2>3, <2>4 DEF InTurn
  <1>6. \A d \in Trying(i)' : call'[d].n < MaxTries
    BY <1>1 DEF RowTries, TriesLeft
  <1> QED BY <1>4, <1>5, <1>6 DEF RowTries

\* Request c writes the attempts it has read, plus one.
LEMMA RowWritten ==
    ASSUME TypeInv, TypeInv', NEW i \in Rows, RowTries(i), NEW c \in Trying(i),
           call'[c].pc # "tried", \A d \in Calls \ {c} : call'[d] = call[d],
           codes'[i].attempts = call[c].n + 1, codes'[i].st = codes[i].st,
           events' = events, past' = past
    PROVE  RowTries(i)'
  <1>1. /\ Trying(i)' = Trying(i) \ {c}
        /\ \A d \in Trying(i) \ {c} : call'[d] = call[d]
    BY DEF Trying
  <1>2. Cardinality(Trying(i)') = Cardinality(Trying(i)) - 1
    <2>1. IsFiniteSet(Trying(i)) /\ c \in Trying(i)
      BY TriesTypes
    <2> QED BY <1>1, <2>1, FS_RemoveElement
  <1>3. Lost' = Lost
    BY DEF Lost
  <1>4. call[c].n \in Nat /\ call[c].n < MaxTries /\ c \in Calls
    BY DEF RowTries, Trying, TypeInv, TypeOK, Call
  <1>5. Room(i)'
    <2> SUFFICES ASSUME NEW P \in SUBSET (Trying(i) \ {c})
                 PROVE  past'.tries[i] + Rank(Profile(Holds(P, i)'), MaxTries, N)
                          <= Ceiling + Cardinality(Trying(i)') + Lost'
      BY <1>1 DEF Room
    <2> DEFINE Q == P \cup {c}
               w == Holds(Q, i)
               z == Holds(P, i)'
    <2>1. P \in SUBSET Calls /\ Q \in SUBSET Trying(i) /\ Q \in SUBSET Calls /\ c \in Q
      BY DEF Trying
    <2>2. w \in [Calls -> Nat] /\ z \in [Calls -> Nat]
      <3>1. w \in [Calls -> Nat]
        BY <2>1, TriesTypes
      <3>2. \A d \in Calls : call'[d].n \in Nat
        BY DEF TypeInv, TypeOK, Call
      <3>3. codes'[i].attempts \in Nat
        BY <1>4
      <3>4. z \in [Calls -> Nat]
        BY <3>2, <3>3 DEF Holds
      <3> QED BY <3>1, <3>4
    <2>3. /\ w[c] = call[c].n
          /\ \A d \in Calls \ Q : w[d] = codes[i].attempts
          /\ \A d \in Calls \ Q : z[d] = w[c] + 1
          /\ z[c] = w[c] + 1
          /\ \A d \in Q \ {c} : z[d] = w[d]
      <3>1. w[c] = call[c].n /\ \A d \in Calls \ Q : w[d] = codes[i].attempts
        BY <1>4 DEF Holds
      <3>2. \A d \in Calls \ P : z[d] = codes'[i].attempts
        BY DEF Holds
      <3>3. \A d \in Q \ {c} : z[d] = call'[d].n /\ w[d] = call[d].n /\ call'[d] = call[d]
        BY <1>1, <2>1 DEF Holds
      <3>4. c \in Calls \ P /\ Calls \ Q \in SUBSET (Calls \ P)
        BY <1>4
      <3> QED BY <3>1, <3>2, <3>3, <3>4
    <2>4. codes[i].attempts \in Nat
      BY TriesTypes
    <2>5. past.tries[i] + Rank(Profile(w), MaxTries, N)
            <= Ceiling + Cardinality(Trying(i)) + Lost
      BY <2>1 DEF RowTries, Room
    <2>6. Rank(Profile(w), MaxTries, N) \in Nat
      BY <2>1, TriesTypes
    <2> HIDE DEF Q, w, z
    <2>7. Before(Profile(z), Profile(w), MaxTries)
      <3>1. Wrote(w, z, Q, c, codes[i].attempts)
        BY <1>4, <2>3 DEF Wrote
      <3> QED BY <2>1, <2>2, <2>4, <3>1, WriteFalls
    <2>8. /\ Profile(z) \in Rising(MaxTries, N) /\ Profile(w) \in Rising(MaxTries, N)
          /\ MaxTries \in Nat /\ N \in Nat
      BY <2>2, ProfileType
    <2>9. /\ Rank(Profile(z), MaxTries, N) + 1 <= Rank(Profile(w), MaxTries, N)
          /\ Rank(Profile(z), MaxTries, N) \in Nat
      BY <2>7, <2>8, RankFalls, RankType
    <2>10. past'.tries[i] + Rank(Profile(z), MaxTries, N)
             <= Ceiling + Cardinality(Trying(i)') + Lost'
      BY <1>2, <1>3, <2>5, <2>6, <2>9, TriesTypes
    <2> QED BY <2>10 DEF z
  <1>6. ASSUME "tries" \notin past'.races PROVE InTurn(i)'
    <2>1. InTurn(i)
      BY <1>6 DEF RowTries
    <2>2. Trying(i) = {c} /\ call[c].n = codes[i].attempts
      BY <2>1 DEF InTurn
    <2>3. Trying(i)' = {}
      BY <1>1, <2>2
    <2> QED BY <1>2, <1>3, <2>1, <2>2, <2>3, TriesTypes DEF InTurn
  <1>7. \A d \in Trying(i)' : call'[d].n < MaxTries
    BY <1>1 DEF RowTries
  <1>8. codes'[i].attempts <= MaxTries /\ codes'[i].st # "none"
    BY <1>4, TriesTypes DEF RowTries
  <1> QED BY <1>5, <1>6, <1>7, <1>8 DEF RowTries

\* Request c dies: it may have tested a code, and writes nothing.
LEMMA RowCrashed ==
    ASSUME TypeInv, TypeInv', NEW i \in Rows, RowTries(i), NEW c \in Calls,
           call'[c].pc # "tried", \A d \in Calls \ {c} : call'[d] = call[d],
           codes' = codes, past'.tries = past.tries, past.races \subseteq past'.races,
           "crash" \in past'.races, events' = events + 1
    PROVE  RowTries(i)'
  <1>1. /\ Trying(i)' = Trying(i) \ {c}
        /\ \A d \in Trying(i) \ {c} : call'[d] = call[d]
    BY DEF Trying
  <1>2. /\ Cardinality(Trying(i)') \in Nat
        /\ Cardinality(Trying(i)) <= Cardinality(Trying(i)') + 1
    <2>1. IsFiniteSet(Trying(i)) /\ Cardinality(Trying(i)) \in Nat
      BY TriesTypes
    <2>2. /\ IsFiniteSet(Trying(i) \ {c})
          /\ Cardinality(Trying(i) \ {c}) =
               IF c \in Trying(i) THEN Cardinality(Trying(i)) - 1 ELSE Cardinality(Trying(i))
      BY <2>1, FS_RemoveElement
    <2>3. Cardinality(Trying(i) \ {c}) \in Nat
      BY <2>2, FS_CardinalityType
    <2> QED BY <1>1, <2>1, <2>2, <2>3
  <1>3. Lost + 1 <= Lost' /\ Lost \in Nat /\ Lost' \in Nat
    BY DEF Lost, TypeInv, TypeOK
  <1>4. Room(i)'
    <2> SUFFICES ASSUME NEW P \in SUBSET (Trying(i) \ {c})
                 PROVE  past'.tries[i] + Rank(Profile(Holds(P, i)'), MaxTries, N)
                          <= Ceiling + Cardinality(Trying(i)') + Lost'
      BY <1>1 DEF Room
    <2>1. P \in SUBSET Trying(i) /\ P \in SUBSET Calls
      BY DEF Trying
    <2>2. Holds(P, i)' = Holds(P, i)
      BY <1>1 DEF Holds
    <2>3. past.tries[i] + Rank(Profile(Holds(P, i)), MaxTries, N)
            <= Ceiling + Cardinality(Trying(i)) + Lost
      BY <2>1 DEF RowTries, Room
    <2> QED BY <1>2, <1>3, <2>1, <2>2, <2>3, TriesTypes
  <1>5. ASSUME "tries" \notin past'.races PROVE InTurn(i)'
    <2>1. InTurn(i)
      BY <1>5 DEF RowTries
    <2>2. past'.tries[i] <= codes'[i].attempts + Cardinality(Trying(i)') + Lost'
      <3>1. past.tries[i] <= codes[i].attempts + Cardinality(Trying(i)) + Lost
        BY <2>1 DEF InTurn
      <3> QED BY <1>2, <1>3, <3>1, TriesTypes
    <2> QED BY <1>1, <2>1, <2>2 DEF InTurn
  <1>6. /\ codes'[i].st = "none" => codes'[i].attempts = 0 /\ Trying(i)' = {}
        /\ codes'[i].attempts <= MaxTries
        /\ \A d \in Trying(i)' : call'[d].n < MaxTries
    BY <1>1 DEF RowTries
  <1> QED BY <1>4, <1>5, <1>6 DEF RowTries

LEMMA EventsBound ==
    ASSUME TypeInv, TriesInv, [Next]_vars
    PROVE  events <= events' /\ events' <= MaxEvents
  <1>1. events \in Nat /\ MaxEvents \in Nat /\ events <= MaxEvents
    BY RecoveryAssumption DEF TypeInv, TypeOK, TriesInv
  <1>2. events' = events \/ (events < MaxEvents /\ events' = events + 1)
    <2>1. ASSUME NEW c \in Calls, Login(c) \/ RequestReset(c) \/ Confirm(c) PROVE events' = events
      BY <2>1 DEF Login, RequestReset, Confirm, Start
    <2>2. ASSUME NEW c \in Calls, SetLock(c) \/ Crash(c)
          PROVE  events' = events \/ (events < MaxEvents /\ events' = events + 1)
      BY <2>2 DEF SetLock, Crash, Event
    <2>3. ASSUME NEW c \in Calls, Step(c), ~SetLock(c) PROVE events' = events
      BY <2>3 DEF Step, CheckLock, DropLock, ReadUser, Unlock, Open, Clear, Incr, IncrFound,
         IncrExpire, IncrInsert, Counted, Invalidate, Issue, Find, Tried, Matched, Load,
         FindAgain, Spend, Save, Revoke
    <2>4. ASSUME \/ \E k \in Keys : Expire(k)
                 \/ \E i \in Rows : ExpireCode(i)
                 \/ Disable
          PROVE  events < MaxEvents /\ events' = events + 1
      BY <2>4 DEF Expire, ExpireCode, Disable, Event
    <2>5. CASE UNCHANGED vars
      BY <2>5 DEF vars
    <2> QED BY <2>1, <2>2, <2>3, <2>4, <2>5 DEF Next
  <1> QED BY <1>1, <1>2

\* A step that tests no code, and writes no attempts.
SameTries ==
    \A d \in Calls : call[d].pc = "tried" \/ call'[d].pc = "tried" => call'[d] = call[d]

NoTest ==
    /\ SameTries
    /\ \A i \in Rows : /\ codes'[i].attempts = codes[i].attempts
                       /\ codes'[i].st = "none" => codes[i].st = "none"
    /\ past'.tries = past.tries /\ past.races \subseteq past'.races
    /\ events <= events'

LEMMA NoTestKeeps ==
    ASSUME TypeInv, TypeInv', TriesInv, NoTest, NEW i \in Rows
    PROVE  RowTries(i)'
  <1>1. Quiet(i)
    BY DEF NoTest, SameTries, Quiet, Trying
  <1> QED BY <1>1, RowKept DEF TriesInv

\* A request that is not about to write, and will not be, leaves the tries alone.
LEMMA QuietStep ==
    ASSUME NEW c \in Calls, ForCodes(c), call[c].pc # "tried", events <= events'
    PROVE  NoTest
  BY DEF ForCodes, NoTest, SameTries

LEMMA QuietRequest ==
    ASSUME TypeInv, NEW c \in Calls, events <= events',
           \/ Login(c) \/ RequestReset(c) \/ Confirm(c)
           \/ CheckLock(c) \/ ReadUser(c) \/ Unlock(c) \/ Open(c) \/ Counted(c)
           \/ Matched(c) \/ Load(c) \/ Save(c) \/ Revoke(c)
           \/ DropLock(c) \/ Clear(c) \/ Incr(c) \/ IncrFound(c) \/ IncrExpire(c)
           \/ IncrInsert(c) \/ SetLock(c)
    PROVE  NoTest
  <1>1. ForCodes(c)
    BY PlainStart, PlainSteps, CountSteps
  <1>2. call[c].pc # "tried"
    <2>1. CASE Login(c) \/ RequestReset(c) \/ Confirm(c)
      BY <2>1 DEF Login, RequestReset, Confirm, Start, At
    <2>2. CASE ~(Login(c) \/ RequestReset(c) \/ Confirm(c))
      BY <2>2 DEF CheckLock, DropLock, ReadUser, Unlock, Open, Clear, Incr, IncrFound,
         IncrExpire, IncrInsert, Counted, SetLock, Matched, Load, Save, Revoke, At
    <2> QED BY <2>1, <2>2
  <1> QED BY <1>1, <1>2, QuietStep

LEMMA QuietCodes ==
    ASSUME TypeInv, TriesInv, NEW c \in Calls, events <= events',
           Invalidate(c) \/ Issue(c) \/ Spend(c)
    PROVE  NoTest
  <1>1. codes \in [Rows -> Code] /\ \A i \in Rows : codes[i] \in Code
    BY DEF TypeInv, TypeOK
  <1>2. CASE Invalidate(c)
    <2>1. /\ call[c].pc = "invalidate" /\ call'[c].pc = "issue"
          /\ \A d \in Calls \ {c} : call'[d] = call[d]
          /\ past'.tries = past.tries /\ past.races \subseteq past'.races
      BY <1>2, Went, Remembered DEF Invalidate, At
    <2>2. ASSUME NEW i \in Rows
          PROVE  /\ codes'[i].attempts = codes[i].attempts
                 /\ codes'[i].st = "none" => codes[i].st = "none"
      <3>1. codes'[i] \in {codes[i], [codes[i] EXCEPT !.st = "used"]}
        BY <1>2 DEF Invalidate
      <3> QED BY <1>1, <3>1 DEF Code
    <2> QED BY <2>1, <2>2 DEF NoTest, SameTries
  <1>3. CASE Issue(c)
    <2>1. /\ call[c].pc = "issue" /\ call'[c].pc = "idle" /\ past' = past
          /\ \A d \in Calls \ {c} : call'[d] = call[d]
      BY <1>3, Left DEF Issue, At, Idle
    <2>2. PICK i \in NextRow :
            codes' = [codes EXCEPT ![i] = [NoCode EXCEPT !.st = "unused", !.admin = call[c].admin]]
      BY <1>3 DEF Issue
    <2>3. i \in Rows /\ codes[i].st = "none" /\ codes[i].attempts = 0
      BY DEF NextRow, TriesInv, RowTries
    <2>4. codes'[i].st = "unused" /\ codes'[i].attempts = 0
      BY <1>1, <2>2, <2>3 DEF NoCode
    <2>5. \A j \in Rows \ {i} : codes'[j] = codes[j]
      BY <1>1, <2>2
    <2> QED BY <2>1, <2>3, <2>4, <2>5 DEF NoTest, SameTries
  <1>4. CASE Spend(c)
    <2>1. call[c].pc = "spend" /\ call[c].row \in Rows
      BY <1>4 DEF Spend, At, TypeInv, Fits
    <2>2. /\ call'[c].pc \in {"load", "save"} /\ \A d \in Calls \ {c} : call'[d] = call[d]
      BY <1>4, Went DEF Spend
    <2>3. past'.tries = past.tries /\ past'.races = past.races
      BY <1>4 DEF Spend, TypeInv, TypeOK, Past
    <2>4. ASSUME NEW i \in Rows
          PROVE  /\ codes'[i].attempts = codes[i].attempts
                 /\ codes'[i].st = "none" => codes[i].st = "none"
      <3>1. codes'[i] \in {codes[i], [codes[i] EXCEPT !.st = "used"]}
        BY <1>1, <1>4, <2>1 DEF Spend
      <3> QED BY <1>1, <3>1 DEF Code
    <2> QED BY <2>1, <2>2, <2>3, <2>4 DEF NoTest, SameTries
  <1> QED BY <1>2, <1>3, <1>4

LEMMA QuietBeside ==
    ASSUME TypeInv, events <= events',
           \/ \E k \in Keys : Expire(k)
           \/ \E i \in Rows : ExpireCode(i)
           \/ Disable \/ UNCHANGED vars
    PROVE  NoTest
  <1>1. codes \in [Rows -> Code] /\ \A i \in Rows : codes[i] \in Code
    BY DEF TypeInv, TypeOK
  <1>2. CASE \E k \in Keys : Expire(k)
    <2>1. call' = call /\ codes' = codes
      BY <1>2 DEF Expire
    <2>2. \E n, R : past' = [past EXCEPT !.tested = n, !.races = @ \cup R]
      BY <1>2 DEF Expire
    <2>3. past'.tries = past.tries /\ past.races \subseteq past'.races
      BY <2>2 DEF TypeInv, TypeOK, Past
    <2> QED BY <2>1, <2>3 DEF NoTest, SameTries
  <1>3. CASE \E i \in Rows : ExpireCode(i)
    BY <1>1, <1>3 DEF ExpireCode, NoTest, SameTries, Code
  <1>4. CASE Disable
    BY <1>4 DEF Disable, NoTest, SameTries, TypeInv, TypeOK, Past
  <1>5. CASE UNCHANGED vars
    BY <1>5 DEF vars, NoTest, SameTries
  <1> QED BY <1>2, <1>3, <1>4, <1>5

\* A check of a code tests it against one row, or tests nothing.
LEMMA CheckKeeps ==
    ASSUME TypeInv, TypeInv', TriesInv, NEW c \in Calls, NEW onMatch \in {"matched", "spend"},
           AssertValidCode(c, onMatch), call[c].pc # "tried", UNCHANGED << codes, events >>
    PROVE  \A i \in Rows : RowTries(i)'
  <1>1. ASSUME NoTest PROVE \A i \in Rows : RowTries(i)'
    BY <1>1, NoTestKeeps
  <1>2. CASE End(c) /\ UNCHANGED past
    <2>1. NoTest
      <3>1. events <= events'
        BY DEF TypeInv, TypeOK
      <3> QED BY <1>2, <3>1, Left DEF NoTest, SameTries, Idle
    <2> QED BY <1>1, <2>1
  <1>3. ASSUME NEW i \in Rows, Checked(c, onMatch, i)
        PROVE  \A j \in Rows : RowTries(j)'
    <2>1. /\ call'[c].pc = IF call[c].given = i THEN onMatch ELSE "tried"
          /\ call'[c].row = i
          /\ \A d \in Calls \ {c} : call'[d] = call[d]
          /\ past.races \subseteq past'.races
      BY <1>3, CheckSteps
    <2>2. /\ call'[c].n = codes[i].attempts
          /\ codes[i].st = "unused" /\ TriesLeft(i)
          /\ past'.tries = [past.tries EXCEPT ![i] = IF call[c].given = i THEN @ ELSE @ + 1]
          /\ call'[c].pc = "tried" /\ "tries" \notin past'.races =>
               \A d \in Others(c, {"tried"}) : call[d].row # i
      BY <1>3, CheckTries
    <2>3. past.tries \in [Rows -> Nat] /\ events <= events'
      BY DEF TypeInv, TypeOK, Past
    <2>4. CASE call[c].given = i
      <3>1. past'.tries = past.tries /\ call'[c].pc # "tried"
        BY <2>1, <2>2, <2>3, <2>4
      <3>2. NoTest
        BY <2>1, <2>3, <3>1 DEF NoTest, SameTries
      <3> QED BY <1>1, <3>2
    <2>5. CASE call[c].given # i
      <3>1. call'[c].pc = "tried" /\ past'.tries[i] = past.tries[i] + 1
        BY <2>1, <2>2, <2>3, <2>5
      <3>2. RowTries(i)'
        <4>1. RowTries(i)
          BY DEF TriesInv
        <4> QED BY <2>1, <2>2, <3>1, <4>1, RowTested
      <3>3. ASSUME NEW j \in Rows \ {i} PROVE RowTries(j)'
        <4>1. Quiet(j)
          BY <2>1, <2>2, <2>3, <3>3 DEF Quiet, Trying
        <4> QED BY <4>1, RowKept DEF TriesInv
      <3> QED BY <3>2, <3>3
    <2> QED BY <2>4, <2>5
  <1> QED BY <1>2, <1>3, CheckShape

LEMMA TriedKeeps ==
    ASSUME TypeInv, TypeInv', TriesInv, NEW c \in Calls, Tried(c)
    PROVE  \A i \in Rows : RowTries(i)'
  <1>1. /\ call[c].pc = "tried" /\ call[c].row \in Rows
        /\ call'[c].pc = "idle" /\ \A d \in Calls \ {c} : call'[d] = call[d]
        /\ codes' = [codes EXCEPT ![call[c].row].attempts = call[c].n + 1]
        /\ past' = past /\ events' = events
    BY Left DEF Tried, At, Idle, TypeInv, Fits
  <1>2. codes \in [Rows -> Code] /\ events \in Nat
    BY DEF TypeInv, TypeOK
  <1>3. PICK i \in Rows : i = call[c].row
    BY <1>1
  <1>4. RowTries(i)'
    <2>1. RowTries(i) /\ c \in Trying(i)
      BY <1>1, <1>3 DEF TriesInv, Trying
    <2>2. codes'[i].attempts = call[c].n + 1 /\ codes'[i].st = codes[i].st
      BY <1>1, <1>2, <1>3 DEF Code
    <2> QED BY <1>1, <2>1, <2>2, RowWritten
  <1>5. ASSUME NEW j \in Rows \ {i} PROVE RowTries(j)'
    <2>1. codes'[j] = codes[j]
      BY <1>1, <1>2, <1>3
    <2>2. Quiet(j)
      BY <1>1, <1>2, <1>3, <2>1 DEF Quiet, Trying
    <2> QED BY <2>2, RowKept DEF TriesInv
  <1> QED BY <1>4, <1>5

LEMMA TriesStep == TypeInv /\ TypeInv' /\ TriesInv /\ [Next]_vars => TriesInv'
  <1> SUFFICES ASSUME TypeInv, TypeInv', TriesInv, [Next]_vars PROVE TriesInv'
    OBVIOUS
  <1>1. events <= events' /\ events' <= MaxEvents
    BY EventsBound
  <1>2. ASSUME NoTest PROVE \A i \in Rows : RowTries(i)'
    BY <1>2, NoTestKeeps
  <1>3. ASSUME NEW c \in Calls, Login(c) \/ RequestReset(c) \/ Confirm(c)
        PROVE  \A i \in Rows : RowTries(i)'
    BY <1>1, <1>2, <1>3, QuietRequest
  <1>4. ASSUME NEW c \in Calls, Step(c)
        PROVE  \A i \in Rows : RowTries(i)'
    <2>1. CASE Find(c)
      <3>1. /\ call[c].pc # "tried" /\ UNCHANGED << codes, events >>
            /\ \E onMatch \in {"matched", "spend"} : AssertValidCode(c, onMatch)
        BY <2>1 DEF Find, At
      <3> QED BY <3>1, CheckKeeps
    <2>2. CASE FindAgain(c)
      <3>1. /\ call[c].pc # "tried" /\ UNCHANGED << codes, events >>
            /\ AssertValidCode(c, "spend")
        BY <2>2 DEF FindAgain, At
      <3> QED BY <3>1, CheckKeeps
    <2>3. CASE Tried(c)
      BY <2>3, TriedKeeps
    <2>4. CASE Invalidate(c) \/ Issue(c) \/ Spend(c)
      BY <1>1, <1>2, <2>4, QuietCodes
    <2>5. CASE \/ CheckLock(c) \/ ReadUser(c) \/ Unlock(c) \/ Open(c) \/ Counted(c)
               \/ Matched(c) \/ Load(c) \/ Save(c) \/ Revoke(c)
               \/ DropLock(c) \/ Clear(c) \/ Incr(c) \/ IncrFound(c) \/ IncrExpire(c)
               \/ IncrInsert(c) \/ SetLock(c)
      BY <1>1, <1>2, <2>5, QuietRequest
    <2> QED BY <1>4, <2>1, <2>2, <2>3, <2>4, <2>5 DEF Step
  <1>5. ASSUME NEW c \in Calls, Crash(c) PROVE \A i \in Rows : RowTries(i)'
    <2>1. /\ call'[c].pc # "tried" /\ \A d \in Calls \ {c} : call'[d] = call[d]
          /\ codes' = codes /\ past'.tries = past.tries
          /\ past'.races = past.races \cup {"crash"} /\ events' = events + 1
      BY <1>5, Left, Remembered DEF Crash, Event, Idle
    <2> QED BY <2>1, RowCrashed DEF TriesInv
  <1>6. CASE \/ \E k \in Keys : Expire(k)
             \/ \E i \in Rows : ExpireCode(i)
             \/ Disable \/ UNCHANGED vars
    <2>1. NoTest
      BY <1>1, <1>6, QuietBeside
    <2> QED BY <1>1, <1>2, <2>1 DEF TriesInv
  <1> QED BY <1>1, <1>3, <1>4, <1>5, <1>6 DEF Next, TriesInv

LEMMA TriesInit == Init /\ TypeInv => TriesInv
  <1> SUFFICES ASSUME Init, TypeInv PROVE TriesInv
    OBVIOUS
  <1>1. events <= MaxEvents
    BY RecoveryAssumption DEF Init
  <1>2. ASSUME NEW i \in Rows PROVE RowTries(i)
    <2>1. Trying(i) = {} /\ Cardinality(Trying(i)) = 0
      <3>1. Trying(i) = {}
        BY DEF Init, Trying, Idle
      <3> QED BY <3>1, FS_EmptySet
    <2>2. codes[i].attempts = 0 /\ past.tries[i] = 0 /\ Lost = 0
      BY DEF Init, NoCode, Nothing, Lost
    <2>3. Room(i)
      <3>1. Trying(i) \in SUBSET Calls
        BY DEF Trying
      <3> QED BY <2>1, <2>2, <3>1, TriesTypes DEF Room
    <2>4. InTurn(i)
      BY <2>1, <2>2 DEF InTurn
    <2> QED BY <2>1, <2>2, <2>3, <2>4, TriesTypes DEF RowTries
  <1> QED BY <1>1, <1>2 DEF TriesInv

\* Requests that are still to write leave room below them for one test each.
LEMMA RowCounts ==
    ASSUME TypeInv, NEW i \in Rows, RowTries(i)
    PROVE  /\ past.tries[i] <= Ceiling + Lost
           /\ "tries" \notin past.races => past.tries[i] <= MaxTries + Lost
  <1> DEFINE T == Trying(i)
             w == Holds(T, i)
  <1>1. /\ T \in SUBSET Calls /\ IsFiniteSet(T) /\ Cardinality(T) \in Nat
        /\ w \in [Calls -> Nat] /\ Rank(Profile(w), MaxTries, N) \in Nat
        /\ past.tries[i] \in Nat /\ Lost \in Nat /\ Ceiling \in Nat
        /\ MaxTries \in Nat /\ N \in Nat /\ codes[i].attempts \in Nat
    <2>1. T \in SUBSET Calls
      BY DEF Trying
    <2> QED BY <2>1, TriesTypes
  <1>2. past.tries[i] + Rank(Profile(w), MaxTries, N) <= Ceiling + Cardinality(T) + Lost
    BY DEF RowTries, Room
  <1>3. Cardinality(T) <= Rank(Profile(w), MaxTries, N)
    <2>1. CASE T = {}
      <3>1. Cardinality(T) = 0
        BY <2>1, FS_EmptySet
      <3> QED BY <1>1, <3>1
    <2>2. CASE T # {}
      <3>1. \A c \in T : w[c] = call[c].n /\ w[c] < MaxTries
        BY <1>1 DEF RowTries, Holds
      <3>2. MaxTries \in Nat \ {0}
        BY <1>1, <2>2, <3>1
      <3>3. T \in SUBSET Below(w, MaxTries - 1)
        BY <1>1, <3>1, <3>2 DEF Below
      <3> HIDE DEF w, T
      <3>4. Cardinality(T) <= Cardinality(Below(w, MaxTries - 1))
        BY <3>3, BelowType, FS_Subset
      <3>5. Cardinality(T) <= Profile(w)[MaxTries - 1]
        BY <3>2, <3>4 DEF Profile
      <3>6. Profile(w) \in Rising(MaxTries, N)
        BY <1>1, ProfileType
      <3> QED BY <1>1, <3>2, <3>5, <3>6, RankRoom
    <2> QED BY <2>1, <2>2
  <1>4. ASSUME "tries" \notin past.races PROVE past.tries[i] <= MaxTries + Lost
    <2>1. InTurn(i) /\ codes[i].attempts <= MaxTries
      BY <1>4 DEF RowTries
    <2>2. CASE T = {}
      <3>1. Cardinality(T) = 0
        BY <2>2, FS_EmptySet
      <3> HIDE DEF w
      <3> QED BY <1>1, <2>1, <3>1 DEF InTurn
    <2>3. CASE T # {}
      <3>1. PICK c \in T : T = {c} /\ call[c].n = codes[i].attempts /\ call[c].n < MaxTries
        BY <2>1, <2>3 DEF InTurn, RowTries
      <3>2. Cardinality(T) = 1
        BY <3>1, FS_Singleton
      <3> HIDE DEF w
      <3> QED BY <1>1, <2>1, <3>1, <3>2 DEF InTurn
    <2> QED BY <2>2, <2>3
  <1> HIDE DEF w, T
  <1> QED BY <1>1, <1>2, <1>3, <1>4

LEMMA TriesCounted == TypeInv /\ TriesInv => TriesAreCounted
  <1> SUFFICES ASSUME TypeInv, TriesInv, NEW i \in Rows
               PROVE  past.tries[i] <=
                        (IF "tries" \in past.races THEN Ceiling ELSE MaxTries)
                          + (IF "crash" \in past.races THEN MaxEvents ELSE 0)
    BY DEF TriesAreCounted, Ceiling, N
  <1>1. /\ past.tries[i] <= Ceiling + Lost
        /\ "tries" \notin past.races => past.tries[i] <= MaxTries + Lost
    BY RowCounts DEF TriesInv
  <1>2. Lost <= (IF "crash" \in past.races THEN MaxEvents ELSE 0)
    <2>1. events \in Nat /\ MaxEvents \in Nat /\ events <= MaxEvents
      BY RecoveryAssumption DEF TypeInv, TypeOK, TriesInv
    <2> QED BY <2>1 DEF Lost
  <1> QED BY <1>1, <1>2, TriesTypes

(***************************************************************************)
(* The wrong codes tested against a reset code stay within the limit as    *)
(* long as tests do not overlap and the requests live to write the         *)
(* attempts back; with n requests at a time that overlap, within one less  *)
(* than (m + n over n).  Each request that dies may test one more          *)
(* (PasswordResetService.assertValidCode).                                 *)
(***************************************************************************)
THEOREM TriesCount == Spec => []TriesAreCounted
  <1>1. Init /\ TypeInv => TriesInv
    BY TriesInit
  <1>2. TypeInv /\ TypeInv' /\ TriesInv /\ [Next]_vars => TriesInv'
    BY TriesStep
  <1>3. TypeInv /\ TriesInv => TriesAreCounted
    BY TriesCounted
  <1> QED BY <1>1, <1>2, <1>3, TypeInvariant, PTL DEF Spec
=============================================================================
