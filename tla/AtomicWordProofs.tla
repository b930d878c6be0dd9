-------------------------- MODULE AtomicWordProofs --------------------------
(***************************************************************************)
(* What AtomicWord's registers compute, for every width: a register, a set *)
(* of bit positions, stands for the sum of its bits' powers of two; Bits   *)
(* is the inverse of that sum; adding and subtracting registers adds and   *)
(* subtracts, modulo a power of two, the numbers in each of their parts.   *)
(***************************************************************************)
EXTENDS AtomicWord, FiniteSetTheorems, WellFoundedInduction, TLAPS

(* Arithmetic: least elements, powers of two, quotients and remainders.      *)

LEMMA Least ==
    ASSUME NEW S \in SUBSET Nat, S # {}
    PROVE  \E x \in S : \A y \in S : x <= y
<1>1. PICK x \in S : \A y \in S : <<y, x>> \notin OpToRel(<, Nat)
  BY WFMin, NatLessThanWellFounded, Zenon
<1>2. ASSUME NEW y \in S, y < x
      PROVE  FALSE
  <2> DEFINE z == <<y, x>>
  <2>1. z \in Nat \X Nat /\ z[1] < z[2]
    BY <1>2, SMT
  <2>2. z \notin OpToRel(<, Nat)
    BY <1>1, Zenon
  <2> HIDE DEF z
  <2> QED BY <2>1, <2>2, Zenon DEF OpToRel
<1>3. \A y \in S : x <= y
  <2>1. S \subseteq Int
    OBVIOUS
  <2> QED BY <1>2, <2>1
<1> QED BY <1>3

\* A set of numbers that has 0 and, with each number, the next has them all.
LEMMA NatSet ==
    ASSUME NEW S, 0 \in S, \A n \in Nat : n \in S => n + 1 \in S
    PROVE  Nat \subseteq S
<1> SUFFICES ASSUME NEW m \in Nat, m \notin S PROVE FALSE
  OBVIOUS
<1>1. PICK x \in {n \in Nat : n \notin S} : \A y \in {n \in Nat : n \notin S} : x <= y
  <2> DEFINE T == {n \in Nat : n \notin S}
  <2>1. T \in SUBSET Nat /\ T # {}
    OBVIOUS
  <2> HIDE DEF T
  <2>2. \E x \in T : \A y \in T : x <= y
    BY <2>1, Least
  <2> QED BY <2>2 DEF T
<1>2. x # 0 /\ x - 1 \in Nat
  BY <1>1
<1>3. x - 1 \in S
  BY <1>1, <1>2
<1> QED BY <1>1, <1>2, <1>3

\* There are 2^n sets of numbers below n, and twice as many below n + 1.
LEMMA PowNext ==
    ASSUME NEW n \in Nat
    PROVE  2^n \in Nat /\ 2^(n + 1) = 2 * 2^n
<1> DEFINE A == SUBSET (0..(n - 1))
           B == {s \cup {n} : s \in A}
<1>1. IsFiniteSet(0..(n - 1)) /\ Cardinality(0..(n - 1)) = n
  BY FS_Interval
<1>2. IsFiniteSet(0..n) /\ Cardinality(0..n) = n + 1
  BY FS_Interval
<1>3. IsFiniteSet(A) /\ Cardinality(A) = 2^n
  BY <1>1, FS_SUBSET
<1>4. Cardinality(SUBSET (0..n)) = 2^(n + 1)
  BY <1>2, FS_SUBSET
<1>5. SUBSET (0..n) = A \cup B
  <2>1. ASSUME NEW r \in SUBSET (0..n) PROVE r \in A \cup B
    <3>1. r \ {n} \in A
      OBVIOUS
    <3>2. n \notin r => r \in A
      OBVIOUS
    <3>3. n \in r => r = (r \ {n}) \cup {n}
      OBVIOUS
    <3> QED BY <3>1, <3>2, <3>3
  <2>2. ASSUME NEW s \in A PROVE s \in SUBSET (0..n) /\ s \cup {n} \in SUBSET (0..n)
    OBVIOUS
  <2>3. B \subseteq SUBSET (0..n)
    BY <2>2
  <2>4. A \subseteq SUBSET (0..n)
    BY <2>2
  <2>5. SUBSET (0..n) \subseteq A \cup B
    BY <2>1
  <2> HIDE DEF A, B
  <2> QED BY <2>3, <2>4, <2>5
<1>6. A \cap B = {}
  <2>1. ASSUME NEW s \in A PROVE n \notin s
    OBVIOUS
  <2> QED BY <2>1
<1>7. ExistsBijection(A, B)
  <2> DEFINE f == [s \in A |-> s \cup {n}]
  <2>1. f \in [A -> B]
    OBVIOUS
  <2>2. \A s, t \in A : f[s] = f[t] => s = t
    <3>1. ASSUME NEW s \in A PROVE s = (s \cup {n}) \ {n}
      OBVIOUS
    <3> QED BY <3>1
  <2>3. \A b \in B : \E s \in A : f[s] = b
    OBVIOUS
  <2> HIDE DEF A, B, f
  <2> QED BY <2>1, <2>2, <2>3
        DEF ExistsBijection, Bijection, Injection, Surjection, IsInjective
<1>8. IsFiniteSet(B) /\ Cardinality(B) = 2^n
  BY <1>3, <1>7, FS_Bijection
<1>9. Cardinality(A \cup B) = Cardinality(A) + Cardinality(B) - Cardinality(A \cap B)
  BY <1>3, <1>8, FS_Union
<1>10. Cardinality(A \cap B) = 0
  BY <1>6, FS_EmptySet
<1>11. 2^n \in Nat
  BY <1>3, FS_CardinalityType
<1> HIDE DEF A, B
<1>12. Cardinality(A \cup B) = 2^(n + 1)
  BY <1>4, <1>5, Zenon
<1>13. 2^(n + 1) = 2^n + 2^n - 0
  BY <1>3, <1>8, <1>9, <1>10, <1>12, Zenon
<1> QED BY <1>11, <1>13

LEMMA PowZero == 2^0 = 1
BY SMT

LEMMA PowPos == \A n \in Nat : 2^n \in Nat /\ 2^n > 0
<1> DEFINE S == {n \in Nat : 2^n > 0}
<1>1. 0 \in S
  BY PowZero
<1>2. \A n \in Nat : n \in S => n + 1 \in S
  BY PowNext
<1>3. Nat \subseteq S
  <2> HIDE DEF S
  <2> QED BY <1>1, <1>2, NatSet
<1> QED BY <1>3, PowNext

LEMMA PowAdd ==
    ASSUME NEW a \in Nat, NEW b \in Nat
    PROVE  2^(a + b) = 2^a * 2^b
<1> DEFINE S == {n \in Nat : 2^(a + n) = 2^a * 2^n}
<1>1. 0 \in S
  BY PowZero, PowPos
<1>2. ASSUME NEW n \in Nat, n \in S PROVE n + 1 \in S
  <2>1. 2^(a + n + 1) = 2 * 2^(a + n) /\ 2^(n + 1) = 2 * 2^n
    BY PowNext
  <2>2. 2^a \in Nat /\ 2^n \in Nat
    BY PowPos
  <2>3. 2 * (2^a * 2^n) = 2^a * (2 * 2^n)
    BY <2>2
  <2>4. a + (n + 1) = a + n + 1
    OBVIOUS
  <2> QED BY <1>2, <2>1, <2>3, <2>4
<1>3. Nat \subseteq S
  <2> HIDE DEF S
  <2> QED BY <1>1, <1>2, NatSet
<1> QED BY <1>3

LEMMA PowMono ==
    ASSUME NEW a \in Nat, NEW b \in Nat, a <= b
    PROVE  2^a <= 2^b /\ (a < b => 2 * 2^a <= 2^b)
<1>1. ASSUME NEW m \in Nat PROVE 2^a <= 2^(a + m)
  <2>1. 2^(a + m) = 2^a * 2^m /\ 2^a \in Nat /\ 2^m \in Nat /\ 2^m > 0
    BY PowAdd, PowPos
  <2> QED BY <2>1
<1>2. b = a + (b - a) /\ b - a \in Nat
  OBVIOUS
<1>3. 2^a <= 2^b
  BY <1>1, <1>2
<1>4. ASSUME a < b PROVE 2 * 2^a <= 2^b
  <2>1. b = (a + 1) + (b - a - 1) /\ b - a - 1 \in Nat
    BY <1>4
  <2>2. 2^(a + 1) = 2 * 2^a /\ 2^(a + 1) \in Nat
    BY PowNext, PowPos
  <2>3. 2^b = 2^(a + 1) * 2^(b - a - 1) /\ 2^(b - a - 1) \in Nat /\ 2^(b - a - 1) > 0
    BY <2>1, PowAdd, PowPos
  <2>4. 2^(a + 1) <= 2^b
    BY <2>2, <2>3
  <2> QED BY <2>2, <2>4
<1> QED BY <1>3, <1>4

\* The quotient and the remainder of a division, and that no others are.
LEMMA DivMod ==
    ASSUME NEW a \in Int, NEW b \in Nat, b > 0
    PROVE  /\ a = b * (a \div b) + (a % b)
           /\ a \div b \in Int /\ a % b \in 0..(b - 1)
           /\ a >= 0 => a \div b \in Nat
BY SMT

LEMMA DivModUnique ==
    ASSUME NEW b \in Nat, b > 0, NEW q \in Int, NEW r \in 0..(b - 1)
    PROVE  (b * q + r) \div b = q /\ (b * q + r) % b = r
BY SMT
-----------------------------------------------------------------------------
(* The number in a register.                                                 *)

Sums(g, D) ==
    /\ g \in [D -> Nat]
    /\ g[{}] = 0
    /\ \A r \in D : \A i \in r : g[r] = g[r \ {i}] + 2^i

\* A sum over the bits of a register exists, in whatever order they are added.
LEMMA SumExists ==
    ASSUME NEW n \in Nat PROVE \E g : Sums(g, SUBSET (0..(n - 1)))
<1> DEFINE S == {m \in Nat : \E g : Sums(g, SUBSET (0..(m - 1)))}
<1>1. 0 \in S
  <2>1. 0..(0 - 1) = {}
    OBVIOUS
  <2>2. Sums([r \in SUBSET {} |-> 0], SUBSET {})
    BY DEF Sums
  <2> QED BY <2>1, <2>2
<1>2. ASSUME NEW m \in Nat, m \in S PROVE m + 1 \in S
  <2> DEFINE D == SUBSET (0..(m - 1))
             E == SUBSET (0..m)
  <2>1. PICK g : Sums(g, D)
    BY <1>2
  <2> DEFINE h == [r \in E |-> IF m \in r THEN g[r \ {m}] + 2^m ELSE g[r]]
  <2>2. \A r \in E : r \ {m} \in D /\ (m \notin r => r \in D)
    OBVIOUS
  <2>3. 2^m \in Nat
    BY PowPos
  <2>4. h \in [E -> Nat]
    <3>1. ASSUME NEW r \in E PROVE h[r] \in Nat
      <4>1. g[r \ {m}] \in Nat /\ (m \notin r => g[r] \in Nat)
        BY <2>1, <2>2 DEF Sums
      <4> QED BY <4>1, <2>3
    <3> QED BY <3>1
  <2>5. h[{}] = 0
    BY <2>1 DEF Sums
  <2>6. ASSUME NEW r \in E, NEW i \in r PROVE h[r] = h[r \ {i}] + 2^i
    <3>0. r \ {i} \in E /\ i \in 0..m /\ 2^i \in Nat
      BY PowPos
    <3>1. CASE m \notin r
      BY <3>0, <3>1, <2>1, <2>2 DEF Sums
    <3>2. CASE m \in r /\ i = m
      BY <3>0, <3>2, <2>1, <2>2
    <3>3. CASE m \in r /\ i # m
      <4>1. /\ h[r] = g[r \ {m}] + 2^m
            /\ h[r \ {i}] = g[(r \ {i}) \ {m}] + 2^m
        BY <3>0, <3>3
      <4>2. (r \ {i}) \ {m} = (r \ {m}) \ {i}
        OBVIOUS
      <4>3. g[r \ {m}] = g[(r \ {m}) \ {i}] + 2^i
        BY <2>1, <2>2, <3>3 DEF Sums
      <4>4. g[(r \ {m}) \ {i}] \in Nat
        BY <2>1, <2>2, <3>0, <4>2 DEF Sums
      <4> QED BY <2>3, <3>0, <4>1, <4>2, <4>3, <4>4
    <3> QED BY <3>1, <3>2, <3>3
  <2>7. Sums(h, E)
    <3> HIDE DEF h, E
    <3> QED BY <2>4, <2>5, <2>6 DEF Sums
  <2>8. 0..((m + 1) - 1) = 0..m
    OBVIOUS
  <2> QED BY <2>7, <2>8
<1>3. Nat \subseteq S
  <2> HIDE DEF S
  <2> QED BY <1>1, <1>2, NatSet
<1> QED BY <1>3

\* Uns is that sum.
LEMMA UnsSums == Sums(Uns, Reg)
<1>0. XLen \in Nat
  BY WidthsAssumption
<1>1. PICK g : Sums(g, Reg)
  BY <1>0, SumExists DEF Reg
<1>2. ASSUME NEW r \in Reg PROVE Uns[r] = g[r]
  <2> DEFINE ch(s) == CHOOSE x \in s : TRUE
             Eq(h) == h = [s \in SUBSET r |-> IF s = {} THEN 0
                                              ELSE 2^ch(s) + h[s \ {ch(s)}]]
             k == [s \in SUBSET r |-> g[s]]
  <2>1. \A s \in SUBSET r : s \in Reg
    BY DEF Reg
  <2>2. ASSUME NEW s \in SUBSET r, s # {} PROVE ch(s) \in s
    BY <2>2
  <2>3. ASSUME NEW s \in Reg, NEW i \in s
        PROVE  g[s] = 2^i + g[s \ {i}] /\ 2^i \in Nat /\ 2^i > 0 /\ g[s \ {i}] \in Nat
    <3>1. i \in Nat /\ s \ {i} \in Reg
      BY <1>0 DEF Reg
    <3> QED BY <1>1, <3>1, PowPos DEF Sums
  <2>4. Eq(k)
    <3>1. ASSUME NEW s \in SUBSET r
          PROVE  k[s] = IF s = {} THEN 0 ELSE 2^ch(s) + k[s \ {ch(s)}]
      <4>1. CASE s = {}
        BY <4>1, <1>1 DEF Sums
      <4>2. CASE s # {}
        <5> DEFINE x == ch(s)
        <5>1. x \in s
          BY <4>2, <2>2
        <5> HIDE DEF x
        <5>2. g[s] = 2^x + g[s \ {x}]
          BY <5>1, <2>1, <2>3
        <5>3. k[s] = 2^x + k[s \ {x}]
          BY <5>2
        <5> QED BY <4>2, <5>3 DEF x
      <4> QED BY <4>1, <4>2
    <3>2. k = [s \in SUBSET r |-> k[s]]
      OBVIOUS
    <3> QED BY <3>1, <3>2
  <2> DEFINE it == CHOOSE h : Eq(h)
  <2>5. Eq(it)
    <3> HIDE DEF k, Eq
    <3> QED BY <2>4
  <2>6. Uns[r] = it[r]
    BY DEF Uns, MapThenSumSet, MapThenFoldSet
  <2>7. ASSUME NEW s \in SUBSET r, it[s] # g[s],
               \A t \in SUBSET r : it[t] # g[t] => g[s] <= g[t]
        PROVE  FALSE
    <3> HIDE DEF it
    <3>1. it[s] = IF s = {} THEN 0 ELSE 2^ch(s) + it[s \ {ch(s)}]
      BY <2>5
    <3>2. s # {}
      BY <1>1, <2>7, <3>1 DEF Sums
    <3> DEFINE x == ch(s)
    <3>3. x \in s
      BY <2>2, <3>2
    <3> HIDE DEF x
    <3>4. it[s] = 2^x + it[s \ {x}]
      BY <3>1, <3>2 DEF x
    <3>5. g[s] = 2^x + g[s \ {x}] /\ g[s \ {x}] < g[s]
      BY <2>1, <2>3, <3>3
    <3>6. g[s \ {x}] \in Nat /\ g[s] \in Nat
      BY <1>1, <2>1, <2>3, <3>3 DEF Sums
    <3>7. it[s \ {x}] = g[s \ {x}]
      <4>1. s \ {x} \in SUBSET r
        OBVIOUS
      <4>2. ~(g[s] <= g[s \ {x}])
        BY <3>5, <3>6
      <4> QED BY <2>7, <4>1, <4>2, Zenon
    <3> QED BY <2>7, <3>4, <3>5, <3>7
  <2>8. ASSUME NEW s \in SUBSET r, it[s] # g[s] PROVE FALSE
    <3> DEFINE T == {g[t] : t \in {u \in SUBSET r : it[u] # g[u]}}
    <3> HIDE DEF it
    <3>1. T \in SUBSET Nat /\ T # {}
      BY <1>1, <2>1, <2>8 DEF Sums
    <3>2. \E x \in T : \A y \in T : x <= y
      <4> HIDE DEF T
      <4> QED BY <3>1, Least
    <3>3. PICK t \in SUBSET r : it[t] # g[t]
                                /\ \A u \in SUBSET r : it[u] # g[u] => g[t] <= g[u]
      BY <3>2
    <3> QED BY <2>7, <3>3
  <2> HIDE DEF it
  <2> QED BY <2>6, <2>8
<1>3. \A r \in Reg : r \in SUBSET (0..(XLen - 1)) /\ \A i \in r : r \ {i} \in Reg
  BY DEF Reg
<1>4. {} \in Reg
  BY DEF Reg
<1>5. Uns = [r \in Reg |-> Uns[r]]
  BY DEF Uns
<1>6. Uns \in [Reg -> Nat]
  BY <1>1, <1>2, <1>5 DEF Sums
<1> QED BY <1>1, <1>2, <1>3, <1>4, <1>6 DEF Sums

LEMMA UnsNat == ASSUME NEW r \in Reg PROVE Uns[r] \in Nat
BY UnsSums DEF Sums

LEMMA UnsEmpty == {} \in Reg /\ Uns[{}] = 0
BY UnsSums DEF Sums, Reg

LEMMA UnsBit ==
    ASSUME NEW r \in Reg, NEW i \in r
    PROVE  /\ i \in 0..(XLen - 1) /\ 2^i \in Nat /\ r \ {i} \in Reg
           /\ Uns[r] = Uns[r \ {i}] + 2^i
           /\ Uns[r] \in Nat /\ Uns[r \ {i}] \in Nat
<1>1. i \in 0..(XLen - 1) /\ r \ {i} \in Reg
  BY DEF Reg
<1> QED BY <1>1, UnsSums, PowPos DEF Sums

\* What lies below position k is less than 2^k.
LEMMA UnsBound ==
    ASSUME NEW k \in Nat, NEW r \in Reg, r \subseteq 0..(k - 1)
    PROVE  Uns[r] < 2^k
<1> DEFINE S == {n \in Nat : \A s \in Reg : s \subseteq 0..(n - 1) => Uns[s] < 2^n}
<1>1. 0 \in S
  <2>1. ASSUME NEW s \in Reg, s \subseteq 0..(0 - 1) PROVE Uns[s] < 2^0
    <3>1. s = {}
      BY <2>1
    <3> QED BY <3>1, UnsEmpty, PowZero
  <2> QED BY <2>1
<1>2. ASSUME NEW n \in Nat, n \in S PROVE n + 1 \in S
  <2>0. 2^n \in Nat /\ 2^(n + 1) = 2 * 2^n
    BY PowNext
  <2>1. ASSUME NEW s \in Reg, s \subseteq 0..((n + 1) - 1) PROVE Uns[s] < 2^(n + 1)
    <3>1. s \ {n} \subseteq 0..(n - 1) /\ s \ {n} \in Reg
      BY <2>1 DEF Reg
    <3>2. Uns[s \ {n}] < 2^n
      BY <1>2, <3>1
    <3>3. CASE n \in s
      BY <2>0, <3>2, <3>3, UnsBit
    <3>4. CASE n \notin s
      <4>1. s \ {n} = s
        BY <3>4
      <4> QED BY <2>0, <3>2, <4>1, UnsNat
    <3> QED BY <3>3, <3>4
  <2> QED BY <2>1
<1>3. Nat \subseteq S
  <2> HIDE DEF S
  <2> QED BY <1>1, <1>2, NatSet
<1> QED BY <1>3

\* Registers with no bit in common.
LEMMA UnsUnion ==
    ASSUME NEW a \in Reg, NEW b \in Reg, a \cap b = {}
    PROVE  a \cup b \in Reg /\ Uns[a \cup b] = Uns[a] + Uns[b]
<1> DEFINE S == {n \in Nat : \A s \in Reg :
                    s \subseteq 0..(n - 1) /\ a \cap s = {}
                       => Uns[a \cup s] = Uns[a] + Uns[s]}
<1>0. \A s \in Reg : a \cup s \in Reg
  BY DEF Reg
<1>1. 0 \in S
  <2>1. ASSUME NEW s \in Reg, s \subseteq 0..(0 - 1) PROVE Uns[a \cup s] = Uns[a] + Uns[s]
    <3>1. s = {}
      BY <2>1
    <3>2. a \cup s = a
      BY <3>1
    <3> QED BY <3>1, <3>2, UnsEmpty, UnsNat
  <2> QED BY <2>1
<1>2. ASSUME NEW n \in Nat, n \in S PROVE n + 1 \in S
  <2>1. ASSUME NEW s \in Reg, s \subseteq 0..((n + 1) - 1), a \cap s = {}
        PROVE  Uns[a \cup s] = Uns[a] + Uns[s]
    <3> DEFINE t == s \ {n}
    <3>1. t \subseteq 0..(n - 1) /\ t \in Reg /\ a \cap t = {}
      BY <2>1 DEF Reg
    <3>2. Uns[a \cup t] = Uns[a] + Uns[t]
      BY <1>2, <3>1
    <3>3. CASE n \in s
      <4>1. (a \cup s) \ {n} = a \cup t
        BY <2>1, <3>3
      <4>2. Uns[a \cup s] = Uns[a \cup t] + 2^n
        BY <1>0, <3>3, <4>1, UnsBit
      <4>3. Uns[s] = Uns[t] + 2^n /\ 2^n \in Nat
        BY <3>3, UnsBit
      <4> QED BY <3>1, <3>2, <4>2, <4>3, UnsNat
    <3>4. CASE n \notin s
      <4>1. t = s
        BY <3>4
      <4> QED BY <3>2, <4>1
    <3> QED BY <3>3, <3>4
  <2> QED BY <2>1
<1>3. Nat \subseteq S
  <2> HIDE DEF S
  <2> QED BY <1>1, <1>2, NatSet
<1>4. XLen \in S
  BY <1>3, WidthsAssumption
<1> QED BY <1>0, <1>4 DEF Reg

\* A register moved up by k places is 2^k times as much.
LEMMA UnsShift ==
    ASSUME NEW k \in Nat, NEW a \in Reg, {i + k : i \in a} \in Reg
    PROVE  Uns[{i + k : i \in a}] = 2^k * Uns[a]
<1> DEFINE up(s) == {i + k : i \in s}
           S == {n \in Nat : \A s \in SUBSET a :
                    s \subseteq 0..(n - 1) => Uns[up(s)] = 2^k * Uns[s]}
<1>0. \A s \in SUBSET a : s \in Reg /\ up(s) \in Reg
  BY DEF Reg
<1>1. 0 \in S
  <2>1. ASSUME NEW s \in SUBSET a, s \subseteq 0..(0 - 1) PROVE Uns[up(s)] = 2^k * Uns[s]
    <3>1. s = {}
      BY <2>1
    <3>2. up(s) = {}
      BY <3>1
    <3>3. Uns[up(s)] = 0 /\ Uns[s] = 0
      BY <3>1, <3>2, UnsEmpty
    <3>4. 2^k * 0 = 0
      BY PowPos
    <3> QED BY <3>3, <3>4
  <2> QED BY <2>1
<1>2. ASSUME NEW n \in Nat, n \in S PROVE n + 1 \in S
  <2>1. ASSUME NEW s \in SUBSET a, s \subseteq 0..((n + 1) - 1)
        PROVE  Uns[up(s)] = 2^k * Uns[s]
    <3> DEFINE t == s \ {n}
    <3>1. t \subseteq 0..(n - 1) /\ t \in SUBSET a
      BY <2>1
    <3>2. Uns[up(t)] = 2^k * Uns[t]
      BY <1>2, <3>1
    <3>3. CASE n \in s
      <4>1. up(s) \ {n + k} = up(t) /\ n + k \in up(s)
        <5>1. \A i \in s : i \in Int
          BY <2>1
        <5> QED BY <3>3, <5>1
      <4>2. Uns[up(s)] = Uns[up(t)] + 2^(n + k)
        BY <1>0, <4>1, UnsBit
      <4>3. Uns[s] = Uns[t] + 2^n
        BY <1>0, <3>3, UnsBit
      <4>4. 2^(n + k) = 2^n * 2^k /\ 2^n \in Nat /\ 2^k \in Nat /\ Uns[t] \in Nat
        BY <1>0, <3>1, PowAdd, PowPos, UnsNat
      <4>5. 2^k * (Uns[t] + 2^n) = 2^k * Uns[t] + 2^n * 2^k
        BY <4>4
      <4> HIDE DEF t, up
      <4> QED BY <3>2, <4>2, <4>3, <4>4, <4>5
    <3>4. CASE n \notin s
      <4>1. t = s
        BY <3>4
      <4> QED BY <3>2, <4>1
    <3> QED BY <3>3, <3>4
  <2> QED BY <2>1
<1>3. Nat \subseteq S
  <2> HIDE DEF S
  <2> QED BY <1>1, <1>2, NatSet
<1>4. XLen \in S
  BY <1>3, WidthsAssumption
<1> QED BY <1>4 DEF Reg

\* A run of ones.
LEMMA UnsInterval ==
    ASSUME NEW a \in Nat, NEW b \in Nat, a <= b, b <= XLen
    PROVE  a..(b - 1) \in Reg /\ Uns[a..(b - 1)] = 2^b - 2^a
<1> DEFINE S == {n \in Nat : a + n <= XLen => Uns[a..(a + n - 1)] = 2^(a + n) - 2^a}
<1>0. XLen \in Nat /\ \A n \in Nat : 2^n \in Nat
  BY WidthsAssumption, PowPos
<1>1. 0 \in S
  <2>1. a..(a + 0 - 1) = {} /\ a + 0 = a
    OBVIOUS
  <2>2. 2^a - 2^a = 0
    BY <1>0
  <2> QED BY <2>1, <2>2, UnsEmpty
<1>2. ASSUME NEW n \in Nat, n \in S PROVE n + 1 \in S
  <2> SUFFICES ASSUME a + (n + 1) <= XLen
               PROVE  Uns[a..(a + (n + 1) - 1)] = 2^(a + (n + 1)) - 2^a
    OBVIOUS
  <2> DEFINE r == a..(a + n)
  <2>1. r \in Reg /\ a + n \in r /\ r \ {a + n} = a..(a + n - 1)
    BY <1>0 DEF Reg
  <2>2. Uns[r] = Uns[a..(a + n - 1)] + 2^(a + n)
    BY <2>1, UnsBit
  <2>3. Uns[a..(a + n - 1)] = 2^(a + n) - 2^a
    BY <1>0, <1>2
  <2>4. 2^(a + n + 1) = 2 * 2^(a + n)
    BY PowNext
  <2>5. a + (n + 1) - 1 = a + n /\ a + (n + 1) = a + n + 1
    OBVIOUS
  <2>6. 2^(a + n) \in Nat /\ 2^a \in Nat
    BY <1>0
  <2> HIDE DEF r
  <2>7. Uns[r] = 2^(a + n + 1) - 2^a
    BY <2>2, <2>3, <2>4, <2>6
  <2> QED BY <2>5, <2>7 DEF r
<1>3. Nat \subseteq S
  <2> HIDE DEF S
  <2> QED BY <1>1, <1>2, NatSet
<1>4. b - a \in S /\ a + (b - a) = b
  <2>1. b - a \in Nat /\ a + (b - a) = b
    OBVIOUS
  <2> HIDE DEF S
  <2> QED BY <1>3, <2>1
<1>5. a..(b - 1) \in Reg
  BY <1>0 DEF Reg
<1> QED BY <1>4, <1>5

-----------------------------------------------------------------------------
(* Numbers and their bits.                                                   *)

\* The bits of r from position k upward, n of them, moved down to position 0.
Part(r, k, n) == {i - k : i \in r \cap k..(k + n - 1)}

LEMMA PartInReg ==
    ASSUME NEW r \in Reg, NEW k \in Nat, NEW n \in Nat
    PROVE  Part(r, k, n) \in Reg /\ Part(r, k, n) \subseteq 0..(n - 1)
BY WidthsAssumption DEF Part, Reg

\* A register is its k low bits, then n bits, then the rest.
LEMMA UnsSplit ==
    ASSUME NEW r \in Reg, NEW k \in Nat, NEW n \in Nat
    PROVE  \E low \in 0..(2^k - 1), high \in Nat :
              /\ Uns[r] = low + 2^k * (Uns[Part(r, k, n)] + 2^n * high)
              /\ Uns[Part(r, k, n)] \in 0..(2^n - 1)
              /\ r \cap 0..(k - 1) = {} => low = 0
              /\ r \subseteq 0..(k + n - 1) => high = 0
<1> DEFINE a == r \cap 0..(k - 1)
           p == Part(r, k, n)
           P == {i + k : i \in p}
           h == {i - (k + n) : i \in r \ 0..(k + n - 1)}
           H == {i + (k + n) : i \in h}
<1>0. XLen \in Nat /\ 2^k \in Nat /\ 2^n \in Nat /\ 2^(k + n) = 2^k * 2^n
  BY WidthsAssumption, PowPos, PowAdd
<1>1. a \in Reg /\ p \in Reg /\ p \subseteq 0..(n - 1) /\ h \in Reg
  <2>1. h \in Reg
    BY <1>0 DEF Reg
  <2> QED BY <2>1, PartInReg DEF Reg
<1>2. P = r \cap k..(k + n - 1)
  <2>1. ASSUME NEW j \in r \cap k..(k + n - 1) PROVE j \in P
    <3>1. j - k \in p /\ j = (j - k) + k
      BY <2>1 DEF Part
    <3> QED BY <3>1
  <2>2. ASSUME NEW i \in r \cap k..(k + n - 1) PROVE (i - k) + k = i
    OBVIOUS
  <2> QED BY <2>1, <2>2 DEF Part
<1>3. H = r \ 0..(k + n - 1)
  <2>0. r \subseteq Int
    BY DEF Reg
  <2>1. ASSUME NEW j \in r \ 0..(k + n - 1) PROVE j \in H
    <3>1. j - (k + n) \in h /\ j = (j - (k + n)) + (k + n)
      BY <2>0, <2>1
    <3> QED BY <3>1
  <2>2. ASSUME NEW i \in r \ 0..(k + n - 1) PROVE (i - (k + n)) + (k + n) = i
    BY <2>0
  <2> QED BY <2>1, <2>2
<1>4. P \in Reg /\ H \in Reg
  BY <1>2, <1>3 DEF Reg
<1>5. Uns[P] = 2^k * Uns[p] /\ Uns[H] = 2^(k + n) * Uns[h]
  <2>1. Uns[P] = 2^k * Uns[p]
    BY <1>1, <1>4, UnsShift
  <2>2. Uns[H] = 2^(k + n) * Uns[h]
    BY <1>1, <1>4, UnsShift
  <2> QED BY <2>1, <2>2
<1>6. Uns[a] \in 0..(2^k - 1) /\ Uns[p] \in 0..(2^n - 1) /\ Uns[h] \in Nat
  <2>1. Uns[a] \in Nat /\ Uns[a] < 2^k
    BY <1>1, UnsNat, UnsBound
  <2>2. Uns[p] \in Nat /\ Uns[p] < 2^n
    BY <1>1, UnsNat, UnsBound
  <2>3. Uns[h] \in Nat
    BY <1>1, UnsNat
  <2> QED BY <1>0, <2>1, <2>2, <2>3
<1>7. r = (a \cup P) \cup H /\ a \cap P = {} /\ (a \cup P) \cap H = {}
  <2>1. \A i \in r : i \in Nat
    BY DEF Reg
  <2>2. \A i \in r : i \in 0..(k - 1) \/ i \in k..(k + n - 1) \/ i \notin 0..(k + n - 1)
    BY <2>1
  <2>3. \A i \in 0..(k - 1) : i \in 0..(k + n - 1) /\ i \notin k..(k + n - 1)
    OBVIOUS
  <2>4. \A i \in k..(k + n - 1) : i \in 0..(k + n - 1)
    OBVIOUS
  <2> HIDE DEF P, H
  <2> QED BY <1>2, <1>3, <2>2, <2>3, <2>4
<1>8. Uns[r] = Uns[a] + Uns[P] + Uns[H]
  <2>1. a \cup P \in Reg /\ Uns[a \cup P] = Uns[a] + Uns[P]
    BY <1>1, <1>4, <1>7, UnsUnion
  <2>2. Uns[(a \cup P) \cup H] = Uns[a \cup P] + Uns[H]
    BY <1>4, <1>7, <2>1, UnsUnion
  <2> QED BY <1>7, <2>1, <2>2
<1>9. a = {} => Uns[a] = 0
  BY UnsEmpty
<1>10. r \subseteq 0..(k + n - 1) => Uns[h] = 0
  <2>1. r \subseteq 0..(k + n - 1) => h = {}
    OBVIOUS
  <2> HIDE DEF h
  <2> QED BY <2>1, UnsEmpty
<1> HIDE DEF a, p, P, h, H
<1>11. Uns[r] = Uns[a] + 2^k * (Uns[p] + 2^n * Uns[h])
  <2>1. \A x, y, u, v \in Nat : x * (u + y * v) = x * u + (x * y) * v
    OBVIOUS
  <2>2. 2^k * (Uns[p] + 2^n * Uns[h]) = 2^k * Uns[p] + (2^k * 2^n) * Uns[h]
    BY <1>0, <1>6, <2>1
  <2>3. 2^k * Uns[p] \in Nat /\ (2^k * 2^n) * Uns[h] \in Nat
    BY <1>0, <1>6
  <2> QED BY <1>0, <1>5, <1>6, <1>8, <2>2, <2>3
<1> QED BY <1>6, <1>9, <1>10, <1>11 DEF a, p

\* r is low, then the n-bit number t modulo 2^n, then the rest.
Splits(r, k, n, low, t, high) ==
    low \in 0..(2^k - 1) /\ t \in Int /\ high \in Int
    /\ Uns[r] = low + 2^k * (t + 2^n * high)

\* The number in a part of a register whose number is known.
LEMMA PartNumber ==
    ASSUME NEW r \in Reg, NEW k \in Nat, NEW n \in Nat, NEW low, NEW t, NEW high,
           Splits(r, k, n, low, t, high)
    PROVE  Uns[Part(r, k, n)] = t % 2^n
<1> USE DEF Splits
<1>0. 2^k \in Nat /\ 2^k > 0 /\ 2^n \in Nat /\ 2^n > 0
  BY PowPos
<1>1. PICK l2 \in 0..(2^k - 1), h2 \in Nat :
             /\ Uns[r] = l2 + 2^k * (Uns[Part(r, k, n)] + 2^n * h2)
             /\ Uns[Part(r, k, n)] \in 0..(2^n - 1)
             /\ r \cap 0..(k - 1) = {} => l2 = 0
             /\ r \subseteq 0..(k + n - 1) => h2 = 0
  BY UnsSplit, Zenon
<1> DEFINE u == Uns[Part(r, k, n)]
<1> HIDE DEF u
<1>2. u \in 0..(2^n - 1) /\ Uns[r] = l2 + 2^k * (u + 2^n * h2)
  BY <1>1 DEF u
<1>3. u + 2^n * h2 \in Int /\ t + 2^n * high \in Int
  BY <1>0, <1>2
<1>4. (2^k * (u + 2^n * h2) + l2) \div 2^k = u + 2^n * h2
  BY <1>0, <1>3, DivModUnique
<1>5. (2^k * (t + 2^n * high) + low) \div 2^k = t + 2^n * high
  BY <1>0, <1>3, DivModUnique
<1>6. 2^k * (u + 2^n * h2) + l2 = 2^k * (t + 2^n * high) + low
  <2> DEFINE A == 2^k * (u + 2^n * h2)
             B == 2^k * (t + 2^n * high)
  <2>1. A \in Int /\ B \in Int
    BY <1>0, <1>3
  <2>2. l2 + A = low + B
    BY <1>2
  <2> HIDE DEF A, B
  <2>3. A + l2 = B + low
    BY <2>1, <2>2
  <2> QED BY <2>3 DEF A, B
<1>7. u + 2^n * h2 = t + 2^n * high
  BY <1>4, <1>5, <1>6
<1>8. t = 2^n * (t \div 2^n) + (t % 2^n) /\ t \div 2^n \in Int /\ t % 2^n \in 0..(2^n - 1)
  BY <1>0, DivMod
<1> DEFINE d == (t \div 2^n) + high - h2
           m == t % 2^n
<1>9. d \in Int
  BY <1>8
<1>10. u = 2^n * d + m
  <2>1. \A x, q, y, z \in Int : x * (q + y - z) = x * q + x * y - x * z
    OBVIOUS
  <2>2. 2^n * d = 2^n * (t \div 2^n) + 2^n * high - 2^n * h2
    BY <1>0, <1>8, <2>1
  <2>3. /\ 2^n * (t \div 2^n) \in Int /\ 2^n * high \in Int /\ 2^n * h2 \in Int
        /\ m \in Int /\ u \in Int
    BY <1>0, <1>2, <1>8
  <2> DEFINE T == 2^n * (t \div 2^n)
             H == 2^n * high
             H2 == 2^n * h2
  <2>4. 2^n * d = T + H - H2 /\ T \in Int /\ H \in Int /\ H2 \in Int /\ m \in Int
    BY <2>2, <2>3
  <2>5. u + H2 = t + H /\ t = T + m
    BY <1>7, <1>8
  <2> HIDE DEF d, T, H, H2, m
  <2> QED BY <2>3, <2>4, <2>5
<1>11. (2^n * d + m) % 2^n = m /\ (2^n * 0 + u) % 2^n = u
  <2>1. (2^n * d + m) % 2^n = m
    BY <1>0, <1>8, <1>9, DivModUnique
  <2>2. (2^n * 0 + u) % 2^n = u
    BY <1>0, <1>2, DivModUnique
  <2> QED BY <2>1, <2>2
<1>12. 2^n * 0 + u = u
  BY <1>0, <1>2
<1> QED BY <1>10, <1>11, <1>12 DEF u

\* Bits finds every bit of the register whose number it is given.
LEMMA BitsOfUns ==
    ASSUME NEW r \in Reg
    PROVE  Uns[r] \in 0..(2^XLen - 1) /\ Bits[Uns[r]] = r
<1>0. XLen \in Nat
  BY WidthsAssumption
<1>1. Uns[r] \in 0..(2^XLen - 1)
  <2>1. Uns[r] < 2^XLen /\ Uns[r] \in Nat /\ 2^XLen \in Nat
    BY <1>0, UnsBound, UnsNat, PowPos DEF Reg
  <2> QED BY <2>1
<1>2. ASSUME NEW i \in 0..(XLen - 1) PROVE (Uns[r] \div 2^i) % 2 = 1 <=> i \in r
  <2>1. PICK low \in 0..(2^i - 1), high \in Nat :
              /\ Uns[r] = low + 2^i * (Uns[Part(r, i, 1)] + 2^1 * high)
              /\ Uns[Part(r, i, 1)] \in 0..(2^1 - 1)
              /\ r \cap 0..(i - 1) = {} => low = 0
              /\ r \subseteq 0..(i + 1 - 1) => high = 0
    <3>1. i \in Nat /\ 1 \in Nat
      OBVIOUS
    <3> QED BY <3>1, UnsSplit, Zenon
  <2>2. 2^1 = 2 /\ 2^i \in Nat /\ 2^i > 0
    BY PowPos
  <2>3. i \in r => Uns[Part(r, i, 1)] = 1
    <3>1. i \in r => Part(r, i, 1) = {0}
      BY <1>0 DEF Part
    <3>2. {0} \in Reg
      BY WidthsAssumption DEF Reg
    <3>3. Uns[{0}] = 1
      <4>1. Uns[{0}] = Uns[{0} \ {0}] + 2^0 /\ {0} \ {0} = {}
        BY <3>2, UnsBit
      <4> QED BY <4>1, UnsEmpty, PowZero
    <3> QED BY <3>1, <3>3
  <2>4. i \notin r => Uns[Part(r, i, 1)] = 0
    <3>1. i \notin r => Part(r, i, 1) = {}
      BY <1>0 DEF Part
    <3> QED BY <3>1, UnsEmpty
  <2> DEFINE b == Uns[Part(r, i, 1)]
  <2> HIDE DEF b
  <2>5. b \in 0..1 /\ Uns[r] = low + 2^i * (b + 2 * high)
    BY <2>1, <2>2 DEF b
  <2>6. (2^i * (b + 2 * high) + low) \div 2^i = b + 2 * high
    BY <2>2, <2>5, DivModUnique
  <2>7. Uns[r] = 2^i * (b + 2 * high) + low
    BY <2>2, <2>5
  <2>8. (Uns[r] \div 2^i) % 2 = b
    BY <2>5, <2>6, <2>7
  <2> QED BY <2>3, <2>4, <2>8 DEF b
<1>3. Bits[Uns[r]] = {i \in 0..(XLen - 1) : (Uns[r] \div 2^i) % 2 = 1}
  BY <1>1 DEF Bits
<1> QED BY <1>1, <1>2, <1>3 DEF Reg

\* Every number below 2^k is that of a register with no bit from k upward.
LEMMA SomeReg ==
    ASSUME NEW k \in 0..XLen, NEW n \in 0..(2^k - 1)
    PROVE  \E r \in Reg : r \subseteq 0..(k - 1) /\ Uns[r] = n
<1> DEFINE S == {m \in Nat : m <= XLen => \A x \in 0..(2^m - 1) :
                    \E r \in Reg : r \subseteq 0..(m - 1) /\ Uns[r] = x}
<1>0. XLen \in Nat
  BY WidthsAssumption
<1>1. 0 \in S
  <2>1. \A x \in 0..(2^0 - 1) : x = 0
    BY PowZero
  <2> QED BY <2>1, UnsEmpty
<1>2. ASSUME NEW m \in Nat, m \in S PROVE m + 1 \in S
  <2> SUFFICES ASSUME m + 1 <= XLen, NEW x \in 0..(2^(m + 1) - 1)
               PROVE  \E r \in Reg : r \subseteq 0..((m + 1) - 1) /\ Uns[r] = x
    OBVIOUS
  <2>1. 2^m \in Nat /\ 2^(m + 1) = 2 * 2^m
    BY PowNext
  <2>2. \A y \in 0..(2^m - 1) : \E r \in Reg : r \subseteq 0..(m - 1) /\ Uns[r] = y
    BY <1>0, <1>2
  <2>3. CASE x < 2^m
    <3>1. x \in 0..(2^m - 1)
      BY <2>1, <2>3
    <3>2. PICK r \in Reg : r \subseteq 0..(m - 1) /\ Uns[r] = x
      BY <2>2, <3>1
    <3>3. r \subseteq 0..((m + 1) - 1)
      BY <3>2
    <3> QED BY <3>2, <3>3
  <2>4. CASE ~(x < 2^m)
    <3>1. x - 2^m \in 0..(2^m - 1)
      BY <2>1, <2>4
    <3>2. PICK r \in Reg : r \subseteq 0..(m - 1) /\ Uns[r] = x - 2^m
      BY <2>2, <3>1
    <3>3. r \cup {m} \in Reg /\ r \cup {m} \subseteq 0..((m + 1) - 1)
      BY <1>0, <3>2 DEF Reg
    <3>4. (r \cup {m}) \ {m} = r
      BY <3>2
    <3>5. Uns[r \cup {m}] = (x - 2^m) + 2^m
      BY <3>2, <3>3, <3>4, UnsBit
    <3>6. Uns[r \cup {m}] = x
      BY <2>1, <3>5
    <3> QED BY <3>3, <3>6
  <2> QED BY <2>3, <2>4
<1>3. Nat \subseteq S
  <2> HIDE DEF S
  <2> QED BY <1>1, <1>2, NatSet
<1> QED BY <1>0, <1>3

\* Every number below 2^k is the number of its bits, which are k: operands survive
\* the way from numbers to registers and back (Bits and Uns).
LEMMA UnsOfBits ==
    ASSUME NEW k \in 0..XLen, NEW n \in 0..(2^k - 1)
    PROVE  Bits[n] \in Reg /\ Bits[n] \subseteq 0..(k - 1) /\ Uns[Bits[n]] = n
<1>1. PICK r \in Reg : r \subseteq 0..(k - 1) /\ Uns[r] = n
  BY SomeReg
<1> QED BY <1>1, BitsOfUns
-----------------------------------------------------------------------------
(* Arithmetic in a part of a register.                                       *)

\* Adding to a register a number with nothing below position k adds, modulo
\* 2^n, the numbers in the n bits from k: no carry comes from below, and what
\* goes out above does not come back.
THEOREM AddPart ==
    ASSUME NEW a \in Reg, NEW b \in Reg, NEW k \in Nat, NEW n \in Nat,
           k + n <= XLen, b \cap 0..(k - 1) = {}
    PROVE  /\ Add(a, b) \in Reg
           /\ Uns[Part(Add(a, b), k, n)]
                = (Uns[Part(a, k, n)] + Uns[Part(b, k, n)]) % 2^n
           /\ Sub(a, b) \in Reg
           /\ Uns[Part(Sub(a, b), k, n)]
                = (Uns[Part(a, k, n)] - Uns[Part(b, k, n)]) % 2^n
<1> DEFINE P == 2^k
           N == 2^n
           R == 2^(XLen - (k + n))
           pa == Uns[Part(a, k, n)]
           pb == Uns[Part(b, k, n)]
<1>0. XLen \in Nat /\ XLen \in 0..XLen
  BY WidthsAssumption
<1>1. P \in Nat /\ P > 0 /\ N \in Nat /\ N > 0 /\ R \in Nat /\ 2^XLen = (P * N) * R
  <2>1. k + n \in Nat /\ XLen - (k + n) \in Nat /\ (k + n) + (XLen - (k + n)) = XLen
    BY <1>0
  <2>2. 2^XLen = 2^(k + n) * R
    BY <2>1, PowAdd
  <2>3. 2^(k + n) = P * N
    BY PowAdd
  <2> QED BY <2>1, <2>2, <2>3, PowPos
<1>2. PICK a0 \in 0..(2^k - 1), a2 \in Nat :
              /\ Uns[a] = a0 + 2^k * (Uns[Part(a, k, n)] + 2^n * a2)
              /\ Uns[Part(a, k, n)] \in 0..(2^n - 1)
              /\ a \cap 0..(k - 1) = {} => a0 = 0
              /\ a \subseteq 0..(k + n - 1) => a2 = 0
  BY UnsSplit, Zenon
<1>3. PICK b0 \in 0..(2^k - 1), b2 \in Nat :
              /\ Uns[b] = b0 + 2^k * (Uns[Part(b, k, n)] + 2^n * b2)
              /\ Uns[Part(b, k, n)] \in 0..(2^n - 1)
              /\ b \cap 0..(k - 1) = {} => b0 = 0
              /\ b \subseteq 0..(k + n - 1) => b2 = 0
  BY UnsSplit, Zenon
<1>4. /\ Uns[a] = a0 + P * (pa + N * a2) /\ pa \in Int
      /\ Uns[b] = P * (pb + N * b2) /\ pb \in Int
  <2>1. pa \in Int /\ pb \in Int
    BY <1>2, <1>3
  <2> HIDE DEF pa, pb
  <2>2. Uns[a] = a0 + P * (pa + N * a2)
    BY <1>2 DEF pa
  <2>3. Uns[b] = b0 + P * (pb + N * b2) /\ b0 = 0
    BY <1>3 DEF pb
  <2>4. P * (pb + N * b2) \in Int
    BY <1>1, <2>1
  <2> QED BY <2>1, <2>2, <2>3, <2>4
<1>5. Uns[a] \in Nat /\ Uns[b] \in Nat
  BY UnsNat
<1>6. 2^XLen \in Nat /\ 2^XLen > 0
  BY <1>0, PowPos
<1>7. ASSUME NEW s \in Int, NEW t \in Int, NEW z \in Int, s = a0 + P * (t + N * z)
      PROVE  /\ Bits[s % 2^XLen] \in Reg
             /\ Uns[Part(Bits[s % 2^XLen], k, n)] = t % N
  <2> DEFINE q == s \div 2^XLen
             m == s % 2^XLen
             r == Bits[m]
  <2>1. s = 2^XLen * q + m /\ q \in Int /\ m \in 0..(2^XLen - 1)
    BY <1>6, DivMod
  <2>2. r \in Reg /\ Uns[r] = m
    BY <1>0, <2>1, UnsOfBits
  <2> HIDE DEF q, m, r, P, N, R
  <2>3. \A u, v, w, x, y, l, d \in Int :
          l + u * (x + v * y) - ((u * v) * w) * d = l + u * (x + v * (y - w * d))
    OBVIOUS
  <2>4. (a0 + P * (t + N * z)) - ((P * N) * R) * q = a0 + P * (t + N * (z - R * q))
    BY <1>1, <2>1, <2>3
  <2>5. m = s - 2^XLen * q
    <3> DEFINE y == 2^XLen * q
    <3>1. y \in Int /\ m \in Int /\ s = y + m
      BY <1>6, <2>1
    <3> HIDE DEF y
    <3>2. m = s - y
      BY <3>1
    <3> QED BY <3>2 DEF y
  <2>6. m = a0 + P * (t + N * (z - R * q))
    BY <1>1, <1>7, <2>4, <2>5
  <2>7. z - R * q \in Int
    BY <1>1, <2>1
  <2>8. Splits(r, k, n, a0, t, z - R * q)
    BY <2>2, <2>6, <2>7 DEF P, N, Splits
  <2>9. Uns[Part(r, k, n)] = t % 2^n
    BY <2>2, <2>8, PartNumber
  <2> QED BY <2>2, <2>9 DEF r, m, N
<1> HIDE DEF P, N, R, pa, pb
<1>8. Uns[a] + Uns[b] = a0 + P * ((pa + pb) + N * (a2 + b2))
  <2>1. \A l, u, v, x, y, c, d \in Int :
          (l + u * (x + v * c)) + u * (y + v * d) = l + u * ((x + y) + v * (c + d))
    OBVIOUS
  <2> QED BY <1>1, <1>4, <2>1
<1>9. Uns[a] - Uns[b] = a0 + P * ((pa - pb) + N * (a2 - b2))
  <2>1. \A l, u, v, x, y, c, d \in Int :
          (l + u * (x + v * c)) - u * (y + v * d) = l + u * ((x - y) + v * (c - d))
    OBVIOUS
  <2> QED BY <1>1, <1>4, <2>1
<1>10. Add(a, b) \in Reg /\ Uns[Part(Add(a, b), k, n)] = (pa + pb) % N
  BY <1>4, <1>5, <1>7, <1>8 DEF Add
<1>11. Sub(a, b) \in Reg /\ Uns[Part(Sub(a, b), k, n)] = (pa - pb) % N
  <2>1. pa - pb \in Int /\ a2 - b2 \in Int /\ Uns[a] - Uns[b] \in Int
    BY <1>4, <1>5
  <2> QED BY <2>1, <1>7, <1>9 DEF Sub
<1> QED BY <1>10, <1>11 DEF pa, pb, N

\* The ones' complement of n bits.
LEMMA UnsComplement ==
    ASSUME NEW n \in 0..XLen, NEW x \in Reg, x \subseteq 0..(n - 1)
    PROVE  /\ (0..(n - 1)) \ x \in Reg
           /\ Uns[(0..(n - 1)) \ x] = 2^n - 1 - Uns[x]
<1> DEFINE y == (0..(n - 1)) \ x
<1>0. XLen \in Nat /\ n \in Nat /\ n <= XLen /\ 2^n \in Nat
  BY WidthsAssumption, PowPos
<1>1. y \in Reg /\ x \cap y = {} /\ x \cup y = 0..(n - 1)
  <2>1. 0..(n - 1) \subseteq 0..(XLen - 1)
    BY <1>0
  <2> QED BY <2>1 DEF Reg
<1>2. Uns[0..(n - 1)] = 2^n - 2^0
  <2>1. 0 \in Nat /\ 0 <= n
    BY <1>0
  <2> QED BY <1>0, <2>1, UnsInterval
<1>3. Uns[0..(n - 1)] = Uns[x] + Uns[y]
  <2> HIDE DEF y
  <2> QED BY <1>1, UnsUnion
<1>4. Uns[x] \in Nat /\ Uns[y] \in Nat
  BY <1>1, UnsNat
<1> QED BY <1>0, <1>1, <1>2, <1>3, <1>4, PowZero

\* The top bit of n bits says whether the number is in the upper half.
LEMMA TopBit ==
    ASSUME NEW n \in 1..XLen, NEW x \in Reg, x \subseteq 0..(n - 1)
    PROVE  /\ n - 1 \in x <=> Uns[x] >= 2^(n - 1)
           /\ 2^n = 2 * 2^(n - 1) /\ 2^(n - 1) \in Nat /\ Uns[x] \in 0..(2^n - 1)
<1>0. XLen \in Nat /\ n \in Nat /\ n - 1 \in Nat
  BY WidthsAssumption
<1>1. 2^n = 2 * 2^(n - 1) /\ 2^(n - 1) \in Nat
  <2>1. (n - 1) + 1 = n
    BY <1>0
  <2> QED BY <1>0, <2>1, PowNext
<1>2. Uns[x] < 2^n /\ Uns[x] \in Nat
  BY <1>0, UnsBound, UnsNat
<1>3. ASSUME n - 1 \in x PROVE Uns[x] >= 2^(n - 1)
  <2>1. Uns[x] = Uns[x \ {n - 1}] + 2^(n - 1) /\ Uns[x \ {n - 1}] \in Nat
    BY <1>3, UnsBit
  <2> QED BY <1>1, <2>1
<1>4. n - 1 \notin x => Uns[x] < 2^(n - 1)
  <2>1. n - 1 \notin x => x \subseteq 0..((n - 1) - 1)
    BY <1>0
  <2> QED BY <1>0, <2>1, UnsBound
<1> QED BY <1>1, <1>2, <1>3, <1>4
-----------------------------------------------------------------------------
(* Words in registers, and parts of words.                                   *)

LEMMA SExtInReg == ASSUME NEW w \in Word PROVE SExt(w) \in Reg
BY WidthsAssumption DEF SExt, Word, Reg

LEMMA TruncInWord == ASSUME NEW r PROVE Trunc(r) \in Word
BY DEF Trunc, Word

LEMMA MaskInWord == ASSUME NEW c PROVE Mask_(c) \in Word
BY TruncInWord DEF Mask_

LEMMA TruncSExt == ASSUME NEW w \in Word PROVE SExt(w) \cap 0..(WordBits - 1) = w
<1>1. w \subseteq 0..(WordBits - 1)
  BY DEF Word
<1>2. \A i \in 0..(WordBits - 1) : i \notin WordBits..(XLen - 1)
  BY WidthsAssumption
<1>3. CASE WordBits - 1 \in w
  <2>1. SExt(w) = w \cup WordBits..(XLen - 1)
    BY <1>3 DEF SExt
  <2> QED BY <1>1, <1>2, <2>1
<1>4. CASE WordBits - 1 \notin w
  BY <1>1, <1>4 DEF SExt
<1> QED BY <1>3, <1>4

LEMMA WordInReg == Word \subseteq Reg /\ 0..(WordBits - 1) \subseteq 0..(XLen - 1)
BY WidthsAssumption DEF Word, Reg

\* A part inside the word is the same in the word and in its sign extension.
LEMMA PartInWord ==
    ASSUME NEW k \in Nat, NEW n \in Nat, k + n <= WordBits
    PROVE  /\ \A r : Part(Trunc(r), k, n) = Part(r, k, n)
           /\ \A w \in Word : Part(SExt(w), k, n) = Part(w, k, n)
           /\ \A r : Part(WordOp(r), k, n) = Part(r, k, n)
<1>0. k..(k + n - 1) \subseteq 0..(WordBits - 1)
  BY WidthsAssumption
<1>1. ASSUME NEW r PROVE Part(Trunc(r), k, n) = Part(r, k, n)
  <2>1. Trunc(r) \cap k..(k + n - 1) = r \cap k..(k + n - 1)
    BY <1>0 DEF Trunc
  <2> QED BY <2>1 DEF Part
<1>2. ASSUME NEW w \in Word PROVE Part(SExt(w), k, n) = Part(w, k, n)
  <2>1. SExt(w) \cap k..(k + n - 1) = w \cap k..(k + n - 1)
    BY <1>0, TruncSExt
  <2> QED BY <2>1 DEF Part
<1>3. ASSUME NEW r PROVE Part(WordOp(r), k, n) = Part(r, k, n)
  BY <1>1, <1>2, TruncInWord DEF WordOp
<1> QED BY <1>1, <1>2, <1>3

\* The bits of x moved up by k places.
Placed(x, k) == {i + k : i \in x}

LEMMA PlacedPart ==
    ASSUME NEW r, NEW k \in Nat, NEW n \in Nat
    PROVE  r \cap k..(k + n - 1) = Placed(Part(r, k, n), k)
<1>1. ASSUME NEW j \in r \cap k..(k + n - 1) PROVE j \in Placed(Part(r, k, n), k)
  <2>1. j - k \in Part(r, k, n) /\ j = (j - k) + k
    BY <1>1 DEF Part
  <2> QED BY <2>1 DEF Placed
<1>2. ASSUME NEW i \in r \cap k..(k + n - 1) PROVE (i - k) + k = i
  OBVIOUS
<1> QED BY <1>1, <1>2 DEF Part, Placed

LEMMA PartPlaced ==
    ASSUME NEW k \in Nat, NEW n \in Nat, NEW x, x \subseteq 0..(n - 1)
    PROVE  Part(Placed(x, k), k, n) = x
<1>1. ASSUME NEW i \in x PROVE i \in Part(Placed(x, k), k, n)
  <2>1. i \in 0..(n - 1)
    OBVIOUS
  <2>2. i + k \in Placed(x, k) /\ i + k \in k..(k + n - 1) /\ i = (i + k) - k
    BY <2>1 DEF Placed
  <2> QED BY <2>2 DEF Part
<1>2. ASSUME NEW i \in Part(Placed(x, k), k, n) PROVE i \in x
  <2>1. PICK j \in Placed(x, k) : i = j - k
    BY <1>2 DEF Part
  <2>2. PICK m \in x : j = m + k
    BY <2>1 DEF Placed
  <2>3. m \in 0..(n - 1)
    OBVIOUS
  <2>4. i = m
    BY <2>1, <2>2, <2>3
  <2> QED BY <2>4
<1> QED BY <1>1, <1>2

LEMMA PlacedInWord ==
    ASSUME NEW k \in Nat, NEW n \in Nat, n > 0, k + n <= WordBits,
           NEW x, x \subseteq 0..(n - 1)
    PROVE  /\ x \in Reg /\ Placed(x, k) \in Word /\ Placed(x, k) \in Reg
           /\ Sll(x, k) = Placed(x, k) /\ Trunc(Sll(x, k)) = Placed(x, k)
           /\ Placed(x, k) \subseteq k..(k + n - 1)
           /\ Placed(x, k) \cap 0..(k - 1) = {}
           /\ WordBits - 1 \in Placed(x, k) <=> k + n = WordBits /\ n - 1 \in x
           /\ Uns[Placed(x, k)] = 2^k * Uns[x]
<1>0. WordBits \in Nat /\ XLen \in Nat /\ WordBits <= XLen
  BY WidthsAssumption
<1>1. x \subseteq Int /\ x \in Reg
  BY <1>0 DEF Reg
<1>2. Placed(x, k) \subseteq k..(k + n - 1)
  <2>1. ASSUME NEW i \in x PROVE i + k \in k..(k + n - 1)
    <3>1. i \in 0..(n - 1)
      OBVIOUS
    <3> QED BY <3>1
  <2> QED BY <2>1 DEF Placed
<1>3. k..(k + n - 1) \subseteq 0..(WordBits - 1) /\ k..(k + n - 1) \cap 0..(k - 1) = {}
  BY <1>0
<1>4. Placed(x, k) \in Word /\ Placed(x, k) \in Reg
  BY <1>2, <1>3, WordInReg DEF Word
<1>5. Sll(x, k) = Placed(x, k)
  <2>1. ASSUME NEW j \in Sll(x, k) PROVE j \in Placed(x, k)
    <3>1. j - k \in x /\ j = (j - k) + k
      BY <1>0, <2>1 DEF Sll
    <3> QED BY <3>1 DEF Placed
  <2>2. ASSUME NEW j \in Placed(x, k) PROVE j \in Sll(x, k)
    <3>1. PICK i \in x : j = i + k
      BY <2>2 DEF Placed
    <3>2. j \in 0..(XLen - 1)
      BY <1>4, <2>2 DEF Reg
    <3>3. j - k = i
      BY <1>1, <3>1
    <3> QED BY <3>1, <3>2, <3>3 DEF Sll
  <2> QED BY <2>1, <2>2
<1>6. Trunc(Sll(x, k)) = Placed(x, k)
  BY <1>4, <1>5 DEF Trunc, Word
<1>8. WordBits - 1 \in Placed(x, k) <=> k + n = WordBits /\ n - 1 \in x
  <2>1. ASSUME WordBits - 1 \in Placed(x, k) PROVE k + n = WordBits /\ n - 1 \in x
    <3>1. PICK i \in x : WordBits - 1 = i + k
      BY <2>1 DEF Placed
    <3>2. i \in 0..(n - 1)
      BY <3>1
    <3>3. k + n = WordBits /\ i = n - 1
      BY <1>0, <3>1, <3>2
    <3> QED BY <3>1, <3>3
  <2>2. ASSUME k + n = WordBits, n - 1 \in x PROVE WordBits - 1 \in Placed(x, k)
    <3>1. (n - 1) + k = WordBits - 1
      BY <1>0, <2>2
    <3> QED BY <2>2, <3>1 DEF Placed
  <2> QED BY <2>1, <2>2
<1>9. Uns[Placed(x, k)] = 2^k * Uns[x]
  <2>1. {i + k : i \in x} \in Reg
    BY <1>4 DEF Placed
  <2> QED BY <1>1, <2>1, UnsShift DEF Placed
<1>10. Placed(x, k) \cap 0..(k - 1) = {}
  BY <1>2, <1>3
<1> QED BY <1>1, <1>2, <1>4, <1>5, <1>6, <1>8, <1>9, <1>10

\* The part a call works on lies in the word.
PartInside(c) ==
    /\ c.shift \in Nat /\ Width(c) \in Nat /\ Width(c) > 0
    /\ c.shift + Width(c) <= WordBits

LEMMA PartOfIs ==
    ASSUME NEW c, NEW w PROVE PartOf(c, w) = Uns[Part(w, c.shift, Width(c))]
BY DEF PartOf, MaskBits, Part

\* A word that differs from w in the part only is w with that part.
LEMMA WithPartUnique ==
    ASSUME NEW c, PartInside(c), NEW w \in Word, NEW v \in Word,
           v \ MaskBits(c) = w \ MaskBits(c)
    PROVE  v = WithPart(c, w, PartOf(c, v))
<1> DEFINE k == c.shift
           n == Width(c)
           x == Part(v, k, n)
<1>1. k \in Nat /\ n \in Nat /\ n > 0 /\ k + n <= WordBits
  BY DEF PartInside
<1>2. v \in Reg
  BY WordInReg
<1>3. x \in Reg /\ x \subseteq 0..(n - 1)
  BY <1>1, <1>2, PartInReg
<1>4. Bits[Uns[x]] = x
  BY <1>3, BitsOfUns
<1>5. Sll(x, k) = v \cap k..(k + n - 1)
  <2>1. Sll(x, k) = Placed(x, k)
    <3> HIDE DEF x
    <3> QED BY <1>1, <1>3, PlacedInWord
  <2>2. v \cap k..(k + n - 1) = Placed(x, k)
    BY <1>1, PlacedPart
  <2> QED BY <2>1, <2>2
<1>6. MaskBits(c) = k..(k + n - 1) /\ PartOf(c, v) = Uns[x]
  BY PartOfIs DEF MaskBits
<1>7. WithPart(c, w, PartOf(c, v)) = (w \ MaskBits(c)) \cup (v \cap MaskBits(c))
  <2> HIDE DEF x, k, n
  <2> QED BY <1>4, <1>5, <1>6 DEF WithPart, k
<1> QED BY <1>7

LEMMA SameWord ==
    ASSUME NEW c, PartInside(c), NEW w \in Word
    PROVE  w = WithPart(c, w, PartOf(c, w))
BY WithPartUnique

-----------------------------------------------------------------------------
(* The operands of a masked operation and the loop heads' comparisons.       *)

LEMMA MaskIs ==
    ASSUME NEW c, PartInside(c), c.masked
    PROVE  /\ Width(c) = ValWidth /\ Mask_(c) = MaskBits(c)
           /\ MaskBits(c) = c.shift..(c.shift + ValWidth - 1)
<1>1. /\ c.shift \in Nat /\ Width(c) = ValWidth /\ ValWidth \in Nat
      /\ c.shift + ValWidth <= WordBits /\ WordBits \in Nat /\ XLen \in Nat
      /\ WordBits <= XLen
  BY WidthsAssumption DEF PartInside, Width
<1>2. MaskBits(c) = c.shift..(c.shift + ValWidth - 1)
  BY <1>1 DEF MaskBits
<1>3. Mask_(c) = c.shift..(c.shift + ValWidth - 1)
  BY <1>1 DEF Mask_, Trunc, Sll
<1> QED BY <1>1, <1>2, <1>3

\* A number of the part's width is placed at the part.
LEMMA OperandPlaced ==
    ASSUME NEW c, PartInside(c), c.masked, NEW v \in 0..(2^ValWidth - 1)
    PROVE  /\ Bits[v] \in Reg /\ Bits[v] \subseteq 0..(ValWidth - 1) /\ Uns[Bits[v]] = v
           /\ ZExtShifted(c, v) = Placed(Bits[v], c.shift)
           /\ ZExtShifted(c, v) \in Word
           /\ Placed(Bits[v], c.shift) \subseteq c.shift..(c.shift + ValWidth - 1)
           /\ Sll(Bits[v], c.shift) = Placed(Bits[v], c.shift)
<1>1. /\ c.shift \in Nat /\ ValWidth \in Nat /\ ValWidth > 0
      /\ c.shift + ValWidth <= WordBits /\ ValWidth \in 0..XLen
  BY WidthsAssumption DEF PartInside, Width
<1>2. Bits[v] \in Reg /\ Bits[v] \subseteq 0..(ValWidth - 1) /\ Uns[Bits[v]] = v
  BY <1>1, UnsOfBits
<1> DEFINE x == Bits[v]
<1> HIDE DEF x
<1>3. /\ Trunc(Sll(x, c.shift)) = Placed(x, c.shift) /\ Placed(x, c.shift) \in Word
      /\ Placed(x, c.shift) \subseteq c.shift..(c.shift + ValWidth - 1)
      /\ Sll(x, c.shift) = Placed(x, c.shift)
  <2>1. x \subseteq 0..(ValWidth - 1)
    BY <1>2 DEF x
  <2>2. Trunc(Sll(x, c.shift)) = Placed(x, c.shift)
    BY <1>1, <2>1, PlacedInWord
  <2>3. Placed(x, c.shift) \in Word
    BY <1>1, <2>1, PlacedInWord
  <2>4. Placed(x, c.shift) \subseteq c.shift..(c.shift + ValWidth - 1)
    BY <1>1, <2>1, PlacedInWord
  <2>5. Sll(x, c.shift) = Placed(x, c.shift)
    BY <1>1, <2>1, PlacedInWord
  <2> QED BY <2>2, <2>3, <2>4, <2>5
<1> QED BY <1>2, <1>3 DEF ZExtShifted, Num, x

\* Masking two words in registers masks the words.
LEMMA AndSExt ==
    ASSUME NEW v \in Word, NEW w \in Word
    PROVE  And(SExt(v), SExt(w)) = SExt(v \cap w)
<1>1. /\ v \subseteq 0..(WordBits - 1) /\ w \subseteq 0..(WordBits - 1)
      /\ 0..(WordBits - 1) \cap WordBits..(XLen - 1) = {}
  BY WidthsAssumption DEF Word
<1> QED BY <1>1 DEF And, SExt

LEMMA SExtInjective ==
    ASSUME NEW v \in Word, NEW w \in Word, SExt(v) = SExt(w) PROVE v = w
BY TruncSExt

LEMMA PlacedInjective ==
    ASSUME NEW k \in Nat, NEW n \in Nat,
           NEW x, x \subseteq 0..(n - 1), NEW y, y \subseteq 0..(n - 1),
           Placed(x, k) = Placed(y, k)
    PROVE  x = y
<1>1. x = Part(Placed(x, k), k, n) /\ y = Part(Placed(y, k), k, n)
  BY PartPlaced, Zenon
<1> QED BY <1>1

\* The number in a register that holds a placed part as a word.
LEMMA UnsSExtPlaced ==
    ASSUME NEW k \in Nat, NEW n \in Nat, n > 0, k + n <= WordBits,
           NEW x, x \subseteq 0..(n - 1)
    PROVE  Uns[SExt(Placed(x, k))]
             = 2^k * Uns[x] + IF k + n = WordBits /\ n - 1 \in x
                              THEN 2^XLen - 2^WordBits ELSE 0
<1> DEFINE p == Placed(x, k)
           u == WordBits..(XLen - 1)
<1>0. WordBits \in Nat /\ XLen \in Nat /\ WordBits <= XLen
  BY WidthsAssumption
<1>1. /\ p \in Word /\ p \in Reg /\ Uns[p] = 2^k * Uns[x]
      /\ WordBits - 1 \in p <=> k + n = WordBits /\ n - 1 \in x
  BY PlacedInWord
<1>2. u \in Reg /\ Uns[u] = 2^XLen - 2^WordBits
  <2>1. XLen <= XLen
    BY <1>0
  <2> QED BY <1>0, <2>1, UnsInterval
<1>3. p \cap u = {}
  <2>1. 0..(WordBits - 1) \cap u = {}
    BY <1>0
  <2> HIDE DEF p, u
  <2> QED BY <1>1, <2>1 DEF Word
<1>4. Uns[p] \in Nat
  BY <1>1, UnsNat
<1> HIDE DEF p
<1>5. CASE WordBits - 1 \in p
  <2>1. SExt(p) = p \cup u
    BY <1>5 DEF SExt
  <2> HIDE DEF u
  <2>2. Uns[SExt(p)] = Uns[p] + Uns[u]
    BY <1>1, <1>2, <1>3, <2>1, UnsUnion
  <2> QED BY <1>1, <1>2, <1>5, <2>2 DEF p
<1>6. CASE WordBits - 1 \notin p
  <2>1. SExt(p) = p
    BY <1>6 DEF SExt
  <2>2. Uns[p] = Uns[p] + 0
    BY <1>4
  <2> QED BY <1>1, <1>6, <2>1, <2>2 DEF p
<1> QED BY <1>5, <1>6

LEMMA TimesMono ==
    ASSUME NEW p \in Nat, p > 0, NEW a \in Int, NEW b \in Int
    PROVE  p * a >= p * b <=> a >= b
BY SMT

\* Sign-extending two masked words does not change their order, even where the
\* part ends at the word's sign bit.
LEMMA CompareUnsigned ==
    ASSUME NEW k \in Nat, NEW n \in Nat, n > 0, k + n <= WordBits,
           NEW x, x \subseteq 0..(n - 1), NEW y, y \subseteq 0..(n - 1)
    PROVE  Uns[SExt(Placed(x, k))] >= Uns[SExt(Placed(y, k))] <=> Uns[x] >= Uns[y]
<1> DEFINE top(z) == k + n = WordBits /\ n - 1 \in z
           P == 2^k
           D == 2^XLen - 2^WordBits
           X == P * Uns[x]
           Y == P * Uns[y]
<1>0. WordBits \in Nat /\ XLen \in Nat /\ WordBits <= XLen /\ n \in 1..XLen
  BY WidthsAssumption
<1>1. P \in Nat /\ P > 0
  BY PowPos
<1>2. D \in Int /\ D >= 0
  <2>1. 2^WordBits <= 2^XLen
    BY <1>0, PowMono
  <2>2. 2^WordBits \in Nat /\ 2^XLen \in Nat
    BY <1>0, PowPos
  <2> QED BY <2>1, <2>2
<1>3. x \in Reg /\ y \in Reg
  BY PlacedInWord
<1>4. /\ n - 1 \in x <=> Uns[x] >= 2^(n - 1)
      /\ n - 1 \in y <=> Uns[y] >= 2^(n - 1)
      /\ Uns[x] \in Nat /\ Uns[y] \in Nat /\ 2^(n - 1) \in Nat
  <2>1. (n - 1 \in x <=> Uns[x] >= 2^(n - 1)) /\ 2^(n - 1) \in Nat
    BY <1>0, <1>3, TopBit
  <2>2. n - 1 \in y <=> Uns[y] >= 2^(n - 1)
    BY <1>0, <1>3, TopBit
  <2> QED BY <1>3, <2>1, <2>2, UnsNat
<1>5. /\ Uns[SExt(Placed(x, k))] = X + IF top(x) THEN D ELSE 0
      /\ Uns[SExt(Placed(y, k))] = Y + IF top(y) THEN D ELSE 0
  BY UnsSExtPlaced
<1>6. X \in Nat /\ Y \in Nat /\ (X >= Y <=> Uns[x] >= Uns[y])
  <2>1. X >= Y <=> Uns[x] >= Uns[y]
    BY <1>1, <1>4, TimesMono
  <2> QED BY <1>1, <1>4, <2>1
<1>7. /\ top(x) /\ ~top(y) => Uns[x] > Uns[y]
      /\ top(y) /\ ~top(x) => Uns[y] > Uns[x]
  BY <1>4
<1>8. /\ Uns[x] > Uns[y] => X > Y
      /\ Uns[y] > Uns[x] => Y > X
  <2>1. Y >= X <=> Uns[y] >= Uns[x]
    BY <1>1, <1>4, TimesMono
  <2> HIDE DEF X, Y
  <2> QED BY <1>4, <1>6, <2>1
<1> HIDE DEF X, Y, D, P, top
<1> QED BY <1>2, <1>4, <1>5, <1>6, <1>7, <1>8

\* A part, in its place, with copies of its sign above.
SignedPlaced(x, k, n) ==
    Placed(x, k) \cup IF n - 1 \in x THEN (k + n)..(XLen - 1) ELSE {}

LEMMA SgnSignedPlaced ==
    ASSUME NEW k \in Nat, NEW n \in Nat, n > 0, k + n <= WordBits,
           NEW x, x \subseteq 0..(n - 1)
    PROVE  /\ SignedPlaced(x, k, n) \in Reg
           /\ Sgn(SignedPlaced(x, k, n)) = 2^k * Signed(Uns[x], n)
           /\ Signed(Uns[x], n) \in Int
<1> DEFINE p == Placed(x, k)
           u == (k + n)..(XLen - 1)
           s == SignedPlaced(x, k, n)
<1>0. /\ WordBits \in Nat /\ XLen \in Nat /\ WordBits <= XLen /\ n \in 1..XLen
      /\ k + n \in Nat /\ k + n <= XLen
  BY WidthsAssumption
<1>1. x \in Reg /\ p \in Reg /\ Uns[p] = 2^k * Uns[x] /\ p \subseteq k..(k + n - 1)
  BY PlacedInWord
<1>2. u \in Reg /\ Uns[u] = 2^XLen - 2^(k + n)
  BY <1>0, UnsInterval
<1>3. p \cap u = {}
  <2>1. k..(k + n - 1) \cap u = {}
    BY <1>0
  <2> HIDE DEF p, u
  <2> QED BY <1>1, <2>1
<1>4. /\ n - 1 \in x <=> Uns[x] >= 2^(n - 1)
      /\ Uns[x] \in Nat
  BY <1>0, <1>1, TopBit, UnsNat
<1>5. 2^(k + n) = 2^k * 2^n /\ 2^k \in Nat /\ 2^n \in Nat /\ 2^XLen \in Nat
  BY <1>0, PowAdd, PowPos
<1>6. XLen - 1 \in s <=> n - 1 \in x
  <2>1. n - 1 \in x => XLen - 1 \in s
    <3>1. CASE k + n = XLen /\ n - 1 \in x
      <4>1. XLen - 1 = (n - 1) + k
        BY <1>0, <3>1
      <4> QED BY <3>1, <4>1 DEF SignedPlaced, Placed
    <3>2. CASE k + n # XLen /\ n - 1 \in x
      <4>1. XLen - 1 \in u
        BY <1>0, <3>2
      <4> HIDE DEF u
      <4> QED BY <3>2, <4>1 DEF SignedPlaced, u
    <3> QED BY <3>1, <3>2
  <2>2. ASSUME XLen - 1 \in p PROVE n - 1 \in x
    <3>1. PICK i \in x : XLen - 1 = i + k
      BY <2>2 DEF Placed
    <3>2. i \in 0..(n - 1)
      BY <3>1
    <3>3. i = n - 1
      BY <1>0, <3>1, <3>2
    <3> QED BY <3>1, <3>3
  <2> QED BY <2>1, <2>2 DEF SignedPlaced
<1>7. CASE n - 1 \in x
  <2>1. s = p \cup u
    BY <1>7 DEF SignedPlaced
  <2> HIDE DEF s, p, u
  <2>2. s \in Reg /\ Uns[s] = 2^k * Uns[x] + (2^XLen - 2^k * 2^n)
    BY <1>1, <1>2, <1>3, <1>5, <2>1, UnsUnion
  <2>3. Sgn(s) = Uns[s] - 2^XLen
    BY <1>6, <1>7 DEF Sgn
  <2>4. Signed(Uns[x], n) = Uns[x] - 2^n
    BY <1>4, <1>7 DEF Signed
  <2>5. 2^k * (Uns[x] - 2^n) = 2^k * Uns[x] - 2^k * 2^n
    BY <1>4, <1>5
  <2>6. 2^k * Uns[x] \in Int /\ 2^k * 2^n \in Int
    BY <1>4, <1>5
  <2>7. Sgn(s) = 2^k * Uns[x] - 2^k * 2^n
    BY <1>5, <2>2, <2>3, <2>6
  <2> QED BY <1>4, <1>5, <2>2, <2>4, <2>5, <2>7 DEF s
<1>8. CASE n - 1 \notin x
  <2>1. s = p
    BY <1>8 DEF SignedPlaced
  <2>2. Sgn(s) = Uns[s]
    BY <1>6, <1>8 DEF Sgn
  <2>3. Signed(Uns[x], n) = Uns[x]
    BY <1>4, <1>8 DEF Signed
  <2> HIDE DEF s, p
  <2> QED BY <1>1, <1>4, <2>1, <2>2, <2>3 DEF s
<1> QED BY <1>7, <1>8

LEMMA PartSignedPlaced ==
    ASSUME NEW k \in Nat, NEW n \in Nat, NEW x, x \subseteq 0..(n - 1)
    PROVE  Part(SignedPlaced(x, k, n), k, n) = x
<1>1. k..(k + n - 1) \cap (k + n)..(XLen - 1) = {}
  BY WidthsAssumption
<1>2. SignedPlaced(x, k, n) \cap k..(k + n - 1) = Placed(x, k) \cap k..(k + n - 1)
  BY <1>1 DEF SignedPlaced
<1>3. Part(SignedPlaced(x, k, n), k, n) = Part(Placed(x, k), k, n)
  BY <1>2 DEF Part
<1>4. Part(Placed(x, k), k, n) = x
  BY PartPlaced, Zenon
<1> QED BY <1>3, <1>4

LEMMA CompareSigned ==
    ASSUME NEW k \in Nat, NEW n \in Nat, n > 0, k + n <= WordBits,
           NEW x, x \subseteq 0..(n - 1), NEW y, y \subseteq 0..(n - 1)
    PROVE  Sgn(SignedPlaced(x, k, n)) >= Sgn(SignedPlaced(y, k, n))
             <=> Signed(Uns[x], n) >= Signed(Uns[y], n)
<1>1. /\ Sgn(SignedPlaced(x, k, n)) = 2^k * Signed(Uns[x], n)
      /\ Signed(Uns[x], n) \in Int
  BY SgnSignedPlaced
<1>2. /\ Sgn(SignedPlaced(y, k, n)) = 2^k * Signed(Uns[y], n)
      /\ Signed(Uns[y], n) \in Int
  BY SgnSignedPlaced
<1>3. 2^k \in Nat /\ 2^k > 0
  BY PowPos
<1> QED BY <1>1, <1>2, <1>3, TimesMono

\* Bits above the word are copies of its top bit.
LEMMA InSExt ==
    ASSUME NEW w \in Word, NEW i \in 0..(XLen - 1)
    PROVE  i \in SExt(w) <=> IF i < WordBits THEN i \in w ELSE WordBits - 1 \in w
<1>1. /\ i < WordBits => i \in 0..(WordBits - 1) /\ i \notin WordBits..(XLen - 1)
      /\ ~(i < WordBits) => i \notin 0..(WordBits - 1) /\ i \in WordBits..(XLen - 1)
  BY WidthsAssumption
<1> QED BY <1>1 DEF SExt, Word

\* The t low bits of r, with copies of the last of them above.
Extended(r, t) == {i \in 0..(XLen - 1) : IF i < t THEN i \in r ELSE t - 1 \in r}

LEMMA SextSra ==
    ASSUME NEW t \in 1..XLen, NEW r
    PROVE  Sra(Sll(r, XLen - t), XLen - t) = Extended(r, t)
<1> DEFINE s == XLen - t
           l == Sll(r, s)
<1>0. XLen \in Nat /\ t \in Nat /\ t > 0 /\ t <= XLen /\ s \in Nat
  BY WidthsAssumption
<1>1. ASSUME NEW i \in 0..(XLen - 1) PROVE i \in Sra(l, s) <=> i \in Extended(r, t)
  <2>1. CASE i < t
    <3>1. i + s < XLen /\ i + s \in 0..(XLen - 1) /\ (i + s) - s = i
      BY <1>0, <2>1
    <3>2. i + s \in l <=> i \in r
      BY <3>1 DEF Sll
    <3> HIDE DEF l, s
    <3> QED BY <2>1, <3>1, <3>2 DEF Sra, Extended
  <2>2. CASE ~(i < t)
    <3>1. ~(i + s < XLen) /\ XLen - 1 \in 0..(XLen - 1) /\ (XLen - 1) - s = t - 1
      BY <1>0, <2>2
    <3>2. XLen - 1 \in l <=> t - 1 \in r
      BY <3>1 DEF Sll
    <3> HIDE DEF l, s
    <3> QED BY <2>2, <3>1, <3>2 DEF Sra, Extended
  <2> QED BY <2>1, <2>2
<1> QED BY <1>1 DEF Sra, Extended

\* The same with the shifts of words.
LEMMA SextSraW ==
    ASSUME NEW t \in 1..WordBits, NEW r
    PROVE  WordOp(Sra(WordOp(WordOp(Sll(r, WordBits - t))), WordBits - t)) = Extended(r, t)
<1> DEFINE s == WordBits - t
           v == Trunc(Sll(r, s))
           y == SExt(v)
           z == Trunc(Sra(y, s))
<1>0. /\ XLen \in Nat /\ WordBits \in Nat /\ t \in Nat /\ t > 0 /\ t <= WordBits
      /\ WordBits <= XLen /\ s \in Nat
  BY WidthsAssumption
<1>1. v \in Word /\ z \in Word
  BY TruncInWord
<1>2. WordOp(WordOp(Sll(r, s))) = y
  <2>1. Trunc(y) = v
    BY <1>1, TruncSExt DEF Trunc
  <2> QED BY <2>1 DEF WordOp
<1>3. ASSUME NEW i \in 0..(WordBits - 1)
      PROVE  i \in z <=> IF i < t THEN i \in r ELSE t - 1 \in r
  <2>0. i \in 0..(XLen - 1) /\ i < WordBits
    BY <1>0
  <2>1. CASE i < t
    <3>1. /\ i + s < WordBits /\ i + s < XLen /\ i + s \in 0..(WordBits - 1)
          /\ i + s \in 0..(XLen - 1) /\ (i + s) - s = i
      BY <1>0, <2>1
    <3>2. i + s \in v <=> i \in r
      BY <3>1 DEF Sll, Trunc
    <3> HIDE DEF v, s
    <3>3. i + s \in y <=> i \in r
      BY <1>1, <3>1, <3>2, InSExt
    <3> HIDE DEF y
    <3> QED BY <2>0, <2>1, <3>1, <3>3 DEF Sra, Trunc
  <2>2. CASE ~(i < t)
    <3>1. /\ ~(i + s < WordBits) /\ WordBits - 1 \in 0..(WordBits - 1)
          /\ WordBits - 1 \in 0..(XLen - 1) /\ (WordBits - 1) - s = t - 1
          /\ i + s \in Nat
      BY <1>0, <2>2
    <3>2. WordBits - 1 \in v <=> t - 1 \in r
      BY <3>1 DEF Sll, Trunc
    <3> HIDE DEF v, s
    <3>3. i + s < XLen => (i + s \in y <=> t - 1 \in r)
      <4>1. i + s < XLen => i + s \in 0..(XLen - 1)
        BY <1>0, <3>1
      <4> QED BY <1>1, <3>1, <3>2, <4>1, InSExt
    <3>4. XLen - 1 \in y <=> t - 1 \in r
      <4>1. XLen - 1 \in 0..(XLen - 1) /\ (XLen - 1 < WordBits => XLen - 1 = WordBits - 1)
        BY <1>0
      <4> QED BY <1>1, <3>2, <4>1, InSExt
    <3> HIDE DEF y
    <3> QED BY <2>0, <2>2, <3>1, <3>3, <3>4 DEF Sra, Trunc
  <2> QED BY <2>1, <2>2
<1> HIDE DEF z, y, v
<1>4. ASSUME NEW i \in 0..(XLen - 1) PROVE i \in SExt(z) <=> i \in Extended(r, t)
  <2>1. CASE i < WordBits
    <3>1. i \in 0..(WordBits - 1)
      BY <1>0, <2>1
    <3> QED BY <1>1, <1>3, <2>1, <3>1, InSExt DEF Extended
  <2>2. CASE ~(i < WordBits)
    <3>1. /\ ~(i < t) /\ WordBits - 1 \in 0..(WordBits - 1)
          /\ (WordBits - 1 < t => WordBits - 1 = t - 1)
      BY <1>0, <2>2
    <3> QED BY <1>1, <1>3, <2>2, <3>1, InSExt DEF Extended
  <2> QED BY <2>1, <2>2
<1>5. SExt(z) \in Reg
  BY <1>1, SExtInReg
<1>6. WordOp(Sra(WordOp(WordOp(Sll(r, s))), s)) = SExt(z)
  BY <1>2 DEF WordOp, z
<1> QED BY <1>4, <1>5, <1>6 DEF Reg, Extended

\* Extended from the top of a placed part.
LEMMA ExtendedPlaced ==
    ASSUME NEW k \in Nat, NEW n \in Nat, n > 0, k + n <= WordBits,
           NEW x, x \subseteq 0..(n - 1)
    PROVE  /\ Extended(SExt(Placed(x, k)), k + n) = SignedPlaced(x, k, n)
           /\ Extended(Placed(x, k), k + n) = SignedPlaced(x, k, n)
<1> DEFINE p == Placed(x, k)
           t == k + n
<1>0. /\ XLen \in Nat /\ WordBits \in Nat /\ WordBits <= XLen
      /\ t \in Nat /\ t > 0 /\ t <= WordBits
  BY WidthsAssumption
<1>1. p \in Word /\ p \subseteq k..(k + n - 1) /\ p \in Reg
  BY PlacedInWord
<1>2. t - 1 \in p <=> n - 1 \in x
  <2>1. ASSUME n - 1 \in x PROVE t - 1 \in p
    <3>1. t - 1 = (n - 1) + k
      OBVIOUS
    <3> QED BY <2>1, <3>1 DEF Placed
  <2>2. ASSUME t - 1 \in p PROVE n - 1 \in x
    <3>1. PICK i \in x : t - 1 = i + k
      BY <2>2 DEF Placed
    <3>2. i \in 0..(n - 1)
      BY <3>1
    <3>3. i = n - 1
      BY <3>1, <3>2
    <3> QED BY <3>1, <3>3
  <2> QED BY <2>1, <2>2
<1>3. \A i \in 0..(XLen - 1) : i < t => i \in 0..(WordBits - 1) /\ i < WordBits
  BY <1>0
<1>4. t - 1 \in 0..(XLen - 1) /\ t - 1 < t
  BY <1>0
<1>5. SignedPlaced(x, k, n) = p \cup IF n - 1 \in x THEN t..(XLen - 1) ELSE {}
  BY DEF SignedPlaced
<1>6. \A i \in 0..(XLen - 1) : ~(i < t) <=> i \in t..(XLen - 1)
  BY <1>0
<1>7. \A i \in p : i < t /\ i \in 0..(XLen - 1)
  <2>1. \A i \in k..(k + n - 1) : i < t /\ i \in 0..(XLen - 1)
    BY <1>0
  <2> HIDE DEF p, t
  <2> QED BY <1>1, <2>1
<1>8. t..(XLen - 1) \subseteq 0..(XLen - 1)
  BY <1>0
<1> HIDE DEF p, t
<1>9. Extended(p, t) = SignedPlaced(x, k, n)
  BY <1>2, <1>5, <1>6, <1>7, <1>8 DEF Extended
<1>10. Extended(SExt(p), t) = Extended(p, t)
  <2>1. \A i \in 0..(XLen - 1) : i < t => (i \in SExt(p) <=> i \in p)
    BY <1>1, <1>3, InSExt
  <2> QED BY <1>4, <2>1 DEF Extended
<1> QED BY <1>9, <1>10 DEF p, t

\* The operand of a signed minimum or maximum is sign-extended before it is
\* placed, and again as a word.
LEMMA SignedOperand ==
    ASSUME NEW c, PartInside(c), c.masked, NEW v \in 0..(2^ValWidth - 1)
    PROVE  SExt(SExtShifted(c, v)) = SignedPlaced(Bits[v], c.shift, ValWidth)
<1> DEFINE k == c.shift
           n == ValWidth
           x == Bits[v]
           t == k + n
           u == n..(XLen - 1)
           e == x \cup IF n - 1 \in x THEN u ELSE {}
           z == Trunc(Sll(e, k))
<1>0. /\ k \in Nat /\ n \in Nat /\ n > 0 /\ t \in Nat /\ t <= WordBits /\ n \in 1..XLen
      /\ WordBits \in Nat /\ XLen \in Nat /\ WordBits <= XLen /\ n <= XLen
  BY WidthsAssumption DEF PartInside, Width
<1>1. x \in Reg /\ x \subseteq 0..(n - 1) /\ Uns[x] = v
  BY OperandPlaced
<1>2. /\ n - 1 \in x <=> v >= 2^(n - 1)
      /\ 2^n = 2 * 2^(n - 1) /\ 2^(n - 1) \in Nat
  BY <1>0, <1>1, TopBit
<1>3. Bits[Signed(v, n) % 2^XLen] = e
  <2>1. 2^XLen \in Nat /\ 2^XLen > 0 /\ 2^n \in Nat /\ 2^n <= 2^XLen
    BY <1>0, PowPos, PowMono
  <2>2. CASE n - 1 \in x
    <3>1. u \in Reg /\ Uns[u] = 2^XLen - 2^n
      <4>1. XLen <= XLen
        BY <1>0
      <4> QED BY <1>0, <4>1, UnsInterval
    <3>2. x \cap u = {}
      <4>1. 0..(n - 1) \cap u = {}
        BY <1>0
      <4> HIDE DEF x, u
      <4> QED BY <1>1, <4>1
    <3> HIDE DEF u, x
    <3>3. e \in Reg /\ Uns[e] = v + (2^XLen - 2^n)
      BY <1>1, <2>2, <3>1, <3>2, UnsUnion
    <3>4. Signed(v, n) = v - 2^n
      BY <1>2, <2>2 DEF Signed
    <3>5. (2^XLen * (-1) + Uns[e]) % 2^XLen = Uns[e]
      <4>1. Uns[e] \in 0..(2^XLen - 1)
        BY <3>3, BitsOfUns
      <4> QED BY <2>1, <4>1, DivModUnique
    <3>6. 2^XLen * (-1) + Uns[e] = v - 2^n
      BY <2>1, <3>3
    <3> HIDE DEF e
    <3> QED BY <3>3, <3>4, <3>5, <3>6, BitsOfUns
  <2>3. CASE n - 1 \notin x
    <3>1. e = x
      BY <2>3
    <3>2. Signed(v, n) = v
      BY <1>2, <2>3 DEF Signed
    <3>3. v \in 0..(2^XLen - 1)
      BY <2>1
    <3>4. (2^XLen * 0 + v) % 2^XLen = v
      BY <2>1, <3>3, DivModUnique
    <3>5. 2^XLen * 0 + v = v
      BY <2>1
    <3>6. Signed(v, n) % 2^XLen = v
      BY <3>2, <3>4, <3>5
    <3> QED BY <3>1, <3>6
  <2> QED BY <2>2, <2>3
<1>4. SExtShifted(c, v) = z
  BY <1>3 DEF SExtShifted, Num
<1> DEFINE p == Placed(x, k)
<1>5. Extended(p, t) = SignedPlaced(x, k, n)
  <2> HIDE DEF x
  <2> QED BY <1>0, <1>1, ExtendedPlaced
<1>6. p \subseteq k..(k + n - 1) /\ Sll(x, k) = p
  BY OperandPlaced
<1>7. t - 1 \in p <=> n - 1 \in x
  <2>1. (t - 1) - k = n - 1 /\ t - 1 \in 0..(XLen - 1)
    BY <1>0
  <2> HIDE DEF x, p, t
  <2> QED BY <1>6, <2>1 DEF Sll
<1>8. ASSUME NEW i \in 0..(WordBits - 1)
      PROVE  i \in z <=> IF i < t THEN i \in p ELSE t - 1 \in p
  <2>0. i \in 0..(XLen - 1)
    BY <1>0
  <2>1. i \in z <=> i - k \in e
    BY <2>0 DEF Trunc, Sll
  <2>2. i \in p <=> i - k \in x
    <3> HIDE DEF x, p
    <3> QED BY <1>6, <2>0 DEF Sll
  <2>3. i < t => i - k \notin u
    BY <1>0
  <2>4. ~(i < t) => i - k \in u /\ i - k \notin 0..(n - 1)
    BY <1>0
  <2> HIDE DEF x, p, z, t, u
  <2> QED BY <1>1, <1>7, <2>1, <2>2, <2>3, <2>4
<1>9. z \in Word /\ SExt(z) \in Reg
  BY TruncInWord, SExtInReg
<1> HIDE DEF z, p
<1>10. ASSUME NEW i \in 0..(XLen - 1) PROVE i \in SExt(z) <=> i \in Extended(p, t)
  <2>1. CASE i < WordBits
    <3>1. i \in 0..(WordBits - 1)
      BY <1>0, <2>1
    <3> QED BY <1>8, <1>9, <2>1, <3>1, InSExt DEF Extended
  <2>2. CASE ~(i < WordBits)
    <3>1. /\ ~(i < t) /\ WordBits - 1 \in 0..(WordBits - 1)
          /\ (WordBits - 1 < t => WordBits - 1 = t - 1)
      BY <1>0, <2>2
    <3> QED BY <1>8, <1>9, <2>2, <3>1, InSExt DEF Extended
  <2> QED BY <2>1, <2>2
<1>11. SExt(z) = Extended(p, t)
  BY <1>9, <1>10 DEF Reg, Extended
<1> QED BY <1>4, <1>5, <1>11

\* The operand of the other masked operations, read back at its part.
LEMMA ShiftedOperand ==
    ASSUME NEW c, PartInside(c), c.masked, NEW v \in 0..(2^ValWidth - 1)
    PROVE  /\ SExt(ZExtShifted(c, v)) \in Reg
           /\ SExt(ZExtShifted(c, v)) \cap 0..(c.shift - 1) = {}
           /\ Part(SExt(ZExtShifted(c, v)), c.shift, ValWidth) = Bits[v]
<1> DEFINE k == c.shift
           z == ZExtShifted(c, v)
<1>0. /\ k \in Nat /\ ValWidth \in Nat /\ k + ValWidth <= WordBits
      /\ WordBits \in Nat /\ ValWidth > 0
  BY WidthsAssumption DEF PartInside, Width
<1>1. z = Placed(Bits[v], k) /\ z \in Word /\ Placed(Bits[v], k) \subseteq k..(k + ValWidth - 1)
  BY OperandPlaced
<1>2. 0..(k - 1) \subseteq 0..(WordBits - 1) /\ k..(k + ValWidth - 1) \cap 0..(k - 1) = {}
  BY <1>0
<1>3. SExt(z) \in Reg
  BY <1>1, SExtInReg
<1>4. SExt(z) \cap 0..(k - 1) = {}
  BY <1>1, <1>2, TruncSExt
<1>5. Part(SExt(z), k, ValWidth) = Part(z, k, ValWidth)
  BY <1>0, <1>1, PartInWord
<1>6. Part(Placed(Bits[v], k), k, ValWidth) = Bits[v]
  BY <1>0, OperandPlaced, PartPlaced, Zenon
<1> QED BY <1>1, <1>3, <1>4, <1>5, <1>6

LEMMA PartAtZero ==
    ASSUME NEW n \in Nat, NEW x, x \subseteq 0..(n - 1) PROVE Part(x, 0, n) = x
<1>1. \A i \in x : i \in Int
  OBVIOUS
<1>2. 0..(0 + n - 1) = 0..(n - 1)
  OBVIOUS
<1>3. x \cap 0..(0 + n - 1) = x
  BY <1>2
<1>4. \A i \in x : i - 0 = i
  BY <1>1
<1> QED BY <1>3, <1>4 DEF Part

\* The operand of an unmasked operation, whatever lies above the word.
LEMMA AnyExtPart ==
    ASSUME NEW c, NEW v \in 0..(2^WordBits - 1)
    PROVE  /\ AnyExt(c, v) \in Reg
           /\ AnyExt(c, v) \cap 0..(WordBits - 1) = Bits[v]
           /\ Part(AnyExt(c, v), 0, WordBits) = Bits[v]
           /\ Bits[v] \in Word /\ Uns[Bits[v]] = v
<1>0. /\ WordBits \in Nat /\ XLen \in Nat /\ WordBits \in 0..XLen
      /\ WordBits..(XLen - 1) \subseteq 0..(XLen - 1)
      /\ 0..(WordBits - 1) \cap WordBits..(XLen - 1) = {}
  BY WidthsAssumption
<1>1. Bits[v] \in Reg /\ Bits[v] \subseteq 0..(WordBits - 1) /\ Uns[Bits[v]] = v
  BY <1>0, UnsOfBits
<1> DEFINE x == Bits[v]
           a == AnyExt(c, v)
<1>2. a = x \cup IF c.junk THEN WordBits..(XLen - 1) ELSE {}
  BY DEF AnyExt, Num
<1> HIDE DEF x, a
<1>3. a \in Reg /\ a \cap 0..(WordBits - 1) = x
  BY <1>0, <1>1, <1>2 DEF Reg, x
<1>4. Part(a, 0, WordBits) = Part(x, 0, WordBits)
  <2>1. x \cap 0..(WordBits - 1) = x
    BY <1>1 DEF x
  <2>2. a \cap 0..(0 + WordBits - 1) = x \cap 0..(0 + WordBits - 1)
    BY <1>0, <1>3, <2>1
  <2> QED BY <2>2 DEF Part
<1>5. Part(x, 0, WordBits) = x
  BY <1>0, <1>1, PartAtZero DEF x
<1> QED BY <1>1, <1>3, <1>4, <1>5 DEF x, a, Word

\* The logical operations work bit by bit, so on each part by itself.
LEMMA InPart ==
    ASSUME NEW r, NEW k \in Nat, NEW n \in Nat, NEW i
    PROVE  i \in Part(r, k, n) <=> i \in 0..(n - 1) /\ i + k \in r
<1>1. ASSUME i \in Part(r, k, n) PROVE i \in 0..(n - 1) /\ i + k \in r
  <2>1. PICK j \in r \cap k..(k + n - 1) : i = j - k
    BY <1>1 DEF Part
  <2>2. i + k = j
    BY <2>1
  <2> QED BY <2>1, <2>2
<1>2. ASSUME i \in 0..(n - 1), i + k \in r PROVE i \in Part(r, k, n)
  <2>1. i + k \in k..(k + n - 1) /\ i = (i + k) - k
    BY <1>2
  <2> QED BY <1>2, <2>1 DEF Part
<1> QED BY <1>1, <1>2

LEMMA AndPart ==
    ASSUME NEW r, NEW s, NEW k \in Nat, NEW n \in Nat
    PROVE  Part(And(r, s), k, n) = Part(r, k, n) \cap Part(s, k, n)
BY InPart DEF And

LEMMA OrPart ==
    ASSUME NEW r, NEW s, NEW k \in Nat, NEW n \in Nat
    PROVE  Part(Or(r, s), k, n) = Part(r, k, n) \cup Part(s, k, n)
BY InPart DEF Or

LEMMA XorPart ==
    ASSUME NEW r, NEW s, NEW k \in Nat, NEW n \in Nat
    PROVE  Part(Xor(r, s), k, n) = Xor(Part(r, k, n), Part(s, k, n))
BY InPart DEF Xor

LEMMA NotPart ==
    ASSUME NEW r, NEW k \in Nat, NEW n \in Nat, k + n <= XLen
    PROVE  Part(Not(r), k, n) = (0..(n - 1)) \ Part(r, k, n)
<1>1. \A i \in 0..(n - 1) : i + k \in 0..(XLen - 1)
  BY WidthsAssumption
<1> QED BY <1>1, InPart DEF Not

\* The number in the part of the complement of an and of two registers.
LEMMA NandPart ==
    ASSUME NEW a \in Reg, NEW b \in Reg, NEW k \in Nat, NEW n \in Nat, k + n <= XLen
    PROVE  Uns[Part(Not(And(a, b)), k, n)]
             = 2^n - 1 - Uns[Part(a, k, n) \cap Part(b, k, n)]
<1> DEFINE x == Part(a, k, n) \cap Part(b, k, n)
<1>1. Part(Not(And(a, b)), k, n) = (0..(n - 1)) \ x
  <2>1. Part(And(a, b), k, n) = x
    BY AndPart
  <2> DEFINE d == And(a, b)
  <2> HIDE DEF d
  <2>2. Part(Not(d), k, n) = (0..(n - 1)) \ Part(d, k, n)
    BY NotPart
  <2> QED BY <2>1, <2>2 DEF d
<1>2. Part(a, k, n) \in Reg /\ Part(a, k, n) \subseteq 0..(n - 1)
  BY PartInReg
<1>3. x \in Reg /\ x \subseteq 0..(n - 1)
  BY <1>2 DEF Reg
<1>4. n \in 0..XLen
  BY WidthsAssumption
<1> HIDE DEF x
<1> QED BY <1>1, <1>3, <1>4, UnsComplement DEF x
=============================================================================
