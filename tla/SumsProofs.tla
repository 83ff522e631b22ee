------------------------------ MODULE SumsProofs ------------------------------
(***************************************************************************)
(* Laws of SumTo: its two equations, bounds, what changing one term or     *)
(* clearing several does to it.  SumTo is a recursive function, and the    *)
(* induction theorems of the library cannot be used with the provers at    *)
(* hand, for they take a predicate.  Induction is therefore stated of a    *)
(* set of numbers, and proved from the fact that < is well founded: every  *)
(* set of naturals that is not empty has a least element.                  *)
(***************************************************************************)
EXTENDS Sums, FiniteSets, WellFoundedInduction, FiniteSetTheorems, TLAPS

-----------------------------------------------------------------------------
(* Induction: a set with zero and with every member's successor has all.    *)
LEMMA Induction ==
  ASSUME NEW S, 0 \in S, \A n \in Nat : n \in S => n + 1 \in S
  PROVE  Nat \subseteq S
<1> SUFFICES ASSUME NEW Bad, Bad = Nat \ S, Bad # {} PROVE FALSE
  OBVIOUS
<1>1. Bad \subseteq Nat
  OBVIOUS
<1>2. PICK m \in Bad : \A k \in Bad : <<k, m>> \notin OpToRel(<, Nat)
  BY <1>1, WFMin, NatLessThanWellFounded, Zenon
<1>3. \A k \in Bad : ~(k < m)
  BY <1>1, <1>2, Zenon DEF OpToRel
<1>4. m \in Nat /\ m # 0 /\ m \notin S
  OBVIOUS
<1>5. m - 1 \in Nat /\ m - 1 < m /\ (m - 1) + 1 = m
  BY <1>4
<1>6. m - 1 \in S
  BY <1>3, <1>5
<1> QED BY <1>4, <1>5, <1>6

-----------------------------------------------------------------------------
(* The recursive equation of a sum has a solution on every interval, and    *)
(* solutions on two intervals agree where both are defined.                 *)
IsSum(s, f, n) == s = [i \in 0 .. n |-> IF i = 0 THEN 0 ELSE s[i - 1] + f[i]]

(* By induction: one more value extends a solution.                         *)
LEMMA SolutionExists ==
  ASSUME NEW f, NEW n \in Nat
  PROVE  \E s : IsSum(s, f, n)
<1> DEFINE S == {k \in Nat : \E s : IsSum(s, f, k)}
<1>1. 0 \in S
  <2>1. IsSum([i \in 0 .. 0 |-> 0], f, 0)
    BY DEF IsSum
  <2> QED BY <2>1
<1>2. ASSUME NEW k \in Nat, k \in S PROVE k + 1 \in S
  <2>1. PICK s : IsSum(s, f, k)
    BY <1>2
  <2> DEFINE t == [i \in 0 .. k + 1 |-> IF i = k + 1 THEN s[k] + f[i] ELSE s[i]]
  <2>2. ASSUME NEW i \in 0 .. k + 1
        PROVE  t[i] = IF i = 0 THEN 0 ELSE t[i - 1] + f[i]
    <3>1. CASE i = k + 1
      <4>1. i # 0 /\ i - 1 = k /\ k \in 0 .. k + 1 /\ k # k + 1
        BY <3>1
      <4>2. t[i] = s[k] + f[i] /\ t[i - 1] = s[k]
        BY <3>1, <4>1
      <4> QED BY <4>1, <4>2
    <3>2. CASE i # k + 1
      <4>1. i \in 0 .. k
        BY <3>2
      <4>2. t[i] = s[i]
        BY <3>2
      <4>3. s[i] = IF i = 0 THEN 0 ELSE s[i - 1] + f[i]
        BY <2>1, <4>1 DEF IsSum
      <4>4. i # 0 => i - 1 \in 0 .. k + 1 /\ i - 1 # k + 1 /\ t[i - 1] = s[i - 1]
        BY <4>1
      <4> QED BY <4>2, <4>3, <4>4
    <3> QED BY <3>1, <3>2
  <2>3. t = [i \in 0 .. k + 1 |-> t[i]]
    OBVIOUS
  <2>4. [i \in 0 .. k + 1 |-> t[i]]
          = [i \in 0 .. k + 1 |-> IF i = 0 THEN 0 ELSE t[i - 1] + f[i]]
    <3> HIDE DEF t
    <3> QED BY <2>2
  <2>5. IsSum(t, f, k + 1)
    <3> HIDE DEF t
    <3> QED BY <2>3, <2>4 DEF IsSum
  <2> QED BY <2>5
<1>3. Nat \subseteq S
  <2> HIDE DEF S
  <2> QED BY <1>1, <1>2, Induction
<1> QED BY <1>3

(* By induction on the index.                                               *)
LEMMA SolutionsAgree ==
  ASSUME NEW f, NEW m \in Nat, NEW n \in Nat, m <= n,
         NEW s, IsSum(s, f, m), NEW t, IsSum(t, f, n), NEW j \in 0 .. m
  PROVE  s[j] = t[j]
<1> DEFINE S == {k \in Nat : k <= m => s[k] = t[k]}
<1>0. /\ \A k \in 0 .. m : s[k] = IF k = 0 THEN 0 ELSE s[k - 1] + f[k]
      /\ \A k \in 0 .. m : t[k] = IF k = 0 THEN 0 ELSE t[k - 1] + f[k]
  BY DEF IsSum
<1>1. 0 \in S
  BY <1>0
<1>2. ASSUME NEW k \in Nat, k \in S PROVE k + 1 \in S
  <2> SUFFICES ASSUME k + 1 <= m PROVE s[k + 1] = t[k + 1]
    OBVIOUS
  <2>1. k + 1 \in 0 .. m /\ k + 1 # 0 /\ (k + 1) - 1 = k /\ k <= m
    OBVIOUS
  <2>2. s[k] = t[k]
    BY <1>2, <2>1
  <2> QED BY <1>0, <2>1, <2>2
<1>3. Nat \subseteq S
  <2> HIDE DEF S
  <2> QED BY <1>1, <1>2, Induction
<1> QED BY <1>3

(* So the function that SumTo defines exists, and SumTo is its last value.  *)
LEMMA SumIsASolution ==
  ASSUME NEW f, NEW n \in Nat
  PROVE  \E s : IsSum(s, f, n) /\ SumTo(f, n) = s[n]
<1> DEFINE c == CHOOSE s : IsSum(s, f, n)
<1>1. IsSum(c, f, n)
  BY SolutionExists
<1>2. SumTo(f, n) = c[n]
  BY DEF SumTo, IsSum
<1> QED BY <1>1, <1>2

(* The two equations every other lemma rests on.                            *)
LEMMA SumOfNone ==
  ASSUME NEW f
  PROVE  SumTo(f, 0) = 0
<1>1. PICK s : IsSum(s, f, 0) /\ SumTo(f, 0) = s[0]
  BY SumIsASolution
<1> QED BY <1>1 DEF IsSum

LEMMA SumOfNext ==
  ASSUME NEW f, NEW n \in Nat
  PROVE  SumTo(f, n + 1) = SumTo(f, n) + f[n + 1]
<1>1. PICK s : IsSum(s, f, n) /\ SumTo(f, n) = s[n]
  BY SumIsASolution
<1>2. PICK t : IsSum(t, f, n + 1) /\ SumTo(f, n + 1) = t[n + 1]
  BY SumIsASolution
<1>3. s[n] = t[n]
  <2>1. n \in 0 .. n /\ n <= n + 1 /\ n + 1 \in Nat
    OBVIOUS
  <2> QED BY <1>1, <1>2, <2>1, SolutionsAgree
<1>4. t[n + 1] = t[n] + f[n + 1]
  <2>1. n + 1 \in 0 .. n + 1 /\ n + 1 # 0 /\ (n + 1) - 1 = n
    OBVIOUS
  <2>2. t[n + 1] = IF n + 1 = 0 THEN 0 ELSE t[(n + 1) - 1] + f[n + 1]
    BY <1>2, <2>1 DEF IsSum
  <2> QED BY <2>1, <2>2
<1> QED BY <1>1, <1>2, <1>3, <1>4

-----------------------------------------------------------------------------
(* Type and order.                                                          *)
LEMMA SumIsInt ==
  ASSUME NEW f, NEW n \in Nat, \A i \in 1 .. n : f[i] \in Int
  PROVE  SumTo(f, n) \in Int
<1> DEFINE S == {k \in Nat : k <= n => SumTo(f, k) \in Int}
<1>1. 0 \in S
  BY SumOfNone
<1>2. ASSUME NEW k \in Nat, k \in S PROVE k + 1 \in S
  <2> SUFFICES ASSUME k + 1 <= n PROVE SumTo(f, k + 1) \in Int
    OBVIOUS
  <2>1. SumTo(f, k) \in Int /\ f[k + 1] \in Int
    BY <1>2
  <2> QED BY <2>1, SumOfNext
<1>3. Nat \subseteq S
  <2> HIDE DEF S
  <2> QED BY <1>1, <1>2, Induction
<1> QED BY <1>3

(* Greater terms have a greater sum.                                        *)
LEMMA SumIsMonotone ==
  ASSUME NEW f, NEW g, NEW n \in Nat,
         \A i \in 1 .. n : f[i] \in Int /\ g[i] \in Int /\ f[i] <= g[i]
  PROVE  SumTo(f, n) <= SumTo(g, n)
<1> DEFINE S == {k \in Nat : k <= n => SumTo(f, k) <= SumTo(g, k)}
<1>1. 0 \in S
  BY SumOfNone
<1>2. ASSUME NEW k \in Nat, k \in S PROVE k + 1 \in S
  <2> SUFFICES ASSUME k + 1 <= n PROVE SumTo(f, k + 1) <= SumTo(g, k + 1)
    OBVIOUS
  <2>1. SumTo(f, k) <= SumTo(g, k) /\ k + 1 \in 1 .. n
    BY <1>2
  <2>2. f[k + 1] \in Int /\ g[k + 1] \in Int /\ f[k + 1] <= g[k + 1]
    BY <2>1
  <2>3. SumTo(f, k) \in Int /\ SumTo(g, k) \in Int
    BY SumIsInt
  <2>4. SumTo(f, k + 1) = SumTo(f, k) + f[k + 1] /\ SumTo(g, k + 1) = SumTo(g, k) + g[k + 1]
    BY SumOfNext
  <2> QED BY <2>1, <2>2, <2>3, <2>4
<1>3. Nat \subseteq S
  <2> HIDE DEF S
  <2> QED BY <1>1, <1>2, Induction
<1> QED BY <1>3

(* Only the terms up to n matter, not the function's domain.                *)
LEMMA SumOfEqual ==
  ASSUME NEW f, NEW g, NEW n \in Nat, \A i \in 1 .. n : f[i] = g[i]
  PROVE  SumTo(f, n) = SumTo(g, n)
<1> DEFINE S == {k \in Nat : k <= n => SumTo(f, k) = SumTo(g, k)}
<1>1. 0 \in S
  BY SumOfNone
<1>2. ASSUME NEW k \in Nat, k \in S PROVE k + 1 \in S
  <2> SUFFICES ASSUME k + 1 <= n PROVE SumTo(f, k + 1) = SumTo(g, k + 1)
    OBVIOUS
  <2>1. SumTo(f, k) = SumTo(g, k) /\ f[k + 1] = g[k + 1]
    BY <1>2
  <2> QED BY <2>1, SumOfNext
<1>3. Nat \subseteq S
  <2> HIDE DEF S
  <2> QED BY <1>1, <1>2, Induction
<1> QED BY <1>3

(* Nothing adds up to nothing.                                              *)
LEMMA SumOfZeros ==
  ASSUME NEW f, NEW n \in Nat, \A i \in 1 .. n : f[i] = 0
  PROVE  SumTo(f, n) = 0
<1> DEFINE S == {k \in Nat : k <= n => SumTo(f, k) = 0}
<1>1. 0 \in S
  BY SumOfNone
<1>2. ASSUME NEW k \in Nat, k \in S PROVE k + 1 \in S
  <2> SUFFICES ASSUME k + 1 <= n PROVE SumTo(f, k + 1) = 0
    OBVIOUS
  <2>1. SumTo(f, k) = 0 /\ f[k + 1] = 0
    BY <1>2
  <2> QED BY <2>1, SumOfNext
<1>3. Nat \subseteq S
  <2> HIDE DEF S
  <2> QED BY <1>1, <1>2, Induction
<1> QED BY <1>3

(* Changing one term changes the sum by as much.                            *)
LEMMA SumOfUpdate ==
  ASSUME NEW f, NEW g, NEW n \in Nat, NEW j \in 1 .. n,
         \A i \in 1 .. n : f[i] \in Int /\ g[i] \in Int,
         \A i \in 1 .. n : i # j => g[i] = f[i]
  PROVE  SumTo(g, n) = SumTo(f, n) + (g[j] - f[j])
<1> DEFINE S == {k \in Nat : k <= n =>
                   SumTo(g, k) = IF k < j THEN SumTo(f, k) ELSE SumTo(f, k) + (g[j] - f[j])}
<1>1. 0 \in S
  BY SumOfNone
<1>2. ASSUME NEW k \in Nat, k \in S PROVE k + 1 \in S
  <2> SUFFICES ASSUME k + 1 <= n
               PROVE  SumTo(g, k + 1) = IF k + 1 < j THEN SumTo(f, k + 1)
                                      ELSE SumTo(f, k + 1) + (g[j] - f[j])
    OBVIOUS
  <2>1. SumTo(g, k) = IF k < j THEN SumTo(f, k) ELSE SumTo(f, k) + (g[j] - f[j])
    BY <1>2
  <2>2. k + 1 \in 1 .. n /\ f[k + 1] \in Int /\ g[k + 1] \in Int /\ f[j] \in Int /\ g[j] \in Int
    OBVIOUS
  <2>3. SumTo(f, k) \in Int /\ SumTo(g, k) \in Int
    BY SumIsInt
  <2>4. SumTo(f, k + 1) = SumTo(f, k) + f[k + 1] /\ SumTo(g, k + 1) = SumTo(g, k) + g[k + 1]
    BY SumOfNext
  <2>5. CASE k + 1 = j
    BY <2>1, <2>2, <2>3, <2>4, <2>5
  <2>6. CASE k + 1 # j
    <3>1. g[k + 1] = f[k + 1]
      BY <2>2, <2>6
    <3> QED BY <2>1, <2>2, <2>3, <2>4, <2>6, <3>1
  <2> QED BY <2>5, <2>6
<1>3. Nat \subseteq S
  <2> HIDE DEF S
  <2> QED BY <1>1, <1>2, Induction
<1> QED BY <1>3

-----------------------------------------------------------------------------
(* What a set T of indices contributes, the terms outside it being zero.    *)

(* No term of T is above x, so x times their number bounds the sum ...      *)
LEMMA SumOverSetAtMost ==
  ASSUME NEW f, NEW n \in Nat, NEW T, T \subseteq 1 .. n, NEW x \in Int,
         \A i \in 1 .. n : f[i] \in Int,
         \A i \in 1 .. n : IF i \in T THEN f[i] <= x ELSE f[i] = 0
  PROVE  SumTo(f, n) <= x * Cardinality(T)
<1> DEFINE Upto(k) == T \cap (1 .. k)
           S == {k \in Nat : k <= n => SumTo(f, k) <= x * Cardinality(Upto(k))}
<1>0. \A k \in Nat : IsFiniteSet(Upto(k)) /\ Cardinality(Upto(k)) \in Nat
  <2> SUFFICES ASSUME NEW k \in Nat
               PROVE  IsFiniteSet(Upto(k)) /\ Cardinality(Upto(k)) \in Nat
    OBVIOUS
  <2>1. IsFiniteSet(1 .. k)
    BY FS_Interval
  <2>2. IsFiniteSet(Upto(k))
    BY <2>1, FS_Subset
  <2> QED BY <2>2, FS_CardinalityType
<1>1. 0 \in S
  <2>1. Upto(0) = {}
    OBVIOUS
  <2>2. Cardinality(Upto(0)) = 0
    BY <2>1, FS_EmptySet
  <2> QED BY <2>2, SumOfNone
<1>2. ASSUME NEW k \in Nat, k \in S PROVE k + 1 \in S
  <2> SUFFICES ASSUME k + 1 <= n PROVE SumTo(f, k + 1) <= x * Cardinality(Upto(k + 1))
    OBVIOUS
  <2> DEFINE c == Cardinality(Upto(k))
  <2>1. SumTo(f, k) <= x * c
    BY <1>2
  <2>2. SumTo(f, k) \in Int /\ f[k + 1] \in Int /\ c \in Nat
    <3>1. SumTo(f, k) \in Int
      BY SumIsInt
    <3>2. c \in Nat
      BY <1>0
    <3> QED BY <3>1, <3>2
  <2>3. SumTo(f, k + 1) = SumTo(f, k) + f[k + 1]
    BY SumOfNext
  <2>4. CASE k + 1 \in T
    <3>1. Upto(k + 1) = Upto(k) \cup {k + 1} /\ k + 1 \notin Upto(k)
      BY <2>4
    <3>2. Cardinality(Upto(k + 1)) = c + 1
      BY <1>0, <3>1, FS_AddElement
    <3>3. f[k + 1] <= x
      BY <2>4
    <3>4. x * (c + 1) = x * c + x /\ x * c \in Int
      BY <2>2
    <3> HIDE DEF c, Upto
    <3> QED BY <2>1, <2>2, <2>3, <3>2, <3>3, <3>4
  <2>5. CASE k + 1 \notin T
    <3>1. Upto(k + 1) = Upto(k)
      BY <2>5
    <3>2. f[k + 1] = 0
      BY <2>5
    <3> HIDE DEF Upto
    <3> QED BY <2>1, <2>2, <2>3, <3>1, <3>2
  <2> QED BY <2>4, <2>5
<1>3. Nat \subseteq S
  <2> HIDE DEF S
  <2> QED BY <1>1, <1>2, Induction
<1>4. Upto(n) = T
  OBVIOUS
<1> QED BY <1>3, <1>4

(* ... and from below.                                                      *)
LEMMA SumOverSetAtLeast ==
  ASSUME NEW f, NEW n \in Nat, NEW T, T \subseteq 1 .. n, NEW x \in Int,
         \A i \in 1 .. n : f[i] \in Int,
         \A i \in 1 .. n : IF i \in T THEN x <= f[i] ELSE f[i] = 0
  PROVE  x * Cardinality(T) <= SumTo(f, n)
<1> DEFINE Upto(k) == T \cap (1 .. k)
           S == {k \in Nat : k <= n => x * Cardinality(Upto(k)) <= SumTo(f, k)}
<1>0. \A k \in Nat : IsFiniteSet(Upto(k)) /\ Cardinality(Upto(k)) \in Nat
  <2> SUFFICES ASSUME NEW k \in Nat
               PROVE  IsFiniteSet(Upto(k)) /\ Cardinality(Upto(k)) \in Nat
    OBVIOUS
  <2>1. IsFiniteSet(1 .. k)
    BY FS_Interval
  <2>2. IsFiniteSet(Upto(k))
    BY <2>1, FS_Subset
  <2> QED BY <2>2, FS_CardinalityType
<1>1. 0 \in S
  <2>1. Upto(0) = {}
    OBVIOUS
  <2>2. Cardinality(Upto(0)) = 0
    BY <2>1, FS_EmptySet
  <2> QED BY <2>2, SumOfNone
<1>2. ASSUME NEW k \in Nat, k \in S PROVE k + 1 \in S
  <2> SUFFICES ASSUME k + 1 <= n PROVE x * Cardinality(Upto(k + 1)) <= SumTo(f, k + 1)
    OBVIOUS
  <2> DEFINE c == Cardinality(Upto(k))
  <2>1. x * c <= SumTo(f, k)
    BY <1>2
  <2>2. SumTo(f, k) \in Int /\ f[k + 1] \in Int /\ c \in Nat
    <3>1. SumTo(f, k) \in Int
      BY SumIsInt
    <3>2. c \in Nat
      BY <1>0
    <3> QED BY <3>1, <3>2
  <2>3. SumTo(f, k + 1) = SumTo(f, k) + f[k + 1]
    BY SumOfNext
  <2>4. CASE k + 1 \in T
    <3>1. Upto(k + 1) = Upto(k) \cup {k + 1} /\ k + 1 \notin Upto(k)
      BY <2>4
    <3>2. Cardinality(Upto(k + 1)) = c + 1
      BY <1>0, <3>1, FS_AddElement
    <3>3. x <= f[k + 1]
      BY <2>4
    <3>4. x * (c + 1) = x * c + x /\ x * c \in Int
      BY <2>2
    <3> HIDE DEF c, Upto
    <3> QED BY <2>1, <2>2, <2>3, <3>2, <3>3, <3>4
  <2>5. CASE k + 1 \notin T
    <3>1. Upto(k + 1) = Upto(k)
      BY <2>5
    <3>2. f[k + 1] = 0
      BY <2>5
    <3> HIDE DEF Upto
    <3> QED BY <2>1, <2>2, <2>3, <3>1, <3>2
  <2> QED BY <2>4, <2>5
<1>3. Nat \subseteq S
  <2> HIDE DEF S
  <2> QED BY <1>1, <1>2, Induction
<1>4. Upto(n) = T
  OBVIOUS
<1> QED BY <1>3, <1>4

-----------------------------------------------------------------------------
(* Clearing the terms that a list without repetition names takes the sum of *)
(* those terms away.                                                        *)
Along(f, s, m) == [j \in 1 .. m |-> f[s[j]]]

Clears(g, f, s, n, m) ==
  \A i \in 1 .. n : g[i] = IF \E j \in 1 .. m : s[j] = i THEN 0 ELSE f[i]

AllInt(f, n) == \A i \in 1 .. n : f[i] \in Int

Picks(s, m, n) ==
  /\ \A j \in 1 .. m : s[j] \in 1 .. n
  /\ \A j, k \in 1 .. m : s[j] = s[k] => j = k

LEMMA SumOfCleared ==
  ASSUME NEW f, NEW g, NEW s, NEW n \in Nat, NEW m \in Nat,
         AllInt(f, n), Picks(s, m, n), Clears(g, f, s, n, m)
  PROVE  SumTo(g, n) = SumTo(f, n) - SumTo(Along(f, s, m), m)
<1> USE DEF AllInt, Picks
<1> DEFINE h == Along(f, s, m)
           G(k) == [i \in 1 .. n |-> IF \E j \in 1 .. k : s[j] = i THEN 0 ELSE f[i]]
           S == {k \in Nat : k <= m => SumTo(G(k), n) = SumTo(f, n) - SumTo(h, k)}
<1>7. \A j \in 1 .. m : h[j] = f[s[j]]
  BY DEF Along
<1> HIDE DEF h
<1>0. /\ SumTo(f, n) \in Int
      /\ \A k \in Nat : k <= m => SumTo(h, k) \in Int
  <2>1. SumTo(f, n) \in Int
    BY SumIsInt
  <2>2. ASSUME NEW k \in Nat, k <= m PROVE SumTo(h, k) \in Int
    <3>1. \A j \in 1 .. k : h[j] \in Int
      BY <1>7, <2>2
    <3> QED BY <3>1, SumIsInt
  <2> QED BY <2>1, <2>2
<1>1. 0 \in S
  <2>1. \A i \in 1 .. n : G(0)[i] = f[i]
    OBVIOUS
  <2>2. SumTo(G(0), n) = SumTo(f, n)
    <3> HIDE DEF G
    <3> QED BY <2>1, SumOfEqual
  <2>3. SumTo(h, 0) = 0
    BY SumOfNone
  <2>4. SumTo(f, n) \in Int
    BY <1>0
  <2>5. SumTo(G(0), n) = SumTo(f, n) - SumTo(h, 0)
    <3> HIDE DEF G
    <3> QED BY <2>2, <2>3, <2>4
  <2> QED BY <2>5
<1>2. ASSUME NEW k \in Nat, k \in S PROVE k + 1 \in S
  <2> SUFFICES ASSUME k + 1 <= m PROVE SumTo(G(k + 1), n) = SumTo(f, n) - SumTo(h, k + 1)
    OBVIOUS
  <2>1. k + 1 \in 1 .. m /\ k <= m /\ SumTo(G(k), n) = SumTo(f, n) - SumTo(h, k)
    BY <1>2
  <2>2. PICK x \in 1 .. n : x = s[k + 1]
    BY <2>1
  <2>3. \A i \in 1 .. n : G(k)[i] \in Int /\ G(k + 1)[i] \in Int
    OBVIOUS
  <2>4. G(k)[x] = f[x]
    <3>1. \A j \in 1 .. k : j \in 1 .. m /\ j # k + 1
      BY <2>1
    <3>2. ~ \E j \in 1 .. k : s[j] = x
      BY <2>1, <2>2, <3>1
    <3> QED BY <3>2
  <2>5. G(k + 1)[x] = 0
    <3>1. k + 1 \in 1 .. k + 1
      OBVIOUS
    <3> QED BY <2>2, <3>1
  <2>6. \A i \in 1 .. n : i # x => G(k + 1)[i] = G(k)[i]
    <3>1. \A j \in 1 .. k + 1 : j \in 1 .. k \/ j = k + 1
      OBVIOUS
    <3>2. \A j \in 1 .. k : j \in 1 .. k + 1
      OBVIOUS
    <3> QED BY <2>2, <3>1, <3>2
  <2>7. SumTo(G(k + 1), n) = SumTo(G(k), n) + (G(k + 1)[x] - G(k)[x])
    <3> HIDE DEF G
    <3> QED BY <2>3, <2>6, SumOfUpdate
  <2>8. SumTo(h, k + 1) = SumTo(h, k) + f[x]
    <3>1. SumTo(h, k + 1) = SumTo(h, k) + h[k + 1]
      BY SumOfNext
    <3>2. h[k + 1] = f[x]
      BY <1>7, <2>1, <2>2
    <3> QED BY <3>1, <3>2
  <2>9. f[x] \in Int /\ SumTo(h, k) \in Int /\ SumTo(f, n) \in Int
    BY <1>0, <2>1
  <2> HIDE DEF G
  <2> QED BY <2>1, <2>4, <2>5, <2>7, <2>8, <2>9
<1>3. Nat \subseteq S
  <2> HIDE DEF S
  <2> QED BY <1>1, <1>2, Induction
<1>4. SumTo(G(m), n) = SumTo(f, n) - SumTo(h, m)
  BY <1>3
<1>5. \A i \in 1 .. n : g[i] = G(m)[i]
  BY DEF Clears
<1>6. SumTo(g, n) = SumTo(G(m), n)
  <2> HIDE DEF G
  <2> QED BY <1>5, SumOfEqual
<1> QED BY <1>4, <1>6 DEF h
=============================================================================
