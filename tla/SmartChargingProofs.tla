-------------------------- MODULE SmartChargingProofs --------------------------
(***************************************************************************)
(* Of the smart charge engine it is proved, for any transactions, terms,   *)
(* snapshots, settings and rounding, that its runs do not overlap and that *)
(* the powers they give out fit the grid.  The second is about sums over   *)
(* sets that an iteration computes, so the first lemmas are an induction   *)
(* over finite sets.                                                       *)
(***************************************************************************)
EXTENDS MCSmartCharging, FiniteSetTheorems, TLAPS

-----------------------------------------------------------------------------
(* Sums over finite sets *)

(* A set that holds zero and with a number its successor holds them all:   *)
(* otherwise the members of a prefix of it would map, each to its          *)
(* successor, into the same without zero.                                  *)
LEMMA Successors ==
    ASSUME NEW S, 0 \in S, \A n \in Nat : n \in S => n + 1 \in S
    PROVE  \A n \in Nat : n \in S
<1> SUFFICES ASSUME NEW n \in Nat, n \notin S PROVE FALSE
  OBVIOUS
<1>1. PICK T : T = {i \in 0 .. n : \A j \in 0 .. i : j \in S}
  OBVIOUS
<1>2. 0 \in T /\ T \subseteq 0 .. n
  BY <1>1
<1>3. \A i \in T : i + 1 \in T \ {0}
  <2> SUFFICES ASSUME NEW i \in T PROVE i + 1 \in T \ {0}
    OBVIOUS
  <2>1. i \in 0 .. n /\ \A j \in 0 .. i : j \in S
    BY <1>1
  <2>2. i + 1 \in S
    BY <2>1
  <2>3. i # n
    BY <2>1
  <2>4. \A j \in 0 .. i + 1 : j \in 0 .. i \/ j = i + 1
    BY <2>1
  <2> QED
    BY <1>1, <2>1, <2>2, <2>3, <2>4
<1>4. IsFiniteSet(T)
  <2>1. IsFiniteSet(0 .. n)
    BY FS_Interval
  <2> QED
    BY <1>2, <2>1, FS_Subset
<1>5. IsFiniteSet(T \ {0}) /\ Cardinality(T \ {0}) = Cardinality(T) - 1
  BY <1>2, <1>4, FS_RemoveElement
<1>6. PICK g : g = [i \in T |-> i + 1]
  OBVIOUS
<1>7. g \in Injection(T, T \ {0})
  <2>1. \A i, j \in T : g[i] = g[j] => i = j
    BY <1>2, <1>6
  <2>2. g \in [T -> T \ {0}]
    BY <1>3, <1>6
  <2> QED
    BY <2>1, <2>2 DEF Injection, IsInjective
<1>8. Cardinality(T) <= Cardinality(T \ {0})
  BY <1>5, <1>7, FS_Injection DEF ExistsInjection
<1>9. Cardinality(T) \in Nat
  BY <1>4, FS_CardinalityType
<1> QED
  BY <1>5, <1>8, <1>9

(* A set of parts of I that holds one as soon as it holds what is left of  *)
(* it without any member holds I.                                          *)
LEMMA PartByPart ==
    ASSUME NEW I, IsFiniteSet(I), NEW P, {} \in P,
           \A T \in SUBSET I : T # {} /\ (\A x \in T : T \ {x} \in P) => T \in P
    PROVE  \A T \in SUBSET I : T \in P
<1>1. PICK S : S = {n \in Nat : \A T \in SUBSET I : Cardinality(T) = n => T \in P}
  OBVIOUS
<1>2. \A T \in SUBSET I : IsFiniteSet(T) /\ Cardinality(T) \in Nat
  BY FS_Subset, FS_CardinalityType
<1>3. 0 \in S
  BY <1>1, <1>2, FS_EmptySet
<1>4. ASSUME NEW n \in Nat, n \in S PROVE n + 1 \in S
  <2> SUFFICES ASSUME NEW T \in SUBSET I, Cardinality(T) = n + 1 PROVE T \in P
    BY <1>1
  <2>1. T # {}
    BY FS_EmptySet
  <2>2. ASSUME NEW x \in T PROVE T \ {x} \in P
    <3>1. Cardinality(T \ {x}) = n
      BY <1>2, FS_RemoveElement
    <3> QED
      BY <1>1, <1>4, <3>1
  <2> QED
    BY <2>1, <2>2
<1>5. \A n \in Nat : n \in S
  BY <1>3, <1>4, Successors
<1> QED
  BY <1>1, <1>2, <1>5

(* The sum is defined by an iteration over all parts of I, which takes one *)
(* member of a part after the other.                                       *)
One(s) == CHOOSE x \in s : TRUE

Sums(f, D, it) == it = [s \in D |-> IF s = {} THEN 0 ELSE f[One(s)] + it[s \ {One(s)}]]

Small(I, n) == {s \in SUBSET I : Cardinality(s) <= n}

(* A sum is taken member by member: any function that does so will serve.  *)
LEMMA TotalIs == \A f, I : Total(f, I) = (CHOOSE it : Sums(f, SUBSET I, it))[I]
  BY DEF Total, MapThenSumSet, MapThenFoldSet, Sums, One

LEMMA OneOf == \A s : s # {} => One(s) \in s
  BY DEF One

(* There is a function that sums up every part of a finite set.            *)
LEMMA SumsExist ==
    ASSUME NEW f, NEW I, IsFiniteSet(I)
    PROVE  \E it : Sums(f, SUBSET I, it)
<1>1. PICK S : S = {n \in Nat : \E it : Sums(f, Small(I, n), it)}
  OBVIOUS
<1>2. \A s \in SUBSET I : IsFiniteSet(s) /\ Cardinality(s) \in Nat /\ Cardinality(s) <= Cardinality(I)
  BY FS_Subset, FS_CardinalityType
<1>3. 0 \in S
  <2>1. Small(I, 0) = {{}}
    BY <1>2, FS_EmptySet DEF Small
  <2>2. PICK it : it = [s \in {{}} |-> 0]
    OBVIOUS
  <2>3. Sums(f, Small(I, 0), it)
    BY <2>1, <2>2 DEF Sums
  <2> QED
    BY <1>1, <2>3
<1>4. ASSUME NEW n \in Nat, n \in S PROVE n + 1 \in S
  <2>1. PICK it : Sums(f, Small(I, n), it)
    BY <1>1, <1>4
  <2>2. PICK jt : jt = [s \in Small(I, n + 1) |->
                          IF s = {} THEN 0 ELSE f[One(s)] + it[s \ {One(s)}]]
    OBVIOUS
  <2>3. Small(I, n) \subseteq Small(I, n + 1)
    BY <1>2 DEF Small
  <2>4. ASSUME NEW s \in Small(I, n) PROVE jt[s] = it[s]
    BY <2>1, <2>2, <2>3 DEF Sums
  <2>5. ASSUME NEW s \in Small(I, n + 1), s # {} PROVE s \ {One(s)} \in Small(I, n)
    <3>1. One(s) \in s /\ s \in SUBSET I
      BY <2>5, OneOf DEF Small
    <3>2. Cardinality(s \ {One(s)}) = Cardinality(s) - 1
      BY <1>2, <3>1, FS_RemoveElement
    <3> QED
      BY <1>2, <2>5, <3>1, <3>2 DEF Small
  <2>6. jt = [s \in Small(I, n + 1) |-> IF s = {} THEN 0 ELSE f[One(s)] + jt[s \ {One(s)}]]
    <3>1. \A s \in Small(I, n + 1) : s # {} => jt[s \ {One(s)}] = it[s \ {One(s)}]
      BY <2>4, <2>5
    <3> QED
      BY <2>2, <3>1
  <2>7. Sums(f, Small(I, n + 1), jt)
    BY <2>6 DEF Sums
  <2> QED
    BY <1>1, <2>7
<1>5. \A n \in Nat : n \in S
  BY <1>3, <1>4, Successors
<1>6. Cardinality(I) \in S
  BY <1>5, FS_CardinalityType
<1>7. Small(I, Cardinality(I)) = SUBSET I
  BY <1>2 DEF Small
<1> QED
  BY <1>1, <1>6, <1>7

SameAt(s, it, jt) == it[s] = jt[s]

(* Two of them agree on the parts both have.                               *)
LEMMA SumsAgree ==
    ASSUME NEW f, NEW I, IsFiniteSet(I), NEW J \in SUBSET I,
           NEW it, Sums(f, SUBSET I, it), NEW jt, Sums(f, SUBSET J, jt)
    PROVE  SameAt(J, it, jt)
<1>1. PICK P : P = {s \in SUBSET J : it[s] = jt[s]}
  OBVIOUS
<1>2. /\ \A s \in SUBSET I : it[s] = IF s = {} THEN 0 ELSE f[One(s)] + it[s \ {One(s)}]
      /\ \A s \in SUBSET J : jt[s] = IF s = {} THEN 0 ELSE f[One(s)] + jt[s \ {One(s)}]
  BY DEF Sums
<1>3. {} \in P
  BY <1>1, <1>2
<1>4. ASSUME NEW s \in SUBSET J, s # {}, \A x \in s : s \ {x} \in P
      PROVE  s \in P
  <2>1. One(s) \in s
    BY <1>4, OneOf
  <2>2. it[s \ {One(s)}] = jt[s \ {One(s)}]
    BY <1>1, <1>4, <2>1
  <2>3. s \in SUBSET I
    OBVIOUS
  <2>4. it[s] = f[One(s)] + it[s \ {One(s)}] /\ jt[s] = f[One(s)] + jt[s \ {One(s)}]
    BY <1>2, <1>4, <2>3
  <2> QED
    BY <1>1, <2>2, <2>4
<1>5. IsFiniteSet(J)
  BY FS_Subset
<1>6. \A s \in SUBSET J : s \in P
  BY <1>3, <1>4, <1>5, PartByPart
<1> QED
  BY <1>1, <1>6 DEF SameAt

(* Of nothing the sum is zero, and otherwise that of one and of the others. *)
LEMMA TotalTakes ==
    ASSUME NEW f, NEW I, IsFiniteSet(I)
    PROVE  /\ I = {} => Total(f, I) = 0
           /\ I # {} => One(I) \in I /\ Total(f, I) = f[One(I)] + Total(f, I \ {One(I)})
<1>1. PICK it : it = CHOOSE t : Sums(f, SUBSET I, t)
  OBVIOUS
<1>2. Sums(f, SUBSET I, it)
  BY <1>1, SumsExist
<1>3. Total(f, I) = it[I]
  BY <1>1, TotalIs
<1>4. it[I] = IF I = {} THEN 0 ELSE f[One(I)] + it[I \ {One(I)}]
  BY <1>2 DEF Sums
<1>5. CASE I # {}
  <2>1. One(I) \in I
    BY <1>5, OneOf
  <2>2. PICK J \in SUBSET I : J = I \ {One(I)}
    OBVIOUS
  <2>3. PICK jt : jt = CHOOSE t : Sums(f, SUBSET J, t)
    OBVIOUS
  <2>4. IsFiniteSet(J)
    BY FS_Subset
  <2>5. Sums(f, SUBSET J, jt)
    BY <2>3, <2>4, SumsExist
  <2>6. Total(f, J) = jt[J]
    BY <2>3, TotalIs
  <2>7. it[J] = jt[J]
    <3>1. SameAt(J, it, jt)
      BY <1>2, <2>5, SumsAgree, Zenon
    <3> QED
      BY <3>1 DEF SameAt
  <2> QED
    BY <1>3, <1>4, <1>5, <2>1, <2>2, <2>6, <2>7
<1> QED
  BY <1>3, <1>4, <1>5

(* Sums of integers are integers, and of natural numbers natural.          *)
LEMMA TotalIsInt ==
    ASSUME NEW f, NEW I, IsFiniteSet(I), \A i \in I : f[i] \in Int
    PROVE  \A T \in SUBSET I : Total(f, T) \in Int
<1>1. PICK P : P = {T \in SUBSET I : Total(f, T) \in Int}
  OBVIOUS
<1>2. \A T \in SUBSET I : IsFiniteSet(T)
  BY FS_Subset
<1>3. {} \in P
  <2>1. Total(f, {}) = 0
    BY <1>2, TotalTakes
  <2> QED
    BY <1>1, <2>1
<1>4. ASSUME NEW T \in SUBSET I, T # {}, \A x \in T : T \ {x} \in P
      PROVE  T \in P
  <2>1. One(T) \in T /\ Total(f, T) = f[One(T)] + Total(f, T \ {One(T)})
    BY <1>2, <1>4, TotalTakes
  <2>2. Total(f, T \ {One(T)}) \in Int /\ f[One(T)] \in Int
    BY <1>1, <1>4, <2>1
  <2> QED
    BY <1>1, <2>1, <2>2
<1>5. \A T \in SUBSET I : T \in P
  BY <1>3, <1>4, PartByPart
<1> QED
  BY <1>1, <1>5

LEMMA TotalIsNat ==
    ASSUME NEW f, NEW I, IsFiniteSet(I), \A i \in I : f[i] \in Nat
    PROVE  \A T \in SUBSET I : Total(f, T) \in Nat
<1>1. PICK P : P = {T \in SUBSET I : Total(f, T) \in Nat}
  OBVIOUS
<1>2. \A T \in SUBSET I : IsFiniteSet(T)
  BY FS_Subset
<1>3. {} \in P
  <2>1. Total(f, {}) = 0
    BY <1>2, TotalTakes
  <2> QED
    BY <1>1, <2>1
<1>4. ASSUME NEW T \in SUBSET I, T # {}, \A x \in T : T \ {x} \in P
      PROVE  T \in P
  <2>1. One(T) \in T /\ Total(f, T) = f[One(T)] + Total(f, T \ {One(T)})
    BY <1>2, <1>4, TotalTakes
  <2>2. Total(f, T \ {One(T)}) \in Nat /\ f[One(T)] \in Nat
    BY <1>1, <1>4, <2>1
  <2> QED
    BY <1>1, <2>1, <2>2
<1>5. \A T \in SUBSET I : T \in P
  BY <1>3, <1>4, PartByPart
<1> QED
  BY <1>1, <1>5

(* Where each term of a sum is at most as many times those of two others,  *)
(* the sum is.                                                             *)
LEMMA BothAtMost ==
    \A a, b, c, x, y, z, u, v, w \in Int :
       x * a <= y * b + z * c /\ u * a <= v * b + w * c => (x + u) * a <= (y + v) * b + (z + w) * c
<1> SUFFICES ASSUME NEW a \in Int, NEW b \in Int, NEW c \in Int, NEW x \in Int, NEW y \in Int, NEW z \in Int,
                    NEW u \in Int, NEW v \in Int, NEW w \in Int,
                    x * a <= y * b + z * c, u * a <= v * b + w * c
             PROVE  (x + u) * a <= (y + v) * b + (z + w) * c
  OBVIOUS
<1>1. (x + u) * a = x * a + u * a /\ (y + v) * b = y * b + v * b /\ (z + w) * c = z * c + w * c
  OBVIOUS
<1>2. x * a \in Int /\ u * a \in Int /\ y * b \in Int /\ v * b \in Int /\ z * c \in Int /\ w * c \in Int
  OBVIOUS
<1> QED
  BY <1>1, <1>2

(* A sum of smaller terms is smaller.                                      *)
LEMMA TotalAtMost ==
    ASSUME NEW f, NEW g, NEW h, NEW I, IsFiniteSet(I), NEW a \in Int, NEW b \in Int, NEW c \in Int,
           \A i \in I : f[i] \in Int /\ g[i] \in Int /\ h[i] \in Int /\ f[i] * a <= g[i] * b + h[i] * c
    PROVE  Total(f, I) * a <= Total(g, I) * b + Total(h, I) * c
<1>1. PICK P : P = {T \in SUBSET I : Total(f, T) * a <= Total(g, T) * b + Total(h, T) * c}
  OBVIOUS
<1>2. \A T \in SUBSET I : IsFiniteSet(T)
  BY FS_Subset
<1>3. {} \in P
  <2>1. Total(f, {}) = 0 /\ Total(g, {}) = 0 /\ Total(h, {}) = 0
    BY <1>2, TotalTakes
  <2> QED
    BY <1>1, <2>1
<1>6. \A T \in SUBSET I : Total(f, T) \in Int /\ Total(g, T) \in Int /\ Total(h, T) \in Int
  BY TotalIsInt
<1>4. ASSUME NEW T \in SUBSET I, T # {}, \A x \in T : T \ {x} \in P
      PROVE  T \in P
  <2>1. PICK R \in SUBSET I : R = T \ {One(T)}
    OBVIOUS
  <2>2. /\ One(T) \in T /\ Total(f, T) = f[One(T)] + Total(f, R)
        /\ Total(g, T) = g[One(T)] + Total(g, R) /\ Total(h, T) = h[One(T)] + Total(h, R)
    BY <1>2, <1>4, <2>1, TotalTakes
  <2>3. R \in P
    BY <1>4, <2>1, <2>2
  <2>4. Total(f, R) * a <= Total(g, R) * b + Total(h, R) * c
    BY <1>1, <2>3
  <2>5. /\ f[One(T)] \in Int /\ g[One(T)] \in Int /\ h[One(T)] \in Int
        /\ f[One(T)] * a <= g[One(T)] * b + h[One(T)] * c
    BY <2>2
  <2>6. Total(f, R) \in Int /\ Total(g, R) \in Int /\ Total(h, R) \in Int
    BY <1>6, <2>1
  <2>7. (f[One(T)] + Total(f, R)) * a <= (g[One(T)] + Total(g, R)) * b + (h[One(T)] + Total(h, R)) * c
    BY <2>4, <2>5, <2>6, BothAtMost
  <2> QED
    BY <1>1, <2>2, <2>7
<1>5. \A T \in SUBSET I : T \in P
  BY <1>3, <1>4, PartByPart
<1> QED
  BY <1>1, <1>5

(* A sum of sums is the sum of both.                                       *)
LEMMA TotalOfBoth ==
    ASSUME NEW f, NEW g, NEW h, NEW I, IsFiniteSet(I),
           \A i \in I : f[i] \in Int /\ g[i] \in Int /\ h[i] = f[i] - g[i]
    PROVE  Total(h, I) = Total(f, I) - Total(g, I)
<1>1. PICK P : P = {T \in SUBSET I : Total(h, T) = Total(f, T) - Total(g, T)}
  OBVIOUS
<1>2. \A T \in SUBSET I : IsFiniteSet(T)
  BY FS_Subset
<1>3. {} \in P
  <2>1. Total(f, {}) = 0 /\ Total(g, {}) = 0 /\ Total(h, {}) = 0
    BY <1>2, TotalTakes
  <2> QED
    BY <1>1, <2>1
<1>6. \A T \in SUBSET I : Total(f, T) \in Int /\ Total(g, T) \in Int
  BY TotalIsInt
<1>4. ASSUME NEW T \in SUBSET I, T # {}, \A x \in T : T \ {x} \in P
      PROVE  T \in P
  <2>1. PICK R \in SUBSET I : R = T \ {One(T)}
    OBVIOUS
  <2>2. /\ One(T) \in T /\ Total(f, T) = f[One(T)] + Total(f, R)
        /\ Total(g, T) = g[One(T)] + Total(g, R) /\ Total(h, T) = h[One(T)] + Total(h, R)
    BY <1>2, <1>4, <2>1, TotalTakes
  <2>3. R \in P
    BY <1>4, <2>1, <2>2
  <2>4. Total(h, R) = Total(f, R) - Total(g, R)
    BY <1>1, <2>3
  <2>5. f[One(T)] \in Int /\ g[One(T)] \in Int /\ h[One(T)] = f[One(T)] - g[One(T)]
    BY <2>2
  <2>6. Total(f, R) \in Int /\ Total(g, R) \in Int
    BY <1>6, <2>1
  <2>7. Total(h, T) = Total(f, T) - Total(g, T)
    BY <2>2, <2>4, <2>5, <2>6
  <2> QED
    BY <1>1, <2>7
<1>5. \A T \in SUBSET I : T \in P
  BY <1>3, <1>4, PartByPart
<1> QED
  BY <1>1, <1>5

(* Finite sets of numbers that are not empty have a least member.          *)
LEMMA MinOf ==
    ASSUME NEW S, IsFiniteSet(S), S \subseteq Int, S # {}
    PROVE  Min(S) \in S /\ \A y \in S : Min(S) <= y
<1>1. PICK P : P = {T \in SUBSET S : T = {} \/ \E m \in T : \A y \in T : m <= y}
  OBVIOUS
<1>2. {} \in P
  BY <1>1
<1>3. ASSUME NEW T \in SUBSET S, T # {}, \A x \in T : T \ {x} \in P
      PROVE  T \in P
  <2>1. PICK x \in T : TRUE
    BY <1>3
  <2>2. CASE T \ {x} = {}
    <3>1. \A y \in T : x <= y
      BY <2>2
    <3> QED
      BY <1>1, <3>1
  <2>3. CASE T \ {x} # {}
    <3>1. PICK m \in T \ {x} : \A y \in T \ {x} : m <= y
      BY <1>1, <1>3, <2>3
    <3>2. x \in Int /\ m \in Int /\ T \subseteq Int
      OBVIOUS
    <3>3. CASE x <= m
      <4>1. \A y \in T : x <= y
        BY <3>1, <3>2, <3>3
      <4> QED
        BY <1>1, <4>1
    <3>4. CASE ~ (x <= m)
      <4>1. \A y \in T : m <= y
        BY <3>1, <3>2, <3>4
      <4> QED
        BY <1>1, <4>1
    <3> QED
      BY <3>3, <3>4
  <2> QED
    BY <2>2, <2>3
<1>4. \A T \in SUBSET S : T \in P
  BY <1>2, <1>3, PartByPart
<1>5. \E m \in S : \A y \in S : m <= y
  BY <1>1, <1>4
<1> QED
  BY <1>5 DEF Min

-----------------------------------------------------------------------------
(* The water-fill *)

(* What a rounded division leaves, and that the product is never exceeded. *)
LEMMA Quotients ==
    \A a \in Int, b \in Nat \ {0} :
       /\ a \div b \in Int /\ a % b \in 0 .. b - 1
       /\ a = b * (a \div b) + (a % b) /\ b * (a \div b) <= a
<1>1. \A a \in Int, b \in Nat \ {0} : a \div b \in Int
  OBVIOUS
<1>2. \A a \in Int, b \in Nat \ {0} : a % b \in 0 .. b - 1
  OBVIOUS
<1>3. \A a \in Int, b \in Nat \ {0} : a = b * (a \div b) + (a % b)
  OBVIOUS
<1>4. \A a \in Int, b \in Nat \ {0} : b * (a \div b) <= a
  OBVIOUS
<1> QED
  BY <1>1, <1>2, <1>3, <1>4

(* What the turns of the fill go over, and that they are defined.          *)
Filled(fill, I) == fill.left \in Int /\ \A i \in I : fill.alloc[i] \in Int

Empty(I, total) == [alloc |-> [i \in I |-> 0], left |-> total]

Fills(I, cap, weight, total, n, g) ==
    g = [k \in 0 .. n |-> IF k = 0 THEN Empty(I, total) ELSE FillPass(g[k - 1], I, cap, weight)]

(* The water-fill is the last turn of any function that takes its turns.   *)
LEMMA WaterFillIs ==
    \A I, cap, weight, total :
       WaterFill(I, cap, weight, total)
       = (CHOOSE g : Fills(I, cap, weight, total, Cardinality(I) + 2, g))[Cardinality(I) + 2].alloc
  BY Zenon DEF WaterFill, Fills, Empty

(* There is a function that takes the turns.                               *)
LEMMA FillsExist ==
    ASSUME NEW I, NEW cap, NEW weight, NEW total
    PROVE  \A n \in Nat : \E g : Fills(I, cap, weight, total, n, g)
<1>1. PICK S : S = {n \in Nat : \E g : Fills(I, cap, weight, total, n, g)}
  OBVIOUS
<1>2. 0 \in S
  <2>1. PICK g : g = [k \in 0 .. 0 |-> Empty(I, total)]
    OBVIOUS
  <2>2. \A k \in 0 .. 0 : k = 0
    OBVIOUS
  <2>3. Fills(I, cap, weight, total, 0, g)
    BY <2>1, <2>2, Zenon DEF Fills
  <2> QED
    BY <1>1, <2>3
<1>3. ASSUME NEW n \in Nat, n \in S PROVE n + 1 \in S
  <2>1. PICK g : Fills(I, cap, weight, total, n, g)
    BY <1>1, <1>3
  <2>2. PICK h : h = [k \in 0 .. n + 1 |-> IF k = 0 THEN Empty(I, total)
                                             ELSE FillPass(g[k - 1], I, cap, weight)]
    OBVIOUS
  <2>3. \A k \in 0 .. n : h[k] = g[k]
    <3>1. \A k \in 0 .. n : k \in 0 .. n + 1
      OBVIOUS
    <3> QED
      BY <2>1, <2>2, <3>1, Zenon DEF Fills
  <2>4. \A k \in 0 .. n + 1 : k # 0 => h[k - 1] = g[k - 1]
    <3>1. \A k \in 0 .. n + 1 : k # 0 => k - 1 \in 0 .. n
      OBVIOUS
    <3> QED
      BY <2>3, <3>1, Zenon
  <2>5. Fills(I, cap, weight, total, n + 1, h)
    <3>1. h = [k \in 0 .. n + 1 |-> IF k = 0 THEN Empty(I, total)
                                    ELSE FillPass(h[k - 1], I, cap, weight)]
      BY <2>2, <2>4, Zenon
    <3> QED
      BY <3>1 DEF Fills
  <2> QED
    BY <1>1, <2>5
<1>4. \A n \in Nat : n \in S
  BY <1>2, <1>3, Successors
<1> QED
  BY <1>1, <1>4

(* The weights of a turn do not sum up to zero, as it divides by the sum.  *)
LEMMA WeightsCount ==
    ASSUME NEW A, IsFiniteSet(A), A # {}, NEW weight, \A i \in A : weight[i] \in Nat,
           NEW w, w = WeightsIn(A, weight)
    PROVE  /\ \A i \in A : w[i] \in Nat
           /\ Total(w, A) \in Nat \ {0}
<1>1. CASE Total(weight, A) = 0
  <2>1. w = [i \in A |-> 1]
    BY <1>1 DEF WeightsIn
  <2>2. \A i \in A : w[i] = 1
    BY <2>1
  <2>3. PICK R \in SUBSET A : R = A \ {One(A)}
    OBVIOUS
  <2>4. One(A) \in A /\ Total(w, A) = w[One(A)] + Total(w, R)
    BY <2>3, TotalTakes
  <2>5. Total(w, R) \in Nat
    BY <2>2, TotalIsNat
  <2> QED
    BY <2>2, <2>4, <2>5
<1>2. CASE Total(weight, A) # 0
  <2>1. w = [i \in A |-> weight[i]]
    BY <1>2 DEF WeightsIn
  <2>2. \A i \in A : w[i] = weight[i] /\ w[i] \in Nat
    BY <2>1
  <2>3. Total(w, A) \in Nat /\ Total(weight, A) \in Nat
    BY <2>2, TotalIsNat
  <2>4. \A i \in A : weight[i] \in Int /\ w[i] \in Int /\ weight[i] * 1 <= w[i] * 1 + w[i] * 0
    BY <2>2
  <2>5. Total(weight, A) * 1 <= Total(w, A) * 1 + Total(w, A) * 0
    BY <2>4, TotalAtMost
  <2> QED
    BY <1>2, <2>2, <2>3, <2>5
<1> QED
  BY <1>1, <1>2

(* A turn leaves integers, and divides by no sum of weights that is zero.  *)
LEMMA FillPassFills ==
    ASSUME NEW I, IsFiniteSet(I), NEW cap, NEW weight, NEW fill, Filled(fill, I),
           \A i \in I : cap[i] \in Int /\ weight[i] \in Nat
    PROVE  Filled(FillPass(fill, I, cap, weight), I)
<1>1. PICK A : A = Active(fill, I, cap)
  OBVIOUS
<1>2. PICK w : w = WeightsIn(A, weight)
  OBVIOUS
<1>3. PICK sum : sum = Total(w, A)
  OBVIOUS
<1>4. PICK B : B = {j \in A : w[j] > 0}
  OBVIOUS
<1>5. PICK ends : ends = {Threshold(i, fill, cap, w, sum) : i \in B}
  OBVIOUS
<1>6. PICK give : give = Min(ends \cup {fill.left})
  OBVIOUS
<1>7. PICK alloc : alloc = [i \in I |-> fill.alloc[i] + (IF i \in A THEN (give * w[i]) \div sum ELSE 0)]
  OBVIOUS
<1>8. FillPass(fill, I, cap, weight)
      = IF fill.left = 0 \/ A = {} THEN fill ELSE [alloc |-> alloc, left |-> fill.left - give]
  BY <1>1, <1>2, <1>3, <1>4, <1>5, <1>6, <1>7, Zenon DEF FillPass
<1>9. CASE fill.left = 0 \/ A = {}
  BY <1>8, <1>9
<1>10. CASE ~ (fill.left = 0 \/ A = {})
  <2>1. A \subseteq I /\ B \subseteq A /\ IsFiniteSet(A) /\ IsFiniteSet(B)
    <3>1. A \subseteq I /\ B \subseteq A
      BY <1>1, <1>4 DEF Active
    <3> QED
      BY <3>1, FS_Subset
  <2>2. (\A i \in A : w[i] \in Nat) /\ sum \in Nat \ {0}
    BY <1>2, <1>3, <1>10, <2>1, WeightsCount
  <2>3. ASSUME NEW i \in B PROVE Threshold(i, fill, cap, w, sum) \in Int
    <3>1. w[i] \in Nat \ {0} /\ fill.alloc[i] \in Int /\ cap[i] \in Int
      BY <1>4, <2>1, <2>2 DEF Filled
    <3>2. (cap[i] - fill.alloc[i]) * sum \in Int
      BY <2>2, <3>1
    <3> QED
      BY <3>1, <3>2, Quotients DEF Threshold
  <2>4. IsFiniteSet(ends)
    <3>1. PICK f : f = [i \in B |-> Threshold(i, fill, cap, w, sum)]
      OBVIOUS
    <3>2. ends = {f[i] : i \in B}
      BY <1>5, <3>1
    <3>3. f \in Surjection(B, ends)
      BY <3>1, <3>2 DEF Surjection
    <3> QED
      BY <2>1, <3>3, FS_Surjection DEF ExistsSurjection
  <2>5. give \in Int
    <3>1. PICK E : E = ends \cup {fill.left}
      OBVIOUS
    <3>2. IsFiniteSet(E)
      BY <2>4, <3>1, FS_AddElement
    <3>3. E \subseteq Int
      BY <1>5, <2>3, <3>1 DEF Filled
    <3> QED
      BY <1>6, <3>1, <3>2, <3>3, MinOf
  <2>6. ASSUME NEW i \in I PROVE alloc[i] \in Int
    <3>1. alloc[i] = fill.alloc[i] + (IF i \in A THEN (give * w[i]) \div sum ELSE 0)
      BY <1>7
    <3>2. CASE i \in A
      <4>1. give * w[i] \in Int
        BY <2>2, <2>5, <3>2
      <4>2. (give * w[i]) \div sum \in Int
        BY <2>2, <4>1, Quotients
      <4> QED
        BY <3>1, <3>2, <4>2 DEF Filled
    <3>3. CASE i \notin A
      BY <3>1, <3>3 DEF Filled
    <3> QED
      BY <3>2, <3>3
  <2>7. fill.left - give \in Int
    BY <2>5 DEF Filled
  <2>8. PICK after : after = [alloc |-> alloc, left |-> fill.left - give]
    OBVIOUS
  <2>9. after.alloc = alloc /\ after.left = fill.left - give
    BY <2>8
  <2>10. Filled(after, I)
    BY <2>6, <2>7, <2>9 DEF Filled
  <2> QED
    BY <1>8, <1>10, <2>8, <2>10
<1> QED
  BY <1>9, <1>10

(* So the shares are integers, which is all that the bound on the profiles *)
(* asks of them.                                                           *)
LEMMA WaterFillFills ==
    ASSUME NEW I, IsFiniteSet(I), NEW cap, NEW weight, NEW total \in Int,
           \A i \in I : cap[i] \in Int /\ weight[i] \in Nat
    PROVE  \A i \in I : WaterFill(I, cap, weight, total)[i] \in Int
<1>1. PICK n \in Nat : n = Cardinality(I) + 2
  BY FS_CardinalityType
<1>2. PICK g : g = CHOOSE h : Fills(I, cap, weight, total, n, h)
  OBVIOUS
<1>3. Fills(I, cap, weight, total, n, g)
  BY <1>1, <1>2, FillsExist
<1>4. WaterFill(I, cap, weight, total) = g[n].alloc
  BY <1>1, <1>2, WaterFillIs
<1>5. \A k \in 0 .. n : g[k] = IF k = 0 THEN Empty(I, total) ELSE FillPass(g[k - 1], I, cap, weight)
  BY <1>3, Zenon DEF Fills
<1>6. PICK S : S = {k \in Nat : k <= n => Filled(g[k], I)}
  OBVIOUS
<1>7. 0 \in S
  <2>1. g[0] = Empty(I, total)
    BY <1>5
  <2>2. Filled(Empty(I, total), I)
    BY DEF Filled, Empty
  <2> QED
    BY <1>6, <2>1, <2>2
<1>8. ASSUME NEW k \in Nat, k \in S PROVE k + 1 \in S
  <2> SUFFICES ASSUME k + 1 <= n PROVE Filled(g[k + 1], I)
    BY <1>6
  <2>1. k <= n /\ k + 1 \in 0 .. n /\ k + 1 # 0 /\ (k + 1) - 1 = k
    OBVIOUS
  <2>2. Filled(g[k], I)
    BY <1>6, <1>8, <2>1
  <2>3. g[k + 1] = FillPass(g[k], I, cap, weight)
    BY <1>5, <2>1
  <2>4. Filled(FillPass(g[k], I, cap, weight), I)
    BY <2>2, FillPassFills
  <2> QED
    BY <2>3, <2>4
<1>9. \A k \in Nat : k \in S
  BY <1>7, <1>8, Successors
<1>10. Filled(g[n], I)
  BY <1>6, <1>9
<1> QED
  BY <1>4, <1>10 DEF Filled

-----------------------------------------------------------------------------
(* Profiles and the grid *)

(* The least and the greatest of two numbers.                              *)
LEMMA TwoOf ==
    \A a, b \in Int : /\ Min({a, b}) = IF a <= b THEN a ELSE b
                      /\ Max({a, b}) = IF a >= b THEN a ELSE b
<1> SUFFICES ASSUME NEW a \in Int, NEW b \in Int
             PROVE  /\ Min({a, b}) = IF a <= b THEN a ELSE b
                    /\ Max({a, b}) = IF a >= b THEN a ELSE b
  OBVIOUS
<1>1. Min({a, b}) \in {a, b} /\ \A y \in {a, b} : Min({a, b}) <= y
  <2>1. \E m \in {a, b} : \A y \in {a, b} : m <= y
    OBVIOUS
  <2> QED
    BY <2>1 DEF Min
<1>2. Max({a, b}) \in {a, b} /\ \A y \in {a, b} : Max({a, b}) >= y
  <2>1. \E m \in {a, b} : \A y \in {a, b} : m >= y
    OBVIOUS
  <2> QED
    BY <2>1 DEF Max
<1> QED
  BY <1>1, <1>2

LEMMA Products ==
    /\ \A a, b \in Int, d \in Nat \ {0} : d * a <= d * b => a <= b
    /\ \A a, b \in Int, d \in Nat \ {0} : a <= b => d * a <= d * b
    /\ \A a, b \in Int, d \in Nat \ {0} : d * a = d * b => a = b
    /\ \A a, b \in Int : a * b \in Int
<1>1. \A a, b \in Int, d \in Nat \ {0} : d * a <= d * b => a <= b
  OBVIOUS
<1>2. \A a, b \in Int, d \in Nat \ {0} : a <= b => d * a <= d * b
  OBVIOUS
<1>3. \A a, b \in Int, d \in Nat \ {0} : d * a = d * b => a = b
  OBVIOUS
<1> QED
  BY <1>1, <1>2, <1>3

(* Rounding down to hundredths may lose one and wins none.                 *)
LEMMA Rounds ==
    ASSUME NEW n \in Int, NEW d \in Nat \ {0}
    PROVE  /\ Floor2(n, d) \in Int /\ d * Floor2(n, d) <= n
           /\ \A k \in Int : d * k <= n => k - 1 <= Floor2(n, d)
           /\ n >= 0 => Floor2(n, d) >= 0
<1>1. PICK k \in Int : k = n \div d
  BY Quotients
<1>2. PICK r \in 0 .. d - 1 : r = n % d
  BY Quotients
<1>3. n = d * k + r /\ d * k <= n
  BY <1>1, <1>2, Quotients
<1>4. Floor2(n, d) = IF r = 0 /\ k \in Slips THEN k - 1 ELSE k
  BY <1>1, <1>2 DEF Floor2
<1>5. d * (k - 1) <= n
  BY <1>3
<1>6. ASSUME NEW j \in Int, d * j <= n PROVE j <= k
  <2>1. d * j < d * k + d
    BY <1>2, <1>3, <1>6
  <2>2. d * k + d = d * (k + 1)
    OBVIOUS
  <2>3. ~ (k + 1 <= j)
    BY <2>1, <2>2, Products
  <2> QED
    BY <2>3
<1>7. ASSUME n >= 0 PROVE k >= 0 /\ Floor2(n, d) >= 0
  <2>1. d * 0 <= n
    BY <1>7
  <2>2. k >= 0
    BY <1>6, <2>1
  <2> QED
    BY <1>4, <2>2, SlipsAssumption
<1> QED
  BY <1>3, <1>4, <1>5, <1>6, <1>7

(* Rounding down twice does not turn an order round.                       *)
LEMMA RoundsInOrder ==
    ASSUME NEW n \in Int, NEW m \in Int, n <= m, NEW d \in Nat \ {0}
    PROVE  Floor2(n, d) <= Floor2(m, d)
<1>1. PICK k \in Int : k = n \div d
  BY Quotients
<1>2. PICK r \in 0 .. d - 1 : r = n % d
  BY Quotients
<1>3. PICK j \in Int : j = m \div d
  BY Quotients
<1>4. PICK q \in 0 .. d - 1 : q = m % d
  BY Quotients
<1>5. n = d * k + r /\ m = d * j + q
  BY <1>1, <1>2, <1>3, <1>4, Quotients
<1>6. /\ Floor2(n, d) = IF r = 0 /\ k \in Slips THEN k - 1 ELSE k
      /\ Floor2(m, d) = IF q = 0 /\ j \in Slips THEN j - 1 ELSE j
  BY <1>1, <1>2, <1>3, <1>4 DEF Floor2
<1>7. k <= j
  <2>1. d * k < d * j + d
    BY <1>5
  <2>2. d * j + d = d * (j + 1)
    OBVIOUS
  <2>3. ~ (j + 1 <= k)
    BY <2>1, <2>2, Products
  <2> QED
    BY <2>3
<1>8. CASE k < j
  BY <1>6, <1>8
<1>9. CASE k = j
  <2>1. r <= q
    BY <1>5, <1>9
  <2> QED
    BY <1>6, <1>9, <2>1
<1> QED
  BY <1>7, <1>8, <1>9

(* A profile is between its minimum and the cap, whatever the share.       *)
LEMMA ProfilesFit ==
    ASSUME NEW s \in [cap : Nat, min : Nat, priority : Nat], NEW share \in Int
    PROVE  /\ BuildProfile(s, share).kw \in Nat /\ BuildProfile(s, share).min \in Nat
           /\ BuildProfile(s, share).min <= BuildProfile(s, share).kw
           /\ BuildProfile(s, share).kw <= s.cap
<1>1. s.cap \in Nat /\ s.min \in Nat
  OBVIOUS
<1>2. PICK e \in Nat : e = EffectiveMin(s) /\ e <= s.cap
  BY <1>1, TwoOf DEF EffectiveMin
<1>3. PICK P \in Nat \ {0} : P = Parts
  BY PartsAssumption
<1>4. PICK lo \in Nat : lo = e * P
  BY <1>2, <1>3
<1>5. PICK hi \in Nat : hi = s.cap * P
  BY <1>1, <1>3
<1>6. lo <= hi
  <2>1. P * e <= P * s.cap
    BY <1>1, <1>2, Products
  <2> QED
    BY <1>1, <1>4, <1>5, <2>1
<1>7. PICK x \in Int : x = Min({Max({share, lo}), hi}) /\ lo <= x /\ x <= hi
  <2>1. lo \in Int /\ hi \in Int /\ share \in Int
    OBVIOUS
  <2>2. Max({share, lo}) = IF share >= lo THEN share ELSE lo
    BY <2>1, TwoOf
  <2>3. PICK y : y = Max({share, lo})
    OBVIOUS
  <2>4. y \in Int /\ lo <= y
    BY <2>1, <2>2, <2>3
  <2>5. Min({y, hi}) = IF y <= hi THEN y ELSE hi
    BY <2>1, <2>4, TwoOf
  <2>6. Min({y, hi}) \in Int /\ lo <= Min({y, hi}) /\ Min({y, hi}) <= hi
    BY <1>6, <2>1, <2>4, <2>5
  <2> QED
    BY <2>3, <2>6
<1>8. /\ BuildProfile(s, share).kw = Floor2(x, P)
      /\ BuildProfile(s, share).min = Floor2(lo, P)
  BY <1>2, <1>3, <1>4, <1>5, <1>7 DEF BuildProfile
<1>9. Floor2(lo, P) \in Nat /\ Floor2(lo, P) <= Floor2(x, P) /\ Floor2(x, P) \in Int
  BY <1>7, Rounds, RoundsInOrder
<1>10. Floor2(x, P) <= s.cap
  <2>1. P * Floor2(x, P) <= x
    BY <1>7, Rounds
  <2>2. x <= P * s.cap
    BY <1>1, <1>5, <1>7
  <2>3. P * Floor2(x, P) <= P * s.cap
    BY <1>1, <1>7, <1>9, <2>1, <2>2
  <2> QED
    BY <1>1, <1>9, <2>3, Products
<1> QED
  BY <1>8, <1>9, <1>10

(* What enforceGridBudget makes of profiles: none of them grows, and their *)
(* sum fits.                                                               *)
Profiles(p, D) ==
    /\ DOMAIN p = D
    /\ \A i \in D : p[i].kw \in Nat /\ p[i].min \in Nat /\ p[i].min <= p[i].kw

Fit(p, q, D, limit) ==
    /\ DOMAIN q = D /\ Total(Kw(q), D) * Parts <= limit
    /\ \A i \in D : /\ q[i].kw \in Int /\ q[i].kw <= p[i].kw
                    /\ Feasible(q, limit) => q[i].kw >= q[i].min - 1

(* The sums of the powers and of the minimum rates of profiles.            *)
LEMMA ProfileTotals ==
    ASSUME NEW p, NEW D, IsFiniteSet(D), Profiles(p, D)
    PROVE  /\ \A i \in D : Kw(p)[i] = p[i].kw /\ Floors(p)[i] = p[i].min
           /\ Total(Kw(p), D) \in Nat /\ Total(Floors(p), D) \in Nat
<1>1. \A i \in D : Kw(p)[i] = p[i].kw /\ Floors(p)[i] = p[i].min
  BY DEF Kw, Floors, Profiles
<1>2. \A i \in D : Kw(p)[i] \in Nat /\ Floors(p)[i] \in Nat
  BY <1>1 DEF Profiles
<1>3. Total(Kw(p), D) \in Nat /\ Total(Floors(p), D) \in Nat
  BY <1>2, TotalIsNat
<1> QED
  BY <1>1, <1>3

(* Scaling down to the limit brings the sum below it.                      *)
LEMMA Shrinks ==
    ASSUME NEW p, NEW D, IsFiniteSet(D), Profiles(p, D), NEW limit \in Nat,
           NEW q, q = EnforceGridBudget(p, limit), ~ (Total(Kw(p), D) * Parts <= limit),
           ~ Feasible(p, limit)
    PROVE  Fit(p, q, D, limit)
<1>1. PICK P \in Nat \ {0} : P = Parts
  BY PartsAssumption
<1>2. PICK T \in Nat : T = Total(Kw(p), D)
  BY ProfileTotals
<1>3. PICK den \in Nat \ {0} : den = T * P /\ limit < den
  <2>1. T * P \in Nat /\ limit < T * P
    BY <1>1, <1>2
  <2> QED
    BY <2>1
<1>4. /\ DOMAIN q = D
      /\ \A i \in D : q[i].kw = Scaled(p, i, limit) /\ q[i].min = p[i].min
  BY DEF EnforceGridBudget, Profiles
<1>5. \A i \in D : p[i].kw \in Nat
  BY DEF Profiles
<1>6. ASSUME NEW i \in D
      PROVE  /\ q[i].kw \in Nat /\ den * q[i].kw <= p[i].kw * limit
             /\ q[i].kw <= p[i].kw
  <2>1. PICK k \in Nat : k = p[i].kw
    BY <1>5
  <2>2. PICK n \in Nat : n = k * limit
    OBVIOUS
  <2>3. q[i].kw = Floor2(n, den)
    BY <1>1, <1>2, <1>3, <1>4, <2>1, <2>2 DEF Scaled, Profiles
  <2>4. Floor2(n, den) \in Nat /\ den * Floor2(n, den) <= n
    BY Rounds
  <2>5. n <= den * k
    <3>1. k * limit <= k * den
      BY <1>3
    <3>2. k * den = den * k
      BY <1>3
    <3> QED
      BY <2>2, <3>1, <3>2
  <2>6. den * Floor2(n, den) <= den * k
    BY <2>4, <2>5
  <2>7. Floor2(n, den) <= k
    BY <2>4, <2>6, Products
  <2> QED
    BY <2>1, <2>2, <2>3, <2>4, <2>7
<1>7. \A i \in D : Kw(q)[i] = q[i].kw /\ Kw(p)[i] = p[i].kw
  BY <1>4 DEF Kw, Profiles
<1>8. PICK S \in Nat : S = Total(Kw(q), D)
  <2>1. \A i \in D : Kw(q)[i] \in Nat
    BY <1>6, <1>7
  <2> QED
    BY <2>1, TotalIsNat
<1>9. S * den <= T * limit
  <2>1. \A i \in D : Kw(q)[i] \in Int /\ Kw(p)[i] \in Int /\ Kw(q)[i] * den <= Kw(p)[i] * limit + Kw(p)[i] * 0
    <3> SUFFICES ASSUME NEW i \in D
                 PROVE  Kw(q)[i] \in Int /\ Kw(p)[i] \in Int /\ Kw(q)[i] * den <= Kw(p)[i] * limit + Kw(p)[i] * 0
      OBVIOUS
    <3>1. PICK a \in Nat, b \in Nat : a = q[i].kw /\ b = p[i].kw /\ den * a <= b * limit
      BY <1>5, <1>6
    <3>2. a * den <= b * limit + b * 0
      BY <1>3, <3>1
    <3> QED
      BY <1>7, <3>1, <3>2
  <2>2. Total(Kw(q), D) * den <= Total(Kw(p), D) * limit + Total(Kw(p), D) * 0
    <3>1. den \in Int /\ limit \in Int /\ 0 \in Int
      OBVIOUS
    <3> QED
      BY <2>1, <3>1, TotalAtMost, Zenon
  <2> QED
    BY <1>2, <1>8, <2>2
<1>10. S * P <= limit
  <2>1. T \in Nat \ {0}
    BY <1>1, <1>3
  <2>2. S * den = T * (S * P)
    BY <1>1, <1>3
  <2>3. T * (S * P) <= T * limit
    BY <1>9, <2>2
  <2>4. S * P \in Int
    BY <1>1
  <2> QED
    BY <2>1, <2>3, <2>4, Products
<1>11. ~ Feasible(q, limit)
  <2>1. Floors(q) = Floors(p) /\ DOMAIN q = DOMAIN p
    BY <1>4 DEF Floors, Profiles
  <2> QED
    BY <2>1 DEF Feasible
<1> QED
  BY <1>1, <1>4, <1>6, <1>8, <1>10, <1>11 DEF Fit

(* Where the minimum rates fit, what is above them is scaled down alone.   *)
LEMMA ShrinksToFloors ==
    ASSUME NEW p, NEW D, IsFiniteSet(D), Profiles(p, D), NEW limit \in Nat,
           NEW q, q = EnforceGridBudget(p, limit), ~ (Total(Kw(p), D) * Parts <= limit),
           Feasible(p, limit)
    PROVE  Fit(p, q, D, limit)
<1>1. PICK P \in Nat \ {0} : P = Parts
  BY PartsAssumption
<1>2. PICK T \in Nat, F \in Nat : T = Total(Kw(p), D) /\ F = Total(Floors(p), D)
  BY ProfileTotals
<1>3. F * P <= limit /\ limit < T * P
  <2>1. DOMAIN p = D
    BY DEF Profiles
  <2> QED
    BY <1>1, <1>2, <2>1 DEF Feasible
<1>4. PICK rest \in Nat \ {0} : rest = T - F
  <2>1. P * F < P * T
    BY <1>1, <1>2, <1>3
  <2>2. ~ (T <= F)
    <3>1. T <= F => P * T <= P * F
      BY <1>1, Products
    <3> QED
      BY <1>1, <2>1, <3>1
  <2> QED
    BY <2>2
<1>5. PICK den \in Nat \ {0} : den = rest * P
  <2>1. rest * P \in Nat \ {0}
    BY <1>1, <1>4
  <2> QED
    BY <2>1
<1>6. PICK room \in Nat : room = limit - (F * P) /\ room <= den
  <2>1. PICK fp \in Nat, tp \in Nat : fp = F * P /\ tp = T * P
    BY <1>1
  <2>2. den = tp - fp
    BY <1>1, <1>4, <1>5, <2>1
  <2> QED
    BY <1>3, <2>1, <2>2
<1>7. /\ DOMAIN q = D
      /\ \A i \in D : q[i].kw = Scaled(p, i, limit) /\ q[i].min = p[i].min
  BY DEF EnforceGridBudget, Profiles
<1>8. \A i \in D : p[i].kw \in Nat /\ p[i].min \in Nat /\ p[i].min <= p[i].kw
  BY DEF Profiles
<1>9. PICK above : above = [i \in D |-> p[i].kw - p[i].min]
  OBVIOUS
<1>10. \A i \in D : above[i] = p[i].kw - p[i].min /\ above[i] \in Nat
  BY <1>8, <1>9
<1>11. ASSUME NEW i \in D
       PROVE  /\ q[i].kw \in Int /\ q[i].kw * den <= p[i].min * den + above[i] * room
              /\ q[i].kw <= p[i].kw /\ q[i].kw >= p[i].min - 1
  <2>1. PICK k \in Nat, m \in Nat, b \in Nat : k = p[i].kw /\ m = p[i].min /\ b = above[i] /\ b = k - m
    BY <1>8, <1>10
  <2>2. PICK n \in Int : n = (m * den) + (b * room)
    BY <1>5, <1>6
  <2>3. Max({0, k - m}) = b
    <3>1. k - m \in Int /\ k - m >= 0
      BY <2>1
    <3>2. Max({0, k - m}) = IF 0 >= k - m THEN 0 ELSE k - m
      <4>1. 0 \in Int
        OBVIOUS
      <4> QED
        BY <3>1, <4>1, TwoOf, Zenon
    <3> QED
      BY <2>1, <3>1, <3>2
  <2>4. Scaled(p, i, limit) = Floor2((m * rest * P) + (b * (limit - (F * P))), rest * P)
    <3>1. DOMAIN p = D /\ rest # 0 /\ Total(Kw(p), DOMAIN p) - Total(Floors(p), DOMAIN p) = rest
      BY <1>2, <1>4 DEF Profiles
    <3> QED
      BY <1>1, <1>2, <2>1, <2>3, <3>1, Zenon DEF Scaled
  <2>5. m * rest * P = m * den
    BY <1>1, <1>4, <1>5
  <2>6. q[i].kw = Floor2(n, den)
    BY <1>5, <1>6, <1>7, <2>2, <2>4, <2>5
  <2>7. Floor2(n, den) \in Int /\ den * Floor2(n, den) <= n
    BY Rounds
  <2>8. n <= den * k
    <3>1. b * room <= b * den
      BY <1>5, <1>6
    <3>2. (m * den) + (b * den) = den * k
      BY <1>5, <2>1
    <3>3. m * den \in Int /\ b * room \in Int /\ b * den \in Int /\ den * k \in Int
      OBVIOUS
    <3> QED
      BY <2>2, <3>1, <3>2, <3>3
  <2>9. Floor2(n, den) <= k
    <3>1. den * Floor2(n, den) <= den * k
      <4>1. den * Floor2(n, den) \in Int /\ den * k \in Int
        BY <2>7
      <4> QED
        BY <2>7, <2>8, <4>1
    <3> QED
      BY <2>7, <3>1, Products
  <2>10. m - 1 <= Floor2(n, den)
    <3>1. den * m <= n
      <4>1. b * room \in Nat
        OBVIOUS
      <4> QED
        BY <2>2, <4>1
    <3> QED
      BY <3>1, Rounds
  <2>11. Floor2(n, den) * den <= m * den + b * room
    <3>1. Floor2(n, den) * den = den * Floor2(n, den)
      BY <2>7
    <3> QED
      BY <2>2, <2>7, <3>1
  <2> QED
    BY <2>1, <2>6, <2>7, <2>9, <2>10, <2>11
<1>12. \A i \in D : Kw(q)[i] = q[i].kw /\ Kw(p)[i] = p[i].kw /\ Floors(p)[i] = p[i].min
  BY <1>7 DEF Kw, Floors, Profiles
<1>13. PICK S \in Int : S = Total(Kw(q), D)
  <2>1. \A i \in D : Kw(q)[i] \in Int
    BY <1>11, <1>12
  <2> QED
    BY <2>1, TotalIsInt
<1>14. S * den <= F * den + rest * room
  <2>1. \A i \in D : /\ Kw(q)[i] \in Int /\ Floors(p)[i] \in Int /\ above[i] \in Int
                     /\ Kw(q)[i] * den <= Floors(p)[i] * den + above[i] * room
    BY <1>8, <1>10, <1>11, <1>12
  <2>2. Total(Kw(q), D) * den <= Total(Floors(p), D) * den + Total(above, D) * room
    <3>1. den \in Int /\ room \in Int
      OBVIOUS
    <3> QED
      BY <2>1, <3>1, TotalAtMost, Zenon
  <2>3. Total(above, D) = Total(Kw(p), D) - Total(Floors(p), D)
    <3>1. \A i \in D : Kw(p)[i] \in Int /\ Floors(p)[i] \in Int /\ above[i] = Kw(p)[i] - Floors(p)[i]
      BY <1>8, <1>10, <1>12
    <3> QED
      BY <3>1, TotalOfBoth
  <2> QED
    BY <1>2, <1>4, <1>13, <2>2, <2>3
<1>15. S * P <= limit
  <2>1. S * den = rest * (S * P) /\ F * den = rest * (F * P)
    BY <1>1, <1>4, <1>5
  <2>2. PICK sp \in Int, fp \in Int : sp = S * P /\ fp = F * P
    BY <1>1
  <2>3. rest * sp <= rest * fp + rest * room
    BY <1>14, <2>1, <2>2
  <2>4. rest * fp + rest * room = rest * (fp + room)
    OBVIOUS
  <2>5. sp <= fp + room
    BY <2>2, <2>3, <2>4, Products
  <2> QED
    BY <1>6, <2>2, <2>5
<1> QED
  BY <1>1, <1>7, <1>11, <1>13, <1>15 DEF Fit

(* Whatever the strategy gave, the profiles that go out fit the grid.      *)
LEMMA Enforced ==
    ASSUME NEW p, NEW D, IsFiniteSet(D), Profiles(p, D), NEW limit \in Nat
    PROVE  Fit(p, EnforceGridBudget(p, limit), D, limit)
<1>1. PICK q : q = EnforceGridBudget(p, limit)
  OBVIOUS
<1>2. CASE Total(Kw(p), D) * Parts <= limit
  <2>1. q = p
    BY <1>1, <1>2 DEF EnforceGridBudget, Profiles
  <2>2. \A i \in D : p[i].kw \in Int /\ p[i].kw <= p[i].kw /\ p[i].kw >= p[i].min - 1
    BY DEF Profiles
  <2>3. DOMAIN p = D
    BY DEF Profiles
  <2> QED
    BY <1>1, <1>2, <2>1, <2>2, <2>3, Zenon DEF Fit
<1> QED
  BY <1>1, <1>2, Shrinks, ShrinksToFloors

(* What is read of sessions and settings in a state of the right types.    *)
LEMMA TypedEngine ==
    ASSUME TypeOK
    PROVE  /\ Present \subseteq Tx /\ IsFiniteSet(Present)
           /\ \A t \in Present : sessions[t] \in [cap : Nat, min : Nat, priority : Nat]
           /\ EffectiveLimit \in Nat /\ StrategyLimit \in Int
<1>1. Present \subseteq Tx /\ IsFiniteSet(Present)
  <2>1. Present \subseteq Tx
    BY DEF Present
  <2> QED
    BY <2>1, TermsAssumption, FS_Subset
<1>2. \A t \in Present : sessions[t] \in [cap : Nat, min : Nat, priority : Nat]
  <2>1. \A t \in Present : sessions[t] \in Terms
    BY DEF TypeOK, Present
  <2> QED
    BY <2>1, TermsAssumption
<1>3. EffectiveLimit \in Nat
  <2>1. PICK g \in Nat, f \in Nat, P \in Nat : g = grid /\ f = 100 - margin /\ P = Parts
    BY SettingsAssumption, PartsAssumption DEF TypeOK
  <2>2. g * f * P \in Nat
    OBVIOUS
  <2>3. (g * f * P) \div 100 \in Nat
    BY <2>2
  <2> QED
    BY <2>1, <2>3 DEF EffectiveLimit
<1>4. StrategyLimit \in Int
  <2>1. PICK L \in Nat, q \in Nat : L = EffectiveLimit /\ q = PeakPct
    BY <1>3, SettingsAssumption
  <2>2. L * q \in Nat
    OBVIOUS
  <2>3. (L * q) \div 100 \in Int
    BY <2>2
  <2> QED
    BY <2>1, <2>3 DEF StrategyLimit
<1> QED
  BY <1>1, <1>2, <1>3, <1>4

(* The shares that the profiles are built from are integers.               *)
LEMMA SharesAreNumbers ==
    ASSUME TypeOK
    PROVE  \A t \in Present : Shares[t] \in Int
<1>1. \A t \in Present : Caps[t] \in Int /\ Weights[t] \in Nat
  <2> SUFFICES ASSUME NEW t \in Present PROVE Caps[t] \in Int /\ Weights[t] \in Nat
    OBVIOUS
  <2>1. PICK s \in [cap : Nat, min : Nat, priority : Nat] : s = sessions[t]
    BY TypedEngine
  <2>2. s.cap \in Nat /\ s.priority \in Nat
    OBVIOUS
  <2>3. Caps[t] = s.cap * Parts /\ Weights[t] = IF strategy = "PRIORITY" THEN s.priority ELSE 1
    BY <2>1 DEF Caps, Weights
  <2> QED
    BY <2>2, <2>3, PartsAssumption
<1>2. PICK I : I = Present
  OBVIOUS
<1>3. PICK cap : cap = Caps
  OBVIOUS
<1>4. PICK weight : weight = Weights
  OBVIOUS
<1>5. PICK total \in Int : total = StrategyLimit
  BY TypedEngine
<1>6. IsFiniteSet(I)
  BY <1>2, TypedEngine
<1>7. \A i \in I : cap[i] \in Int /\ weight[i] \in Nat
  BY <1>1, <1>2, <1>3, <1>4
<1>8. \A i \in I : WaterFill(I, cap, weight, total)[i] \in Int
  BY <1>6, <1>7, WaterFillFills
<1> QED
  BY <1>2, <1>3, <1>4, <1>5, <1>8 DEF Shares

(* So in every state of the right types the run to come fits the grid.     *)
LEMMA OptimizedFits == TypeOK => WithinGrid
<1> SUFFICES ASSUME TypeOK PROVE WithinGrid
  OBVIOUS
<1>1. PICK D : D = Present
  OBVIOUS
<1>2. IsFiniteSet(D) /\ \A t \in D : sessions[t] \in [cap : Nat, min : Nat, priority : Nat]
  BY <1>1, TypedEngine
<1>3. PICK p : p = [t \in D |-> BuildProfile(sessions[t], Shares[t])]
  OBVIOUS
<1>4. PICK limit \in Nat : limit = EffectiveLimit
  BY TypedEngine
<1>5. \A t \in D : /\ p[t].kw \in Nat /\ p[t].min \in Nat
                   /\ p[t].min <= p[t].kw /\ p[t].kw <= sessions[t].cap
  <2> SUFFICES ASSUME NEW t \in D
               PROVE  /\ p[t].kw \in Nat /\ p[t].min \in Nat
                      /\ p[t].min <= p[t].kw /\ p[t].kw <= sessions[t].cap
    OBVIOUS
  <2>1. PICK s \in [cap : Nat, min : Nat, priority : Nat] : s = sessions[t]
    BY <1>2
  <2>2. PICK share \in Int : share = Shares[t]
    BY <1>1, SharesAreNumbers
  <2>3. p[t] = BuildProfile(s, share)
    BY <1>3, <2>1, <2>2
  <2> QED
    BY <2>1, <2>3, ProfilesFit
<1>6. Profiles(p, D)
  BY <1>3, <1>5 DEF Profiles
<1>7. PICK q : q = EnforceGridBudget(p, limit)
  OBVIOUS
<1>8. Fit(p, q, D, limit)
  BY <1>2, <1>6, <1>7, Enforced
<1>9. Optimized = q
  BY <1>1, <1>3, <1>4, <1>7 DEF Optimized
<1>10. \A t \in D : q[t].kw <= sessions[t].cap
  <2> SUFFICES ASSUME NEW t \in D PROVE q[t].kw <= sessions[t].cap
    OBVIOUS
  <2>1. PICK a \in Int, b \in Nat, c \in Nat : a = q[t].kw /\ b = p[t].kw /\ c = sessions[t].cap
    BY <1>2, <1>5, <1>8 DEF Fit
  <2>2. a <= b /\ b <= c
    BY <1>5, <1>8, <2>1 DEF Fit
  <2> QED
    BY <2>1, <2>2
<1> QED
  BY <1>1, <1>4, <1>8, <1>9, <1>10, Zenon DEF WithinGrid, Fit

-----------------------------------------------------------------------------
(* Runs of the dispatcher *)

(* A run ends with its last request, and without a run nothing is sent: so *)
(* the run that begins next finds no request of an earlier one to rename.  *)
Own == Tx \X {"this run"}

RunsAlone ==
    /\ sent \subseteq Own
    /\ run # "sending" => sent = {}

EngineInv == TypeOK /\ RunsAlone

(* The requests a run makes are its own.                                   *)
LEMMA OwnRequests ==
    /\ Own \subseteq Requests
    /\ \A r \in Own : r[2] = "this run"
    /\ \A S \in SUBSET Tx : S \X {"this run"} \subseteq Own
    /\ {} \X {"this run"} = {}
  BY Zenon DEF Own, Requests

(* A run that begins finds no request of an earlier one.                   *)
LEMMA BeginRunAlone ==
    ASSUME EngineInv, run # "sending", BeginRun
    PROVE  /\ unserved' = FALSE
           /\ run' \in {"sending", "ending"}
           /\ sent' \subseteq Requests /\ sent' \subseteq Own
           /\ (run' # "sending" => sent' = {})
<1>1. sent = {}
  BY DEF EngineInv, RunsAlone
<1>2. Present \subseteq Tx
  BY DEF Present
<1>3. PICK earlier : earlier = {<<r[1], "earlier">> : r \in sent}
  BY Zenon
<1>4. PICK own : own = Present \X {"this run"}
  BY Zenon
<1>5. earlier = {} /\ own \subseteq Own /\ (Present = {} => own = {}) /\ Own \subseteq Requests
  BY <1>1, <1>2, <1>3, <1>4, OwnRequests, Zenon
<1>6. /\ unserved' = FALSE
      /\ \/ /\ run' = IF Present = {} THEN "ending" ELSE "sending"
            /\ sent' = earlier \cup own
         \/ run' = "ending" /\ sent' = earlier
  BY <1>3, <1>4, Zenon DEF BeginRun
<1> QED
  BY <1>5, <1>6

LEMMA EngineStep == EngineInv /\ [Next]_vars => EngineInv'
<1> SUFFICES ASSUME EngineInv, [Next]_vars PROVE EngineInv'
  OBVIOUS
<1>1. TypeOK /\ RunsAlone
  BY DEF EngineInv
<1>2. ASSUME sessions' \in [Tx -> Terms \cup {NoSession}], UNCHANGED <<settings, auto, runVars>>
      PROVE  EngineInv'
  BY <1>1, <1>2 DEF EngineInv, TypeOK, RunsAlone, settings, runVars
<1>3. CASE \E t \in Tx : \/ RemoveSession(t)
                         \/ \E terms \in Terms : AddSession(t, terms) \/ UpdateSession(t, terms)
  BY <1>1, <1>2, <1>3 DEF RemoveSession, AddSession, UpdateSession, TypeOK
<1>4. CASE \E snapshot \in Snapshots, clear \in BOOLEAN : LoadSnapshot(snapshot, clear)
  <2>1. PICK snapshot \in Snapshots, clear \in BOOLEAN : LoadSnapshot(snapshot, clear)
    BY <1>4
  <2>2. snapshot \in [Tx -> Terms \cup {NoSession}]
    BY TermsAssumption
  <2> QED
    BY <1>1, <1>2, <2>1, <2>2 DEF LoadSnapshot, TypeOK
<1>5. CASE \/ \E g \in Grids : SetGridLimit(g)
           \/ \E m \in Margins : SetSafetyMargin(m)
           \/ PeakBeginsOrEnds \/ StartOrStopAutoDispatch
  BY <1>1, <1>5 DEF SetGridLimit, SetSafetyMargin, PeakBeginsOrEnds, StartOrStopAutoDispatch,
                    EngineInv, TypeOK, RunsAlone, settings, runVars
<1>6. CASE \E a \in Algorithm, given \in BOOLEAN : SetAlgorithm(a, given)
  <2>1. PICK a \in Algorithm, given \in BOOLEAN : SetAlgorithm(a, given)
    BY <1>6
  <2>2. windows' \in BOOLEAN /\ strategy' \in Algorithm
    BY <2>1 DEF SetAlgorithm
  <2> QED
    BY <1>1, <2>1, <2>2 DEF SetAlgorithm, EngineInv, TypeOK, RunsAlone, runVars
<1>7. ASSUME Request, UNCHANGED <<sessions, settings, auto>>
      PROVE  EngineInv'
  <2>1. CASE run = "none"
    <3>1. BeginRun /\ pending' = pending
      BY <1>7, <2>1 DEF Request
    <3> QED
      BY <1>1, <1>7, <2>1, <3>1, BeginRunAlone DEF EngineInv, TypeOK, RunsAlone, settings
  <2>2. CASE run # "none"
    BY <1>1, <1>7, <2>2 DEF Request, EngineInv, TypeOK, RunsAlone, settings
  <2> QED
    BY <2>1, <2>2
<1>8. CASE Dispatch \/ AutoDispatch
  BY <1>7, <1>8 DEF Dispatch, AutoDispatch
<1>9. CASE EndRun
  <2>1. run = "ending" /\ pending' = FALSE /\ UNCHANGED <<sessions, settings, auto>>
    BY <1>9 DEF EndRun
  <2>2. CASE pending
    <3>1. BeginRun
      BY <1>9, <2>2 DEF EndRun
    <3> QED
      BY <1>1, <2>1, <3>1, BeginRunAlone DEF EngineInv, TypeOK, RunsAlone, settings
  <2>3. CASE ~pending
    <3>1. run' = "none" /\ sent' = sent /\ unserved' = unserved
      BY <1>9, <2>3 DEF EndRun
    <3> QED
      BY <1>1, <2>1, <3>1 DEF EngineInv, TypeOK, RunsAlone, settings
  <2> QED
    BY <2>2, <2>3
<1>10. CASE \E r \in sent : Settles(r)
  <2>1. PICK r \in sent : Settles(r)
    BY <1>10
  <2>2. /\ sent' = sent \ {r} /\ sent # {}
        /\ run' = IF run = "sending" /\ sent' = {} THEN "ending" ELSE run
        /\ UNCHANGED <<sessions, settings, auto, pending, unserved>>
    BY <2>1 DEF Settles
  <2>3. run = "sending"
    BY <1>1, <2>2 DEF RunsAlone
  <2> QED
    BY <1>1, <2>2, <2>3 DEF EngineInv, TypeOK, RunsAlone, settings
<1>11. CASE UNCHANGED vars
  BY <1>1, <1>11 DEF EngineInv, TypeOK, RunsAlone, vars, settings, runVars
<1> QED
  BY <1>3, <1>4, <1>5, <1>6, <1>8, <1>9, <1>10, <1>11 DEF Next

(* No charger is sent a profile while a request of an earlier run is still *)
(* under way, whatever is asked for, settles or throws meanwhile           *)
(* (engine.ts:445-460).                                                    *)
THEOREM RunsDoNotOverlap == Spec => []OneRunAtATime
<1>1. Init => EngineInv
  BY DEF Init, EngineInv, TypeOK, RunsAlone
<1>2. EngineInv /\ [Next]_vars => EngineInv'
  BY EngineStep
<1>3. EngineInv => OneRunAtATime
  <2> SUFFICES ASSUME EngineInv, NEW r \in sent
               PROVE  r[2] = "this run" /\ run # "none"
    BY Zenon DEF OneRunAtATime, EngineInv
  <2>1. r \in Own /\ run = "sending"
    BY DEF EngineInv, RunsAlone
  <2> QED
    BY <2>1, OwnRequests, Zenon
<1> QED
  BY <1>1, <1>2, <1>3, PTL DEF Spec

(* What a run gives out never exceeds the limit of the grid nor what       *)
(* hardware and car take, and cuts below a minimum rate only where the     *)
(* minimum rates do not fit: for any sessions, settings, strategy and      *)
(* rounding, at any moment (engine.ts:418-421, strategies/).               *)
THEOREM GridIsNeverExceeded == Spec => []WithinGrid
<1>1. Init => EngineInv
  BY DEF Init, EngineInv, TypeOK, RunsAlone
<1>2. EngineInv /\ [Next]_vars => EngineInv'
  BY EngineStep
<1>3. EngineInv => WithinGrid
  BY OptimizedFits DEF EngineInv
<1> QED
  BY <1>1, <1>2, <1>3, PTL DEF Spec

=============================================================================
