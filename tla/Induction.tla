----------------------------- MODULE Induction -----------------------------
(* Induction over sets of numbers, for the proofs about functions that are  *)
(* defined by recursion and about finite sets that have a greatest element. *)
EXTENDS Naturals, FiniteSets, FiniteSetTheorems, WellFoundedInduction, TLAPS

(* A set of numbers has a least one: < is well founded.                     *)
LEMMA LeastNatural ==
    ASSUME NEW S \in SUBSET Nat, S # {}
    PROVE  \E n \in S : \A m \in S : n <= m
<1>. DEFINE R == OpToRel(<, Nat)
<1>1. IsWellFoundedOn(R, Nat)
    BY NatLessThanWellFounded
<1>2. PICK n \in S : \A m \in S : <<m, n>> \notin R
    <2>. HIDE DEF R
    <2>. QED  BY <1>1, WFMin
<1>3. \A m \in S : ~(m < n)
    BY <1>2 DEF OpToRel
<1>. QED
    BY <1>3

(* A set that has 0 and, with each number, the next one has all of them.     *)
LEMMA SetInduction ==
    ASSUME NEW S, 0 \in S, \A n \in Nat : n \in S => n + 1 \in S
    PROVE  \A n \in Nat : n \in S
<1>. DEFINE Missing == {n \in Nat : n \notin S}
<1>1. SUFFICES ASSUME Missing # {}
               PROVE  FALSE
    OBVIOUS
<1>2. PICK n \in Missing : \A m \in Missing : n <= m
    BY <1>1, LeastNatural
<1>3. n - 1 \in Nat /\ (n - 1) + 1 = n
    BY <1>2
<1>4. n - 1 \in S
    BY <1>2, <1>3
<1>5. (n - 1) + 1 \in S
    BY <1>3, <1>4
<1>. QED
    BY <1>2, <1>3, <1>5

(* A bounded set of numbers has a greatest one.                              *)
LEMMA GreatestBelow ==
    ASSUME NEW N \in Nat, NEW S \in SUBSET (0 .. N), S # {}
    PROVE  \E n \in S : \A m \in S : m <= n
<1>. DEFINE Gaps == {N - n : n \in S}
<1>1. PICK gap \in Gaps : \A g \in Gaps : gap <= g
    <2>1. Gaps \in SUBSET Nat /\ Gaps # {}
        <3>1. \A n \in S : n \in Nat /\ n <= N
            OBVIOUS
        <3>2. \A n \in S : N - n \in Nat
            BY <3>1
        <3>. QED
            BY <3>2
    <2>. HIDE DEF Gaps
    <2>. QED
        BY <2>1, LeastNatural
<1>2. PICK n \in S : gap = N - n
    BY <1>1
<1>3. ASSUME NEW m \in S
      PROVE  m <= n
    <2>1. N - m \in Gaps
        OBVIOUS
    <2>2. N - n <= N - m
        BY <1>1, <1>2, <2>1
    <2>. QED
        BY <2>2
<1>. QED
    BY <1>3

(* Any function on S can be iterated from any member of S: what a recursive  *)
(* definition f[n \in Nat] == IF n = 0 THEN a ELSE step[f[n - 1]] asks for   *)
(* exists.                                                                   *)
LEMMA Iterates ==
    ASSUME NEW S, NEW a \in S, NEW step \in [S -> S]
    PROVE  \E f \in [Nat -> S] :
               \A n \in Nat : f[n] = IF n = 0 THEN a ELSE step[f[n - 1]]
<1>. DEFINE Begins(k, g) == \A n \in 0 .. k : g[n] = IF n = 0 THEN a ELSE step[g[n - 1]]
            Upto(k) == {g \in [0 .. k -> S] : Begins(k, g)}
            Agreed == {n \in Nat : \A k, l \in Nat :
                          n <= k /\ n <= l =>
                              \A g \in Upto(k), h \in Upto(l) : g[n] = h[n]}
            Reached == {k \in Nat : Upto(k) # {}}
<1>1. \A k \in Nat : k \in Reached
    <2>1. 0 \in Reached
        <3>1. [n \in 0 .. 0 |-> a] \in Upto(0)
            OBVIOUS
        <3>. QED
            BY <3>1
    <2>2. ASSUME NEW k \in Nat, k \in Reached
          PROVE  k + 1 \in Reached
        <3>1. PICK g \in Upto(k) : TRUE
            BY <2>2
        <3>2. PICK h : h = [n \in 0 .. k + 1 |-> IF n = k + 1 THEN step[g[k]] ELSE g[n]]
            OBVIOUS
        <3>3. h \in [0 .. k + 1 -> S]
            BY <3>1, <3>2
        <3>4. Begins(k + 1, h)
            <4>1. SUFFICES ASSUME NEW n \in 0 .. k + 1
                           PROVE  h[n] = IF n = 0 THEN a ELSE step[h[n - 1]]
                OBVIOUS
            <4>2. CASE n = k + 1
                BY <3>1, <3>2, <4>2
            <4>3. CASE n # k + 1
                <5>1. n \in 0 .. k /\ (n # 0 => n - 1 \in 0 .. k)
                    BY <4>3
                <5>2. g[n] = IF n = 0 THEN a ELSE step[g[n - 1]]
                    BY <3>1, <5>1
                <5>3. h[n] = g[n] /\ (n # 0 => h[n - 1] = g[n - 1])
                    BY <3>2, <5>1
                <5>. QED
                    BY <5>2, <5>3
            <4>. QED
                BY <4>2, <4>3
        <3>. QED
            BY <3>3, <3>4
    <2>. HIDE DEF Reached
    <2>. QED
        BY <2>1, <2>2, SetInduction
<1>2. ASSUME NEW n \in Nat, NEW k \in Nat, NEW l \in Nat, n <= k, n <= l,
             NEW g \in Upto(k), NEW h \in Upto(l)
      PROVE  g[n] = h[n]
    <2>1. 0 \in Agreed
        OBVIOUS
    <2>2. ASSUME NEW m \in Nat, m \in Agreed
          PROVE  m + 1 \in Agreed
        <3>1. ASSUME NEW i \in Nat, NEW j \in Nat, m + 1 <= i, m + 1 <= j,
                     NEW p \in Upto(i), NEW q \in Upto(j)
              PROVE  p[m + 1] = q[m + 1]
            <4>1. p[m] = q[m]
                <5>1. m <= i /\ m <= j
                    BY <3>1
                <5>. HIDE DEF Upto
                <5>. QED
                    BY <2>2, <5>1
            <4>2. m + 1 \in 0 .. i /\ m + 1 \in 0 .. j /\ m + 1 # 0 /\ (m + 1) - 1 = m
                BY <3>1
            <4>. QED
                BY <4>1, <4>2
        <3>. HIDE DEF Upto
        <3>. QED
            BY <3>1
    <2>. HIDE DEF Agreed
    <2>3. n \in Agreed
        BY <2>1, <2>2, SetInduction
    <2>. USE DEF Agreed
    <2>. HIDE DEF Upto
    <2>. QED
        BY <1>2, <2>3
<1>. DEFINE Part(n) == CHOOSE g : g \in Upto(n)
            f == [n \in Nat |-> Part(n)[n]]
<1>3. \A n \in Nat : Part(n) \in Upto(n)
    BY <1>1
<1>4. f \in [Nat -> S]
    BY <1>3
<1>5. ASSUME NEW n \in Nat
      PROVE  f[n] = IF n = 0 THEN a ELSE step[f[n - 1]]
    <2>1. PICK g : g = Part(n) /\ g \in Upto(n)
        BY <1>3
    <2>2. f[n] = g[n] /\ n \in 0 .. n
        BY <2>1
    <2>3. CASE n = 0
        BY <2>1, <2>2, <2>3
    <2>4. CASE n # 0
        <3>1. n - 1 \in Nat /\ n - 1 <= n
            BY <2>4
        <3>2. PICK h : h = Part(n - 1) /\ h \in Upto(n - 1)
            BY <1>3, <3>1
        <3>3. f[n - 1] = h[n - 1]
            BY <3>1, <3>2
        <3>4. g[n - 1] = h[n - 1]
            <4>. HIDE DEF Upto
            <4>. QED
                BY <1>2, <2>1, <3>1, <3>2
        <3>5. g[n] = step[g[n - 1]]
            BY <2>1, <2>2, <2>4
        <3>. QED
            BY <2>2, <2>4, <3>3, <3>4, <3>5
    <2>. QED
        BY <2>3, <2>4
<1>. HIDE DEF f
<1>. QED
    BY <1>4, <1>5

(* A finite set that a relation orders totally has a first element.          *)
LEMMA FirstOfFinite ==
    ASSUME NEW S, IsFiniteSet(S), S # {},
           NEW R,
           \A x, y \in S : x # y => <<x, y>> \in R \/ <<y, x>> \in R,
           \A x, y, z \in S : <<x, y>> \in R /\ <<y, z>> \in R => <<x, z>> \in R
    PROVE  \E x \in S : \A y \in S : y = x \/ <<x, y>> \in R
<1>. DEFINE HasFirst(T) == \E x \in T : \A y \in T : y = x \/ <<x, y>> \in R
            Good == {n \in Nat : \A T \in SUBSET S :
                        T # {} /\ Cardinality(T) = n => HasFirst(T)}
<1>1. 0 \in Good
    <2>1. ASSUME NEW T \in SUBSET S, T # {}, Cardinality(T) = 0
          PROVE  FALSE
        BY <2>1, FS_Subset, FS_EmptySet
    <2>. QED
        BY <2>1
<1>2. ASSUME NEW n \in Nat, n \in Good
      PROVE  n + 1 \in Good
    <2>1. ASSUME NEW T \in SUBSET S, T # {}, Cardinality(T) = n + 1
          PROVE  HasFirst(T)
        <3>1. PICK z \in T : TRUE
            BY <2>1
        <3>2. IsFiniteSet(T) /\ T \ {z} \in SUBSET S
            BY FS_Subset
        <3>3. Cardinality(T \ {z}) = n
            <4>1. Cardinality(T \ {z}) = Cardinality(T) - 1
                BY <3>1, <3>2, FS_RemoveElement
            <4>. QED
                BY <2>1, <4>1
        <3>4. CASE T \ {z} = {}
            BY <3>1, <3>4
        <3>5. CASE T \ {z} # {}
            <4>1. HasFirst(T \ {z})
                BY <1>2, <3>2, <3>3, <3>5
            <4>2. PICK x \in T \ {z} : \A y \in T \ {z} : y = x \/ <<x, y>> \in R
                BY <4>1
            <4>3. CASE <<x, z>> \in R
                BY <4>2, <4>3
            <4>4. CASE <<z, x>> \in R
                <5>1. \A y \in T : y = z \/ <<z, y>> \in R
                    BY <3>1, <4>2, <4>4
                <5>. QED
                    BY <3>1, <5>1
            <4>. QED
                BY <3>1, <4>2, <4>3, <4>4
        <3>. QED
            BY <3>4, <3>5
    <2>. QED
        BY <2>1
<1>3. \A n \in Nat : n \in Good
    <2>. HIDE DEF Good
    <2>. QED  BY <1>1, <1>2, SetInduction
<1>4. Cardinality(S) \in Good
    BY <1>3, FS_CardinalityType
<1>. QED
    BY <1>4
=============================================================================
