---------------------------- MODULE PlanProofs -----------------------------
(***************************************************************************)
(* What the operators of Plan compute, for any target, deployment and      *)
(* mix: the jobs of the setup, the primary endpoint and the turns every    *)
(* kind has in the mix.                                                    *)
(*                                                                         *)
(* The last is about a recursive function.  The library's induction        *)
(* theorems take an operator as a parameter, which the provers do not      *)
(* instantiate; induction is over sets of numbers here (SetInduction),     *)
(* from the fact that < is well founded.                                   *)
(***************************************************************************)
EXTENDS Plan, FiniteSetTheorems, WellFoundedInduction, TLAPS

LEMMA LeastOf ==
  ASSUME NEW U \in SUBSET Nat, U # {}
  PROVE  \E x \in U : \A y \in U : x <= y
  <1> DEFINE R == OpToRel(<, Nat)
  <1>1. IsWellFoundedOn(R, Nat)
    BY NatLessThanWellFounded
  <1> HIDE DEF R
  <1>2. PICK x \in U : \A y \in U : ~(<<y, x>> \in R)
    BY <1>1, WFMin
  <1>3. \A y \in U : y < x => <<y, x>> \in R
    BY DEF R, OpToRel
  <1>4. \A y \in U : y \in Nat /\ x \in Nat /\ ~(y < x)
    BY <1>2, <1>3
  <1> QED
    BY <1>2, <1>4

LEMMA SetInduction ==
  ASSUME NEW T \in SUBSET Nat, 0 \in T, \A n \in T : n + 1 \in T
  PROVE  T = Nat
  <1>1. SUFFICES ASSUME Nat \ T # {} PROVE FALSE
    OBVIOUS
  <1>2. PICK x \in Nat \ T : \A y \in Nat \ T : x <= y
    BY <1>1, LeastOf
  <1>3. x # 0 /\ x - 1 \in Nat /\ ~(x <= x - 1)
    BY <1>2
  <1>4. x - 1 \in T
    BY <1>2, <1>3
  <1> QED
    BY <1>2, <1>3, <1>4

-----------------------------------------------------------------------------
(* FlattenSeq. *)

(* f holds the joins of the first parts of s, up to the n-th. *)
Joins(f, s, n) == f = [i \in 1..n |-> IF i = 1 THEN s[i] ELSE f[i - 1] \o s[i]]

LEMMA JoinsAt ==
  ASSUME NEW f, NEW s, NEW n \in Nat \ {0}
  PROVE  Joins(f, s, n) <=> /\ f = [i \in 1..n |-> f[i]]
                            /\ f[1] = s[1]
                            /\ \A i \in 2..n : f[i] = f[i - 1] \o s[i]
  <1>1. ASSUME Joins(f, s, n)
        PROVE  /\ f = [i \in 1..n |-> f[i]]
               /\ f[1] = s[1]
               /\ \A i \in 2..n : f[i] = f[i - 1] \o s[i]
    <2>1. f = [i \in 1..n |-> IF i = 1 THEN s[i] ELSE f[i - 1] \o s[i]]
      BY <1>1 DEF Joins
    <2>2. \A i \in 1..n : f[i] = IF i = 1 THEN s[i] ELSE f[i - 1] \o s[i]
      BY ONLY <2>1
    <2>3. 1 \in 1..n /\ \A i \in 2..n : i \in 1..n /\ i # 1
      OBVIOUS
    <2> QED
      BY <2>1, <2>2, <2>3
  <1>2. ASSUME f = [i \in 1..n |-> f[i]], f[1] = s[1], \A i \in 2..n : f[i] = f[i - 1] \o s[i]
        PROVE  Joins(f, s, n)
    <2>1. \A i \in 1..n : i # 1 => i \in 2..n
      OBVIOUS
    <2>2. \A i \in 1..n : f[i] = IF i = 1 THEN s[i] ELSE f[i - 1] \o s[i]
      BY <1>2, <2>1
    <2>3. [i \in 1..n |-> f[i]] = [i \in 1..n |-> IF i = 1 THEN s[i] ELSE f[i - 1] \o s[i]]
      BY <2>2
    <2> QED
      BY <1>2, <2>3 DEF Joins
  <1> QED
    BY <1>1, <1>2

(* One more part. *)
LEMMA JoinsGrow ==
  ASSUME NEW S, NEW s \in Seq(Seq(S)), NEW n \in Nat \ {0}, n + 1 <= Len(s),
         NEW f \in [1..n -> Seq(S)], Joins(f, s, n)
  PROVE  \E h \in [1..(n + 1) -> Seq(S)] : Joins(h, s, n + 1)
  <1> DEFINE h == [i \in 1..(n + 1) |-> IF i = n + 1 THEN f[n] \o s[n + 1] ELSE f[i]]
  <1>1. s[n + 1] \in Seq(S) /\ f[n] \in Seq(S)
    OBVIOUS
  <1>2. f[n] \o s[n + 1] \in Seq(S)
    BY <1>1
  <1>3. h \in [1..(n + 1) -> Seq(S)]
    BY <1>2
  <1>4. /\ f[1] = s[1]
        /\ \A i \in 2..n : f[i] = f[i - 1] \o s[i]
    BY JoinsAt
  <1>5. h[n + 1] = f[n] \o s[n + 1] /\ \A i \in 1..n : h[i] = f[i]
    <2>1. n + 1 \in 1..(n + 1)
      OBVIOUS
    <2>2. \A i \in 1..n : i \in 1..(n + 1) /\ i # n + 1
      OBVIOUS
    <2>3. h[n + 1] = f[n] \o s[n + 1]
      BY <2>1
    <2>4. \A i \in 1..n : h[i] = f[i]
      BY <2>2
    <2> QED
      BY <2>3, <2>4
  <1> HIDE DEF h
  <1>6. h[1] = s[1]
    BY <1>4, <1>5
  <1>7. ASSUME NEW i \in 2..(n + 1) PROVE h[i] = h[i - 1] \o s[i]
    <2>1. CASE i = n + 1
      <3>1. i - 1 = n /\ n \in 1..n
        BY <2>1
      <3> QED
        BY <1>5, <2>1, <3>1
    <2>2. CASE i # n + 1
      <3>1. i \in 2..n /\ i \in 1..n /\ i - 1 \in 1..n
        BY <2>2
      <3> QED
        BY <1>4, <1>5, <3>1
    <2> QED
      BY <2>1, <2>2
  <1>8. h = [i \in 1..(n + 1) |-> h[i]]
    BY <1>3
  <1>9. n + 1 \in Nat \ {0}
    OBVIOUS
  <1>10. Joins(h, s, n + 1)
    BY <1>6, <1>7, <1>8, <1>9, JoinsAt
  <1> QED
    BY <1>3, <1>10

LEMMA JoinsExist ==
  ASSUME NEW S, NEW s \in Seq(Seq(S)), NEW n \in 1..Len(s)
  PROVE  \E f \in [1..n -> Seq(S)] : Joins(f, s, n)
  <1> DEFINE T == {m \in Nat : m + 1 <= Len(s) => \E f \in [1..(m + 1) -> Seq(S)] : Joins(f, s, m + 1)}
  <1>1. 0 \in T
    <2>1. SUFFICES ASSUME 1 <= Len(s) PROVE \E f \in [1..1 -> Seq(S)] : Joins(f, s, 1)
      OBVIOUS
    <2> DEFINE f == [i \in 1..1 |-> s[1]]
    <2>2. s[1] \in Seq(S)
      BY <2>1
    <2>3. f \in [1..1 -> Seq(S)] /\ f[1] = s[1] /\ f = [i \in 1..1 |-> f[i]]
      BY <2>2
    <2> HIDE DEF f
    <2>4. 1 \in Nat \ {0} /\ \A i \in 2..1 : f[i] = f[i - 1] \o s[i]
      OBVIOUS
    <2>5. Joins(f, s, 1)
      BY <2>3, <2>4, JoinsAt
    <2> QED
      BY <2>3, <2>5
  <1>2. ASSUME NEW m \in T PROVE m + 1 \in T
    <2>1. SUFFICES ASSUME m + 1 + 1 <= Len(s)
                   PROVE  \E f \in [1..(m + 1 + 1) -> Seq(S)] : Joins(f, s, m + 1 + 1)
      OBVIOUS
    <2>2. m + 1 \in Nat \ {0} /\ m + 1 <= Len(s)
      BY <2>1
    <2>3. PICK f \in [1..(m + 1) -> Seq(S)] : Joins(f, s, m + 1)
      BY <2>2
    <2> QED
      BY <2>1, <2>2, <2>3, JoinsGrow
  <1>3. T = Nat
    <2> HIDE DEF T
    <2>1. T \subseteq Nat
      BY DEF T
    <2> QED
      BY <1>1, <1>2, <2>1, SetInduction
  <1>4. n - 1 + 1 = n /\ n <= Len(s) /\ n - 1 \in Nat
    OBVIOUS
  <1>5. \A m \in Nat : m + 1 <= Len(s) => \E f \in [1..(m + 1) -> Seq(S)] : Joins(f, s, m + 1)
    BY <1>3
  <1>6. n - 1 + 1 <= Len(s) => \E f \in [1..(n - 1 + 1) -> Seq(S)] : Joins(f, s, n - 1 + 1)
    BY <1>4, <1>5
  <1> QED
    BY <1>4, <1>6

(* It is the last of the sequences that begin with the first part and grow   *)
(* by one part each.                                                         *)
LEMMA FlattenUnfolds ==
  ASSUME NEW S, NEW s \in Seq(Seq(S)), Len(s) # 0
  PROVE  \E g : /\ Joins(g, s, Len(s))
                /\ FlattenSeq(s) = g[Len(s)]
  <1> DEFINE g == CHOOSE f : Joins(f, s, Len(s))
  <1>1. Len(s) \in 1..Len(s)
    OBVIOUS
  <1>2. \E f : Joins(f, s, Len(s))
    BY <1>1, JoinsExist
  <1>3. Joins(g, s, Len(s))
    BY <1>2
  <1>4. g = CHOOSE f : f = [i \in 1..Len(s) |-> IF i = 1 THEN s[i] ELSE f[i - 1] \o s[i]]
    BY DEF Joins
  <1>5. FlattenSeq(s) = g[Len(s)]
    BY <1>4 DEF FlattenSeq
  <1> HIDE DEF g
  <1> QED
    BY <1>3, <1>5

LEMMA FlattenEmpty ==
  ASSUME NEW S, NEW s \in Seq(Seq(S)), Len(s) = 0
  PROVE  FlattenSeq(s) = <<>>
  BY DEF FlattenSeq

(* Joins are unique up to where they are defined. *)
LEMMA JoinsIn ==
  ASSUME NEW S, NEW s \in Seq(Seq(S)), NEW g, Len(s) # 0, Joins(g, s, Len(s)), NEW i \in 1..Len(s)
  PROVE  g[i] \in Seq(S)
  <1> DEFINE V == {n \in Nat : n + 1 <= Len(s) => g[n + 1] \in Seq(S)}
  <1>1. /\ g[1] = s[1]
        /\ \A j \in 2..Len(s) : g[j] = g[j - 1] \o s[j]
    <2>1. Len(s) \in Nat \ {0}
      OBVIOUS
    <2> QED
      BY <2>1, JoinsAt
  <1>2. 0 \in V
    BY <1>1
  <1>3. ASSUME NEW n \in V PROVE n + 1 \in V
    <2>1. SUFFICES ASSUME n + 1 + 1 <= Len(s) PROVE g[n + 1 + 1] \in Seq(S)
      OBVIOUS
    <2>2. n + 1 + 1 \in 2..Len(s) /\ n + 1 + 1 - 1 = n + 1 /\ s[n + 1 + 1] \in Seq(S)
      BY <2>1
    <2>3. g[n + 1] \in Seq(S)
      BY <2>1
    <2>4. PICK j \in 2..Len(s) : j = n + 1 + 1 /\ j - 1 = n + 1
      BY <2>2
    <2>5. g[j] = g[j - 1] \o s[j]
      BY <1>1, <2>4
    <2>6. g[j - 1] \in Seq(S) /\ s[j] \in Seq(S)
      BY <2>2, <2>3, <2>4
    <2>7. g[j] \in Seq(S)
      BY <2>5, <2>6
    <2> QED
      BY <2>4, <2>7
  <1>4. V = Nat
    <2> HIDE DEF V
    <2>1. V \subseteq Nat
      BY DEF V
    <2> QED
      BY <1>2, <1>3, <2>1, SetInduction
  <1>5. i - 1 + 1 = i /\ i <= Len(s) /\ i - 1 \in Nat
    OBVIOUS
  <1>6. \A n \in Nat : n + 1 <= Len(s) => g[n + 1] \in Seq(S)
    BY <1>4
  <1>7. i - 1 + 1 <= Len(s) => g[i - 1 + 1] \in Seq(S)
    BY <1>5, <1>6
  <1> QED
    BY <1>5, <1>7

LEMMA FlattenIn ==
  ASSUME NEW S, NEW s \in Seq(Seq(S))
  PROVE  FlattenSeq(s) \in Seq(S)
  <1>1. CASE Len(s) = 0
    <2>1. FlattenSeq(s) = <<>>
      BY <1>1, FlattenEmpty
    <2> QED
      BY <2>1
  <1>2. CASE Len(s) # 0
    <2>1. PICK g : Joins(g, s, Len(s)) /\ FlattenSeq(s) = g[Len(s)]
      BY <1>2, FlattenUnfolds
    <2>2. Len(s) \in 1..Len(s)
      BY <1>2
    <2> QED
      BY <1>2, <2>1, <2>2, JoinsIn
  <1> QED
    BY <1>1, <1>2

-----------------------------------------------------------------------------
(* How often k occurs in q. *)
Times(q, k) == Cardinality({i \in 1..Len(q) : q[i] = k})

LEMMA PlacesFinite ==
  ASSUME NEW n \in Nat, NEW P, P \subseteq 1..n
  PROVE  IsFiniteSet(P) /\ Cardinality(P) \in Nat
  <1>1. IsFiniteSet(1..n)
    BY FS_Interval
  <1>2. IsFiniteSet(P)
    BY <1>1, FS_Subset
  <1> QED
    BY <1>2, FS_CardinalityType

LEMMA ShiftedPlaces ==
  ASSUME NEW n \in Nat, NEW d \in Nat, NEW P \in SUBSET (1..n)
  PROVE  LET Q == {j \in (d + 1)..(d + n) : j - d \in P}
         IN  IsFiniteSet(Q) /\ Cardinality(Q) = Cardinality(P)
  <1> DEFINE Q == {j \in (d + 1)..(d + n) : j - d \in P}
             f == [i \in P |-> i + d]
  <1>1. IsFiniteSet(P)
    BY PlacesFinite
  <1>2. f \in [P -> Q]
    OBVIOUS
  <1>3. \A i, j \in P : f[i] = f[j] => i = j
    OBVIOUS
  <1>4. ASSUME NEW j \in Q PROVE \E i \in P : f[i] = j
    <2>1. j - d \in P /\ (j - d) + d = j
      OBVIOUS
    <2>2. f[j - d] = j
      BY <2>1
    <2> QED
      BY <2>1, <2>2
  <1>5. f \in Bijection(P, Q)
    <2> HIDE DEF f, Q
    <2> QED
      BY <1>2, <1>3, <1>4 DEF Bijection, Injection, Surjection, IsInjective
  <1>6. ExistsBijection(P, Q)
    BY <1>5 DEF ExistsBijection
  <1> QED
    BY <1>1, <1>6, FS_Bijection

(* In a row of two sequences an element occurs as often as in both. *)
LEMMA TimesAdd ==
  ASSUME NEW S, NEW a \in Seq(S), NEW b \in Seq(S), NEW k
  PROVE  Times(a \o b, k) = Times(a, k) + Times(b, k)
  <1> DEFINE A == {i \in 1..Len(a) : a[i] = k}
             B == {i \in 1..Len(b) : b[i] = k}
             Q == {j \in (Len(a) + 1)..(Len(a) + Len(b)) : j - Len(a) \in B}
             C == {i \in 1..Len(a \o b) : (a \o b)[i] = k}
  <1>1. Len(a) \in Nat /\ Len(b) \in Nat /\ Len(a \o b) = Len(a) + Len(b)
    OBVIOUS
  <1>2. IsFiniteSet(Q) /\ Cardinality(Q) = Cardinality(B)
    BY <1>1, ShiftedPlaces
  <1>3. IsFiniteSet(A) /\ Cardinality(A) \in Nat
    BY <1>1, PlacesFinite
  <1>4. ASSUME NEW i \in 1..(Len(a) + Len(b)) PROVE i \in C <=> i \in A \cup Q
    <2>1. CASE i <= Len(a)
      <3>1. i \in 1..Len(a) /\ (a \o b)[i] = a[i]
        BY <1>1, <2>1
      <3>2. i \notin Q
        BY <1>1, <2>1
      <3> QED
        BY <1>1, <3>1, <3>2
    <2>2. CASE i > Len(a)
      <3>1. i - Len(a) \in 1..Len(b) /\ i \in (Len(a) + 1)..(Len(a) + Len(b)) /\ i \notin 1..Len(a)
        BY <1>1, <2>2
      <3>2. (a \o b)[i] = b[i - Len(a)]
        BY <1>1, <2>2
      <3> QED
        BY <1>1, <3>1, <3>2
    <2> QED
      BY <1>1, <2>1, <2>2
  <1>5. C = A \cup Q
    <2>1. C \subseteq 1..(Len(a) + Len(b)) /\ A \cup Q \subseteq 1..(Len(a) + Len(b))
      BY <1>1
    <2> HIDE DEF A, Q, C
    <2> QED
      BY <1>4, <2>1
  <1>6. A \cap Q = {}
    BY <1>1
  <1>7. Cardinality(A \cup Q) = Cardinality(A) + Cardinality(Q) - Cardinality({})
    <2> HIDE DEF A, Q
    <2> QED
      BY <1>2, <1>3, <1>6, FS_Union
  <1>8. Cardinality(B) \in Nat /\ Cardinality({}) = 0
    BY <1>1, PlacesFinite, FS_EmptySet
  <1>9. Cardinality(C) = Cardinality(A) + Cardinality(B)
    <2> HIDE DEF A, Q, B, C
    <2> QED
      BY <1>2, <1>3, <1>5, <1>7, <1>8
  <1> QED
    BY <1>9 DEF Times

LEMMA TimesOfOne ==
  ASSUME NEW n \in Nat, NEW x, NEW k, NEW q, Len(q) = n, \A i \in 1..n : q[i] = x
  PROVE  Times(q, k) = IF x = k THEN n ELSE 0
  <1> DEFINE P == {i \in 1..Len(q) : q[i] = k}
  <1>1. Len(q) = n
    OBVIOUS
  <1>2. CASE x = k
    <2>1. P = 1..n
      BY <1>1, <1>2
    <2>2. Cardinality(1..n) = n
      BY FS_Interval
    <2> QED
      BY <1>2, <2>1, <2>2 DEF Times
  <1>3. CASE x # k
    <2>1. P = {}
      BY <1>1, <1>3
    <2> QED
      BY <1>3, <2>1, FS_EmptySet DEF Times
  <1> QED
    BY <1>2, <1>3

(* What only one part has occurs as often as in that part. *)
LEMMA TimesInFlatten ==
  ASSUME NEW S, NEW s \in Seq(Seq(S)), NEW k, NEW p \in 1..Len(s),
         \A i \in 1..Len(s) : i # p => Times(s[i], k) = 0
  PROVE  Times(FlattenSeq(s), k) = Times(s[p], k)
  <1>0. Len(s) \in Nat \ {0} /\ Len(s) \in 1..Len(s) /\ p <= Len(s)
    OBVIOUS
  <1>1. PICK g : Joins(g, s, Len(s)) /\ FlattenSeq(s) = g[Len(s)]
    BY <1>0, FlattenUnfolds
  <1>2. /\ g[1] = s[1]
        /\ \A j \in 2..Len(s) : g[j] = g[j - 1] \o s[j]
    BY <1>0, <1>1, JoinsAt
  <1>3. \A i \in 1..Len(s) : g[i] \in Seq(S) /\ s[i] \in Seq(S)
    BY <1>0, <1>1, JoinsIn
  <1>4. PICK m : m = Times(s[p], k)
    OBVIOUS
  <1>5. m \in Nat
    <2>1. s[p] \in Seq(S) /\ Len(s[p]) \in Nat
      BY <1>3
    <2>2. {i \in 1..Len(s[p]) : s[p][i] = k} \subseteq 1..Len(s[p])
      OBVIOUS
    <2> QED
      BY <1>4, <2>1, <2>2, PlacesFinite DEF Times
  <1> DEFINE V == {n \in Nat : n + 1 <= Len(s) => Times(g[n + 1], k) = IF n + 1 < p THEN 0 ELSE m}
  <1>6. 0 \in V
    <2>1. SUFFICES Times(g[1], k) = IF 1 < p THEN 0 ELSE m
      OBVIOUS
    <2>2. CASE p = 1
      BY <1>2, <1>4, <2>2
    <2>3. CASE p # 1
      <3>1. Times(s[1], k) = 0 /\ 1 < p
        BY <1>0, <2>3
      <3> QED
        BY <1>2, <3>1
    <2> QED
      BY <2>2, <2>3
  <1>7. ASSUME NEW n \in V PROVE n + 1 \in V
    <2>1. SUFFICES ASSUME n + 1 + 1 <= Len(s)
                   PROVE  Times(g[n + 1 + 1], k) = IF n + 1 + 1 < p THEN 0 ELSE m
      OBVIOUS
    <2>2. PICK j \in 2..Len(s) : j = n + 1 + 1 /\ j - 1 = n + 1 /\ j \in 1..Len(s) /\ j - 1 \in 1..Len(s)
      BY <1>0, <2>1
    <2>3. g[j] = g[j - 1] \o s[j] /\ g[j - 1] \in Seq(S) /\ s[j] \in Seq(S)
      BY <1>2, <1>3, <2>2
    <2>4. Times(g[j], k) = Times(g[j - 1], k) + Times(s[j], k)
      BY <2>3, TimesAdd
    <2>5. Times(g[n + 1], k) = IF n + 1 < p THEN 0 ELSE m
      BY <1>0, <2>1
    <2>6. Times(g[j - 1], k) = IF j - 1 < p THEN 0 ELSE m
      BY <2>2, <2>5
    <2>7. Times(s[j], k) = IF j = p THEN m ELSE 0
      BY <1>4, <2>2
    <2>8. Times(g[j], k) = IF j < p THEN 0 ELSE m
      <3>1. p \in Nat /\ j \in Nat
        BY <1>0, <2>2
      <3> QED
        BY ONLY <1>5, <2>4, <2>6, <2>7, <3>1
    <2> QED
      BY <2>2, <2>8
  <1>8. V = Nat
    <2> HIDE DEF V
    <2>1. V \subseteq Nat
      BY DEF V
    <2> QED
      BY <1>6, <1>7, <2>1, SetInduction
  <1>9. PICK l \in Nat : l + 1 = Len(s)
    <2>1. Len(s) - 1 \in Nat /\ Len(s) - 1 + 1 = Len(s)
      BY <1>0
    <2> QED
      BY <2>1
  <1>10. l + 1 <= Len(s) => Times(g[l + 1], k) = IF l + 1 < p THEN 0 ELSE m
    BY <1>8
  <1> QED
    BY <1>0, <1>1, <1>4, <1>9, <1>10

-----------------------------------------------------------------------------
(* The mix. *)

(* An order of a set names every member at one place. *)
LEMMA OrderIsComplete ==
  ASSUME NEW K, IsFiniteSet(K), NEW order \in SetToSeqs(K)
  PROVE  /\ order \in Seq(K)
         /\ \A i, j \in 1..Len(order) : i # j => order[i] # order[j]
         /\ \A k \in K : \E p \in 1..Len(order) : order[p] = k
  <1>1. PICK n : n = Cardinality(K)
    OBVIOUS
  <1>2. n \in Nat
    BY <1>1, FS_CardinalityType
  <1>3. order \in [1..n -> K] /\ \A i, j \in 1..n : i # j => order[i] # order[j]
    BY <1>1 DEF SetToSeqs
  <1>4. order \in Seq(K) /\ Len(order) = n
    BY <1>2, <1>3
  <1>5. order \in Injection(1..n, K)
    BY <1>3 DEF Injection, IsInjective
  <1>6. Cardinality(1..n) = n
    BY <1>2, FS_Interval
  <1>7. order \in Surjection(1..n, K)
    BY <1>1, <1>5, <1>6, FS_Injection
  <1>8. \A k \in K : \E p \in 1..n : order[p] = k
    BY <1>7 DEF Surjection
  <1> QED
    BY <1>3, <1>4, <1>8

LEMMA PlannedFinite ==
  ASSUME NEW t, IsTarget(t), NEW b
  PROVE  IsFiniteSet(Planned(t, b))
  BY FS_Subset DEF Planned, IsTarget

(* A target of at least one has a turn, and a larger one no fewer turns.     *)
LEMMA RepsGrow ==
  ASSUME NEW m \in Int, NEW n \in Int, 0 < m, m <= n
  PROVE  Reps(m) \in Nat \ {0} /\ Reps(n) \in Nat \ {0} /\ Reps(m) <= Reps(n)
  BY DEF Reps

LEMMA StretchIn ==
  ASSUME NEW t, IsTarget(t), NEW b, NEW K, K \subseteq DOMAIN t.lanes, NEW k \in K
  PROVE  /\ Stretch(t, b, k) \in Seq(K)
         /\ \A other : other # k => Times(Stretch(t, b, k), other) = 0
         /\ Supports(b, k) => Times(Stretch(t, b, k), k)
                                = IF t.lanes[k].inflight > 0 THEN Reps(t.lanes[k].inflight) ELSE 0
  <1>1. PICK w : w = t.lanes[k].inflight
    OBVIOUS
  <1>2. w \in Int
    BY <1>1 DEF IsTarget
  <1>3. CASE w > 0 /\ Supports(b, k)
    <2>1. Reps(w) \in Nat
      BY <1>2, <1>3, RepsGrow
    <2>2. Stretch(t, b, k) = [r \in 1..Reps(w) |-> k]
      BY <1>1, <1>3 DEF Stretch
    <2>3. PICK n \in Nat : n = Reps(w)
      BY <2>1
    <2>4. [r \in 1..n |-> k] \in Seq(K)
      OBVIOUS
    <2>5. PICK q : q = [r \in 1..n |-> k]
      OBVIOUS
    <2>6. \A any : Times(q, any) = IF k = any THEN n ELSE 0
      <3>1. Len(q) = n /\ \A i \in 1..n : q[i] = k
        BY <2>5
      <3> QED
        BY <2>3, <3>1, TimesOfOne
    <2>7. Stretch(t, b, k) = q
      BY <2>2, <2>3, <2>5
    <2> QED
      BY <1>1, <1>3, <2>3, <2>4, <2>5, <2>6, <2>7
  <1>4. CASE ~(w > 0 /\ Supports(b, k))
    <2>1. Stretch(t, b, k) = <<>>
      BY <1>1, <1>4 DEF Stretch
    <2>2. \A any : Times(<<>>, any) = 0
      <3> TAKE any
      <3>1. {i \in 1..Len(<<>>) : <<>>[i] = any} = {}
        OBVIOUS
      <3> QED
        BY <3>1, FS_EmptySet DEF Times
    <2>3. <<>> \in Seq(K)
      OBVIOUS
    <2> QED
      BY <1>1, <1>4, <2>1, <2>2, <2>3
  <1> QED
    BY <1>3, <1>4

(* The mix of Driver.Run: it holds planned kinds only, and each of them      *)
(* exactly the turns of its target, whatever the order of the lanes' map.    *)
THEOREM TurnsInMix ==
  ASSUME NEW t, IsTarget(t), NEW b, NEW order \in SetToSeqs(Planned(t, b))
  PROVE  /\ Weighted(t, b, order) \in Seq(Planned(t, b))
         /\ \A k \in Planned(t, b) :
              Times(Weighted(t, b, order), k)
                = IF t.lanes[k].inflight > 0 THEN Reps(t.lanes[k].inflight) ELSE 0
  <1>1. PICK K : K = Planned(t, b)
    OBVIOUS
  <1>2. /\ order \in Seq(K)
        /\ \A i, j \in 1..Len(order) : i # j => order[i] # order[j]
        /\ \A k \in K : \E p \in 1..Len(order) : order[p] = k
    BY <1>1, PlannedFinite, OrderIsComplete
  <1>3. K \subseteq DOMAIN t.lanes /\ \A k \in K : Supports(b, k)
    BY <1>1 DEF Planned
  <1>4. PICK s : s = [i \in 1..Len(order) |-> Stretch(t, b, order[i])]
    OBVIOUS
  <1>5. \A i \in 1..Len(order) : order[i] \in K
    BY <1>2
  <1>6. \A i \in 1..Len(order) : Stretch(t, b, order[i]) \in Seq(K)
    BY <1>3, <1>5, StretchIn
  <1>7. Len(order) \in Nat
    BY <1>2
  <1>8. s \in Seq(Seq(K)) /\ Len(s) = Len(order)
    BY <1>4, <1>6, <1>7
  <1>9. Weighted(t, b, order) = FlattenSeq(s)
    BY <1>4 DEF Weighted
  <1>10. FlattenSeq(s) \in Seq(K)
    BY <1>8, FlattenIn
  <1>11. ASSUME NEW k \in K
         PROVE  Times(FlattenSeq(s), k) = IF t.lanes[k].inflight > 0 THEN Reps(t.lanes[k].inflight) ELSE 0
    <2>1. PICK p \in 1..Len(order) : order[p] = k
      BY <1>2
    <2>2. \A i \in 1..Len(order) : s[i] = Stretch(t, b, order[i])
      BY <1>4
    <2>3. ASSUME NEW i \in 1..Len(s), i # p
          PROVE  Times(s[i], k) = 0
      <3>1. PICK j \in K : j # k /\ s[i] = Stretch(t, b, j)
        <4>1. order[i] # k /\ order[i] \in K /\ s[i] = Stretch(t, b, order[i])
          BY <1>2, <1>5, <1>8, <2>1, <2>2, <2>3
        <4> QED
          BY <4>1
      <3>2. \A other : other # j => Times(Stretch(t, b, j), other) = 0
        BY <1>3, StretchIn
      <3> QED
        BY <3>1, <3>2
    <2>4. Times(FlattenSeq(s), k) = Times(s[p], k)
      BY <1>8, <2>1, <2>3, TimesInFlatten
    <2>5. s[p] = Stretch(t, b, k)
      BY <2>1, <2>2
    <2> QED
      BY <1>3, <2>4, <2>5, StretchIn
  <1> QED
    BY <1>1, <1>9, <1>10, <1>11

-----------------------------------------------------------------------------
(* The endpoint the load is sent to is that of a node of the file. *)
LEMMA PrimaryIsANode ==
  ASSUME NEW t, IsTarget(t), Len(t.nodes) > 0
  PROVE  \E i \in 1..Len(t.nodes) : PrimaryJSONRPC(t) = t.nodes[i].jsonrpc
  <1> DEFINE full == {i \in 1..Len(t.nodes) : t.nodes[i].role = "fullnode"}
  <1>1. Len(t.nodes) \in Nat
    BY DEF IsTarget
  <1>2. CASE full = {}
    BY <1>1, <1>2 DEF PrimaryJSONRPC
  <1>3. CASE full # {}
    <2>1. full \in SUBSET Nat
      BY <1>1
    <2>2. PICK x \in full : \A y \in full : x <= y
      BY <1>3, <2>1, LeastOf
    <2>3. Min(full) \in full
      BY <2>2 DEF Min
    <2> QED
      BY <1>3, <2>3 DEF PrimaryJSONRPC
  <1> QED
    BY <1>2, <1>3

-----------------------------------------------------------------------------
(* What the Builder knows of a deployment, by type.                          *)
Abilities == [hasToken : BOOLEAN, hasPool : BOOLEAN, hasCallee : BOOLEAN, hasDestr : BOOLEAN,
              sameToken : BOOLEAN]

LEMMA BuilderKnows ==
  ASSUME NEW file \in Deployments
  PROVE  NewBuilder(file) \in Abilities /\ (NewBuilder(file).sameToken => NewBuilder(file).hasToken)
  <1>1. /\ (file.tokens # <<>>) \in BOOLEAN /\ (file.pools # <<>>) \in BOOLEAN
        /\ (file.tokens # <<>> /\ file.pools # <<>> /\ Head(file.pools) = Head(file.tokens)) \in BOOLEAN
    OBVIOUS
  <1>2. file.callee \in BOOLEAN /\ file.destr \in BOOLEAN
    BY DEF Deployments
  <1> QED
    BY <1>1, <1>2, Zenon DEF NewBuilder, Abilities
=============================================================================
