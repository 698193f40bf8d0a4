---- MODULE Sums ----
(***************************************************************************)
(* Lemmas about the sum of a function over a finite set, the community     *)
(* modules' SumFunctionOnSet, which is a recursive function on the subsets *)
(* of that set.  They rest on an induction over finite sets that is stated *)
(* about a set of sets: a smallest counterexample is one of the smallest   *)
(* cardinality, and a set of natural numbers has a smallest element.       *)
(***************************************************************************)
EXTENDS FiniteSetsExt, FiniteSetTheorems, WellFoundedInduction, TLAPS

----------------------------------------------------------------------------
(* A set of natural numbers has a smallest element.                        *)
LEMMA SmallestNumber ==
    ASSUME NEW T \in SUBSET Nat, T # {}
    PROVE  \E x \in T : \A y \in T : x <= y
  <1> DEFINE R == OpToRel(<, Nat)
  <1>1. IsWellFoundedOn(R, Nat) BY NatLessThanWellFounded
  <1>2. \A x, y \in Nat : <<y, x>> \in R <=> y < x BY DEF OpToRel
  <1> HIDE DEF R
  <1>3. \E x \in T : \A y \in T : ~(<<y, x>> \in R) BY <1>1, WFMin
  <1>4. PICK x \in T : \A y \in T : ~(<<y, x>> \in R) BY <1>3
  <1>5. \A y \in T : x \in Nat /\ y \in Nat /\ ~(y < x) BY <1>2, <1>4
  <1> QED BY <1>5

LEMMA OneSmaller ==
    ASSUME NEW S, IsFiniteSet(S), NEW x \in S
    PROVE  /\ IsFiniteSet(S \ {x}) /\ Cardinality(S \ {x}) \in Nat /\ Cardinality(S) \in Nat
           /\ Cardinality(S \ {x}) = Cardinality(S) - 1
  BY FS_RemoveElement, FS_CardinalityType

(* Induction over the subsets of a finite set: a collection that has the   *)
(* empty set, and with a set all that have one element more, has it too.   *)
LEMMA SetInduction ==
    ASSUME NEW S, IsFiniteSet(S), NEW C, {} \in C,
           \A s \in C : s \subseteq S => \A x \in S \ s : s \cup {x} \in C
    PROVE  S \in C
  <1> SUFFICES ASSUME S \notin C PROVE FALSE
    OBVIOUS
  <1> DEFINE T == {k \in Nat : \E s \in SUBSET S : s \notin C /\ Cardinality(s) = k}
  <1>1. \A s \in SUBSET S : IsFiniteSet(s) /\ Cardinality(s) \in Nat
    BY FS_Subset, FS_CardinalityType
  <1>2. T # {} BY <1>1
  <1>3. PICK k \in T : \A l \in T : k <= l
    <2> HIDE DEF T
    <2>1. T \in SUBSET Nat BY DEF T
    <2> QED BY <1>2, <2>1, SmallestNumber
  <1>4. PICK s \in SUBSET S : s \notin C /\ Cardinality(s) = k BY <1>3
  <1>5. PICK x \in s : TRUE BY <1>4
  <1>6. /\ IsFiniteSet(s \ {x}) /\ Cardinality(s \ {x}) \in Nat /\ Cardinality(s) \in Nat
        /\ Cardinality(s \ {x}) = Cardinality(s) - 1
    BY <1>1, OneSmaller
  <1>7. s \ {x} \in C
    <2>1. k \in Nat /\ Cardinality(s \ {x}) = k - 1 BY <1>3, <1>4, <1>6
    <2>2. ~(k <= k - 1) BY <2>1
    <2>3. Cardinality(s \ {x}) \notin T
      <3> HIDE DEF T
      <3> QED BY <1>3, <2>1, <2>2
    <2> QED BY <1>6, <2>3
  <1>8. (s \ {x}) \cup {x} = s BY <1>5
  <1>9. x \in S \ (s \ {x}) /\ s \ {x} \subseteq S BY <1>5
  <1> QED BY <1>4, <1>7, <1>8, <1>9

----------------------------------------------------------------------------
(* The recursive function behind the sum, on a set D of sets.              *)

Pick(s) == CHOOSE x \in s : TRUE
Partial(f, D) ==
    CHOOSE iter : iter = [s \in D |-> IF s = {} THEN 0
                                      ELSE f[Pick(s)] + iter[s \ {Pick(s)}]]

LEMMA SumIsPartial ==
    ASSUME NEW f, NEW S
    PROVE  SumFunctionOnSet(f, S) = Partial(f, SUBSET S)[S]
  BY DEF SumFunctionOnSet, FoldFunctionOnSet, MapThenFoldSet, Partial, Pick

IsPartial(g, f, D) ==
    g = [s \in D |-> IF s = {} THEN 0 ELSE f[Pick(s)] + g[s \ {Pick(s)}]]

(* There is such a function on the subsets of a finite set: it is extended *)
(* from those of at most k elements to those of k + 1.                     *)
LEMMA PartialExists ==
    ASSUME NEW f, NEW S, IsFiniteSet(S)
    PROVE  IsPartial(Partial(f, SUBSET S), f, SUBSET S)
  <1> DEFINE D(k) == {s \in SUBSET S : Cardinality(s) <= k}
             T == {k \in Nat : ~ \E g : IsPartial(g, f, D(k))}
  <1>1. \A s \in SUBSET S : IsFiniteSet(s) /\ Cardinality(s) \in Nat
    BY FS_Subset, FS_CardinalityType
  <1>2. \A s \in SUBSET S : s # {} =>
            /\ Pick(s) \in s /\ s \ {Pick(s)} \in SUBSET S
            /\ Cardinality(s \ {Pick(s)}) = Cardinality(s) - 1
    <2> SUFFICES ASSUME NEW s \in SUBSET S, s # {}
                 PROVE  Pick(s) \in s /\ Cardinality(s \ {Pick(s)}) = Cardinality(s) - 1
      OBVIOUS
    <2>1. Pick(s) \in s BY DEF Pick
    <2> QED BY <1>1, <2>1, OneSmaller
  <1>3. T = {}
    <2> SUFFICES ASSUME T # {} PROVE FALSE
      OBVIOUS
    <2>1. PICK k \in T : \A l \in T : k <= l
      <3> HIDE DEF T
      <3>1. T \in SUBSET Nat BY DEF T
      <3> QED BY <3>1, SmallestNumber
    <2>2. k \in Nat /\ ~ \E g : IsPartial(g, f, D(k)) BY <2>1
    <2>3. CASE k = 0
      <3>1. \A s \in D(0) : s = {} BY <1>1, FS_EmptySet
      <3>2. IsPartial([s \in D(0) |-> 0], f, D(0)) BY <3>1 DEF IsPartial
      <3> QED BY <2>2, <2>3, <3>2
    <2>4. CASE k # 0
      <3>0. k - 1 \in Nat /\ ~(k <= k - 1) BY <2>2, <2>4
      <3>1. k - 1 \notin T
        <4> HIDE DEF T
        <4> QED BY <2>1, <3>0
      <3>2. PICK g : IsPartial(g, f, D(k - 1)) BY <3>0, <3>1
      <3> DEFINE h == [s \in D(k) |-> IF s = {} THEN 0 ELSE f[Pick(s)] + g[s \ {Pick(s)}]]
      <3>3. \A s \in D(k) : s # {} => s \ {Pick(s)} \in D(k - 1) BY <1>1, <1>2, <2>2
      <3>4. \A s \in D(k - 1) : s \in D(k) /\ h[s] = g[s]
        <4>1. \A s \in D(k - 1) : s \in D(k) BY <1>1, <2>2
        <4> HIDE DEF D
        <4> QED BY <3>2, <4>1 DEF IsPartial
      <3>5. IsPartial(h, f, D(k))
        <4>1. \A s \in D(k) : s # {} => h[s \ {Pick(s)}] = g[s \ {Pick(s)}] BY <3>3, <3>4
        <4> HIDE DEF D
        <4> QED BY <4>1 DEF IsPartial
      <3> QED BY <2>2, <3>5
    <2> QED BY <2>3, <2>4
  <1>4. D(Cardinality(S)) = SUBSET S
    <2>1. \A s \in SUBSET S : Cardinality(s) <= Cardinality(S) BY FS_Subset
    <2> QED BY <2>1
  <1>5. \E g : IsPartial(g, f, SUBSET S)
    <2>1. Cardinality(S) \in Nat \ T BY <1>1, <1>3
    <2>2. \E g : IsPartial(g, f, D(Cardinality(S))) BY <2>1
    <2> HIDE DEF D
    <2> QED BY <1>4, <2>2
  <1> QED BY <1>5 DEF Partial, IsPartial

(* And it is the same for a smaller set.                                   *)
LEMMA PartialUnique ==
    ASSUME NEW f, NEW S, IsFiniteSet(S), NEW R \in SUBSET S
    PROVE  Partial(f, SUBSET S)[R] = Partial(f, SUBSET R)[R]
  <1> DEFINE g == Partial(f, SUBSET S)
             h == Partial(f, SUBSET R)
  <1>0. IsPartial(g, f, SUBSET S) /\ IsPartial(h, f, SUBSET R)
    BY FS_Subset, PartialExists
  <1> HIDE DEF g, h
  <1> DEFINE T == {k \in Nat : \E s \in SUBSET R : Cardinality(s) = k /\ g[s] # h[s]}
  <1> SUFFICES ASSUME g[R] # h[R] PROVE FALSE
    BY DEF g, h
  <1>1. \A s \in SUBSET R : IsFiniteSet(s) /\ Cardinality(s) \in Nat
    BY FS_Subset, FS_CardinalityType
  <1>2. T # {} BY <1>1
  <1>3. PICK k \in T : \A l \in T : k <= l
    <2> HIDE DEF T
    <2>1. T \in SUBSET Nat BY DEF T
    <2> QED BY <1>2, <2>1, SmallestNumber
  <1>4. PICK s \in SUBSET R : Cardinality(s) = k /\ g[s] # h[s] BY <1>3
  <1>5. s # {} BY <1>0, <1>4 DEF IsPartial
  <1>6. Pick(s) \in s BY <1>5 DEF Pick
  <1> DEFINE t == s \ {Pick(s)}
  <1>7. Cardinality(t) \in Nat /\ Cardinality(t) = k - 1
    BY <1>1, <1>4, <1>6, OneSmaller
  <1>8. t \in SUBSET R /\ g[t] = h[t]
    <2>1. k \in Nat /\ ~(k <= k - 1) BY <1>3
    <2>2. Cardinality(t) \notin T
      <3> HIDE DEF T
      <3> QED BY <1>3, <1>7, <2>1
    <2> QED BY <1>7, <2>2
  <1>9. g[s] = f[Pick(s)] + g[t] /\ h[s] = f[Pick(s)] + h[t]
    BY <1>0, <1>5 DEF IsPartial
  <1> QED BY <1>4, <1>8, <1>9

(* The sum over no elements, and over some: one of them and the others.    *)
LEMMA SumOfNone == \A f : SumFunctionOnSet(f, {}) = 0
  <1> SUFFICES ASSUME NEW f PROVE SumFunctionOnSet(f, {}) = 0
    OBVIOUS
  <1>1. IsPartial(Partial(f, SUBSET {}), f, SUBSET {}) BY PartialExists, FS_EmptySet
  <1>2. Partial(f, SUBSET {})[{}] = 0 BY <1>1 DEF IsPartial
  <1> QED BY <1>2, SumIsPartial

LEMMA SumOfSome ==
    ASSUME NEW f, NEW S, IsFiniteSet(S), S # {}
    PROVE  SumFunctionOnSet(f, S) = f[Pick(S)] + SumFunctionOnSet(f, S \ {Pick(S)})
  <1> DEFINE R == S \ {Pick(S)}
  <1>1. /\ SumFunctionOnSet(f, S) = Partial(f, SUBSET S)[S]
        /\ SumFunctionOnSet(f, R) = Partial(f, SUBSET R)[R]
    BY SumIsPartial
  <1>2. Partial(f, SUBSET S)[S] = f[Pick(S)] + Partial(f, SUBSET S)[R]
    <2> DEFINE g == Partial(f, SUBSET S)
    <2>1. IsPartial(g, f, SUBSET S) BY PartialExists
    <2> HIDE DEF g
    <2>2. g[S] = f[Pick(S)] + g[R] BY <2>1 DEF IsPartial
    <2> QED BY <2>2 DEF g
  <1>3. Partial(f, SUBSET S)[R] = Partial(f, SUBSET R)[R] BY PartialUnique
  <1> QED BY <1>1, <1>2, <1>3

----------------------------------------------------------------------------
(* Sums of natural numbers: f has one for each element of S.               *)

Natural(f, S) == \A x \in S : f[x] \in Nat

LEMMA SumNatural ==
    ASSUME NEW f, NEW S, IsFiniteSet(S), Natural(f, S)
    PROVE  SumFunctionOnSet(f, S) \in Nat
  <1> DEFINE T == {k \in Nat : \E s \in SUBSET S : /\ Cardinality(s) = k
                                                  /\ SumFunctionOnSet(f, s) \notin Nat}
  <1> SUFFICES ASSUME SumFunctionOnSet(f, S) \notin Nat PROVE FALSE
    OBVIOUS
  <1>1. \A s \in SUBSET S : IsFiniteSet(s) /\ Cardinality(s) \in Nat
    BY FS_Subset, FS_CardinalityType
  <1>2. T # {} BY <1>1
  <1>3. PICK k \in T : \A l \in T : k <= l
    <2> HIDE DEF T
    <2>1. T \in SUBSET Nat BY DEF T
    <2> QED BY <1>2, <2>1, SmallestNumber
  <1>4. PICK s \in SUBSET S : Cardinality(s) = k /\ SumFunctionOnSet(f, s) \notin Nat
    BY <1>3
  <1>5. s # {} BY <1>4, SumOfNone
  <1>6. Pick(s) \in s /\ f[Pick(s)] \in Nat BY <1>5 DEF Pick, Natural
  <1> DEFINE t == s \ {Pick(s)}
  <1>7. Cardinality(t) \in Nat /\ Cardinality(t) = k - 1
    BY <1>1, <1>4, <1>6, OneSmaller
  <1>8. SumFunctionOnSet(f, t) \in Nat
    <2>1. k \in Nat /\ ~(k <= k - 1) BY <1>3
    <2>2. Cardinality(t) \notin T
      <3> HIDE DEF T
      <3> QED BY <1>3, <1>7, <2>1
    <2> QED BY <1>7, <2>2
  <1>9. SumFunctionOnSet(f, s) = f[Pick(s)] + SumFunctionOnSet(f, t)
    BY <1>1, <1>5, SumOfSome
  <1> QED BY <1>4, <1>6, <1>8, <1>9

LEMMA SumOfPart ==
    ASSUME NEW f, NEW S, IsFiniteSet(S), Natural(f, S), NEW R \in SUBSET S
    PROVE  IsFiniteSet(R) /\ SumFunctionOnSet(f, R) \in Nat
  BY FS_Subset, SumNatural DEF Natural

(* An element more adds its number.  Which element a set picks does not    *)
(* matter: by induction on the size of the set.                            *)
LEMMA SumWithOneMore ==
    ASSUME NEW f, NEW S, IsFiniteSet(S), NEW x \in S, Natural(f, S)
    PROVE  SumFunctionOnSet(f, S) = SumFunctionOnSet(f, S \ {x}) + f[x]
  <1> DEFINE Adds(s, y) == SumFunctionOnSet(f, s) = SumFunctionOnSet(f, s \ {y}) + f[y]
             T == {k \in Nat : \E s \in SUBSET S, y \in S : y \in s /\ Cardinality(s) = k /\ ~Adds(s, y)}
  <1> SUFFICES ASSUME ~Adds(S, x) PROVE FALSE
    OBVIOUS
  <1>1. \A s \in SUBSET S : IsFiniteSet(s) /\ Cardinality(s) \in Nat
    BY FS_Subset, FS_CardinalityType
  <1>2. T # {} BY <1>1
  <1>3. PICK k \in T : \A l \in T : k <= l
    <2> HIDE DEF T
    <2>1. T \in SUBSET Nat BY DEF T
    <2> QED BY <1>2, <2>1, SmallestNumber
  <1>4. PICK s \in SUBSET S, y \in S : y \in s /\ Cardinality(s) = k /\ ~Adds(s, y)
    BY <1>3
  <1> DEFINE p == Pick(s)
  <1>5. p \in s BY <1>4 DEF Pick
  <1>6. SumFunctionOnSet(f, s) = f[p] + SumFunctionOnSet(f, s \ {p})
    BY <1>1, <1>4, SumOfSome
  <1>7. \A t \in SUBSET S : SumFunctionOnSet(f, t) \in Nat BY SumOfPart
  <1>8. \A z \in S : f[z] \in Nat BY DEF Natural
  <1>9. p # y
    <2>1. f[p] + SumFunctionOnSet(f, s \ {p}) = SumFunctionOnSet(f, s \ {p}) + f[p]
      BY <1>5, <1>7, <1>8
    <2> QED BY <1>4, <1>6, <2>1
  <1>10. \A z \in s : \A v \in s \ {z} : Adds(s \ {z}, v)
    <2> SUFFICES ASSUME NEW z \in s, NEW v \in s \ {z} PROVE Adds(s \ {z}, v)
      OBVIOUS
    <2>1. Cardinality(s \ {z}) \in Nat /\ Cardinality(s \ {z}) = k - 1
      BY <1>1, <1>4, OneSmaller
    <2>2. k \in Nat /\ ~(k <= k - 1) BY <1>3
    <2>3. Cardinality(s \ {z}) \notin T
      <3> HIDE DEF T
      <3> QED BY <1>3, <2>1, <2>2
    <2> HIDE DEF Adds
    <2> QED BY <2>1, <2>3
  <1> DEFINE r == (s \ {p}) \ {y}
  <1>11. (s \ {y}) \ {p} = r OBVIOUS
  <1>12. Adds(s \ {p}, y) /\ Adds(s \ {y}, p) BY <1>4, <1>5, <1>9, <1>10
  <1>13. /\ SumFunctionOnSet(f, s \ {p}) = SumFunctionOnSet(f, r) + f[y]
         /\ SumFunctionOnSet(f, s \ {y}) = SumFunctionOnSet(f, r) + f[p]
    BY <1>11, <1>12
  <1>14. SumFunctionOnSet(f, r) \in Nat /\ f[y] \in Nat /\ f[p] \in Nat
    BY <1>5, <1>7, <1>8
  <1> HIDE DEF p, r
  <1>15. SumFunctionOnSet(f, s) = SumFunctionOnSet(f, s \ {y}) + f[y]
    BY <1>6, <1>13, <1>14
  <1> QED BY <1>4, <1>15

LEMMA SumWithNew ==
    ASSUME NEW f, NEW S, IsFiniteSet(S), NEW x, x \notin S, Natural(f, S \cup {x})
    PROVE  SumFunctionOnSet(f, S \cup {x}) = SumFunctionOnSet(f, S) + f[x]
  <1> DEFINE U == S \cup {x}
  <1>1. IsFiniteSet(U) BY FS_AddElement
  <1>2. U \ {x} = S /\ x \in U OBVIOUS
  <1> HIDE DEF U
  <1>3. SumFunctionOnSet(f, U) = SumFunctionOnSet(f, U \ {x}) + f[x]
    BY <1>1, <1>2, SumWithOneMore DEF U
  <1> QED BY <1>2, <1>3 DEF U

(* Functions that agree on a set have the same sum over it.                *)
LEMMA SumOfSame ==
    ASSUME NEW f, NEW g, NEW S, IsFiniteSet(S), Natural(f, S), \A x \in S : g[x] = f[x]
    PROVE  SumFunctionOnSet(g, S) = SumFunctionOnSet(f, S)
  <1> DEFINE C == {s \in SUBSET S : SumFunctionOnSet(g, s) = SumFunctionOnSet(f, s)}
  <1>1. {} \in C BY SumOfNone
  <1>2. ASSUME NEW s \in C, NEW x \in S \ s PROVE s \cup {x} \in C
    <2>1. IsFiniteSet(s) BY FS_Subset
    <2>2. Natural(f, s \cup {x}) /\ Natural(g, s \cup {x}) BY DEF Natural
    <2>3. /\ SumFunctionOnSet(f, s \cup {x}) = SumFunctionOnSet(f, s) + f[x]
          /\ SumFunctionOnSet(g, s \cup {x}) = SumFunctionOnSet(g, s) + g[x]
      BY <2>1, <2>2, SumWithNew
    <2> QED BY <2>3
  <1> HIDE DEF C
  <1>3. S \in C BY <1>1, <1>2, SetInduction
  <1> QED BY <1>3 DEF C

(* Sums add up.                                                            *)
LEMMA SumOfSums ==
    ASSUME NEW f, NEW g, NEW h, NEW S, IsFiniteSet(S), Natural(f, S), Natural(g, S),
           \A x \in S : h[x] = f[x] + g[x]
    PROVE  SumFunctionOnSet(h, S) = SumFunctionOnSet(f, S) + SumFunctionOnSet(g, S)
  <1> DEFINE C == {s \in SUBSET S : SumFunctionOnSet(h, s)
                                       = SumFunctionOnSet(f, s) + SumFunctionOnSet(g, s)}
  <1>1. {} \in C BY SumOfNone
  <1>2. ASSUME NEW s \in C, NEW x \in S \ s PROVE s \cup {x} \in C
    <2>1. IsFiniteSet(s) BY FS_Subset
    <2>2. /\ Natural(f, s \cup {x}) /\ Natural(g, s \cup {x}) /\ Natural(h, s \cup {x})
          /\ f[x] \in Nat /\ g[x] \in Nat /\ h[x] = f[x] + g[x]
      BY DEF Natural
    <2>3. /\ SumFunctionOnSet(f, s \cup {x}) = SumFunctionOnSet(f, s) + f[x]
          /\ SumFunctionOnSet(g, s \cup {x}) = SumFunctionOnSet(g, s) + g[x]
          /\ SumFunctionOnSet(h, s \cup {x}) = SumFunctionOnSet(h, s) + h[x]
      BY <2>1, <2>2, SumWithNew
    <2>4. SumFunctionOnSet(f, s) \in Nat /\ SumFunctionOnSet(g, s) \in Nat
      BY SumOfPart
    <2>5. SumFunctionOnSet(h, s) = SumFunctionOnSet(f, s) + SumFunctionOnSet(g, s)
      OBVIOUS
    <2>6. SumFunctionOnSet(h, s \cup {x})
            = SumFunctionOnSet(f, s \cup {x}) + SumFunctionOnSet(g, s \cup {x})
      BY <2>2, <2>3, <2>4, <2>5
    <2> QED BY <2>6
  <1> HIDE DEF C
  <1>3. S \in C BY <1>1, <1>2, SetInduction
  <1> QED BY <1>3 DEF C

(* So do those of a part of a set and of its rest.                         *)
LEMMA SumOfParts ==
    ASSUME NEW f, NEW S, IsFiniteSet(S), Natural(f, S), NEW R \in SUBSET S
    PROVE  SumFunctionOnSet(f, S) = SumFunctionOnSet(f, R) + SumFunctionOnSet(f, S \ R)
  <1> DEFINE C == {s \in SUBSET R : SumFunctionOnSet(f, S)
                                       = SumFunctionOnSet(f, s) + SumFunctionOnSet(f, S \ s)}
  <1>1. {} \in C
    <2>1. S \ {} = S /\ SumFunctionOnSet(f, S) \in Nat BY SumNatural
    <2> QED BY <2>1, SumOfNone
  <1>2. ASSUME NEW s \in C, NEW x \in R \ s PROVE s \cup {x} \in C
    <2> DEFINE u == s \cup {x}
               v == S \ s
    <2>1. IsFiniteSet(s) /\ IsFiniteSet(v) /\ x \in v /\ v \ {x} = S \ u BY FS_Subset
    <2>2. Natural(f, u) /\ Natural(f, v) /\ f[x] \in Nat BY DEF Natural
    <2>3. SumFunctionOnSet(f, u) = SumFunctionOnSet(f, s) + f[x]
      BY <2>1, <2>2, SumWithNew
    <2>4. SumFunctionOnSet(f, v) = SumFunctionOnSet(f, S \ u) + f[x]
      <3> HIDE DEF v
      <3>1. SumFunctionOnSet(f, v) = SumFunctionOnSet(f, v \ {x}) + f[x]
        BY <2>1, <2>2, SumWithOneMore
      <3> QED BY <2>1, <3>1
    <2>5. SumFunctionOnSet(f, s) \in Nat /\ SumFunctionOnSet(f, S \ u) \in Nat
      BY SumOfPart
    <2>6. SumFunctionOnSet(f, S) = SumFunctionOnSet(f, s) + SumFunctionOnSet(f, v)
      OBVIOUS
    <2>7. SumFunctionOnSet(f, S) = SumFunctionOnSet(f, u) + SumFunctionOnSet(f, S \ u)
      <3> HIDE DEF u, v
      <3> QED BY <2>2, <2>3, <2>4, <2>5, <2>6
    <2> QED BY <2>7
  <1> HIDE DEF C
  <1>3. IsFiniteSet(R) BY FS_Subset
  <1>4. R \in C BY <1>1, <1>2, <1>3, SetInduction
  <1> QED BY <1>4 DEF C

(* Elements that count for nothing may be left out.                        *)
LEMMA SumOfZeros ==
    ASSUME NEW f, NEW S, IsFiniteSet(S), NEW R \in SUBSET S, Natural(f, S),
           \A x \in S \ R : f[x] = 0
    PROVE  SumFunctionOnSet(f, S) = SumFunctionOnSet(f, R)
  <1> DEFINE Q == S \ R
             C == {s \in SUBSET Q : SumFunctionOnSet(f, s) = 0}
  <1>1. {} \in C BY SumOfNone
  <1>2. ASSUME NEW s \in C, NEW x \in Q \ s PROVE s \cup {x} \in C
    <2>1. IsFiniteSet(s) /\ Natural(f, s \cup {x}) /\ f[x] = 0 BY FS_Subset DEF Natural
    <2>2. SumFunctionOnSet(f, s \cup {x}) = SumFunctionOnSet(f, s) + f[x]
      BY <2>1, SumWithNew
    <2> QED BY <2>1, <2>2
  <1>3. IsFiniteSet(Q) BY FS_Subset
  <1> HIDE DEF C
  <1>4. Q \in C BY <1>1, <1>2, <1>3, SetInduction
  <1>5. SumFunctionOnSet(f, Q) = 0 BY <1>4 DEF C
  <1>6. SumFunctionOnSet(f, R) \in Nat BY SumOfPart
  <1> QED BY <1>5, <1>6, SumOfParts

(* One element that counts for v more makes the sum v more.                *)
LEMMA SumOfMore ==
    ASSUME NEW f, NEW g, NEW S, IsFiniteSet(S), Natural(f, S), NEW x \in S, NEW v \in Nat,
           g[x] = f[x] + v, \A y \in S \ {x} : g[y] = f[y]
    PROVE  SumFunctionOnSet(g, S) = SumFunctionOnSet(f, S) + v
  <1>1. Natural(g, S) /\ Natural(f, S \ {x}) /\ f[x] \in Nat BY DEF Natural
  <1>2. IsFiniteSet(S \ {x}) BY FS_Subset
  <1>3. SumFunctionOnSet(g, S \ {x}) = SumFunctionOnSet(f, S \ {x})
    BY <1>1, <1>2, SumOfSame
  <1>4. /\ SumFunctionOnSet(f, S) = SumFunctionOnSet(f, S \ {x}) + f[x]
        /\ SumFunctionOnSet(g, S) = SumFunctionOnSet(g, S \ {x}) + g[x]
    BY <1>1, SumWithOneMore
  <1>5. SumFunctionOnSet(f, S \ {x}) \in Nat BY SumOfPart
  <1> QED BY <1>1, <1>3, <1>4, <1>5
====
