------------------------------ MODULE DataLemmas ------------------------------
(***************************************************************************)
(* Facts about natural numbers, finite sets, their enumerations and sums   *)
(* over them on which the proofs of several components rest.  The          *)
(* induction theorems of the library take the statement to prove as an     *)
(* operator; here induction is over the set of the numbers for which the   *)
(* statement holds.                                                        *)
(***************************************************************************)
EXTENDS Data, SequencesExt, Integers, FiniteSetTheorems, WellFoundedInduction, TLAPS

Pick(S) == CHOOSE x \in S : TRUE

SumEq(w, S, f) == f = [s \in SUBSET S |-> IF s = {} THEN 0 ELSE w[Pick(s)] + f[s \ {Pick(s)}]]

LEMMA SumIter ==
  ASSUME NEW w, NEW S
  PROVE  SumOf(w, S) = (CHOOSE f : SumEq(w, S, f))[S]
BY DEF SumOf, MapThenSumSet, MapThenFoldSet, SumEq, Pick

NatLess == {p \in Nat \X Nat : p[1] < p[2]}

LEMMA NatLessWellFounded == IsWellFoundedOn(NatLess, Nat)
<1>1. NatLess = OpToRel(<, Nat)
  BY Zenon DEF NatLess, OpToRel
<1> QED BY <1>1, NatLessThanWellFounded, Zenon

LEMMA NatSetInduction ==
  ASSUME NEW G, 0 \in G, \A n \in Nat : n \in G => n + 1 \in G
  PROVE  Nat \subseteq G
<1>1. SUFFICES ASSUME Nat \ G # {} PROVE FALSE
  OBVIOUS
<1>2. PICK m \in Nat \ G : \A k \in Nat \ G : <<k, m>> \notin NatLess
  BY <1>1, NatLessWellFounded, WFMin, Zenon
<1>3. m # 0 /\ m - 1 \in Nat /\ m = (m - 1) + 1
  OBVIOUS
<1>4. m - 1 \notin G
  BY <1>3
<1>5. <<m - 1, m>> \in NatLess
  BY <1>3 DEF NatLess
<1> QED BY <1>2, <1>3, <1>4, <1>5

LEMMA SumExists ==
  ASSUME NEW w, NEW S, IsFiniteSet(S)
  PROVE  \E f : SumEq(w, S, f)
<1> DEFINE Ok(f, s) == f[s] = IF s = {} THEN 0 ELSE w[Pick(s)] + f[s \ {Pick(s)}]
           G == {n \in Nat : \E f : \A s \in SUBSET S : Cardinality(s) <= n => Ok(f, s)}
<1>0. \A s \in SUBSET S : IsFiniteSet(s) /\ Cardinality(s) \in Nat
  BY FS_Subset, FS_CardinalityType
<1>1. \A s \in SUBSET S : s # {} => /\ Pick(s) \in s
                                    /\ s \ {Pick(s)} \in SUBSET S
                                    /\ Cardinality(s \ {Pick(s)}) = Cardinality(s) - 1
  BY <1>0, FS_RemoveElement DEF Pick
<1>2. 0 \in G
  <2> DEFINE f == [s \in SUBSET S |-> 0]
  <2>1. \A s \in SUBSET S : Cardinality(s) <= 0 => Ok(f, s)
    BY <1>0, FS_EmptySet
  <2> QED BY <2>1
<1>3. ASSUME NEW n \in Nat, n \in G  PROVE n + 1 \in G
  <2>1. PICK f : \A s \in SUBSET S : Cardinality(s) <= n => Ok(f, s)
    BY <1>3
  <2> DEFINE h == [s \in SUBSET S |-> IF Cardinality(s) <= n THEN f[s]
                                     ELSE w[Pick(s)] + f[s \ {Pick(s)}]]
  <2>2. ASSUME NEW s \in SUBSET S, Cardinality(s) <= n + 1  PROVE Ok(h, s)
    <3>1. CASE s = {}
      <4>1. Cardinality(s) = 0
        BY <3>1, FS_EmptySet
      <4>2. Cardinality(s) <= n
        BY <4>1
      <4>3. Ok(f, s)
        BY <4>2, <2>1
      <4> QED BY <3>1, <4>2, <4>3
    <3>2. CASE s # {}
      <4>1. h[s \ {Pick(s)}] = f[s \ {Pick(s)}]
        BY <3>2, <2>2, <1>0, <1>1
      <4>2. h[s] = w[Pick(s)] + f[s \ {Pick(s)}]
        BY <3>2, <2>1
      <4> QED BY <3>2, <4>1, <4>2
    <3> QED BY <3>1, <3>2
  <2>3. \A s \in SUBSET S : Cardinality(s) <= n + 1 => Ok(h, s)
    BY <2>2
  <2> HIDE DEF h, Ok
  <2> QED BY <2>3
<1>4. Cardinality(S) \in G
  <2> HIDE DEF G
  <2>1. Nat \subseteq G
    BY <1>2, <1>3, NatSetInduction
  <2> QED BY <2>1, FS_CardinalityType
<1>5. PICK f : \A s \in SUBSET S : Cardinality(s) <= Cardinality(S) => Ok(f, s)
  BY <1>4
<1> DEFINE g == [s \in SUBSET S |-> f[s]]
<1>6. \A s \in SUBSET S : Ok(f, s)
  BY <1>5, FS_Subset
<1>7. \A s \in SUBSET S : g[s] = IF s = {} THEN 0 ELSE w[Pick(s)] + g[s \ {Pick(s)}]
  BY <1>6, <1>1
<1>8. g = [s \in SUBSET S |-> IF s = {} THEN 0 ELSE w[Pick(s)] + g[s \ {Pick(s)}]]
  <2>1. g = [s \in SUBSET S |-> g[s]]
    OBVIOUS
  <2> HIDE DEF g
  <2> QED BY <2>1, <1>7
<1> QED BY <1>8 DEF SumEq

LEMMA SumAgrees ==
  ASSUME NEW w, NEW S, IsFiniteSet(S), NEW T \in SUBSET S, NEW f, SumEq(w, S, f)
  PROVE  f[T] = SumOf(w, T)
<1>0. IsFiniteSet(T) /\ \A s \in SUBSET T : IsFiniteSet(s) /\ Cardinality(s) \in Nat
  BY FS_Subset, FS_CardinalityType
<1>1. PICK g : g = (CHOOSE h : SumEq(w, T, h)) /\ SumEq(w, T, g)
  BY <1>0, SumExists
<1> DEFINE G == {n \in Nat : \A s \in SUBSET T : Cardinality(s) <= n => f[s] = g[s]}
<1>2. /\ f[{}] = 0 /\ g[{}] = 0
      /\ \A s \in SUBSET T : s # {} => /\ f[s] = w[Pick(s)] + f[s \ {Pick(s)}]
                                       /\ g[s] = w[Pick(s)] + g[s \ {Pick(s)}]
  BY <1>1 DEF SumEq
<1>3. \A s \in SUBSET T : s # {} => /\ Pick(s) \in s
                                    /\ s \ {Pick(s)} \in SUBSET T
                                    /\ Cardinality(s \ {Pick(s)}) = Cardinality(s) - 1
  BY <1>0, FS_RemoveElement DEF Pick
<1>4. 0 \in G
  BY <1>0, <1>2, FS_EmptySet
<1>5. ASSUME NEW n \in Nat, n \in G  PROVE n + 1 \in G
  <2>1. ASSUME NEW s \in SUBSET T, Cardinality(s) <= n + 1  PROVE f[s] = g[s]
    <3>1. CASE s # {}
      <4>1. f[s \ {Pick(s)}] = g[s \ {Pick(s)}]
        BY <3>1, <2>1, <1>0, <1>3, <1>5
      <4> QED BY <3>1, <4>1, <1>2
    <3> QED BY <3>1, <1>2
  <2> QED BY <2>1
<1>6. Cardinality(T) \in G
  <2> HIDE DEF G
  <2>1. Nat \subseteq G
    BY <1>4, <1>5, NatSetInduction
  <2> QED BY <2>1, <1>0, FS_CardinalityType
<1>7. f[T] = g[T]
  BY <1>6
<1> QED BY <1>1, <1>7, SumIter

LEMMA SumEmpty == ASSUME NEW w PROVE SumOf(w, {}) = 0
<1>1. PICK f : SumEq(w, {}, f)
  BY SumExists, FS_EmptySet
<1>2. f[{}] = 0
  BY <1>1 DEF SumEq
<1> QED BY <1>1, <1>2, SumAgrees, FS_EmptySet

LEMMA SumStep ==
  ASSUME NEW w, NEW S, IsFiniteSet(S), S # {}
  PROVE  SumOf(w, S) = w[Pick(S)] + SumOf(w, S \ {Pick(S)})
<1>1. PICK f : SumEq(w, S, f)
  BY SumExists
<1>2. f[S] = w[Pick(S)] + f[S \ {Pick(S)}]
  BY <1>1 DEF SumEq
<1> QED BY <1>1, <1>2, SumAgrees

LEMMA SumRemove ==
  ASSUME NEW w, NEW S, IsFiniteSet(S), \A x \in S : w[x] \in Nat
  PROVE  /\ SumOf(w, S) \in Nat
         /\ \A x \in S : SumOf(w, S) = w[x] + SumOf(w, S \ {x})
<1> DEFINE Good(s) == /\ SumOf(w, s) \in Nat
                      /\ \A x \in s : SumOf(w, s) = w[x] + SumOf(w, s \ {x})
           G == {n \in Nat : \A s \in SUBSET S : Cardinality(s) <= n => Good(s)}
<1>0. \A s \in SUBSET S : IsFiniteSet(s) /\ Cardinality(s) \in Nat
  BY FS_Subset, FS_CardinalityType
<1>1. \A s \in SUBSET S : \A x \in s : /\ s \ {x} \in SUBSET S
                                       /\ Cardinality(s \ {x}) = Cardinality(s) - 1
  BY <1>0, FS_RemoveElement
<1>2. 0 \in G
  <2>1. ASSUME NEW s \in SUBSET S, Cardinality(s) <= 0  PROVE Good(s)
    <3>1. s = {}
      BY <2>1, <1>0, FS_EmptySet
    <3> QED BY <3>1, SumEmpty
  <2> QED BY <2>1
<1>3. ASSUME NEW n \in Nat, n \in G  PROVE n + 1 \in G
  <2>1. ASSUME NEW s \in SUBSET S, Cardinality(s) <= n + 1, s # {}  PROVE Good(s)
    <3> DEFINE p == Pick(s)
    <3>1. p \in s
      BY <2>1 DEF Pick
    <3>2. SumOf(w, s) = w[p] + SumOf(w, s \ {p})
      BY <2>1, <1>0, SumStep
    <3> HIDE DEF p
    <3>3. \A x \in s : Good(s \ {x})
      <4>1. TAKE x \in s
      <4>2. s \ {x} \in SUBSET S /\ Cardinality(s \ {x}) <= n
        BY <2>1, <1>0, <1>1
      <4> QED BY <4>2, <1>3
    <3>4. ASSUME NEW x \in s, x # p  PROVE SumOf(w, s) = w[x] + SumOf(w, s \ {x})
      <4>1. SumOf(w, s \ {p}) = w[x] + SumOf(w, (s \ {p}) \ {x})
        BY <3>1, <3>3, <3>4
      <4>2. SumOf(w, s \ {x}) = w[p] + SumOf(w, (s \ {x}) \ {p})
        BY <3>1, <3>3, <3>4
      <4>3. (s \ {p}) \ {x} = (s \ {x}) \ {p}
        OBVIOUS
      <4>4. w[x] \in Nat /\ w[p] \in Nat
        BY <3>1
      <4>5. SumOf(w, (s \ {p}) \ {x}) \in Nat
        <5>1. (s \ {p}) \ {x} \in SUBSET S /\ Cardinality((s \ {p}) \ {x}) <= n
          <6>1. s \ {p} \in SUBSET S /\ Cardinality(s \ {p}) = Cardinality(s) - 1 /\ x \in s \ {p}
            BY <3>1, <3>4, <1>1
          <6>2. (s \ {p}) \ {x} \in SUBSET S /\ Cardinality((s \ {p}) \ {x}) = Cardinality(s) - 2
            BY <6>1, <1>0, <1>1
          <6> QED BY <6>2, <2>1, <1>0
        <5> QED BY <5>1, <1>3
      <4> QED BY <4>1, <4>2, <4>3, <4>4, <4>5, <3>2
    <3>5. SumOf(w, s) \in Nat
      <4>1. w[p] \in Nat /\ SumOf(w, s \ {p}) \in Nat
        BY <3>1, <3>3
      <4> QED BY <4>1, <3>2
    <3> QED BY <3>2, <3>4, <3>5
  <2>2. ASSUME NEW s \in SUBSET S, s = {}  PROVE Good(s)
    BY <2>2, SumEmpty
  <2> HIDE DEF Good
  <2> QED BY <2>1, <2>2
<1>4. Cardinality(S) \in G
  <2> HIDE DEF G
  <2>1. Nat \subseteq G
    BY <1>2, <1>3, NatSetInduction
  <2> QED BY <2>1, FS_CardinalityType
<1> QED BY <1>4, <1>0

LEMMA SumNatural ==
  ASSUME NEW w, NEW S, IsFiniteSet(S), \A x \in S : w[x] \in Nat
  PROVE  SumOf(w, S) \in Nat
BY SumRemove

LEMMA SumAdd ==
  ASSUME NEW w, NEW S, IsFiniteSet(S), NEW y, y \notin S,
         \A x \in S \union {y} : w[x] \in Nat
  PROVE  SumOf(w, S \union {y}) = SumOf(w, S) + w[y]
<1>1. IsFiniteSet(S \union {y}) /\ (S \union {y}) \ {y} = S
  BY FS_AddElement
<1>2. SumOf(w, S \union {y}) = w[y] + SumOf(w, S)
  BY <1>1, SumRemove
<1>3. SumOf(w, S) \in Nat /\ w[y] \in Nat
  BY SumNatural
<1> QED BY <1>2, <1>3

LEMMA SumZero ==
  ASSUME NEW w, NEW S, IsFiniteSet(S), \A x \in S : w[x] \in Nat,
         SumOf(w, S) = 0, NEW x \in S
  PROVE  w[x] = 0
<1>1. SumOf(w, S) = w[x] + SumOf(w, S \ {x}) /\ w[x] \in Nat
  BY SumRemove
<1>2. SumOf(w, S \ {x}) \in Nat
  BY FS_RemoveElement, SumNatural
<1> QED BY <1>1, <1>2

(* Sums are of the summands and not of the functions that give them.       *)
LEMMA SumSame ==
  ASSUME NEW v, NEW w, NEW S, IsFiniteSet(S),
         \A x \in S : w[x] \in Nat /\ v[x] = w[x]
  PROVE  SumOf(v, S) = SumOf(w, S)
<1> DEFINE G == {n \in Nat : \A s \in SUBSET S :
                   Cardinality(s) <= n => SumOf(v, s) = SumOf(w, s)}
<1>0. \A s \in SUBSET S : IsFiniteSet(s) /\ Cardinality(s) \in Nat
  BY FS_Subset, FS_CardinalityType
<1>1. 0 \in G
  <2>1. ASSUME NEW s \in SUBSET S, Cardinality(s) <= 0  PROVE s = {}
    BY <2>1, <1>0, FS_EmptySet
  <2> QED BY <2>1, SumEmpty
<1>2. ASSUME NEW n \in Nat, n \in G  PROVE n + 1 \in G
  <2>1. ASSUME NEW s \in SUBSET S, Cardinality(s) <= n + 1  PROVE SumOf(v, s) = SumOf(w, s)
    <3>1. CASE s = {}
      BY <3>1, SumEmpty
    <3>2. ASSUME NEW x \in s  PROVE SumOf(v, s) = SumOf(w, s)
      <4>1. s \ {x} \in SUBSET S /\ Cardinality(s \ {x}) <= n
        BY <2>1, <1>0, FS_RemoveElement
      <4>2. SumOf(v, s) = v[x] + SumOf(v, s \ {x})
        BY <1>0, SumRemove
      <4>3. SumOf(w, s) = w[x] + SumOf(w, s \ {x})
        BY <1>0, SumRemove
      <4> QED BY <4>1, <4>2, <4>3, <1>2
    <3> QED BY <3>1, <3>2
  <2> QED BY <2>1
<1>3. Cardinality(S) \in G
  <2> HIDE DEF G
  <2>1. Nat \subseteq G
    BY <1>1, <1>2, NatSetInduction
  <2> QED BY <2>1, FS_CardinalityType
<1> QED BY <1>3, <1>0

-----------------------------------------------------------------------------
(* Sets of numbers.                                                        *)

LEMMA LeastNatural ==
  ASSUME NEW T, T \subseteq Nat, T # {}
  PROVE  \E x \in T : \A y \in T : x <= y
<1>1. PICK x \in T : \A y \in T : <<y, x>> \notin NatLess
  BY NatLessWellFounded, WFMin, Zenon
<1>2. ASSUME NEW y \in T  PROVE x <= y
  <2>1. x \in Nat /\ y \in Nat /\ <<y, x>> \notin NatLess
    BY <1>1
  <2>2. ~(y < x)
    BY <2>1 DEF NatLess
  <2> QED BY <2>1, <2>2
<1> QED BY <1>2

LEMMA GreatestNatural ==
  ASSUME NEW T, T \subseteq Nat, T # {}, NEW n \in Nat, \A x \in T : x <= n
  PROVE  Max(T) \in T /\ \A y \in T : Max(T) >= y
<1> DEFINE D == {n - x : x \in T}
<1>1. D \subseteq Nat /\ D # {}
  <2>1. \A x \in T : n - x \in Nat
    OBVIOUS
  <2> QED BY <2>1
<1>2. PICK d \in D : \A y \in D : d <= y
  BY <1>1, LeastNatural, Zenon
<1>3. PICK x \in T : d = n - x
  BY <1>2
<1>4. \A y \in T : x >= y
  BY <1>2, <1>3
<1> QED BY <1>4 DEF Max

-----------------------------------------------------------------------------
(* Finite sets and the sequences that enumerate them.                      *)

LEMMA Enumeration ==
  ASSUME NEW S, IsFiniteSet(S), NEW q \in SetToSeqs(S)
  PROVE  /\ q \in Seq(S) /\ DOMAIN q = 1..Len(q)
         /\ ToSet(q) = S
         /\ \A i, j \in DOMAIN q : q[i] = q[j] => i = j
<1> DEFINE n == Cardinality(S)
<1>1. n \in Nat
  BY FS_CardinalityType
<1>2. q \in [1..n -> S] /\ \A i, j \in 1..n : i # j => q[i] # q[j]
  BY DEF SetToSeqs
<1>3. IsFiniteSet(1..n) /\ Cardinality(1..n) = n
  BY <1>1, FS_Interval
<1>4. q \in Injection(1..n, S)
  BY <1>2 DEF Injection, IsInjective
<1>5. q \in Surjection(1..n, S)
  BY <1>3, <1>4, FS_Injection
<1>6. ToSet(q) = S
  BY <1>5, <1>2 DEF Surjection, ToSet
<1> QED BY <1>1, <1>2, <1>6

(* The values of a function on a finite set.                               *)
LEMMA ImageFinite ==
  ASSUME NEW f, NEW S, IsFiniteSet(S)
  PROVE  /\ IsFiniteSet({f[x] : x \in S})
         /\ Cardinality({f[x] : x \in S}) <= Cardinality(S)
         /\ (\A x, y \in S : f[x] = f[y] => x = y)
              => Cardinality({f[x] : x \in S}) = Cardinality(S)
<1> DEFINE T == {f[x] : x \in S}
           g == [x \in S |-> f[x]]
<1>1. g \in Surjection(S, T)
  BY DEF Surjection
<1>2. (\A x, y \in S : f[x] = f[y] => x = y) => g \in Injection(S, T)
  BY DEF Injection, IsInjective
<1> HIDE DEF g
<1> QED BY <1>1, <1>2, FS_Surjection

(* The size of a union of sets that have nothing in common.                *)
LEMMA SumOfParts ==
  ASSUME NEW S, IsFiniteSet(S), NEW part, NEW w,
         \A s \in S : IsFiniteSet(part[s]) /\ w[s] = Cardinality(part[s]),
         \A s, t \in S : s # t => part[s] \intersect part[t] = {}
  PROVE  /\ IsFiniteSet(UNION {part[s] : s \in S})
         /\ Cardinality(UNION {part[s] : s \in S}) = SumOf(w, S)
<1> DEFINE U(T) == UNION {part[s] : s \in T}
           Ok(T) == IsFiniteSet(U(T)) /\ Cardinality(U(T)) = SumOf(w, T)
           G == {n \in Nat : \A T \in SUBSET S : Cardinality(T) <= n => Ok(T)}
<1>0. /\ \A T \in SUBSET S : IsFiniteSet(T) /\ Cardinality(T) \in Nat
      /\ \A s \in S : w[s] \in Nat
  BY FS_Subset, FS_CardinalityType
<1>1. 0 \in G
  <2>1. ASSUME NEW T \in SUBSET S, Cardinality(T) <= 0  PROVE Ok(T)
    <3>1. T = {}
      BY <2>1, <1>0, FS_EmptySet
    <3>2. U(T) = {}
      BY <3>1
    <3> HIDE DEF U
    <3> QED BY <3>1, <3>2, SumEmpty, FS_EmptySet
  <2> HIDE DEF Ok
  <2> QED BY <2>1
<1>2. ASSUME NEW n \in Nat, n \in G  PROVE n + 1 \in G
  <2>1. ASSUME NEW T \in SUBSET S, Cardinality(T) <= n + 1, NEW s \in T  PROVE Ok(T)
    <3> DEFINE R == T \ {s}
    <3>1. R \in SUBSET S /\ Cardinality(R) <= n
      <4>1. IsFiniteSet(T) /\ Cardinality(T) \in Nat
        BY <1>0
      <4>2. Cardinality(R) = Cardinality(T) - 1
        BY <4>1, FS_RemoveElement
      <4> QED BY <2>1, <4>1, <4>2
    <3>2. Ok(R)
      <4> HIDE DEF Ok
      <4> QED BY <3>1, <1>2
    <3>3. U(T) = U(R) \union part[s] /\ U(R) \intersect part[s] = {}
      OBVIOUS
    <3>4. SumOf(w, T) = w[s] + SumOf(w, R)
      BY <1>0, SumRemove
    <3> HIDE DEF U, R
    <3>5. /\ IsFiniteSet(U(R) \union part[s])
          /\ Cardinality(U(R) \union part[s]) =
               Cardinality(U(R)) + Cardinality(part[s]) - Cardinality(U(R) \intersect part[s])
      BY <3>2, FS_Union
    <3>6. Cardinality(U(R) \intersect part[s]) = 0
      BY <3>3, FS_EmptySet
    <3>7. Cardinality(U(R)) \in Nat /\ Cardinality(part[s]) \in Nat
      BY <3>2, FS_CardinalityType
    <3> QED BY <3>2, <3>3, <3>4, <3>5, <3>6, <3>7
  <2>2. ASSUME NEW T \in SUBSET S, T = {}  PROVE Ok(T)
    <3>1. Cardinality(T) <= 0
      BY <2>2, FS_EmptySet
    <3> HIDE DEF Ok
    <3> QED BY <3>1, <1>1
  <2> HIDE DEF Ok
  <2> QED BY <2>1, <2>2
<1>3. Cardinality(S) \in G
  <2> HIDE DEF G
  <2>1. Nat \subseteq G
    BY <1>1, <1>2, NatSetInduction
  <2> QED BY <2>1, FS_CardinalityType
<1>4. Ok(S)
  <2> HIDE DEF Ok
  <2> QED BY <1>3, <1>0
<1> QED BY <1>4

LEMMA SubsetOfSize ==
  ASSUME NEW S, IsFiniteSet(S), NEW k \in Nat, k <= Cardinality(S)
  PROVE  \E T \in SUBSET S : Cardinality(T) = k
<1> DEFINE D == {n \in Nat : \E T \in SUBSET S : Cardinality(T) = n /\ n >= k}
<1>1. Cardinality(S) \in D
  BY FS_CardinalityType
<1>2. PICK m \in D : \A y \in D : m <= y
  BY <1>1, LeastNatural
<1>3. PICK T \in SUBSET S : Cardinality(T) = m /\ m >= k
  BY <1>2
<1>4. ASSUME m # k  PROVE FALSE
  <2>1. IsFiniteSet(T) /\ T # {}
    BY <1>3, <1>4, FS_Subset, FS_EmptySet
  <2>2. PICK x \in T : TRUE
    BY <2>1
  <2>3. Cardinality(T \ {x}) = m - 1 /\ T \ {x} \in SUBSET S
    BY <2>1, <2>2, <1>3, FS_RemoveElement
  <2>4. m - 1 \in D
    BY <2>3, <1>2, <1>3, <1>4
  <2> QED BY <2>4, <1>2
<1> QED BY <1>3, <1>4

-----------------------------------------------------------------------------
(* Kept keeps the order: the element at i comes to the place that counts   *)
(* the positions kept up to i.                                             *)
Place(I, i) == Cardinality({j \in I : j <= i})

LEMMA Places ==
  ASSUME NEW n \in Nat, NEW I \in SUBSET (1..n)
  PROVE  /\ Cardinality(I) \in Nat
         /\ \A i \in I : Place(I, i) \in 1..Cardinality(I)
         /\ \A i, j \in I : i < j => Place(I, i) < Place(I, j)
         /\ \A k \in 1..Cardinality(I) : \E i \in I : Place(I, i) = k
  <1> DEFINE upto(i) == {j \in I : j <= i}
             c == Cardinality(I)
  <1>0. \A i \in I : i \in Nat
    OBVIOUS
  <1>1. IsFiniteSet(I) /\ c \in Nat
    <2>1. IsFiniteSet(1..n)
      BY FS_Interval
    <2> QED  BY <2>1, FS_Subset, FS_CardinalityType
  <1>2. \A i \in I : IsFiniteSet(upto(i)) /\ Cardinality(upto(i)) \in Nat /\ Cardinality(upto(i)) <= c
    <2> SUFFICES ASSUME NEW i \in I
                 PROVE  IsFiniteSet(upto(i)) /\ Cardinality(upto(i)) \in Nat /\ Cardinality(upto(i)) <= c
      OBVIOUS
    <2>1. upto(i) \in SUBSET I
      OBVIOUS
    <2> QED  BY <1>1, <2>1, FS_Subset, FS_CardinalityType
  <1>3. ASSUME NEW i \in I
        PROVE  Place(I, i) \in 1..c
    <2>1. i \in upto(i)
      OBVIOUS
    <2>2. Cardinality(upto(i)) # 0
      BY <1>2, <2>1, FS_EmptySet
    <2> QED  BY <1>1, <1>2, <2>2 DEF Place
  <1>4. ASSUME NEW i \in I, NEW j \in I, i < j
        PROVE  Place(I, i) < Place(I, j)
    <2>1. upto(i) \in SUBSET upto(j) /\ upto(i) # upto(j)
      <3>1. j \in upto(j) /\ j \notin upto(i)
        BY <1>4
      <3>2. \A x \in I : x <= i => x <= j
        BY <1>0, <1>4
      <3> QED  BY <3>1, <3>2
    <2>2. /\ Cardinality(upto(i)) <= Cardinality(upto(j))
          /\ Cardinality(upto(i)) # Cardinality(upto(j))
      BY <1>2, <2>1, FS_Subset
    <2> QED  BY <1>2, <2>2 DEF Place
  <1>5. \A k \in 1..c : \E i \in I : Place(I, i) = k
    <2> DEFINE place == [i \in I |-> Place(I, i)]
               image == {place[i] : i \in I}
    <2>1. \A i, j \in I : place[i] = place[j] => i = j
      <3> SUFFICES ASSUME NEW i \in I, NEW j \in I, i # j PROVE Place(I, i) # Place(I, j)
        OBVIOUS
      <3>1. i < j \/ j < i
        OBVIOUS
      <3>2. Place(I, i) < Place(I, j) \/ Place(I, j) < Place(I, i)
        BY <1>4, <3>1
      <3>3. Place(I, i) \in Nat /\ Place(I, j) \in Nat
        BY <1>3
      <3> QED  BY <3>2, <3>3
    <2>2. Cardinality(image) = c
      <3> HIDE DEF place
      <3> QED  BY <1>1, <2>1, ImageFinite
    <2>3. image \in SUBSET (1..c)
      BY <1>3
    <2>4. IsFiniteSet(1..c) /\ Cardinality(1..c) = c
      BY <1>1, FS_Interval
    <2>5. image = 1..c
      <3> HIDE DEF image, c
      <3> QED  BY <2>2, <2>3, <2>4, FS_Subset
    <2> QED  BY <2>5
  <1> QED  BY <1>1, <1>3, <1>4, <1>5

LEMMA KeptInOrder ==
  ASSUME NEW S, NEW seq \in Seq(S), NEW I \in SUBSET DOMAIN seq
  PROVE  /\ Kept(seq, I) \in Seq(S)
         /\ DOMAIN Kept(seq, I) = 1..Cardinality(I)
         /\ \A i \in I : Kept(seq, I)[Place(I, i)] = seq[i]
  <1> DEFINE c == Cardinality(I)
             nth(k) == CHOOSE i \in I : Place(I, i) = k
  <1>1. PICK n \in Nat : DOMAIN seq = 1..n
    OBVIOUS
  <1>2. /\ c \in Nat
        /\ \A i \in I : Place(I, i) \in 1..c
        /\ \A i, j \in I : i < j => Place(I, i) < Place(I, j)
        /\ \A k \in 1..c : \E i \in I : Place(I, i) = k
    <2>1. I \in SUBSET (1..n)
      BY <1>1
    <2> QED  BY <2>1, Places
  <1>3. Kept(seq, I) = [k \in 1..c |-> seq[nth(k)]]
    BY DEF Kept, Place
  <1>4. \A k \in 1..c : nth(k) \in I /\ Place(I, nth(k)) = k
    BY <1>2
  <1>5. \A i \in I : nth(Place(I, i)) = i
    <2> SUFFICES ASSUME NEW i \in I PROVE nth(Place(I, i)) = i
      OBVIOUS
    <2> DEFINE j == nth(Place(I, i))
    <2>1. j \in I /\ Place(I, j) = Place(I, i)
      BY <1>2, <1>4
    <2>2. i \in Nat /\ j \in Nat
      BY <1>1, <2>1
    <2>3. ~(i < j) /\ ~(j < i)
      <3> HIDE DEF j
      <3>1. Place(I, i) \in Nat
        BY <1>2
      <3> QED  BY <1>2, <2>1, <3>1
    <2> HIDE DEF j
    <2>4. j = i
      BY <2>2, <2>3
    <2> QED  BY <2>4 DEF j
  <1> HIDE DEF nth
  <1>6. \A k \in 1..c : seq[nth(k)] \in S
    BY <1>4
  <1>7. [k \in 1..c |-> seq[nth(k)]] \in Seq(S)
    BY <1>2, <1>6
  <1> QED  BY <1>2, <1>3, <1>5, <1>7

=============================================================================
