------------------------- MODULE StaticProxyProofs -------------------------
(***************************************************************************)
(* Theorems about StaticCache, for entries of any sizes, and about         *)
(* StaticProxy, for any keys, contexts, contents and bounds.               *)
(*                                                                         *)
(* The cache: the byte count is the size of what the index holds and       *)
(* within the budget, the order lists what the index holds, and a response *)
(* that fits is held once it was put.  SizeOf is a fold; what it computes  *)
(* is established by induction on the number of keys, in the form that a   *)
(* non-empty set of naturals has a least member.                           *)
(*                                                                         *)
(* The proxy: IInv says who waits for which fetch, under which key a fetch *)
(* and an entry are filed, and how old the content of either may be.       *)
(***************************************************************************)
EXTENDS StaticProxy, FiniteSetTheorems, SequenceTheorems, WellFoundedInduction, TLAPS

-----------------------------------------------------------------------------
(* Numbers *)

LessNat == {s \in Nat \X Nat : s[1] < s[2]}

(* The order of the naturals has no infinite descent, ... *)
LEMMA LessNatWF == IsWellFoundedOn(LessNat, Nat)
BY NatLessThanWellFounded DEF OpToRel, LessNat

(* ... so that a set of naturals has a least member. *)
LEMMA LeastNat ==
  ASSUME NEW S \in SUBSET Nat, S # {}
  PROVE  \E n \in S : \A m \in S : n <= m
<1>1. PICK x \in S : \A y \in S : ~(<<y, x>> \in LessNat)
  BY LessNatWF, WFMin
<1>2. \A y \in S : ~(y < x)
  BY <1>1 DEF LessNat
<1> QED BY <1>2

(* A set of naturals that holds 0 and the successor of each member holds them all. *)
LEMMA Induction ==
  ASSUME NEW P \in SUBSET Nat, 0 \in P, \A n \in P : n + 1 \in P
  PROVE  P = Nat
<1> SUFFICES ASSUME Nat \ P # {} PROVE FALSE
  OBVIOUS
<1>1. PICK n \in Nat \ P : \A m \in Nat \ P : n <= m
  BY LeastNat
<1>2. n # 0 /\ n - 1 \in Nat /\ n - 1 \in P
  BY <1>1
<1>3. (n - 1) + 1 = n
  OBVIOUS
<1> QED BY <1>1, <1>2, <1>3

(* The smallest of some numbers is one of them. *)
LEMMA MinExists ==
  ASSUME NEW S \in SUBSET Nat, S # {}
  PROVE  Min(S) \in S /\ \A m \in S : Min(S) <= m
BY LeastNat DEF Min

(* The largest of finitely many numbers is one of them. *)
LEMMA MaxExists ==
  ASSUME NEW n \in Nat, NEW S \in SUBSET (1..n), S # {}
  PROVE  Max(S) \in S
<1> DEFINE D == {d \in Nat : n - d \in S}
<1>1. D \in SUBSET Nat /\ D # {}
  <2>1. PICK x \in S : TRUE
    OBVIOUS
  <2>2. n - x \in D
    BY <2>1
  <2> QED BY <2>2
<1>2. PICK d \in D : \A e \in D : d <= e
  <2> HIDE DEF D
  <2> QED BY <1>1, LeastNat
<1>3. n - d \in S
  BY <1>2
<1>4. ASSUME NEW y \in S PROVE n - d >= y
  <2>1. y \in 1..n /\ n - y \in D
    OBVIOUS
  <2>2. d <= n - y /\ d \in Nat
    BY <2>1, <1>2
  <2> HIDE DEF D
  <2> QED BY <2>1, <2>2
<1> HIDE DEF D
<1>5. \E x \in S : \A y \in S : x >= y
  BY <1>3, <1>4
<1> QED BY <1>5 DEF Max

-----------------------------------------------------------------------------
(* The sum of the sizes *)

Pick(s) == CHOOSE x \in s : TRUE

\* g is the fold of the sizes on the sets D, which are closed under Pick.
FoldsTo(g, items, D) ==
  g = [s \in D |-> IF s = {} THEN 0 ELSE items[Pick(s)].size + g[s \ {Pick(s)}]]

Folds(g, items, S) == FoldsTo(g, items, SUBSET S)

SameSizes(a, b, S) == \A x \in S : a[x].size = b[x].size

Upto(S, n) == {s \in SUBSET S : Cardinality(s) <= n}

LEMMA PickIn == \A s : s # {} => Pick(s) \in s
BY DEF Pick

LEMMA PickSmaller ==
  ASSUME NEW S, IsFiniteSet(S), NEW s \in SUBSET S, s # {}
  PROVE  /\ Cardinality(s) \in Nat \ {0} /\ s \ {Pick(s)} \in SUBSET S
         /\ Cardinality(s \ {Pick(s)}) = Cardinality(s) - 1
<1>1. IsFiniteSet(s) /\ Cardinality(s) \in Nat
  BY FS_Subset, FS_CardinalityType
<1>2. Cardinality(s) # 0
  BY <1>1, FS_EmptySet
<1>3. Cardinality(s \ {Pick(s)}) = Cardinality(s) - 1
  BY <1>1, PickIn, FS_RemoveElement
<1> QED BY <1>1, <1>2, <1>3

(* The fold exists on the finite sets of each size, ... *)
LEMMA FoldExistsUpto ==
  ASSUME NEW S, IsFiniteSet(S), NEW items
  PROVE  \A n \in Nat : \E g : FoldsTo(g, items, Upto(S, n))
<1> DEFINE P == {n \in Nat : \E g : FoldsTo(g, items, Upto(S, n))}
<1>1. 0 \in P
  <2> DEFINE g == [s \in Upto(S, 0) |-> 0]
  <2>1. \A s \in Upto(S, 0) : s = {}
    <3> SUFFICES ASSUME NEW s \in Upto(S, 0) PROVE s = {}
      OBVIOUS
    <3>1. IsFiniteSet(s) /\ Cardinality(s) \in Nat /\ Cardinality(s) <= 0
      BY FS_Subset, FS_CardinalityType DEF Upto
    <3> QED BY <3>1, FS_EmptySet
  <2>2. FoldsTo(g, items, Upto(S, 0))
    BY <2>1 DEF FoldsTo
  <2> QED BY <2>2
<1>2. ASSUME NEW n \in P PROVE n + 1 \in P
  <2>1. PICK g : FoldsTo(g, items, Upto(S, n))
    OBVIOUS
  <2> DEFINE h == [s \in Upto(S, n + 1) |->
                     IF s = {} THEN 0 ELSE items[Pick(s)].size + g[s \ {Pick(s)}]]
  <2>2. ASSUME NEW s \in Upto(S, n) PROVE s \in Upto(S, n + 1) /\ h[s] = g[s]
    <3>1. Cardinality(s) \in Nat /\ n \in Nat
      BY FS_Subset, FS_CardinalityType DEF Upto
    <3>2. s \in Upto(S, n + 1)
      BY <3>1 DEF Upto
    <3> QED BY <2>1, <3>2 DEF FoldsTo
  <2>3. ASSUME NEW s \in Upto(S, n + 1), s # {} PROVE s \ {Pick(s)} \in Upto(S, n)
    BY <2>3, PickSmaller DEF Upto
  <2>4. FoldsTo(h, items, Upto(S, n + 1))
    <3>1. \A s \in Upto(S, n + 1) :
            h[s] = IF s = {} THEN 0 ELSE items[Pick(s)].size + h[s \ {Pick(s)}]
      BY <2>2, <2>3
    <3> QED BY <3>1 DEF FoldsTo
  <2> QED BY <2>4
<1>3. P \in SUBSET Nat
  OBVIOUS
<1>4. P = Nat
  <2> HIDE DEF P
  <2> QED BY <1>1, <1>2, <1>3, Induction
<1> QED BY <1>4

(* ... hence on all subsets of a finite set. *)
LEMMA FoldExists ==
  ASSUME NEW S, IsFiniteSet(S), NEW items
  PROVE  \E g : FoldsTo(g, items, SUBSET S)
<1>1. Cardinality(S) \in Nat
  BY FS_CardinalityType
<1>2. Upto(S, Cardinality(S)) = SUBSET S
  BY FS_Subset DEF Upto
<1>3. \E g : FoldsTo(g, items, Upto(S, Cardinality(S)))
  BY <1>1, FoldExistsUpto
<1> QED BY <1>2, <1>3

LEMMA SizeOfFold ==
  ASSUME NEW S, IsFiniteSet(S), NEW items
  PROVE  \E g : Folds(g, items, S) /\ SizeOf(items, S) = g[S]
<1> DEFINE G == CHOOSE g : g = [s \in SUBSET S |->
                     IF s = {} THEN 0 ELSE items[CHOOSE x \in s : TRUE].size + g[s \ {CHOOSE x \in s : TRUE}]]
<1>1. \E g : g = [s \in SUBSET S |->
                     IF s = {} THEN 0 ELSE items[CHOOSE x \in s : TRUE].size + g[s \ {CHOOSE x \in s : TRUE}]]
  <2>1. PICK g : FoldsTo(g, items, SUBSET S)
    BY FoldExists
  <2>2. g = [s \in SUBSET S |->
               IF s = {} THEN 0 ELSE items[CHOOSE x \in s : TRUE].size + g[s \ {CHOOSE x \in s : TRUE}]]
    BY <2>1 DEF Folds, FoldsTo, Pick
  <2> QED BY <2>2
<1>2. G = [s \in SUBSET S |->
                     IF s = {} THEN 0 ELSE items[CHOOSE x \in s : TRUE].size + G[s \ {CHOOSE x \in s : TRUE}]]
  BY <1>1
<1>3. SizeOf(items, S) = G[S]
  BY DEF SizeOf, MapThenSumSet, MapThenFoldSet
<1>4. Folds(G, items, S)
  <2> HIDE DEF G
  <2> QED BY <1>2 DEF Folds, FoldsTo, Pick
<1> HIDE DEF G
<1> QED BY <1>3, <1>4

(* Two folds of the same sizes agree wherever both are defined. *)
LEMMA FoldsAgree ==
  ASSUME NEW S, IsFiniteSet(S), NEW T, IsFiniteSet(T), NEW U \in SUBSET S, U \in SUBSET T,
         NEW a, NEW b, SameSizes(a, b, U),
         NEW g, Folds(g, a, S), NEW h, Folds(h, b, T)
  PROVE  g[U] = h[U]
<1> DEFINE P == {n \in Nat : \A s \in SUBSET U : Cardinality(s) <= n => g[s] = h[s]}
<1>0. IsFiniteSet(U)
  BY FS_Subset
<1>1. 0 \in P
  <2> SUFFICES ASSUME NEW s \in SUBSET U, Cardinality(s) <= 0 PROVE g[s] = h[s]
    OBVIOUS
  <2>1. IsFiniteSet(s) /\ Cardinality(s) \in Nat
    BY <1>0, FS_Subset, FS_CardinalityType
  <2>2. s = {}
    BY <2>1, FS_EmptySet
  <2> QED BY <2>2 DEF Folds, FoldsTo
<1>2. ASSUME NEW n \in P PROVE n + 1 \in P
  <2> SUFFICES ASSUME NEW s \in SUBSET U, Cardinality(s) <= n + 1 PROVE g[s] = h[s]
    OBVIOUS
  <2>1. CASE s = {}
    BY <2>1 DEF Folds, FoldsTo
  <2>2. CASE s # {}
    <3>1. /\ Cardinality(s) \in Nat \ {0} /\ s \ {Pick(s)} \in SUBSET U
          /\ Cardinality(s \ {Pick(s)}) = Cardinality(s) - 1
      BY <1>0, <2>2, PickSmaller
    <3>2. g[s \ {Pick(s)}] = h[s \ {Pick(s)}]
      BY <3>1
    <3>3. Pick(s) \in U
      BY <2>2, PickIn
    <3>4. g[s] = a[Pick(s)].size + g[s \ {Pick(s)}]
      BY <2>2 DEF Folds, FoldsTo
    <3>5. h[s] = b[Pick(s)].size + h[s \ {Pick(s)}]
      BY <2>2 DEF Folds, FoldsTo
    <3> QED BY <3>2, <3>3, <3>4, <3>5 DEF SameSizes
  <2> QED BY <2>1, <2>2
<1>3. P \in SUBSET Nat
  OBVIOUS
<1>4. P = Nat
  <2> HIDE DEF P
  <2> QED BY <1>1, <1>2, <1>3, Induction
<1>5. Cardinality(U) \in P /\ Cardinality(U) <= Cardinality(U)
  BY <1>0, <1>4, FS_CardinalityType
<1> QED BY <1>5

LEMMA SizeOfAgrees ==
  ASSUME NEW S, IsFiniteSet(S), NEW a, NEW b, SameSizes(a, b, S)
  PROVE  SizeOf(a, S) = SizeOf(b, S)
<1>1. PICK g : Folds(g, a, S) /\ SizeOf(a, S) = g[S]
  BY SizeOfFold
<1>2. PICK h : Folds(h, b, S) /\ SizeOf(b, S) = h[S]
  BY SizeOfFold
<1>3. Folds(g, a, S) /\ Folds(h, b, S) /\ S \in SUBSET S
  BY <1>1, <1>2
<1>4. g[S] = h[S]
  BY <1>3, FoldsAgree
<1> QED BY <1>1, <1>2, <1>4

LEMMA SizeOfEmpty == \A items : SizeOf(items, {}) = 0
<1> SUFFICES ASSUME NEW items PROVE SizeOf(items, {}) = 0
  OBVIOUS
<1>1. IsFiniteSet({})
  BY FS_EmptySet
<1>2. PICK g : Folds(g, items, {}) /\ SizeOf(items, {}) = g[{}]
  BY <1>1, SizeOfFold
<1> QED BY <1>2 DEF Folds, FoldsTo

LEMMA SizeOfPick ==
  ASSUME NEW S, IsFiniteSet(S), S # {}, NEW items
  PROVE  SizeOf(items, S) = items[Pick(S)].size + SizeOf(items, S \ {Pick(S)})
<1> DEFINE T == S \ {Pick(S)}
<1>1. IsFiniteSet(T) /\ T \in SUBSET T /\ T \in SUBSET S
  BY FS_Subset
<1>2. PICK g : Folds(g, items, S) /\ SizeOf(items, S) = g[S]
  BY SizeOfFold
<1>3. PICK h : Folds(h, items, T) /\ SizeOf(items, T) = h[T]
  <2> HIDE DEF T
  <2> QED BY <1>1, SizeOfFold
<1>4. g[S] = items[Pick(S)].size + g[T]
  BY <1>2 DEF Folds, FoldsTo
<1>5. g[T] = h[T]
  <2> HIDE DEF T
  <2>1. Folds(g, items, S) /\ Folds(h, items, T)
    BY <1>2, <1>3
  <2>2. SameSizes(items, items, T)
    BY DEF SameSizes
  <2> QED BY <1>1, <2>1, <2>2, FoldsAgree
<1> QED BY <1>2, <1>3, <1>4, <1>5

(* Sizes are naturals, and so is their sum; any key may be counted first. *)
LEMMA SizeOfRemove ==
  ASSUME NEW S, IsFiniteSet(S), NEW items, \A x \in S : items[x].size \in Nat
  PROVE  /\ SizeOf(items, S) \in Nat
         /\ \A x \in S : SizeOf(items, S) = items[x].size + SizeOf(items, S \ {x})
<1> DEFINE Good(s) == /\ SizeOf(items, s) \in Nat
                      /\ \A x \in s : SizeOf(items, s) = items[x].size + SizeOf(items, s \ {x})
           P == {n \in Nat : \A s \in SUBSET S : Cardinality(s) <= n => Good(s)}
<1>1. 0 \in P
  <2> SUFFICES ASSUME NEW s \in SUBSET S, Cardinality(s) <= 0 PROVE Good(s)
    OBVIOUS
  <2>1. IsFiniteSet(s) /\ Cardinality(s) \in Nat
    BY FS_Subset, FS_CardinalityType
  <2>2. s = {}
    BY <2>1, FS_EmptySet
  <2> QED BY <2>2, SizeOfEmpty
<1>2. ASSUME NEW n \in P PROVE n + 1 \in P
  <2> SUFFICES ASSUME NEW s \in SUBSET S, Cardinality(s) <= n + 1 PROVE Good(s)
    OBVIOUS
  <2>1. CASE s = {}
    BY <2>1, SizeOfEmpty
  <2>2. CASE s # {}
    <3> DEFINE p == Pick(s)
    <3>1. /\ Cardinality(s) \in Nat \ {0} /\ p \in s /\ IsFiniteSet(s)
      BY <2>2, PickSmaller, PickIn, FS_Subset
    <3>2. ASSUME NEW x \in s PROVE s \ {x} \in SUBSET S /\ Good(s \ {x})
      <4>1. Cardinality(s \ {x}) = Cardinality(s) - 1
        BY <3>1, FS_RemoveElement
      <4>2. Cardinality(s \ {x}) <= n /\ s \ {x} \in SUBSET S
        BY <3>1, <4>1
      <4> QED BY <4>2
    <3>3. SizeOf(items, s) = items[p].size + SizeOf(items, s \ {p})
      BY <2>2, <3>1, SizeOfPick
    <3>4. items[p].size \in Nat /\ SizeOf(items, s \ {p}) \in Nat
      BY <3>1, <3>2
    <3> HIDE DEF p
    <3>5. ASSUME NEW x \in s PROVE SizeOf(items, s) = items[x].size + SizeOf(items, s \ {x})
      <4>1. CASE x = p
        BY <3>3, <4>1
      <4>2. CASE x # p
        <5>1. SizeOf(items, s \ {p}) = items[x].size + SizeOf(items, (s \ {p}) \ {x})
          BY <3>1, <3>2, <4>2
        <5>2. SizeOf(items, s \ {x}) = items[p].size + SizeOf(items, (s \ {x}) \ {p})
          BY <3>1, <3>2, <4>2
        <5>3. SizeOf(items, (s \ {p}) \ {x}) = SizeOf(items, (s \ {x}) \ {p})
          <6>1. (s \ {p}) \ {x} = (s \ {x}) \ {p}
            OBVIOUS
          <6> QED BY <6>1
        <5>4. s \ {p} \in SUBSET S /\ x \in s \ {p}
          BY <4>2
        <5>5. IsFiniteSet(s \ {p}) /\ IsFiniteSet((s \ {p}) \ {x})
          BY <3>1, FS_RemoveElement
        <5>6. SizeOf(items, (s \ {p}) \ {x}) \in Nat
          <6>1. Cardinality((s \ {p}) \ {x}) <= n
            <7>1. Cardinality(s \ {p}) = Cardinality(s) - 1
              BY <3>1, FS_RemoveElement
            <7>2. Cardinality((s \ {p}) \ {x}) = Cardinality(s \ {p}) - 1
              BY <5>4, <5>5, FS_RemoveElement
            <7> QED BY <3>1, <7>1, <7>2
          <6> QED BY <6>1
        <5>7. items[x].size \in Nat /\ items[p].size \in Nat
          BY <3>1
        <5> QED BY <3>3, <5>1, <5>2, <5>3, <5>6, <5>7
      <4> QED BY <4>1, <4>2
    <3>6. SizeOf(items, s) \in Nat
      BY <3>3, <3>4
    <3> QED BY <3>5, <3>6
  <2> QED BY <2>1, <2>2
<1>3. P \in SUBSET Nat
  OBVIOUS
<1>4. P = Nat
  <2> HIDE DEF P
  <2> QED BY <1>1, <1>2, <1>3, Induction
<1>5. Cardinality(S) \in P /\ Cardinality(S) <= Cardinality(S)
  BY <1>4, FS_CardinalityType
<1> QED BY <1>5

(* What leaves takes its size with it. *)
LEMMA SizeOfDiff ==
  ASSUME NEW S, IsFiniteSet(S), NEW items, \A x \in S : items[x].size \in Nat, NEW T \in SUBSET S
  PROVE  /\ SizeOf(items, T) \in Nat /\ SizeOf(items, S) \in Nat
         /\ SizeOf(items, S) - SizeOf(items, T) = SizeOf(items, S \ T)
<1> DEFINE Good(s) == SizeOf(items, S) - SizeOf(items, s) = SizeOf(items, S \ s)
           P == {n \in Nat : \A s \in SUBSET S : Cardinality(s) <= n => Good(s)}
<1>0. ASSUME NEW s \in SUBSET S
      PROVE  IsFiniteSet(s) /\ SizeOf(items, s) \in Nat /\ \A x \in s : items[x].size \in Nat
  <2>1. IsFiniteSet(s) /\ \A x \in s : items[x].size \in Nat
    BY FS_Subset
  <2> QED BY <2>1, SizeOfRemove
<1>1. 0 \in P
  <2> SUFFICES ASSUME NEW s \in SUBSET S, Cardinality(s) <= 0 PROVE Good(s)
    OBVIOUS
  <2>1. IsFiniteSet(s) /\ Cardinality(s) \in Nat
    BY FS_Subset, FS_CardinalityType
  <2>2. s = {} /\ S \ s = S
    BY <2>1, FS_EmptySet
  <2>3. SizeOf(items, S) \in Nat
    BY <1>0
  <2> QED BY <2>2, <2>3, SizeOfEmpty
<1>2. ASSUME NEW n \in P PROVE n + 1 \in P
  <2> SUFFICES ASSUME NEW s \in SUBSET S, Cardinality(s) <= n + 1 PROVE Good(s)
    OBVIOUS
  <2>1. CASE s = {}
    BY <1>1, <2>1, FS_EmptySet
  <2>2. CASE s # {}
    <3>1. PICK x \in s : TRUE
      BY <2>2
    <3>2. IsFiniteSet(s) /\ Cardinality(s) \in Nat /\ Cardinality(s \ {x}) = Cardinality(s) - 1
      BY FS_Subset, FS_CardinalityType, FS_RemoveElement
    <3>3. SizeOf(items, S) - SizeOf(items, s \ {x}) = SizeOf(items, S \ (s \ {x}))
      <4>1. s \ {x} \in SUBSET S /\ Cardinality(s \ {x}) <= n
        BY <3>2
      <4> QED BY <4>1
    <3>4. SizeOf(items, s) = items[x].size + SizeOf(items, s \ {x})
      <4>1. IsFiniteSet(s) /\ \A y \in s : items[y].size \in Nat
        BY <1>0
      <4> QED BY <4>1, SizeOfRemove
    <3>5. SizeOf(items, S \ (s \ {x})) = items[x].size + SizeOf(items, (S \ (s \ {x})) \ {x})
      <4>1. S \ (s \ {x}) \in SUBSET S /\ x \in S \ (s \ {x})
        OBVIOUS
      <4>2. IsFiniteSet(S \ (s \ {x})) /\ \A y \in S \ (s \ {x}) : items[y].size \in Nat
        BY <1>0, <4>1
      <4> HIDE <1>0, <1>1, <1>2
      <4> QED BY <4>1, <4>2, SizeOfRemove
    <3>6. (S \ (s \ {x})) \ {x} = S \ s
      OBVIOUS
    <3>7. /\ SizeOf(items, S) \in Nat /\ SizeOf(items, s \ {x}) \in Nat /\ items[x].size \in Nat
          /\ SizeOf(items, S \ s) \in Nat
      <4>1. S \in SUBSET S /\ s \ {x} \in SUBSET S /\ S \ s \in SUBSET S /\ x \in S
        OBVIOUS
      <4> QED BY <1>0, <4>1
    <3>8. SizeOf(items, S \ (s \ {x})) = items[x].size + SizeOf(items, S \ s)
      BY <3>5, <3>6
    <3> QED BY <3>3, <3>4, <3>7, <3>8
  <2> QED BY <2>1, <2>2
<1>3. P \in SUBSET Nat
  OBVIOUS
<1>4. P = Nat
  <2> HIDE DEF P
  <2> QED BY <1>1, <1>2, <1>3, Induction
<1>5. Cardinality(T) \in P /\ Cardinality(T) <= Cardinality(T)
  BY <1>0, <1>4, FS_CardinalityType
<1>6. S \in SUBSET S
  OBVIOUS
<1> QED BY <1>0, <1>5, <1>6

-----------------------------------------------------------------------------
(* The order *)

(* list.Remove() takes out that element and nothing else. *)
LEMMA WithoutLists ==
  ASSUME NEW K, NEW s, Lists(s, K), NEW k \in K, NEW M, M = K \ {k}
  PROVE  Lists(Without(s, k), M)
<1> DEFINE i0 == CHOOSE i \in DOMAIN s : s[i] = k
           a == SubSeq(s, 1, i0 - 1)  b == SubSeq(s, i0 + 1, Len(s))
           w == a \o b
<1>0. Without(s, k) = w
  BY DEF Without
<1>1. /\ i0 \in 1..Len(s) /\ s[i0] = k /\ Len(s) \in Nat /\ DOMAIN s = 1..Len(s) /\ s \in Seq(K)
      /\ IsInjective(s)
  BY LenProperties DEF Lists
<1> HIDE DEF i0
<1>2. \A i \in 1..Len(s) : s[i] \in K /\ (i # i0 => s[i] \in M)
  BY <1>1, ElementOfSeq DEF IsInjective
<1>3. /\ a \in Seq(M) /\ Len(a) = i0 - 1 /\ \A i \in 1..i0 - 1 : a[i] = s[i]
  <2>1. \A i \in 1..i0 - 1 : s[i] \in M
    BY <1>1, <1>2
  <2> QED BY <1>1, <2>1, SubSeqProperties
<1>4. /\ b \in Seq(M) /\ Len(b) = Len(s) - i0 /\ \A i \in 1..Len(s) - i0 : b[i] = s[i0 + i]
  <2>1. \A i \in i0 + 1..Len(s) : s[i] \in M
    BY <1>1, <1>2
  <2>2. i0 + 1 \in Int /\ Len(s) \in Int
    BY <1>1
  <2>3. /\ b \in Seq(M) /\ Len(b) = IF i0 + 1 <= Len(s) THEN Len(s) - (i0 + 1) + 1 ELSE 0
        /\ \A i \in 1..Len(s) - (i0 + 1) + 1 : b[i] = s[(i0 + 1) + i - 1]
    BY <2>1, <2>2, SubSeqProperties
  <2>4. Len(b) = Len(s) - i0
    <3> HIDE DEF a, b, w
    <3>1. PICK n \in Nat : n = Len(s) /\ i0 \in 1..n
      BY <1>1
    <3>2. Len(b) = IF i0 + 1 <= n THEN n - (i0 + 1) + 1 ELSE 0
      BY <2>3, <3>1
    <3> QED BY <3>1, <3>2
  <2>5. ASSUME NEW i \in 1..Len(s) - i0 PROVE b[i] = s[i0 + i]
    <3>1. i \in 1..Len(s) - (i0 + 1) + 1 /\ (i0 + 1) + i - 1 = i0 + i
      BY <1>1
    <3> QED BY <2>3, <3>1
  <2> HIDE DEF b
  <2> QED BY <2>3, <2>4, <2>5
<1> HIDE DEF a, b
<1>5. /\ w \in Seq(M) /\ Len(w) = Len(s) - 1
      /\ \A i \in 1..Len(s) - 1 : w[i] = IF i < i0 THEN s[i] ELSE s[i + 1]
  <2>1. /\ w \in Seq(M) /\ Len(w) = Len(a) + Len(b)
        /\ \A i \in 1..Len(a) + Len(b) : w[i] = IF i <= Len(a) THEN a[i] ELSE b[i - Len(a)]
    BY <1>3, <1>4, ConcatProperties
  <2>2. Len(a) + Len(b) = Len(s) - 1
    BY <1>1, <1>3, <1>4
  <2>3. ASSUME NEW i \in 1..Len(s) - 1 PROVE w[i] = IF i < i0 THEN s[i] ELSE s[i + 1]
    <3>1. CASE i < i0
      <4>1. i <= Len(a) /\ i \in 1..i0 - 1 /\ i \in 1..Len(a) + Len(b)
        BY <1>1, <1>3, <2>2, <3>1
      <4> HIDE DEF w
      <4> QED BY <1>3, <2>1, <3>1, <4>1
    <3>2. CASE ~(i < i0)
      <4>1. /\ ~(i <= Len(a)) /\ i - Len(a) \in 1..Len(s) - i0 /\ i0 + (i - Len(a)) = i + 1
            /\ i \in 1..Len(a) + Len(b)
        BY <1>1, <1>3, <2>2, <3>2
      <4> HIDE DEF w
      <4> QED BY <1>4, <2>1, <3>2, <4>1
    <3> QED BY <3>1, <3>2
  <2> HIDE DEF w
  <2> QED BY <2>1, <2>2, <2>3
<1> HIDE DEF w
<1>6. DOMAIN w = 1..Len(s) - 1
  BY <1>5, LenProperties
<1>7. ASSUME NEW i \in DOMAIN w, NEW j \in DOMAIN w, w[i] = w[j] PROVE i = j
  <2>1. /\ w[i] = s[IF i < i0 THEN i ELSE i + 1] /\ w[j] = s[IF j < i0 THEN j ELSE j + 1]
        /\ (IF i < i0 THEN i ELSE i + 1) \in DOMAIN s /\ (IF j < i0 THEN j ELSE j + 1) \in DOMAIN s
    BY <1>1, <1>5, <1>6
  <2>2. (IF i < i0 THEN i ELSE i + 1) = (IF j < i0 THEN j ELSE j + 1)
    BY <1>1, <1>7, <2>1 DEF IsInjective
  <2> QED BY <1>1, <1>6, <2>2
<1>8. ASSUME NEW x, NEW i \in DOMAIN s, s[i] = x, x # k PROVE \E j \in DOMAIN w : w[j] = x
  <2>1. i # i0
    BY <1>1, <1>8
  <2>2. CASE i < i0
    BY <1>1, <1>5, <1>6, <1>8, <2>2
  <2>3. CASE i > i0
    <3>1. i - 1 \in DOMAIN w /\ w[i - 1] = s[(i - 1) + 1] /\ (i - 1) + 1 = i
      BY <1>1, <1>5, <1>6, <2>3
    <3> QED BY <1>8, <3>1
  <2> QED BY <1>1, <2>1, <2>2, <2>3
<1>9. IsInjective(w)
  BY <1>7 DEF IsInjective
<1>10. ASSUME NEW x \in M PROVE \E j \in DOMAIN w : w[j] = x
  <2>1. \E i \in DOMAIN s : s[i] = x /\ x # k
    BY DEF Lists
  <2> QED BY <1>8, <2>1
<1> QED BY <1>0, <1>5, <1>9, <1>10 DEF Lists

(* Two sequences joined. *)
LEMMA ConcatIs ==
  ASSUME NEW D, NEW u \in Seq(D), NEW w \in Seq(D)
  PROVE  /\ u \o w \in Seq(D) /\ Len(u \o w) = Len(u) + Len(w)
         /\ \A i \in 1..Len(u) + Len(w) : (u \o w)[i] = IF i <= Len(u) THEN u[i] ELSE w[i - Len(u)]
OBVIOUS

(* list.PushFront() of a key that is not listed. *)
LEMMA PushLists ==
  ASSUME NEW M, NEW w, Lists(w, M), NEW k, k \notin M, NEW D, D = M \cup {k}
  PROVE  Lists(<<k>> \o w, D)
<1> DEFINE u == <<k>>  t == u \o w
<1>1. u \in Seq(D) /\ Len(u) = 1 /\ u[1] = k
  OBVIOUS
<1>2. /\ w \in Seq(M) /\ w \in Seq(D) /\ Len(w) \in Nat /\ DOMAIN w = 1..Len(w)
      /\ IsInjective(w) /\ \A i \in 1..Len(w) : w[i] # k
  <2>1. w \in Seq(M) /\ IsInjective(w)
    BY DEF Lists
  <2>2. Len(w) \in Nat /\ DOMAIN w = 1..Len(w) /\ \A i \in 1..Len(w) : w[i] \in M
    BY <2>1, LenProperties, ElementOfSeq
  <2>3. w \in Seq(D)
    BY <2>1
  <2> QED BY <2>1, <2>2, <2>3
<1>3a. t = u \o w
  OBVIOUS
<1> HIDE DEF u, t
<1>3b. u \in Seq(D) /\ w \in Seq(D)
  BY <1>1, <1>2
<1>3. /\ t \in Seq(D) /\ Len(t) = Len(u) + Len(w)
      /\ \A i \in 1..Len(u) + Len(w) : t[i] = IF i <= Len(u) THEN u[i] ELSE w[i - Len(u)]
  BY <1>3a, <1>3b, ConcatIs
<1>4. t[1] = k /\ Len(t) = Len(w) + 1 /\ DOMAIN t = 1..Len(t)
  BY <1>1, <1>2, <1>3, LenProperties
<1>5. ASSUME NEW i \in 1..Len(w) PROVE t[i + 1] = w[i]
  <2>1. i + 1 \in 1..Len(u) + Len(w) /\ ~(i + 1 <= Len(u)) /\ (i + 1) - Len(u) = i
    BY <1>1, <1>2
  <2> QED BY <1>3, <2>1
<1>6. IsInjective(t)
  <2> SUFFICES ASSUME NEW i \in DOMAIN t, NEW j \in DOMAIN t, t[i] = t[j] PROVE i = j
    BY DEF IsInjective
  <2>1. i = 1 \/ (i - 1 \in 1..Len(w) /\ t[i] = w[i - 1] /\ t[i] # k)
    BY <1>2, <1>4, <1>5
  <2>2. j = 1 \/ (j - 1 \in 1..Len(w) /\ t[j] = w[j - 1] /\ t[j] # k)
    BY <1>2, <1>4, <1>5
  <2> QED BY <1>2, <1>4, <2>1, <2>2 DEF IsInjective
<1>7. ASSUME NEW x \in D PROVE \E i \in DOMAIN t : t[i] = x
  <2>1. CASE x = k
    BY <1>2, <1>4, <2>1
  <2>2. CASE x # k
    <3>1. PICK i \in DOMAIN w : w[i] = x
      BY <2>2 DEF Lists
    <3>2. i + 1 \in DOMAIN t /\ t[i + 1] = x
      BY <1>2, <1>4, <1>5, <3>1
    <3> QED BY <3>2
  <2> QED BY <2>1, <2>2
<1>8. t = <<k>> \o w
  BY DEF t, u
<1> QED BY <1>3, <1>6, <1>7, <1>8 DEF Lists

-----------------------------------------------------------------------------
(* The cache's operations *)

LEMMA NewCacheSound == Sound(NewCache)
<1>1. NewCache.items = <<>> /\ NewCache.order = <<>> /\ NewCache.bytes = 0
  BY DEF NewCache
<1>2. DOMAIN NewCache.items = {} /\ DOMAIN NewCache.order = {} /\ NewCache.order \in Seq({})
  BY <1>1
<1>3. IsFiniteSet({})
  BY FS_EmptySet
<1> QED BY <1>1, <1>2, <1>3, SizeOfEmpty, MaxBytesAssumption DEF Sound, Tallied, Lists, IsInjective

(* touch() only reorders. *)
LEMMA TouchSound ==
  ASSUME NEW c, NEW k, Sound(c)
  PROVE  Sound(Touch(c, k))
<1>1. CASE ~Has(c, k)
  BY <1>1 DEF Touch
<1>2. CASE Has(c, k)
  <2> DEFINE D == DOMAIN c.items  M == D \ {k}  w == Without(c.order, k)
  <2>1. Touch(c, k) = [order |-> <<k>> \o w, items |-> c.items, bytes |-> c.bytes]
    BY <1>2 DEF Touch
  <2>2. Lists(c.order, D) /\ k \in D
    BY <1>2 DEF Sound, Tallied, Has
  <2>3. M = D \ {k} /\ D = M \cup {k} /\ k \notin M
    BY <2>2
  <2> HIDE DEF D, M
  <2>4. Lists(w, M)
    BY <2>2, <2>3, WithoutLists
  <2> HIDE DEF w
  <2>5. Lists(<<k>> \o w, D)
    BY <2>3, <2>4, PushLists
  <2> QED BY <2>1, <2>5 DEF Sound, Tallied, D
<1> QED BY <1>1, <1>2

(* drop() of an indexed key. *)
LEMMA DropTallied ==
  ASSUME NEW c, NEW k, Tallied(c), Has(c, k)
  PROVE  Tallied(Drop(c, k)) /\ DOMAIN Drop(c, k).items = DOMAIN c.items \ {k}
<1> DEFINE D == DOMAIN c.items  M == D \ {k}  it == Restrict(c.items, M)  d == Drop(c, k)
<1>1. /\ d.order = Without(c.order, k) /\ d.items = it /\ d.bytes = c.bytes - c.items[k].size
      /\ DOMAIN it = M /\ \A x \in M : it[x] = c.items[x]
  BY DEF Drop, Restrict
<1>2. /\ IsFiniteSet(D) /\ IsFiniteSet(M) /\ k \in D /\ Lists(c.order, D)
      /\ \A x \in D : c.items[x].size \in Nat
      /\ c.bytes = SizeOf(c.items, D)
  BY FS_Subset DEF Tallied, Has
<1>3. M = D \ {k} /\ \A x \in M : x \in D
  OBVIOUS
<1> HIDE DEF D, M, it, d
<1>4. Lists(d.order, M)
  BY <1>1, <1>2, <1>3, WithoutLists
<1>5. SizeOf(c.items, D) = c.items[k].size + SizeOf(c.items, M) /\ SizeOf(c.items, M) \in Nat
  <2>1. \A x \in M : c.items[x].size \in Nat
    BY <1>2, <1>3
  <2> QED BY <1>2, <1>3, <2>1, SizeOfRemove
<1>6. SizeOf(it, M) = SizeOf(c.items, M)
  <2>1. SameSizes(it, c.items, M)
    BY <1>1 DEF SameSizes
  <2> QED BY <1>2, <2>1, SizeOfAgrees
<1>7. d.bytes = SizeOf(d.items, DOMAIN d.items)
  BY <1>1, <1>2, <1>5, <1>6
<1>8. Tallied(d) /\ DOMAIN d.items = M
  BY <1>1, <1>2, <1>3, <1>4, <1>7 DEF Tallied
<1> QED BY <1>8 DEF d, M, D

(* The new element of put(). *)
LEMMA PushTallied ==
  ASSUME NEW c, NEW k, NEW e, Tallied(c), ~Has(c, k), e.size \in Nat
  PROVE  Tallied(PushFront(c, k, e))
<1> DEFINE M == DOMAIN c.items  D == M \cup {k}  d == PushFront(c, k, e)
           it == [x \in D |-> IF x = k THEN e ELSE c.items[x]]
<1>1. /\ d.order = <<k>> \o c.order /\ d.items = it /\ d.bytes = c.bytes + e.size
      /\ DOMAIN it = D /\ it[k] = e /\ \A x \in M : it[x] = c.items[x]
  BY DEF PushFront, Has
<1>2. /\ IsFiniteSet(M) /\ IsFiniteSet(D) /\ k \notin M /\ Lists(c.order, M)
      /\ \A x \in M : c.items[x].size \in Nat
      /\ c.bytes = SizeOf(c.items, M)
  BY FS_AddElement DEF Tallied, Has
<1>3. D = M \cup {k} /\ M = D \ {k} /\ k \in D
  BY <1>2
<1> HIDE DEF D, M, it, d
<1>4. Lists(d.order, D)
  BY <1>1, <1>2, <1>3, PushLists
<1>5. \A x \in D : it[x].size \in Nat
  BY <1>1, <1>2, <1>3
<1>6. SizeOf(it, D) = it[k].size + SizeOf(it, M)
  BY <1>2, <1>3, <1>5, SizeOfRemove
<1>7. SizeOf(it, M) = SizeOf(c.items, M)
  <2>1. SameSizes(it, c.items, M)
    BY <1>1 DEF SameSizes
  <2> QED BY <1>2, <2>1, SizeOfAgrees
<1>8. SizeOf(c.items, M) \in Nat
  BY <1>2, SizeOfRemove
<1>9. d.bytes = SizeOf(it, D)
  BY <1>1, <1>2, <1>6, <1>7, <1>8
<1>10. Tallied(d)
  BY <1>1, <1>2, <1>4, <1>5, <1>9 DEF Tallied
<1> QED BY <1>10 DEF d

(* An order without its last n keys lists the others. *)
LEMMA PrefixLists ==
  ASSUME NEW K, NEW s, Lists(s, K), NEW n \in 0..Len(s),
         NEW M \in SUBSET K, \A x \in K : x \in M <=> \A i \in (Len(s) - n + 1)..Len(s) : s[i] # x
  PROVE  Lists(SubSeq(s, 1, Len(s) - n), M)
<1> DEFINE m == Len(s) - n  p == SubSeq(s, 1, m)
<1>1. s \in Seq(K) /\ IsInjective(s) /\ Len(s) \in Nat /\ DOMAIN s = 1..Len(s)
  BY LenProperties DEF Lists
<1>2. m \in 0..Len(s)
  BY <1>1
<1>3. \A i \in 1..m : s[i] \in M
  <2> SUFFICES ASSUME NEW i \in 1..m PROVE s[i] \in M
    OBVIOUS
  <2>1. i \in DOMAIN s /\ s[i] \in K /\ \A j \in (Len(s) - n + 1)..Len(s) : j \in DOMAIN s /\ i # j
    BY <1>1, <1>2
  <2>2. \A j \in (Len(s) - n + 1)..Len(s) : s[i] # s[j]
    BY <1>1, <2>1 DEF IsInjective
  <2> QED BY <2>1, <2>2
<1>4. p \in Seq(M) /\ Len(p) = m /\ \A i \in 1..m : p[i] = s[i]
  <2> HIDE DEF m
  <2> QED BY <1>1, <1>2, <1>3, SubSeqProperties
<1>5. DOMAIN p = 1..m
  <2> HIDE DEF p, m
  <2> QED BY <1>4, LenProperties
<1>6. IsInjective(p)
  <2> HIDE DEF p, m
  <2> QED BY <1>1, <1>2, <1>4, <1>5 DEF IsInjective
<1>7. ASSUME NEW x \in M PROVE \E i \in DOMAIN p : p[i] = x
  <2>1. PICK i \in DOMAIN s : s[i] = x
    BY DEF Lists
  <2>2. i \notin (Len(s) - n + 1)..Len(s)
    BY <2>1
  <2>3. i \in 1..m
    BY <1>1, <2>2
  <2> HIDE DEF p, m
  <2> QED BY <1>4, <1>5, <2>1, <2>3
<1>8. Lists(p, M)
  <2> HIDE DEF p
  <2> QED BY <1>4, <1>6, <1>7 DEF Lists
<1> QED BY <1>8

(* What is at the back is indexed, and all of the order is all that is indexed. *)
LEMMA BackIndexed ==
  ASSUME NEW c, Tallied(c)
  PROVE  /\ Len(c.order) \in Nat /\ DOMAIN c.order = 1..Len(c.order)
         /\ \A d \in 0..Len(c.order) : Back(c, d) \in SUBSET DOMAIN c.items
         /\ Back(c, Len(c.order)) = DOMAIN c.items
<1>1. /\ c.order \in Seq(DOMAIN c.items) /\ Len(c.order) \in Nat /\ DOMAIN c.order = 1..Len(c.order)
      /\ \A k \in DOMAIN c.items : \E i \in DOMAIN c.order : c.order[i] = k
  BY LenProperties DEF Tallied, Lists
<1>2. \A i \in 1..Len(c.order) : c.order[i] \in DOMAIN c.items
  BY <1>1, ElementOfSeq
<1>3. \A d \in 0..Len(c.order) : \A i \in (Len(c.order) - d + 1)..Len(c.order) : i \in 1..Len(c.order)
  BY <1>1
<1>4. \A d \in 0..Len(c.order) : Back(c, d) \in SUBSET DOMAIN c.items
  BY <1>2, <1>3 DEF Back
<1>5. Len(c.order) \in 0..Len(c.order) /\ Len(c.order) - Len(c.order) + 1 = 1
  BY <1>1
<1>6. Back(c, Len(c.order)) = DOMAIN c.items
  BY <1>1, <1>4, <1>5 DEF Back
<1> QED BY <1>1, <1>4, <1>6

(* The loop of put() ends with the count within the budget, never by running  *)
(* out of elements first; and it stops as soon as the count fits.             *)
LEMMA ExcessEnough ==
  ASSUME NEW c, Tallied(c)
  PROVE  /\ Excess(c) \in 0..Len(c.order)
         /\ c.bytes - SizeOf(c.items, Back(c, Excess(c))) <= MaxBytes
         /\ \A d \in 0..Len(c.order) :
              c.bytes - SizeOf(c.items, Back(c, d)) <= MaxBytes => Excess(c) <= d
<1> DEFINE enough == {d \in 0..Len(c.order) : c.bytes - SizeOf(c.items, Back(c, d)) <= MaxBytes}
<1>1. Len(c.order) \in enough
  <2>1. c.bytes \in Nat /\ c.bytes = SizeOf(c.items, Back(c, Len(c.order)))
    <3>1. SizeOf(c.items, DOMAIN c.items) \in Nat
      BY SizeOfRemove DEF Tallied
    <3> QED BY <3>1, BackIndexed DEF Tallied
  <2> QED BY <2>1, BackIndexed, MaxBytesAssumption
<1>2. enough \in SUBSET Nat
  OBVIOUS
<1>3. Excess(c) = Min(enough)
  BY <1>1 DEF Excess
<1>4. Min(enough) \in enough /\ \A d \in enough : Min(enough) <= d
  <2> HIDE DEF enough
  <2> QED BY <1>1, <1>2, MinExists
<1> QED BY <1>3, <1>4

(* So evicting restores the budget and loses nothing else. *)
LEMMA EvictSound ==
  ASSUME NEW c, Tallied(c)
  PROVE  Sound(Evict(c)) /\ DOMAIN Evict(c).items = DOMAIN c.items \ Back(c, Excess(c))
<1> DEFINE n == Excess(c)  D == DOMAIN c.items  B == Back(c, n)  M == D \ B
           it == Restrict(c.items, M)  d == Evict(c)
<1>1. /\ d.order = SubSeq(c.order, 1, Len(c.order) - n) /\ d.items = it
      /\ d.bytes = c.bytes - SizeOf(c.items, B)
      /\ DOMAIN it = M /\ \A x \in M : it[x] = c.items[x]
  BY DEF Evict, Restrict
<1>2. n \in 0..Len(c.order) /\ d.bytes <= MaxBytes
  BY <1>1, ExcessEnough
<1>3. /\ IsFiniteSet(D) /\ IsFiniteSet(M) /\ Lists(c.order, D) /\ c.bytes = SizeOf(c.items, D)
      /\ \A x \in D : c.items[x].size \in Nat
  BY FS_Subset DEF Tallied
<1>4. B \in SUBSET D
  BY <1>2, BackIndexed
<1>5. M \in SUBSET D /\ \A x \in D : x \in M <=> \A i \in (Len(c.order) - n + 1)..Len(c.order) : c.order[i] # x
  BY DEF Back
<1>6. M = D \ B /\ \A x \in M : x \in D
  OBVIOUS
<1>7. D = DOMAIN c.items
  OBVIOUS
<1> HIDE DEF n, D, B, M, it, d
<1>8. Lists(d.order, M)
  <2> DEFINE o == c.order
  <2>1. /\ Lists(o, D) /\ n \in 0..Len(o) /\ M \in SUBSET D
        /\ \A x \in D : x \in M <=> \A i \in (Len(o) - n + 1)..Len(o) : o[i] # x
    BY <1>2, <1>3, <1>5
  <2>2. d.order = SubSeq(o, 1, Len(o) - n)
    BY <1>1
  <2> HIDE DEF o
  <2>3. Lists(SubSeq(o, 1, Len(o) - n), M)
    BY <2>1, PrefixLists
  <2> QED BY <2>2, <2>3
<1>9. SizeOf(c.items, D) - SizeOf(c.items, B) = SizeOf(c.items, M)
  BY <1>3, <1>4, <1>6, SizeOfDiff
<1>10. SizeOf(it, M) = SizeOf(c.items, M)
  <2>1. SameSizes(it, c.items, M)
    BY <1>1 DEF SameSizes
  <2> QED BY <1>3, <2>1, SizeOfAgrees
<1>11. d.bytes = SizeOf(d.items, DOMAIN d.items)
  BY <1>1, <1>3, <1>9, <1>10
<1>12. Sound(d) /\ DOMAIN d.items = M
  BY <1>1, <1>2, <1>3, <1>6, <1>8, <1>11 DEF Sound, Tallied
<1> QED BY <1>12 DEF d, M, D, B, n

(* put() keeps the cache sound, whatever it replaces and evicts. *)
LEMMA PutSound ==
  ASSUME NEW c, NEW k, NEW e, Sound(c), e.size \in Nat
  PROVE  Sound(Put(c, k, e))
<1>1. CASE e.size > MaxBytes
  BY <1>1 DEF Put
<1>2. CASE ~(e.size > MaxBytes)
  <2> DEFINE b == IF Has(c, k) THEN Drop(c, k) ELSE c  p == PushFront(b, k, e)
  <2>1. Put(c, k, e) = Evict(p)
    BY <1>2 DEF Put
  <2>2. Tallied(b) /\ ~Has(b, k)
    BY DropTallied DEF Sound, Has
  <2> HIDE DEF b
  <2>3. Tallied(p)
    BY <2>2, PushTallied
  <2> HIDE DEF p
  <2> QED BY <2>1, <2>3, EvictSound
<1> QED BY <1>1, <1>2

(* A sound cache is consistent: an order without repetitions is as long as    *)
(* the index is large.                                                        *)
LEMMA SoundConsistent ==
  ASSUME NEW c, Sound(c)
  PROVE  Consistent(c)
<1> DEFINE o == c.order  D == DOMAIN c.items  n == Len(c.order)
<1>1. o \in Seq(D) /\ n = Len(o) /\ n \in Nat /\ DOMAIN o = 1..n
  BY BackIndexed DEF Sound, Tallied, Lists
<1>2. {o[i] : i \in DOMAIN o} = D
  BY <1>1 DEF Sound, Tallied, Lists
<1>3. Cardinality(D) = n
  <2>1. o \in Bijection(1..n, D)
    <3>1. o \in [1..n -> D]
      BY <1>1
    <3>2. IsInjective(o) /\ \A k \in D : \E i \in 1..n : o[i] = k
      BY <1>1 DEF Sound, Tallied, Lists
    <3> HIDE DEF o, D, n
    <3> QED BY <3>1, <3>2 DEF Bijection, Injection, Surjection, IsInjective
  <2>2. \E f : f \in Bijection(1..n, D)
    BY <2>1
  <2> HIDE DEF o, D, n
  <2> QED BY <1>1, <2>2, FS_CountingElements DEF ExistsBijection
<1> QED BY <1>1, <1>2, <1>3 DEF Consistent, Sound, Tallied

(* A response that fits the budget is in the index after put(): the loop      *)
(* evicts others before it.                                                   *)
LEMMA PutKept ==
  ASSUME NEW c, NEW k, NEW e, Sound(c), e.size \in Nat, e.size <= MaxBytes
  PROVE  Has(Put(c, k, e), k) /\ Put(c, k, e).order[1] = k
<1> DEFINE b == IF Has(c, k) THEN Drop(c, k) ELSE c  p == PushFront(b, k, e)
<1>1. Put(c, k, e) = Evict(p)
  BY MaxBytesAssumption DEF Put
<1>2. Tallied(b) /\ ~Has(b, k)
  BY DropTallied DEF Sound, Has
<1>3. p.order = <<k>> \o b.order /\ p.items[k] = e /\ k \in DOMAIN p.items
  BY DEF PushFront
<1> HIDE DEF b
<1>4. Tallied(p)
  BY <1>2, PushTallied
<1>5. /\ b.order \in Seq(DOMAIN b.items) /\ k \notin DOMAIN b.items
  BY <1>2 DEF Tallied, Lists, Has
<1> DEFINE n == Len(p.order)
<1>6. n \in Nat \ {0} /\ p.order[1] = k
  BY <1>3, <1>5
<1>7. /\ Lists(p.order, DOMAIN p.items) /\ DOMAIN p.order = 1..n /\ IsFiniteSet(DOMAIN p.items)
      /\ \A x \in DOMAIN p.items : p.items[x].size \in Nat
      /\ p.bytes = SizeOf(p.items, DOMAIN p.items)
  BY <1>4, BackIndexed DEF Tallied
<1>8. DOMAIN Evict(p).items = DOMAIN p.items \ Back(p, Excess(p))
  BY <1>4, EvictSound
<1> HIDE DEF p
<1>9. \A i \in DOMAIN p.order : p.order[i] = k => i = 1
  BY <1>6, <1>7 DEF Lists, IsInjective
<1>10. Back(p, n - 1) = DOMAIN p.items \ {k}
  <2>1. (n - (n - 1)) + 1 = 2
    BY <1>6
  <2>2. \A i \in 2..n : i \in DOMAIN p.order /\ p.order[i] \in DOMAIN p.items \ {k}
    BY <1>6, <1>7, <1>9 DEF Lists
  <2>3. ASSUME NEW x \in DOMAIN p.items \ {k} PROVE \E i \in 2..n : p.order[i] = x
    <3>1. PICK i \in DOMAIN p.order : p.order[i] = x
      BY <1>7 DEF Lists
    <3> QED BY <1>6, <1>7, <3>1
  <2> QED BY <2>1, <2>2, <2>3 DEF Back
<1>11. p.bytes - SizeOf(p.items, Back(p, n - 1)) = e.size
  <2> DEFINE D == DOMAIN p.items  M == D \ {k}
  <2>1. M \in SUBSET D /\ Back(p, n - 1) = M /\ M = D \ {k} /\ k \in D
    BY <1>3, <1>10
  <2>2. IsFiniteSet(D) /\ (\A x \in D : p.items[x].size \in Nat) /\ p.bytes = SizeOf(p.items, D)
    BY <1>7
  <2> HIDE DEF D, M
  <2>3. SizeOf(p.items, D) = p.items[k].size + SizeOf(p.items, M)
    BY <2>1, <2>2, SizeOfRemove
  <2>4. SizeOf(p.items, M) \in Nat
    BY <2>1, <2>2, SizeOfDiff
  <2>5. p.bytes = e.size + SizeOf(p.items, M)
    BY <1>3, <2>2, <2>3
  <2> DEFINE x == SizeOf(p.items, M)  y == SizeOf(p.items, Back(p, n - 1))  z == e.size  t == p.bytes
  <2>6. x \in Nat /\ z \in Nat /\ t = z + x /\ y = x
    BY <2>1, <2>4, <2>5
  <2> HIDE DEF x, y, z, t
  <2>7. t - y = z
    BY <2>6
  <2> QED BY <2>7 DEF t, y, z
<1>12. Excess(p) <= n - 1 /\ Excess(p) \in 0..n
  BY <1>4, <1>6, <1>11, ExcessEnough
<1>13. k \notin Back(p, Excess(p))
  <2> SUFFICES ASSUME NEW i \in (n - Excess(p) + 1)..n, p.order[i] = k PROVE FALSE
    BY DEF Back
  <2>1. i \in DOMAIN p.order /\ i # 1
    BY <1>6, <1>7, <1>12
  <2> QED BY <1>9, <2>1
<1>14. Evict(p).order[1] = k
  <2>1. PICK o, m : o = p.order /\ m = n - Excess(p)
    OBVIOUS
  <2>2. Evict(p).order = SubSeq(o, 1, m)
    BY <2>1 DEF Evict
  <2>3. m \in 1..n /\ o \in Seq(DOMAIN p.items) /\ o[1] = k /\ Len(o) = n
    BY <1>6, <1>7, <1>12, <2>1 DEF Lists
  <2> QED BY <2>2, <2>3
<1> QED BY <1>1, <1>3, <1>8, <1>13, <1>14 DEF Has

(* Nothing is evicted while there is room. *)
LEMMA PutRoom ==
  ASSUME NEW c, NEW k, NEW e, Sound(c), e.size \in Nat, ~Has(c, k), c.bytes + e.size <= MaxBytes
  PROVE  DOMAIN Put(c, k, e).items = DOMAIN c.items \cup {k}
<1> DEFINE p == PushFront(c, k, e)
<1>0. c.bytes \in Nat
  <2>1. SizeOf(c.items, DOMAIN c.items) \in Nat
    BY SizeOfRemove DEF Sound, Tallied
  <2> QED BY <2>1 DEF Sound, Tallied
<1>1. Put(c, k, e) = Evict(p)
  BY <1>0, MaxBytesAssumption DEF Put
<1>2. Tallied(p)
  BY PushTallied DEF Sound, Has
<1>3. p.bytes = c.bytes + e.size /\ DOMAIN p.items = DOMAIN c.items \cup {k}
  BY DEF PushFront
<1> HIDE DEF p
<1>4. Len(p.order) \in Nat
  BY <1>2, BackIndexed
<1>5. Back(p, 0) = {}
  BY <1>4 DEF Back
<1>6. p.bytes - SizeOf(p.items, Back(p, 0)) <= MaxBytes
  <2>1. PICK z : z = SizeOf(p.items, Back(p, 0))
    OBVIOUS
  <2>2. z = 0
    BY <1>5, <2>1, SizeOfEmpty
  <2>3. p.bytes - z <= MaxBytes
    BY ONLY <1>0, <1>3, <2>2, c.bytes + e.size <= MaxBytes, e.size \in Nat, MaxBytesAssumption
  <2> QED BY <2>1, <2>3
<1>7. Excess(p) = 0
  <2>1. 0 \in 0..Len(p.order)
    BY <1>4
  <2> QED BY <1>2, <1>4, <1>6, <2>1, ExcessEnough
<1>8. DOMAIN Evict(p).items = DOMAIN p.items
  BY <1>2, <1>5, <1>7, EvictSound
<1> QED BY <1>1, <1>3, <1>8

USE DEF vars

-----------------------------------------------------------------------------
(* What the origins' replies become *)

LEMMA SecondsType ==
  ASSUME NEW cc \in Seq(STRING \X Int), NEW name
  PROVE  Seconds(cc, name) \in Int
<1> DEFINE valid == {i \in DOMAIN cc : cc[i][1] = name /\ cc[i][2] >= 0}
<1>1. CASE valid = {}
  BY <1>1 DEF Seconds, Absent
<1>2. CASE valid # {}
  <2>1. Len(cc) \in Nat /\ valid \in SUBSET (1..Len(cc))
    OBVIOUS
  <2>2. Max(valid) \in valid
    <3> HIDE DEF valid
    <3> QED BY <1>2, <2>1, MaxExists
  <2>3. cc[Max(valid)][2] \in Int
    BY <2>1, <2>2
  <2>4. Seconds(cc, name) = cc[Max(valid)][2]
    BY <1>2 DEF Seconds
  <2> QED BY <2>3, <2>4
<1> QED BY <1>1, <1>2

LEMMA CacheTTLType ==
  ASSUME NEW cc \in Seq(STRING \X Int)
  PROVE  CacheTTL(cc) \in Int
<1>1. Seconds(cc, "s-maxage") \in Int /\ Seconds(cc, "max-age") \in Int
  BY SecondsType
<1> QED BY <1>1, BoundsAssumption DEF CacheTTL, Absent

(* An entry made of a reply is of the key and version the origin answered for. *)
LEMMA BufferType ==
  ASSUME TypeOK, NEW k \in Key, NEW meth \in {"GET", "HEAD"}
  PROVE  /\ Buffer(k, meth) \in Entry
         /\ Buffer(k, meth).key = k /\ Buffer(k, meth).meth = meth /\ Buffer(k, meth).ver = site[k]
<1>1. Reply(k) \in [status : Nat, cc : Seq(STRING \X Int), size : Nat, large : BOOLEAN]
  <2> DEFINE R == [status : Nat, cc : Seq(STRING \X Int), size : Nat, large : BOOLEAN]
  <2>1. Content[k] \in Seq(R)
    BY ContentAssumption
  <2>2. site[k] \in 1..Len(Content[k])
    BY DEF TypeOK
  <2> HIDE DEF R
  <2>3. Content[k][site[k]] \in R
    BY <2>1, <2>2
  <2> QED BY <2>3 DEF Reply, R
<1>2. CacheTTL(Reply(k).cc) \in Int
  BY <1>1, CacheTTLType
<1>3. Storable(Reply(k)) \in BOOLEAN
  BY DEF Storable
<1>4. site[k] \in Nat /\ now \in Nat
  BY DEF TypeOK
<1> QED BY <1>1, <1>2, <1>3, <1>4 DEF Buffer, Entry

-----------------------------------------------------------------------------
(* What the cache's operations do to its index *)

LEMMA TouchItems == \A c, k : Touch(c, k).items = c.items
BY DEF Touch

LEMMA PutItems ==
  ASSUME NEW c, NEW k, NEW e
  PROVE  LET p == Put(c, k, e)
         IN  /\ e.size > MaxBytes => p = c
             /\ ~(e.size > MaxBytes) =>
                  /\ DOMAIN p.items \subseteq DOMAIN c.items \cup {k}
                  /\ \A j \in DOMAIN p.items : p.items[j] = IF j = k THEN e ELSE c.items[j]
<1> DEFINE b == IF Has(c, k) THEN Drop(c, k) ELSE c
           q == PushFront(b, k, e)
<1>1. DOMAIN b.items \subseteq DOMAIN c.items /\ \A j \in DOMAIN b.items : b.items[j] = c.items[j]
  BY DEF Drop, Restrict
<1>2. /\ DOMAIN q.items = DOMAIN b.items \cup {k}
      /\ \A j \in DOMAIN q.items : q.items[j] = IF j = k THEN e ELSE b.items[j]
  <2> HIDE DEF b
  <2> QED BY DEF PushFront
<1>3. /\ DOMAIN Evict(q).items \subseteq DOMAIN q.items
      /\ \A j \in DOMAIN Evict(q).items : Evict(q).items[j] = q.items[j]
  <2> HIDE DEF q
  <2> QED BY DEF Evict, Restrict
<1>4. Put(c, k, e) = IF e.size > MaxBytes THEN c ELSE Evict(q)
  BY DEF Put
<1> HIDE DEF b, q
<1> QED BY <1>1, <1>2, <1>3, <1>4

(* put(): the order, the index and the byte count agree afterwards and are within  *)
(* the budget; a response that fits is held under its key, as the latest used; of  *)
(* the others none is altered or invented, and none evicted while there is room.   *)
THEOREM PutHolds ==
  ASSUME NEW c, NEW k, NEW e, Sound(c), e.size \in Nat
  PROVE  LET d == Put(c, k, e)
         IN  /\ Sound(d) /\ Consistent(d)
             /\ e.size <= MaxBytes => Has(d, k) /\ d.items[k] = e /\ d.order[1] = k
             /\ \A j \in DOMAIN d.items \ {k} : Has(c, j) /\ d.items[j] = c.items[j]
             /\ ~Has(c, k) /\ c.bytes + e.size <= MaxBytes => DOMAIN d.items = DOMAIN c.items \cup {k}
<1>1. PICK d : d = Put(c, k, e)
  OBVIOUS
<1>2. Sound(d) /\ Consistent(d)
  BY <1>1, PutSound, SoundConsistent
<1>3. ASSUME e.size <= MaxBytes PROVE Has(d, k) /\ d.items[k] = e /\ d.order[1] = k
  <2>1. Has(d, k) /\ d.order[1] = k
    BY <1>1, <1>3, PutKept
  <2>2. ~(e.size > MaxBytes) /\ k \in DOMAIN d.items
    BY <1>3, <2>1, MaxBytesAssumption DEF Has
  <2> QED BY <1>1, <2>1, <2>2, PutItems
<1>4. ASSUME NEW j \in DOMAIN d.items \ {k} PROVE Has(c, j) /\ d.items[j] = c.items[j]
  BY <1>1, <1>4, PutItems DEF Has
<1>5. ~Has(c, k) /\ c.bytes + e.size <= MaxBytes => DOMAIN d.items = DOMAIN c.items \cup {k}
  BY <1>1, PutRoom
<1> QED BY <1>1, <1>2, <1>3, <1>4, <1>5

-----------------------------------------------------------------------------
(* The end of a handler, at its first look into the cache or after a wait: what
   it answers must be no older than its floor and no newer than what others hold. *)

NotNewer(k, e) ==
  /\ Has(cache, k) => e.ver <= cache.items[k].ver
  /\ \A f \in Flight : flight[f].result = "entry" /\ flight[f].key = k => e.ver <= flight[f].entry.ver

Due(k, meth, floor, label, e) ==
  label \in {"HIT", "MISS"} /\ meth = "GET" =>
    /\ e \in Entry
    /\ k \notin strayed => Own(k, e) /\ e.ver >= floor /\ (Counted(e) => NotNewer(k, e))

LEMMA SeeRises ==
  ASSUME IInv, NEW k \in Key, NEW meth, NEW floor, NEW label, NEW e,
         Respond(k, meth, floor, label, e), Due(k, meth, floor, label, e)
  PROVE  /\ seen' \in [Key -> Nat] /\ \A j \in Key : seen'[j] >= seen[j]
         /\ \A j \in Key : seen'[j] # seen[j] => j = k
         /\ k \notin strayed /\ seen'[k] # seen[k] => seen'[k] = e.ver /\ Own(k, e) /\ NotNewer(k, e)
<1>1. seen \in [Key -> Nat]
  BY DEF IInv, TypeOK
<1>2. CASE /\ meth = "GET" /\ label \in {"HIT", "MISS"} /\ e.key = k /\ e.ver > seen[k]
           /\ e.storable /\ e.size <= MaxBytes
  <2>1. seen' = [seen EXCEPT ![k] = e.ver]
    BY <1>2 DEF Respond, See
  <2>2. e.ver \in Nat /\ Counted(e)
    BY <1>2 DEF Due, Entry, Counted
  <2>3. k \notin strayed => Own(k, e) /\ NotNewer(k, e)
    BY <1>2, <2>2 DEF Due
  <2> QED BY <1>1, <1>2, <2>1, <2>2, <2>3
<1>3. CASE ~(/\ meth = "GET" /\ label \in {"HIT", "MISS"} /\ e.key = k /\ e.ver > seen[k]
             /\ e.storable /\ e.size <= MaxBytes)
  <2>1. seen' = seen
    BY <1>3 DEF Respond, See
  <2> QED BY <1>1, <2>1
<1> QED BY <1>2, <1>3

(* A handler or goroutine without a result, and one record of either replaced. *)
LEMMA AtType ==
  ASSUME NEW pc \in {"idle", "join", "wait", "stream", "unavailable", "stale"},
         NEW meth \in {"GET", "HEAD"}, NEW k \in Key \cup {None}, NEW floor \in Nat
  PROVE  LET r == At(pc, meth, k, floor)
         IN  /\ r \in Handling /\ r.pc = pc /\ r.meth = meth /\ r.key = k /\ r.floor = floor
             /\ r.fl = None /\ r.got = "none"
BY DEF At, Handling, Results

LEMMA LaunchedType ==
  ASSUME NEW pc \in {"free", "queued"}, NEW k \in Key \cup {None}, NEW c \in Context \cup {None}
  PROVE  LET r == Launched(pc, k, c)
         IN  /\ r \in Fetching /\ r.pc = pc /\ r.key = k /\ r.starter = c /\ r.result = "none"
BY DEF Launched, Fetching, Results

LEMMA NoFlightType == NoFlight \in Fetching /\ NoFlight.pc = "free" /\ NoFlight.result = "none"
<1>1. None \in Key \cup {None} /\ None \in Context \cup {None}
  OBVIOUS
<1> QED BY <1>1, LaunchedType DEF NoFlight

LEMMA IdleType == Idle \in Handling /\ Idle.pc = "idle" /\ Idle.fl = None /\ Idle.got = "none"
<1>1. None \in Key \cup {None} /\ 0 \in Nat
  OBVIOUS
<1> QED BY <1>1, AtType DEF Idle

LEMMA RecycledType ==
  ASSUME NEW c, NEW k \in Key, NEW meth \in {"GET", "HEAD"}
  PROVE  LET r == Recycled(c, k, meth)
         IN  /\ r \in Handling /\ r.pc = "idle" /\ r.fl = None /\ r.got = "none"
             /\ \A f \in Flight : flight[f].starter = c => r.key = k
BY AtType DEF Recycled, Idle

LEMMA AnswerKeeps ==
  ASSUME IInv, NEW c \in Context, NEW k \in Key, NEW meth \in {"GET", "HEAD"}, NEW floor, NEW label,
         NEW e, Respond(k, meth, floor, label, e), Due(k, meth, floor, label, e),
         ctx' = [ctx EXCEPT ![c] = Recycled(c, k, meth)],
         cache'.items = cache.items, UNCHANGED <<group, flight, site, now, strayed>>
  PROVE  IInv'
<1> DEFINE r == Recycled(c, k, meth)
<1>1. /\ r \in Handling /\ r.pc = "idle" /\ r.fl = None /\ r.got = "none"
      /\ \A f \in Flight : flight[f].starter = c => r.key = k
  BY RecycledType
<1>2. ctx' = [ctx EXCEPT ![c] = r]
  OBVIOUS
<1> HIDE DEF r
<1>3. /\ seen' \in [Key -> Nat] /\ \A j \in Key : seen'[j] >= seen[j]
      /\ \A j \in Key : seen'[j] # seen[j] => j = k
      /\ k \notin strayed /\ seen'[k] # seen[k] => seen'[k] = e.ver /\ Own(k, e) /\ NotNewer(k, e)
  BY SeeRises
<1>4. TypeOK'
  <2>2. ctx' \in [Context -> Handling]
    BY <1>1, <1>2 DEF IInv, TypeOK
  <2> QED BY <2>2, <1>3 DEF IInv, TypeOK
<1>5. Handlers'
  BY <1>1, <1>2 DEF IInv, TypeOK, Handlers
<1>6. OneFetch' /\ Fetches'
  BY <1>1, <1>2 DEF IInv, TypeOK, OneFetch, Fetches
<1>7. OwnEntries'
  BY <1>1, <1>2 DEF IInv, TypeOK, OwnEntries, Own
<1>8. SeenOld'
  <2>1. \A j \in Key \ strayed : seen'[j] <= site[j]
    BY <1>3 DEF IInv, SeenOld, Own
  <2>2. \A j \in DOMAIN cache.items \ strayed : seen'[j] <= cache.items[j].ver
    BY <1>3 DEF IInv, TypeOK, SeenOld, NotNewer, Has
  <2>3. \A f \in Flight : flight[f].result = "entry" /\ flight[f].key \notin strayed
                            => seen'[flight[f].key] <= flight[f].entry.ver
    <3> SUFFICES ASSUME NEW f \in Flight, flight[f].result = "entry", flight[f].key \notin strayed
                 PROVE  seen'[flight[f].key] <= flight[f].entry.ver
      OBVIOUS
    <3>1. flight[f].key \in Key
      BY DEF IInv, TypeOK, Fetches, OneFetch
    <3> QED BY <3>1, <1>3 DEF IInv, SeenOld, NotNewer
  <2>4. ASSUME NEW d \in Context, ctx'[d].pc # "idle"
        PROVE  ctx'[d].floor <= seen'[ctx'[d].key]
    <3>1. d # c /\ ctx'[d] = ctx[d]
      BY <1>1, <1>2, <2>4 DEF IInv, TypeOK
    <3>2. ctx[d].key \in Key /\ ctx[d].floor <= seen[ctx[d].key] /\ ctx[d].floor \in Nat
      BY <3>1, <2>4 DEF IInv, TypeOK, Handling, Handlers, SeenOld
    <3>3. seen[ctx[d].key] \in Nat
      BY <3>2 DEF IInv, TypeOK
    <3> QED BY <3>1, <3>2, <3>3, <1>3
  <2>5. \A d \in Context : ctx'[d].got = "entry" /\ ctx'[d].key \notin strayed
                             => ctx'[d].floor <= ctx'[d].entry.ver
    BY <1>1, <1>2 DEF IInv, TypeOK, SeenOld
  <2> QED BY <2>1, <2>2, <2>3, <2>4, <2>5 DEF SeenOld
<1>9. Upward' /\ Delivered'
  BY <1>1, <1>2 DEF IInv, TypeOK, Upward, Delivered, Has, Counted
<1>10. NoOrphan'
  BY <1>1, <1>2 DEF IInv, TypeOK, NoOrphan
<1>11. MonotonicReads'
  BY DEF MonotonicReads, Respond, Due, Own
<1> QED BY <1>4, <1>5, <1>6, <1>7, <1>8, <1>9, <1>10, <1>11 DEF IInv

(* A handler that moves on without an answer. *)
LEMMA GotoKeeps ==
  ASSUME IInv, NEW c \in Context, ctx[c].pc # "idle", NEW pc \in {"stream", "unavailable", "stale"},
         Goto(c, pc), cache'.items = cache.items, UNCHANGED <<group, flight, site, now, strayed>>
  PROVE  IInv'
<1> DEFINE r == At(pc, ctx[c].meth, ctx[c].key, ctx[c].floor)
<1>0. ctx[c].meth \in {"GET", "HEAD"} /\ ctx[c].key \in Key \cup {None} /\ ctx[c].floor \in Nat
  BY DEF IInv, TypeOK, Handling
<1>1. /\ ctx' = [ctx EXCEPT ![c] = r]
      /\ r \in Handling /\ r.pc = pc /\ r.meth = ctx[c].meth /\ r.key = ctx[c].key
      /\ r.floor = ctx[c].floor /\ r.fl = None /\ r.got = "none"
  BY <1>0, AtType DEF Goto
<1> HIDE DEF r
<1>2. out' = NoOut /\ seen' = seen
  BY DEF Goto, Quiet
<1>3. TypeOK'
  BY <1>1, <1>2 DEF IInv, TypeOK
<1>4. Handlers'
  BY <1>1 DEF IInv, TypeOK, Handlers
<1>5. OneFetch' /\ Fetches'
  BY <1>1 DEF IInv, TypeOK, OneFetch, Fetches
<1>6. OwnEntries'
  BY <1>1 DEF IInv, TypeOK, OwnEntries, Own
<1>7. SeenOld'
  BY <1>1, <1>2 DEF IInv, TypeOK, SeenOld
<1>8. Upward' /\ Delivered'
  BY <1>1 DEF IInv, TypeOK, Upward, Delivered, Has, Counted
<1>9. NoOrphan' /\ MonotonicReads'
  BY <1>1, <1>2 DEF IInv, TypeOK, NoOrphan, MonotonicReads, NoOut
<1> QED BY <1>3, <1>4, <1>5, <1>6, <1>7, <1>8, <1>9 DEF IInv

-----------------------------------------------------------------------------
(* One lemma per action: the parts of IInv it can disturb, then the rest. *)

(* A hit is due to every request whose floor is not newer than what was seen. *)
LEMMA CachedDue ==
  ASSUME IInv, NEW k \in DOMAIN cache.items, NEW meth, NEW floor, floor <= seen[k], floor \in Nat
  PROVE  Due(k, meth, floor, "HIT", cache.items[k])
<1>1. cache.items[k] \in Entry /\ cache.items[k].ver \in Nat /\ k \in Key /\ seen[k] \in Nat
  BY DEF IInv, TypeOK, Entry
<1>2. k \notin strayed => Own(k, cache.items[k]) /\ cache.items[k].ver >= floor
  BY <1>1 DEF IInv, OwnEntries, SeenOld
<1>3. k \notin strayed => NotNewer(k, cache.items[k])
  BY <1>1 DEF IInv, Upward, NotNewer, Has
<1> QED BY <1>1, <1>2, <1>3 DEF Due

LEMMA HandleKeeps ==
  ASSUME IInv, NEW c \in Context, NEW k \in Key, NEW meth \in {"GET", "HEAD"}, Handle(c, k, meth)
  PROVE  IInv'
<1>1. cache'.items = cache.items
  BY TouchItems DEF Handle
<1>2. CASE Fresh(k)
  <2>1. k \in DOMAIN cache.items /\ seen[k] \in Nat /\ seen[k] <= seen[k]
    BY <1>2 DEF Fresh, Has, IInv, TypeOK
  <2>2. Due(k, meth, seen[k], "HIT", cache.items[k])
    BY <2>1, CachedDue
  <2>3. Respond(k, meth, seen[k], "HIT", cache.items[k])
        /\ ctx' = [ctx EXCEPT ![c] = Recycled(c, k, meth)]
    BY <1>2 DEF Handle
  <2> QED BY <1>1, <2>2, <2>3, AnswerKeeps DEF Handle
<1>3. CASE ~Fresh(k)
  <2> DEFINE r == At(OnMiss(meth), meth, k, seen[k])
  <2>2. ctx' = [ctx EXCEPT ![c] = r] /\ out' = NoOut /\ seen' = seen
    BY <1>3 DEF Handle, Quiet
  <2>3. /\ r \in Handling /\ r.pc \in {"join", "stream"} /\ r.meth = meth /\ r.key = k
        /\ r.floor = seen[k] /\ (r.pc = "join" => r.meth = "GET") /\ r.fl = None /\ r.got = "none"
    BY AtType DEF OnMiss, IInv, TypeOK
  <2> HIDE DEF r
  <2>4. UNCHANGED <<group, flight, site, now, strayed>>
    BY DEF Handle
  <2>5. TypeOK'
    BY <1>1, <2>2, <2>3, <2>4 DEF IInv, TypeOK
  <2>6. Handlers'
    BY <2>2, <2>3 DEF IInv, TypeOK, Handlers
  <2>7. OneFetch' /\ Fetches'
    BY <2>2, <2>3, <2>4 DEF IInv, TypeOK, OneFetch, Fetches
  <2>8. OwnEntries'
    BY <1>1, <2>2, <2>3, <2>4 DEF IInv, TypeOK, OwnEntries, Own
  <2>9. SeenOld'
    BY <1>1, <2>2, <2>3, <2>4 DEF IInv, TypeOK, SeenOld
  <2>10. Upward' /\ Delivered'
    BY <1>1, <2>2, <2>3, <2>4 DEF IInv, TypeOK, Upward, Delivered, Has, Counted
  <2>11. NoOrphan' /\ MonotonicReads'
    BY <2>2, <2>3, <2>4 DEF IInv, TypeOK, NoOrphan, MonotonicReads, NoOut
  <2> QED BY <2>5, <2>6, <2>7, <2>8, <2>9, <2>10, <2>11 DEF IInv
<1> QED BY <1>2, <1>3

(* A caller that joins a fetch which has its result already finds it no older than
   its floor. *)
LEMMA DoChanKeeps ==
  ASSUME IInv, NEW c \in Context, DoChan(c)
  PROVE  IInv'
<1> DEFINE k == ctx[c].key
<1>1. /\ ctx[c] \in Handling
      /\ ctx[c].pc = "join" /\ k \in Key /\ ctx[c].meth = "GET" /\ ctx[c].fl = None
  BY DEF DoChan, IInv, TypeOK, Handlers
<1>2. UNCHANGED <<cache, site, now, seen, strayed>> /\ out' = NoOut
  BY DEF DoChan, Quiet
<1>3. ASSUME NEW f \in Flight, ctx' = [ctx EXCEPT ![c].pc = "wait", ![c].fl = f]
      PROVE  /\ ctx' \in [Context -> Handling] /\ \A d \in Context : d # c => ctx'[d] = ctx[d]
             /\ \A d \in Context : /\ ctx'[d].meth = ctx[d].meth /\ ctx'[d].key = ctx[d].key
                                     /\ ctx'[d].got = ctx[d].got /\ ctx'[d].entry = ctx[d].entry
                                     /\ ctx'[d].floor = ctx[d].floor
             /\ ctx'[c].pc = "wait" /\ ctx'[c].fl = f
  BY <1>1, <1>3 DEF IInv, TypeOK, Handling
<1>4. CASE group[k] # None
  <2>1. ctx' = [ctx EXCEPT ![c].pc = "wait", ![c].fl = group[k]] /\ UNCHANGED <<group, flight>>
    BY <1>4 DEF DoChan, Go
  <2>2. group[k] \in Flight /\ flight[group[k]].pc # "free" /\ flight[group[k]].key = k
    BY <1>1, <1>4 DEF IInv, TypeOK, OneFetch
  <2>3. /\ ctx' \in [Context -> Handling] /\ \A d \in Context : d # c => ctx'[d] = ctx[d]
        /\ \A d \in Context : /\ ctx'[d].meth = ctx[d].meth /\ ctx'[d].key = ctx[d].key
                                /\ ctx'[d].got = ctx[d].got /\ ctx'[d].entry = ctx[d].entry
                                /\ ctx'[d].floor = ctx[d].floor
        /\ ctx'[c].pc = "wait" /\ ctx'[c].fl = group[k]
    BY <1>3, <2>1, <2>2
  <2>4. ctx[c].got = "none"
    BY <1>1 DEF IInv, Handlers
  <2>5. TypeOK'
    BY <1>2, <2>1, <2>3 DEF IInv, TypeOK
  <2>6. Handlers'
    BY <1>1, <2>3, <2>4 DEF IInv, Handlers
  <2>7. OneFetch' /\ Fetches'
    BY <2>1, <2>3 DEF IInv, TypeOK, OneFetch, Fetches
  <2>8. OwnEntries'
    BY <1>2, <2>1, <2>3 DEF IInv, OwnEntries, Own
  <2>9. SeenOld'
    BY <1>1, <1>2, <2>1, <2>3 DEF IInv, SeenOld
  <2>10. Upward' /\ Delivered'
    BY <1>2, <2>1, <2>3 DEF IInv, Upward, Delivered, Has, Counted
  <2>11. NoOrphan' /\ MonotonicReads'
    BY <1>2, <2>1, <2>2, <2>3, FlightAssumption DEF IInv, NoOrphan, MonotonicReads, NoOut
  <2> QED BY <2>5, <2>6, <2>7, <2>8, <2>9, <2>10, <2>11 DEF IInv
<1>5. CASE group[k] = None
  <2> DEFINE f == FreeFlight
             r == Launched("queued", k, c)
  <2>1. f \in Flight /\ flight[f].pc = "free"
    BY <1>5 DEF DoChan, Go, FreeFlight
  <2>2. /\ flight' = [flight EXCEPT ![f] = r] /\ group' = [group EXCEPT ![k] = f]
        /\ ctx' = [ctx EXCEPT ![c].pc = "wait", ![c].fl = f]
    BY <1>5 DEF DoChan, Go
  <2>3. /\ r \in Fetching /\ r.pc = "queued" /\ r.key = k /\ r.starter = c /\ r.result = "none"
    BY <1>1, LaunchedType
  <2> HIDE DEF f, r
  <2>4. /\ ctx' \in [Context -> Handling] /\ \A d \in Context : d # c => ctx'[d] = ctx[d]
        /\ \A d \in Context : /\ ctx'[d].meth = ctx[d].meth /\ ctx'[d].key = ctx[d].key
                                /\ ctx'[d].got = ctx[d].got /\ ctx'[d].entry = ctx[d].entry
                                /\ ctx'[d].floor = ctx[d].floor
        /\ ctx'[c].pc = "wait" /\ ctx'[c].fl = f
    BY <1>3, <2>1, <2>2
  <2>5. ctx[c].got = "none"
    BY <1>1 DEF IInv, Handlers
  <2>6. TypeOK'
    BY <1>1, <1>2, <2>1, <2>2, <2>3, <2>4 DEF IInv, TypeOK
  <2>7. Handlers'
    BY <1>1, <2>4, <2>5 DEF IInv, Handlers
  <2>8. OneFetch'
    BY <1>1, <1>5, <2>1, <2>2, <2>3, FlightAssumption DEF IInv, TypeOK, OneFetch
  <2>9. Fetches'
    BY <1>1, <2>1, <2>2, <2>3, <2>4 DEF IInv, TypeOK, Fetches
  <2>10. OwnEntries'
    BY <1>2, <2>1, <2>2, <2>3, <2>4 DEF IInv, TypeOK, OwnEntries, Own
  <2>11. SeenOld'
    BY <1>1, <1>2, <2>1, <2>2, <2>3, <2>4 DEF IInv, TypeOK, SeenOld
  <2>12. Upward' /\ Delivered'
    BY <1>2, <2>1, <2>2, <2>3, <2>4 DEF IInv, TypeOK, Upward, Delivered, Has, Counted
  <2>13. NoOrphan' /\ MonotonicReads'
    BY <1>2, <2>1, <2>2, <2>3, <2>4, FlightAssumption DEF IInv, TypeOK, NoOrphan, MonotonicReads, NoOut
  <2> QED BY <2>6, <2>7, <2>8, <2>9, <2>10, <2>11, <2>12, <2>13 DEF IInv
<1> QED BY <1>4, <1>5

(* serveResult: what was delivered is due. *)
LEMMA ServeResultKeeps ==
  ASSUME IInv, NEW c \in Context, ServeResult(c)
  PROVE  IInv'
<1> DEFINE k == ctx[c].key  e == ctx[c].entry
<1>1. /\ ctx[c].pc = "wait" /\ k \in Key /\ ctx[c].meth \in {"GET", "HEAD"} /\ ctx[c].floor \in Nat
  BY DEF ServeResult, IInv, TypeOK, Handling, Handlers
<1>2. cache'.items = cache.items /\ UNCHANGED <<group, flight, site, now, strayed>>
  BY DEF ServeResult
<1>3. CASE ctx[c].got = "entry" /\ Answer(c, "MISS", e)
  <2>1. e \in Entry
    BY <1>3 DEF IInv, Handlers
  <2>2. k \notin strayed => Own(k, e) /\ ctx[c].floor <= e.ver
    BY <1>3 DEF IInv, OwnEntries, SeenOld
  <2>3. k \notin strayed /\ Counted(e) => NotNewer(k, e)
    BY <1>3 DEF IInv, Delivered, Upward, NotNewer
  <2>4. Due(k, ctx[c].meth, ctx[c].floor, "MISS", e)
    BY <1>1, <2>1, <2>2, <2>3 DEF Due, Entry
  <2> QED BY <1>1, <1>2, <1>3, <2>4, AnswerKeeps DEF Answer
<1>4. CASE Goto(c, "stream") \/ Goto(c, "unavailable")
  BY <1>1, <1>2, <1>4, GotoKeeps
<1> QED BY <1>3, <1>4 DEF ServeResult

LEMMA GiveUpKeeps ==
  ASSUME IInv, NEW c \in Context, GiveUp(c)
  PROVE  IInv'
<1>1. ctx[c].pc # "idle" /\ Goto(c, "unavailable")
  BY DEF GiveUp
<1>2. cache'.items = cache.items /\ UNCHANGED <<group, flight, site, now, strayed>>
  BY DEF GiveUp
<1> QED BY <1>1, <1>2, GotoKeeps

LEMMA StreamKeeps ==
  ASSUME IInv, NEW c \in Context, Stream(c)
  PROVE  IInv'
<1>1. /\ ctx[c].pc = "stream" /\ ctx[c].key \in Key /\ ctx[c].meth \in {"GET", "HEAD"}
  BY DEF Stream, IInv, TypeOK, Handling, Handlers
<1>2. cache'.items = cache.items /\ UNCHANGED <<cache, group, flight, site, now, strayed>>
  BY DEF Stream
<1>3. CASE Answer(c, "STREAM", Buffer(ctx[c].key, ctx[c].meth))
  <2>1. Due(ctx[c].key, ctx[c].meth, ctx[c].floor, "STREAM", Buffer(ctx[c].key, ctx[c].meth))
    BY DEF Due
  <2> QED BY <1>1, <1>2, <1>3, <2>1, AnswerKeeps DEF Answer
<1>4. CASE Goto(c, "unavailable")
  BY <1>1, <1>2, <1>4, GotoKeeps
<1>5. CASE ctx' = [ctx EXCEPT ![c].at = @ + 1] /\ out' = NoOut /\ seen' = seen
  <2>1. ctx[c] \in Handling /\ ctx[c].at + 1 \in Nat
    BY DEF IInv, TypeOK, Handling
  <2>2. /\ ctx' \in [Context -> Handling]
        /\ \A d \in Context : /\ ctx'[d].meth = ctx[d].meth /\ ctx'[d].key = ctx[d].key
                                /\ ctx'[d].got = ctx[d].got /\ ctx'[d].entry = ctx[d].entry
                                /\ ctx'[d].floor = ctx[d].floor /\ ctx'[d].pc = ctx[d].pc
                                /\ ctx'[d].fl = ctx[d].fl
    BY <1>5, <2>1 DEF IInv, TypeOK, Handling
  <2>3. TypeOK'
    BY <1>2, <1>5, <2>2 DEF IInv, TypeOK
  <2>4. Handlers' /\ OneFetch' /\ Fetches'
    BY <1>2, <2>2 DEF IInv, TypeOK, Handlers, OneFetch, Fetches
  <2>5. OwnEntries' /\ SeenOld'
    BY <1>2, <1>5, <2>2 DEF IInv, OwnEntries, Own, SeenOld
  <2>6. Upward' /\ Delivered'
    BY <1>2, <2>2 DEF IInv, Upward, Delivered, Has, Counted
  <2>7. NoOrphan' /\ MonotonicReads'
    BY <1>2, <1>5, <2>2 DEF IInv, NoOrphan, MonotonicReads, NoOut
  <2> QED BY <2>3, <2>4, <2>5, <2>6, <2>7 DEF IInv
<1> QED BY <1>3, <1>4, <1>5 DEF Stream, Quiet

LEMMA ServeUnavailableKeeps ==
  ASSUME IInv, NEW c \in Context, ServeUnavailable(c)
  PROVE  IInv'
<1> DEFINE k == ctx[c].key
<1>1. /\ ctx[c].pc = "unavailable" /\ k \in Key /\ ctx[c].meth \in {"GET", "HEAD"}
      /\ ctx[c].floor \in Nat /\ ctx[c].floor <= seen[k]
  BY DEF ServeUnavailable, IInv, TypeOK, Handling, Handlers, SeenOld
<1>2. cache'.items = cache.items /\ UNCHANGED <<group, flight, site, now, strayed>>
  BY TouchItems DEF ServeUnavailable
<1>3. CASE Fresh(k)
  <2>1. k \in DOMAIN cache.items
    BY <1>3 DEF Fresh, Has
  <2>2. Due(k, ctx[c].meth, ctx[c].floor, "HIT", cache.items[k])
    BY <1>1, <2>1, CachedDue
  <2>3. Answer(c, "HIT", cache.items[k])
    BY <1>3 DEF ServeUnavailable
  <2> QED BY <1>1, <1>2, <2>2, <2>3, AnswerKeeps DEF Answer
<1>4. CASE ~Fresh(k)
  <2>1. Goto(c, "stale")
    BY <1>4 DEF ServeUnavailable
  <2> QED BY <1>1, <1>2, <2>1, GotoKeeps
<1> QED BY <1>3, <1>4

LEMMA ServeStaleKeeps ==
  ASSUME IInv, NEW c \in Context, ServeStale(c)
  PROVE  IInv'
<1> DEFINE k == ctx[c].key
<1>1. /\ ctx[c].pc = "stale" /\ k \in Key /\ ctx[c].meth \in {"GET", "HEAD"}
  BY DEF ServeStale, IInv, TypeOK, Handling, Handlers
<1>2. cache'.items = cache.items /\ UNCHANGED <<group, flight, site, now, strayed>>
  BY TouchItems DEF ServeStale
<1>3. ASSUME NEW label \in {"STALE", "502"}, NEW e, Answer(c, label, e)
      PROVE  IInv'
  <2>1. Due(k, ctx[c].meth, ctx[c].floor, label, e)
    BY DEF Due
  <2> QED BY <1>1, <1>2, <1>3, <2>1, AnswerKeeps DEF Answer
<1> QED BY <1>3 DEF ServeStale

-----------------------------------------------------------------------------
(* The goroutine of a fetch *)

(* While it is under way it keeps its key, its place in the group and its waiters. *)
LEMMA UnderWay ==
  ASSUME IInv, NEW f \in Flight, flight[f].pc # "free", flight'[f].pc # "free",
         flight'[f].key = flight[f].key, \A g \in Flight : g # f => flight'[g] = flight[g],
         UNCHANGED <<ctx, group>>
  PROVE  Handlers' /\ OneFetch' /\ NoOrphan'
<1>1. \A g \in Flight : /\ flight'[g].key = flight[g].key
                         /\ flight'[g].pc = "free" <=> flight[g].pc = "free"
  OBVIOUS
<1>2. Handlers'
  BY DEF IInv, Handlers
<1>3. OneFetch'
  <2>1. \A k \in Key : group[k] # None => group[k] \in Flight
    BY DEF IInv, TypeOK
  <2> QED BY <1>1, <2>1 DEF IInv, OneFetch
<1>4. NoOrphan'
  <2>1. \A c \in Context : ctx[c].fl # None => ctx[c].fl \in Flight
    BY DEF IInv, TypeOK, Handling
  <2> QED BY <1>1, <2>1 DEF IInv, NoOrphan
<1> QED BY <1>2, <1>3, <1>4

(* The goroutine reads the request of its starter: its own, unless the key strays. *)
LEMMA FetchStartKeeps ==
  ASSUME IInv, NEW f \in Flight, FetchStart(f)
  PROVE  IInv'
<1> DEFINE c == flight[f].starter
<1>1. /\ flight[f] \in Fetching /\ flight[f].pc = "queued" /\ c \in Context /\ ctx[c].key \in Key
      /\ flight[f].key \in Key /\ flight[f].result = "none" /\ ctx[c].meth \in {"GET", "HEAD"}
  BY DEF FetchStart, IInv, TypeOK, Handling, Fetches, OneFetch
<1>2. /\ UNCHANGED <<cache, ctx, group, site, now, seen>> /\ out' = NoOut
      /\ strayed' = IF ctx[c].fl = f THEN strayed ELSE strayed \cup {flight[f].key}
  BY DEF FetchStart, Quiet
<1>3. flight' = [flight EXCEPT ![f].pc = "fetch", ![f].at = 1, ![f].starter = None,
                               ![f].meth = ctx[c].meth, ![f].path = ctx[c].key]
  BY DEF FetchStart
<1>4. /\ flight' \in [Flight -> Fetching] /\ \A g \in Flight : g # f => flight'[g] = flight[g]
      /\ flight'[f].pc = "fetch" /\ flight'[f].meth = ctx[c].meth /\ flight'[f].path = ctx[c].key
      /\ flight'[f].key = flight[f].key /\ flight'[f].result = "none"
  BY <1>1, <1>3 DEF IInv, TypeOK, Fetching
<1>5. flight[f].key \notin strayed' => ctx[c].key = flight[f].key /\ ctx[c].meth = "GET"
  BY <1>1, <1>2, FlightAssumption DEF IInv, Handlers, NoOrphan
<1>6. strayed \subseteq strayed' /\ strayed' \subseteq Key
  BY <1>1, <1>2 DEF IInv, TypeOK
<1> HIDE DEF c
<1>7. TypeOK'
  BY <1>2, <1>4, <1>6 DEF IInv, TypeOK
<1>8. Handlers' /\ OneFetch' /\ NoOrphan'
  BY <1>1, <1>2, <1>4, UnderWay
<1>9. Fetches'
  BY <1>1, <1>2, <1>4 DEF IInv, Fetches
<1>10. OwnEntries'
  BY <1>2, <1>4, <1>5, <1>6 DEF IInv, OwnEntries, Own
<1>11. SeenOld'
  BY <1>2, <1>4, <1>6 DEF IInv, SeenOld
<1>12. Upward' /\ Delivered'
  BY <1>2, <1>4, <1>6 DEF IInv, Upward, Delivered, Has, Counted
<1>13. MonotonicReads'
  BY <1>2 DEF MonotonicReads, NoOut
<1> QED BY <1>7, <1>8, <1>9, <1>10, <1>11, <1>12, <1>13 DEF IInv

(* An origin that fails: the next one, or the end without an entry. *)
LEMMA FetchFailKeeps ==
  ASSUME IInv, NEW f \in Flight, FetchFail(f)
  PROVE  IInv'
<1>1. /\ flight[f] \in Fetching /\ flight[f].pc = "fetch" /\ flight[f].result = "none"
      /\ flight[f].at + 1 \in Nat
  BY DEF FetchFail, IInv, TypeOK, Fetching, Fetches
<1>2. UNCHANGED <<cache, ctx, group, site, now, seen, strayed>> /\ out' = NoOut
  BY DEF FetchFail, Quiet
<1>3. /\ flight' \in [Flight -> Fetching] /\ \A g \in Flight : g # f => flight'[g] = flight[g]
      /\ flight'[f].key = flight[f].key /\ flight'[f].path = flight[f].path
      /\ flight'[f].meth = flight[f].meth
      /\ \/ flight'[f].pc = "fetch" /\ flight'[f].result = "none"
         \/ flight'[f].pc = "return" /\ flight'[f].result = "unavailable"
  <2>1. CASE flight[f].at < Origins
    <3>1. flight' = [flight EXCEPT ![f].at = @ + 1]
      BY <2>1 DEF FetchFail
    <3> QED BY <1>1, <3>1 DEF IInv, TypeOK, Fetching
  <2>2. CASE ~(flight[f].at < Origins)
    <3>1. flight' = [flight EXCEPT ![f].pc = "return", ![f].result = "unavailable"]
      BY <2>2 DEF FetchFail
    <3> QED BY <1>1, <3>1 DEF IInv, TypeOK, Fetching, Results
  <2> QED BY <2>1, <2>2
<1>4. TypeOK'
  BY <1>2, <1>3 DEF IInv, TypeOK
<1>5. Handlers' /\ OneFetch' /\ NoOrphan'
  BY <1>1, <1>2, <1>3, UnderWay
<1>6. Fetches'
  BY <1>1, <1>2, <1>3 DEF IInv, Fetches
<1>7. OwnEntries' /\ SeenOld'
  BY <1>1, <1>2, <1>3 DEF IInv, OwnEntries, Own, SeenOld
<1>8. Upward' /\ Delivered'
  BY <1>2, <1>3 DEF IInv, Upward, Delivered, Has, Counted
<1>9. MonotonicReads'
  BY <1>2 DEF MonotonicReads, NoOut
<1> QED BY <1>4, <1>5, <1>6, <1>7, <1>8, <1>9 DEF IInv

(* A reply is of the version published now, which is the newest anyone can hold. *)
LEMMA FetchReplyKeeps ==
  ASSUME IInv, NEW f \in Flight, FetchReply(f)
  PROVE  IInv'
<1> DEFINE b == Buffer(flight[f].path, flight[f].meth)
<1>1. /\ flight[f] \in Fetching /\ flight[f].pc = "fetch" /\ flight[f].result = "none"
      /\ flight[f].path \in Key /\ flight[f].meth \in {"GET", "HEAD"} /\ flight[f].key \in Key
  BY DEF FetchReply, IInv, TypeOK, Fetching, Fetches, OneFetch
<1>2. UNCHANGED <<cache, ctx, group, site, now, seen, strayed>> /\ out' = NoOut
  BY DEF FetchReply, Quiet
<1>3. b \in Entry /\ b.key = flight[f].path /\ b.meth = flight[f].meth /\ b.ver = site[flight[f].path]
  BY <1>1, BufferType DEF IInv
<1> HIDE DEF b
<1>4. /\ flight' \in [Flight -> Fetching] /\ \A g \in Flight : g # f => flight'[g] = flight[g]
      /\ flight'[f].key = flight[f].key /\ flight'[f].path = flight[f].path
      /\ flight'[f].meth = flight[f].meth
      /\ \/ flight'[f].pc = "return" /\ flight'[f].result = "large"
         \/ flight'[f].pc = "put" /\ flight'[f].result = "entry" /\ flight'[f].entry = b
  <2>1. CASE Reply(flight[f].path).large
    <3>1. flight' = [flight EXCEPT ![f].pc = "return", ![f].result = "large"]
      BY <2>1 DEF FetchReply
    <3> QED BY <1>1, <3>1 DEF IInv, TypeOK, Fetching, Results
  <2>2. CASE ~Reply(flight[f].path).large
    <3>1. flight' = [flight EXCEPT ![f].pc = "put", ![f].result = "entry", ![f].entry = b]
      BY <2>2 DEF FetchReply, b
    <3> QED BY <1>1, <1>3, <3>1 DEF IInv, TypeOK, Fetching, Results
  <2> QED BY <2>1, <2>2
<1>5. flight[f].key \notin strayed =>
        /\ Own(flight[f].key, b)
        /\ seen[flight[f].key] <= b.ver
        /\ Has(cache, flight[f].key) => cache.items[flight[f].key].ver <= b.ver
        /\ \A c \in Context : ctx[c].got = "entry" /\ ctx[c].key = flight[f].key => ctx[c].entry.ver <= b.ver
  <2> SUFFICES ASSUME flight[f].key \notin strayed
               PROVE  /\ Own(flight[f].key, b)
                      /\ seen[flight[f].key] <= b.ver
                      /\ Has(cache, flight[f].key) => cache.items[flight[f].key].ver <= b.ver
                      /\ \A c \in Context : ctx[c].got = "entry" /\ ctx[c].key = flight[f].key
                                               => ctx[c].entry.ver <= b.ver
    OBVIOUS
  <2>1. flight[f].path = flight[f].key /\ flight[f].meth = "GET" /\ b.ver = site[flight[f].key]
    BY <1>1, <1>3 DEF IInv, OwnEntries
  <2>2. b.ver \in Nat
    BY <1>3 DEF Entry
  <2>3. Own(flight[f].key, b) /\ seen[flight[f].key] <= b.ver
    BY <1>1, <1>3, <2>1, <2>2 DEF Own, IInv, SeenOld
  <2> QED BY <2>1, <2>3 DEF Has, IInv, OwnEntries, Own
<1>6. TypeOK'
  BY <1>2, <1>4 DEF IInv, TypeOK
<1>7. Handlers' /\ OneFetch' /\ NoOrphan'
  BY <1>1, <1>2, <1>4, UnderWay
<1>8. Fetches'
  BY <1>1, <1>2, <1>3, <1>4 DEF IInv, Fetches
<1>9. OwnEntries'
  BY <1>1, <1>2, <1>4, <1>5 DEF IInv, OwnEntries, Own
<1>10. SeenOld'
  BY <1>1, <1>2, <1>4, <1>5 DEF IInv, SeenOld
<1>11. Upward' /\ Delivered'
  BY <1>2, <1>4, <1>5 DEF IInv, Upward, Delivered, Has, Counted
<1>12. MonotonicReads'
  BY <1>2 DEF MonotonicReads, NoOut
<1> QED BY <1>6, <1>7, <1>8, <1>9, <1>10, <1>11, <1>12 DEF IInv

(* The put replaces what is cached for the key by something as new, and adds nothing else. *)
LEMMA FetchPutKeeps ==
  ASSUME IInv, NEW f \in Flight, FetchPut(f)
  PROVE  IInv'
<1> DEFINE k == flight[f].key  e == flight[f].entry
<1>1. /\ flight[f] \in Fetching /\ flight[f].pc = "put" /\ flight[f].result = "entry"
      /\ e \in Entry /\ k \in Key
  BY DEF FetchPut, IInv, TypeOK, Fetches, OneFetch
<1>2. UNCHANGED <<ctx, group, site, now, seen, strayed>> /\ out' = NoOut
  BY DEF FetchPut, Quiet
<1>3. /\ flight' \in [Flight -> Fetching] /\ \A g \in Flight : g # f => flight'[g] = flight[g]
      /\ flight'[f].key = k /\ flight'[f].pc = "return" /\ flight'[f].result = "entry"
      /\ flight'[f].entry = e
  <2>1. flight' = [flight EXCEPT ![f].pc = "return"]
    BY DEF FetchPut
  <2> QED BY <1>1, <2>1 DEF IInv, TypeOK, Fetching
<1>4. \/ cache' = cache /\ ~Counted(e)
      \/ /\ DOMAIN cache'.items \subseteq DOMAIN cache.items \cup {k}
         /\ \A j \in DOMAIN cache'.items : cache'.items[j] = IF j = k THEN e ELSE cache.items[j]
  <2>1. CASE ~e.storable
    BY <2>1 DEF FetchPut, Counted
  <2>2. CASE e.storable
    <3>1. cache' = Put(cache, k, e)
      BY <2>2 DEF FetchPut
    <3>2. e.size > MaxBytes => ~(e.size <= MaxBytes)
      BY <1>1, MaxBytesAssumption DEF Entry
    <3> HIDE DEF k, e
    <3> QED BY <3>1, <3>2, PutItems DEF Counted
  <2> QED BY <2>1, <2>2
<1>5. \A g \in Flight : flight[g].result = "entry" /\ flight[g].key = k => g = f
  BY <1>1 DEF IInv, TypeOK, Fetching, Fetches, OneFetch
<1>6. k \notin strayed =>
        /\ Own(k, e) /\ seen[k] <= e.ver
        /\ Has(cache, k) => cache.items[k].ver <= e.ver
        /\ \A c \in Context : ctx[c].got = "entry" /\ ctx[c].key = k => ctx[c].entry.ver <= e.ver
  BY <1>1 DEF IInv, OwnEntries, SeenOld, Upward
<1>7. e.ver \in Nat
  BY <1>1 DEF Entry
<1>8. flight[f].pc # "free" /\ flight'[f].pc # "free" /\ flight'[f].key = flight[f].key
  BY <1>1, <1>3
<1>9. Handlers' /\ OneFetch' /\ NoOrphan'
  BY <1>2, <1>3, <1>8, UnderWay
<1> HIDE DEF k, e
<1>10. TypeOK'
  BY <1>1, <1>2, <1>3, <1>4 DEF IInv, TypeOK
<1>11. Fetches'
  BY <1>1, <1>2, <1>3 DEF IInv, Fetches
<1>12. OwnEntries'
  BY <1>1, <1>2, <1>3, <1>4, <1>6 DEF IInv, OwnEntries, Own
<1>13. SeenOld'
  BY <1>1, <1>2, <1>3, <1>4, <1>6 DEF IInv, SeenOld
<1>14. Upward'
  BY <1>1, <1>2, <1>3, <1>4, <1>5, <1>6, <1>7 DEF IInv, Upward, Has, Counted
<1>15. Delivered'
  BY <1>2, <1>4, <1>6 DEF IInv, Delivered, Has, Counted
<1>16. MonotonicReads'
  BY <1>2 DEF MonotonicReads, NoOut
<1> QED BY <1>9, <1>10, <1>11, <1>12, <1>13, <1>14, <1>15, <1>16 DEF IInv

(* The return hands the entry to every waiter of the key and to nobody else. *)
LEMMA FetchReturnKeeps ==
  ASSUME IInv, NEW f \in Flight, FetchReturn(f)
  PROVE  IInv'
<1> DEFINE k == flight[f].key  e == flight[f].entry  r == flight[f].result
<1>1. /\ flight[f] \in Fetching /\ flight[f].pc = "return" /\ k \in Key /\ r \in Results \ {"none"}
      /\ e \in Entry \cup {NoEntry} /\ (r = "entry" => e \in Entry)
  BY DEF FetchReturn, IInv, TypeOK, Fetching, Fetches, OneFetch
<1>2. UNCHANGED <<cache, site, now, seen, strayed>> /\ out' = NoOut
  BY DEF FetchReturn, Quiet
<1>3. /\ flight' \in [Flight -> Fetching] /\ \A g \in Flight : g # f => flight'[g] = flight[g]
      /\ flight'[f].pc = "free" /\ flight'[f].result = "none"
  <2>1. flight' = [flight EXCEPT ![f] = Launched("free", None, None)]
    BY DEF FetchReturn, NoFlight
  <2> QED BY <2>1, NoFlightType DEF IInv, TypeOK, NoFlight
<1>4. group' = [j \in Key |-> IF group[j] = f THEN None ELSE group[j]]
  BY DEF FetchReturn
<1>5. /\ ctx' \in [Context -> Handling]
      /\ \A c \in Context : ctx[c].fl # f => ctx'[c] = ctx[c]
      /\ \A c \in Context : ctx[c].fl = f => /\ ctx'[c].fl = None /\ ctx'[c].got = r /\ ctx'[c].entry = e
                                              /\ ctx[c].key = k /\ ctx'[c].pc = "wait"
      /\ \A c \in Context : /\ ctx'[c].pc = ctx[c].pc /\ ctx'[c].meth = ctx[c].meth
                              /\ ctx'[c].key = ctx[c].key /\ ctx'[c].floor = ctx[c].floor
  <2> SUFFICES ASSUME NEW c \in Context
               PROVE  /\ ctx'[c] \in Handling
                      /\ ctx[c].fl # f => ctx'[c] = ctx[c]
                      /\ ctx[c].fl = f => /\ ctx'[c].fl = None /\ ctx'[c].got = r /\ ctx'[c].entry = e
                                          /\ ctx[c].key = k /\ ctx'[c].pc = "wait"
                      /\ ctx'[c].pc = ctx[c].pc /\ ctx'[c].meth = ctx[c].meth
                      /\ ctx'[c].key = ctx[c].key /\ ctx'[c].floor = ctx[c].floor
    BY DEF FetchReturn
  <2>1. ctx[c] \in Handling
    BY DEF IInv, TypeOK
  <2>2. CASE ctx[c].fl = f
    <3>1. ctx'[c] = [ctx[c] EXCEPT !.fl = None, !.got = r, !.entry = e]
      BY <2>2 DEF FetchReturn
    <3>2. ctx[c].key = k /\ ctx[c].pc = "wait"
      BY <2>2, FlightAssumption DEF IInv, Handlers, NoOrphan
    <3> HIDE DEF k, e, r
    <3> QED BY <1>1, <2>1, <2>2, <3>1, <3>2 DEF Handling
  <2>3. CASE ctx[c].fl # f
    <3>1. ctx'[c] = ctx[c]
      BY <2>3 DEF FetchReturn
    <3> QED BY <2>1, <2>3, <3>1
  <2> QED BY <2>2, <2>3
<1>6. k \notin strayed /\ r = "entry" =>
        /\ Own(k, e) /\ seen[k] <= e.ver
        /\ Has(cache, k) => cache.items[k].ver <= e.ver
        /\ Has(cache, k) /\ Counted(e) => e.ver <= cache.items[k].ver
        /\ \A c \in Context : ctx[c].got = "entry" /\ ctx[c].key = k => ctx[c].entry.ver <= e.ver
  <2>1. r = "entry" => e.ver \in Nat
    BY <1>1 DEF Entry
  <2>2. \A j \in DOMAIN cache.items : cache.items[j].ver \in Nat
    BY DEF IInv, TypeOK, Entry
  <2> QED BY <1>1, <2>1, <2>2 DEF IInv, OwnEntries, SeenOld, Upward, Has
<1>7. \A g \in Flight : flight'[g].pc # "free" => flight[g].key # k /\ g # f /\ flight'[g] = flight[g]
  BY <1>1, <1>3 DEF IInv, OneFetch
<1>8. \A g \in Flight : flight'[g].result = "entry" => flight'[g].pc # "free"
  BY <1>3 DEF IInv, TypeOK, Fetching, Fetches
<1> HIDE DEF k, e, r
<1>9. TypeOK'
  BY <1>2, <1>3, <1>4, <1>5 DEF IInv, TypeOK
<1>10. Handlers'
  BY <1>1, <1>5, FlightAssumption DEF IInv, Handlers
<1>11. OneFetch'
  BY <1>3, <1>4, <1>7, FlightAssumption DEF IInv, TypeOK, OneFetch
<1>12. Fetches'
  <2>1. \A g \in Flight : flight'[g].pc # "free" => flight'[g] = flight[g]
    BY <1>7
  <2>2. \A c \in Context : ctx'[c].key = ctx[c].key
    BY <1>5
  <2> QED BY <1>3, <1>8, <2>1, <2>2 DEF IInv, Fetches
<1>13. OwnEntries'
  BY <1>2, <1>3, <1>5, <1>6 DEF IInv, OwnEntries, Own
<1>14. SeenOld'
  <2>1. \A c \in Context : ctx'[c].got = "entry" /\ ctx'[c].key \notin strayed
                             => ctx'[c].floor <= ctx'[c].entry.ver
    <3> SUFFICES ASSUME NEW c \in Context, ctx'[c].got = "entry", ctx'[c].key \notin strayed
                 PROVE  ctx'[c].floor <= ctx'[c].entry.ver
      OBVIOUS
    <3>1. CASE ctx[c].fl # f
      BY <3>1, <1>5 DEF IInv, SeenOld
    <3>2. CASE ctx[c].fl = f
      <4>1. ctx[c].key = k /\ r = "entry" /\ ctx'[c].entry = e /\ ctx[c].pc = "wait"
            /\ ctx'[c].floor = ctx[c].floor
        BY <3>2, <1>5
      <4>2. ctx[c].floor <= seen[k] /\ seen[k] <= e.ver
        BY <4>1, <1>5, <1>6 DEF IInv, SeenOld
      <4>3. ctx[c].floor \in Nat /\ seen[k] \in Nat /\ e.ver \in Nat
        BY <1>1, <4>1 DEF IInv, TypeOK, Handling, Entry
      <4> QED BY <4>1, <4>2, <4>3
    <3> QED BY <3>1, <3>2
  <2>2. \A g \in Flight : flight'[g].result = "entry" /\ flight'[g].key \notin strayed
                            => seen[flight'[g].key] <= flight'[g].entry.ver
    BY <1>7, <1>8 DEF IInv, SeenOld
  <2> QED BY <1>2, <1>5, <2>1, <2>2 DEF IInv, SeenOld
<1>15. Upward'
  BY <1>2, <1>5, <1>7, <1>8 DEF IInv, Upward, Has, Counted
<1>16. Delivered'
  BY <1>2, <1>5, <1>6 DEF IInv, Delivered, Has, Counted
<1>17. NoOrphan'
  <2>1. \A c \in Context : ctx[c].fl # None => ctx[c].fl \in Flight
    BY DEF IInv, TypeOK, Handling
  <2> QED BY <1>1, <1>3, <1>5, <2>1 DEF IInv, NoOrphan
<1>18. MonotonicReads'
  BY <1>2 DEF MonotonicReads, NoOut
<1> QED BY <1>9, <1>10, <1>11, <1>12, <1>13, <1>14, <1>15, <1>16, <1>17, <1>18 DEF IInv

-----------------------------------------------------------------------------
(* The surroundings *)

LEMMA PublishKeeps ==
  ASSUME IInv, NEW k \in Key, Publish(k)
  PROVE  IInv'
<1>1. UNCHANGED <<cache, ctx, group, flight, now, seen, strayed>> /\ out' = NoOut
  BY DEF Publish, Quiet
<1>2. site[k] < Len(Content[k]) /\ site' = [site EXCEPT ![k] = @ + 1]
  BY DEF Publish
<1>3. \A j \in Key : Len(Content[j]) \in Nat
  BY ContentAssumption
<1>4. /\ site' \in [Key -> Nat] /\ \A j \in Key : site'[j] \in 1..Len(Content[j]) /\ site[j] <= site'[j]
  BY <1>2, <1>3 DEF IInv, TypeOK
<1>5. TypeOK'
  BY <1>1, <1>4 DEF IInv, TypeOK
<1>6. Handlers' /\ OneFetch' /\ Fetches'
  BY <1>1 DEF IInv, Handlers, OneFetch, Fetches
<1>7. ASSUME NEW j \in Key, NEW e \in Entry, Own(j, e)
      PROVE  Own(j, e)'
  <2>1. e.ver \in Nat /\ site[j] \in Nat /\ site'[j] \in Nat /\ site[j] <= site'[j]
    BY <1>4 DEF IInv, TypeOK, Entry
  <2> QED BY <1>7, <2>1 DEF Own
<1>8. OwnEntries'
  BY <1>1, <1>7 DEF IInv, TypeOK, OwnEntries, Handlers, Fetches, OneFetch
<1>9. SeenOld'
  <2>1. \A j \in Key \ strayed : seen[j] <= site'[j]
    BY <1>4 DEF IInv, TypeOK, SeenOld
  <2> QED BY <1>1, <2>1 DEF IInv, SeenOld
<1>10. Upward' /\ Delivered'
  BY <1>1 DEF IInv, Upward, Delivered, Has, Counted
<1>11. NoOrphan' /\ MonotonicReads'
  BY <1>1 DEF IInv, NoOrphan, MonotonicReads, NoOut
<1> QED BY <1>5, <1>6, <1>8, <1>9, <1>10, <1>11 DEF IInv

LEMMA TickKeeps ==
  ASSUME IInv, Tick
  PROVE  IInv'
<1>1. UNCHANGED <<cache, ctx, group, flight, site, seen, strayed>> /\ out' = NoOut /\ now' = now + 1
  BY DEF Tick, Quiet
<1>2. TypeOK'
  BY <1>1 DEF IInv, TypeOK
<1>3. Handlers' /\ OneFetch' /\ Fetches' /\ OwnEntries' /\ SeenOld'
  BY <1>1 DEF IInv, Handlers, OneFetch, Fetches, OwnEntries, Own, SeenOld
<1>4. Upward' /\ Delivered' /\ NoOrphan' /\ MonotonicReads'
  BY <1>1 DEF IInv, Upward, Delivered, Has, Counted, NoOrphan, MonotonicReads, NoOut
<1> QED BY <1>2, <1>3, <1>4 DEF IInv

LEMMA StutterKeeps ==
  ASSUME IInv, UNCHANGED vars
  PROVE  IInv'
<1>1. TypeOK' /\ Handlers' /\ OneFetch' /\ Fetches' /\ OwnEntries' /\ SeenOld'
  BY DEF IInv, TypeOK, Handlers, OneFetch, Fetches, OwnEntries, Own, SeenOld
<1>2. Upward' /\ Delivered' /\ NoOrphan' /\ MonotonicReads'
  BY DEF IInv, Upward, Delivered, Has, Counted, NoOrphan, MonotonicReads
<1> QED BY <1>1, <1>2 DEF IInv

LEMMA InitIInv == Init => IInv
<1> SUFFICES ASSUME Init PROVE IInv
  OBVIOUS
<1>1. cache.items = <<>> /\ DOMAIN cache.items = {}
  BY DEF Init, NewCache
<1>2. /\ ctx \in [Context -> Handling]
      /\ \A c \in Context : ctx[c].pc = "idle" /\ ctx[c].fl = None /\ ctx[c].got = "none"
  BY IdleType DEF Init
<1>3. /\ flight \in [Flight -> Fetching]
      /\ \A f \in Flight : flight[f].pc = "free" /\ flight[f].result = "none"
  BY NoFlightType DEF Init
<1>4. group = [k \in Key |-> None] /\ site = [k \in Key |-> 1] /\ now = 0 /\ out = NoOut
      /\ seen = [k \in Key |-> 0] /\ strayed = {}
  BY DEF Init
<1>5. TypeOK
  <2>1. \A k \in Key : Len(Content[k]) \in Nat /\ Len(Content[k]) >= 1
    BY ContentAssumption
  <2> QED BY <1>1, <1>2, <1>3, <1>4, <2>1 DEF TypeOK
<1>6. Handlers /\ OneFetch /\ Fetches
  BY <1>2, <1>3, <1>4 DEF Handlers, OneFetch, Fetches
<1>7. OwnEntries /\ SeenOld
  BY <1>1, <1>2, <1>3, <1>4 DEF OwnEntries, SeenOld
<1>8. Upward /\ Delivered /\ NoOrphan /\ MonotonicReads
  BY <1>1, <1>2, <1>3, <1>4 DEF Upward, Delivered, NoOrphan, MonotonicReads, NoOut
<1> QED BY <1>5, <1>6, <1>7, <1>8 DEF IInv

LEMMA NextKeeps == IInv /\ [Next]_vars => IInv'
<1> SUFFICES ASSUME IInv, [Next]_vars PROVE IInv'
  OBVIOUS
<1>1. ASSUME NEW c \in Context, NEW q \in Request, Handle(c, q[1], q[2]) PROVE IInv'
  <2>1. q[1] \in Key /\ q[2] \in {"GET", "HEAD"}
    BY RequestAssumption
  <2> QED BY <1>1, <2>1, HandleKeeps
<1>2. ASSUME NEW c \in Context, Handler(c) \/ GiveUp(c) PROVE IInv'
  BY <1>2, DoChanKeeps, ServeResultKeeps, StreamKeeps, ServeUnavailableKeeps, ServeStaleKeeps,
     GiveUpKeeps DEF Handler
<1>3. ASSUME NEW f \in Flight, Fetch(f) PROVE IInv'
  BY <1>3, FetchStartKeeps, FetchFailKeeps, FetchReplyKeeps, FetchPutKeeps, FetchReturnKeeps DEF Fetch
<1>4. ASSUME NEW k \in Key, Publish(k) PROVE IInv'
  BY <1>4, PublishKeeps
<1> QED BY <1>1, <1>2, <1>3, <1>4, TickKeeps, StutterKeeps DEF Next

(* The inductive invariant holds in every reachable state. *)
THEOREM Invariance == Spec => []IInv
BY InitIInv, NextKeeps, PTL DEF Spec

(* Nobody waits for a fetch that is over, for another key's or for none. *)
THEOREM NobodyOrphaned == Spec => []NoOrphan
<1>1. IInv => NoOrphan
  BY DEF IInv
<1> QED BY <1>1, Invariance, PTL

(* A client that asks again does not go back in time, whatever expires, is evicted,
   fails or is published between its requests. *)
THEOREM ReadsMonotonic == Spec => []MonotonicReads
<1>1. IInv => MonotonicReads
  BY DEF IInv
<1> QED BY <1>1, Invariance, PTL

(* Whatever is cached or being fetched under a key was asked for under that key with
   a GET, unless a fetch of the key began after the caller that wanted it had left. *)
THEOREM CacheFiledUnderKey == Spec => []FiledUnderItsKey
<1>1. IInv => FiledUnderItsKey
  BY DEF IInv, TypeOK, OwnEntries, Own, FiledUnderItsKey
<1> QED BY <1>1, Invariance, PTL

-----------------------------------------------------------------------------
(* The cache *)

(* Only handlers that touch and fetches that put change the cache, ... *)
LEMMA CacheSteps ==
  ASSUME IInv, [Next]_vars
  PROVE  \/ cache' = cache
         \/ \E k \in Key : cache' = Touch(cache, k)
         \/ \E f \in Flight : /\ flight[f].entry \in Entry
                              /\ cache' = Put(cache, flight[f].key, flight[f].entry)
<1> DEFINE Goal == \/ cache' = cache
                   \/ \E k \in Key : cache' = Touch(cache, k)
                   \/ \E f \in Flight : /\ flight[f].entry \in Entry
                                        /\ cache' = Put(cache, flight[f].key, flight[f].entry)
<1>1. ASSUME NEW c \in Context, NEW q \in Request, Handle(c, q[1], q[2]) PROVE Goal
  <2>1. q[1] \in Key /\ cache' = Touch(cache, q[1])
    BY <1>1, RequestAssumption DEF Handle
  <2> QED BY <2>1
<1>2. ASSUME NEW c \in Context, Handler(c) \/ GiveUp(c) PROVE Goal
  <2>1. CASE DoChan(c) \/ ServeResult(c) \/ Stream(c) \/ GiveUp(c)
    BY <2>1 DEF DoChan, ServeResult, Stream, GiveUp
  <2>2. CASE ServeUnavailable(c) \/ ServeStale(c)
    <3>1. ctx[c].key \in Key /\ cache' = Touch(cache, ctx[c].key)
      BY <2>2 DEF ServeUnavailable, ServeStale, IInv, Handlers
    <3> QED BY <3>1
  <2> QED BY <1>2, <2>1, <2>2 DEF Handler
<1>3. ASSUME NEW f \in Flight, Fetch(f) PROVE Goal
  <2>1. CASE FetchPut(f)
    <3>1. flight[f].entry \in Entry
      BY <2>1 DEF FetchPut, IInv, Fetches
    <3> QED BY <2>1, <3>1 DEF FetchPut
  <2>2. CASE FetchStart(f) \/ FetchFail(f) \/ FetchReply(f) \/ FetchReturn(f)
    BY <2>2 DEF FetchStart, FetchFail, FetchReply, FetchReturn
  <2> QED BY <1>3, <2>1, <2>2 DEF Fetch
<1>4. ASSUME (\E k \in Key : Publish(k)) \/ Tick \/ UNCHANGED vars PROVE Goal
  BY <1>4 DEF Publish, Tick
<1> QED BY <1>1, <1>2, <1>3, <1>4 DEF Next

(* ... so it stays sound. *)
LEMMA CacheSound == Spec => []Sound(cache)
<1>1. Init => Sound(cache)
  BY NewCacheSound DEF Init
<1>2. IInv /\ Sound(cache) /\ [Next]_vars => Sound(cache)'
  <2> SUFFICES ASSUME IInv, Sound(cache), [Next]_vars PROVE Sound(cache')
    OBVIOUS
  <2>1. ASSUME NEW k \in Key, cache' = Touch(cache, k) PROVE Sound(cache')
    BY <2>1, TouchSound
  <2>2. ASSUME NEW f \in Flight, flight[f].entry \in Entry,
               cache' = Put(cache, flight[f].key, flight[f].entry)
        PROVE  Sound(cache')
    <3>1. flight[f].entry.size \in Nat
      BY <2>2 DEF Entry
    <3> QED BY <2>2, <3>1, PutSound
  <2> QED BY <2>1, <2>2, CacheSteps
<1> QED BY <1>1, <1>2, Invariance, PTL DEF Spec

(* Over any sequence of puts, hits, evictions and replacements of entries of any *)
(* sizes, the byte count is the size of what is held and within the budget, and  *)
(* the order and the index hold the same keys.                                   *)
THEOREM CacheBudget == Spec => []BudgetKept
<1>1. Sound(cache) => BudgetKept
  BY SoundConsistent DEF BudgetKept
<1> QED BY <1>1, CacheSound, PTL

=============================================================================
