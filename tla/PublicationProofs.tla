------------------------- MODULE PublicationProofs -------------------------
(***************************************************************************)
(* Proofs about Publication. What a lot shows is counted and numbered, so  *)
(* they begin with the numbers: a finite set of naturals has a largest     *)
(* element, n of its elements are its first n, and numbering them by how   *)
(* many come before gives 0..n-1. The steps follow from the keys of        *)
(* photographs never being used twice. The average behind the price factor *)
(* is a sum over a set, that is a recursive function that is chosen: there *)
(* is one because there is no least bound up to which there is none, and   *)
(* the bounds on the sum are shown in the same way.                        *)
(***************************************************************************)
EXTENDS Publication, FiniteSetTheorems, WellFoundedInduction, TLAPS

-----------------------------------------------------------------------------
(* Numbers *)

LEMMA LeastNat ==
    ASSUME NEW T, T \subseteq Nat, T # {}
    PROVE  \E x \in T : \A y \in T : x <= y
<1>1. PICK x \in T : \A y \in T : ~ (<<y, x>> \in OpToRel(<, Nat))
  BY NatLessThanWellFounded, WFMin
<1>2. \E z \in T : \A y \in T : ~ (y < z)
  BY <1>1 DEF OpToRel
<1> QED  BY <1>2

HasMax(T) == \E m \in T : \A y \in T : m >= y

\* By the smallest subset without one.
LEMMA MaxExists ==
    ASSUME NEW S, S \subseteq Nat, IsFiniteSet(S), S # {}
    PROVE  HasMax(S)
<1> DEFINE C == {c \in Nat : \E T \in SUBSET S : T # {} /\ Cardinality(T) = c /\ ~HasMax(T)}
<1> SUFFICES ASSUME ~HasMax(S) PROVE FALSE
  OBVIOUS
<1>1. \A T \in SUBSET S : IsFiniteSet(T) /\ Cardinality(T) \in Nat
  BY FS_Subset, FS_CardinalityType
<1>2. C # {} /\ C \subseteq Nat
  BY <1>1
<1>3. PICK c \in C : \A d \in Nat : d < c => d \notin C
  <2> HIDE DEF C
  <2>1. PICK c \in C : \A d \in C : c <= d
    BY <1>2, LeastNat
  <2> QED  BY <1>2, <2>1
<1>4. PICK T \in SUBSET S : T # {} /\ Cardinality(T) = c /\ ~HasMax(T)
  OBVIOUS
<1>5. PICK x \in T : TRUE
  BY <1>4
<1> DEFINE U == T \ {x}
<1>6. U \in SUBSET S /\ Cardinality(U) = c - 1 /\ c \in Nat /\ Cardinality(U) \in Nat
  BY <1>1, <1>4, <1>5, FS_RemoveElement
<1>7. U = {} \/ HasMax(U)
  <2>1. Cardinality(U) \notin C
    BY <1>3, <1>6
  <2> QED  BY <1>6, <2>1
<1>8. T \subseteq Nat
  OBVIOUS
<1>9. HasMax(T)
  BY <1>5, <1>7, <1>8 DEF HasMax
<1> QED  BY <1>4, <1>9

LEMMA MaxIs ==
    ASSUME NEW S, S \subseteq Nat, IsFiniteSet(S), S # {}
    PROVE  Max(S) \in S /\ \A y \in S : Max(S) >= y
BY MaxExists DEF HasMax, Max

Before(S, k) == {j \in S : j < k}
FirstOf(S, n) == {k \in S : Cardinality(Before(S, k)) < n}

\* A set has n first elements, if it has n at all: by the smallest set that has not.
LEMMA FirstAre ==
    ASSUME NEW S, S \subseteq Nat, IsFiniteSet(S), NEW n \in 0..Cardinality(S)
    PROVE  Cardinality(FirstOf(S, n)) = n
<1> DEFINE Bad(T) == \E i \in 0..Cardinality(T) : Cardinality(FirstOf(T, i)) # i
           C == {c \in Nat : \E T \in SUBSET S : Cardinality(T) = c /\ Bad(T)}
<1> SUFFICES ASSUME Bad(S) PROVE FALSE
  OBVIOUS
<1>1. \A T \in SUBSET S : IsFiniteSet(T) /\ Cardinality(T) \in Nat
  BY FS_Subset, FS_CardinalityType
<1>2. C # {} /\ C \subseteq Nat
  BY <1>1
<1>3. PICK c \in C : \A d \in Nat : d < c => d \notin C
  <2> HIDE DEF C
  <2>1. PICK c \in C : \A d \in C : c <= d
    BY <1>2, LeastNat
  <2> QED  BY <1>2, <2>1
<1>4. PICK T \in SUBSET S : Cardinality(T) = c /\ Bad(T)
  OBVIOUS
<1>5. PICK i \in 0..c : Cardinality(FirstOf(T, i)) # i
  BY <1>4
<1>6. CASE T = {}
  BY <1>4, <1>5, <1>6, FS_EmptySet DEF FirstOf
<1>7. CASE T # {}
  <2> DEFINE m == Max(T)
             U == T \ {m}
  <2>1. T \subseteq Nat /\ m \in T /\ \A y \in T : m >= y
    BY <1>1, <1>7, MaxIs
  <2>2. U \in SUBSET S /\ Cardinality(U) = c - 1 /\ c \in Nat /\ Cardinality(U) \in Nat
    BY <1>1, <1>4, <2>1, FS_RemoveElement
  <2> HIDE DEF m
  <2>3. \A k \in U : Before(T, k) = Before(U, k)
    BY <2>1 DEF Before
  <2>4. Before(T, m) = U
    <3>1. \A j \in T : j < m <=> j # m
      BY <2>1
    <3> QED  BY <3>1 DEF Before
  <2>5. \A k \in T : Before(T, k) \subseteq U
    BY <2>1 DEF Before
  <2>6. \A k \in T : Cardinality(Before(T, k)) \in Nat /\ Cardinality(Before(T, k)) <= c - 1
    BY <1>1, <2>2, <2>5, FS_Subset
  <2>7. CASE i = c
    <3>1. FirstOf(T, i) = T
      <4>1. \A k \in T : Cardinality(Before(T, k)) < i
        BY <2>2, <2>6, <2>7
      <4> QED  BY <4>1 DEF FirstOf
    <3> QED  BY <1>4, <1>5, <2>7, <3>1
  <2>8. CASE i \in 0..(c - 1)
    <3>1. m \notin FirstOf(T, i)
      BY <2>2, <2>4, <2>8 DEF FirstOf
    <3>2. FirstOf(T, i) = FirstOf(U, i)
      BY <2>3, <3>1 DEF FirstOf
    <3>3. Cardinality(U) \notin C
      BY <1>3, <2>2
    <3>4. ~Bad(U)
      BY <2>2, <3>3
    <3> QED  BY <1>5, <2>2, <2>8, <3>2, <3>4
  <2> QED  BY <1>5, <2>2, <2>7, <2>8
<1> QED  BY <1>6, <1>7

\* Numbering the elements by how many come before gives 0..n-1, each once.
LEMMA Numbering ==
    ASSUME NEW K, K \subseteq Nat, IsFiniteSet(K)
    PROVE  /\ \A k \in K : Cardinality(Before(K, k)) \in 0..(Cardinality(K) - 1)
           /\ {Cardinality(Before(K, k)) : k \in K} = 0..(Cardinality(K) - 1)
<1> DEFINE n == Cardinality(K)
           f == [k \in K |-> Cardinality(Before(K, k))]
<1>1. n \in Nat /\ \A T \in SUBSET K : IsFiniteSet(T) /\ Cardinality(T) \in Nat
  BY FS_Subset, FS_CardinalityType
<1>2. ASSUME NEW k \in K PROVE Cardinality(Before(K, k)) \in 0..(n - 1)
  <2>1. Before(K, k) \in SUBSET (K \ {k})
    BY DEF Before
  <2>2. IsFiniteSet(K \ {k}) /\ Cardinality(K \ {k}) = n - 1
    BY <1>2, FS_RemoveElement
  <2>3. Cardinality(Before(K, k)) <= n - 1
    BY <2>1, <2>2, FS_Subset
  <2>4. Cardinality(Before(K, k)) \in Nat
    BY <1>1, <2>1
  <2> QED  BY <1>1, <2>3, <2>4
<1>3. ASSUME NEW j \in K, NEW k \in K, j < k
      PROVE  Cardinality(Before(K, j)) < Cardinality(Before(K, k))
  <2>1. Before(K, j) \cup {j} \in SUBSET Before(K, k) /\ j \notin Before(K, j)
    <3>1. ~(j < j) /\ \A x \in K : x < j => x < k
      BY <1>3
    <3> QED  BY <1>3, <3>1, Zenon DEF Before
  <2>2. IsFiniteSet(Before(K, j)) /\ IsFiniteSet(Before(K, k))
        /\ Cardinality(Before(K, j)) \in Nat /\ Cardinality(Before(K, k)) \in Nat
    BY <1>1 DEF Before
  <2>3. Cardinality(Before(K, j) \cup {j}) = Cardinality(Before(K, j)) + 1
    BY <2>1, <2>2, FS_AddElement
  <2>4. Cardinality(Before(K, j) \cup {j}) <= Cardinality(Before(K, k))
    BY <2>1, <2>2, FS_Subset
  <2> QED  BY <2>2, <2>3, <2>4
<1>4. f \in Injection(K, 0..(n - 1))
  <2>1. f \in [K -> 0..(n - 1)]
    BY <1>2
  <2>2. ASSUME NEW j \in K, NEW k \in K, f[j] = f[k] PROVE j = k
    <3>1. ~(j < k) /\ ~(k < j)
      BY <1>2, <1>3, <2>2
    <3> QED  BY <3>1
  <2> QED  BY <2>1, <2>2 DEF Injection, IsInjective
<1>5. IsFiniteSet(0..(n - 1)) /\ Cardinality(0..(n - 1)) = n
  <2> HIDE DEF n
  <2>1. n - 1 \in Int /\ 0 \in Int
    BY <1>1
  <2>2. IsFiniteSet(0..(n - 1)) /\ Cardinality(0..(n - 1)) = IF 0 > n - 1 THEN 0 ELSE n - 1 - 0 + 1
    BY <2>1, FS_Interval
  <2> QED  BY <1>1, <2>2
<1>6. f \in Surjection(K, 0..(n - 1))
  BY <1>4, <1>5, FS_Injection
<1>7. \A i \in 0..(n - 1) : \E k \in K : f[k] = i
  BY <1>6 DEF Surjection
<1> QED  BY <1>2, <1>7

-----------------------------------------------------------------------------
(* The invariant *)

\* What a page was given has no fresh keys and, as far as it still exists, is
\* of the lot the page shows.
PagesFit ==
    /\ page \in [Pages -> [lot : SUBSET Lots, seen : UNION {[S -> Nat] : S \in SUBSET Keys}]]
    /\ \A p \in Pages :
        /\ DOMAIN page[p].seen \cap fresh = {}
        /\ \A l \in Lots : page[p].lot = {l} =>
              /\ l \in Published
              /\ \A k \in DOMAIN page[p].seen \cap DOMAIN photos : photos[k].lot = l

IInv == TypeOK /\ PagesFit /\ PhotographsFit /\ SoldFactorIsEarned

LEMMA OverrideIs ==
    ASSUME NEW f, NEW g
    PROVE  /\ DOMAIN Override(f, g) = DOMAIN f \cup DOMAIN g
           /\ \A x \in DOMAIN g : Override(f, g)[x] = g[x]
           /\ \A x \in DOMAIN f \ DOMAIN g : Override(f, g)[x] = f[x]
           /\ Override(f, g) = [x \in DOMAIN f \cup DOMAIN g |-> Override(f, g)[x]]
BY DEF Override

LEMMA Countable ==
    ASSUME TypeOK, NEW l
    PROVE  /\ IsFiniteSet(Of(l)) /\ Cardinality(Of(l)) \in Nat
           /\ Of(l) \subseteq Keys
           /\ Orders(l) \subseteq Nat /\ IsFiniteSet(Orders(l))
           /\ Orders(l) = {} <=> Of(l) = {}
           /\ IsFiniteSet(fresh) /\ fresh \subseteq Nat
<1>1. Of(l) \in SUBSET Keys /\ fresh \in SUBSET Keys
  BY DEF TypeOK, Of
<1>2. IsFiniteSet(Of(l)) /\ Cardinality(Of(l)) \in Nat /\ IsFiniteSet(fresh)
  BY <1>1, FS_Subset, FS_CardinalityType, ConstantsAssumption
<1>3. Orders(l) \subseteq Nat
  <2>1. \A k \in DOMAIN photos : photos[k].order \in Nat
    BY DEF TypeOK, Photograph
  <2> QED  BY <2>1 DEF Orders, Of
<1>4. IsFiniteSet(Orders(l))
  <2> DEFINE f == [k \in Of(l) |-> photos[k].order]
  <2>1. f \in Surjection(Of(l), Orders(l))
    BY DEF Surjection, Orders
  <2> HIDE DEF f
  <2> QED  BY <1>2, <2>1, FS_Surjection
<1>5. Orders(l) = {} <=> Of(l) = {}
  BY DEF Orders
<1> QED  BY <1>1, <1>2, <1>3, <1>4, <1>5, ConstantsAssumption

LEMMA SamePhotographs ==
    ASSUME photos' = photos, NEW m PROVE Of(m)' = Of(m) /\ Orders(m)' = Orders(m)
BY DEF Of, Orders

\* The next order is over every order there is.
LEMMA NextIsFree ==
    ASSUME TypeOK, NEW l
    PROVE  /\ NextOrder(l) \in Nat \ {0}
           /\ \A o \in Orders(l) : o < NextOrder(l)
           /\ Of(l) = {} => NextOrder(l) = 1
           /\ Of(l) # {} => NextOrder(l) - 1 \in Orders(l)
<1>1. CASE Of(l) = {}
  BY <1>1, Countable DEF NextOrder
<1>2. CASE Of(l) # {}
  <2>1. Max(Orders(l)) \in Orders(l) /\ \A o \in Orders(l) : Max(Orders(l)) >= o
    BY <1>2, Countable, MaxIs
  <2>2. Orders(l) \subseteq Nat
    BY Countable
  <2>3. NextOrder(l) = Max(Orders(l)) + 1
    BY <1>2 DEF NextOrder
  <2> DEFINE m == Max(Orders(l))
  <2> HIDE DEF m
  <2>4. m \in Nat /\ m \in Orders(l) /\ (\A o \in Orders(l) : m >= o) /\ NextOrder(l) = m + 1
    BY <2>1, <2>2, <2>3 DEF m
  <2> QED  BY <1>2, <2>2, <2>4
<1> QED  BY <1>1, <1>2

-----------------------------------------------------------------------------
(* Uploading *)

\* An upload stores n photographs under new keys, numbered from the next order.
LEMMA AddShape ==
    ASSUME TypeOK, NEW l \in Lots, NEW n \in 1..MaxPhotographs, AddPhotographs(l, n)
    PROVE  \E K \in SUBSET fresh :
              /\ IsFiniteSet(K) /\ Cardinality(K) = n
              /\ photos' = [k \in DOMAIN photos' |-> photos'[k]]
              /\ DOMAIN photos' = DOMAIN photos \cup K
              /\ \A k \in DOMAIN photos : photos'[k] = photos[k]
              /\ \A k \in K : photos'[k] \in Photograph /\ photos'[k].lot = l
              /\ {photos'[k].order : k \in K} = NextOrder(l)..(NextOrder(l) + n - 1)
              /\ fresh' = fresh \ K
<1> DEFINE K == FirstOf(fresh, n)
           new == [k \in K |-> [lot |-> l, order |-> NextOrder(l) + Cardinality(Before(K, k))]]
<1>1. photos' = Override(photos, new) /\ fresh' = fresh \ K /\ n <= Cardinality(fresh)
  BY DEF AddPhotographs, FirstOf, Before
<1>2. IsFiniteSet(fresh) /\ fresh \subseteq Nat /\ Cardinality(fresh) \in Nat
  BY Countable, FS_CardinalityType
<1>3. K \in SUBSET fresh /\ Cardinality(K) = n /\ IsFiniteSet(K)
  <2>1. K \in SUBSET fresh
    BY DEF FirstOf
  <2>2. n \in 0..Cardinality(fresh)
    BY <1>1, <1>2, ConstantsAssumption
  <2> QED  BY <1>2, <2>1, <2>2, FirstAre, FS_Subset
<1>4. /\ \A k \in K : Cardinality(Before(K, k)) \in 0..(n - 1)
      /\ {Cardinality(Before(K, k)) : k \in K} = 0..(n - 1)
  <2> HIDE DEF K
  <2>1. K \subseteq Nat
    BY <1>2, <1>3
  <2> QED  BY <1>3, <2>1, Numbering
<1> HIDE DEF K
<1>5. K \cap DOMAIN photos = {}
  BY <1>3 DEF TypeOK
<1>6. /\ DOMAIN photos' = DOMAIN photos \cup K
      /\ photos' = [k \in DOMAIN photos' |-> photos'[k]]
      /\ \A k \in DOMAIN photos : photos'[k] = photos[k]
      /\ \A k \in K : photos'[k] = [lot |-> l, order |-> NextOrder(l) + Cardinality(Before(K, k))]
  BY <1>1, <1>5 DEF Override
<1>7. NextOrder(l) \in Nat /\ n \in Nat
  BY NextIsFree
<1>8. \A k \in K : photos'[k] \in Photograph /\ photos'[k].lot = l
  BY <1>4, <1>6, <1>7 DEF Photograph
<1>9. {photos'[k].order : k \in K} = NextOrder(l)..(NextOrder(l) + n - 1)
  <2>1. \A k \in K : /\ photos'[k].order = NextOrder(l) + Cardinality(Before(K, k))
                     /\ Cardinality(Before(K, k)) \in 0..(n - 1)
    BY <1>4, <1>6
  <2>2. ASSUME NEW o \in NextOrder(l)..(NextOrder(l) + n - 1)
        PROVE  \E k \in K : photos'[k].order = o
    <3>1. o - NextOrder(l) \in 0..(n - 1)
      BY <1>7, <2>2
    <3>2. PICK k \in K : Cardinality(Before(K, k)) = o - NextOrder(l)
      BY <1>4, <3>1
    <3> QED  BY <1>7, <2>1, <2>2, <3>2
  <2>3. \A k \in K : photos'[k].order \in NextOrder(l)..(NextOrder(l) + n - 1)
    BY <1>7, <2>1
  <2> QED  BY <2>2, <2>3
<1> QED  BY <1>1, <1>3, <1>6, <1>8, <1>9

\* What an upload does to the photographs of its lot and of the others.
LEMMA AddEffect ==
    ASSUME TypeOK, NEW l \in Lots, NEW n \in 1..MaxPhotographs, AddPhotographs(l, n)
    PROVE  /\ \A m \in Lots \ {l} : Of(m)' = Of(m) /\ Orders(m)' = Orders(m)
           /\ Cardinality(Of(l)') = Cardinality(Of(l)) + n
           /\ Cardinality(Of(l)') <= MaxPhotographs
           /\ Of(l)' # {}
           /\ Orders(l)' = Orders(l) \cup (NextOrder(l)..(NextOrder(l) + n - 1))
           /\ fresh' \subseteq fresh
           /\ DOMAIN photos \subseteq DOMAIN photos' /\ DOMAIN photos' \subseteq Keys \ fresh'
           /\ photos' \in [DOMAIN photos' -> Photograph]
           /\ \A k \in DOMAIN photos : photos'[k] = photos[k]
           /\ \A k \in DOMAIN photos' \ DOMAIN photos : photos'[k].lot = l /\ k \in fresh
<1>1. PICK K \in SUBSET fresh :
              /\ IsFiniteSet(K) /\ Cardinality(K) = n
              /\ photos' = [k \in DOMAIN photos' |-> photos'[k]]
              /\ DOMAIN photos' = DOMAIN photos \cup K
              /\ \A k \in DOMAIN photos : photos'[k] = photos[k]
              /\ \A k \in K : photos'[k] \in Photograph /\ photos'[k].lot = l
              /\ {photos'[k].order : k \in K} = NextOrder(l)..(NextOrder(l) + n - 1)
              /\ fresh' = fresh \ K
  BY AddShape
<1>2. K \cap DOMAIN photos = {}
  BY DEF TypeOK
<1>3. \A m \in Lots \ {l} : Of(m)' = Of(m)
  BY <1>1 DEF Of
<1>4. \A m \in Lots \ {l} : Orders(m)' = Orders(m)
  <2>1. \A m \in Lots : \A k \in Of(m) : photos'[k].order = photos[k].order
    BY <1>1 DEF Of
  <2> QED  BY <1>3, <2>1 DEF Orders
<1>5. Of(l)' = Of(l) \cup K
  BY <1>1, <1>2 DEF Of
<1>6. Cardinality(Of(l) \cup K) = Cardinality(Of(l)) + n
  <2>1. Of(l) \cap K = {} /\ IsFiniteSet(Of(l)) /\ Cardinality(Of(l)) \in Nat
    BY <1>2, Countable DEF Of
  <2>2. Cardinality(Of(l) \cup K) = Cardinality(Of(l)) + Cardinality(K) - Cardinality(Of(l) \cap K)
    BY <1>1, <2>1, FS_Union
  <2>3. Cardinality(Of(l) \cap K) = 0
    BY <2>1, FS_EmptySet, Zenon
  <2>4. n \in Nat /\ Cardinality(K) = n
    BY <1>1, ConstantsAssumption
  <2> QED  BY <2>1, <2>2, <2>3, <2>4
<1>7. Cardinality(Of(l)) + n <= MaxPhotographs
  BY Countable, ConstantsAssumption DEF AddPhotographs, Fits
<1>8. K # {}
  BY <1>1, FS_EmptySet
<1>9. Orders(l)' = Orders(l) \cup {photos'[k].order : k \in K}
  <2>1. \A k \in Of(l) : photos'[k].order = photos[k].order
    BY <1>1 DEF Of
  <2> QED  BY <1>5, <2>1 DEF Orders
<1>10. photos' \in [DOMAIN photos' -> Photograph]
  <2>1. \A k \in DOMAIN photos' : photos'[k] \in Photograph
    BY <1>1 DEF TypeOK
  <2> QED  BY <1>1, <2>1
<1> QED  BY <1>1, <1>3, <1>4, <1>5, <1>6, <1>7, <1>8, <1>9, <1>10 DEF TypeOK

\* The photographs of a lot, before and after an upload to it.
LEMMA UploadFits ==
    ASSUME TypeOK, PhotographsFit, NEW l \in Lots, NEW n \in 1..MaxPhotographs,
           AddPhotographs(l, n), l \in Published \/ Of(l) = {}
    PROVE  /\ Cardinality(Of(l)') <= MaxPhotographs
           /\ l \notin edited => Of(l)' # {} /\ Orders(l)' = 1..Cardinality(Of(l)')
<1>1. /\ Cardinality(Of(l)') = Cardinality(Of(l)) + n
      /\ Cardinality(Of(l)') <= MaxPhotographs
      /\ Of(l)' # {}
      /\ Orders(l)' = Orders(l) \cup (NextOrder(l)..(NextOrder(l) + n - 1))
  BY AddEffect
<1>2. ASSUME l \notin edited PROVE Orders(l)' = 1..(Cardinality(Of(l)) + n)
  <2> DEFINE c == Cardinality(Of(l))
  <2>1. c \in Nat /\ (Of(l) = {} => c = 0) /\ Orders(l) = 1..c
    <3>1. c \in Nat /\ (Of(l) = {} => c = 0)
      BY Countable, FS_EmptySet
    <3>2. CASE Of(l) = {}
      <4>1. Orders(l) = {} /\ c = 0
        BY <3>1, <3>2, Countable
      <4> QED  BY <4>1
    <3>3. CASE Of(l) # {}
      BY <1>2, <3>1, <3>3 DEF PhotographsFit
    <3> QED  BY <3>1, <3>2, <3>3
  <2> HIDE DEF c
  <2>2. NextOrder(l) = c + 1
    <3>1. CASE Of(l) = {}
      BY <2>1, <3>1, NextIsFree
    <3>2. CASE Of(l) # {}
      <4>1. NextOrder(l) - 1 \in 1..c /\ NextOrder(l) \in Nat /\ \A o \in 1..c : o < NextOrder(l)
        BY <2>1, <3>2, NextIsFree
      <4>2. c \in 1..c
        BY <2>1, <4>1
      <4> QED  BY <2>1, <4>1, <4>2
    <3> QED  BY <3>1, <3>2
  <2>3. Orders(l)' = (1..c) \cup ((c + 1)..(c + 1 + n - 1)) /\ n \in Nat
    BY <1>1, <2>1, <2>2
  <2>4. \A o : o \in Orders(l)' <=> o \in 1..(c + n)
    BY <2>1, <2>3
  <2>5. Orders(l)' = 1..(c + n)
    BY <2>4
  <2> QED  BY <2>5 DEF c
<1> QED  BY <1>1, <1>2

LEMMA AddKeeps ==
    ASSUME IInv, NEW l \in Lots, NEW n \in 1..MaxPhotographs, AddPhotographs(l, n),
           Published' = Published \cup {l}, auctions' \in [Published' -> Auction],
           \A k \in Published : auctions'[k] = auctions[k],
           UNCHANGED <<sold, scores, page, edited, enlarged>>,
           l \in Published \/ l \notin edited
    PROVE  IInv'
<1>0. TypeOK /\ PagesFit /\ PhotographsFit /\ SoldFactorIsEarned
  BY DEF IInv
<1>1. /\ \A m \in Lots \ {l} : Of(m)' = Of(m) /\ Orders(m)' = Orders(m)
      /\ fresh' \subseteq fresh
      /\ DOMAIN photos \subseteq DOMAIN photos' /\ DOMAIN photos' \subseteq Keys \ fresh'
      /\ photos' \in [DOMAIN photos' -> Photograph]
      /\ \A k \in DOMAIN photos : photos'[k] = photos[k]
      /\ \A k \in DOMAIN photos' \ DOMAIN photos : photos'[k].lot = l /\ k \in fresh
  BY <1>0, AddEffect
<1>2. TypeOK'
  <2>1. \A k \in DOMAIN photos' : photos'[k].lot \in Published'
    BY <1>0, <1>1 DEF TypeOK
  <2>2. /\ Published' \subseteq Lots /\ fresh' \subseteq Keys
        /\ sold' \subseteq DOMAIN scores' /\ DOMAIN scores' \subseteq Published'
        /\ \A k \in DOMAIN scores' : scores'[k] \subseteq Factors
        /\ enlarged' \subseteq edited' /\ edited' \subseteq Published'
    BY <1>0, <1>1 DEF TypeOK
  <2> QED  BY <1>1, <2>1, <2>2 DEF TypeOK
<1>3. PagesFit'
  <2>1. ASSUME NEW p \in Pages, NEW m \in Lots, page[p].lot = {m}
        PROVE  /\ m \in Published'
               /\ \A k \in DOMAIN page[p].seen \cap DOMAIN photos' : photos'[k].lot = m
    BY <1>0, <1>1, <2>1 DEF PagesFit
  <2> QED  BY <1>0, <1>1, <2>1 DEF PagesFit
<1>4. PhotographsFit'
  <2>1. l \in Published \/ Of(l) = {}
    BY <1>0 DEF TypeOK, Of
  <2>2. /\ Cardinality(Of(l)') <= MaxPhotographs
        /\ l \notin edited => Of(l)' # {} /\ Orders(l)' = 1..Cardinality(Of(l)')
    BY <1>0, <2>1, UploadFits
  <2>3. ASSUME NEW m \in Published' \ {l}
        PROVE  /\ m \notin enlarged => Cardinality(Of(m)') <= MaxPhotographs
               /\ m \notin edited => Of(m)' # {} /\ Orders(m)' = 1..Cardinality(Of(m)')
    <3>1. m \in Published /\ Of(m)' = Of(m) /\ Orders(m)' = Orders(m)
      BY <1>0, <1>1 DEF TypeOK
    <3> QED  BY <1>0, <3>1 DEF PhotographsFit
  <2> QED  BY <2>2, <2>3 DEF PhotographsFit
<1>5. SoldFactorIsEarned'
  BY <1>0 DEF SoldFactorIsEarned, TypeOK
<1> QED  BY <1>2, <1>3, <1>4, <1>5 DEF IInv

-----------------------------------------------------------------------------
(* The administration *)

\* A page that is saved keeps, moves and deletes photographs of its lot alone,
\* and the one it may add has a new key.
LEMMA SaveShape ==
    ASSUME TypeOK, PagesFit, NEW p \in Pages, NEW l \in Lots,
           NEW orders \in [DOMAIN page[p].seen -> 1..MaxOrder],
           NEW gone \in SUBSET DOMAIN page[p].seen, NEW added \in Additions,
           SavePage(p, l, orders, gone, added)
    PROVE  /\ l \in Published
           /\ DOMAIN added \subseteq fresh
           /\ DOMAIN photos' = (DOMAIN photos \ gone) \cup DOMAIN added
           /\ photos' \in [DOMAIN photos' -> Photograph]
           /\ \A m \in Lots \ {l} : Of(m)' = Of(m) /\ Orders(m)' = Orders(m)
           /\ Of(l)' \subseteq Of(l) \cup DOMAIN added
           /\ \A k \in DOMAIN photos' : photos'[k].lot = IF k \in DOMAIN photos
                                                         THEN photos[k].lot ELSE l
<1> DEFINE seen == DOMAIN page[p].seen
           kept == seen \ gone
           new == [k \in kept \cup DOMAIN added |->
                      [lot |-> l, order |-> IF k \in kept THEN orders[k] ELSE added[k]]]
           base == [k \in DOMAIN photos \ gone |-> photos[k]]
<1>1. /\ page[p].lot = {l} /\ seen \subseteq DOMAIN photos
      /\ photos' = Override(base, new)
  BY DEF SavePage
<1>2. DOMAIN added \subseteq fresh /\ \A k \in DOMAIN added : added[k] \in Nat
  <2>1. CASE added = <<>>
    BY <2>1
  <2>2. CASE fresh # {} /\ added \in [{Min(fresh)} -> 1..MaxOrder]
    <3>1. Min(fresh) \in fresh
      BY <2>2, Countable, LeastNat DEF Min
    <3>2. \A o \in 1..MaxOrder : o \in Nat
      BY ConstantsAssumption
    <3> QED  BY <2>2, <3>1, <3>2
  <2> QED  BY <2>1, <2>2 DEF Additions
<1>3. l \in Published /\ \A k \in seen : photos[k].lot = l
  BY <1>1 DEF PagesFit
<1>4. DOMAIN added \cap DOMAIN photos = {}
  BY <1>2 DEF TypeOK
<1>5. /\ DOMAIN photos' = (DOMAIN photos \ gone) \cup DOMAIN added
      /\ \A k \in kept \cup DOMAIN added : photos'[k] = new[k]
      /\ \A k \in DOMAIN photos \ seen : photos'[k] = photos[k]
      /\ photos' = [k \in DOMAIN photos' |-> photos'[k]]
  BY <1>1, <1>2, <1>4 DEF Override
<1>6. /\ \A k \in kept : photos'[k].lot = l /\ photos'[k] \in Photograph
      /\ \A k \in DOMAIN added : photos'[k].lot = l /\ photos'[k] \in Photograph
  <2>1. \A o \in 1..MaxOrder : o \in Nat
    BY ConstantsAssumption
  <2>2. \A k \in kept : orders[k] \in Nat
    BY <2>1
  <2>3. \A k \in kept : photos'[k] = [lot |-> l, order |-> orders[k]]
    BY <1>5
  <2>4. \A k \in DOMAIN added : photos'[k] = [lot |-> l, order |-> added[k]]
    <3>1. \A k \in DOMAIN added : k \notin kept
      BY <1>1, <1>4
    <3> QED  BY <1>5, <3>1
  <2> HIDE DEF kept, new, base, seen
  <2>5. ASSUME NEW o \in Nat PROVE LET ph == [lot |-> l, order |-> o]
                                   IN ph \in Photograph /\ ph.lot = l
    BY DEF Photograph
  <2> QED  BY <1>2, <2>2, <2>3, <2>4, <2>5, ZenonT(30)
<1>7. DOMAIN photos \ gone = kept \cup (DOMAIN photos \ seen)
  BY <1>1
<1> HIDE DEF seen, kept, new, base
<1>8. \A k \in DOMAIN photos' : /\ photos'[k] \in Photograph
                                /\ photos'[k].lot = IF k \in DOMAIN photos
                                                    THEN photos[k].lot ELSE l
  <2>1. \A k \in DOMAIN photos : photos[k] \in Photograph
    BY DEF TypeOK
  <2>2. \A k \in kept : k \in seen
    BY DEF kept
  <2> QED  BY <1>1, <1>3, <1>4, <1>5, <1>6, <1>7, <2>1, <2>2
<1>9. Of(l)' \subseteq Of(l) \cup DOMAIN added
  BY <1>5, <1>8 DEF Of
<1>10. ASSUME NEW m \in Lots \ {l} PROVE Of(m)' = Of(m) /\ Orders(m)' = Orders(m)
  <2>1. \A k \in DOMAIN photos : photos[k].lot = m => k \notin seen
    BY <1>3, <1>10
  <2>2. \A k \in DOMAIN photos : photos[k].lot = m => k \in DOMAIN photos' /\ photos'[k] = photos[k]
    BY <1>5, <1>7, <2>1
  <2>3. \A k \in DOMAIN photos' : photos'[k].lot = m => k \in DOMAIN photos /\ photos[k].lot = m
    BY <1>8, <1>10
  <2>4. Of(m)' = Of(m)
    BY <2>2, <2>3 DEF Of
  <2> QED  BY <2>2, <2>4 DEF Orders, Of
<1>11. photos' \in [DOMAIN photos' -> Photograph]
  BY <1>5, <1>8
<1> QED  BY <1>2, <1>3, <1>5, <1>8, <1>9, <1>10, <1>11

LEMMA SaveKeeps ==
    ASSUME IInv, NEW p \in Pages, NEW l \in Lots,
           NEW orders \in [DOMAIN page[p].seen -> 1..MaxOrder],
           NEW gone \in SUBSET DOMAIN page[p].seen, NEW added \in Additions,
           SavePage(p, l, orders, gone, added)
    PROVE  IInv'
<1>0. TypeOK /\ PagesFit /\ PhotographsFit /\ SoldFactorIsEarned
  BY DEF IInv
<1>1. /\ l \in Published
      /\ DOMAIN added \subseteq fresh
      /\ DOMAIN photos' = (DOMAIN photos \ gone) \cup DOMAIN added
      /\ photos' \in [DOMAIN photos' -> Photograph]
      /\ \A m \in Lots \ {l} : Of(m)' = Of(m) /\ Orders(m)' = Orders(m)
      /\ Of(l)' \subseteq Of(l) \cup DOMAIN added
      /\ \A k \in DOMAIN photos' : photos'[k].lot = IF k \in DOMAIN photos
                                                    THEN photos[k].lot ELSE l
  BY <1>0, SaveShape
<1>2. /\ fresh' = fresh \ DOMAIN added /\ edited' = edited \cup {l}
      /\ enlarged' = IF added = <<>> THEN enlarged ELSE enlarged \cup {l}
      /\ page' = [page EXCEPT ![p] = Closed]
      /\ UNCHANGED <<auctions, sold, scores>>
  BY DEF SavePage
<1>3. TypeOK'
  <2>1. DOMAIN photos' \subseteq Keys \ fresh'
    BY <1>0, <1>1, <1>2 DEF TypeOK
  <2>2. \A k \in DOMAIN photos' : photos'[k].lot \in Published'
    BY <1>0, <1>1, <1>2 DEF TypeOK, Published
  <2>3. /\ Published' \subseteq Lots /\ auctions' \in [Published' -> Auction]
        /\ fresh' \subseteq Keys
        /\ sold' \subseteq DOMAIN scores' /\ DOMAIN scores' \subseteq Published'
        /\ \A k \in DOMAIN scores' : scores'[k] \subseteq Factors
        /\ enlarged' \subseteq edited' /\ edited' \subseteq Published'
    BY <1>0, <1>1, <1>2 DEF TypeOK, Published
  <2> QED  BY <1>1, <2>1, <2>2, <2>3 DEF TypeOK
<1>4. PagesFit'
  <2>1. Closed \in [lot : SUBSET Lots, seen : UNION {[S -> Nat] : S \in SUBSET Keys}]
        /\ DOMAIN Closed.seen = {} /\ Closed.lot = {}
    <3>1. <<>> \in [{} -> Nat] /\ {} \in SUBSET Keys /\ DOMAIN <<>> = {}
      OBVIOUS
    <3> QED  BY <3>1 DEF Closed
  <2>2. page' \in [Pages -> [lot : SUBSET Lots, seen : UNION {[S -> Nat] : S \in SUBSET Keys}]]
    BY <1>0, <1>2, <2>1 DEF PagesFit
  <2>3. page'[p] = Closed /\ \A q \in Pages \ {p} : page'[q] = page[q]
    BY <1>0, <1>2 DEF PagesFit
  <2>4. ASSUME NEW q \in Pages
        PROVE  /\ DOMAIN page'[q].seen \cap fresh' = {}
               /\ \A m \in Lots : page'[q].lot = {m} =>
                     /\ m \in Published'
                     /\ \A k \in DOMAIN page'[q].seen \cap DOMAIN photos' : photos'[k].lot = m
    <3>1. CASE q = p
      BY <2>1, <2>3, <3>1
    <3>2. CASE q # p
      <4>1. DOMAIN page[q].seen \cap fresh = {} /\ page'[q] = page[q]
        BY <1>0, <2>3, <3>2 DEF PagesFit
      <4>2. DOMAIN page[q].seen \cap DOMAIN added = {}
        BY <1>1, <4>1
      <4>3. DOMAIN page'[q].seen \cap fresh' = {}
        BY <1>2, <4>1
      <4>4. ASSUME NEW m \in Lots, page[q].lot = {m}
            PROVE  /\ m \in Published'
                   /\ \A k \in DOMAIN page[q].seen \cap DOMAIN photos' : photos'[k].lot = m
        BY <1>0, <1>1, <1>2, <4>2, <4>4 DEF PagesFit, Published
      <4> QED  BY <4>1, <4>3, <4>4
    <3> QED  BY <3>1, <3>2
  <2> QED  BY <2>2, <2>4 DEF PagesFit
<1>5. PhotographsFit'
  <2>1. ASSUME l \notin enlarged' PROVE Cardinality(Of(l)') <= MaxPhotographs
    <3>1. DOMAIN added = {} /\ l \notin enlarged
      BY <1>2, <2>1
    <3>2. Of(l)' \in SUBSET Of(l)
      BY <1>1, <3>1
    <3>3. Cardinality(Of(l)') <= Cardinality(Of(l)) /\ Cardinality(Of(l)') \in Nat
      BY <1>0, <3>2, Countable, FS_Subset, FS_CardinalityType
    <3>4. Cardinality(Of(l)) <= MaxPhotographs /\ Cardinality(Of(l)) \in Nat
      BY <1>0, <1>1, <3>1, Countable DEF PhotographsFit
    <3> QED  BY <3>3, <3>4, ConstantsAssumption
  <2>2. ASSUME NEW m \in Published' \ {l}
        PROVE  /\ m \notin enlarged' => Cardinality(Of(m)') <= MaxPhotographs
               /\ m \notin edited' => Of(m)' # {} /\ Orders(m)' = 1..Cardinality(Of(m)')
    <3>1. m \in Published /\ m \in Lots /\ Of(m)' = Of(m) /\ Orders(m)' = Orders(m)
      BY <1>0, <1>1, <1>2 DEF TypeOK, Published
    <3>2. (m \notin enlarged' => m \notin enlarged) /\ (m \notin edited' => m \notin edited)
      BY <1>2
    <3> QED  BY <1>0, <3>1, <3>2 DEF PhotographsFit
  <2>3. l \in edited'
    BY <1>2
  <2> QED  BY <2>1, <2>2, <2>3 DEF PhotographsFit
<1>6. SoldFactorIsEarned'
  BY <1>0, <1>2 DEF SoldFactorIsEarned
<1> QED  BY <1>3, <1>4, <1>5, <1>6 DEF IInv

-----------------------------------------------------------------------------
(* The average price *)

Price(k) == auctions[k].price
OneOf(T) == CHOOSE x \in T : TRUE
Sum(S) == MapThenSumSet(LAMBDA k : auctions[k].price, S)

\* g adds up the prices of every set of D, one element after the other.
IsSum(g, D) ==
    g = [T \in D |-> IF T = {} THEN 0 ELSE Price(OneOf(T)) + g[T \ {OneOf(T)}]]

\* Such a g there is for every finite set: by the first size it fails at.
LEMMA SumExists ==
    ASSUME NEW S, IsFiniteSet(S)
    PROVE  \E g : IsSum(g, SUBSET S)
<1> DEFINE Upto(c) == {T \in SUBSET S : Cardinality(T) <= c}
           Bad == {c \in Nat : ~ \E g : IsSum(g, Upto(c))}
<1>1. \A T \in SUBSET S : IsFiniteSet(T) /\ Cardinality(T) \in Nat
  BY FS_Subset, FS_CardinalityType
<1>2. \A T \in SUBSET S : T # {} => /\ OneOf(T) \in T /\ T \ {OneOf(T)} \in SUBSET S
                                    /\ Cardinality(T \ {OneOf(T)}) = Cardinality(T) - 1
  BY <1>1, FS_RemoveElement DEF OneOf
<1>3. Bad = {}
  <2> SUFFICES ASSUME Bad # {} PROVE FALSE
    OBVIOUS
  <2>1. PICK c \in Bad : \A d \in Bad : c <= d
    <3>1. Bad \subseteq Nat
      OBVIOUS
    <3> HIDE DEF Bad
    <3> QED  BY <3>1, LeastNat
  <2>2. c \in Nat /\ ~ \E g : IsSum(g, Upto(c))
    BY <2>1
  <2>3. \E g : \A T \in Upto(c) : T # {} =>
                  g[T \ {OneOf(T)}] = IF T \ {OneOf(T)} = {} THEN 0
                                      ELSE Price(OneOf(T \ {OneOf(T)}))
                                           + g[(T \ {OneOf(T)}) \ {OneOf(T \ {OneOf(T)})}]
    <3>1. CASE c = 0
      <4>1. ASSUME NEW T \in Upto(c), T # {} PROVE FALSE
        <5>1. /\ T \in SUBSET S /\ T \ {OneOf(T)} \in SUBSET S /\ Cardinality(T) <= 0
              /\ Cardinality(T \ {OneOf(T)}) = Cardinality(T) - 1
          BY <1>2, <3>1, <4>1
        <5>2. Cardinality(T) \in Nat /\ Cardinality(T \ {OneOf(T)}) \in Nat
          BY <1>1, <5>1
        <5> QED  BY <5>1, <5>2
      <4> QED  BY <4>1
    <3>2. CASE c # 0
      <4>1. c - 1 \in Nat /\ c - 1 \notin Bad
        <5> HIDE DEF Bad
        <5>1. c - 1 \in Nat /\ ~(c <= c - 1)
          BY <2>2, <3>2
        <5> QED  BY <2>1, <5>1
      <4>2. PICK g : IsSum(g, Upto(c - 1))
        BY <4>1
      <4>3. \A T \in Upto(c) : T # {} => T \ {OneOf(T)} \in Upto(c - 1)
        BY <1>1, <1>2, <2>2
      <4> QED  BY <4>2, <4>3 DEF IsSum
    <3> QED  BY <3>1, <3>2
  <2>4. PICK g : \A T \in Upto(c) : T # {} =>
                  g[T \ {OneOf(T)}] = IF T \ {OneOf(T)} = {} THEN 0
                                      ELSE Price(OneOf(T \ {OneOf(T)}))
                                           + g[(T \ {OneOf(T)}) \ {OneOf(T \ {OneOf(T)})}]
    BY <2>3
  <2> DEFINE h == [T \in Upto(c) |-> IF T = {} THEN 0 ELSE Price(OneOf(T)) + g[T \ {OneOf(T)}]]
  <2>5. \A T \in Upto(c) : T # {} => T \ {OneOf(T)} \in Upto(c)
    BY <1>1, <1>2, <2>2
  <2>6. \A T \in Upto(c) : T # {} => h[T \ {OneOf(T)}] = g[T \ {OneOf(T)}]
    BY <2>4, <2>5
  <2>7. IsSum(h, Upto(c))
    BY <2>6 DEF IsSum
  <2> QED  BY <2>2, <2>7
<1>4. Upto(Cardinality(S)) = SUBSET S /\ Cardinality(S) \in Nat
  BY <1>1, FS_Subset
<1>5. Cardinality(S) \notin Bad
  BY <1>3
<1> HIDE DEF Upto
<1> QED  BY <1>4, <1>5

LEMMA SumIs ==
    ASSUME NEW S, IsFiniteSet(S)
    PROVE  \E g : IsSum(g, SUBSET S) /\ Sum(S) = g[S]
<1>1. Sum(S) = (CHOOSE g : g = [T \in SUBSET S |->
                  IF T = {} THEN 0 ELSE auctions[CHOOSE x \in T : TRUE].price
                                        + g[T \ {CHOOSE x \in T : TRUE}]])[S]
  BY DEF Sum, MapThenSumSet, MapThenFoldSet
<1>2. Sum(S) = (CHOOSE g : IsSum(g, SUBSET S))[S]
  BY <1>1 DEF IsSum, Price, OneOf
<1>3. IsSum((CHOOSE g : IsSum(g, SUBSET S)), SUBSET S)
  BY SumExists
<1> QED  BY <1>2, <1>3

\* n terms of m at most add up to n * m at most, and of m at least to as much:
\* by the smallest set they do not.
LEMMA SumBounds ==
    ASSUME NEW S, IsFiniteSet(S), \A k \in S : Price(k) \in Nat, NEW m \in Nat
    PROVE  /\ Sum(S) \in Nat
           /\ (\A k \in S : 2 * Price(k) <= m) => 2 * Sum(S) <= Cardinality(S) * m
           /\ (\A k \in S : 2 * Price(k) >= m) => 2 * Sum(S) >= Cardinality(S) * m
<1>1. PICK g : IsSum(g, SUBSET S) /\ Sum(S) = g[S]
  BY SumIs
<1> DEFINE Good(T) == /\ g[T] \in Nat
                      /\ (\A k \in S : 2 * Price(k) <= m) => 2 * g[T] <= Cardinality(T) * m
                      /\ (\A k \in S : 2 * Price(k) >= m) => 2 * g[T] >= Cardinality(T) * m
           Bad == {c \in Nat : \E T \in SUBSET S : Cardinality(T) = c /\ ~Good(T)}
<1> SUFFICES ASSUME ~Good(S) PROVE FALSE
  BY <1>1
<1>2. \A T \in SUBSET S : IsFiniteSet(T) /\ Cardinality(T) \in Nat
  BY FS_Subset, FS_CardinalityType
<1>3. Bad \subseteq Nat /\ Bad # {}
  <2> HIDE DEF Good
  <2> QED  BY <1>2
<1>4. PICK c \in Bad : \A d \in Bad : c <= d
  <2> HIDE DEF Bad
  <2> QED  BY <1>3, LeastNat
<1>5. PICK T \in SUBSET S : Cardinality(T) = c /\ ~Good(T)
  OBVIOUS
<1>6. CASE T = {}
  <2>1. g[T] = 0 /\ Cardinality(T) = 0
    BY <1>1, <1>6, FS_EmptySet DEF IsSum
  <2>2. 0 * m = 0
    OBVIOUS
  <2> QED  BY <1>5, <2>1, <2>2
<1>7. CASE T # {}
  <2> DEFINE x == OneOf(T)
             U == T \ {x}
  <2>1. x \in T /\ U \in SUBSET S /\ Cardinality(U) = c - 1 /\ c - 1 \in Nat
    <3>1. x \in T /\ U \in SUBSET S /\ IsFiniteSet(T)
      BY <1>2, <1>7 DEF OneOf
    <3> HIDE DEF x, Bad
    <3>2. Cardinality(U) = Cardinality(T) - 1 /\ Cardinality(U) \in Nat
      BY <1>2, <3>1, FS_RemoveElement
    <3> QED  BY <1>5, <3>1, <3>2
  <2>2. g[T] = Price(x) + g[U]
    BY <1>1, <1>7 DEF IsSum
  <2> HIDE DEF x, U
  <2>3. Good(U)
    <3> HIDE DEF Good
    <3>1. c - 1 \notin Bad
      BY <1>3, <1>4, <2>1
    <3> QED  BY <2>1, <3>1
  <2>4. c * m = (c - 1) * m + m /\ c * m \in Int /\ (c - 1) * m \in Int
    BY <2>1
  <2>5. Price(x) \in Nat
    BY <2>1
  <2>6. Good(T)
    <3>1. g[T] \in Nat /\ 2 * g[T] = 2 * Price(x) + 2 * g[U]
      BY <2>2, <2>3, <2>5
    <3>2. (\A k \in S : 2 * Price(k) <= m) => 2 * g[T] <= c * m
      BY <2>1, <2>3, <2>4, <2>5, <3>1
    <3>3. (\A k \in S : 2 * Price(k) >= m) => 2 * g[T] >= c * m
      BY <2>1, <2>3, <2>4, <2>5, <3>1
    <3> QED  BY <1>5, <3>1, <3>2, <3>3
  <2> QED  BY <1>5, <2>6
<1> QED  BY <1>6, <1>7

-----------------------------------------------------------------------------
(* The trust score *)

\* What nobody may answer for the account or the text has to be met.
LEMMA MetIsEarned ==
    ASSUME NEW l, NEW others \in Answers
    PROVE  /\ Met(l, others) \subseteq Factors
           /\ "seller_has_sold_before" \in Met(l, others) => HasSoldBefore(l)
<1>1. others \subseteq {"seller_is_verified", "seller_account_is_established",
                        "description_is_detailed"}
  BY ConstantsAssumption
<1> QED  BY <1>1 DEF Met, Factors

LEMMA ScoreKeeps ==
    ASSUME IInv, NEW l \in Lots, NEW others \in Answers, Score(l, others)
    PROVE  IInv'
<1>0. TypeOK /\ PagesFit /\ PhotographsFit /\ SoldFactorIsEarned
  BY DEF IInv
<1>1. UNCHANGED <<auctions, photos, fresh, sold, page, edited, enlarged>> /\ l \in Published
  BY DEF Score
<1>2. /\ DOMAIN scores' = DOMAIN scores \cup {l}
      /\ scores'[l] = Met(l, others)
      /\ \A k \in DOMAIN scores \ {l} : scores'[k] = scores[k]
  BY DEF Score, Override
<1>3. TypeOK'
  BY <1>0, <1>1, <1>2, MetIsEarned DEF TypeOK, Published
<1>4. PagesFit' /\ PhotographsFit'
  BY <1>0, <1>1, SamePhotographs DEF PagesFit, PhotographsFit, Published
<1>5. SoldFactorIsEarned'
  <2>1. "seller_has_sold_before" \in scores'[l] =>
           \E k \in sold : k # l /\ auctions[k].seller = auctions[l].seller
    BY <1>2, MetIsEarned DEF HasSoldBefore
  <2> QED  BY <1>0, <1>1, <1>2, <2>1 DEF SoldFactorIsEarned
<1> QED  BY <1>3, <1>4, <1>5 DEF IInv

LEMMA InitIInv == Init => IInv
<1> SUFFICES ASSUME Init PROVE IInv
  OBVIOUS
<1>1. /\ DOMAIN <<>> = {} /\ <<>> \in [{} -> Nat] /\ {} \in SUBSET Keys
      /\ <<>> \in [{} -> Auction] /\ <<>> \in [{} -> Photograph]
  OBVIOUS
<1>2. Published = {} /\ DOMAIN photos = {} /\ DOMAIN scores = {} /\ \A p \in Pages : page[p] = Closed
  BY <1>1 DEF Init, Published
<1>3. TypeOK
  BY <1>1, <1>2 DEF Init, TypeOK
<1>4. PagesFit
  <2>1. Closed \in [lot : SUBSET Lots, seen : UNION {[S -> Nat] : S \in SUBSET Keys}]
        /\ DOMAIN Closed.seen = {} /\ Closed.lot = {}
    BY <1>1 DEF Closed
  <2> QED  BY <1>2, <2>1 DEF Init, PagesFit
<1>5. PhotographsFit /\ SoldFactorIsEarned
  BY <1>2 DEF PhotographsFit, SoldFactorIsEarned
<1> QED  BY <1>3, <1>4, <1>5 DEF IInv

LEMMA NextIInv == IInv /\ [Next]_vars => IInv'
<1> SUFFICES ASSUME IInv, [Next]_vars PROVE IInv'
  OBVIOUS
<1>0. TypeOK /\ PagesFit /\ PhotographsFit /\ SoldFactorIsEarned
  BY DEF IInv
<1>1. CASE UNCHANGED vars
  BY <1>0, <1>1, SamePhotographs
  DEF vars, IInv, TypeOK, PagesFit, PhotographsFit, SoldFactorIsEarned, Published
<1>2. ASSUME NEW l \in Lots, NEW n \in 1..MaxPhotographs, Upload(l, n) PROVE IInv'
  <2>1. /\ l \in Published /\ AddPhotographs(l, n)
        /\ UNCHANGED <<auctions, sold, scores, page, edited, enlarged>>
    BY <1>2 DEF Upload
  <2>2. Published' = Published \cup {l} /\ auctions' \in [Published' -> Auction]
        /\ \A k \in Published : auctions'[k] = auctions[k]
    BY <1>0, <2>1 DEF TypeOK, Published
  <2> QED  BY <2>1, <2>2, AddKeeps
<1>3. ASSUME NEW l \in Lots, NEW n \in 1..MaxPhotographs, NEW a \in Auction, Publish(l, a, n)
      PROVE  IInv'
  <2>1. /\ l \notin Published /\ AddPhotographs(l, n)
        /\ auctions' = Override(auctions, [k \in {l} |-> a])
        /\ UNCHANGED <<sold, scores, page, edited, enlarged>>
    BY <1>3 DEF Publish
  <2>2. /\ Published' = Published \cup {l}
        /\ \A k \in Published : auctions'[k] = auctions[k]
        /\ auctions' \in [Published' -> Auction]
    BY <1>0, <2>1 DEF TypeOK, Published, Override
  <2>3. l \notin edited
    BY <1>0, <2>1 DEF TypeOK
  <2> QED  BY <2>1, <2>2, <2>3, AddKeeps
<1>4. ASSUME NEW l \in Lots, Sell(l) PROVE IInv'
  BY <1>0, <1>4, SamePhotographs
  DEF Sell, IInv, TypeOK, PagesFit, PhotographsFit, SoldFactorIsEarned, Published
<1>5. ASSUME NEW p \in Pages, NEW l \in Lots, OpenPage(p, l) PROVE IInv'
  <2>1. /\ l \in Published
        /\ page' = [page EXCEPT ![p] = [lot |-> {l}, seen |-> [k \in Of(l) |-> photos[k].order]]]
        /\ UNCHANGED <<auctions, photos, fresh, sold, scores, edited, enlarged>>
    BY <1>5 DEF OpenPage
  <2>2. TypeOK' /\ PhotographsFit' /\ SoldFactorIsEarned'
    BY <1>0, <2>1, SamePhotographs DEF TypeOK, PhotographsFit, SoldFactorIsEarned, Published
  <2>3. PagesFit'
    <3> DEFINE seen == [k \in Of(l) |-> photos[k].order]
    <3>1. seen \in [Of(l) -> Nat] /\ Of(l) \in SUBSET Keys /\ Of(l) \cap fresh = {}
      BY <1>0 DEF TypeOK, Photograph, Of
    <3>2. seen \in UNION {[S -> Nat] : S \in SUBSET Keys}
      BY <3>1
    <3>3. DOMAIN seen = Of(l) /\ \A k \in Of(l) : photos[k].lot = l
      BY DEF Of
    <3> HIDE DEF seen
    <3>4. page' = [page EXCEPT ![p] = [lot |-> {l}, seen |-> seen]]
      BY <2>1 DEF seen
    <3>5. page' \in [Pages -> [lot : SUBSET Lots, seen : UNION {[S -> Nat] : S \in SUBSET Keys}]]
      BY <1>0, <3>2, <3>4 DEF PagesFit
    <3>6. /\ page'[p].lot = {l} /\ page'[p].seen = seen
          /\ \A q \in Pages \ {p} : page'[q] = page[q]
      BY <1>0, <3>4 DEF PagesFit
    <3>7. \A q \in Pages : DOMAIN page'[q].seen \cap fresh' = {}
      BY <1>0, <2>1, <3>1, <3>3, <3>6 DEF PagesFit
    <3>8. ASSUME NEW q \in Pages, NEW m \in Lots, page'[q].lot = {m}
          PROVE  /\ m \in Published'
                 /\ \A k \in DOMAIN page'[q].seen \cap DOMAIN photos' : photos'[k].lot = m
      <4>1. UNCHANGED <<auctions, photos>> /\ Published' = Published
        BY <2>1 DEF Published
      <4>2. CASE q = p
        <5>1. m = l /\ page'[q].seen = seen
          BY <3>6, <3>8, <4>2
        <5> QED  BY <2>1, <3>3, <4>1, <5>1
      <4>3. CASE q # p
        <5>1. page'[q] = page[q] /\ page[q].lot = {m}
          BY <3>6, <3>8, <4>3
        <5>2. m \in Published /\ \A k \in DOMAIN page[q].seen \cap DOMAIN photos : photos[k].lot = m
          BY <1>0, <5>1 DEF PagesFit
        <5> QED  BY <4>1, <5>1, <5>2
      <4> QED  BY <4>2, <4>3
    <3> QED  BY <3>5, <3>7, <3>8 DEF PagesFit
  <2> QED  BY <2>2, <2>3 DEF IInv
<1>6. ASSUME NEW p \in Pages, ClosePage(p) PROVE IInv'
  <2>1. /\ page' = [page EXCEPT ![p] = Closed]
        /\ UNCHANGED <<auctions, photos, fresh, sold, scores, edited, enlarged>>
    BY <1>6 DEF ClosePage
  <2>2. TypeOK' /\ PhotographsFit' /\ SoldFactorIsEarned'
    BY <1>0, <2>1, SamePhotographs DEF TypeOK, PhotographsFit, SoldFactorIsEarned, Published
  <2>3. PagesFit'
    <3>1. <<>> \in [{} -> Nat] /\ {} \in SUBSET Keys /\ DOMAIN <<>> = {}
      OBVIOUS
    <3>2. Closed \in [lot : SUBSET Lots, seen : UNION {[S -> Nat] : S \in SUBSET Keys}]
          /\ DOMAIN Closed.seen = {} /\ Closed.lot = {}
      BY <3>1 DEF Closed
    <3>3. page' \in [Pages -> [lot : SUBSET Lots, seen : UNION {[S -> Nat] : S \in SUBSET Keys}]]
      BY <1>0, <2>1, <3>2 DEF PagesFit
    <3>4. \A q \in Pages : page'[q] = page[q] \/ page'[q] = Closed
      BY <1>0, <2>1 DEF PagesFit
    <3> QED  BY <1>0, <2>1, <3>2, <3>3, <3>4, ZenonT(30) DEF PagesFit, Published
  <2> QED  BY <2>2, <2>3 DEF IInv
<1> QED  BY <1>1, <1>2, <1>3, <1>4, <1>5, <1>6, SaveKeeps, ScoreKeeps DEF Next

-----------------------------------------------------------------------------
(* What follows, however uploads, pages and approvals alternate *)

\* The inductive invariant of Publication.
THEOREM Invariance == Spec => []IInv
BY InitIInv, NextIInv, PTL DEF Spec

\* Every row is of its type and of a lot that exists.
THEOREM TypeCorrect == Spec => []TypeOK
<1>1. IInv => TypeOK
  BY DEF IInv
<1> QED  BY <1>1, Invariance, PTL

\* Uploads never pass MAX_PHOTOGRAPHS and number what they store 1, 2, 3 ...;
\* only the administration can undo either (add_photographs).
THEOREM PhotographsCorrect == Spec => []PhotographsFit
<1>1. IInv => PhotographsFit
  BY DEF IInv
<1> QED  BY <1>1, Invariance, PTL

\* Whoever is said to have sold before did, and still has (seller_has_sold_before).
THEOREM SoldFactorCorrect == Spec => []SoldFactorIsEarned
<1>1. IInv => SoldFactorIsEarned
  BY DEF IInv
<1> QED  BY <1>1, Invariance, PTL

\* Lots are published one at a time.
LEMMA PublishedFinite == Spec => []IsFiniteSet(Published)
<1>1. Init => IsFiniteSet(Published)
  BY FS_EmptySet DEF Init, Published
<1>2. IsFiniteSet(Published) /\ [Next]_vars => IsFiniteSet(Published)'
  <2> SUFFICES ASSUME IsFiniteSet(Published), [Next]_vars PROVE IsFiniteSet(Published')
    OBVIOUS
  <2>1. CASE auctions' = auctions
    BY <2>1 DEF Published
  <2>2. ASSUME NEW l \in Lots, NEW n \in 1..MaxPhotographs, NEW a \in Auction, Publish(l, a, n)
        PROVE  IsFiniteSet(Published')
    <3>1. Published' = Published \cup {l}
      BY <2>2 DEF Publish, Override, Published
    <3> QED  BY <3>1, FS_AddElement
  <2>3. ASSUME Next PROVE auctions' = auctions \/
              \E l \in Lots, n \in 1..MaxPhotographs, a \in Auction : Publish(l, a, n)
    <3>1. ASSUME NEW l \in Lots, NEW n \in 1..MaxPhotographs, Upload(l, n)
          PROVE  auctions' = auctions
      BY <3>1 DEF Upload
    <3>2. ASSUME NEW l \in Lots, NEW others \in Answers, Score(l, others)
          PROVE  auctions' = auctions
      BY <3>2 DEF Score
    <3>3. ASSUME NEW l \in Lots, Sell(l) PROVE auctions' = auctions
      BY <3>3 DEF Sell
    <3>4. ASSUME NEW p \in Pages, ClosePage(p) \/ \E l \in Lots : OpenPage(p, l)
          PROVE  auctions' = auctions
      BY <3>4 DEF ClosePage, OpenPage
    <3>5. ASSUME NEW p \in Pages, NEW l \in Lots, NEW orders, NEW gone, NEW added,
                 SavePage(p, l, orders, gone, added)
          PROVE  auctions' = auctions
      BY <3>5 DEF SavePage
    <3> QED  BY <2>3, <3>1, <3>2, <3>3, <3>4, <3>5, Zenon DEF Next
  <2> QED  BY <2>1, <2>2, <2>3 DEF vars
<1> QED  BY <1>1, <1>2, PTL DEF Spec

\* The average of prices all under five halves of one is under it too, and of
\* prices all over it is over it.
LEMMA AverageIsFair ==
    ASSUME TypeOK, IsFiniteSet(Published), NEW l \in Published
    PROVE  LET others == Comparable(l)
               dear == {k \in others : 2 * auctions[k].price > 5 * auctions[l].price}
           IN /\ dear = {} => PriceIsNotFarBelow(l)
              /\ dear = others /\ others # {} => ~PriceIsNotFarBelow(l)
<1> DEFINE others == Comparable(l)
           dear == {k \in others : 2 * auctions[k].price > 5 * auctions[l].price}
           n == Cardinality(others)
           p == Price(l)
           s == Sum(others)
<1>1. others \in SUBSET Published /\ IsFiniteSet(others) /\ n \in Nat
  <2>1. others \in SUBSET Published
    BY DEF Comparable
  <2> QED  BY <2>1, FS_Subset, FS_CardinalityType
<1>2. \A k \in Published : Price(k) \in Nat
  BY ConstantsAssumption DEF TypeOK, Auction, Price
<1>3. others # {} => n # 0
  BY <1>1, FS_EmptySet
<1>4. PriceIsNotFarBelow(l) <=> (others # {} => 10 * n * p >= 4 * s)
  BY DEF PriceIsNotFarBelow, Price, Sum
<1>5. p \in Nat /\ 5 * p \in Nat /\ 5 * p + 1 \in Nat
  BY <1>2
<1>6. \A k \in others : Price(k) \in Nat
  BY <1>1, <1>2
<1> HIDE DEF others, n, p, s
<1>7. s \in Nat /\ (\A k \in others : 2 * Price(k) <= 5 * p) => 2 * s <= n * (5 * p)
  BY <1>1, <1>5, <1>6, SumBounds DEF s, n
<1>8. s \in Nat /\ ((\A k \in others : 2 * Price(k) >= 5 * p + 1) => 2 * s >= n * (5 * p + 1))
  BY <1>1, <1>5, <1>6, SumBounds DEF s, n
<1>9. ASSUME dear = {} PROVE PriceIsNotFarBelow(l)
  <2>1. \A k \in others : 2 * Price(k) <= 5 * p
    BY <1>5, <1>6, <1>9 DEF Price, p
  <2>2. 2 * s <= n * (5 * p)
    BY <1>7, <1>8, <2>1
  <2>3. 10 * n * p = 2 * (n * (5 * p))
    BY <1>1, <1>5
  <2>4. n * (5 * p) \in Int
    BY <1>1, <1>5
  <2> QED  BY <1>4, <1>8, <2>2, <2>3, <2>4
<1>10. ASSUME dear = others, others # {} PROVE ~PriceIsNotFarBelow(l)
  <2>1. \A k \in others : 2 * Price(k) >= 5 * p + 1
    BY <1>5, <1>6, <1>10 DEF Price, p
  <2>2. 2 * s >= n * (5 * p + 1)
    BY <1>8, <2>1
  <2>3. n * (5 * p + 1) = n * (5 * p) + n /\ 10 * n * p = 2 * (n * (5 * p)) /\ n * (5 * p) \in Int
    BY <1>1, <1>5
  <2>4. n >= 1
    BY <1>1, <1>3, <1>10
  <2>5. ~(10 * n * p >= 4 * s)
    BY <1>1, <1>8, <2>2, <2>3, <2>4
  <2> QED  BY <1>4, <1>10, <2>5
<1> QED  BY <1>9, <1>10 DEF others, p, Price

\* What the approval says of the price is fair to it, whatever the other lots of
\* its category, however many and at whatever price (price_is_not_far_below_its_category).
THEOREM PriceFactorCorrect == Spec => PriceFactorIsFair
<1> DEFINE Fair ==
       \A l \in DOMAIN scores' \ DOMAIN scores :
          LET others == {k \in Published : k # l /\ auctions[k].category = auctions[l].category}
              dear == {k \in others : 2 * auctions[k].price > 5 * auctions[l].price}
              met == "price_is_not_far_below_its_category" \in scores'[l]
          IN /\ dear = {} => met
             /\ dear = others /\ others # {} => ~met
<1>1. TypeOK /\ IsFiniteSet(Published) /\ [Next]_vars => [Fair]_vars
  <2> SUFFICES ASSUME TypeOK, IsFiniteSet(Published), [Next]_vars PROVE Fair
    OBVIOUS
  <2>1. CASE DOMAIN scores' = DOMAIN scores
    BY <2>1
  <2>2. ASSUME NEW l \in Lots, NEW answers \in Answers, Score(l, answers) PROVE Fair
    <3>1. /\ l \in Published
          /\ DOMAIN scores' \ DOMAIN scores = {l}
          /\ scores'[l] = Met(l, answers)
      BY <2>2 DEF Score, Override
    <3>2. "price_is_not_far_below_its_category" \in scores'[l] <=> PriceIsNotFarBelow(l)
      <4>1. "price_is_not_far_below_its_category" \notin answers
        BY ConstantsAssumption
      <4> QED  BY <3>1, <4>1 DEF Met, Factors
    <3>3. {k \in Published : k # l /\ auctions[k].category = auctions[l].category} = Comparable(l)
      BY DEF Comparable
    <3> QED  BY <3>1, <3>2, <3>3, AverageIsFair
  <2>3. ASSUME Next PROVE scores' = scores \/
              \E l \in Lots, answers \in Answers : Score(l, answers)
    <3>1. ASSUME NEW l \in Lots, NEW n \in 1..MaxPhotographs, NEW a \in Auction,
                 Upload(l, n) \/ Publish(l, a, n)
          PROVE  scores' = scores
      BY <3>1 DEF Upload, Publish
    <3>2. ASSUME NEW l \in Lots, NEW n \in 1..MaxPhotographs, Upload(l, n)
          PROVE  scores' = scores
      BY <3>2 DEF Upload
    <3>3. ASSUME NEW l \in Lots, Sell(l) PROVE scores' = scores
      BY <3>3 DEF Sell
    <3>4. ASSUME NEW p \in Pages, ClosePage(p) \/ \E l \in Lots : OpenPage(p, l)
          PROVE  scores' = scores
      BY <3>4 DEF ClosePage, OpenPage
    <3>5. ASSUME NEW p \in Pages, NEW l \in Lots, NEW orders, NEW gone, NEW added,
                 SavePage(p, l, orders, gone, added)
          PROVE  scores' = scores
      BY <3>5 DEF SavePage
    <3> QED  BY <2>3, <3>1, <3>2, <3>3, <3>4, <3>5, Zenon DEF Next
  <2> QED  BY <2>1, <2>2, <2>3 DEF vars
<1> QED  BY <1>1, TypeCorrect, PublishedFinite, PTL DEF Spec, PriceFactorIsFair
=============================================================================
