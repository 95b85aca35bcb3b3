---------------------------- MODULE SumTheorems ----------------------------
(***************************************************************************)
(* What the proofs of this project use of Total and of AtPlaces.  The sum  *)
(* is a recursive function over the subsets of a set; the induction below  *)
(* is a statement about a set of subsets, with no operator as a parameter. *)
(***************************************************************************)
EXTENDS Sums, Places, Integers, FiniteSets, FiniteSetsExt, FiniteSetTheorems,
        SequenceTheorems, WellFoundedInduction, TLAPS

\* A non-empty set of numbers has a least member.
LEMMA Least ==
  ASSUME NEW T, T \subseteq Nat, T # {}
  PROVE  \E n \in T : \A m \in T : n <= m
<1>1. PICK n \in T : \A m \in T : ~ (<<m, n>> \in OpToRel(<, Nat))
  BY NatLessThanWellFounded, WFMin
<1>2. \A m \in T : ~ (m < n)
  BY <1>1 DEF OpToRel
<1>3. QED
  BY <1>2

\* A family that has every subset of U whose proper subsets it has, has all.
LEMMA SubsetInduction ==
  ASSUME NEW U, IsFiniteSet(U), NEW G,
         \A S \in SUBSET U : (\A T \in SUBSET S : T # S => T \in G) => S \in G
  PROVE  \A S \in SUBSET U : S \in G
<1> SUFFICES ASSUME NEW Z \in SUBSET U, Z \notin G
             PROVE  FALSE
  OBVIOUS
<1> DEFINE Bad == {S \in SUBSET U : S \notin G}
           Sizes == {Cardinality(S) : S \in Bad}
<1>1. \A S \in SUBSET U : IsFiniteSet(S) /\ Cardinality(S) \in Nat
  BY FS_Subset, FS_CardinalityType
<1>2. Sizes \subseteq Nat /\ Sizes # {}
  BY <1>1
<1>3. PICK n \in Sizes : \A k \in Sizes : n <= k
  <2> HIDE DEF Sizes
  <2> QED BY <1>2, Least
<1>4. PICK S \in Bad : n = Cardinality(S)
  OBVIOUS
<1>5. \A T \in SUBSET S : T # S => T \in G
  <2> SUFFICES ASSUME NEW T \in SUBSET S, T # S, T \notin G
               PROVE  FALSE
    OBVIOUS
  <2>1. Cardinality(T) < Cardinality(S)
    BY <1>1, FS_Subset
  <2>2. T \in SUBSET U /\ Cardinality(T) \in Sizes
    OBVIOUS
  <2>3. n <= Cardinality(T)
    BY <1>3, <2>2
  <2>4. Cardinality(T) \in Nat /\ Cardinality(S) \in Nat
    BY <1>1, <2>2
  <2> HIDE DEF Bad, Sizes
  <2> QED BY <2>1, <2>3, <2>4, <1>4
<1> QED BY <1>5

-----------------------------------------------------------------------------
(* The recursive function behind Total exists, and is unique. *)

Pick(s) == CHOOSE x \in s : TRUE

Adds(f, S, g) ==
  g = [s \in SUBSET S |->
         IF s = {} THEN 0 ELSE f[Pick(s)] + g[s \ {Pick(s)}]]

LEMMA PickIn ==
  ASSUME NEW S, S # {}
  PROVE  Pick(S) \in S
  BY DEF Pick

LEMMA TotalDef ==
  ASSUME NEW f, NEW S
  PROVE  Total(f, S) = (CHOOSE g : Adds(f, S, g))[S]
  BY DEF Total, MapThenSumSet, MapThenFoldSet, Pick, Adds

LEMMA AddsAgree ==
  ASSUME NEW f, NEW S, NEW T \in SUBSET S, IsFiniteSet(T),
         NEW g, Adds(f, S, g), NEW h, Adds(f, T, h)
  PROVE  \A s \in SUBSET T : g[s] = h[s]
<1> DEFINE G == {s \in SUBSET T : g[s] = h[s]}
<1>1. ASSUME NEW s \in SUBSET T, \A t \in SUBSET s : t # s => t \in G
      PROVE  s \in G
  <2>1. CASE s = {}
    <3>1. g[s] = 0
      BY <2>1 DEF Adds
    <3>2. h[s] = 0
      BY <2>1 DEF Adds
    <3> QED BY <3>1, <3>2
  <2>2. CASE s # {}
    <3> DEFINE t == s \ {Pick(s)}
    <3>1. t \in G
      BY <1>1, <2>2, PickIn
    <3>2. g[s] = f[Pick(s)] + g[t]
      <4>1. s \in SUBSET S
        OBVIOUS
      <4> QED BY <4>1, <2>2 DEF Adds
    <3>3. h[s] = f[Pick(s)] + h[t]
      BY <2>2 DEF Adds
    <3> QED BY <3>1, <3>2, <3>3
  <2> QED BY <2>1, <2>2
<1>2. \A s \in SUBSET T : s \in G
  <2> HIDE DEF G
  <2> QED BY <1>1, SubsetInduction
<1> QED BY <1>2

LEMMA AddsExists ==
  ASSUME NEW f, NEW U, IsFiniteSet(U)
  PROVE  \A S \in SUBSET U : \E g : Adds(f, S, g)
<1> DEFINE G == {S \in SUBSET U : \E g : Adds(f, S, g)}
           The(S) == CHOOSE g : Adds(f, S, g)
<1>1. ASSUME NEW S \in SUBSET U, \A T \in SUBSET S : T # S => T \in G
      PROVE  S \in G
  <2> DEFINE h == [s \in SUBSET S |->
                     IF s = {} THEN 0
                     ELSE f[Pick(s)] + Total(f, s \ {Pick(s)})]
  <2>1. ASSUME NEW u \in SUBSET S, u # S
        PROVE  h[u] = Total(f, u)
    <3>1. Adds(f, u, The(u)) /\ Total(f, u) = The(u)[u]
      BY <2>1, <1>1, TotalDef
    <3>2. CASE u = {}
      <4>1. The(u)[u] = 0
        BY <3>1, <3>2 DEF Adds
      <4> QED BY <4>1, <3>1, <3>2
    <3>3. CASE u # {}
      <4> DEFINE v == u \ {Pick(u)}
      <4>1. v \in SUBSET u /\ v \in SUBSET S /\ v # S /\ IsFiniteSet(v)
        BY <2>1, <3>3, PickIn, FS_Subset
      <4>2. Adds(f, v, The(v)) /\ Total(f, v) = The(v)[v]
        BY <4>1, <1>1, TotalDef
      <4>3. The(u)[v] = The(v)[v]
        <5> HIDE DEF The, v
        <5> QED BY <3>1, <4>1, <4>2, AddsAgree
      <4>4. The(u)[u] = f[Pick(u)] + The(u)[v]
        <5> HIDE DEF The
        <5> QED BY <3>1, <3>3 DEF Adds
      <4>5. h[u] = f[Pick(u)] + Total(f, v)
        BY <3>3
      <4> QED BY <3>1, <4>2, <4>3, <4>4, <4>5
    <3> QED BY <3>2, <3>3
  <2>2. ASSUME NEW s \in SUBSET S, s # {}
        PROVE  h[s \ {Pick(s)}] = Total(f, s \ {Pick(s)})
    <3>1. s \ {Pick(s)} \in SUBSET S /\ s \ {Pick(s)} # S
      BY <2>2, PickIn
    <3> HIDE DEF h
    <3> QED BY <3>1, <2>1
  <2>3. Adds(f, S, h)
    BY <2>2 DEF Adds
  <2> QED BY <2>3
<1>2. \A S \in SUBSET U : S \in G
  <2> HIDE DEF G
  <2> QED BY <1>1, SubsetInduction
<1> QED BY <1>2

-----------------------------------------------------------------------------
(* The two cases of the recursion. *)

LEMMA TotalEmpty ==
  ASSUME NEW f
  PROVE  Total(f, {}) = 0
<1>1. \E g : Adds(f, {}, g)
  BY AddsExists, FS_EmptySet
<1>2. Adds(f, {}, CHOOSE g : Adds(f, {}, g))
  BY <1>1
<1> DEFINE g == CHOOSE g : Adds(f, {}, g)
<1> HIDE DEF g
<1>3. Adds(f, {}, g) /\ Total(f, {}) = g[{}]
  BY <1>2, TotalDef DEF g
<1> QED BY <1>3 DEF Adds

LEMMA TotalPick ==
  ASSUME NEW f, NEW S, IsFiniteSet(S), S # {}
  PROVE  Total(f, S) = f[Pick(S)] + Total(f, S \ {Pick(S)})
<1> DEFINE T == S \ {Pick(S)}
           The(s) == CHOOSE g : Adds(f, s, g)
<1>1. Adds(f, S, The(S)) /\ Total(f, S) = The(S)[S]
  BY AddsExists, TotalDef
<1>2. T \in SUBSET S /\ IsFiniteSet(T)
  BY FS_Subset
<1>3. Adds(f, T, The(T)) /\ Total(f, T) = The(T)[T]
  BY <1>2, AddsExists, TotalDef
<1> HIDE DEF The
<1>4. The(S)[T] = The(T)[T]
  BY <1>1, <1>2, <1>3, AddsAgree
<1>5. The(S)[S] = f[Pick(S)] + The(S)[T]
  BY <1>1 DEF Adds
<1> QED BY <1>1, <1>3, <1>4, <1>5

-----------------------------------------------------------------------------
(* Sums of integers. *)

LEMMA TotalInt ==
  ASSUME NEW f, NEW U, IsFiniteSet(U), \A x \in U : f[x] \in Int
  PROVE  \A S \in SUBSET U : Total(f, S) \in Int
<1> DEFINE G == {S \in SUBSET U : Total(f, S) \in Int}
<1>1. ASSUME NEW S \in SUBSET U, \A T \in SUBSET S : T # S => T \in G
      PROVE  S \in G
  <2>1. CASE S = {}
    BY <2>1, TotalEmpty
  <2>2. CASE S # {}
    <3> DEFINE T == S \ {Pick(S)}
    <3>1. T \in G /\ f[Pick(S)] \in Int
      BY <1>1, <2>2, PickIn
    <3>2. Total(f, S) = f[Pick(S)] + Total(f, T)
      BY <2>2, TotalPick, FS_Subset
    <3> QED BY <3>1, <3>2
  <2> QED BY <2>1, <2>2
<1>2. \A S \in SUBSET U : S \in G
  <2> HIDE DEF G
  <2> QED BY <1>1, SubsetInduction
<1> QED BY <1>2

\* The sum does not depend on which term is taken first.
LEMMA TotalRemoveAll ==
  ASSUME NEW f, NEW U, IsFiniteSet(U), \A x \in U : f[x] \in Int
  PROVE  \A S \in SUBSET U : \A x \in S : Total(f, S) = f[x] + Total(f, S \ {x})
<1> DEFINE G == {S \in SUBSET U :
                   \A x \in S : Total(f, S) = f[x] + Total(f, S \ {x})}
<1>1. ASSUME NEW S \in SUBSET U, \A T \in SUBSET S : T # S => T \in G
      PROVE  S \in G
  <2> SUFFICES ASSUME NEW x \in S
               PROVE  Total(f, S) = f[x] + Total(f, S \ {x})
    OBVIOUS
  <2> DEFINE p == Pick(S)
  <2>1. p \in S /\ Total(f, S) = f[p] + Total(f, S \ {p})
    BY PickIn, TotalPick, FS_Subset
  <2>2. CASE x = p
    BY <2>1, <2>2
  <2>3. CASE x # p
    <3> HIDE DEF p
    <3>1. S \ {p} \in G /\ S \ {x} \in G
      BY <1>1, <2>1
    <3>2. Total(f, S \ {p}) = f[x] + Total(f, (S \ {p}) \ {x})
      BY <2>3, <3>1
    <3>3. Total(f, S \ {x}) = f[p] + Total(f, (S \ {x}) \ {p})
      BY <2>1, <2>3, <3>1
    <3>4. (S \ {p}) \ {x} = (S \ {x}) \ {p}
      OBVIOUS
    <3>5. f[p] \in Int /\ f[x] \in Int /\ Total(f, (S \ {x}) \ {p}) \in Int
      BY <2>1, TotalInt
    <3> DEFINE k == Total(f, (S \ {x}) \ {p})
               fp == f[p]
               fx == f[x]
    <3>6. fp \in Int /\ fx \in Int /\ k \in Int
      BY <3>5
    <3>7. Total(f, S) = fp + (fx + k)
      BY <2>1, <3>2, <3>4
    <3>8. Total(f, S \ {x}) = fp + k
      BY <3>3
    <3> HIDE DEF k, fp, fx
    <3>9. fp + (fx + k) = fx + (fp + k)
      BY <3>6
    <3> QED BY <3>7, <3>8, <3>9 DEF fx
  <2> QED BY <2>2, <2>3
<1>2. \A S \in SUBSET U : S \in G
  <2> HIDE DEF G
  <2> QED BY <1>1, SubsetInduction
<1> QED BY <1>2

LEMMA TotalType ==
  ASSUME NEW f, NEW S, IsFiniteSet(S), \A x \in S : f[x] \in Int
  PROVE  Total(f, S) \in Int
  BY TotalInt

LEMMA TotalRemove ==
  ASSUME NEW f, NEW S, IsFiniteSet(S), \A x \in S : f[x] \in Int, NEW x \in S
  PROVE  Total(f, S) = f[x] + Total(f, S \ {x})
  BY TotalRemoveAll

LEMMA TotalAdd ==
  ASSUME NEW f, NEW S, IsFiniteSet(S), NEW x, x \notin S,
         \A y \in S \cup {x} : f[y] \in Int
  PROVE  Total(f, S \cup {x}) = f[x] + Total(f, S)
<1>1. IsFiniteSet(S \cup {x}) /\ (S \cup {x}) \ {x} = S
  BY FS_AddElement
<1> QED BY <1>1, TotalRemove

LEMMA TotalNat ==
  ASSUME NEW f, NEW U, IsFiniteSet(U), \A x \in U : f[x] \in Nat
  PROVE  \A S \in SUBSET U : Total(f, S) \in Nat
<1> DEFINE G == {S \in SUBSET U : Total(f, S) \in Nat}
<1>1. ASSUME NEW S \in SUBSET U, \A T \in SUBSET S : T # S => T \in G
      PROVE  S \in G
  <2>1. CASE S = {}
    BY <2>1, TotalEmpty
  <2>2. CASE S # {}
    <3> DEFINE T == S \ {Pick(S)}
    <3>1. T \in G /\ f[Pick(S)] \in Nat
      BY <1>1, <2>2, PickIn
    <3>2. Total(f, S) = f[Pick(S)] + Total(f, T)
      BY <2>2, TotalPick, FS_Subset
    <3> QED BY <3>1, <3>2
  <2> QED BY <2>1, <2>2
<1>2. \A S \in SUBSET U : S \in G
  <2> HIDE DEF G
  <2> QED BY <1>1, SubsetInduction
<1> QED BY <1>2

LEMMA TotalZero ==
  ASSUME NEW f, NEW U, IsFiniteSet(U), \A x \in U : f[x] = 0
  PROVE  Total(f, U) = 0
<1> DEFINE G == {S \in SUBSET U : Total(f, S) = 0}
<1>1. ASSUME NEW S \in SUBSET U, \A T \in SUBSET S : T # S => T \in G
      PROVE  S \in G
  <2>1. CASE S = {}
    BY <2>1, TotalEmpty
  <2>2. CASE S # {}
    <3>1. S \ {Pick(S)} \in G /\ f[Pick(S)] = 0
      BY <1>1, <2>2, PickIn
    <3>2. Total(f, S) = f[Pick(S)] + Total(f, S \ {Pick(S)})
      BY <2>2, TotalPick, FS_Subset
    <3> QED BY <3>1, <3>2
  <2> QED BY <2>1, <2>2
<1>2. \A S \in SUBSET U : S \in G
  <2> HIDE DEF G
  <2> QED BY <1>1, SubsetInduction
<1> QED BY <1>2

-----------------------------------------------------------------------------
(* Two functions, and two sets. *)

LEMMA TotalAgreeAll ==
  ASSUME NEW f, NEW g, NEW U, IsFiniteSet(U), \A x \in U : f[x] = g[x]
  PROVE  \A S \in SUBSET U : Total(f, S) = Total(g, S)
<1> DEFINE G == {S \in SUBSET U : Total(f, S) = Total(g, S)}
<1>1. ASSUME NEW S \in SUBSET U, \A T \in SUBSET S : T # S => T \in G
      PROVE  S \in G
  <2>1. CASE S = {}
    BY <2>1, TotalEmpty
  <2>2. CASE S # {}
    <3> DEFINE T == S \ {Pick(S)}
    <3>1. T \in G /\ f[Pick(S)] = g[Pick(S)]
      BY <1>1, <2>2, PickIn
    <3>2. Total(f, S) = f[Pick(S)] + Total(f, T)
      BY <2>2, TotalPick, FS_Subset
    <3>3. Total(g, S) = g[Pick(S)] + Total(g, T)
      BY <2>2, TotalPick, FS_Subset
    <3> QED BY <3>1, <3>2, <3>3
  <2> QED BY <2>1, <2>2
<1>2. \A S \in SUBSET U : S \in G
  <2> HIDE DEF G
  <2> QED BY <1>1, SubsetInduction
<1> QED BY <1>2

LEMMA TotalAgree ==
  ASSUME NEW f, NEW g, NEW S, IsFiniteSet(S), \A x \in S : f[x] = g[x]
  PROVE  Total(f, S) = Total(g, S)
  BY TotalAgreeAll

\* One term changes.
LEMMA TotalChange ==
  ASSUME NEW f, NEW g, NEW S, IsFiniteSet(S), NEW x \in S,
         \A y \in S : f[y] \in Int /\ g[y] \in Int,
         \A y \in S \ {x} : f[y] = g[y]
  PROVE  Total(g, S) = Total(f, S) - f[x] + g[x]
<1>1. Total(f, S) = f[x] + Total(f, S \ {x})
  BY TotalRemove
<1>2. Total(g, S) = g[x] + Total(g, S \ {x})
  BY TotalRemove
<1>3. IsFiniteSet(S \ {x})
  BY FS_Subset
<1>4. Total(f, S \ {x}) = Total(g, S \ {x})
  BY <1>3, TotalAgree
<1>5. Total(f, S \ {x}) \in Int /\ f[x] \in Int /\ g[x] \in Int
  BY <1>3, TotalType
<1> QED BY <1>1, <1>2, <1>4, <1>5

\* A sum over a set is the sum over a part and over the rest.
LEMMA TotalPartsAll ==
  ASSUME NEW f, NEW U, IsFiniteSet(U), \A x \in U : f[x] \in Int
  PROVE  \A S \in SUBSET U : \A P, Q \in SUBSET S :
           P \cup Q = S /\ P \cap Q = {}
             => Total(f, S) = Total(f, P) + Total(f, Q)
<1> DEFINE Splits(S, P, Q) ==
             P \cup Q = S /\ P \cap Q = {}
               => Total(f, S) = Total(f, P) + Total(f, Q)
           G == {S \in SUBSET U : \A P, Q \in SUBSET S : Splits(S, P, Q)}
<1>1. ASSUME NEW S \in SUBSET U, \A T \in SUBSET S : T # S => T \in G
      PROVE  S \in G
  <2> SUFFICES ASSUME NEW P \in SUBSET S, NEW Q \in SUBSET S,
                      P \cup Q = S, P \cap Q = {}
               PROVE  Total(f, S) = Total(f, P) + Total(f, Q)
    OBVIOUS
  <2>0. Total(f, P) \in Int /\ Total(f, Q) \in Int /\ IsFiniteSet(S)
    BY TotalInt, FS_Subset
  <2>1. CASE P = {}
    <3>1. Q = S
      BY <2>1
    <3>2. Total(f, P) = 0
      BY <2>1, TotalEmpty
    <3>3. Total(f, Q) = Total(f, S)
      BY <3>1
    <3> QED BY <2>0, <3>2, <3>3
  <2>2. CASE P # {}
    <3>1. PICK p \in P : TRUE
      BY <2>2
    <3> DEFINE T == S \ {p}
               R == P \ {p}
    <3>2. T \in SUBSET S /\ T # S /\ R \in SUBSET T /\ Q \in SUBSET T
      OBVIOUS
    <3>3. R \cup Q = T /\ R \cap Q = {}
      OBVIOUS
    <3>4. T \in G
      BY <1>1, <3>2
    <3>5. Splits(T, R, Q)
      BY <3>2, <3>4
    <3>6. Total(f, T) = Total(f, R) + Total(f, Q)
      BY <3>3, <3>5
    <3>7. Total(f, S) = f[p] + Total(f, T)
      BY TotalRemove, <2>0
    <3>8. Total(f, P) = f[p] + Total(f, R)
      BY TotalRemove, FS_Subset
    <3>9. f[p] \in Int /\ Total(f, R) \in Int
      BY TotalInt
    <3> HIDE DEF T, R, G, Splits
    <3> QED BY <2>0, <3>6, <3>7, <3>8, <3>9
  <2> QED BY <2>1, <2>2
<1>2. \A S \in SUBSET U : S \in G
  <2> HIDE DEF G
  <2> QED BY <1>1, SubsetInduction
<1> QED BY <1>2

LEMMA TotalParts ==
  ASSUME NEW f, NEW P, NEW Q, IsFiniteSet(P \cup Q), P \cap Q = {},
         \A x \in P \cup Q : f[x] \in Int
  PROVE  Total(f, P \cup Q) = Total(f, P) + Total(f, Q)
<1> DEFINE S == P \cup Q
<1>1. IsFiniteSet(S) /\ S = P \cup Q /\ P \in SUBSET S /\ Q \in SUBSET S
  OBVIOUS
<1>2. \A x \in S : f[x] \in Int
  OBVIOUS
<1> HIDE DEF S
<1>3. Total(f, S) = Total(f, P) + Total(f, Q)
  BY <1>1, <1>2, TotalPartsAll
<1> QED BY <1>3 DEF S

\* Sums of natural numbers grow with the set.
LEMMA TotalMonotone ==
  ASSUME NEW f, NEW S, IsFiniteSet(S), \A x \in S : f[x] \in Nat,
         NEW T \in SUBSET S
  PROVE  Total(f, T) <= Total(f, S)
<1> DEFINE Q == S \ T
<1>1. T \cup Q = S /\ T \cap Q = {} /\ Q \in SUBSET S
  OBVIOUS
<1>2. \A x \in S : f[x] \in Int
  OBVIOUS
<1>3. Total(f, Q) \in Nat /\ Total(f, T) \in Nat
  BY TotalNat
<1> HIDE DEF Q
<1>4. Total(f, S) = Total(f, T) + Total(f, Q)
  BY <1>1, <1>2, TotalPartsAll
<1> QED BY <1>3, <1>4

\* The members of S with key b, and with a key in B.
Keyed(S, key, b) == {x \in S : key[x] = b}
KeyedIn(S, key, B) == {x \in S : key[x] \in B}

\* Adding up the totals of groups adds up the members of all of them.
LEMMA TotalGroups ==
  ASSUME NEW f, NEW S, IsFiniteSet(S), \A x \in S : f[x] \in Int,
         NEW key, NEW U, IsFiniteSet(U), NEW sum,
         \A b \in U : sum[b] = Total(f, Keyed(S, key, b))
  PROVE  \A B \in SUBSET U : Total(sum, B) = Total(f, KeyedIn(S, key, B))
<1> USE DEF Keyed, KeyedIn
<1> DEFINE Members(B) == {x \in S : key[x] \in B}
           G == {B \in SUBSET U : Total(sum, B) = Total(f, Members(B))}
<1>1. ASSUME NEW B \in SUBSET U, \A T \in SUBSET B : T # B => T \in G
      PROVE  B \in G
  <2>1. CASE B = {}
    <3>1. Members(B) = {}
      BY <2>1
    <3> QED BY <2>1, <3>1, TotalEmpty
  <2>2. CASE B # {}
    <3> DEFINE p == Pick(B)
               T == B \ {p}
               P == {x \in S : key[x] = p}
    <3>1. p \in B /\ T \in G
      BY <1>1, <2>2, PickIn
    <3>2. Total(sum, B) = sum[p] + Total(sum, T)
      BY <2>2, TotalPick, FS_Subset
    <3>3. sum[p] = Total(f, P)
      BY <3>1
    <3>4. P \cup Members(T) = Members(B) /\ P \cap Members(T) = {}
      BY <3>1
    <3>5. P \in SUBSET S /\ Members(T) \in SUBSET S /\ Members(B) \in SUBSET S
      OBVIOUS
    <3>6. Total(sum, T) = Total(f, Members(T))
      BY <3>1
    <3>7. /\ P \in SUBSET Members(B) /\ Members(T) \in SUBSET Members(B)
      <4> HIDE DEF Members, P, T
      <4> QED BY <3>4
    <3> HIDE DEF p, T, P, Members, G
    <3>8. Total(f, Members(B)) = Total(f, P) + Total(f, Members(T))
      BY <3>4, <3>5, <3>7, TotalPartsAll
    <3>9. Total(sum, B) = Total(f, Members(B))
      BY <3>2, <3>3, <3>6, <3>8
    <3> QED BY <3>9 DEF G
  <2> QED BY <2>1, <2>2
<1>2. \A B \in SUBSET U : B \in G
  <2> HIDE DEF G
  <2> QED BY <1>1, SubsetInduction
<1> QED BY <1>2

-----------------------------------------------------------------------------
(* The places of a finite set are numbered through.                        *)
LEMMA RankCounts ==
  ASSUME NEW S, S \subseteq Nat, IsFiniteSet(S), NEW n \in S
  PROVE  Rank(S, n) \in 1 .. Cardinality(S)
<1> DEFINE L == {m \in S : m <= n}
<1>1. L \in SUBSET S /\ n \in L
  OBVIOUS
<1> HIDE DEF L
<1>2. IsFiniteSet(L) /\ Cardinality(L) <= Cardinality(S)
  BY <1>1, FS_Subset
<1>3. Cardinality(L) # 0
  BY <1>1, <1>2, FS_EmptySet
<1>4. Cardinality(L) \in Nat /\ Cardinality(S) \in Nat
  BY <1>2, FS_CardinalityType
<1>5. QED
  BY <1>2, <1>3, <1>4 DEF Rank, L

LEMMA RankOrders ==
  ASSUME NEW S, S \subseteq Nat, IsFiniteSet(S), NEW m \in S, NEW n \in S, m < n
  PROVE  Rank(S, m) < Rank(S, n)
<1> DEFINE L(k) == {i \in S : i <= k}
<1>1. L(m) \cup {n} \in SUBSET L(n) /\ n \notin L(m)
  <2>1. m \in Nat /\ n \in Nat /\ \A i \in S : i \in Nat
    OBVIOUS
  <2>2. \A i \in S : i <= m => i <= n
    BY <2>1
  <2>3. n <= n /\ ~(n <= m)
    BY <2>1
  <2>4. QED
    BY <2>2, <2>3
<1>2. L(m) \in SUBSET S /\ L(n) \in SUBSET S
  OBVIOUS
<1> HIDE DEF L
<1>3. IsFiniteSet(L(m)) /\ IsFiniteSet(L(n))
  BY <1>2, FS_Subset
<1>4. Cardinality(L(m) \cup {n}) = Cardinality(L(m)) + 1
  BY <1>1, <1>3, FS_AddElement
<1>5. Cardinality(L(m)) + 1 <= Cardinality(L(n))
  BY <1>1, <1>3, <1>4, FS_Subset
<1>6. Cardinality(L(m)) \in Nat /\ Cardinality(L(n)) \in Nat
  BY <1>3, FS_CardinalityType
<1>7. QED
  BY <1>5, <1>6 DEF Rank, L

LEMMA RankCovers ==
  ASSUME NEW S, S \subseteq Nat, IsFiniteSet(S)
  PROVE  \A k \in 1 .. Cardinality(S) : \E n \in S : Rank(S, n) = k
<1> DEFINE N == Cardinality(S)
           rank == [n \in S |-> Rank(S, n)]
<1>1. N \in Nat
  BY FS_CardinalityType
<1>2. rank \in [S -> 1 .. N]
  BY RankCounts
<1>3. \A m, n \in S : m # n => Rank(S, m) # Rank(S, n)
  <2> SUFFICES ASSUME NEW m \in S, NEW n \in S, m # n
               PROVE  Rank(S, m) # Rank(S, n)
    OBVIOUS
  <2>1. m \in Nat /\ n \in Nat
    OBVIOUS
  <2>2. m < n \/ n < m
    BY <2>1
  <2>3. Rank(S, m) \in 1 .. N /\ Rank(S, n) \in 1 .. N
    BY RankCounts
  <2>4. Rank(S, m) < Rank(S, n) \/ Rank(S, n) < Rank(S, m)
    BY <2>2, RankOrders
  <2> HIDE DEF N
  <2>5. QED
    BY <1>1, <2>3, <2>4
<1>4. \A m, n \in S : rank[m] = rank[n] => m = n
  BY <1>3
<1>5. rank \in Injection(S, 1 .. N)
  BY <1>2, <1>4 DEF Injection, IsInjective
<1>6. IsFiniteSet(1 .. N) /\ Cardinality(1 .. N) = N
  BY <1>1, FS_Interval
<1>7. rank \in Surjection(S, 1 .. N)
  BY <1>5, <1>6, FS_Injection
<1>8. \A k \in 1 .. N : \E n \in S : rank[n] = k
  BY <1>7 DEF Surjection
<1>9. QED
  BY <1>8

(* Of a list is kept what is at the places to keep, and nothing else, in   *)
(* the order it had.                                                       *)
LEMMA AtPlacesKeeps ==
  ASSUME NEW T, NEW list \in Seq(T), NEW S \in SUBSET DOMAIN list
  PROVE  /\ AtPlaces(list, S) \in Seq(T)
         /\ \A k \in DOMAIN AtPlaces(list, S) : \E n \in S : AtPlaces(list, S)[k] = list[n]
         /\ \A n \in S : \E k \in DOMAIN AtPlaces(list, S) : AtPlaces(list, S)[k] = list[n]
         /\ \A k, l \in DOMAIN AtPlaces(list, S) : k <= l =>
                \E m, n \in S : /\ m <= n /\ AtPlaces(list, S)[k] = list[m]
                               /\ AtPlaces(list, S)[l] = list[n]
<1> DEFINE kept == AtPlaces(list, S)
           N == Cardinality(S)
           Place(k) == CHOOSE n \in S : Rank(S, n) = k
<1>1. DOMAIN list = 1 .. Len(list) /\ Len(list) \in Nat /\ \A n \in S : list[n] \in T
  BY LenProperties, ElementOfSeq
<1>2. IsFiniteSet(S) /\ S \subseteq Nat
  <2>1. IsFiniteSet(1 .. Len(list))
    BY <1>1, FS_Interval
  <2>2. IsFiniteSet(S)
    BY <1>1, <2>1, FS_Subset
  <2>3. QED
    BY <1>1, <2>2
<1>3. N \in Nat
  BY <1>2, FS_CardinalityType
<1>4. \A k \in 1 .. N : Place(k) \in S /\ Rank(S, Place(k)) = k
  BY <1>2, RankCovers
<1>5. kept = [k \in 1 .. N |-> list[Place(k)]]
  BY DEF AtPlaces
<1> HIDE DEF Place, kept, N
<1>6. kept \in [1 .. N -> T]
  BY <1>1, <1>4, <1>5
<1>7. kept \in Seq(T)
  BY <1>3, <1>6, IsASeq
<1>8. \A k \in 1 .. N : kept[k] = list[Place(k)]
  BY <1>5
<1>9. \A n \in S : \E k \in 1 .. N : kept[k] = list[n]
  <2> SUFFICES ASSUME NEW n \in S PROVE \E k \in 1 .. N : kept[k] = list[n]
    OBVIOUS
  <2>1. Rank(S, n) \in 1 .. N
    BY <1>2, RankCounts DEF N
  <2>2. Place(Rank(S, n)) \in S /\ Rank(S, Place(Rank(S, n))) = Rank(S, n)
    BY <1>4, <2>1
  <2>3. Place(Rank(S, n)) = n
    <3> DEFINE m == Place(Rank(S, n))
    <3>1. m \in Nat /\ n \in Nat
      BY <1>2, <2>2
    <3>2. Rank(S, m) \in Nat
      BY <1>3, <2>1, <2>2
    <3>3. ~(m < n) /\ ~(n < m)
      BY <1>2, <2>2, <3>2, RankOrders
    <3>4. QED
      BY <3>1, <3>3
  <2>4. QED
    BY <1>8, <2>1, <2>3
<1>10. DOMAIN kept = 1 .. N
  BY <1>5
<1>11. ASSUME NEW k \in 1 .. N, NEW l \in 1 .. N, k <= l
       PROVE  Place(k) <= Place(l)
  <2>1. k \in Nat /\ l \in Nat
    BY <1>3
  <2>2. Place(k) \in Nat /\ Place(l) \in Nat
    BY <1>2, <1>4
  <2>3. Place(l) < Place(k) => Rank(S, Place(l)) < Rank(S, Place(k))
    BY <1>2, <1>4, RankOrders
  <2>4. ~(Place(l) < Place(k))
    BY <1>4, <1>11, <2>1, <2>3
  <2>5. QED
    BY <2>2, <2>4
<1>12. \A k, l \in DOMAIN kept : k <= l =>
          \E m, n \in S : m <= n /\ kept[k] = list[m] /\ kept[l] = list[n]
  BY <1>4, <1>8, <1>10, <1>11
<1>13. \A k \in DOMAIN kept : \E n \in S : kept[k] = list[n]
  BY <1>4, <1>8, <1>10
<1>14. \A n \in S : \E k \in DOMAIN kept : kept[k] = list[n]
  BY <1>9, <1>10
<1>15. QED
  BY <1>7, <1>12, <1>13, <1>14 DEF kept
=============================================================================
