----------------------------- MODULE SumLemmas -----------------------------
(***************************************************************************)
(* Facts about sums over finite sets, SumFunctionOnSet of the community    *)
(* modules, on which the proofs about quotas and rate limits rest. The     *)
(* induction is over the subsets of a finite set, by a smallest            *)
(* counterexample.                                                         *)
(***************************************************************************)
EXTENDS Integers, FiniteSets, Functions, FiniteSetTheorems, NaturalsInduction,
        WellFoundedInduction, TLAPS

LEMMA Smallest ==
    ASSUME NEW R, NEW D, IsWellFoundedOn(R, D), NEW T, T \subseteq D, T # {}
    PROVE  \E x \in T : \A y \in T : ~(<<y, x>> \in R)
  BY WFMin

(* What holds of a set when it holds of the smaller ones holds of all.       *)
LEMMA SubsetInduction ==
    ASSUME NEW S, IsFiniteSet(S), NEW C,
           \A t \in SUBSET S : (\A u \in SUBSET t : u # t => u \in C) => t \in C
    PROVE  \A t \in SUBSET S : t \in C
<1> DEFINE Wrong == {t \in SUBSET S : t \notin C}
<1> SUFFICES ASSUME Wrong # {} PROVE FALSE
  OBVIOUS
<1>1. IsWellFoundedOn(StrictSubsetOrdering(S), SUBSET S)
  <2>1. IsWellFoundedOn(StrictSubsetOrdering(S), FiniteSubsetsOf(S))
    BY FS_StrictSubsetOrderingWellFounded
  <2>2. FiniteSubsetsOf(S) = SUBSET S
    BY FS_FiniteSubsetsOfFinite
  <2> QED  BY <2>1, <2>2, Zenon
<1>2. Wrong \subseteq SUBSET S /\ Wrong # {}
  OBVIOUS
<1>3. PICK t \in Wrong : \A u \in Wrong : ~(<<u, t>> \in StrictSubsetOrdering(S))
  <2> HIDE DEF Wrong
  <2> QED  BY <1>1, <1>2, Smallest
<1>4. t \in SUBSET S /\ t \notin C
  BY DEF Wrong
<1>5. \A u \in SUBSET t : u # t => u \in C
  <2> SUFFICES ASSUME NEW u \in SUBSET t, u # t, u \notin C PROVE FALSE
    OBVIOUS
  <2>1. u \in Wrong
    BY <1>4 DEF Wrong
  <2>2. <<u, t>> \in StrictSubsetOrdering(S)
    BY <1>4 DEF StrictSubsetOrdering
  <2> QED  BY <1>3, <2>1, <2>2
<1> QED  BY <1>4, <1>5

-----------------------------------------------------------------------------
(* How a sum unfolds.                                                      *)

Some(s) == CHOOSE x \in s : TRUE

LEMMA SomeIn == \A s : s # {} => Some(s) \in s
  BY DEF Some

(* The recursive function that SumFunctionOnSet(f, S) is the value of.       *)
Unfolds(f, S, g) ==
    g = [s \in SUBSET S |-> IF s = {} THEN 0 ELSE f[Some(s)] + g[s \ {Some(s)}]]

LEMMA SumIs ==
    ASSUME NEW f, NEW S
    PROVE  SumFunctionOnSet(f, S) = (CHOOSE g : Unfolds(f, S, g))[S]
  BY DEF SumFunctionOnSet, FoldFunctionOnSet, MapThenFoldSet, Unfolds, Some

LEMMA UnfoldsAt ==
    ASSUME NEW f, NEW S, NEW g, Unfolds(f, S, g), NEW s \in SUBSET S
    PROVE  g[s] = IF s = {} THEN 0 ELSE f[Some(s)] + g[s \ {Some(s)}]
  BY DEF Unfolds

LEMMA UnfoldsOnce ==
    ASSUME NEW f, NEW S, IsFiniteSet(S), NEW g, NEW h, Unfolds(f, S, g), Unfolds(f, S, h)
    PROVE  \A s \in SUBSET S : g[s] = h[s]
<1> DEFINE C == {s \in SUBSET S : g[s] = h[s]}
<1>1. ASSUME NEW t \in SUBSET S, \A u \in SUBSET t : u # t => u \in C
      PROVE  t \in C
  <2>1. CASE t = {}
    BY <2>1, UnfoldsAt
  <2>2. CASE t # {}
    <3>1. t \ {Some(t)} \in C
      BY <1>1, <2>2, SomeIn
    <3>2. g[t \ {Some(t)}] = h[t \ {Some(t)}]
      BY <3>1
    <3> QED  BY <2>2, <3>2, UnfoldsAt
  <2> QED  BY <2>1, <2>2
<1> HIDE DEF C
<1>2. \A t \in SUBSET S : t \in C
  BY <1>1, SubsetInduction
<1> QED  BY <1>2 DEF C

LEMMA SumUnfolds ==
    ASSUME NEW f, NEW S, IsFiniteSet(S)
    PROVE  SumFunctionOnSet(f, S) =
              IF S = {} THEN 0 ELSE f[Some(S)] + SumFunctionOnSet(f, S \ {Some(S)})
<1> DEFINE V(s) == SumFunctionOnSet(f, s)
           Next(s) == IF s = {} THEN 0 ELSE f[Some(s)] + V(s \ {Some(s)})
           C == {s \in SUBSET S : V(s) = Next(s)}
<1>1. ASSUME NEW t \in SUBSET S, \A u \in SUBSET t : u # t => u \in C
      PROVE  t \in C
  <2> DEFINE h == [s \in SUBSET t |-> IF s = t THEN Next(t) ELSE V(s)]
             G == CHOOSE g : Unfolds(f, t, g)
  <2>1. Unfolds(f, t, h)
    <3>1. ASSUME NEW s \in SUBSET t
          PROVE  h[s] = IF s = {} THEN 0 ELSE f[Some(s)] + h[s \ {Some(s)}]
      <4>1. s # t => V(s) = Next(s)
        BY <1>1
      <4>2. h[s] = Next(s)
        BY <4>1
      <4>3. s # {} => h[s \ {Some(s)}] = V(s \ {Some(s)})
        BY SomeIn
      <4> HIDE DEF h, V
      <4> QED  BY <4>2, <4>3
    <3>2. h = [s \in SUBSET t |-> h[s]]
      OBVIOUS
    <3> HIDE DEF h
    <3> QED  BY <3>1, <3>2 DEF Unfolds
  <2>2. Unfolds(f, t, G)
    BY <2>1
  <2>3. IsFiniteSet(t)
    BY FS_Subset
  <2>4. h[t] = G[t]
    <3> HIDE DEF h, G
    <3> QED  BY <2>1, <2>2, <2>3, UnfoldsOnce
  <2>5. V(t) = G[t]
    BY SumIs
  <2>6. h[t] = Next(t)
    OBVIOUS
  <2> HIDE DEF h, G, V, Next
  <2>7. V(t) = Next(t)
    BY <2>4, <2>5, <2>6
  <2> QED  BY <2>7
<1> HIDE DEF C
<1>2. \A t \in SUBSET S : t \in C
  BY <1>1, SubsetInduction
<1>3. S \in C
  BY <1>2
<1> QED  BY <1>3 DEF C

-----------------------------------------------------------------------------
(* Sums of natural numbers.                                                *)

LEMMA SumOfNone == \A f : SumFunctionOnSet(f, {}) = 0
  BY SumUnfolds, FS_EmptySet

LEMMA SumIsNat ==
    ASSUME NEW f, NEW S, IsFiniteSet(S), \A x \in S : f[x] \in Nat
    PROVE  SumFunctionOnSet(f, S) \in Nat
<1> DEFINE C == {s \in SUBSET S : SumFunctionOnSet(f, s) \in Nat}
<1>1. ASSUME NEW t \in SUBSET S, \A u \in SUBSET t : u # t => u \in C
      PROVE  t \in C
  <2>1. IsFiniteSet(t)
    BY FS_Subset
  <2>2. CASE t = {}
    BY <2>2, SumOfNone
  <2>3. CASE t # {}
    <3>1. Some(t) \in t /\ t \ {Some(t)} \in C
      BY <1>1, <2>3, SomeIn
    <3>2. SumFunctionOnSet(f, t \ {Some(t)}) \in Nat /\ f[Some(t)] \in Nat
      BY <3>1
    <3> QED  BY <2>1, <2>3, <3>2, SumUnfolds
  <2> QED  BY <2>2, <2>3
<1> HIDE DEF C
<1>2. \A t \in SUBSET S : t \in C
  BY <1>1, SubsetInduction
<1> QED  BY <1>2 DEF C

(* A sum is one term, whichever, and the sum of the others.                  *)
LEMMA SumRemove ==
    ASSUME NEW f, NEW S, IsFiniteSet(S), \A x \in S : f[x] \in Nat, NEW x \in S
    PROVE  SumFunctionOnSet(f, S) = f[x] + SumFunctionOnSet(f, S \ {x})
<1> DEFINE V(s) == SumFunctionOnSet(f, s)
           C == {s \in SUBSET S : \A y \in s : V(s) = f[y] + V(s \ {y})}
<1>1. ASSUME NEW t \in SUBSET S, \A u \in SUBSET t : u # t => u \in C
      PROVE  t \in C
  <2> SUFFICES ASSUME NEW y \in t PROVE V(t) = f[y] + V(t \ {y})
    OBVIOUS
  <2> DEFINE z == Some(t)
  <2>0. IsFiniteSet(t) /\ \A u \in SUBSET t : IsFiniteSet(u)
    BY FS_Subset
  <2>1. z \in t /\ V(t) = f[z] + V(t \ {z})
    BY <2>0, SumUnfolds, SomeIn
  <2>2. CASE y = z
    BY <2>1, <2>2
  <2>3. CASE y # z
    <3>1. t \ {z} \in C /\ t \ {y} \in C
      BY <1>1, <2>1
    <3>2. V(t \ {z}) = f[y] + V((t \ {z}) \ {y}) /\ V(t \ {y}) = f[z] + V((t \ {y}) \ {z})
      BY <2>1, <2>3, <3>1
    <3>3. (t \ {z}) \ {y} = (t \ {y}) \ {z}
      OBVIOUS
    <3>4. f[y] \in Nat /\ f[z] \in Nat /\ V((t \ {z}) \ {y}) \in Nat
      BY <2>0, <2>1, SumIsNat
    <3>5. V((t \ {z}) \ {y}) = V((t \ {y}) \ {z})
      BY <3>3, Zenon
    <3> HIDE DEF V, z
    <3> QED  BY <2>1, <3>2, <3>4, <3>5
  <2> QED  BY <2>2, <2>3
<1> HIDE DEF C
<1>2. \A t \in SUBSET S : t \in C
  BY <1>1, SubsetInduction
<1> QED  BY <1>2 DEF C

LEMMA SumAdd ==
    ASSUME NEW f, NEW S, IsFiniteSet(S), NEW x, x \notin S, \A y \in S \cup {x} : f[y] \in Nat
    PROVE  SumFunctionOnSet(f, S \cup {x}) = SumFunctionOnSet(f, S) + f[x]
<1>1. IsFiniteSet(S \cup {x}) /\ (S \cup {x}) \ {x} = S
  BY FS_AddElement
<1>2. SumFunctionOnSet(f, S) \in Nat /\ f[x] \in Nat
  BY SumIsNat
<1>3. SumFunctionOnSet(f, S \cup {x}) = f[x] + SumFunctionOnSet(f, (S \cup {x}) \ {x})
  BY <1>1, SumRemove
<1> QED  BY <1>1, <1>2, <1>3

(* Sums over sets that share nothing add up.                                 *)
LEMMA SumUnion ==
    ASSUME NEW f, NEW S, NEW T, IsFiniteSet(S), IsFiniteSet(T), S \cap T = {},
           \A x \in S \cup T : f[x] \in Nat
    PROVE  SumFunctionOnSet(f, S \cup T) = SumFunctionOnSet(f, S) + SumFunctionOnSet(f, T)
<1> DEFINE V(s) == SumFunctionOnSet(f, s)
           C == {t \in SUBSET T : V(S \cup t) = V(S) + V(t)}
<1>0. V(S) \in Nat
  BY SumIsNat
<1>1. ASSUME NEW t \in SUBSET T, \A u \in SUBSET t : u # t => u \in C
      PROVE  t \in C
  <2>1. CASE t = {}
    <3>1. S \cup t = S /\ V(t) = 0
      BY <2>1, SumOfNone
    <3>2. V(S \cup t) = V(S)
      BY <3>1, Zenon
    <3> HIDE DEF V
    <3>3. V(S \cup t) = V(S) + V(t)
      BY <1>0, <3>1, <3>2
    <3> QED  BY <3>3
  <2>2. CASE t # {}
    <3>1. PICK x \in t : x \notin S
      BY <2>2
    <3> DEFINE u == t \ {x}
    <3>2. V(S \cup u) = V(S) + V(u)
      BY <1>1, <3>1
    <3>3. IsFiniteSet(u) /\ IsFiniteSet(S \cup u)
      BY FS_Subset, FS_Union
    <3>4. V(u \cup {x}) = V(u) + f[x]
      BY <3>3, SumAdd
    <3>5. V((S \cup u) \cup {x}) = V(S \cup u) + f[x]
      BY <3>1, <3>3, SumAdd
    <3>6. V(u) \in Nat /\ f[x] \in Nat
      BY <3>3, SumIsNat
    <3>7. (S \cup u) \cup {x} = S \cup t /\ u \cup {x} = t
      BY <3>1
    <3> HIDE DEF V, u
    <3>8. V(S \cup t) = V(S) + V(t)
      BY <1>0, <3>2, <3>4, <3>5, <3>6, <3>7
    <3> QED  BY <3>8
  <2> QED  BY <2>1, <2>2
<1> HIDE DEF C
<1>2. \A t \in SUBSET T : t \in C
  BY <1>1, SubsetInduction
<1> QED  BY <1>2 DEF C

LEMMA SumSubset ==
    ASSUME NEW f, NEW T, IsFiniteSet(T), \A x \in T : f[x] \in Nat, NEW S \in SUBSET T
    PROVE  SumFunctionOnSet(f, S) <= SumFunctionOnSet(f, T)
<1>1. IsFiniteSet(S) /\ IsFiniteSet(T \ S) /\ S \cup (T \ S) = T
  BY FS_Subset
<1>2. SumFunctionOnSet(f, S \cup (T \ S)) = SumFunctionOnSet(f, S) + SumFunctionOnSet(f, T \ S)
  BY <1>1, SumUnion
<1>3. SumFunctionOnSet(f, S) \in Nat /\ SumFunctionOnSet(f, T \ S) \in Nat
  BY <1>1, SumIsNat
<1>4. SumFunctionOnSet(f, S \cup (T \ S)) = SumFunctionOnSet(f, T)
  BY <1>1, Zenon
<1> QED  BY <1>2, <1>3, <1>4

(* Only the terms matter.                                                    *)
LEMMA SumSame ==
    ASSUME NEW f, NEW g, NEW S, IsFiniteSet(S), \A x \in S : f[x] = g[x]
    PROVE  SumFunctionOnSet(f, S) = SumFunctionOnSet(g, S)
<1> DEFINE C == {t \in SUBSET S : SumFunctionOnSet(f, t) = SumFunctionOnSet(g, t)}
<1>1. ASSUME NEW t \in SUBSET S, \A u \in SUBSET t : u # t => u \in C
      PROVE  t \in C
  <2>1. IsFiniteSet(t)
    BY FS_Subset
  <2>2. CASE t = {}
    BY <2>2, SumOfNone
  <2>3. CASE t # {}
    <3>1. Some(t) \in t /\ t \ {Some(t)} \in C
      BY <1>1, <2>3, SomeIn
    <3>2. SumFunctionOnSet(f, t \ {Some(t)}) = SumFunctionOnSet(g, t \ {Some(t)})
          /\ f[Some(t)] = g[Some(t)]
      BY <3>1
    <3> QED  BY <2>1, <2>3, <3>2, SumUnfolds
  <2> QED  BY <2>2, <2>3
<1> HIDE DEF C
<1>2. \A t \in SUBSET S : t \in C
  BY <1>1, SubsetInduction
<1> QED  BY <1>2 DEF C

(* One term changes.                                                         *)
LEMMA SumChange ==
    ASSUME NEW f, NEW g, NEW S, IsFiniteSet(S), NEW x \in S,
           \A y \in S : f[y] \in Nat /\ g[y] \in Nat,
           \A y \in S \ {x} : f[y] = g[y]
    PROVE  SumFunctionOnSet(g, S) = SumFunctionOnSet(f, S) - f[x] + g[x]
<1>1. IsFiniteSet(S \ {x})
  BY FS_RemoveElement
<1>2. SumFunctionOnSet(f, S \ {x}) = SumFunctionOnSet(g, S \ {x})
  BY <1>1, SumSame
<1>3. /\ SumFunctionOnSet(f, S) = f[x] + SumFunctionOnSet(f, S \ {x})
      /\ SumFunctionOnSet(g, S) = g[x] + SumFunctionOnSet(g, S \ {x})
  BY SumRemove
<1>4. SumFunctionOnSet(f, S \ {x}) \in Nat /\ f[x] \in Nat /\ g[x] \in Nat
  BY <1>1, SumIsNat
<1> QED  BY <1>2, <1>3, <1>4

-----------------------------------------------------------------------------
(* Numbers.                                                                *)

(* What holds of 0, and of n + 1 when it holds of n, holds of every number.  *)
LEMMA Counting ==
    ASSUME NEW C, 0 \in C, \A n \in Nat : n \in C => n + 1 \in C
    PROVE  Nat \subseteq C
<1> DEFINE Wrong == Nat \ C
<1> SUFFICES ASSUME Wrong # {} PROVE FALSE
  OBVIOUS
<1>1. PICK n \in Wrong : \A m \in Wrong : ~(<<m, n>> \in OpToRel(<, Nat))
  <2>1. Wrong \subseteq Nat /\ Wrong # {}
    OBVIOUS
  <2> HIDE DEF Wrong
  <2> QED  BY <2>1, NatLessThanWellFounded, Smallest
<1>2. \A m \in Wrong : ~(m < n)
  BY <1>1, Zenon DEF OpToRel
<1>3. n # 0 /\ n - 1 \in Nat /\ n - 1 < n
  OBVIOUS
<1>4. n - 1 \in C
  BY <1>2, <1>3
<1> QED  BY <1>3, <1>4

(* A finite set of numbers has a greatest one.                               *)
LEMMA HasGreatest ==
    ASSUME NEW S, IsFiniteSet(S), S \subseteq Nat, S # {}
    PROVE  \E x \in S : \A y \in S : x >= y
<1> DEFINE C == {t \in SUBSET S : t # {} => \E x \in t : \A y \in t : x >= y}
<1>1. ASSUME NEW t \in SUBSET S, \A u \in SUBSET t : u # t => u \in C
      PROVE  t \in C
  <2> SUFFICES ASSUME t # {} PROVE \E x \in t : \A y \in t : x >= y
    OBVIOUS
  <2>1. PICK z \in t : TRUE
    OBVIOUS
  <2>2. CASE t = {z}
    BY <2>2
  <2>3. CASE t # {z}
    <3>1. t \ {z} \in C /\ t \ {z} # {}
      BY <1>1, <2>1, <2>3
    <3>2. PICK x \in t \ {z} : \A y \in t \ {z} : x >= y
      BY <3>1
    <3>3. x \in Nat /\ z \in Nat
      OBVIOUS
    <3>4. CASE x >= z
      BY <3>2, <3>4
    <3>5. CASE ~(x >= z)
      <4>1. \A y \in t : z >= y
        BY <3>2, <3>3, <3>5
      <4> QED  BY <4>1
    <3> QED  BY <3>4, <3>5
  <2> QED  BY <2>2, <2>3
<1> HIDE DEF C
<1>2. \A t \in SUBSET S : t \in C
  BY <1>1, SubsetInduction
<1> QED  BY <1>2 DEF C

=============================================================================
