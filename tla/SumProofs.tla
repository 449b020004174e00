------------------------------ MODULE SumProofs ------------------------------
(***************************************************************************)
(* Sums and folds over finite sets: what SumFunctionOnSet of the community *)
(* modules computes, and what a fold keeps.  The induction they need is    *)
(* over sets of subsets, which is first-order: the well-founded order of   *)
(* Nat gives a least counterexample.                                       *)
(***************************************************************************)
EXTENDS Integers, FiniteSets, Functions, FiniteSetsExt, FiniteSetTheorems, WellFoundedInduction, TLAPS

----------------------------------------------------------------------------
(* Induction *)

LEMMA LeastNat ==
  ASSUME NEW T, T \subseteq Nat, T # {} PROVE \E n \in T : \A m \in T : n <= m
<1> DEFINE R == OpToRel(<, Nat)
<1>1. IsWellFoundedOn(R, Nat)
  BY NatLessThanWellFounded
<1>2. \A m, n \in Nat : m < n => <<m, n>> \in R
  BY DEF OpToRel
<1> HIDE DEF R
<1>3. PICK n \in T : \A m \in T : <<m, n>> \notin R
  BY <1>1, WFMin
<1>4. \A m \in T : ~(m < n)
  BY <1>2, <1>3
<1>5. \A m \in T : m \in Nat /\ n \in Nat
  OBVIOUS
<1>6. \A m \in T : n <= m
  BY <1>4, <1>5
<1> QED
  BY <1>6

\* A set that has a set whenever it has it without any one of its elements has
\* every finite set.
LEMMA SetInduction ==
  ASSUME NEW S, IsFiniteSet(S), NEW G,
         \A T \in SUBSET S : (\A x \in T : T \ {x} \in G) => T \in G
  PROVE  \A T \in SUBSET S : T \in G
<1> DEFINE Sizes == {n \in Nat : \E T \in SUBSET S : T \notin G /\ Cardinality(T) = n}
<1>1. \A T \in SUBSET S : IsFiniteSet(T) /\ Cardinality(T) \in Nat
  BY FS_Subset, FS_CardinalityType
<1>2. ASSUME Sizes # {} PROVE FALSE
  <2>1. PICK n \in Sizes : \A m \in Sizes : n <= m
    BY <1>2, LeastNat
  <2>2. PICK T \in SUBSET S : T \notin G /\ Cardinality(T) = n
    BY <2>1
  <2>3. PICK x \in T : T \ {x} \notin G
    BY <2>2
  <2>4. Cardinality(T \ {x}) = n - 1 /\ n \in Nat
    BY <1>1, <2>2, <2>3, FS_RemoveElement
  <2>5. n - 1 \in Sizes
    BY <1>1, <2>2, <2>3, <2>4
  <2> QED
    BY <2>1, <2>4, <2>5
<1> QED
  BY <1>1, <1>2

----------------------------------------------------------------------------
(* The sum is what its recursion says *)

Taken(s) == CHOOSE x \in s : TRUE

Adds(g, f, S) ==
  g = [s \in SUBSET S |-> IF s = {} THEN 0 ELSE f[Taken(s)] + g[s \ {Taken(s)}]]

LEMMA TakenFrom == ASSUME NEW s, s # {} PROVE Taken(s) \in s
BY DEF Taken

\* Two functions that add agree where both do.
LEMMA OneAdds ==
  ASSUME NEW S, IsFiniteSet(S), NEW T, NEW f, NEW g, Adds(g, f, S), NEW h, Adds(h, f, T)
  PROVE  \A s \in SUBSET (S \cap T) : h[s] = g[s]
<1> DEFINE G == {s \in SUBSET (S \cap T) : h[s] = g[s]}
<1>1. IsFiniteSet(S \cap T)
  BY FS_Subset
<1>2. ASSUME NEW s \in SUBSET (S \cap T), \A x \in s : s \ {x} \in G PROVE s \in G
  <2>1. CASE s = {}
    BY <2>1 DEF Adds
  <2>2. CASE s # {}
    <3>1. h[s \ {Taken(s)}] = g[s \ {Taken(s)}]
      BY <1>2, <2>2, TakenFrom
    <3>2. h[s] = f[Taken(s)] + h[s \ {Taken(s)}] /\ g[s] = f[Taken(s)] + g[s \ {Taken(s)}]
      BY <2>2 DEF Adds
    <3> QED
      BY <3>1, <3>2
  <2> QED
    BY <2>1, <2>2
<1> HIDE DEF G
<1>3. \A s \in SUBSET (S \cap T) : s \in G
  BY <1>1, <1>2, SetInduction
<1> QED
  BY <1>3 DEF G

\* There is one on every finite set.
LEMMA AddsExists == ASSUME NEW S, IsFiniteSet(S), NEW f PROVE \A T \in SUBSET S : \E g : Adds(g, f, T)
<1> DEFINE G == {T \in SUBSET S : \E g : Adds(g, f, T)}
<1>1. ASSUME NEW T \in SUBSET S, \A x \in T : T \ {x} \in G PROVE T \in G
  <2> DEFINE part == [x \in T |-> CHOOSE h : Adds(h, f, T \ {x})]
             g == [s \in SUBSET T |-> IF s = {} THEN 0
                                      ELSE f[Taken(s)] + part[Taken(s)][s \ {Taken(s)}]]
  <2>1. \A x \in T : Adds(part[x], f, T \ {x})
    BY <1>1
  <2> HIDE DEF part
  <2>2. ASSUME NEW s \in SUBSET T, s # {}
        PROVE  g[s \ {Taken(s)}] = part[Taken(s)][s \ {Taken(s)}]
    <3> DEFINE p == Taken(s)
               u == s \ {p}
               q == Taken(u)
    <3>1. p \in s
      BY <2>2, TakenFrom
    <3>2. Adds(part[p], f, T \ {p}) /\ u \in SUBSET (T \ {p})
      BY <2>1, <3>1
    <3>3. CASE u = {}
      BY <3>2, <3>3 DEF Adds
    <3>4. CASE u # {}
      <4>1. q \in u
        BY <3>4, TakenFrom
      <4>2. Adds(part[q], f, T \ {q}) /\ IsFiniteSet(T \ {q})
        BY <2>1, <4>1, FS_Subset
      <4> HIDE DEF p, q
      <4>3. u \ {q} \in SUBSET ((T \ {q}) \cap (T \ {p}))
        OBVIOUS
      <4>4. part[p][u \ {q}] = part[q][u \ {q}]
        <5> HIDE DEF g, u
        <5>1. IsFiniteSet(T \ {q}) /\ Adds(part[q], f, T \ {q})
          BY <4>2
        <5>2. Adds(part[p], f, T \ {p})
          BY <3>2
        <5>3. ASSUME NEW a, NEW b, NEW A, NEW B, IsFiniteSet(A), Adds(a, f, A), Adds(b, f, B)
              PROVE  \A v \in SUBSET (A \cap B) : b[v] = a[v]
          BY <5>3, OneAdds
        <5>4. \A v \in SUBSET ((T \ {q}) \cap (T \ {p})) : part[p][v] = part[q][v]
          BY <5>1, <5>2, <5>3
        <5> QED
          BY <4>3, <5>4
      <4>5. part[p][u] = f[q] + part[p][u \ {q}]
        BY <3>2, <3>4 DEF Adds, q
      <4>6. g[u] = f[q] + part[q][u \ {q}]
        BY <3>4 DEF q
      <4> QED
        BY <4>3, <4>4, <4>5, <4>6 DEF p
    <3> QED
      BY <3>3, <3>4
  <2>3. Adds(g, f, T)
    BY <2>2 DEF Adds
  <2> QED
    BY <2>3
<1> HIDE DEF G
<1>2. \A T \in SUBSET S : T \in G
  BY <1>1, SetInduction
<1> QED
  BY <1>2 DEF G

----------------------------------------------------------------------------
(* Folds: the same for a function of an element and what came before *)

Folds(g, F, base, S) ==
  g = [s \in SUBSET S |-> IF s = {} THEN base ELSE F[<<Taken(s), g[s \ {Taken(s)}]>>]]

\* Two functions that fold agree where both do.
LEMMA OneFolds ==
  ASSUME NEW S, IsFiniteSet(S), NEW T, NEW F, NEW base, NEW g, Folds(g, F, base, S), NEW h, Folds(h, F, base, T)
  PROVE  \A s \in SUBSET (S \cap T) : h[s] = g[s]
<1> DEFINE G == {s \in SUBSET (S \cap T) : h[s] = g[s]}
<1>1. IsFiniteSet(S \cap T)
  BY FS_Subset
<1>2. ASSUME NEW s \in SUBSET (S \cap T), \A x \in s : s \ {x} \in G PROVE s \in G
  <2>1. CASE s = {}
    BY <2>1 DEF Folds
  <2>2. CASE s # {}
    <3>1. h[s \ {Taken(s)}] = g[s \ {Taken(s)}]
      BY <1>2, <2>2, TakenFrom
    <3>2. h[s] = F[<<Taken(s), h[s \ {Taken(s)}]>>] /\ g[s] = F[<<Taken(s), g[s \ {Taken(s)}]>>]
      BY <2>2 DEF Folds
    <3> QED
      BY <3>1, <3>2
  <2> QED
    BY <2>1, <2>2
<1> HIDE DEF G
<1>3. \A s \in SUBSET (S \cap T) : s \in G
  BY <1>1, <1>2, SetInduction
<1> QED
  BY <1>3 DEF G

\* There is one on every finite set.
LEMMA FoldsExists == ASSUME NEW S, IsFiniteSet(S), NEW F, NEW base PROVE \A T \in SUBSET S : \E g : Folds(g, F, base, T)
<1> DEFINE G == {T \in SUBSET S : \E g : Folds(g, F, base, T)}
<1>1. ASSUME NEW T \in SUBSET S, \A x \in T : T \ {x} \in G PROVE T \in G
  <2> DEFINE part == [x \in T |-> CHOOSE h : Folds(h, F, base, T \ {x})]
             g == [s \in SUBSET T |-> IF s = {} THEN base
                                      ELSE F[<<Taken(s), part[Taken(s)][s \ {Taken(s)}]>>]]
  <2>1. \A x \in T : Folds(part[x], F, base, T \ {x})
    BY <1>1
  <2> HIDE DEF part
  <2>2. ASSUME NEW s \in SUBSET T, s # {}
        PROVE  g[s \ {Taken(s)}] = part[Taken(s)][s \ {Taken(s)}]
    <3> DEFINE p == Taken(s)
               u == s \ {p}
               q == Taken(u)
    <3>1. p \in s
      BY <2>2, TakenFrom
    <3>2. Folds(part[p], F, base, T \ {p}) /\ u \in SUBSET (T \ {p})
      BY <2>1, <3>1
    <3>3. CASE u = {}
      BY <3>2, <3>3 DEF Folds
    <3>4. CASE u # {}
      <4>1. q \in u
        BY <3>4, TakenFrom
      <4>2. Folds(part[q], F, base, T \ {q}) /\ IsFiniteSet(T \ {q})
        BY <2>1, <4>1, FS_Subset
      <4> HIDE DEF p, q
      <4>3. u \ {q} \in SUBSET ((T \ {q}) \cap (T \ {p}))
        OBVIOUS
      <4>4. part[p][u \ {q}] = part[q][u \ {q}]
        <5> HIDE DEF g, u
        <5>1. IsFiniteSet(T \ {q}) /\ Folds(part[q], F, base, T \ {q})
          BY <4>2
        <5>2. Folds(part[p], F, base, T \ {p})
          BY <3>2
        <5>3. ASSUME NEW a, NEW b, NEW A, NEW B, IsFiniteSet(A), Folds(a, F, base, A), Folds(b, F, base, B)
              PROVE  \A v \in SUBSET (A \cap B) : b[v] = a[v]
          BY <5>3, OneFolds
        <5>4. \A v \in SUBSET ((T \ {q}) \cap (T \ {p})) : part[p][v] = part[q][v]
          BY <5>1, <5>2, <5>3
        <5> QED
          BY <4>3, <5>4
      <4>5. part[p][u] = F[<<q, part[p][u \ {q}]>>]
        BY <3>2, <3>4 DEF Folds, q
      <4>6. g[u] = F[<<q, part[q][u \ {q}]>>]
        BY <3>4 DEF q
      <4> QED
        BY <4>3, <4>4, <4>5, <4>6 DEF p
    <3> QED
      BY <3>3, <3>4
  <2>3. Folds(g, F, base, T)
    BY <2>2 DEF Folds
  <2> QED
    BY <2>3
<1> HIDE DEF G
<1>2. \A T \in SUBSET S : T \in G
  BY <1>1, SetInduction
<1> QED
  BY <1>2 DEF G

\* A fold of a function that keeps to a set.
LEMMA FoldsWithin ==
  ASSUME NEW S, IsFiniteSet(S), NEW A, NEW base \in A, NEW F \in [S \X A -> A]
  PROVE  \E g : Folds(g, F, base, S) /\ \A s \in SUBSET S : g[s] \in A
<1>1. PICK g : Folds(g, F, base, S)
  BY FoldsExists
<1> DEFINE G == {s \in SUBSET S : g[s] \in A}
<1>2. ASSUME NEW s \in SUBSET S, \A x \in s : s \ {x} \in G PROVE s \in G
  <2>1. CASE s = {}
    BY <1>1, <2>1 DEF Folds
  <2>2. CASE s # {}
    <3>1. Taken(s) \in s /\ g[s \ {Taken(s)}] \in A
      BY <1>2, <2>2, TakenFrom
    <3>2. g[s] = F[<<Taken(s), g[s \ {Taken(s)}]>>]
      BY <1>1, <2>2 DEF Folds
    <3> QED
      BY <3>1, <3>2
  <2> QED
    BY <2>1, <2>2
<1> HIDE DEF G
<1>3. \A s \in SUBSET S : s \in G
  BY <1>2, SetInduction
<1> QED
  BY <1>1, <1>3 DEF G

----------------------------------------------------------------------------
(* Sums *)

\* The sum over a part of S is the value there of the function that adds on S.
LEMMA SumAdds ==
  ASSUME NEW S, IsFiniteSet(S), NEW f, NEW g, Adds(g, f, S), NEW T \in SUBSET S
  PROVE  SumFunctionOnSet(f, T) = g[T]
<1> DEFINE h == CHOOSE k : k = [s \in SUBSET T |-> IF s = {} THEN 0 ELSE
                                  f[CHOOSE x \in s : TRUE] + k[s \ {CHOOSE x \in s : TRUE}]]
<1>1. SumFunctionOnSet(f, T) = h[T]
  BY Zenon DEF SumFunctionOnSet, FoldFunctionOnSet, MapThenFoldSet
<1>2. h = CHOOSE k : Adds(k, f, T)
  BY Zenon DEF Adds, Taken
<1> HIDE DEF h
<1>3. Adds(h, f, T)
  BY <1>2, AddsExists
<1> QED
  BY <1>1, <1>3, OneAdds

LEMMA SumUnfolds ==
  ASSUME NEW S, IsFiniteSet(S), NEW f
  PROVE  \A T \in SUBSET S : T # {} =>
           SumFunctionOnSet(f, T) = f[Taken(T)] + SumFunctionOnSet(f, T \ {Taken(T)})
<1>1. PICK g : Adds(g, f, S)
  BY AddsExists
<1>2. \A s \in SUBSET S : SumFunctionOnSet(f, s) = g[s]
  BY <1>1, SumAdds
<1>3. ASSUME NEW T \in SUBSET S, T # {} PROVE g[T] = f[Taken(T)] + g[T \ {Taken(T)}]
  BY <1>1, <1>3 DEF Adds
<1> QED
  BY <1>2, <1>3

----------------------------------------------------------------------------
(* What the other proofs cite *)

LEMMA SumOfNothing == ASSUME NEW f PROVE SumFunctionOnSet(f, {}) = 0
<1>1. IsFiniteSet({})
  BY FS_EmptySet
<1>2. PICK g : Adds(g, f, {})
  BY <1>1, AddsExists
<1>3. {} \in SUBSET {} /\ g[{}] = 0
  BY <1>2 DEF Adds
<1>4. \A T \in SUBSET {} : SumFunctionOnSet(f, T) = g[T]
  BY <1>1, <1>2, SumAdds
<1> QED
  BY <1>3, <1>4

LEMMA SumIsInt ==
  ASSUME NEW S, IsFiniteSet(S), NEW f, \A x \in S : f[x] \in Int
  PROVE  \A T \in SUBSET S : SumFunctionOnSet(f, T) \in Int
<1> DEFINE G == {T \in SUBSET S : SumFunctionOnSet(f, T) \in Int}
<1>1. \A T \in SUBSET S : T # {} =>
        SumFunctionOnSet(f, T) = f[Taken(T)] + SumFunctionOnSet(f, T \ {Taken(T)})
  BY SumUnfolds
<1>2. ASSUME NEW T \in SUBSET S, \A x \in T : T \ {x} \in G PROVE T \in G
  <2>1. CASE T = {}
    BY <2>1, SumOfNothing
  <2>2. CASE T # {}
    <3>1. Taken(T) \in T /\ f[Taken(T)] \in Int
      BY <2>2, TakenFrom
    <3>2. SumFunctionOnSet(f, T \ {Taken(T)}) \in Int
      BY <1>2, <3>1
    <3> QED
      BY <1>1, <2>2, <3>1, <3>2
  <2> QED
    BY <2>1, <2>2
<1> HIDE DEF G
<1>3. \A T \in SUBSET S : T \in G
  BY <1>2, SetInduction
<1> QED
  BY <1>3 DEF G

\* Any element may be the one that is taken.
LEMMA SumWithout ==
  ASSUME NEW S, IsFiniteSet(S), NEW f, \A x \in S : f[x] \in Int
  PROVE  \A T \in SUBSET S : \A x \in T :
           SumFunctionOnSet(f, T) = f[x] + SumFunctionOnSet(f, T \ {x})
<1> DEFINE Total(T) == SumFunctionOnSet(f, T)
           G == {T \in SUBSET S : \A x \in T : Total(T) = f[x] + Total(T \ {x})}
<1>1. \A T \in SUBSET S : Total(T) \in Int
  BY SumIsInt
<1>2. \A T \in SUBSET S : T # {} => Total(T) = f[Taken(T)] + Total(T \ {Taken(T)})
  BY SumUnfolds
<1> HIDE DEF Total
<1>3. ASSUME NEW T \in SUBSET S, \A x \in T : T \ {x} \in G PROVE T \in G
  <2>1. ASSUME NEW x \in T PROVE Total(T) = f[x] + Total(T \ {x})
    <3>1. PICK p \in T : p = Taken(T) /\ Total(T) = f[p] + Total(T \ {p})
      BY <1>2, TakenFrom
    <3>2. CASE p = x
      BY <3>1, <3>2
    <3>3. CASE p # x
      <4>1. Total(T \ {p}) = f[x] + Total((T \ {p}) \ {x})
        BY <1>3, <3>3
      <4>2. Total(T \ {x}) = f[p] + Total((T \ {x}) \ {p})
        BY <1>3, <3>3
      <4>3. (T \ {p}) \ {x} = (T \ {x}) \ {p}
        OBVIOUS
      <4>4. f[x] \in Int /\ f[p] \in Int /\ Total((T \ {x}) \ {p}) \in Int
        BY <1>1
      <4>5. Total(T) = f[p] + (f[x] + Total((T \ {x}) \ {p}))
        BY <3>1, <4>1, <4>3
      <4>6. f[p] + (f[x] + Total((T \ {x}) \ {p})) = f[x] + (f[p] + Total((T \ {x}) \ {p}))
        BY <4>4
      <4> QED
        BY <4>2, <4>5, <4>6
    <3> QED
      BY <3>2, <3>3
  <2> QED
    BY <2>1
<1> HIDE DEF G
<1>4. \A T \in SUBSET S : T \in G
  BY <1>3, SetInduction
<1> QED
  BY <1>4 DEF G, Total

LEMMA SumSame ==
  ASSUME NEW S, IsFiniteSet(S), NEW f, NEW g, \A x \in S : f[x] = g[x]
  PROVE  \A T \in SUBSET S : SumFunctionOnSet(f, T) = SumFunctionOnSet(g, T)
<1> DEFINE G == {T \in SUBSET S : SumFunctionOnSet(f, T) = SumFunctionOnSet(g, T)}
<1>1. \A T \in SUBSET S : T # {} =>
        SumFunctionOnSet(f, T) = f[Taken(T)] + SumFunctionOnSet(f, T \ {Taken(T)})
  BY SumUnfolds
<1>2. \A T \in SUBSET S : T # {} =>
        SumFunctionOnSet(g, T) = g[Taken(T)] + SumFunctionOnSet(g, T \ {Taken(T)})
  BY SumUnfolds
<1>3. ASSUME NEW T \in SUBSET S, \A x \in T : T \ {x} \in G PROVE T \in G
  <2>1. CASE T = {}
    BY <2>1, SumOfNothing
  <2>2. CASE T # {}
    BY <1>3, <2>2, TakenFrom, <1>1, <1>2
  <2> QED
    BY <2>1, <2>2
<1> HIDE DEF G
<1>4. \A T \in SUBSET S : T \in G
  BY <1>3, SetInduction
<1> QED
  BY <1>4 DEF G

\* One value changes.
LEMMA SumChanges ==
  ASSUME NEW S, IsFiniteSet(S), NEW x \in S, NEW f, NEW g,
         \A y \in S : f[y] \in Int /\ g[y] \in Int, \A y \in S \ {x} : f[y] = g[y]
  PROVE  SumFunctionOnSet(g, S) = SumFunctionOnSet(f, S) - f[x] + g[x]
<1>1. /\ SumFunctionOnSet(f, S) = f[x] + SumFunctionOnSet(f, S \ {x})
      /\ SumFunctionOnSet(g, S) = g[x] + SumFunctionOnSet(g, S \ {x})
  BY SumWithout
<1>2. IsFiniteSet(S \ {x})
  BY FS_Subset
<1>3. SumFunctionOnSet(f, S \ {x}) = SumFunctionOnSet(g, S \ {x})
  BY <1>2, SumSame
<1>4. SumFunctionOnSet(f, S \ {x}) \in Int
  BY SumIsInt
<1> QED
  BY <1>1, <1>3, <1>4

LEMMA SumMonotone ==
  ASSUME NEW S, IsFiniteSet(S), NEW f, NEW g,
         \A x \in S : f[x] \in Int /\ g[x] \in Int /\ f[x] <= g[x]
  PROVE  \A T \in SUBSET S : SumFunctionOnSet(f, T) <= SumFunctionOnSet(g, T)
<1> DEFINE G == {T \in SUBSET S : SumFunctionOnSet(f, T) <= SumFunctionOnSet(g, T)}
<1>1. \A T \in SUBSET S : T # {} =>
        SumFunctionOnSet(f, T) = f[Taken(T)] + SumFunctionOnSet(f, T \ {Taken(T)})
  BY SumUnfolds
<1>2. \A T \in SUBSET S : T # {} =>
        SumFunctionOnSet(g, T) = g[Taken(T)] + SumFunctionOnSet(g, T \ {Taken(T)})
  BY SumUnfolds
<1>3. ASSUME NEW T \in SUBSET S, \A x \in T : T \ {x} \in G PROVE T \in G
  <2>1. CASE T = {}
    BY <2>1, SumOfNothing
  <2>2. CASE T # {}
    <3>1. PICK p \in T : /\ SumFunctionOnSet(f, T) = f[p] + SumFunctionOnSet(f, T \ {p})
                         /\ SumFunctionOnSet(g, T) = g[p] + SumFunctionOnSet(g, T \ {p})
      BY <2>2, TakenFrom, <1>1, <1>2
    <3>2. SumFunctionOnSet(f, T \ {p}) \in Int /\ SumFunctionOnSet(g, T \ {p}) \in Int
      BY SumIsInt
    <3> QED
      BY <1>3, <3>1, <3>2
  <2> QED
    BY <2>1, <2>2
<1> HIDE DEF G
<1>4. \A T \in SUBSET S : T \in G
  BY <1>3, SetInduction
<1> QED
  BY <1>4 DEF G

AddUpTo(S, f, g, h) == \A x \in S : f[x] \in Int /\ g[x] \in Int /\ h[x] = f[x] + g[x]

LEMMA SumOfSums ==
  ASSUME NEW S, IsFiniteSet(S), NEW f, NEW g, NEW h, AddUpTo(S, f, g, h)
  PROVE  SumFunctionOnSet(h, S) = SumFunctionOnSet(f, S) + SumFunctionOnSet(g, S)
<1> USE DEF AddUpTo
<1> DEFINE G == {T \in SUBSET S :
                   SumFunctionOnSet(h, T) = SumFunctionOnSet(f, T) + SumFunctionOnSet(g, T)}
<1>1. \A T \in SUBSET S : T # {} =>
        SumFunctionOnSet(f, T) = f[Taken(T)] + SumFunctionOnSet(f, T \ {Taken(T)})
  BY SumUnfolds
<1>2. \A T \in SUBSET S : T # {} =>
        SumFunctionOnSet(g, T) = g[Taken(T)] + SumFunctionOnSet(g, T \ {Taken(T)})
  BY SumUnfolds
<1>3. \A T \in SUBSET S : T # {} =>
        SumFunctionOnSet(h, T) = h[Taken(T)] + SumFunctionOnSet(h, T \ {Taken(T)})
  BY SumUnfolds
<1>4. ASSUME NEW T \in SUBSET S, \A x \in T : T \ {x} \in G PROVE T \in G
  <2>1. CASE T = {}
    BY <2>1, SumOfNothing
  <2>2. CASE T # {}
    <3>1. PICK p \in T : /\ SumFunctionOnSet(f, T) = f[p] + SumFunctionOnSet(f, T \ {p})
                         /\ SumFunctionOnSet(g, T) = g[p] + SumFunctionOnSet(g, T \ {p})
                         /\ SumFunctionOnSet(h, T) = h[p] + SumFunctionOnSet(h, T \ {p})
      BY <2>2, TakenFrom, <1>1, <1>2, <1>3
    <3>2. SumFunctionOnSet(f, T \ {p}) \in Int /\ SumFunctionOnSet(g, T \ {p}) \in Int
      BY SumIsInt
    <3> QED
      BY <1>4, <3>1, <3>2
  <2> QED
    BY <2>1, <2>2
<1> HIDE DEF G
<1>5. \A T \in SUBSET S : T \in G
  BY <1>4, SetInduction
<1>6. S \in SUBSET S
  OBVIOUS
<1> QED
  BY <1>5, <1>6 DEF G

\* What is nothing everywhere adds up to nothing.
LEMMA SumOfZeros ==
  ASSUME NEW S, IsFiniteSet(S), NEW f, \A x \in S : f[x] = 0
  PROVE  SumFunctionOnSet(f, S) = 0
<1> DEFINE G == {T \in SUBSET S : SumFunctionOnSet(f, T) = 0}
<1>1. ASSUME NEW T \in SUBSET S, \A x \in T : T \ {x} \in G PROVE T \in G
  <2>1. CASE T = {}
    BY <2>1, SumOfNothing
  <2>2. CASE T # {}
    <3>1. PICK p \in T : SumFunctionOnSet(f, T) = f[p] + SumFunctionOnSet(f, T \ {p})
      <4>1. Taken(T) \in T
        BY <2>2, TakenFrom
      <4>2. SumFunctionOnSet(f, T) = f[Taken(T)] + SumFunctionOnSet(f, T \ {Taken(T)})
        BY <2>2, SumUnfolds
      <4> QED
        BY <4>1, <4>2
    <3> QED
      BY <1>1, <3>1
  <2> QED
    BY <2>1, <2>2
<1> HIDE DEF G
<1>2. \A T \in SUBSET S : T \in G
  BY <1>1, SetInduction
<1> QED
  BY <1>2 DEF G

\* A part of what is never negative adds up to no more than the whole.
LEMMA SumOfPart ==
  ASSUME NEW S, IsFiniteSet(S), NEW f, \A x \in S : f[x] \in Nat, NEW V \in SUBSET S
  PROVE  SumFunctionOnSet(f, V) <= SumFunctionOnSet(f, S)
<1> DEFINE G == {T \in SUBSET S : \A U \in SUBSET T : SumFunctionOnSet(f, U) <= SumFunctionOnSet(f, T)}
<1>1. \A T \in SUBSET S : SumFunctionOnSet(f, T) \in Int
  BY SumIsInt
<1>2. ASSUME NEW T \in SUBSET S, \A x \in T : T \ {x} \in G PROVE T \in G
  <2>1. ASSUME NEW U \in SUBSET T PROVE SumFunctionOnSet(f, U) <= SumFunctionOnSet(f, T)
    <3>1. CASE U = T
      BY <1>1, <3>1
    <3>2. CASE U # T
      <4>1. PICK x \in T : x \notin U
        BY <3>2
      <4>2. SumFunctionOnSet(f, U) <= SumFunctionOnSet(f, T \ {x})
        BY <1>2, <4>1
      <4>3. IsFiniteSet(T)
        BY FS_Subset
      <4>4. SumFunctionOnSet(f, T) = f[x] + SumFunctionOnSet(f, T \ {x})
        BY <4>3, SumWithout
      <4> QED
        BY <1>1, <4>2, <4>4
    <3> QED
      BY <3>1, <3>2
  <2> QED
    BY <2>1
<1> HIDE DEF G
<1>3. \A T \in SUBSET S : T \in G
  BY <1>2, SetInduction
<1> QED
  BY <1>3 DEF G

\* Where it is nothing outside V, V is all there is to add.
LEMMA SumOfSupport ==
  ASSUME NEW S, IsFiniteSet(S), NEW f, \A x \in S : f[x] \in Int, NEW V \in SUBSET S, \A x \in S \ V : f[x] = 0
  PROVE  SumFunctionOnSet(f, V) = SumFunctionOnSet(f, S)
<1> DEFINE G == {T \in SUBSET S : SumFunctionOnSet(f, T \cap V) = SumFunctionOnSet(f, T)}
<1>1. \A T \in SUBSET S : SumFunctionOnSet(f, T) \in Int
  BY SumIsInt
<1>2. ASSUME NEW T \in SUBSET S, NEW x \in T
      PROVE  SumFunctionOnSet(f, T) = f[x] + SumFunctionOnSet(f, T \ {x})
  <2>1. IsFiniteSet(T) /\ \A y \in T : f[y] \in Int
    BY FS_Subset
  <2> QED
    BY <2>1, SumWithout
<1>3. ASSUME NEW T \in SUBSET S, \A x \in T : T \ {x} \in G PROVE T \in G
  <2>1. CASE T \subseteq V
    <3>1. T \cap V = T
      BY <2>1
    <3> QED
      BY <3>1
  <2>2. CASE ~(T \subseteq V)
    <3>1. PICK x \in T : x \notin V
      BY <2>2
    <3>2. SumFunctionOnSet(f, (T \ {x}) \cap V) = SumFunctionOnSet(f, T \ {x})
      BY <1>3, <3>1
    <3>3. (T \ {x}) \cap V = T \cap V
      BY <3>1
    <3>4. SumFunctionOnSet(f, T) = f[x] + SumFunctionOnSet(f, T \ {x}) /\ f[x] = 0
      BY <1>2, <3>1
    <3>5. SumFunctionOnSet(f, T) = SumFunctionOnSet(f, T \ {x})
      BY <1>1, <3>4
    <3>6. SumFunctionOnSet(f, T \cap V) = SumFunctionOnSet(f, T)
      BY <3>2, <3>3, <3>5
    <3> QED
      BY <3>6
  <2> QED
    BY <2>1, <2>2
<1> HIDE DEF G
<1>4. \A T \in SUBSET S : T \in G
  BY <1>3, SetInduction
<1>5. S \cap V = V /\ S \in SUBSET S
  OBVIOUS
<1> QED
  BY <1>4, <1>5 DEF G

LEMMA SumIsNat ==
  ASSUME NEW S, IsFiniteSet(S), NEW f, \A x \in S : f[x] \in Nat
  PROVE  SumFunctionOnSet(f, S) \in Nat
<1>1. \A x \in S : f[x] \in Int
  OBVIOUS
<1>2. SumFunctionOnSet(f, S) \in Int
  BY <1>1, SumIsInt
<1>3. {} \in SUBSET S /\ SumFunctionOnSet(f, {}) = 0
  BY SumOfNothing
<1>4. SumFunctionOnSet(f, {}) <= SumFunctionOnSet(f, S)
  BY <1>3, SumOfPart
<1> QED
  BY <1>2, <1>3, <1>4

SizesAddUp(part, f, S) ==
  \A T \in SUBSET S : /\ IsFiniteSet(UNION {part[x] : x \in T})
                      /\ Cardinality(UNION {part[x] : x \in T}) = SumFunctionOnSet(f, T)

\* Disjoint finite sets have together as many elements as they add up to.
LEMMA SizesAdd ==
  ASSUME NEW S, IsFiniteSet(S), NEW part, NEW f, \A x \in S : IsFiniteSet(part[x]) /\ f[x] = Cardinality(part[x]),
         \A x, y \in S : x # y => part[x] \cap part[y] = {}
  PROVE  SizesAddUp(part, f, S)
<1> DEFINE Of(T) == UNION {part[x] : x \in T}
           G == {T \in SUBSET S : IsFiniteSet(Of(T)) /\ Cardinality(Of(T)) = SumFunctionOnSet(f, T)}
<1>1. \A x \in S : f[x] = Cardinality(part[x]) /\ f[x] \in Int
  BY FS_CardinalityType
<1>2. \A T \in SUBSET S : T # {} => SumFunctionOnSet(f, T) = f[Taken(T)] + SumFunctionOnSet(f, T \ {Taken(T)})
  BY SumUnfolds
<1>3. ASSUME NEW T \in SUBSET S, \A x \in T : T \ {x} \in G PROVE T \in G
  <2>1. CASE T = {}
    <3>1. Of(T) = {}
      BY <2>1
    <3> QED
      BY <2>1, <3>1, SumOfNothing, FS_EmptySet
  <2>2. CASE T # {}
    <3>1. PICK p \in T : SumFunctionOnSet(f, T) = f[p] + SumFunctionOnSet(f, T \ {p})
      BY <1>2, <2>2, TakenFrom
    <3> DEFINE rest == Of(T \ {p})
    <3>2. IsFiniteSet(rest) /\ Cardinality(rest) = SumFunctionOnSet(f, T \ {p})
      BY <1>3
    <3>3. Of(T) = part[p] \cup rest /\ part[p] \cap rest = {}
      OBVIOUS
    <3> HIDE DEF rest, Of
    <3>4. IsFiniteSet(part[p] \cup rest) /\ Cardinality(part[p] \cup rest) = Cardinality(part[p]) + Cardinality(rest)
      <4>1. IsFiniteSet(part[p]) /\ Cardinality(part[p]) \in Nat /\ Cardinality(rest) \in Nat
        BY <3>2, FS_CardinalityType
      <4>2. Cardinality(part[p] \cap rest) = 0
        BY <3>3, FS_EmptySet
      <4>3. IsFiniteSet(part[p] \cup rest)
            /\ Cardinality(part[p] \cup rest) = Cardinality(part[p]) + Cardinality(rest) - Cardinality(part[p] \cap rest)
        BY <3>2, <4>1, FS_Union
      <4> QED
        BY <4>1, <4>2, <4>3
    <3> QED
      BY <1>1, <3>1, <3>2, <3>3, <3>4
  <2> QED
    BY <2>1, <2>2
<1> HIDE DEF G
<1>4. \A T \in SUBSET S : T \in G
  BY <1>3, SetInduction
<1> QED
  BY <1>4 DEF G, SizesAddUp

----------------------------------------------------------------------------
(* Numbers *)

LEMMA LesserOfTwo == ASSUME NEW x \in Int, NEW y \in Int PROVE Min({x, y}) = IF x <= y THEN x ELSE y
<1>1. \E z \in {x, y} : \A w \in {x, y} : z <= w
  OBVIOUS
<1>2. Min({x, y}) \in {x, y} /\ \A w \in {x, y} : Min({x, y}) <= w
  BY <1>1 DEF Min
<1> QED
  BY <1>2

LEMMA GreaterOfTwo == ASSUME NEW x \in Int, NEW y \in Int PROVE Max({x, y}) = IF x >= y THEN x ELSE y
<1>1. \E z \in {x, y} : \A w \in {x, y} : z >= w
  OBVIOUS
<1>2. Max({x, y}) \in {x, y} /\ \A w \in {x, y} : Max({x, y}) >= w
  BY <1>1 DEF Max
<1> QED
  BY <1>2

LEMMA GreatestOfMany ==
  ASSUME NEW S, IsFiniteSet(S), S \subseteq Int, S # {}
  PROVE  Max(S) \in S /\ \A y \in S : Max(S) >= y
<1> DEFINE G == {T \in SUBSET S : T = {} \/ \E x \in T : \A y \in T : x >= y}
<1>1. ASSUME NEW T \in SUBSET S, \A x \in T : T \ {x} \in G PROVE T \in G
  <2>1. CASE T = {}
    BY <2>1
  <2>2. CASE T # {}
    <3>1. PICK x \in T : TRUE
      BY <2>2
    <3>2. T \ {x} = {} \/ \E z \in T \ {x} : \A y \in T \ {x} : z >= y
      BY <1>1, <3>1
    <3>3. \A y \in T : y \in Int
      OBVIOUS
    <3>4. CASE T \ {x} = {}
      BY <3>1, <3>3, <3>4
    <3>5. CASE \E z \in T \ {x} : \A y \in T \ {x} : z >= y
      <4>1. PICK z \in T \ {x} : \A y \in T \ {x} : z >= y
        BY <3>5
      <4>2. CASE z >= x
        BY <3>3, <4>1, <4>2
      <4>3. CASE ~(z >= x)
        <5>1. \A y \in T : x >= y
          BY <3>1, <3>3, <4>1, <4>3
        <5> QED
          BY <3>1, <5>1
      <4> QED
        BY <4>2, <4>3
    <3> QED
      BY <3>2, <3>4, <3>5
  <2> QED
    BY <2>1, <2>2
<1> HIDE DEF G
<1>2. \A T \in SUBSET S : T \in G
  BY <1>1, SetInduction
<1>3. S \in SUBSET S
  OBVIOUS
<1>4. \E x \in S : \A y \in S : x >= y
  BY <1>2, <1>3 DEF G
<1> QED
  BY <1>4 DEF Max

\* What \div and % say of each other.
LEMMA DivMod ==
  ASSUME NEW n \in Int, NEW l \in Nat \ {0}
  PROVE  n \div l \in Int /\ n % l \in Int /\ 0 <= n % l /\ n % l < l /\ n = (n \div l) * l + (n % l)
OBVIOUS

\* A quotient and a remainder in range are the ones.
LEMMA DivUnique ==
  ASSUME NEW l \in Nat \ {0}, NEW q \in Int, NEW r \in Int, 0 <= r, r < l
  PROVE  (q * l + r) \div l = q /\ (q * l + r) % l = r
OBVIOUS

\* A longer time has no fewer whole units.
LEMMA DivMonotone ==
  ASSUME NEW m \in Int, NEW n \in Int, m <= n, NEW l \in Nat \ {0}
  PROVE  m \div l <= n \div l
OBVIOUS

\* How far apart two multiples are, in units.
LEMMA DivOfMultiples ==
  ASSUME NEW i \in Int, NEW j \in Int, NEW l \in Nat \ {0}
  PROVE  (i * l - j * l) \div l = i - j
OBVIOUS

\* Two different multiples are at least a unit apart.
LEMMA MultiplesApart ==
  ASSUME NEW i \in Int, NEW j \in Int, i < j, NEW l \in Nat \ {0}
  PROVE  i * l + l <= j * l
OBVIOUS
=============================================================================
