----------------------------- MODULE Sums_proofs -----------------------------
(***************************************************************************)
(* Facts about SumFunctionOnSet, the sum of a function over a finite set.  *)
(*                                                                         *)
(* The sum folds the set in the order CHOOSE gives; that any order gives   *)
(* the same sum is SumRemove, from which the rest follows.  Every lemma is *)
(* proved on a least counterexample among the subsets (LeastSubset).       *)
(***************************************************************************)
EXTENDS Integers, FiniteSets, Functions, TLAPS, FiniteSetTheorems, WellFoundedInduction

\* The element a fold takes first.
FirstOf(s) == CHOOSE x \in s : TRUE

\* The fold's recursion.
Solves(g, f, S) ==
    g = [s \in SUBSET S |-> IF s = {} THEN 0 ELSE f[FirstOf(s)] + g[s \ {FirstOf(s)}]]

\* A function that sums every subset of S the way the fold does.
Folds(g, f, S) ==
    \A s \in SUBSET S :
        g[s] = IF s = {} THEN 0 ELSE f[FirstOf(s)] + g[s \ {FirstOf(s)}]

\* Induction over the subsets of a finite set: among bad subsets, one is least.
LEMMA LeastSubset ==
    ASSUME NEW S, IsFiniteSet(S), NEW Bad \in SUBSET SUBSET S, Bad # {}
    PROVE  \E s \in Bad : \A t \in Bad : ~(Cardinality(t) < Cardinality(s))
  <1> DEFINE N == {Cardinality(s) : s \in Bad}
  <1>1. \A s \in Bad : Cardinality(s) \in Nat
    BY FS_Subset, FS_CardinalityType
  <1>2. N \subseteq Nat /\ N # {}
    BY <1>1
  <1> HIDE DEF N
  <1>3. PICK n \in N : \A m \in N : ~(<<m, n>> \in OpToRel(<, Nat))
    BY <1>2, NatLessThanWellFounded, WFMin, Zenon
  <1>4. PICK s \in Bad : n = Cardinality(s)
    BY DEF N
  <1>5. \A t \in Bad : ~(Cardinality(t) < Cardinality(s))
    <2> SUFFICES ASSUME NEW t \in Bad, Cardinality(t) < Cardinality(s) PROVE FALSE
      OBVIOUS
    <2>1. <<Cardinality(t), n>> \in OpToRel(<, Nat)
      BY <1>1, <1>4 DEF OpToRel
    <2> QED BY <1>3, <2>1 DEF N
  <1> QED BY <1>5

LEMMA FirstIn == ASSUME NEW s, s # {} PROVE FirstOf(s) \in s
  BY DEF FirstOf

LEMMA RemoveOne ==
    ASSUME NEW S, IsFiniteSet(S), NEW s \in SUBSET S, NEW x \in s
    PROVE  /\ s \ {x} \in SUBSET S
           /\ IsFiniteSet(s) /\ Cardinality(s) \in Nat
           /\ IsFiniteSet(s \ {x}) /\ Cardinality(s \ {x}) = Cardinality(s) - 1
           /\ Cardinality(s \ {x}) < Cardinality(s)
  <1>1. IsFiniteSet(s)
    BY FS_Subset
  <1>2. IsFiniteSet(s \ {x}) /\ Cardinality(s \ {x}) = Cardinality(s) - 1
    BY <1>1, FS_RemoveElement
  <1>3. Cardinality(s) \in Nat
    BY <1>1, FS_CardinalityType
  <1> QED BY <1>1, <1>2, <1>3

\* The fold's recursion has a solution.
LEMMA FoldExists ==
    ASSUME NEW f, NEW S, IsFiniteSet(S)
    PROVE  \E g : Solves(g, f, S)
  <1> DEFINE B(n) == {s \in SUBSET S : Cardinality(s) <= n}
             Ok(n) == \E g : g = [s \in B(n) |->
                        IF s = {} THEN 0 ELSE f[FirstOf(s)] + g[s \ {FirstOf(s)}]]
             Bad == {n \in Nat : ~Ok(n)}
  <1>0. \A s \in SUBSET S : IsFiniteSet(s) /\ Cardinality(s) \in Nat
    BY FS_Subset, FS_CardinalityType
  <1>1. Ok(0)
    <2>1. B(0) = {{}}
      <3>1. \A s \in SUBSET S : Cardinality(s) <= 0 => s = {}
        BY <1>0, FS_EmptySet
      <3>2. Cardinality({}) = 0
        BY FS_EmptySet
      <3> QED BY <3>1, <3>2
    <2> DEFINE g == [s \in {{}} |-> 0]
    <2>2. g = [s \in {{}} |-> IF s = {} THEN 0 ELSE f[FirstOf(s)] + g[s \ {FirstOf(s)}]]
      OBVIOUS
    <2> QED BY <2>1, <2>2
  <1>2. ASSUME NEW n \in Nat, Ok(n) PROVE Ok(n + 1)
    <2>1. PICK g : g = [s \in B(n) |->
                        IF s = {} THEN 0 ELSE f[FirstOf(s)] + g[s \ {FirstOf(s)}]]
      BY <1>2
    <2> DEFINE h == [s \in B(n + 1) |->
                        IF s = {} THEN 0 ELSE f[FirstOf(s)] + g[s \ {FirstOf(s)}]]
    <2>2. B(n) \subseteq B(n + 1)
      BY <1>0
    <2>3. \A s \in B(n) : h[s] = g[s]
      BY <2>1, <2>2
    <2>4. \A s \in B(n + 1) : s # {} => s \ {FirstOf(s)} \in B(n)
      <3> SUFFICES ASSUME NEW s \in SUBSET S, Cardinality(s) <= n + 1, s # {}
                   PROVE  s \ {FirstOf(s)} \in SUBSET S /\ Cardinality(s \ {FirstOf(s)}) <= n
        OBVIOUS
      <3> QED BY <1>0, FirstIn, RemoveOne
    <2> HIDE DEF B
    <2>5. h = [s \in B(n + 1) |->
                        IF s = {} THEN 0 ELSE f[FirstOf(s)] + h[s \ {FirstOf(s)}]]
      BY <2>3, <2>4
    <2> QED BY <2>5
  <1>3. \A n \in Nat : Ok(n)
    <2> HIDE DEF Ok
    <2> SUFFICES ASSUME Bad # {} PROVE FALSE
      OBVIOUS
    <2>0. Bad \subseteq Nat
      OBVIOUS
    <2> HIDE DEF Bad
    <2>1. PICK n \in Bad : \A m \in Bad : ~(<<m, n>> \in OpToRel(<, Nat))
      BY <2>0, NatLessThanWellFounded, WFMin, Zenon
    <2>a. n \in Nat /\ ~Ok(n)
      BY <2>0, <2>1 DEF Bad
    <2>b. n # 0
      BY <1>1, <2>a
    <2>2. n # 0 /\ n - 1 \in Nat /\ n \in Nat
      BY <2>a, <2>b
    <2>3. <<n - 1, n>> \in OpToRel(<, Nat)
      BY <2>2 DEF OpToRel
    <2>4. Ok(n - 1)
      BY <2>1, <2>2, <2>3 DEF Bad
    <2>5. Ok((n - 1) + 1) /\ (n - 1) + 1 = n
      BY <1>2, <2>2, <2>4
    <2> QED BY <2>a, <2>5
  <1>4. B(Cardinality(S)) = SUBSET S
    BY <1>0, FS_Subset
  <1>5. Ok(Cardinality(S))
    BY <1>0, <1>3
  <1> QED BY <1>4, <1>5 DEF Solves

\* What the sum is: the value at S of a function that sums every subset.
LEMMA SumFolds ==
    ASSUME NEW f, NEW S, IsFiniteSet(S)
    PROVE  \E g : Folds(g, f, S) /\ SumFunctionOnSet(f, S) = g[S]
  <1> DEFINE g == CHOOSE h : Solves(h, f, S)
  <1>1. Solves(g, f, S)
    BY FoldExists
  <1>2. SumFunctionOnSet(f, S) = g[S]
    BY DEF SumFunctionOnSet, FoldFunctionOnSet, MapThenFoldSet, FirstOf, Solves
  <1> HIDE DEF g
  <1>3. Folds(g, f, S)
    BY <1>1 DEF Folds, Solves
  <1> QED BY <1>2, <1>3

\* Two functions that sum the subsets, of two sets, of functions that agree, agree.
LEMMA FoldsAgree ==
    ASSUME NEW f, NEW g, NEW S, IsFiniteSet(S), NEW T \in SUBSET S,
           \A x \in T : f[x] = g[x],
           NEW p, Folds(p, f, S), NEW q, Folds(q, g, T)
    PROVE  \A s \in SUBSET T : p[s] = q[s]
  <1> DEFINE Bad == {s \in SUBSET T : p[s] # q[s]}
  <1> SUFFICES ASSUME Bad # {} PROVE FALSE
    OBVIOUS
  <1>1. IsFiniteSet(T)
    BY FS_Subset
  <1>2. PICK s \in Bad : \A t \in Bad : ~(Cardinality(t) < Cardinality(s))
    BY <1>1, LeastSubset
  <1>3. s # {}
    BY DEF Folds
  <1> DEFINE x == FirstOf(s)
  <1>4. x \in s /\ s \in SUBSET T
    BY <1>3, FirstIn
  <1> HIDE DEF x
  <1>5. s \ {x} \in SUBSET T /\ Cardinality(s \ {x}) < Cardinality(s)
    BY <1>1, <1>4, RemoveOne
  <1>6. p[s \ {x}] = q[s \ {x}]
    BY <1>2, <1>5
  <1>7. p[s] = f[x] + p[s \ {x}] /\ q[s] = g[x] + q[s \ {x}]
    BY <1>3, <1>4 DEF Folds, x
  <1> QED BY <1>4, <1>6, <1>7

\* The sum of nothing.
LEMMA SumEmpty == ASSUME NEW f PROVE SumFunctionOnSet(f, {}) = 0
  <1>1. IsFiniteSet({})
    BY FS_EmptySet
  <1>2. PICK g : Folds(g, f, {}) /\ SumFunctionOnSet(f, {}) = g[{}]
    BY <1>1, SumFolds
  <1> QED BY <1>2 DEF Folds

\* Equal terms, equal sums.
LEMMA SumEqual ==
    ASSUME NEW f, NEW g, NEW S, IsFiniteSet(S), \A x \in S : f[x] = g[x]
    PROVE  SumFunctionOnSet(f, S) = SumFunctionOnSet(g, S)
  <1>1. PICK p : Folds(p, f, S) /\ SumFunctionOnSet(f, S) = p[S]
    BY SumFolds
  <1>2. PICK q : Folds(q, g, S) /\ SumFunctionOnSet(g, S) = q[S]
    BY SumFolds
  <1> QED BY <1>1, <1>2, FoldsAgree

\* The fold takes its first element off.
LEMMA SumFirst ==
    ASSUME NEW f, NEW S, IsFiniteSet(S), S # {}
    PROVE  SumFunctionOnSet(f, S) = f[FirstOf(S)] + SumFunctionOnSet(f, S \ {FirstOf(S)})
  <1> DEFINE T == S \ {FirstOf(S)}
  <1>1. PICK p : Folds(p, f, S) /\ SumFunctionOnSet(f, S) = p[S]
    BY SumFolds
  <1>2. IsFiniteSet(T) /\ T \in SUBSET S
    BY FS_Subset
  <1> HIDE DEF T
  <1>3. PICK q : Folds(q, f, T) /\ SumFunctionOnSet(f, T) = q[T]
    BY <1>2, SumFolds
  <1>4. p[T] = q[T]
    BY <1>1, <1>2, <1>3, FoldsAgree
  <1>5. p[S] = f[FirstOf(S)] + p[T]
    BY <1>1 DEF Folds, T
  <1> QED BY <1>1, <1>3, <1>4, <1>5 DEF T

\* A sum of integers is an integer.
LEMMA SumInt ==
    ASSUME NEW f, NEW S, IsFiniteSet(S), \A x \in S : f[x] \in Int
    PROVE  SumFunctionOnSet(f, S) \in Int
  <1> DEFINE Bad == {s \in SUBSET S : SumFunctionOnSet(f, s) \notin Int}
  <1> SUFFICES ASSUME Bad # {} PROVE FALSE
    OBVIOUS
  <1>1. PICK s \in Bad : \A t \in Bad : ~(Cardinality(t) < Cardinality(s))
    BY LeastSubset
  <1>2. s # {}
    BY SumEmpty
  <1> DEFINE x == FirstOf(s)
  <1>3. x \in s /\ s \in SUBSET S /\ IsFiniteSet(s)
    BY <1>2, FirstIn, FS_Subset
  <1>4. SumFunctionOnSet(f, s) = f[x] + SumFunctionOnSet(f, s \ {x})
    BY <1>2, <1>3, SumFirst
  <1> HIDE DEF x
  <1>5. s \ {x} \in SUBSET S /\ Cardinality(s \ {x}) < Cardinality(s)
    BY <1>3, RemoveOne
  <1>6. SumFunctionOnSet(f, s \ {x}) \in Int
    BY <1>1, <1>5
  <1> QED BY <1>3, <1>4, <1>6

\* Any element can be taken off, not only the one the fold takes first.
LEMMA SumRemove ==
    ASSUME NEW f, NEW S, IsFiniteSet(S), \A y \in S : f[y] \in Int, NEW x \in S
    PROVE  SumFunctionOnSet(f, S) = f[x] + SumFunctionOnSet(f, S \ {x})
  <1> DEFINE Bad == {s \in SUBSET S : \E z \in s :
                        SumFunctionOnSet(f, s) # f[z] + SumFunctionOnSet(f, s \ {z})}
  <1> SUFFICES ASSUME Bad # {} PROVE FALSE
    OBVIOUS
  <1>1. PICK s \in Bad : \A t \in Bad : ~(Cardinality(t) < Cardinality(s))
    BY LeastSubset
  <1>2. PICK z \in s : SumFunctionOnSet(f, s) # f[z] + SumFunctionOnSet(f, s \ {z})
    OBVIOUS
  <1> DEFINE y == FirstOf(s)
  <1>3. s \in SUBSET S /\ z \in s /\ y \in s /\ IsFiniteSet(s)
    BY FirstIn, FS_Subset
  <1>4. SumFunctionOnSet(f, s) = f[y] + SumFunctionOnSet(f, s \ {y})
    BY <1>3, SumFirst
  <1> HIDE DEF y
  <1>5. z # y
    BY <1>2, <1>4
  <1> DEFINE sz == s \ {z}  sy == s \ {y}  both == s \ {y, z}
  <1>6. /\ sz \in SUBSET S /\ sy \in SUBSET S /\ both \in SUBSET S
        /\ z \in sy /\ y \in sz /\ sz \ {y} = both /\ sy \ {z} = both
        /\ Cardinality(sy) < Cardinality(s) /\ Cardinality(sz) < Cardinality(s)
    BY <1>3, <1>5, RemoveOne
  <1>7. /\ SumFunctionOnSet(f, sy) = f[z] + SumFunctionOnSet(f, both)
        /\ SumFunctionOnSet(f, sz) = f[y] + SumFunctionOnSet(f, both)
    BY <1>1, <1>6
  <1>8. SumFunctionOnSet(f, both) \in Int /\ f[z] \in Int /\ f[y] \in Int
    BY <1>3, <1>6, SumInt, FS_Subset
  <1> QED BY <1>2, <1>4, <1>7, <1>8

\* The sum changes by what its terms at one element change.
LEMMA SumChange ==
    ASSUME NEW f, NEW g, NEW S, IsFiniteSet(S), NEW x \in S,
           \A y \in S : f[y] \in Int /\ g[y] \in Int,
           \A y \in S \ {x} : g[y] = f[y]
    PROVE  SumFunctionOnSet(g, S) = SumFunctionOnSet(f, S) + (g[x] - f[x])
  <1>1. /\ SumFunctionOnSet(f, S) = f[x] + SumFunctionOnSet(f, S \ {x})
        /\ SumFunctionOnSet(g, S) = g[x] + SumFunctionOnSet(g, S \ {x})
    BY SumRemove
  <1>2. IsFiniteSet(S \ {x})
    BY FS_Subset
  <1>3. SumFunctionOnSet(g, S \ {x}) = SumFunctionOnSet(f, S \ {x})
    BY <1>2, SumEqual
  <1>4. SumFunctionOnSet(f, S \ {x}) \in Int
    BY <1>2, SumInt
  <1> QED BY <1>1, <1>3, <1>4

\* The same for two elements.
LEMMA SumChangeTwo ==
    ASSUME NEW f, NEW g, NEW S, IsFiniteSet(S), NEW x \in S, NEW z \in S, x # z,
           \A y \in S : f[y] \in Int /\ g[y] \in Int,
           \A y \in S \ {x, z} : g[y] = f[y]
    PROVE  SumFunctionOnSet(g, S) = SumFunctionOnSet(f, S) + (g[x] - f[x]) + (g[z] - f[z])
  <1> DEFINE h == [y \in S |-> IF y = x THEN g[x] ELSE f[y]]
  <1>1. SumFunctionOnSet(h, S) = SumFunctionOnSet(f, S) + (g[x] - f[x])
    <2>1. (\A y \in S : h[y] \in Int) /\ h[x] = g[x] /\ \A y \in S \ {x} : h[y] = f[y]
      OBVIOUS
    <2> HIDE DEF h
    <2> QED BY <2>1, SumChange
  <1>2. SumFunctionOnSet(g, S) = SumFunctionOnSet(h, S) + (g[z] - f[z])
    <2>1. (\A y \in S : h[y] \in Int) /\ h[z] = f[z] /\ \A y \in S \ {z} : g[y] = h[y]
      OBVIOUS
    <2> HIDE DEF h
    <2> QED BY <2>1, SumChange
  <1>3. SumFunctionOnSet(f, S) \in Int
    BY SumInt
  <1> HIDE DEF h
  <1> QED BY <1>1, <1>2, <1>3

\* Sums add up term by term.
LEMMA SumPlus ==
    ASSUME NEW f, NEW g, NEW h, NEW S, IsFiniteSet(S),
           \A y \in S : f[y] \in Int /\ g[y] \in Int /\ h[y] = f[y] + g[y]
    PROVE  SumFunctionOnSet(h, S) = SumFunctionOnSet(f, S) + SumFunctionOnSet(g, S)
  <1> DEFINE Bad == {s \in SUBSET S :
                        SumFunctionOnSet(h, s) # SumFunctionOnSet(f, s) + SumFunctionOnSet(g, s)}
  <1> SUFFICES ASSUME Bad # {} PROVE FALSE
    OBVIOUS
  <1>1. PICK s \in Bad : \A t \in Bad : ~(Cardinality(t) < Cardinality(s))
    BY LeastSubset
  <1>2. s # {}
    <2> SUFFICES ASSUME s = {} PROVE FALSE
      OBVIOUS
    <2>1. SumFunctionOnSet(f, s) = 0 /\ SumFunctionOnSet(g, s) = 0 /\ SumFunctionOnSet(h, s) = 0
      BY SumEmpty
    <2> QED BY <1>1, <2>1
  <1>3. PICK x \in s : TRUE
    BY <1>2
  <1> DEFINE t == s \ {x}
  <1>4. /\ s \in SUBSET S /\ IsFiniteSet(s)
        /\ t \in SUBSET S /\ IsFiniteSet(t) /\ Cardinality(t) < Cardinality(s)
    BY RemoveOne
  <1>5. /\ SumFunctionOnSet(f, s) = f[x] + SumFunctionOnSet(f, t)
        /\ SumFunctionOnSet(g, s) = g[x] + SumFunctionOnSet(g, t)
        /\ SumFunctionOnSet(h, s) = h[x] + SumFunctionOnSet(h, t)
    <2>1. \A y \in s : f[y] \in Int /\ g[y] \in Int /\ h[y] \in Int
      BY <1>4
    <2> QED BY <1>4, <2>1, SumRemove
  <1> HIDE DEF t
  <1>6. SumFunctionOnSet(h, t) = SumFunctionOnSet(f, t) + SumFunctionOnSet(g, t)
    BY <1>1, <1>4
  <1>7. SumFunctionOnSet(f, t) \in Int /\ SumFunctionOnSet(g, t) \in Int
    BY <1>4, SumInt
  <1> QED BY <1>4, <1>5, <1>6, <1>7

\* A sum of naturals is a natural, and no term is larger than the sum.
LEMMA SumNat ==
    ASSUME NEW f, NEW S, IsFiniteSet(S), \A y \in S : f[y] \in Nat
    PROVE  SumFunctionOnSet(f, S) \in Nat /\ \A x \in S : f[x] <= SumFunctionOnSet(f, S)
  <1> DEFINE Bad == {s \in SUBSET S : SumFunctionOnSet(f, s) \notin Nat}
  <1>1. Bad = {}
    <2> SUFFICES ASSUME Bad # {} PROVE FALSE
      OBVIOUS
    <2>1. PICK s \in Bad : \A t \in Bad : ~(Cardinality(t) < Cardinality(s))
      BY LeastSubset
    <2>2. s # {}
      BY SumEmpty
    <2>3. PICK x \in s : TRUE
      BY <2>2
    <2>4. s \in SUBSET S /\ IsFiniteSet(s) /\ s \ {x} \in SUBSET S
          /\ Cardinality(s \ {x}) < Cardinality(s)
      BY RemoveOne
    <2>5. SumFunctionOnSet(f, s) = f[x] + SumFunctionOnSet(f, s \ {x})
      BY <2>4, SumRemove
    <2>6. SumFunctionOnSet(f, s \ {x}) \in Nat
      BY <2>1, <2>4
    <2> QED BY <2>4, <2>5, <2>6
  <1>2. ASSUME NEW x \in S PROVE f[x] <= SumFunctionOnSet(f, S)
    <2>1. SumFunctionOnSet(f, S) = f[x] + SumFunctionOnSet(f, S \ {x})
      BY SumRemove
    <2>2. SumFunctionOnSet(f, S \ {x}) \in Nat
      BY <1>1
    <2> QED BY <2>1, <2>2
  <1> QED BY <1>1, <1>2

\* A sum of zeros.
LEMMA SumZero ==
    ASSUME NEW f, NEW S, IsFiniteSet(S), \A y \in S : f[y] = 0
    PROVE  SumFunctionOnSet(f, S) = 0
  <1> DEFINE Bad == {s \in SUBSET S : SumFunctionOnSet(f, s) # 0}
  <1> SUFFICES ASSUME Bad # {} PROVE FALSE
    OBVIOUS
  <1>1. PICK s \in Bad : \A t \in Bad : ~(Cardinality(t) < Cardinality(s))
    BY LeastSubset
  <1>2. s # {}
    BY SumEmpty
  <1>3. PICK x \in s : TRUE
    BY <1>2
  <1>4. s \in SUBSET S /\ IsFiniteSet(s) /\ s \ {x} \in SUBSET S
        /\ Cardinality(s \ {x}) < Cardinality(s)
    BY RemoveOne
  <1>5. SumFunctionOnSet(f, s) = f[x] + SumFunctionOnSet(f, s \ {x})
    BY <1>4, SumRemove
  <1>6. SumFunctionOnSet(f, s \ {x}) = 0
    BY <1>1, <1>4
  <1> QED BY <1>4, <1>5, <1>6

\* A sum of ones counts.
LEMMA SumOnes ==
    ASSUME NEW f, NEW S, IsFiniteSet(S), \A y \in S : f[y] = 1
    PROVE  SumFunctionOnSet(f, S) = Cardinality(S)
  <1> DEFINE Bad == {s \in SUBSET S : SumFunctionOnSet(f, s) # Cardinality(s)}
  <1> SUFFICES ASSUME Bad # {} PROVE FALSE
    OBVIOUS
  <1>1. PICK s \in Bad : \A t \in Bad : ~(Cardinality(t) < Cardinality(s))
    BY LeastSubset
  <1>2. s # {}
    BY SumEmpty, FS_EmptySet
  <1>3. PICK x \in s : TRUE
    BY <1>2
  <1>4. s \in SUBSET S /\ IsFiniteSet(s) /\ Cardinality(s) \in Nat /\ s \ {x} \in SUBSET S
        /\ Cardinality(s \ {x}) = Cardinality(s) - 1 /\ Cardinality(s \ {x}) < Cardinality(s)
    BY RemoveOne
  <1>5. SumFunctionOnSet(f, s) = f[x] + SumFunctionOnSet(f, s \ {x})
    BY <1>4, SumRemove
  <1>6. SumFunctionOnSet(f, s \ {x}) = Cardinality(s \ {x})
    BY <1>1, <1>4
  <1> QED BY <1>4, <1>5, <1>6

\* A sum split into classes: what the terms of each class add up to adds up to
\* the whole.
LEMMA SumByClass ==
    ASSUME NEW f, NEW g, NEW S, IsFiniteSet(S), NEW A, IsFiniteSet(A),
           \A y \in S : f[y] \in Int /\ g[y] \in A,
           NEW c, \A a \in A : c[a] \in SUBSET S /\ \A y \in S : y \in c[a] <=> g[y] = a,
           NEW h, \A a \in A : h[a] = SumFunctionOnSet(f, c[a])
    PROVE  SumFunctionOnSet(h, A) = SumFunctionOnSet(f, S)
  <1> DEFINE Class(s, a) == {y \in s : g[y] = a}
             H(s) == [a \in A |-> SumFunctionOnSet(f, Class(s, a))]
             Bad == {s \in SUBSET S : SumFunctionOnSet(H(s), A) # SumFunctionOnSet(f, s)}
  <1>1. Bad = {}
    <2> SUFFICES ASSUME Bad # {} PROVE FALSE
      OBVIOUS
    <2>1. PICK s \in Bad : \A t \in Bad : ~(Cardinality(t) < Cardinality(s))
      BY LeastSubset
    <2>2. s # {}
      <3> SUFFICES ASSUME s = {} PROVE FALSE
        OBVIOUS
      <3>1. \A a \in A : H(s)[a] = 0
        <4> TAKE a \in A
        <4>1. Class(s, a) = {}
          OBVIOUS
        <4> QED BY <4>1, SumEmpty
      <3>2. SumFunctionOnSet(H(s), A) = 0
        <4> HIDE DEF H
        <4> QED BY <3>1, SumZero
      <3>3. SumFunctionOnSet(f, s) = 0
        BY SumEmpty
      <3> QED BY <2>1, <3>2, <3>3
    <2>3. PICK x \in s : TRUE
      BY <2>2
    <2> DEFINE t == s \ {x}
    <2>4. /\ s \in SUBSET S /\ IsFiniteSet(s)
          /\ t \in SUBSET S /\ IsFiniteSet(t) /\ Cardinality(t) < Cardinality(s)
      BY RemoveOne
    <2>5. \A r \in SUBSET S, a \in A : H(r)[a] \in Int
      <3> TAKE r \in SUBSET S, a \in A
      <3>1. IsFiniteSet(Class(r, a)) /\ \A y \in Class(r, a) : f[y] \in Int
        BY FS_Subset
      <3>2. SumFunctionOnSet(f, Class(r, a)) \in Int
        BY <3>1, SumInt
      <3> QED BY <3>2
    <2>6. g[x] \in A /\ f[x] \in Int
      BY <2>3, <2>4
    <2>7. \A a \in A \ {g[x]} : H(s)[a] = H(t)[a]
      <3> TAKE a \in A \ {g[x]}
      <3>1. Class(s, a) = Class(t, a)
        OBVIOUS
      <3> QED BY <3>1
    <2>8. H(s)[g[x]] = f[x] + H(t)[g[x]]
      <3> DEFINE k == Class(s, g[x])
      <3>1. k \in SUBSET S /\ x \in k /\ k \ {x} = Class(t, g[x])
        BY <2>3, <2>4
      <3>2. IsFiniteSet(k) /\ \A y \in k : f[y] \in Int
        BY <3>1, FS_Subset
      <3> HIDE DEF k
      <3>3. SumFunctionOnSet(f, k) = f[x] + SumFunctionOnSet(f, k \ {x})
        BY <3>1, <3>2, SumRemove
      <3> QED BY <2>6, <3>1, <3>3 DEF k
    <2> HIDE DEF H, t
    <2>9. SumFunctionOnSet(H(s), A) = SumFunctionOnSet(H(t), A) + (H(s)[g[x]] - H(t)[g[x]])
      BY <2>4, <2>5, <2>6, <2>7, SumChange
    <2>10. SumFunctionOnSet(H(t), A) = SumFunctionOnSet(f, t)
      BY <2>1, <2>4
    <2>11. SumFunctionOnSet(f, s) = f[x] + SumFunctionOnSet(f, t)
      BY <2>3, <2>4, SumRemove DEF t
    <2>12. SumFunctionOnSet(f, t) \in Int /\ H(t)[g[x]] \in Int
      BY <2>4, <2>5, <2>6, SumInt
    <2> QED BY <2>1, <2>6, <2>8, <2>9, <2>10, <2>11, <2>12
  <1>2. SumFunctionOnSet(H(S), A) = SumFunctionOnSet(f, S)
    BY <1>1
  <1>3. \A a \in A : h[a] = H(S)[a]
    <2> TAKE a \in A
    <2>1. c[a] = Class(S, a)
      OBVIOUS
    <2> QED BY <2>1
  <1> HIDE DEF H
  <1>4. SumFunctionOnSet(h, A) = SumFunctionOnSet(H(S), A)
    BY <1>3, SumEqual
  <1> QED BY <1>2, <1>4

\* A sum over one element is its term.
LEMMA SumOne ==
    ASSUME NEW f, NEW x, f[x] \in Int
    PROVE  SumFunctionOnSet(f, {x}) = f[x]
  <1>1. IsFiniteSet({x}) /\ {x} \ {x} = {}
    BY FS_Singleton
  <1>2. SumFunctionOnSet(f, {x}) = f[x] + SumFunctionOnSet(f, {x} \ {x})
    BY <1>1, SumRemove
  <1> QED BY <1>1, <1>2, SumEmpty

\* Terms that are zero can be left out.
LEMMA SumDrop ==
    ASSUME NEW f, NEW S, IsFiniteSet(S), \A y \in S : f[y] \in Int,
           NEW T \in SUBSET S, \A y \in S \ T : f[y] = 0
    PROVE  SumFunctionOnSet(f, T) = SumFunctionOnSet(f, S)
  <1> DEFINE Bad == {s \in SUBSET S : /\ T \subseteq s
                                      /\ SumFunctionOnSet(f, s) # SumFunctionOnSet(f, T)}
  <1> SUFFICES ASSUME Bad # {} PROVE FALSE
    OBVIOUS
  <1>1. PICK s \in Bad : \A t \in Bad : ~(Cardinality(t) < Cardinality(s))
    <2>1. Bad \in SUBSET SUBSET S
      OBVIOUS
    <2> HIDE DEF Bad
    <2> QED BY <2>1, LeastSubset
  <1>2. PICK x \in s : x \notin T
    BY <1>1
  <1>3. s \in SUBSET S /\ IsFiniteSet(s) /\ s \ {x} \in SUBSET S
        /\ Cardinality(s \ {x}) < Cardinality(s)
    BY <1>1, RemoveOne
  <1>4. SumFunctionOnSet(f, s) = f[x] + SumFunctionOnSet(f, s \ {x})
    BY <1>3, SumRemove
  <1>5. SumFunctionOnSet(f, s \ {x}) = SumFunctionOnSet(f, T)
    BY <1>1, <1>2, <1>3
  <1>6. IsFiniteSet(T) /\ \A y \in T : f[y] \in Int
    BY FS_Subset
  <1>7. SumFunctionOnSet(f, T) \in Int /\ f[x] = 0
    BY <1>2, <1>3, <1>6, SumInt
  <1> QED BY <1>1, <1>4, <1>5, <1>7

\* The same terms under other names, each once.
LEMMA SumRename ==
    ASSUME NEW f, NEW S, IsFiniteSet(S), \A y \in S : f[y] \in Int,
           NEW g, NEW T, IsFiniteSet(T),
           NEW m, \A y \in S : m[y] \in T /\ g[m[y]] = f[y],
           \A y, z \in S : m[y] = m[z] => y = z,
           \A t \in T : \E y \in S : m[y] = t
    PROVE  SumFunctionOnSet(g, T) = SumFunctionOnSet(f, S)
  <1> DEFINE c == [t \in T |-> {y \in S : m[y] = t}]
  <1>1. \A t \in T : c[t] \in SUBSET S /\ \A y \in S : y \in c[t] <=> m[y] = t
    OBVIOUS
  <1>2. \A t \in T : g[t] = SumFunctionOnSet(f, c[t])
    <2> TAKE t \in T
    <2>1. PICK y \in S : m[y] = t
      OBVIOUS
    <2>2. c[t] = {y}
      BY <2>1
    <2>3. f[y] \in Int /\ g[t] = f[y]
      BY <2>1
    <2> HIDE DEF c
    <2>4. SumFunctionOnSet(f, {y}) = f[y]
      BY <2>3, SumOne
    <2> QED BY <2>2, <2>3, <2>4
  <1>3. \A y \in S : f[y] \in Int /\ m[y] \in T
    OBVIOUS
  <1> HIDE DEF c
  <1> QED BY <1>1, <1>2, <1>3, SumByClass

\* The image of a finite set is finite.
LEMMA ImageFinite ==
    ASSUME NEW S, IsFiniteSet(S), NEW m
    PROVE  IsFiniteSet({m[i] : i \in S})
  <1> DEFINE T == {m[i] : i \in S}
  <1>1. PICK n \in Nat : ExistsSurjection(1 .. n, S)
    BY FS_NatSurjection
  <1>2. PICK e \in Surjection(1 .. n, S) : TRUE
    BY <1>1 DEF ExistsSurjection
  <1>3. e \in [1 .. n -> S] /\ \A y \in S : \E k \in 1 .. n : e[k] = y
    BY DEF Surjection
  <1> DEFINE h == [k \in 1 .. n |-> m[e[k]]]
  <1>4. h \in [1 .. n -> T]
    BY <1>3
  <1>5. \A y \in T : \E k \in 1 .. n : h[k] = y
    BY <1>3
  <1> HIDE DEF h, T
  <1>6. h \in Surjection(1 .. n, T)
    BY <1>4, <1>5 DEF Surjection
  <1>7. ExistsSurjection(1 .. n, T)
    BY <1>6 DEF ExistsSurjection
  <1> QED BY <1>7, FS_NatSurjection DEF T

\* Smaller terms, a smaller sum.
LEMMA SumLeq ==
    ASSUME NEW f, NEW g, NEW S, IsFiniteSet(S),
           \A y \in S : f[y] \in Int /\ g[y] \in Int /\ f[y] <= g[y]
    PROVE  SumFunctionOnSet(f, S) <= SumFunctionOnSet(g, S)
  <1> DEFINE d == [y \in S |-> g[y] - f[y]]
  <1>1. \A y \in S : f[y] \in Int /\ d[y] \in Nat /\ d[y] \in Int /\ g[y] = f[y] + d[y]
    OBVIOUS
  <1> HIDE DEF d
  <1>2. SumFunctionOnSet(d, S) \in Nat
    BY <1>1, SumNat
  <1>3. SumFunctionOnSet(g, S) = SumFunctionOnSet(f, S) + SumFunctionOnSet(d, S)
    BY <1>1, SumPlus
  <1>4. SumFunctionOnSet(f, S) \in Int
    BY <1>1, SumInt
  <1> QED BY <1>2, <1>3, <1>4

=============================================================================
