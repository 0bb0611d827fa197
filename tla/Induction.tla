----------------------------- MODULE Induction ------------------------------
(***************************************************************************)
(* Induction over the naturals in first-order form: over a set instead of a *)
(* predicate, and the existence of functions defined by recursion from a    *)
(* step function.  Both rest on the well-foundedness of < on Nat.           *)
(***************************************************************************)
EXTENDS Integers, Functions, TLAPS, WellFoundedInduction, FiniteSetTheorems

\* Every nonempty set of naturals has a least element.
LEMMA LeastNat ==
  ASSUME NEW T, T \subseteq Nat, T # {}
  PROVE  \E m \in T : \A k \in T : m <= k
<1>1. IsWellFoundedOn(OpToRel(<, Nat), Nat)
  BY NatLessThanWellFounded
<1>2. PICK m \in T : \A k \in T : ~(<<k, m>> \in OpToRel(<, Nat))
  BY <1>1, WFMin
<1>3. ASSUME NEW k \in T  PROVE ~(k < m)
  <2>1. <<k, m>> \in OpToRel(<, Nat) <=> k < m
    BY DEF OpToRel
  <2>2. QED
    BY <1>2, <2>1
<1>4. ASSUME NEW k \in T  PROVE m <= k
  <2>1. m \in Nat /\ k \in Nat
    OBVIOUS
  <2>2. ~(k < m)
    BY <1>3
  <2>3. QED
    BY <2>1, <2>2
<1>5. QED
  BY <1>4

\* A set that holds 0 and is closed under successor holds every natural.
LEMMA NatInduct ==
  ASSUME NEW S, 0 \in S, \A n \in Nat : n \in S => n+1 \in S
  PROVE  Nat \subseteq S
<1> SUFFICES ASSUME Nat \ S # {} PROVE FALSE
  OBVIOUS
<1>1. PICK m \in Nat \ S : \A k \in Nat \ S : m <= k
  BY LeastNat
<1>2. m # 0 /\ m-1 \in Nat
  BY <1>1
<1>3. m-1 \in S
  BY <1>1, <1>2
<1>4. QED
  BY <1>1, <1>2, <1>3

\* The bounded form: 0 in S, and S closed under successor below N.
LEMMA UpToInduct ==
  ASSUME NEW N \in Nat, NEW S, 0 \in S,
         \A n \in 0 .. N-1 : n \in S => n+1 \in S
  PROVE  0 .. N \subseteq S
<1> DEFINE U == {n \in Nat : n <= N => n \in S}
<1>1. 0 \in U
  OBVIOUS
<1>2. ASSUME NEW n \in Nat, n \in U  PROVE n+1 \in U
  BY <1>2
<1>3. Nat \subseteq U
  <2> HIDE DEF U
  <2>1. QED BY <1>1, <1>2, NatInduct
<1>4. QED
  BY <1>3

\* step keeps the values of S in S, for each i in 1 .. N.
Steps(S, N, step) == \A s \in S : \A i \in 1 .. N : step[<<s, i>>] \in S

\* The functions on 0 .. N with f[0] = a and f[i] = step[<<f[i-1], i>>].
Solutions(S, a, N, step) ==
  {f \in [0 .. N -> S] : f[0] = a /\ \A i \in 1 .. N : f[i] = step[<<f[i-1], i>>]}

\* A recursion over 0 .. N whose steps stay in S has a solution.
LEMMA RecursionExists ==
  ASSUME NEW S, NEW a \in S, NEW N \in Nat, NEW step, Steps(S, N, step)
  PROVE  Solutions(S, a, N, step) # {}
<1>0. \A s \in S : \A i \in 1 .. N : step[<<s, i>>] \in S
  BY DEF Steps
<1> DEFINE OK == {n \in Nat : n <= N =>
                    \E f \in [0 .. n -> S] :
                      f[0] = a /\ \A i \in 1 .. n : f[i] = step[<<f[i-1], i>>]}
<1>1. 0 \in OK
  <2> DEFINE h == [i \in 0 .. 0 |-> a]
  <2>1. h \in [0 .. 0 -> S] /\ h[0] = a
    OBVIOUS
  <2>2. \A i \in 1 .. 0 : h[i] = step[<<h[i-1], i>>]
    OBVIOUS
  <2> HIDE DEF h
  <2>3. QED
    BY <2>1, <2>2
<1>2. ASSUME NEW n \in Nat, n \in OK  PROVE n+1 \in OK
  <2> SUFFICES ASSUME n+1 <= N
               PROVE  \E f \in [0 .. n+1 -> S] :
                        f[0] = a /\ \A i \in 1 .. n+1 : f[i] = step[<<f[i-1], i>>]
    BY <1>2
  <2>1. PICK f \in [0 .. n -> S] :
          f[0] = a /\ \A i \in 1 .. n : f[i] = step[<<f[i-1], i>>]
    BY <1>2
  <2> DEFINE h == [i \in 0 .. n+1 |-> IF i = n+1 THEN step[<<f[n], n+1>>] ELSE f[i]]
  <2>2. step[<<f[n], n+1>>] \in S
    BY <1>0, <2>1
  <2>3. h \in [0 .. n+1 -> S]
    BY <2>1, <2>2
  <2>4. h[0] = a
    BY <2>1
  <2>5. ASSUME NEW i \in 1 .. n+1  PROVE h[i] = step[<<h[i-1], i>>]
    <3>1. i-1 \in 0 .. n /\ h[i-1] = f[i-1]
      OBVIOUS
    <3>2. CASE i = n+1
      BY <3>1, <3>2
    <3>3. CASE i # n+1
      <4>1. i \in 1 .. n /\ h[i] = f[i]
        BY <3>3
      <4>2. QED
        BY <2>1, <3>1, <4>1
    <3>4. QED
      BY <3>2, <3>3
  <2> HIDE DEF h
  <2>6. QED
    BY <2>3, <2>4, <2>5
<1>3. Nat \subseteq OK
  <2> HIDE DEF OK
  <2>1. QED BY <1>1, <1>2, NatInduct
<1>4. N \in OK
  BY <1>3
<1>5. PICK f \in [0 .. N -> S] :
        f[0] = a /\ \A i \in 1 .. N : f[i] = step[<<f[i-1], i>>]
  BY <1>4
<1>6. f \in Solutions(S, a, N, step)
  BY <1>5 DEF Solutions
<1>7. QED
  BY <1>6
(***************************************************************************)
(* Sums over finite sets                                                    *)
(***************************************************************************)
\* A family of subsets of a finite set that holds {} and every set whose
\* subsets with one element less it holds, holds all of them.
LEMMA SubsetInduct ==
  ASSUME NEW S, IsFiniteSet(S), NEW U, {} \in U,
         \A T \in SUBSET S : T # {} /\ (\A y \in T : T \ {y} \in U) => T \in U
  PROVE  SUBSET S \subseteq U
<1> DEFINE OK == {n \in Nat : \A T \in SUBSET S : Cardinality(T) = n => T \in U}
<1>1. \A T \in SUBSET S : IsFiniteSet(T) /\ Cardinality(T) \in Nat
  BY FS_Subset, FS_CardinalityType
<1>2. 0 \in OK
  BY <1>1, FS_EmptySet
<1>3. ASSUME NEW n \in Nat, n \in OK  PROVE n+1 \in OK
  <2> SUFFICES ASSUME NEW T \in SUBSET S, Cardinality(T) = n+1  PROVE T \in U
    OBVIOUS
  <2>1. T # {}
    <3>1. Cardinality({}) = 0 /\ n+1 # 0
      BY FS_EmptySet
    <3>2. QED
      BY <3>1
  <2>2. ASSUME NEW y \in T  PROVE T \ {y} \in U
    <3>1. Cardinality(T \ {y}) = n /\ T \ {y} \in SUBSET S
      BY <1>1, FS_RemoveElement
    <3>2. QED
      BY <1>3, <3>1
  <2>3. QED
    BY <2>1, <2>2
<1>4. Nat \subseteq OK
  <2> HIDE DEF OK
  <2>1. QED BY <1>2, <1>3, NatInduct
<1>5. QED
  BY <1>1, <1>4

\* The element a fold of the community modules takes from a set first.
Pick(T) == CHOOSE x \in T : TRUE

\* g[T] is the sum of f over T, element after element, for every part T of S.
SumsTo(g, f, S) ==
  /\ \A x \in S : f[x] \in Int
  /\ g \in [SUBSET S -> Int]
  /\ g[{}] = 0
  /\ \A T \in SUBSET S : T # {} => g[T] = f[Pick(T)] + g[T \ {Pick(T)}]

Sum(f, S) == SumFunctionOnSet(f, S)

\* The partial sums exist.
LEMMA SumsExist ==
  ASSUME NEW S, IsFiniteSet(S), NEW f, \A x \in S : f[x] \in Int
  PROVE  \E g : SumsTo(g, f, S)
<1> DEFINE Part(n) == {T \in SUBSET S : Cardinality(T) <= n}
           Sums(g, n) == /\ g \in [Part(n) -> Int]
                         /\ g[{}] = 0
                         /\ \A T \in Part(n) :
                              T # {} => g[T] = f[Pick(T)] + g[T \ {Pick(T)}]
           OK == {n \in Nat : \E g : Sums(g, n)}
<1>1. \A T \in SUBSET S : IsFiniteSet(T) /\ Cardinality(T) \in Nat
  BY FS_Subset, FS_CardinalityType
<1>2. \A T \in SUBSET S : T # {} => Pick(T) \in T /\ f[Pick(T)] \in Int
  BY DEF Pick
<1>3. 0 \in OK
  <2>1. Part(0) = {{}}
    BY <1>1, FS_EmptySet
  <2>2. Sums([T \in Part(0) |-> 0], 0)
    BY <2>1
  <2>3. QED
    BY <2>2
<1>4. ASSUME NEW n \in Nat, n \in OK  PROVE n+1 \in OK
  <2>1. PICK g : Sums(g, n)
    BY <1>4
  <2> DEFINE h == [T \in Part(n+1) |-> IF T \in Part(n) THEN g[T]
                                       ELSE f[Pick(T)] + g[T \ {Pick(T)}]]
  <2>2. {} \in Part(n) /\ Part(n) \subseteq Part(n+1)
    BY <1>1, FS_EmptySet
  <2>3. ASSUME NEW T \in Part(n+1), T # {}  PROVE T \ {Pick(T)} \in Part(n)
    <3>1. Cardinality(T \ {Pick(T)}) = Cardinality(T) - 1
      BY <1>1, <1>2, <2>3, FS_RemoveElement
    <3>2. QED
      BY <1>1, <2>3, <3>1
  <2>4. \A T \in Part(n+1) : T # {} => h[T] = f[Pick(T)] + h[T \ {Pick(T)}]
    <3> SUFFICES ASSUME NEW T \in Part(n+1), T # {}
                 PROVE  h[T] = f[Pick(T)] + h[T \ {Pick(T)}]
      OBVIOUS
    <3>1. T \ {Pick(T)} \in Part(n) /\ T \ {Pick(T)} \in Part(n+1)
      BY <2>2, <2>3
    <3> HIDE DEF Part
    <3>2. h[T \ {Pick(T)}] = g[T \ {Pick(T)}]
      BY <3>1
    <3>3. T \in Part(n) => g[T] = f[Pick(T)] + g[T \ {Pick(T)}]
      BY <2>1
    <3>4. QED
      BY <3>2, <3>3
  <2>5. h \in [Part(n+1) -> Int]
    <3> SUFFICES ASSUME NEW T \in Part(n+1)
                 PROVE  (IF T \in Part(n) THEN g[T] ELSE f[Pick(T)] + g[T \ {Pick(T)}]) \in Int
      OBVIOUS
    <3>1. T \in Part(n) => g[T] \in Int
      BY <2>1
    <3>2. T # {} => f[Pick(T)] \in Int /\ g[T \ {Pick(T)}] \in Int
      BY <1>2, <2>1, <2>3
    <3>3. T = {} => T \in Part(n)
      BY <2>2
    <3> HIDE DEF Part
    <3>4. QED
      BY <3>1, <3>2, <3>3
  <2>6. h[{}] = 0
    BY <2>1, <2>2
  <2> HIDE DEF h, Part
  <2>7. Sums(h, n+1)
    BY <2>4, <2>5, <2>6
  <2> HIDE DEF Sums
  <2>8. \E k : Sums(k, n+1)
    BY <2>7
  <2>9. QED
    BY <2>8
<1>5. Nat \subseteq OK
  <2> HIDE DEF OK
  <2>1. QED BY <1>3, <1>4, NatInduct
<1>6. Part(Cardinality(S)) = SUBSET S
  BY <1>1, FS_Subset
<1>7. PICK g : Sums(g, Cardinality(S))
  BY <1>1, <1>5
<1>8. SumsTo(g, f, S)
  BY <1>6, <1>7 DEF SumsTo
<1> QED
  BY <1>8

\* The fold computes them.
LEMMA SumIs ==
  ASSUME NEW S, IsFiniteSet(S), NEW f, \A x \in S : f[x] \in Int
  PROVE  \E g : SumsTo(g, f, S) /\ Sum(f, S) = g[S]
<1> DEFINE Body(g) == [T \in SUBSET S |-> IF T = {} THEN 0
                                          ELSE f[Pick(T)] + g[T \ {Pick(T)}]]
           iter == CHOOSE g : g = Body(g)
<1>1. Sum(f, S) = iter[S]
  BY DEF Sum, SumFunctionOnSet, FoldFunctionOnSet, MapThenFoldSet, Pick
<1>2. PICK g : SumsTo(g, f, S)
  BY SumsExist
<1>3. g = Body(g)
  BY <1>2 DEF SumsTo
<1>4. iter = Body(iter)
  BY <1>3
<1> HIDE DEF iter
<1>5. iter[{}] = 0 /\ \A T \in SUBSET S : T # {} => iter[T] = f[Pick(T)] + iter[T \ {Pick(T)}]
  BY <1>4
<1>6. SUBSET S \subseteq {T \in SUBSET S : iter[T] \in Int}
  <2> DEFINE U == {T \in SUBSET S : iter[T] \in Int}
  <2>1. {} \in U
    BY <1>5
  <2>2. ASSUME NEW T \in SUBSET S, T # {}, \A y \in T : T \ {y} \in U  PROVE T \in U
    <3>1. Pick(T) \in T
      BY <2>2 DEF Pick
    <3>2. iter[T \ {Pick(T)}] \in Int /\ f[Pick(T)] \in Int
      BY <2>2, <3>1
    <3>3. iter[T] = f[Pick(T)] + iter[T \ {Pick(T)}]
      BY <1>5, <2>2
    <3>4. iter[T] \in Int
      BY <3>2, <3>3
    <3>5. QED
      BY <3>4
  <2> HIDE DEF U
  <2>3. SUBSET S \subseteq U
    BY <2>1, <2>2, SubsetInduct
  <2>4. QED
    BY <2>3 DEF U
<1>7. SumsTo(iter, f, S)
  BY <1>4, <1>5, <1>6 DEF SumsTo
<1> QED
  BY <1>1, <1>7

\* Any element may be taken first.
LEMMA SumsTake ==
  ASSUME NEW S, IsFiniteSet(S), NEW f, NEW g, SumsTo(g, f, S)
  PROVE  \A T \in SUBSET S : \A y \in T : g[T] = f[y] + g[T \ {y}]
<1> DEFINE U == {V \in SUBSET S : \A z \in V : g[V] = f[z] + g[V \ {z}]}
<1>1. /\ \A x \in S : f[x] \in Int
      /\ \A V \in SUBSET S : g[V] \in Int
      /\ \A V \in SUBSET S : V # {} => Pick(V) \in V /\ g[V] = f[Pick(V)] + g[V \ {Pick(V)}]
  BY DEF SumsTo, Pick
<1>2. {} \in U
  OBVIOUS
<1>3. ASSUME NEW V \in SUBSET S, V # {}, \A z \in V : V \ {z} \in U  PROVE V \in U
  <2> SUFFICES ASSUME NEW z \in V  PROVE g[V] = f[z] + g[V \ {z}]
    OBVIOUS
  <2> DEFINE x == Pick(V)
             W == (V \ {x}) \ {z}
  <2>1. x \in V /\ g[V] = f[x] + g[V \ {x}]
    BY <1>1
  <2> HIDE DEF x
  <2>2. CASE x = z
    BY <2>1, <2>2
  <2>3. CASE x # z
    <3>1. g[V \ {x}] = f[z] + g[W]
      BY <1>3, <2>1, <2>3
    <3>2. g[V \ {z}] = f[x] + g[(V \ {z}) \ {x}]
      BY <1>3, <2>1, <2>3
    <3>3. (V \ {z}) \ {x} = W
      OBVIOUS
    <3>4. f[x] \in Int /\ f[z] \in Int /\ g[W] \in Int
      BY <1>1, <2>1
    <3>5. g[V] = f[x] + (f[z] + g[W])
      BY <2>1, <3>1
    <3>6. g[V \ {z}] = f[x] + g[W]
      BY <3>2, <3>3
    <3>7. f[x] + (f[z] + g[W]) = f[z] + (f[x] + g[W])
      <4> HIDE DEF W
      <4>1. QED
        BY <3>4
    <3>8. QED
      BY <3>5, <3>6, <3>7
  <2>4. QED
    BY <2>2, <2>3
<1>4. SUBSET S \subseteq U
  <2> HIDE DEF U
  <2>1. QED BY <1>2, <1>3, SubsetInduct
<1> QED
  BY <1>4

\* The sum over a part depends on the values on that part only.
LEMMA SumsAgree ==
  ASSUME NEW S, IsFiniteSet(S), NEW T \in SUBSET S, NEW f, NEW e,
         \A x \in T : f[x] = e[x],
         NEW g, SumsTo(g, f, S), NEW h, SumsTo(h, e, T)
  PROVE  g[T] = h[T]
<1> DEFINE U == {V \in SUBSET T : g[V] = h[V]}
<1>1. IsFiniteSet(T)
  BY FS_Subset
<1>2. {} \in U
  BY DEF SumsTo
<1>3. ASSUME NEW V \in SUBSET T, V # {}, \A z \in V : V \ {z} \in U  PROVE V \in U
  <2>1. Pick(V) \in V
    BY <1>3 DEF Pick
  <2>2. g[V] = f[Pick(V)] + g[V \ {Pick(V)}] /\ h[V] = e[Pick(V)] + h[V \ {Pick(V)}]
    BY <1>3 DEF SumsTo
  <2>3. g[V \ {Pick(V)}] = h[V \ {Pick(V)}]
    BY <1>3, <2>1
  <2>4. f[Pick(V)] = e[Pick(V)]
    BY <2>1
  <2>5. QED
    BY <2>2, <2>3, <2>4
<1>4. SUBSET T \subseteq U
  <2> HIDE DEF U
  <2>1. QED BY <1>1, <1>2, <1>3, SubsetInduct
<1> QED
  BY <1>4

\* What is left of the sum when one element is taken out is the sum of the rest.
LEMMA SumsRest ==
  ASSUME NEW S, IsFiniteSet(S), NEW f, NEW g, SumsTo(g, f, S), NEW y \in S
  PROVE  g[S] = f[y] + Sum(f, S \ {y}) /\ Sum(f, S \ {y}) \in Int
<1> DEFINE T == S \ {y}
<1>1. S \in SUBSET S /\ T \in SUBSET S /\ IsFiniteSet(T)
  BY FS_Subset
<1>2. g[S] = f[y] + g[T]
  BY <1>1, SumsTake
<1>3. \A x \in T : f[x] \in Int
  BY DEF SumsTo
<1> HIDE DEF T
<1>4. PICK h : SumsTo(h, f, T) /\ Sum(f, T) = h[T]
  BY <1>1, <1>3, SumIs
<1>5. g[T] = h[T]
  BY <1>1, <1>4, SumsAgree
<1>6. g[T] \in Int
  BY <1>1 DEF SumsTo
<1> QED
  BY <1>2, <1>4, <1>5, <1>6 DEF T

\* Taking one element out of a sum.
LEMMA SumTake ==
  ASSUME NEW S, IsFiniteSet(S), NEW f, \A x \in S : f[x] \in Int
  PROVE  /\ Sum(f, S) \in Int
         /\ S = {} => Sum(f, S) = 0
         /\ \A y \in S : Sum(f, S \ {y}) \in Int /\ Sum(f, S) = f[y] + Sum(f, S \ {y})
<1>1. PICK g : SumsTo(g, f, S) /\ Sum(f, S) = g[S]
  BY SumIs
<1>2. Sum(f, S) \in Int /\ (S = {} => Sum(f, S) = 0)
  BY <1>1 DEF SumsTo
<1>3. ASSUME NEW y \in S
      PROVE  Sum(f, S \ {y}) \in Int /\ Sum(f, S) = f[y] + Sum(f, S \ {y})
  BY <1>1, SumsRest
<1> QED
  BY <1>2, <1>3

\* Functions with the same values have the same sum.
LEMMA SumAgree ==
  ASSUME NEW S, IsFiniteSet(S), NEW f, NEW e,
         \A x \in S : f[x] \in Int /\ f[x] = e[x]
  PROVE  Sum(f, S) = Sum(e, S)
<1>1. (\A x \in S : f[x] \in Int) /\ (\A x \in S : e[x] \in Int) /\ (\A x \in S : f[x] = e[x])
  OBVIOUS
<1>2. PICK g : SumsTo(g, f, S) /\ Sum(f, S) = g[S]
  BY <1>1, SumIs
<1>3. PICK h : SumsTo(h, e, S) /\ Sum(e, S) = h[S]
  BY <1>1, SumIs
<1>4. S \in SUBSET S
  OBVIOUS
<1> QED
  BY <1>1, <1>2, <1>3, <1>4, SumsAgree

\* Changing one value changes the sum by the difference.
LEMMA SumChange ==
  ASSUME NEW S, IsFiniteSet(S), NEW f, NEW e, NEW y \in S, NEW d \in Int,
         \A x \in S : f[x] \in Int,
         \A x \in S : e[x] = IF x = y THEN f[x] + d ELSE f[x]
  PROVE  Sum(e, S) = Sum(f, S) + d
<1> DEFINE T == S \ {y}
<1>1. IsFiniteSet(T)
  BY FS_Subset
<1>2. \A x \in S : e[x] \in Int
  OBVIOUS
<1>3. Sum(f, S) = f[y] + Sum(f, T) /\ Sum(f, T) \in Int
  BY SumTake
<1>4. Sum(e, S) = e[y] + Sum(e, T) /\ Sum(e, T) \in Int
  BY <1>2, SumTake
<1>5. Sum(f, T) = Sum(e, T)
  <2>1. \A x \in T : f[x] \in Int /\ f[x] = e[x]
    OBVIOUS
  <2> HIDE DEF T
  <2>2. QED
    BY <1>1, <2>1, SumAgree
<1>6. e[y] = f[y] + d /\ f[y] \in Int
  OBVIOUS
<1> HIDE DEF T
<1> QED
  BY <1>3, <1>4, <1>5, <1>6

\* A sum of naturals is a natural, and no term exceeds it.
LEMMA SumNat ==
  ASSUME NEW S, IsFiniteSet(S), NEW f, \A x \in S : f[x] \in Nat
  PROVE  Sum(f, S) \in Nat /\ \A y \in S : f[y] <= Sum(f, S)
<1> DEFINE U == {T \in SUBSET S : Sum(f, T) \in Nat}
<1>1. {} \in U
  BY FS_EmptySet, SumTake
<1>2. ASSUME NEW T \in SUBSET S, T # {}, \A y \in T : T \ {y} \in U  PROVE T \in U
  <2>1. PICK y \in T : TRUE
    BY <1>2
  <2>2. IsFiniteSet(T) /\ \A x \in T : f[x] \in Int
    BY FS_Subset
  <2>3. Sum(f, T) = f[y] + Sum(f, T \ {y})
    BY <2>2, SumTake
  <2>4. Sum(f, T \ {y}) \in Nat /\ f[y] \in Nat
    BY <1>2
  <2>5. QED
    BY <2>3, <2>4
<1>3. SUBSET S \subseteq U
  <2> HIDE DEF U
  <2>1. QED BY <1>1, <1>2, SubsetInduct
<1>4. ASSUME NEW y \in S  PROVE f[y] <= Sum(f, S)
  <2>1. \A x \in S : f[x] \in Int
    OBVIOUS
  <2>2. Sum(f, S) = f[y] + Sum(f, S \ {y})
    BY <2>1, SumTake
  <2>3. Sum(f, S \ {y}) \in Nat /\ f[y] \in Nat
    BY <1>3
  <2>4. QED
    BY <2>2, <2>3
<1> QED
  BY <1>3, <1>4

\* The sum of a function that is zero but at one place.
LEMMA SumSingle ==
  ASSUME NEW S, IsFiniteSet(S), NEW f, NEW y \in S, f[y] \in Int,
         \A x \in S : x # y => f[x] = 0
  PROVE  Sum(f, S) = f[y]
<1> DEFINE zero == [x \in S |-> 0]
           U == {T \in SUBSET S : Sum(zero, T) = 0}
<1>1. {} \in U
  BY FS_EmptySet, SumTake
<1>2. ASSUME NEW T \in SUBSET S, T # {}, \A z \in T : T \ {z} \in U  PROVE T \in U
  <2>1. PICK z \in T : TRUE
    BY <1>2
  <2>2. IsFiniteSet(T) /\ (\A x \in T : zero[x] \in Int) /\ zero[z] = 0
    BY FS_Subset
  <2>3. Sum(zero, T \ {z}) = 0
    BY <1>2
  <2> HIDE DEF zero
  <2>4. Sum(zero, T) = zero[z] + Sum(zero, T \ {z})
    BY <2>2, SumTake
  <2>5. QED
    BY <2>2, <2>3, <2>4
<1>3. SUBSET S \subseteq U
  <2> HIDE DEF U
  <2>1. QED BY <1>1, <1>2, SubsetInduct
<1>4. Sum(zero, S) = 0
  BY <1>3
<1>5. \A x \in S : zero[x] \in Int
  OBVIOUS
<1>6. \A x \in S : f[x] = IF x = y THEN zero[x] + f[y] ELSE zero[x]
  OBVIOUS
<1> HIDE DEF zero
<1>7. Sum(f, S) = Sum(zero, S) + f[y]
  BY <1>5, <1>6, SumChange
<1> QED
  BY <1>4, <1>7

\* A sum over 1 .. n+1 is the sum over 1 .. n and the last term.
LEMMA SumNext ==
  ASSUME NEW n \in Nat, NEW f, NEW e,
         \A i \in 1 .. n : f[i] \in Int /\ e[i] = f[i], e[n+1] \in Int
  PROVE  Sum(e, 1 .. n+1) = Sum(f, 1 .. n) + e[n+1] /\ Sum(f, 1 .. n) \in Int
<1>1. IsFiniteSet(1 .. n) /\ IsFiniteSet(1 .. n+1) /\ (1 .. n+1) \ {n+1} = 1 .. n
  <2>1. 1 \in Int /\ n \in Int /\ n+1 \in Int
    OBVIOUS
  <2>2. IsFiniteSet(1 .. n) /\ IsFiniteSet(1 .. n+1)
    BY <2>1, FS_Interval
  <2>3. (1 .. n+1) \ {n+1} = 1 .. n
    OBVIOUS
  <2>4. QED
    BY <2>2, <2>3
<1>2. \A i \in 1 .. n+1 : e[i] \in Int
  <2>1. \A i \in 1 .. n+1 : i \in 1 .. n \/ i = n+1
    OBVIOUS
  <2>2. QED
    BY <2>1
<1>3. Sum(e, 1 .. n+1) = e[n+1] + Sum(e, 1 .. n)
  <2> DEFINE D == 1 .. n+1
  <2>1. n+1 \in D
    OBVIOUS
  <2>2. IsFiniteSet(D) /\ (\A i \in D : e[i] \in Int) /\ D \ {n+1} = 1 .. n
    BY <1>1, <1>2
  <2> HIDE DEF D
  <2>3. Sum(e, D) = e[n+1] + Sum(e, D \ {n+1})
    BY <2>1, <2>2, SumTake
  <2>4. QED
    BY <2>2, <2>3 DEF D
<1>4. Sum(f, 1 .. n) = Sum(e, 1 .. n)
  BY <1>1, SumAgree
<1>5. Sum(f, 1 .. n) \in Int
  BY <1>1, SumTake
<1> QED
  BY <1>3, <1>4, <1>5
=============================================================================
