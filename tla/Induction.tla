----------------------------- MODULE Induction ------------------------------
(***************************************************************************)
(* Induction over finite sets and numbers without a rule that takes a      *)
(* predicate: the sets for which a claim fails, if there are any, have a   *)
(* least one among them, and a contradiction for that one proves the       *)
(* claim.  With it, what the sums of the community modules                 *)
(* (SumFunctionOnSet) do: they are numbers, any element may be taken out   *)
(* of them, and they grow with their set.                                  *)
(***************************************************************************)
EXTENDS Integers, FiniteSets, Functions, FiniteSetTheorems, WellFoundedInduction, TLAPS

\* Among finite sets one has no other of them inside.  What fails for some
\* finite set fails for such a one, and so holds for all its subsets: induction.
LEMMA MinimalSubset ==
  ASSUME NEW B, B # {}, \A T \in B : IsFiniteSet(T)
  PROVE  \E T \in B : \A U \in B : U \subseteq T => U = T
<1> DEFINE S == UNION B
<1>1. IsWellFoundedOn(StrictSubsetOrdering(S), FiniteSubsetsOf(S))
  BY FS_StrictSubsetOrderingWellFounded
<1>2. B \subseteq FiniteSubsetsOf(S)
  BY DEF FiniteSubsetsOf
<1> HIDE DEF S
<1>3. PICK T \in B : \A U \in B : ~(<<U, T>> \in StrictSubsetOrdering(S))
  BY <1>1, <1>2, WFMin
<1>4. ASSUME NEW U \in B, U \subseteq T, U # T PROVE FALSE
  <2>1. <<U, T>> \in StrictSubsetOrdering(S)
    BY <1>4 DEF StrictSubsetOrdering, S
  <2>2. QED
    BY <1>3, <2>1
<1>5. QED
  BY <1>4

\* A set of numbers has a least one.
LEMMA LeastNumber ==
  ASSUME NEW T, T \subseteq Nat, T # {}
  PROVE  \E n \in T : \A m \in T : n <= m
<1> DEFINE B == {0..n : n \in T}
<1>1. B \subseteq SUBSET Nat
  OBVIOUS
<1>2. B # {}
  OBVIOUS
<1>3. ASSUME NEW U \in B PROVE IsFiniteSet(U)
  <2>1. PICK n \in T : U = 0..n
    OBVIOUS
  <2>2. n \in Int /\ 0 \in Int
    OBVIOUS
  <2>3. QED
    BY <2>1, <2>2, FS_Interval
<1> HIDE DEF B
<1>4. \A U \in B : IsFiniteSet(U)
  BY <1>3
<1>5. PICK U \in B : \A V \in B : V \subseteq U => V = U
  BY <1>2, <1>4, MinimalSubset
<1>6. PICK n \in T : U = 0..n
  BY DEF B
<1>7. ASSUME NEW m \in T, m < n PROVE FALSE
  <2>1. 0..m \in B
    BY DEF B
  <2>2. 0..m \subseteq 0..n /\ n \notin 0..m /\ n \in 0..n
    BY <1>7
  <2>3. QED
    BY <1>5, <1>6, <2>1, <2>2
<1>8. QED
  BY <1>7

\* A finite set of numbers has a greatest one.
LEMMA GreatestNumber ==
  ASSUME NEW T, IsFiniteSet(T), T \subseteq Nat, T # {}
  PROVE  \E n \in T : \A m \in T : m <= n
<1> DEFINE From(n) == {x \in T : x >= n}
           B == {From(n) : n \in T}
<1>1. B # {}
  OBVIOUS
<1>2. \A U \in B : IsFiniteSet(U)
  BY FS_Subset
<1>3. PICK U \in B : \A V \in B : V \subseteq U => V = U
  <2> HIDE DEF B
  <2>1. QED
    BY <1>1, <1>2, MinimalSubset
<1>4. PICK n \in T : U = From(n)
  OBVIOUS
<1>5. ASSUME NEW m \in T, n < m PROVE FALSE
  <2>1. n \in Nat /\ m \in Nat /\ \A x \in T : x \in Nat
    BY <1>4
  <2>2. n \in From(n) /\ n \notin From(m)
    BY <1>5, <2>1
  <2>3. ASSUME NEW x \in From(m) PROVE x \in From(n)
    <3>1. x \in T /\ x >= m /\ x \in Nat
      BY <2>1
    <3>2. x >= n
      BY <1>5, <2>1, <3>1
    <3>3. QED
      BY <3>1, <3>2
  <2>4. From(m) \in B
    OBVIOUS
  <2>5. QED
    BY <1>3, <1>4, <2>2, <2>3, <2>4
<1>6. QED
  BY <1>5

\* The element of a set that a sum takes first, and the sums over the subsets of S
\* as the function that the fold of the community modules defines.
Pick(s) == CHOOSE x \in s : TRUE
IsIter(f, S, g) ==
  g = [s \in SUBSET S |-> IF s = {} THEN 0 ELSE f[Pick(s)] + g[s \ {Pick(s)}]]

\* A sum is the value of that function.
LEMMA SumIsIter ==
  ASSUME NEW f, NEW S
  PROVE  SumFunctionOnSet(f, S) = (CHOOSE g : IsIter(f, S, g))[S]
BY DEF SumFunctionOnSet, FoldFunctionOnSet, MapThenFoldSet, Pick, IsIter

\* Two such functions agree where both are defined.
LEMMA IterUnique ==
  ASSUME NEW f, NEW S, NEW R, NEW g, NEW h, IsIter(f, S, g), IsIter(f, R, h),
         NEW T, IsFiniteSet(T), T \subseteq S, T \subseteq R
  PROVE  g[T] = h[T]
<1> DEFINE B == {U \in SUBSET T : g[U] # h[U]}
<1>1. SUFFICES ASSUME B # {} PROVE FALSE
  BY <1>1
<1>2. \A U \in B : IsFiniteSet(U)
  BY FS_Subset
<1>3. PICK U \in B : \A V \in B : V \subseteq U => V = U
  <2> HIDE DEF B
  <2>1. QED
    BY <1>1, <1>2, MinimalSubset
<1>4. U \in SUBSET S /\ U \in SUBSET R
  OBVIOUS
<1>5. /\ g[U] = IF U = {} THEN 0 ELSE f[Pick(U)] + g[U \ {Pick(U)}]
      /\ h[U] = IF U = {} THEN 0 ELSE f[Pick(U)] + h[U \ {Pick(U)}]
  BY <1>4 DEF IsIter
<1>6. CASE U # {}
  <2>1. Pick(U) \in U
    BY <1>6 DEF Pick
  <2>2. U \ {Pick(U)} \notin B
    BY <1>3, <2>1
  <2>3. g[U \ {Pick(U)}] = h[U \ {Pick(U)}]
    BY <2>2
  <2>4. QED
    BY <1>5, <2>3
<1>7. QED
  BY <1>5, <1>6

\* There is one for every finite set.
LEMMA IterExists ==
  ASSUME NEW f, NEW S, IsFiniteSet(S)
  PROVE  \E g : IsIter(f, S, g)
<1> DEFINE B == {T \in SUBSET S : ~ \E g : IsIter(f, T, g)}
<1>1. SUFFICES ASSUME B # {} PROVE FALSE
  BY <1>1
<1>2. \A U \in B : IsFiniteSet(U)
  BY FS_Subset
<1>3. PICK T \in B : \A V \in B : V \subseteq T => V = T
  <2> HIDE DEF B
  <2>1. QED
    BY <1>1, <1>2, MinimalSubset
<1>4. \A V \in SUBSET T : V # T => \E g : IsIter(f, V, g)
  BY <1>3
<1> DEFINE It(V) == CHOOSE g : IsIter(f, V, g)
           h == [V \in SUBSET T |-> IF V = {} THEN 0
                                    ELSE f[Pick(V)] + It(V \ {Pick(V)})[V \ {Pick(V)}]]
<1>5. \A V \in SUBSET T : V # T => IsIter(f, V, It(V))
  BY <1>4
<1>6. ASSUME NEW V \in SUBSET T, V # {}
      PROVE  h[V \ {Pick(V)}] = It(V \ {Pick(V)})[V \ {Pick(V)}]
  <2> DEFINE W == V \ {Pick(V)}
  <2>1. Pick(V) \in V
    BY <1>6 DEF Pick
  <2>2. W \in SUBSET T /\ W # T
    BY <2>1
  <2>3. IsIter(f, W, It(W)) /\ IsFiniteSet(W)
    BY <1>5, <2>2, FS_Subset
  <2> HIDE DEF W, It
  <2>4. W \in SUBSET W
    OBVIOUS
  <2>5. It(W)[W] = IF W = {} THEN 0 ELSE f[Pick(W)] + It(W)[W \ {Pick(W)}]
    BY <2>3, <2>4 DEF IsIter
  <2>6. h[W] = IF W = {} THEN 0 ELSE f[Pick(W)] + It(W \ {Pick(W)})[W \ {Pick(W)}]
    BY <2>2
  <2>7. ASSUME W # {} PROVE h[W] = It(W)[W]
    <3> DEFINE X == W \ {Pick(W)}
    <3>1. Pick(W) \in W
      BY <2>7 DEF Pick
    <3>2. X \in SUBSET T /\ X # T /\ X \subseteq W /\ X \subseteq X
      BY <2>2, <3>1
    <3>3. IsIter(f, X, It(X)) /\ IsFiniteSet(X)
      BY <1>5, <2>3, <3>2, FS_Subset
    <3>4. It(W)[X] = It(X)[X]
      <4> HIDE DEF X
      <4>1. QED
        BY <2>3, <3>2, <3>3, IterUnique
    <3> HIDE DEF h, X
    <3>5. QED
      BY <2>5, <2>6, <2>7, <3>4 DEF X
  <2> HIDE DEF h
  <2>8. h[W] = It(W)[W]
    BY <2>5, <2>6, <2>7
  <2>9. QED
    BY <2>8 DEF W
<1>7. IsIter(f, T, h)
  <2> HIDE DEF It
  <2>1. \A V \in SUBSET T : (IF V = {} THEN 0 ELSE f[Pick(V)] + It(V \ {Pick(V)})[V \ {Pick(V)}])
                          = (IF V = {} THEN 0 ELSE f[Pick(V)] + h[V \ {Pick(V)}])
    BY <1>6
  <2>2. h = [V \in SUBSET T |-> IF V = {} THEN 0 ELSE f[Pick(V)] + h[V \ {Pick(V)}]]
    BY <2>1
  <2>3. QED
    BY <2>2 DEF IsIter
<1>8. QED
  BY <1>3, <1>7

\* The function that a sum over S is taken from.
LEMMA SumIter ==
  ASSUME NEW f, NEW S, IsFiniteSet(S)
  PROVE  \E g : IsIter(f, S, g) /\ \A T \in SUBSET S : SumFunctionOnSet(f, T) = g[T]
<1> DEFINE It(T) == CHOOSE g : IsIter(f, T, g)
<1>1. \A T \in SUBSET S : IsFiniteSet(T)
  BY FS_Subset
<1>2. \A T \in SUBSET S : IsIter(f, T, It(T))
  BY <1>1, IterExists
<1>3. \A T \in SUBSET S : SumFunctionOnSet(f, T) = It(T)[T]
  BY SumIsIter
<1> HIDE DEF It
<1>4. \A T \in SUBSET S : It(T)[T] = It(S)[T]
  BY <1>1, <1>2, IterUnique
<1>5. QED
  BY <1>2, <1>3, <1>4

\* A sum is the element it takes first and the sum over the others.
LEMMA SumPicked ==
  ASSUME NEW f, NEW S, IsFiniteSet(S)
  PROVE  SumFunctionOnSet(f, S) =
           IF S = {} THEN 0 ELSE f[Pick(S)] + SumFunctionOnSet(f, S \ {Pick(S)})
<1>1. PICK g : IsIter(f, S, g) /\ \A T \in SUBSET S : SumFunctionOnSet(f, T) = g[T]
  BY SumIter
<1>2. S \in SUBSET S /\ S \ {Pick(S)} \in SUBSET S
  OBVIOUS
<1>3. g[S] = IF S = {} THEN 0 ELSE f[Pick(S)] + g[S \ {Pick(S)}]
  BY <1>1, <1>2 DEF IsIter
<1>4. QED
  BY <1>1, <1>2, <1>3

\* A finite sum of numbers is a number.
LEMMA SumType ==
  ASSUME NEW f, NEW S, IsFiniteSet(S), \A x \in S : f[x] \in Nat
  PROVE  SumFunctionOnSet(f, S) \in Nat
<1> DEFINE B == {T \in SUBSET S : SumFunctionOnSet(f, T) \notin Nat}
<1>1. SUFFICES ASSUME B # {} PROVE FALSE
  BY <1>1
<1>2. \A T \in B : IsFiniteSet(T)
  BY FS_Subset
<1>3. PICK T \in B : \A U \in B : U \subseteq T => U = T
  <2> HIDE DEF B
  <2>1. QED
    BY <1>1, <1>2, MinimalSubset
<1>4. SumFunctionOnSet(f, T) =
        IF T = {} THEN 0 ELSE f[Pick(T)] + SumFunctionOnSet(f, T \ {Pick(T)})
  BY <1>2, SumPicked
<1>5. CASE T # {}
  <2>1. Pick(T) \in T
    BY <1>5 DEF Pick
  <2>2. T \ {Pick(T)} \notin B
    BY <1>3, <2>1
  <2>3. SumFunctionOnSet(f, T \ {Pick(T)}) \in Nat /\ f[Pick(T)] \in Nat
    BY <2>1, <2>2
  <2>4. QED
    BY <1>4, <1>5, <2>3
<1>6. QED
  BY <1>4, <1>5

\* Any element may be the first.
LEMMA SumWithout ==
  ASSUME NEW f, NEW S, IsFiniteSet(S), \A x \in S : f[x] \in Nat, NEW x \in S
  PROVE  SumFunctionOnSet(f, S) = f[x] + SumFunctionOnSet(f, S \ {x})
<1> DEFINE Sum(T) == SumFunctionOnSet(f, T)
           B == {T \in SUBSET S : \E y \in T : Sum(T) # f[y] + Sum(T \ {y})}
<1>1. SUFFICES ASSUME B # {} PROVE FALSE
  BY <1>1
<1>2. \A T \in B : IsFiniteSet(T)
  BY FS_Subset
<1>3. PICK T \in B : \A U \in B : U \subseteq T => U = T
  <2> HIDE DEF B
  <2>1. QED
    BY <1>1, <1>2, MinimalSubset
<1>4. PICK y \in T : Sum(T) # f[y] + Sum(T \ {y})
  OBVIOUS
<1> DEFINE p == Pick(T)
<1>5. p \in T
  BY <1>4 DEF Pick
<1>6. Sum(T) = f[p] + Sum(T \ {p})
  BY <1>2, <1>5, SumPicked
<1> HIDE DEF p
<1>7. p # y
  BY <1>4, <1>6
<1>8. T \ {p} \notin B /\ T \ {y} \notin B /\ T \in SUBSET S
  BY <1>3, <1>5
<1>9. Sum(T \ {p}) = f[y] + Sum((T \ {p}) \ {y})
  BY <1>7, <1>8
<1>10. Sum(T \ {y}) = f[p] + Sum((T \ {y}) \ {p})
  BY <1>5, <1>7, <1>8
<1>11. (T \ {y}) \ {p} = (T \ {p}) \ {y}
  OBVIOUS
<1>12. Sum((T \ {p}) \ {y}) \in Nat
  <2>1. IsFiniteSet((T \ {p}) \ {y})
    BY <1>8, FS_Subset
  <2>2. \A z \in (T \ {p}) \ {y} : f[z] \in Nat
    BY <1>8
  <2>3. QED
    BY <2>1, <2>2, SumType
<1> HIDE DEF Sum
<1>13. f[p] \in Nat /\ f[y] \in Nat
  BY <1>5, <1>8
<1>14. QED
  BY <1>4, <1>6, <1>9, <1>10, <1>11, <1>12, <1>13

\* A sum over fewer elements is no greater.
LEMMA SumSubset ==
  ASSUME NEW f, NEW S, IsFiniteSet(S), \A x \in S : f[x] \in Nat, NEW T \in SUBSET S
  PROVE  SumFunctionOnSet(f, T) <= SumFunctionOnSet(f, S)
<1> DEFINE Sum(U) == SumFunctionOnSet(f, U)
           B == {U \in SUBSET S : T \subseteq U /\ ~(Sum(T) <= Sum(U))}
<1>1. SUFFICES ASSUME B # {} PROVE FALSE
  BY <1>1
<1>2. \A U \in B : IsFiniteSet(U)
  BY FS_Subset
<1>3. PICK U \in B : \A V \in B : V \subseteq U => V = U
  <2> HIDE DEF B
  <2>1. QED
    BY <1>1, <1>2, MinimalSubset
<1>4. \A V \in SUBSET S : Sum(V) \in Nat
  <2> SUFFICES ASSUME NEW V \in SUBSET S PROVE Sum(V) \in Nat
    OBVIOUS
  <2>1. IsFiniteSet(V)
    BY FS_Subset
  <2>2. QED
    BY <2>1, SumType
<1>5. U # T
  BY <1>4
<1>6. PICK x \in U : x \notin T
  BY <1>5
<1>7. U \ {x} \notin B
  BY <1>3, <1>6
<1>8. Sum(T) <= Sum(U \ {x})
  BY <1>6, <1>7
<1>9. Sum(U) = f[x] + Sum(U \ {x})
  <2>1. IsFiniteSet(U) /\ \A y \in U : f[y] \in Nat
    BY <1>2
  <2>2. QED
    BY <2>1, SumWithout
<1> HIDE DEF Sum
<1>10. QED
  BY <1>4, <1>6, <1>8, <1>9

\* A sum depends on the values over its set only.
LEMMA SumOfEqual ==
  ASSUME NEW f, NEW g, NEW S, IsFiniteSet(S), \A x \in S : f[x] = g[x]
  PROVE  SumFunctionOnSet(f, S) = SumFunctionOnSet(g, S)
<1> DEFINE B == {T \in SUBSET S : SumFunctionOnSet(f, T) # SumFunctionOnSet(g, T)}
<1>1. SUFFICES ASSUME B # {} PROVE FALSE
  BY <1>1
<1>2. \A T \in B : IsFiniteSet(T)
  BY FS_Subset
<1>3. PICK T \in B : \A U \in B : U \subseteq T => U = T
  <2> HIDE DEF B
  <2>1. QED
    BY <1>1, <1>2, MinimalSubset
<1>4. /\ SumFunctionOnSet(f, T) =
           IF T = {} THEN 0 ELSE f[Pick(T)] + SumFunctionOnSet(f, T \ {Pick(T)})
      /\ SumFunctionOnSet(g, T) =
           IF T = {} THEN 0 ELSE g[Pick(T)] + SumFunctionOnSet(g, T \ {Pick(T)})
  BY <1>2, SumPicked
<1>5. CASE T # {}
  <2>1. Pick(T) \in T
    BY <1>5 DEF Pick
  <2>2. T \ {Pick(T)} \notin B
    BY <1>3, <2>1
  <2>3. QED
    BY <1>4, <2>1, <2>2
<1>6. QED
  BY <1>4, <1>5
=============================================================================
