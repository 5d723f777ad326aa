-------------------------------- MODULE Sums --------------------------------
(***************************************************************************)
(* Facts about SumFunctionOnSet of module Functions, the sum that the      *)
(* properties on stock, carts and ratings are stated with, and about the   *)
(* smallest and the largest of a set of numbers.                           *)
(*                                                                         *)
(* The sum is a recursive function on the subsets of a finite set.  The    *)
(* induction theorems of the library take the formula to prove as an       *)
(* operator, which the provers cannot instantiate; here an induction is an *)
(* argument about a smallest counterexample, which is a set.               *)
(***************************************************************************)
EXTENDS Integers, Functions, FiniteSets, FiniteSetTheorems, WellFoundedInduction, TLAPS

-----------------------------------------------------------------------------
(* Induction.                                                              *)

\* A collection of subsets of a finite set has a smallest one.
LEMMA SmallestSubset ==
  ASSUME NEW S, IsFiniteSet(S), NEW B \in SUBSET SUBSET S, B # {}
  PROVE  \E T \in B : \A U \in SUBSET T : U # T => U \notin B
<1>1. IsWellFoundedOn(StrictSubsetOrdering(S), SUBSET S)
  BY FS_StrictSubsetOrderingWellFounded, FS_FiniteSubsetsOfFinite
<1>2. PICK T \in B : \A U \in B : ~ (<<U, T>> \in StrictSubsetOrdering(S))
  BY <1>1, WFMin
<1>3. ASSUME NEW U \in SUBSET T, U # T, U \in B PROVE FALSE
  <2>1. <<U, T>> \in (SUBSET S) \X (SUBSET S)
    BY <1>3
  <2>2. <<U, T>> \in StrictSubsetOrdering(S)
    BY <1>3, <2>1 DEF StrictSubsetOrdering
  <2> QED  BY <1>2, <1>3, <2>2
<1> QED  BY <1>2, <1>3

\* The element a sum takes out of a set first.
First(s) == CHOOSE x \in s : TRUE

LEMMA FirstIn == \A s : s # {} => First(s) \in s
BY DEF First

-----------------------------------------------------------------------------
(* The recursion equation.                                                 *)

SumStep(f, g, s) == IF s = {} THEN 0 ELSE f[First(s)] + g[s \ {First(s)}]

\* g is the function the sum of f over subsets of S is read from.
Sums(f, S, g) == g = [s \in SUBSET S |-> SumStep(f, g, s)]

Iter(f, S) == CHOOSE g : Sums(f, S, g)

LEMMA SumIsIter == ASSUME NEW f, NEW S PROVE SumFunctionOnSet(f, S) = Iter(f, S)[S]
BY Zenon DEF SumFunctionOnSet, FoldFunctionOnSet, MapThenFoldSet, Iter, Sums, SumStep, First

\* Two such functions agree where both are defined.
LEMMA SumsAgree ==
  ASSUME NEW f, NEW S, IsFiniteSet(S), NEW T \in SUBSET S,
         NEW g, Sums(f, S, g), NEW h, Sums(f, T, h), NEW s \in SUBSET T
  PROVE  g[s] = h[s]
<1> DEFINE B == {t \in SUBSET T : g[t] # h[t]}
<1> SUFFICES ASSUME B # {} PROVE FALSE
  OBVIOUS
<1>1. IsFiniteSet(T)
  BY FS_Subset
<1>2. PICK t \in B : \A u \in SUBSET t : u # t => u \notin B
  BY <1>1, SmallestSubset
<1>3. g[t] = SumStep(f, g, t) /\ h[t] = SumStep(f, h, t)
  BY DEF Sums
<1>4. CASE t = {}
  BY <1>3, <1>4 DEF SumStep
<1>5. CASE t # {}
  <2>1. First(t) \in t
    BY <1>5, FirstIn
  <2>2. t \ {First(t)} \in SUBSET t /\ t \ {First(t)} # t
    BY <2>1
  <2>3. g[t \ {First(t)}] = h[t \ {First(t)}]
    BY <1>2, <2>2
  <2> QED  BY <1>3, <1>5, <2>3 DEF SumStep
<1> QED  BY <1>4, <1>5

\* There is one for every finite set.
LEMMA SumsExist ==
  ASSUME NEW f, NEW S, IsFiniteSet(S)
  PROVE  Sums(f, S, Iter(f, S))
<1> DEFINE B == {T \in SUBSET S : ~ \E g : Sums(f, T, g)}
<1> SUFFICES ASSUME B # {} PROVE FALSE
  BY DEF Iter
<1>1. PICK T \in B : \A U \in SUBSET T : U # T => U \notin B
  <2>1. B \in SUBSET SUBSET S
    OBVIOUS
  <2> HIDE DEF B
  <2> QED  BY <2>1, SmallestSubset
<1>2. ASSUME NEW U \in SUBSET T, U # T PROVE Sums(f, U, Iter(f, U))
  BY <1>1, <1>2 DEF Iter
<1> DEFINE value(s) == Iter(f, s)[s]
           after(s) == IF s = {} THEN 0 ELSE f[First(s)] + value(s \ {First(s)})
           g == [s \in SUBSET T |-> IF s = T THEN after(s) ELSE value(s)]
<1>3. ASSUME NEW s \in SUBSET T, s # T PROVE value(s) = after(s)
  <2>1. Sums(f, s, Iter(f, s))
    BY <1>2, <1>3
  <2>2. value(s) = SumStep(f, Iter(f, s), s)
    BY <2>1 DEF Sums
  <2>3. CASE s = {}
    BY <2>2, <2>3 DEF SumStep
  <2>4. CASE s # {}
    <3>1. First(s) \in s
      BY <2>4, FirstIn
    <3> DEFINE u == s \ {First(s)}
    <3>2. u \in SUBSET T /\ u # T /\ u \in SUBSET s
      BY <3>1
    <3>3. Sums(f, u, Iter(f, u))
      BY <1>2, <3>2
    <3>4. IsFiniteSet(s)
      BY FS_Subset
    <3>5. Iter(f, s)[u] = Iter(f, u)[u]
      BY <2>1, <3>2, <3>3, <3>4, SumsAgree
    <3> QED  BY <2>2, <2>4, <3>5 DEF SumStep
  <2> QED  BY <2>3, <2>4
<1>4. ASSUME NEW s \in SUBSET T PROVE g[s] = after(s)
  BY <1>3
<1>5. ASSUME NEW s \in SUBSET T, s # {} PROVE g[s \ {First(s)}] = value(s \ {First(s)})
  <2>1. First(s) \in s
    BY <1>5, FirstIn
  <2>2. s \ {First(s)} \in SUBSET T /\ s \ {First(s)} # T
    BY <2>1
  <2> QED  BY <2>2
<1>6. ASSUME NEW s \in SUBSET T PROVE after(s) = SumStep(f, g, s)
  BY <1>5 DEF SumStep
<1> HIDE DEF after, value
<1>7. Sums(f, T, g)
  BY <1>4, <1>6 DEF Sums
<1> QED  BY <1>1, <1>7

\* The sum over a finite set is that over its first element and over the rest.
LEMMA SumFirst ==
  ASSUME NEW f, NEW S, IsFiniteSet(S), S # {}
  PROVE  SumFunctionOnSet(f, S) = f[First(S)] + SumFunctionOnSet(f, S \ {First(S)})
<1> DEFINE T == S \ {First(S)}
<1>1. IsFiniteSet(T) /\ T \in SUBSET S
  BY FS_Subset
<1>2. Sums(f, S, Iter(f, S)) /\ Sums(f, T, Iter(f, T))
  BY <1>1, SumsExist
<1>3. Iter(f, S)[S] = SumStep(f, Iter(f, S), S)
  BY <1>2 DEF Sums
<1>4. Iter(f, S)[T] = Iter(f, T)[T]
  <2>1. T \in SUBSET T
    OBVIOUS
  <2> HIDE DEF T
  <2> QED  BY <1>1, <1>2, <2>1, SumsAgree
<1> QED  BY <1>3, <1>4, SumIsIter DEF SumStep

LEMMA SumEmpty == ASSUME NEW f PROVE SumFunctionOnSet(f, {}) = 0
<1>1. Sums(f, {}, Iter(f, {}))
  BY FS_EmptySet, SumsExist
<1> QED  BY <1>1, SumIsIter DEF Sums, SumStep

-----------------------------------------------------------------------------
(* What the proofs about the models cite.                                  *)

LEMMA SumInt ==
  ASSUME NEW S, IsFiniteSet(S), NEW f, \A x \in S : f[x] \in Int
  PROVE  SumFunctionOnSet(f, S) \in Int
<1> DEFINE B == {T \in SUBSET S : SumFunctionOnSet(f, T) \notin Int}
<1> SUFFICES ASSUME B # {} PROVE FALSE
  OBVIOUS
<1>1. B \in SUBSET SUBSET S
  OBVIOUS
<1>2. PICK T \in B : \A U \in SUBSET T : U # T => U \notin B
  <2> HIDE DEF B
  <2> QED  BY <1>1, SmallestSubset
<1>3. T # {}
  BY SumEmpty
<1>4. First(T) \in T
  BY <1>3, FirstIn
<1> DEFINE U == T \ {First(T)}
<1>5. U \in SUBSET T /\ U # T /\ U \in SUBSET S
  BY <1>4
<1>6. SumFunctionOnSet(f, U) \in Int
  BY <1>2, <1>5
<1>7. IsFiniteSet(T)
  BY FS_Subset
<1>8. SumFunctionOnSet(f, T) = f[First(T)] + SumFunctionOnSet(f, U)
  BY <1>3, <1>7, SumFirst
<1>9. f[First(T)] \in Int
  BY <1>4
<1> QED  BY <1>6, <1>8, <1>9

\* Any element may be taken out.
LEMMA SumTakeOut ==
  ASSUME NEW S, IsFiniteSet(S), NEW f, \A x \in S : f[x] \in Int, NEW x \in S
  PROVE  SumFunctionOnSet(f, S) = f[x] + SumFunctionOnSet(f, S \ {x})
<1> DEFINE B == {T \in SUBSET S :
             \E y \in T : SumFunctionOnSet(f, T) # f[y] + SumFunctionOnSet(f, T \ {y})}
<1> SUFFICES ASSUME B # {} PROVE FALSE
  OBVIOUS
<1>1. B \in SUBSET SUBSET S
  OBVIOUS
<1>2. PICK T \in B : \A U \in SUBSET T : U # T => U \notin B
  <2> HIDE DEF B
  <2> QED  BY <1>1, SmallestSubset
<1>3. PICK y \in T : SumFunctionOnSet(f, T) # f[y] + SumFunctionOnSet(f, T \ {y})
  BY <1>2
<1> DEFINE c == First(T)
<1>4. c \in T /\ T # {}
  BY FirstIn
<1> HIDE DEF c
<1>5. IsFiniteSet(T) /\ IsFiniteSet(T \ {c}) /\ IsFiniteSet(T \ {y}) /\ IsFiniteSet((T \ {c}) \ {y})
  BY FS_Subset
<1>6. SumFunctionOnSet(f, T) = f[c] + SumFunctionOnSet(f, T \ {c})
  BY <1>4, <1>5, SumFirst DEF c
<1>7. c # y
  BY <1>3, <1>6
<1>8. T \ {c} \notin B /\ T \ {y} \notin B
  BY <1>2, <1>4
<1>9. SumFunctionOnSet(f, T \ {c}) = f[y] + SumFunctionOnSet(f, (T \ {c}) \ {y})
  BY <1>7, <1>8
<1>10. SumFunctionOnSet(f, T \ {y}) = f[c] + SumFunctionOnSet(f, (T \ {y}) \ {c})
  BY <1>4, <1>7, <1>8
<1>11. (T \ {y}) \ {c} = (T \ {c}) \ {y}
  OBVIOUS
<1>12. SumFunctionOnSet(f, (T \ {c}) \ {y}) \in Int /\ f[c] \in Int /\ f[y] \in Int
  BY <1>4, <1>5, SumInt
<1> DEFINE rest == SumFunctionOnSet(f, (T \ {c}) \ {y})
<1>13. SumFunctionOnSet(f, T) = f[c] + (f[y] + rest)
  BY ONLY <1>6, <1>9
<1>14. f[y] + SumFunctionOnSet(f, T \ {y}) = f[y] + (f[c] + rest)
  BY ONLY <1>10, <1>11
<1>15. rest \in Int /\ f[c] \in Int /\ f[y] \in Int
  BY <1>12
<1> HIDE DEF rest
<1>16. f[c] + (f[y] + rest) = f[y] + (f[c] + rest)
  BY ONLY <1>15
<1> QED  BY <1>3, <1>13, <1>14, <1>16

\* Functions that agree on a set have the same sum over it.
LEMMA SumSame ==
  ASSUME NEW S, IsFiniteSet(S), NEW f, NEW g, \A x \in S : f[x] = g[x]
  PROVE  SumFunctionOnSet(f, S) = SumFunctionOnSet(g, S)
<1> DEFINE B == {T \in SUBSET S : SumFunctionOnSet(f, T) # SumFunctionOnSet(g, T)}
<1> SUFFICES ASSUME B # {} PROVE FALSE
  OBVIOUS
<1>1. B \in SUBSET SUBSET S
  OBVIOUS
<1>2. PICK T \in B : \A U \in SUBSET T : U # T => U \notin B
  <2> HIDE DEF B
  <2> QED  BY <1>1, SmallestSubset
<1>3. T # {}
  BY SumEmpty
<1>4. First(T) \in T
  BY <1>3, FirstIn
<1>5. T \ {First(T)} \in SUBSET T /\ T \ {First(T)} # T
  BY <1>4
<1>6. SumFunctionOnSet(f, T \ {First(T)}) = SumFunctionOnSet(g, T \ {First(T)})
  BY <1>2, <1>5
<1>7. IsFiniteSet(T)
  BY FS_Subset
<1>8. /\ SumFunctionOnSet(f, T) = f[First(T)] + SumFunctionOnSet(f, T \ {First(T)})
      /\ SumFunctionOnSet(g, T) = g[First(T)] + SumFunctionOnSet(g, T \ {First(T)})
  BY <1>3, <1>7, SumFirst
<1>9. f[First(T)] = g[First(T)]
  BY <1>4
<1> QED  BY <1>6, <1>8, <1>9

\* A change of one summand changes the sum by as much.
LEMMA SumChange ==
  ASSUME NEW S, IsFiniteSet(S), NEW f, NEW g,
         \A x \in S : f[x] \in Int /\ g[x] \in Int,
         NEW y \in S, \A x \in S \ {y} : f[x] = g[x]
  PROVE  SumFunctionOnSet(g, S) = SumFunctionOnSet(f, S) - f[y] + g[y]
<1>1. IsFiniteSet(S \ {y})
  BY FS_Subset
<1>2. /\ SumFunctionOnSet(f, S) = f[y] + SumFunctionOnSet(f, S \ {y})
      /\ SumFunctionOnSet(g, S) = g[y] + SumFunctionOnSet(g, S \ {y})
  BY SumTakeOut
<1>3. SumFunctionOnSet(f, S \ {y}) = SumFunctionOnSet(g, S \ {y})
  BY <1>1, SumSame
<1>4. SumFunctionOnSet(f, S \ {y}) \in Int /\ f[y] \in Int /\ g[y] \in Int
  BY <1>1, SumInt
<1> QED  BY <1>2, <1>3, <1>4

\* One element more.
LEMMA SumAdd ==
  ASSUME NEW S, IsFiniteSet(S), NEW f, NEW y, y \notin S, \A x \in S \cup {y} : f[x] \in Int
  PROVE  SumFunctionOnSet(f, S \cup {y}) = f[y] + SumFunctionOnSet(f, S)
<1>1. IsFiniteSet(S \cup {y}) /\ (S \cup {y}) \ {y} = S
  BY FS_AddElement
<1> QED  BY <1>1, SumTakeOut

LEMMA SumZero ==
  ASSUME NEW S, IsFiniteSet(S), NEW f, \A x \in S : f[x] = 0
  PROVE  SumFunctionOnSet(f, S) = 0
<1> DEFINE B == {T \in SUBSET S : SumFunctionOnSet(f, T) # 0}
<1> SUFFICES ASSUME B # {} PROVE FALSE
  OBVIOUS
<1>1. B \in SUBSET SUBSET S
  OBVIOUS
<1>2. PICK T \in B : \A U \in SUBSET T : U # T => U \notin B
  <2> HIDE DEF B
  <2> QED  BY <1>1, SmallestSubset
<1>3. T # {} /\ IsFiniteSet(T)
  <2>1. T # {}
    BY SumEmpty
  <2> QED  BY <2>1, FS_Subset
<1>4. First(T) \in T
  BY <1>3, FirstIn
<1>5. T \ {First(T)} \in SUBSET T /\ T \ {First(T)} # T
  BY <1>4
<1>6. SumFunctionOnSet(f, T \ {First(T)}) = 0
  BY <1>2, <1>5
<1>7. SumFunctionOnSet(f, T) = f[First(T)] + SumFunctionOnSet(f, T \ {First(T)})
  BY <1>3, SumFirst
<1>8. f[First(T)] = 0
  BY <1>4
<1> QED  BY <1>6, <1>7, <1>8

\* Summands that are zero may be left out.
LEMMA SumRestrict ==
  ASSUME NEW S, IsFiniteSet(S), NEW T \in SUBSET S, NEW f, \A x \in S : f[x] \in Int,
         \A x \in S \ T : f[x] = 0
  PROVE  SumFunctionOnSet(f, S) = SumFunctionOnSet(f, T)
<1> DEFINE B == {U \in SUBSET S : SumFunctionOnSet(f, U) # SumFunctionOnSet(f, U \cap T)}
<1> SUFFICES ASSUME B # {} PROVE FALSE
  <2>1. S \cap T = T
    OBVIOUS
  <2> QED  BY <2>1
<1>1. B \in SUBSET SUBSET S
  OBVIOUS
<1>2. PICK U \in B : \A V \in SUBSET U : V # U => V \notin B
  <2> HIDE DEF B
  <2> QED  BY <1>1, SmallestSubset
<1>3. U # {} /\ IsFiniteSet(U) /\ IsFiniteSet(U \cap T)
  <2>1. {} \cap T = {}
    OBVIOUS
  <2> QED  BY <2>1, FS_Subset
<1> DEFINE c == First(U)
           V == U \ {c}
<1>4. c \in U
  BY <1>3, FirstIn
<1>5. V \in SUBSET U /\ V # U /\ V \in SUBSET S
  BY <1>4
<1>6. SumFunctionOnSet(f, V) = SumFunctionOnSet(f, V \cap T)
  BY <1>2, <1>5
<1>7. SumFunctionOnSet(f, U) = f[c] + SumFunctionOnSet(f, V)
  BY <1>3, SumFirst
<1>8. CASE c \in T
  <2>1. (U \cap T) \ {c} = V \cap T /\ c \in U \cap T
    BY <1>4, <1>8
  <2>2. \A x \in U \cap T : f[x] \in Int
    OBVIOUS
  <2>3. SumFunctionOnSet(f, U \cap T) = f[c] + SumFunctionOnSet(f, (U \cap T) \ {c})
    BY <1>3, <2>1, <2>2, SumTakeOut
  <2> QED  BY <1>6, <1>7, <2>1, <2>3
<1>9. CASE c \notin T
  <2>1. U \cap T = V \cap T
    BY <1>9
  <2>2. IsFiniteSet(V) /\ f[c] = 0
    BY <1>3, <1>4, <1>9, FS_Subset
  <2>3. SumFunctionOnSet(f, V) \in Int
    BY <1>5, <2>2, SumInt
  <2>4. SumFunctionOnSet(f, U) = SumFunctionOnSet(f, V)
    BY ONLY <1>7, <2>2, <2>3
  <2>5. SumFunctionOnSet(f, U) = SumFunctionOnSet(f, U \cap T)
    BY ONLY <1>6, <2>1, <2>4
  <2> QED  BY <2>5
<1> QED  BY <1>8, <1>9

\* A sum of naturals is one.
LEMMA SumNat ==
  ASSUME NEW S, IsFiniteSet(S), NEW f, \A x \in S : f[x] \in Nat
  PROVE  SumFunctionOnSet(f, S) \in Nat
<1> DEFINE B == {T \in SUBSET S : SumFunctionOnSet(f, T) \notin Nat}
<1> SUFFICES ASSUME B # {} PROVE FALSE
  OBVIOUS
<1>1. B \in SUBSET SUBSET S
  OBVIOUS
<1>2. PICK T \in B : \A U \in SUBSET T : U # T => U \notin B
  <2> HIDE DEF B
  <2> QED  BY <1>1, SmallestSubset
<1>3. T # {} /\ IsFiniteSet(T)
  <2>1. T # {}
    BY SumEmpty
  <2> QED  BY <2>1, FS_Subset
<1>4. First(T) \in T
  BY <1>3, FirstIn
<1>5. T \ {First(T)} \in SUBSET T /\ T \ {First(T)} # T
  BY <1>4
<1>6. SumFunctionOnSet(f, T \ {First(T)}) \in Nat
  BY <1>2, <1>5
<1>7. SumFunctionOnSet(f, T) = f[First(T)] + SumFunctionOnSet(f, T \ {First(T)})
  BY <1>3, SumFirst
<1>8. f[First(T)] \in Nat
  BY <1>4
<1> QED  BY <1>6, <1>7, <1>8

LEMMA SumPlus ==
  ASSUME NEW S, IsFiniteSet(S), NEW f, NEW g, NEW h,
         \A x \in S : f[x] \in Int /\ g[x] \in Int /\ h[x] = f[x] + g[x]
  PROVE  SumFunctionOnSet(h, S) = SumFunctionOnSet(f, S) + SumFunctionOnSet(g, S)
<1> DEFINE B == {T \in SUBSET S :
             SumFunctionOnSet(h, T) # SumFunctionOnSet(f, T) + SumFunctionOnSet(g, T)}
<1> SUFFICES ASSUME B # {} PROVE FALSE
  OBVIOUS
<1>1. B \in SUBSET SUBSET S
  OBVIOUS
<1>2. PICK T \in B : \A U \in SUBSET T : U # T => U \notin B
  <2> HIDE DEF B
  <2> QED  BY <1>1, SmallestSubset
<1>3. T # {} /\ IsFiniteSet(T)
  <2>1. T # {}
    <3>1. /\ SumFunctionOnSet(f, {}) = 0 /\ SumFunctionOnSet(g, {}) = 0
          /\ SumFunctionOnSet(h, {}) = 0
      BY SumEmpty
    <3>2. SumFunctionOnSet(h, {}) = SumFunctionOnSet(f, {}) + SumFunctionOnSet(g, {})
      BY ONLY <3>1
    <3> QED  BY <3>2
  <2> QED  BY <2>1, FS_Subset
<1> DEFINE c == First(T)
           U == T \ {c}
<1>4. c \in T
  BY <1>3, FirstIn
<1>5. U \in SUBSET T /\ U # T /\ IsFiniteSet(U)
  BY <1>3, <1>4, FS_Subset
<1>6. SumFunctionOnSet(h, U) = SumFunctionOnSet(f, U) + SumFunctionOnSet(g, U)
  BY <1>2, <1>5
<1>7. /\ SumFunctionOnSet(h, T) = h[c] + SumFunctionOnSet(h, U)
      /\ SumFunctionOnSet(f, T) = f[c] + SumFunctionOnSet(f, U)
      /\ SumFunctionOnSet(g, T) = g[c] + SumFunctionOnSet(g, U)
  BY <1>3, SumFirst
<1>8. f[c] \in Int /\ g[c] \in Int /\ h[c] = f[c] + g[c]
  BY <1>4
<1>9. \A x \in U : f[x] \in Int /\ g[x] \in Int
  OBVIOUS
<1>10. SumFunctionOnSet(f, U) \in Int /\ SumFunctionOnSet(g, U) \in Int
  BY <1>5, <1>9, SumInt
<1>11. SumFunctionOnSet(h, T) # SumFunctionOnSet(f, T) + SumFunctionOnSet(g, T)
  BY <1>2
<1> HIDE DEF U, c
<1> QED  BY ONLY <1>6, <1>7, <1>8, <1>10, <1>11

\* A sum is that of a part and that of the rest.
LEMMA SumSplit ==
  ASSUME NEW S, IsFiniteSet(S), NEW T \in SUBSET S, NEW f, \A x \in S : f[x] \in Int
  PROVE  SumFunctionOnSet(f, S) = SumFunctionOnSet(f, T) + SumFunctionOnSet(f, S \ T)
<1> DEFINE U == S \ T
           g == [x \in S |-> IF x \in T THEN f[x] ELSE 0]
           h == [x \in S |-> IF x \in T THEN 0 ELSE f[x]]
<1>1. U \in SUBSET S /\ IsFiniteSet(T) /\ IsFiniteSet(U)
  BY FS_Subset
<1>2. \A x \in S : g[x] \in Int /\ h[x] \in Int /\ f[x] = g[x] + h[x]
  OBVIOUS
<1>3. /\ \A x \in S \ T : g[x] = 0
      /\ \A x \in S \ U : h[x] = 0
      /\ \A x \in T : g[x] = f[x]
      /\ \A x \in U : h[x] = f[x]
  OBVIOUS
<1> HIDE DEF g, h
<1>4. SumFunctionOnSet(f, S) = SumFunctionOnSet(g, S) + SumFunctionOnSet(h, S)
  BY <1>2, SumPlus
<1>5. SumFunctionOnSet(g, S) = SumFunctionOnSet(g, T)
  BY <1>2, <1>3, SumRestrict
<1>6. SumFunctionOnSet(h, S) = SumFunctionOnSet(h, U)
  <2> HIDE DEF U
  <2> QED  BY <1>1, <1>2, <1>3, SumRestrict
<1>7. SumFunctionOnSet(g, T) = SumFunctionOnSet(f, T)
  BY <1>1, <1>3, SumSame
<1>8. SumFunctionOnSet(h, U) = SumFunctionOnSet(f, U)
  BY <1>1, <1>3, SumSame
<1> QED  BY <1>4, <1>5, <1>6, <1>7, <1>8

\* `part` holds the sum of each group of S.
Keyed(S, key, k) == {x \in S : key[x] = k}
SumsOfGroups(part, f, S, key, K) == \A k \in K : part[k] = SumFunctionOnSet(f, Keyed(S, key, k))

\* What is summed by groups is summed.
LEMMA SumOfParts ==
  ASSUME NEW S, IsFiniteSet(S), NEW K, IsFiniteSet(K),
         NEW key, \A x \in S : key[x] \in K,
         NEW f, \A x \in S : f[x] \in Int,
         NEW part, SumsOfGroups(part, f, S, key, K)
  PROVE  SumFunctionOnSet(part, K) = SumFunctionOnSet(f, S)
<1> USE DEF SumsOfGroups, Keyed
<1> DEFINE of(T) == {x \in S : key[x] \in T}
           B == {T \in SUBSET K : SumFunctionOnSet(part, T) # SumFunctionOnSet(f, of(T))}
<1> SUFFICES ASSUME B # {} PROVE FALSE
  <2>1. of(K) = S
    OBVIOUS
  <2>2. K \notin B
    OBVIOUS
  <2> QED  BY <2>1, <2>2
<1>1. B \in SUBSET SUBSET K
  OBVIOUS
<1>2. PICK T \in B : \A U \in SUBSET T : U # T => U \notin B
  <2> HIDE DEF B
  <2> QED  BY <1>1, SmallestSubset
<1>3. T # {} /\ IsFiniteSet(T)
  <2>1. of({}) = {}
    OBVIOUS
  <2>2. SumFunctionOnSet(part, {}) = 0 /\ SumFunctionOnSet(f, {}) = 0
    BY SumEmpty
  <2>3. {} \notin B
    BY <2>1, <2>2
  <2> QED  BY <2>3, FS_Subset
<1>4. PICK k : k \in T
  BY <1>3
<1> DEFINE U == T \ {k}
           fiber == {x \in S : key[x] = k}
<1>5. U \in SUBSET T /\ U # T /\ U \in SUBSET K /\ IsFiniteSet(U)
  BY <1>3, <1>4, FS_Subset
<1>6. SumFunctionOnSet(part, U) = SumFunctionOnSet(f, of(U))
  BY <1>2, <1>5
<1>7. of(T) \in SUBSET S /\ fiber \in SUBSET of(T) /\ of(T) \ fiber = of(U) /\ k \in K
  BY <1>4
<1>8. \A j \in T : part[j] \in Int
  <2> TAKE j \in T
  <2> DEFINE F == {x \in S : key[x] = j}
  <2>1. IsFiniteSet(F) /\ \A x \in F : f[x] \in Int
    BY FS_Subset
  <2>2. SumFunctionOnSet(f, F) \in Int
    <3> HIDE DEF F
    <3> QED  BY <2>1, SumInt
  <2>3. j \in K
    OBVIOUS
  <2> QED  BY <2>2, <2>3
<1>9. SumFunctionOnSet(part, T) = part[k] + SumFunctionOnSet(part, U)
  BY <1>3, <1>4, <1>8, SumTakeOut
<1>10. SumFunctionOnSet(f, of(T)) = SumFunctionOnSet(f, fiber) + SumFunctionOnSet(f, of(U))
  <2>1. IsFiniteSet(of(T)) /\ \A x \in of(T) : f[x] \in Int
    BY <1>7, FS_Subset
  <2>2. \A X \in SUBSET of(T) : SumFunctionOnSet(f, of(T)) = SumFunctionOnSet(f, X) + SumFunctionOnSet(f, of(T) \ X)
    <3> DEFINE Y == of(T)
    <3>1. IsFiniteSet(Y) /\ \A x \in Y : f[x] \in Int
      BY <2>1
    <3> HIDE DEF Y
    <3>2. \A X \in SUBSET Y : SumFunctionOnSet(f, Y) = SumFunctionOnSet(f, X) + SumFunctionOnSet(f, Y \ X)
      BY <3>1, SumSplit
    <3> QED  BY <3>2 DEF Y
  <2> QED  BY <1>7, <2>2
<1>11. part[k] = SumFunctionOnSet(f, fiber)
  BY <1>7
<1>12. SumFunctionOnSet(part, T) # SumFunctionOnSet(f, of(T))
  OBVIOUS
<1> HIDE DEF U, fiber, of
<1> QED  BY ONLY <1>6, <1>9, <1>10, <1>11, <1>12

\* A set is counted by summing ones.
LEMMA CountIsSum ==
  ASSUME NEW S, IsFiniteSet(S), NEW f, \A x \in S : f[x] = 1
  PROVE  Cardinality(S) = SumFunctionOnSet(f, S)
<1> DEFINE B == {T \in SUBSET S : Cardinality(T) # SumFunctionOnSet(f, T)}
<1> SUFFICES ASSUME B # {} PROVE FALSE
  OBVIOUS
<1>1. B \in SUBSET SUBSET S
  OBVIOUS
<1>2. PICK T \in B : \A U \in SUBSET T : U # T => U \notin B
  <2> HIDE DEF B
  <2> QED  BY <1>1, SmallestSubset
<1>3. T # {} /\ IsFiniteSet(T)
  <2>1. {} \notin B
    BY SumEmpty, FS_EmptySet
  <2> QED  BY <2>1, FS_Subset
<1> DEFINE c == First(T)
           U == T \ {c}
<1>4. c \in T
  BY <1>3, FirstIn
<1>5. U \in SUBSET T /\ U # T
  BY <1>4
<1>6. Cardinality(U) = SumFunctionOnSet(f, U)
  BY <1>2, <1>5
<1>7. SumFunctionOnSet(f, T) = f[c] + SumFunctionOnSet(f, U)
  BY <1>3, SumFirst
<1>8. Cardinality(U) = Cardinality(T) - 1 /\ Cardinality(T) \in Nat
  BY <1>3, <1>4, FS_RemoveElement, FS_CardinalityType
<1>9. f[c] = 1 /\ Cardinality(T) # SumFunctionOnSet(f, T)
  BY <1>4
<1> HIDE DEF U, c
<1> QED  BY ONLY <1>6, <1>7, <1>8, <1>9

\* What is counted by groups is counted.
CountsOfGroups(part, S, key, K) == \A k \in K : part[k] = Cardinality(Keyed(S, key, k))

LEMMA CountOfParts ==
  ASSUME NEW S, IsFiniteSet(S), NEW K, IsFiniteSet(K),
         NEW key, \A x \in S : key[x] \in K,
         NEW part, CountsOfGroups(part, S, key, K)
  PROVE  SumFunctionOnSet(part, K) = Cardinality(S)
<1> DEFINE f == [x \in S |-> 1]
<1>1. \A x \in S : f[x] = 1
  OBVIOUS
<1> HIDE DEF f
<1>2. \A T \in SUBSET S : Cardinality(T) = SumFunctionOnSet(f, T)
  <2> TAKE T \in SUBSET S
  <2>1. IsFiniteSet(T) /\ \A x \in T : f[x] = 1
    BY <1>1, FS_Subset
  <2> QED  BY <2>1, CountIsSum
<1>3. SumsOfGroups(part, f, S, key, K)
  BY <1>2 DEF SumsOfGroups, CountsOfGroups, Keyed
<1>4. \A x \in S : f[x] \in Int
  BY <1>1
<1>5. SumFunctionOnSet(part, K) = SumFunctionOnSet(f, S)
  <2>1. IsFiniteSet(S) /\ IsFiniteSet(K) /\ \A x \in S : key[x] \in K
    OBVIOUS
  <2> QED  BY ONLY <1>3, <1>4, <2>1, SumOfParts
<1> QED  BY <1>2, <1>5

-----------------------------------------------------------------------------
(* Sets of numbers.                                                         *)

\* A set of numbers has a smallest one.
LEMMA SmallestOf ==
  ASSUME NEW S \in SUBSET Nat, S # {}
  PROVE  \E m \in S : \A n \in S : m <= n
<1>1. PICK R : R = OpToRel(<, Nat)
  OBVIOUS
<1>2. IsWellFoundedOn(R, Nat)
  BY <1>1, NatLessThanWellFounded
<1>3. \A a, b \in Nat : a < b => <<a, b>> \in R
  BY <1>1 DEF OpToRel
<1>4. PICK m \in S : \A n \in S : ~ (<<n, m>> \in R)
  BY <1>2, WFMin
<1>5. ASSUME NEW n \in S PROVE m <= n
  <2>1. m \in Nat /\ n \in Nat /\ ~(n < m)
    BY <1>3, <1>4
  <2> QED  BY ONLY <2>1
<1> QED  BY <1>5

\* ... and a largest one, if it is bounded.
LEMMA LargestOf ==
  ASSUME NEW N \in Nat, NEW S \in SUBSET (1..N), S # {}
  PROVE  \E m \in S : \A n \in S : n <= m
<1> DEFINE T == {N - n : n \in S}
<1>1. T \in SUBSET Nat /\ T # {}
  <2>1. ASSUME NEW n \in S PROVE N - n \in Nat
    <3>1. n \in 1..N
      OBVIOUS
    <3> QED  BY ONLY N \in Nat, <3>1
  <2> QED  BY <2>1
<1> HIDE DEF T
<1>2. PICK d \in T : \A e \in T : d <= e
  BY <1>1, SmallestOf
<1>3. PICK m \in S : d = N - m
  BY DEF T
<1>4. ASSUME NEW n \in S PROVE n <= m
  <2>1. N - m <= N - n
    BY <1>2, <1>3 DEF T
  <2>2. m \in 1..N /\ n \in 1..N
    OBVIOUS
  <2> QED  BY ONLY N \in Nat, <2>1, <2>2
<1> QED  BY <1>4
=============================================================================
