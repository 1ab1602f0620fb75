-------------------------- MODULE CollectionTheorems --------------------------
(***************************************************************************)
(* What the proofs need to know of operators of the community modules:     *)
(* SumFunctionOnSet, for any function and any finite set, and RemoveAt and *)
(* InsertAt, for any sequence.                                             *)
(*                                                                         *)
(* SumFunctionOnSet is a fold, and a fold a recursive function on the      *)
(* subsets of a set. Where the textbook argues by induction over the set,  *)
(* these proofs look at a smallest subset of which the claim is false:     *)
(* strict inclusion is well founded on the subsets of a finite set.        *)
(***************************************************************************)
EXTENDS SequencesExt, WellFoundedInduction, FiniteSetTheorems, SequenceTheorems, TLAPS

\* A nonempty set of subsets of a finite set has a smallest element.
LEMMA SmallestSubset ==
    ASSUME NEW S, IsFiniteSet(S), NEW Bad \in SUBSET SUBSET S, Bad # {}
    PROVE  \E T \in Bad : \A U \in Bad : U \subseteq T => U = T
<1>1. IsWellFoundedOn(StrictSubsetOrdering(S), FiniteSubsetsOf(S))
  BY FS_StrictSubsetOrderingWellFounded
<1>2. FiniteSubsetsOf(S) = SUBSET S
  BY FS_FiniteSubsetsOfFinite
<1>3. PICK T \in Bad : \A U \in Bad : ~(<<U, T>> \in StrictSubsetOrdering(S))
  BY <1>1, <1>2, WFMin
<1>4. QED BY <1>3 DEF StrictSubsetOrdering

\* A nonempty set of natural numbers has a smallest element.
LEMMA SmallestNumber ==
    ASSUME NEW S \in SUBSET Nat, S # {}
    PROVE  \E m \in S : \A n \in S : m <= n
<1>1. PICK k \in S : TRUE
  OBVIOUS
<1> DEFINE Bad == {T \in SUBSET (0..k) : \E n \in S : T = 0..n}
<1>2. Bad \in SUBSET SUBSET (0..k) /\ 0..k \in Bad /\ k \in Nat
  BY <1>1
<1>3. IsFiniteSet(0..k)
  BY <1>2, FS_Interval
<1>4. PICK T \in Bad : \A U \in Bad : U \subseteq T => U = T
  <2> DEFINE I == 0..k
  <2>1. IsFiniteSet(I) /\ Bad \in SUBSET SUBSET I /\ Bad # {}
    BY <1>2, <1>3
  <2> HIDE DEF Bad, I
  <2>2. QED BY <2>1, SmallestSubset
<1>5. PICK m \in S : T = 0..m
  BY <1>4
<1>6. m \in Nat /\ m <= k
  <2>1. m \in Nat /\ m \in 0..m
    OBVIOUS
  <2>2. m \in 0..k
    BY <1>4, <1>5, <2>1
  <2>3. QED BY <2>1, <2>2
<1>7. ASSUME NEW n \in S, ~(m <= n) PROVE FALSE
  <2>1. n \in Nat /\ n < m
    BY <1>6, <1>7
  <2>2. 0..n \subseteq 0..k /\ 0..n \subseteq T
    BY <1>2, <1>5, <1>6, <2>1
  <2>3. 0..n = T
    <3>1. 0..n \in Bad
      BY <1>7, <2>2
    <3>2. QED BY <1>4, <2>2, <3>1
  <2>4. m \in 0..m /\ m \notin 0..n
    BY <1>6, <2>1
  <2>5. QED BY <1>5, <2>3, <2>4
<1>8. QED BY <1>7

-----------------------------------------------------------------------------
(* The recursive function of the fold *)

Chosen(s) == CHOOSE x \in s : TRUE

\* What the fold makes of a subset s, given what it makes of smaller ones.
Unfolded(f, sum, s) == IF s = {} THEN 0 ELSE f[Chosen(s)] + sum[s \ {Chosen(s)}]

\* A function on the subsets of S that satisfies the equation of the fold.
Solves(sum, f, S) == sum = [s \in SUBSET S |-> Unfolded(f, sum, s)]

LEMMA ChosenIsElement == \A s : s # {} => Chosen(s) \in s
BY DEF Chosen

\* Two solutions agree wherever both are defined.
LEMMA SolutionsAgree ==
    ASSUME NEW f, NEW S, NEW T, IsFiniteSet(S), NEW sum, NEW tum,
           Solves(sum, f, S), Solves(tum, f, T)
    PROVE  \A u \in SUBSET S : u \in SUBSET T => sum[u] = tum[u]
<1> DEFINE Bad == {u \in SUBSET S : u \in SUBSET T /\ sum[u] # tum[u]}
<1>1. SUFFICES ASSUME Bad # {} PROVE FALSE
  OBVIOUS
<1>2. PICK u \in Bad : \A v \in Bad : v \subseteq u => v = u
  <2>1. Bad \in SUBSET SUBSET S
    OBVIOUS
  <2> HIDE DEF Bad
  <2>2. QED BY <1>1, <2>1, SmallestSubset
<1>3. u # {} => sum[u \ {Chosen(u)}] = tum[u \ {Chosen(u)}]
  BY <1>2, ChosenIsElement
<1>4. sum[u] = Unfolded(f, sum, u) /\ tum[u] = Unfolded(f, tum, u)
  BY DEF Solves
<1>5. QED BY <1>2, <1>3, <1>4 DEF Unfolded

\* The equation has a solution on every finite set.
LEMMA SolutionExists ==
    ASSUME NEW f, NEW S, IsFiniteSet(S)
    PROVE  \E sum : Solves(sum, f, S)
<1> DEFINE Bad == {u \in SUBSET S : ~ \E sum : Solves(sum, f, u)}
<1>1. SUFFICES ASSUME Bad # {} PROVE FALSE
  OBVIOUS
<1>2. PICK T \in Bad : \A u \in Bad : u \subseteq T => u = T
  <2>1. Bad \in SUBSET SUBSET S
    OBVIOUS
  <2> HIDE DEF Bad
  <2>2. QED BY <1>1, <2>1, SmallestSubset
<1> DEFINE below(u) == CHOOSE sum : Solves(sum, f, u)
           value(u) == below(u)[u]
           sum == [u \in SUBSET T |->
                     IF u = T THEN IF T = {} THEN 0 ELSE f[Chosen(T)] + value(T \ {Chosen(T)})
                     ELSE value(u)]
<1>3. ASSUME NEW u \in SUBSET T, u # T PROVE Solves(below(u), f, u)
  BY <1>2, <1>3
<1>4. ASSUME NEW u \in SUBSET T, u # T, u # {}
      PROVE  value(u) = f[Chosen(u)] + value(u \ {Chosen(u)})
  <2> DEFINE v == u \ {Chosen(u)}
  <2>1. v \in SUBSET u /\ v \in SUBSET T /\ v # T
    BY <1>4, ChosenIsElement
  <2>2. Solves(below(u), f, u) /\ Solves(below(v), f, v)
    BY <1>3, <1>4, <2>1
  <2>3. IsFiniteSet(u)
    BY FS_Subset
  <2>4. below(u)[v] = below(v)[v]
    <3> HIDE DEF below, v
    <3> QED BY <2>1, <2>2, <2>3, SolutionsAgree
  <2>5. below(u)[u] = Unfolded(f, below(u), u)
    <3> HIDE DEF below
    <3> QED BY <2>2 DEF Solves
  <2>6. QED BY <1>4, <2>4, <2>5 DEF Unfolded
<1>5. ASSUME NEW u \in SUBSET T, u = {}, u # T PROVE value(u) = 0
  <2>1. below(u)[u] = Unfolded(f, below(u), u)
    <3> HIDE DEF below
    <3> QED BY <1>3, <1>5 DEF Solves
  <2>2. QED BY <2>1, <1>5 DEF Unfolded
<1>6. ASSUME NEW u \in SUBSET T PROVE sum[u] = Unfolded(f, sum, u)
  <2> HIDE DEF value
  <2>1. u # {} => u \ {Chosen(u)} \in SUBSET T /\ u \ {Chosen(u)} # T
    BY ChosenIsElement
  <2>2. CASE u = T
    BY <2>1, <2>2 DEF Unfolded
  <2>3. CASE u # T /\ u = {}
    BY <1>5, <2>3 DEF Unfolded
  <2>4. CASE u # T /\ u # {}
    BY <1>4, <2>1, <2>4 DEF Unfolded
  <2>5. QED BY <2>2, <2>3, <2>4
<1>7. Solves(sum, f, T)
  <2> HIDE DEF value
  <2>1. sum = [u \in SUBSET T |-> sum[u]]
    OBVIOUS
  <2>2. QED BY <1>6, <2>1 DEF Solves
<1>8. QED BY <1>2, <1>7

\* The fold is the value of a solution at the whole set.
LEMMA FoldIsSolution ==
    ASSUME NEW f, NEW S, IsFiniteSet(S)
    PROVE  \E sum : Solves(sum, f, S) /\ SumFunctionOnSet(f, S) = sum[S]
<1> DEFINE fold == CHOOSE sum : sum = [s \in SUBSET S |->
                     IF s = {} THEN 0
                     ELSE f[CHOOSE x \in s : TRUE] + sum[s \ {CHOOSE x \in s : TRUE}]]
<1>1. SumFunctionOnSet(f, S) = fold[S]
  BY Zenon DEF SumFunctionOnSet, FoldFunctionOnSet, MapThenFoldSet
<1>2. Solves(fold, f, S)
  <2>1. PICK sum : Solves(sum, f, S)
    BY SolutionExists
  <2>2. sum = [s \in SUBSET S |->
                     IF s = {} THEN 0
                     ELSE f[CHOOSE x \in s : TRUE] + sum[s \ {CHOOSE x \in s : TRUE}]]
    BY <2>1 DEF Solves, Unfolded, Chosen
  <2>3. fold = [s \in SUBSET S |->
                     IF s = {} THEN 0
                     ELSE f[CHOOSE x \in s : TRUE] + fold[s \ {CHOOSE x \in s : TRUE}]]
    BY <2>2, Zenon
  <2>4. QED BY <2>3, Zenon DEF Solves, Unfolded, Chosen
<1>3. QED BY <1>1, <1>2

\* The sum over a finite set by the element the fold takes first.
LEMMA SumUnfolds ==
    ASSUME NEW f, NEW S, IsFiniteSet(S), S # {}
    PROVE  SumFunctionOnSet(f, S)
             = f[Chosen(S)] + SumFunctionOnSet(f, S \ {Chosen(S)})
<1> DEFINE T == S \ {Chosen(S)}
<1>1. T \in SUBSET S /\ IsFiniteSet(T)
  BY FS_Subset
<1>2. PICK sum : Solves(sum, f, S) /\ SumFunctionOnSet(f, S) = sum[S]
  BY FoldIsSolution
<1>3. PICK tum : Solves(tum, f, T) /\ SumFunctionOnSet(f, T) = tum[T]
  <2> HIDE DEF T
  <2> QED BY <1>1, FoldIsSolution
<1>4. tum[T] = sum[T]
  <2> HIDE DEF T
  <2> QED BY <1>1, <1>2, <1>3, SolutionsAgree
<1>5. sum[S] = f[Chosen(S)] + sum[T]
  BY <1>2 DEF Solves, Unfolded
<1>6. QED BY <1>2, <1>3, <1>4, <1>5

-----------------------------------------------------------------------------
(* Sums over finite sets *)

\* The sum over no element.
LEMMA SumEmpty == \A f : SumFunctionOnSet(f, {}) = 0
<1>1. SUFFICES ASSUME NEW f PROVE SumFunctionOnSet(f, {}) = 0
  OBVIOUS
<1>2. PICK sum : Solves(sum, f, {}) /\ SumFunctionOnSet(f, {}) = sum[{}]
  BY FoldIsSolution, FS_EmptySet
<1>3. QED BY <1>2 DEF Solves, Unfolded

\* A sum of integers is an integer.
LEMMA SumType ==
    ASSUME NEW S, IsFiniteSet(S), NEW f, \A x \in S : f[x] \in Int
    PROVE  SumFunctionOnSet(f, S) \in Int
<1> DEFINE Bad == {T \in SUBSET S : SumFunctionOnSet(f, T) \notin Int}
<1>1. SUFFICES ASSUME Bad # {} PROVE FALSE
  OBVIOUS
<1>2. PICK T \in Bad : \A U \in Bad : U \subseteq T => U = T
  <2>1. Bad \in SUBSET SUBSET S
    OBVIOUS
  <2> HIDE DEF Bad
  <2>2. QED BY <1>1, <2>1, SmallestSubset
<1>3. T # {}
  BY <1>2, SumEmpty
<1>4. Chosen(T) \in T /\ SumFunctionOnSet(f, T \ {Chosen(T)}) \in Int
  BY <1>2, <1>3, ChosenIsElement
<1>5. SumFunctionOnSet(f, T) = f[Chosen(T)] + SumFunctionOnSet(f, T \ {Chosen(T)})
  BY <1>3, SumUnfolds, FS_Subset
<1>6. QED BY <1>2, <1>4, <1>5

\* Any element may be taken out of a sum.
LEMMA SumTakeOut ==
    ASSUME NEW S, IsFiniteSet(S), NEW f, \A x \in S : f[x] \in Int, NEW x \in S
    PROVE  SumFunctionOnSet(f, S) = f[x] + SumFunctionOnSet(f, S \ {x})
<1> DEFINE Bad == {T \in SUBSET S : \E y \in T :
                     SumFunctionOnSet(f, T) # f[y] + SumFunctionOnSet(f, T \ {y})}
<1>1. SUFFICES ASSUME Bad # {} PROVE FALSE
  OBVIOUS
<1>2. PICK T \in Bad : \A U \in Bad : U \subseteq T => U = T
  <2>1. Bad \in SUBSET SUBSET S
    OBVIOUS
  <2> HIDE DEF Bad
  <2>2. QED BY <1>1, <2>1, SmallestSubset
<1>3. PICK y \in T : SumFunctionOnSet(f, T) # f[y] + SumFunctionOnSet(f, T \ {y})
  BY <1>2
<1> DEFINE c == Chosen(T)
<1>4. c \in T /\ T \in SUBSET S
  BY <1>2, <1>3, ChosenIsElement
<1>5. SumFunctionOnSet(f, T) = f[c] + SumFunctionOnSet(f, T \ {c})
  BY <1>3, SumUnfolds, FS_Subset
<1>6. c # y
  BY <1>3, <1>5
<1>7. T \ {c} \notin Bad /\ T \ {y} \notin Bad
  BY <1>2, <1>3, <1>4
<1>8. /\ SumFunctionOnSet(f, T \ {c}) = f[y] + SumFunctionOnSet(f, (T \ {c}) \ {y})
      /\ SumFunctionOnSet(f, T \ {y}) = f[c] + SumFunctionOnSet(f, (T \ {y}) \ {c})
  BY <1>3, <1>4, <1>6, <1>7
<1>9. (T \ {c}) \ {y} = (T \ {y}) \ {c}
  OBVIOUS
<1>10. SumFunctionOnSet(f, (T \ {c}) \ {y}) \in Int
  <2> DEFINE U == (T \ {c}) \ {y}
  <2>1. IsFiniteSet(U) /\ \A z \in U : f[z] \in Int
    BY <1>4, FS_Subset
  <2>2. SumFunctionOnSet(f, U) \in Int
    <3> HIDE DEF U
    <3> QED BY <2>1, SumType
  <2>3. QED BY <2>2
<1> HIDE DEF c
<1>11. f[c] \in Int /\ f[y] \in Int
  BY <1>3, <1>4
<1> DEFINE rest == SumFunctionOnSet(f, (T \ {c}) \ {y})
<1>12. /\ SumFunctionOnSet(f, T) = f[c] + (f[y] + rest)
       /\ SumFunctionOnSet(f, T \ {y}) = f[c] + rest
  BY <1>5, <1>8, <1>9
<1>13. f[c] + (f[y] + rest) = f[y] + (f[c] + rest)
  <2> HIDE DEF rest
  <2> QED BY <1>10, <1>11 DEF rest
<1>14. QED BY <1>3, <1>12, <1>13

\* One function nowhere above another has no larger sum.
LEMMA SumMonotone ==
    ASSUME NEW S, IsFiniteSet(S), NEW f, NEW g,
           \A x \in S : f[x] \in Int /\ g[x] \in Int /\ f[x] <= g[x]
    PROVE  SumFunctionOnSet(f, S) <= SumFunctionOnSet(g, S)
<1> DEFINE Bad == {T \in SUBSET S : ~(SumFunctionOnSet(f, T) <= SumFunctionOnSet(g, T))}
<1>1. SUFFICES ASSUME Bad # {} PROVE FALSE
  OBVIOUS
<1>2. PICK T \in Bad : \A U \in Bad : U \subseteq T => U = T
  <2>1. Bad \in SUBSET SUBSET S
    OBVIOUS
  <2> HIDE DEF Bad
  <2>2. QED BY <1>1, <2>1, SmallestSubset
<1>3. T # {}
  <2>1. ~(SumFunctionOnSet(f, T) <= SumFunctionOnSet(g, T))
    BY <1>2
  <2>2. CASE T = {}
    <3>1. SumFunctionOnSet(f, T) = 0 /\ SumFunctionOnSet(g, T) = 0
      BY <2>2, SumEmpty
    <3>2. QED BY <2>1, <3>1
  <2>3. QED BY <2>2
<1> DEFINE c == Chosen(T)
           U == T \ {c}
<1>4. c \in T /\ U \in SUBSET S /\ U \notin Bad
  BY <1>2, <1>3, ChosenIsElement
<1>5. SumFunctionOnSet(f, U) <= SumFunctionOnSet(g, U)
  BY <1>4
<1>6. IsFiniteSet(T) /\ IsFiniteSet(U)
  BY <1>4, FS_Subset
<1>7. /\ SumFunctionOnSet(f, T) = f[c] + SumFunctionOnSet(f, U)
      /\ SumFunctionOnSet(g, T) = g[c] + SumFunctionOnSet(g, U)
  BY <1>3, <1>6, SumUnfolds
<1>8. SumFunctionOnSet(f, U) \in Int /\ SumFunctionOnSet(g, U) \in Int
  <2> HIDE DEF U
  <2> QED BY <1>4, <1>6, SumType
<1> HIDE DEF c, U
<1>9. QED BY <1>2, <1>4, <1>5, <1>7, <1>8

\* Only the values on the set matter.
LEMMA SumEqual ==
    ASSUME NEW S, IsFiniteSet(S), NEW f, NEW g, \A x \in S : f[x] \in Int /\ f[x] = g[x]
    PROVE  SumFunctionOnSet(f, S) = SumFunctionOnSet(g, S)
<1>1. \A x \in S : f[x] \in Int /\ g[x] \in Int /\ f[x] <= g[x] /\ g[x] <= f[x]
  OBVIOUS
<1>2. SumFunctionOnSet(f, S) \in Int /\ SumFunctionOnSet(g, S) \in Int
  BY <1>1, SumType
<1>3. /\ SumFunctionOnSet(f, S) <= SumFunctionOnSet(g, S)
      /\ SumFunctionOnSet(g, S) <= SumFunctionOnSet(f, S)
  BY <1>1, SumMonotone
<1>4. QED BY <1>2, <1>3

\* A sum of naturals is a natural, and covers each of them.
LEMMA SumOfNaturals ==
    ASSUME NEW S, IsFiniteSet(S), NEW f, \A x \in S : f[x] \in Nat
    PROVE  /\ SumFunctionOnSet(f, S) \in Nat
           /\ \A x \in S : f[x] <= SumFunctionOnSet(f, S)
<1> DEFINE zero == [x \in S |-> 0]
<1>1. ASSUME NEW T \in SUBSET S PROVE SumFunctionOnSet(f, T) \in Nat
  <2>1. IsFiniteSet(T)
    BY FS_Subset
  <2>2. SumFunctionOnSet(zero, T) = 0
    <3> DEFINE Bad == {U \in SUBSET T : SumFunctionOnSet(zero, U) # 0}
    <3>1. SUFFICES ASSUME Bad # {} PROVE FALSE
      OBVIOUS
    <3>2. PICK U \in Bad : \A V \in Bad : V \subseteq U => V = U
      <4>1. Bad \in SUBSET SUBSET T
        OBVIOUS
      <4> HIDE DEF Bad
      <4>2. QED BY <2>1, <3>1, <4>1, SmallestSubset
    <3>3. U # {}
      BY <3>2, SumEmpty
    <3>4. Chosen(U) \in U /\ IsFiniteSet(U)
      BY <2>1, <3>2, <3>3, ChosenIsElement, FS_Subset
    <3>5. SumFunctionOnSet(zero, U)
            = zero[Chosen(U)] + SumFunctionOnSet(zero, U \ {Chosen(U)})
      <4> HIDE DEF zero
      <4> QED BY <3>3, <3>4, SumUnfolds
    <3>6. SumFunctionOnSet(zero, U \ {Chosen(U)}) = 0
      <4> HIDE DEF zero
      <4> QED BY <3>2, <3>4
    <3>7. QED BY <3>2, <3>4, <3>5, <3>6
  <2>3. SumFunctionOnSet(zero, T) <= SumFunctionOnSet(f, T) /\ SumFunctionOnSet(f, T) \in Int
    <3>1. \A x \in T : zero[x] \in Int /\ f[x] \in Int /\ zero[x] <= f[x]
      OBVIOUS
    <3> HIDE DEF zero
    <3>2. QED BY <2>1, <3>1, SumMonotone, SumType
  <2>4. QED BY <2>2, <2>3
<1>2. ASSUME NEW x \in S PROVE f[x] <= SumFunctionOnSet(f, S)
  <2>1. SumFunctionOnSet(f, S) = f[x] + SumFunctionOnSet(f, S \ {x})
    BY SumTakeOut
  <2>2. SumFunctionOnSet(f, S \ {x}) \in Nat
    BY <1>1
  <2>3. f[x] \in Nat
    OBVIOUS
  <2>4. QED BY <2>1, <2>2, <2>3
<1>3. QED BY <1>1, <1>2

\* Changing the value of one element changes the sum by the difference.
LEMMA SumUpdate ==
    ASSUME NEW S, IsFiniteSet(S), NEW f, NEW g, NEW x \in S,
           \A y \in S : f[y] \in Int /\ g[y] \in Int,
           \A y \in S \ {x} : g[y] = f[y]
    PROVE  SumFunctionOnSet(g, S) = SumFunctionOnSet(f, S) - f[x] + g[x]
<1> DEFINE T == S \ {x}
<1>1. /\ SumFunctionOnSet(f, S) = f[x] + SumFunctionOnSet(f, T)
      /\ SumFunctionOnSet(g, S) = g[x] + SumFunctionOnSet(g, T)
  BY SumTakeOut
<1>2. IsFiniteSet(T) /\ \A y \in T : g[y] = f[y] /\ f[y] \in Int
  BY FS_Subset
<1> HIDE DEF T
<1>3. SumFunctionOnSet(f, T) = SumFunctionOnSet(g, T) /\ SumFunctionOnSet(f, T) \in Int
  BY <1>2, SumEqual, SumType
<1>4. f[x] \in Int /\ g[x] \in Int
  OBVIOUS
<1>5. QED BY <1>1, <1>3, <1>4

\* The sum of a function plus c times another one is the sum of the former
\* plus c times that of the latter.
LEMMA SumLinear ==
    ASSUME NEW S, IsFiniteSet(S), NEW f, NEW g, NEW h, NEW c \in Int,
           \A x \in S : f[x] \in Int /\ g[x] \in Int /\ h[x] = f[x] + c * g[x]
    PROVE  SumFunctionOnSet(h, S) = SumFunctionOnSet(f, S) + c * SumFunctionOnSet(g, S)
<1> DEFINE Bad == {T \in SUBSET S : SumFunctionOnSet(h, T)
                     # SumFunctionOnSet(f, T) + c * SumFunctionOnSet(g, T)}
<1>1. SUFFICES ASSUME Bad # {} PROVE FALSE
  OBVIOUS
<1>2. PICK T \in Bad : \A U \in Bad : U \subseteq T => U = T
  <2>1. Bad \in SUBSET SUBSET S
    OBVIOUS
  <2> HIDE DEF Bad
  <2>2. QED BY <1>1, <2>1, SmallestSubset
<1>3. T # {}
  <2>1. SumFunctionOnSet(h, T) # SumFunctionOnSet(f, T) + c * SumFunctionOnSet(g, T)
    BY <1>2
  <2>2. CASE T = {}
    <3>1. /\ SumFunctionOnSet(f, T) = 0 /\ SumFunctionOnSet(g, T) = 0
          /\ SumFunctionOnSet(h, T) = 0
      BY <2>2, SumEmpty
    <3>2. 0 = 0 + c * 0
      OBVIOUS
    <3>3. QED BY <2>1, <3>1, <3>2
  <2>3. QED BY <2>2
<1> DEFINE x == Chosen(T)
           U == T \ {x}
<1>4. x \in T /\ U \in SUBSET S /\ U \notin Bad
  BY <1>2, <1>3, ChosenIsElement
<1>5. SumFunctionOnSet(h, U) = SumFunctionOnSet(f, U) + c * SumFunctionOnSet(g, U)
  BY <1>4
<1>6. IsFiniteSet(T) /\ IsFiniteSet(U)
  BY <1>4, FS_Subset
<1>7. /\ SumFunctionOnSet(f, T) = f[x] + SumFunctionOnSet(f, U)
      /\ SumFunctionOnSet(g, T) = g[x] + SumFunctionOnSet(g, U)
      /\ SumFunctionOnSet(h, T) = h[x] + SumFunctionOnSet(h, U)
  BY <1>3, <1>6, SumUnfolds
<1>8. SumFunctionOnSet(f, U) \in Int /\ SumFunctionOnSet(g, U) \in Int
  <2> HIDE DEF U
  <2> QED BY <1>4, <1>6, SumType
<1>9. f[x] \in Int /\ g[x] \in Int /\ h[x] = f[x] + c * g[x]
  BY <1>4
<1> HIDE DEF x, U
<1> DEFINE F == SumFunctionOnSet(f, U)
           G == SumFunctionOnSet(g, U)
<1>10. f[x] + c * g[x] + (F + c * G) = (f[x] + F) + c * (g[x] + G)
  BY <1>8, <1>9
<1>11. QED BY <1>2, <1>5, <1>7, <1>9, <1>10

-----------------------------------------------------------------------------
(* Sequences *)

\* What RemoveAt returns: the elements after place p move up by one.
LEMMA RemoveAtIs ==
    ASSUME NEW S, NEW s \in Seq(S), NEW p \in 1..Len(s)
    PROVE  /\ RemoveAt(s, p) \in Seq(S)
           /\ Len(RemoveAt(s, p)) = Len(s) - 1
           /\ \A k \in 1..(Len(s) - 1) :
                RemoveAt(s, p)[k] = IF k < p THEN s[k] ELSE s[k + 1]
<1> DEFINE l == SubSeq(s, 1, p - 1)
           r == SubSeq(s, p + 1, Len(s))
<1>1. Len(s) \in Nat /\ p \in Int
  OBVIOUS
<1>2. \A i \in 1..Len(s) : s[i] \in S
  BY ElementOfSeq
<1>3. /\ l \in Seq(S) /\ Len(l) = p - 1
      /\ \A i \in 1..(p - 1) : l[i] = s[i]
  BY <1>1, <1>2, SubSeqProperties
<1>4. /\ r \in Seq(S) /\ Len(r) = Len(s) - p
      /\ \A i \in 1..(Len(s) - p) : r[i] = s[p + i]
  BY <1>1, <1>2, SubSeqProperties
<1> HIDE DEF l, r
<1>5. /\ l \o r \in Seq(S) /\ Len(l \o r) = Len(l) + Len(r)
      /\ \A i \in 1..(Len(l) + Len(r)) :
           (l \o r)[i] = IF i <= Len(l) THEN l[i] ELSE r[i - Len(l)]
  BY <1>3, <1>4, ConcatProperties
<1>6. RemoveAt(s, p) = l \o r
  BY DEF RemoveAt, l, r
<1>7. ASSUME NEW k \in 1..(Len(s) - 1)
      PROVE  (l \o r)[k] = IF k < p THEN s[k] ELSE s[k + 1]
  <2>1. CASE k < p
    BY <2>1, <1>1, <1>3, <1>4, <1>5
  <2>2. CASE k >= p
    <3>1. k - (p - 1) \in 1..(Len(s) - p) /\ p + (k - (p - 1)) = k + 1
      BY <2>2, <1>1
    <3>2. r[k - (p - 1)] = s[k + 1]
      BY <3>1, <1>4
    <3>3. QED BY <2>2, <3>2, <1>1, <1>3, <1>4, <1>5
  <2>3. k < p \/ k >= p
    BY <1>1
  <2>4. QED BY <2>1, <2>2, <2>3
<1>8. Len(l) + Len(r) = Len(s) - 1
  BY <1>1, <1>3, <1>4
<1>9. QED BY <1>1, <1>5, <1>6, <1>7, <1>8

\* What InsertAt returns: the elements from place p on move down by one.
LEMMA InsertAtIs ==
    ASSUME NEW S, NEW s \in Seq(S), NEW p \in 1..(Len(s) + 1), NEW e \in S
    PROVE  /\ InsertAt(s, p, e) \in Seq(S)
           /\ Len(InsertAt(s, p, e)) = Len(s) + 1
           /\ \A k \in 1..(Len(s) + 1) :
                InsertAt(s, p, e)[k] = IF k < p THEN s[k] ELSE IF k = p THEN e ELSE s[k - 1]
<1> DEFINE l == SubSeq(s, 1, p - 1)
           r == SubSeq(s, p, Len(s))
<1>1. Len(s) \in Nat /\ p \in Int
  OBVIOUS
<1>2. \A i \in 1..Len(s) : s[i] \in S
  BY ElementOfSeq
<1>3. /\ l \in Seq(S) /\ Len(l) = p - 1
      /\ \A i \in 1..(p - 1) : l[i] = s[i]
  BY <1>1, <1>2, SubSeqProperties
<1>4. /\ r \in Seq(S) /\ Len(r) = Len(s) - p + 1
      /\ \A i \in 1..(Len(s) - p + 1) : r[i] = s[p + i - 1]
  BY <1>1, <1>2, SubSeqProperties
<1> HIDE DEF l, r
<1>5. <<e>> \in Seq(S) /\ Len(<<e>>) = 1 /\ <<e>>[1] = e
  OBVIOUS
<1>6. /\ l \o <<e>> \in Seq(S) /\ Len(l \o <<e>>) = p
      /\ \A i \in 1..p : (l \o <<e>>)[i] = IF i < p THEN s[i] ELSE e
  BY <1>1, <1>3, <1>5, ConcatProperties
<1>7. /\ (l \o <<e>>) \o r \in Seq(S) /\ Len((l \o <<e>>) \o r) = Len(s) + 1
      /\ \A i \in 1..(Len(s) + 1) :
           ((l \o <<e>>) \o r)[i] = IF i <= p THEN (l \o <<e>>)[i] ELSE r[i - p]
  BY <1>1, <1>4, <1>6, ConcatProperties
<1>8. InsertAt(s, p, e) = (l \o <<e>>) \o r
  BY DEF InsertAt, l, r
<1>9. QED BY <1>1, <1>4, <1>6, <1>7, <1>8
=============================================================================
