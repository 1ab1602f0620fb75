--------------------------- MODULE FeeRatesProofs ---------------------------
(***************************************************************************)
(* Proofs about the base rate, for every parameter, however many           *)
(* transactions and any times between them.                                *)
(***************************************************************************)
EXTENDS FeeRates, CollectionTheorems

-----------------------------------------------------------------------------
(* Recursive functions *)

\* f is defined on T by the equation: in rec, its value is h of the value at
\* the next argument, and elsewhere it is given by base.
Recursive(f, T, rec, step, h, base) ==
    f = [s \in T |-> IF s \in rec THEN h[f[step[s]]] ELSE base[s]]

\* The arguments of a measure of at most k.
UpTo(S, n, k) == {s \in S : n[s] <= k}

\* Every step stays in S and makes the measure n smaller.
Descends(S, rec, step, n) ==
    /\ n \in [S -> Nat]
    /\ \A s \in rec : s \in S /\ step[s] \in S /\ n[step[s]] < n[s]

LEMMA StepStaysUpTo ==
    ASSUME NEW S, NEW rec, NEW step, NEW n, Descends(S, rec, step, n),
           NEW k \in Nat, NEW s \in UpTo(S, n, k), s \in rec
    PROVE  step[s] \in UpTo(S, n, k) /\ k > 0 /\ step[s] \in UpTo(S, n, k - 1)
<1>1. n[s] \in Nat /\ n[s] <= k /\ step[s] \in S /\ n[step[s]] \in Nat /\ n[step[s]] < n[s]
  BY DEF Descends, UpTo
<1>2. n[step[s]] <= k /\ k > 0 /\ n[step[s]] <= k - 1
  BY <1>1
<1>3. QED BY <1>1, <1>2 DEF UpTo

\* Two solutions agree wherever both are defined.
LEMMA RecursionAgrees ==
    ASSUME NEW S, NEW rec, NEW step, NEW n, Descends(S, rec, step, n), NEW h, NEW base,
           NEW k \in Nat, NEW l \in Nat, NEW f, NEW g,
           Recursive(f, UpTo(S, n, k), rec, step, h, base),
           Recursive(g, UpTo(S, n, l), rec, step, h, base)
    PROVE  \A s \in UpTo(S, n, k) : s \in UpTo(S, n, l) => f[s] = g[s]
<1> DEFINE both == {s \in UpTo(S, n, k) : s \in UpTo(S, n, l) /\ f[s] # g[s]}
           Bad == {n[s] : s \in both}
<1>1. SUFFICES ASSUME both # {} PROVE FALSE
  OBVIOUS
<1>2. \A s \in both : s \in S /\ n[s] \in Nat
  BY DEF UpTo, Descends
<1>3. PICK m \in Bad : \A j \in Bad : m <= j
  <2>1. Bad \in SUBSET Nat /\ Bad # {}
    BY <1>1, <1>2
  <2> HIDE DEF Bad
  <2>2. QED BY <2>1, SmallestNumber
<1>4. PICK s \in both : m = n[s]
  BY <1>3
<1>5. f[s] = (IF s \in rec THEN h[f[step[s]]] ELSE base[s])
      /\ g[s] = (IF s \in rec THEN h[g[step[s]]] ELSE base[s])
  BY <1>4 DEF Recursive
<1>6. s \in rec
  BY <1>4, <1>5
<1>7. step[s] \in UpTo(S, n, k) /\ step[s] \in UpTo(S, n, l)
  BY <1>4, <1>6, StepStaysUpTo
<1>8. step[s] \in both
  BY <1>4, <1>5, <1>6, <1>7
<1>9. n[step[s]] \in Bad /\ n[step[s]] < n[s] /\ n[s] \in Nat /\ n[step[s]] \in Nat
  BY <1>2, <1>4, <1>6, <1>8 DEF Descends
<1>10. QED BY <1>3, <1>4, <1>9

\* There is a solution up to every measure.
LEMMA RecursionUpTo ==
    ASSUME NEW S, NEW rec, NEW step, NEW n, Descends(S, rec, step, n), NEW h, NEW base,
           NEW k \in Nat
    PROVE  \E f : Recursive(f, UpTo(S, n, k), rec, step, h, base)
<1> DEFINE Has(j) == \E f : Recursive(f, UpTo(S, n, j), rec, step, h, base)
           Bad == {j \in Nat : ~Has(j)}
<1>1. SUFFICES ASSUME Bad # {} PROVE FALSE
  BY Zenon
<1>2. PICK m \in Bad : \A j \in Bad : m <= j
  <2>1. Bad \in SUBSET Nat
    BY Zenon
  <2> HIDE DEF Bad
  <2>2. QED BY <1>1, <2>1, SmallestNumber
<1>3. m \in Nat /\ ~Has(m)
  BY <1>2, Zenon
<1>4. \E g : m > 0 => Recursive(g, UpTo(S, n, m - 1), rec, step, h, base)
  <2>1. CASE m > 0
    <3>1. m - 1 \in Nat /\ ~(m <= m - 1)
      BY <1>3, <2>1
    <3>2. Has(m - 1)
      <4> HIDE DEF Has
      <4> QED BY <1>2, <3>1
    <3>3. QED BY <3>2
  <2>2. CASE ~(m > 0)
    BY <2>2
  <2>3. QED BY <2>1, <2>2
<1>5. PICK g : m > 0 => Recursive(g, UpTo(S, n, m - 1), rec, step, h, base)
  BY <1>4
<1> DEFINE T == UpTo(S, n, m)
           f == [s \in T |-> IF s \in rec THEN h[g[step[s]]] ELSE base[s]]
<1>6. ASSUME NEW s \in T, s \in rec PROVE f[step[s]] = g[step[s]]
  <2>1. step[s] \in T /\ m > 0 /\ step[s] \in UpTo(S, n, m - 1)
    BY <1>3, <1>6, StepStaysUpTo
  <2>2. f[step[s]] = (IF step[s] \in rec THEN h[g[step[step[s]]]] ELSE base[step[s]])
    BY <2>1
  <2>3. g[step[s]] = (IF step[s] \in rec THEN h[g[step[step[s]]]] ELSE base[step[s]])
    BY <1>5, <2>1 DEF Recursive
  <2>4. QED BY <2>2, <2>3
<1>7. ASSUME NEW s \in T
      PROVE  f[s] = IF s \in rec THEN h[f[step[s]]] ELSE base[s]
  <2>1. f[s] = IF s \in rec THEN h[g[step[s]]] ELSE base[s]
    BY <1>7
  <2> HIDE DEF f
  <2>2. QED BY <1>6, <1>7, <2>1
<1>8. f = [s \in T |-> IF s \in rec THEN h[f[step[s]]] ELSE base[s]]
  <2>1. f = [s \in T |-> f[s]]
    OBVIOUS
  <2> HIDE DEF f, T
  <2>2. [s \in T |-> f[s]] = [s \in T |-> IF s \in rec THEN h[f[step[s]]] ELSE base[s]]
    BY <1>7
  <2>3. QED BY <2>1, <2>2
<1>9. Has(m)
  BY <1>8 DEF Recursive
<1>10. QED BY <1>3, <1>9

\* A recursion that makes its measure smaller in every step has a solution.
LEMMA RecursionExists ==
    ASSUME NEW S, NEW rec, NEW step, NEW n, Descends(S, rec, step, n), NEW h, NEW base
    PROVE  \E f : Recursive(f, S, rec, step, h, base)
<1> DEFINE below(k) == CHOOSE f : Recursive(f, UpTo(S, n, k), rec, step, h, base)
           f == [s \in S |-> below(n[s])[s]]
<1>1. \A k \in Nat : Recursive(below(k), UpTo(S, n, k), rec, step, h, base)
  BY RecursionUpTo
<1>2. \A s \in S : n[s] \in Nat /\ s \in UpTo(S, n, n[s])
  BY DEF Descends, UpTo
<1> HIDE DEF below
<1>3. ASSUME NEW s \in S
      PROVE  below(n[s])[s] = IF s \in rec THEN h[below(n[s])[step[s]]] ELSE base[s]
  BY <1>1, <1>2 DEF Recursive
<1>4. ASSUME NEW s \in S, s \in rec
      PROVE  f[step[s]] = below(n[s])[step[s]]
  <2>1. step[s] \in S /\ step[s] \in UpTo(S, n, n[s]) /\ step[s] \in UpTo(S, n, n[step[s]])
    BY <1>2, <1>4, StepStaysUpTo DEF Descends
  <2>2. below(n[step[s]])[step[s]] = below(n[s])[step[s]]
    <3>1. n[s] \in Nat /\ n[step[s]] \in Nat
      BY <1>2, <1>4, <2>1
    <3>2. Recursive(below(n[s]), UpTo(S, n, n[s]), rec, step, h, base)
          /\ Recursive(below(n[step[s]]), UpTo(S, n, n[step[s]]), rec, step, h, base)
      BY <1>1, <3>1
    <3>3. QED BY <2>1, <3>1, <3>2, RecursionAgrees
  <2>3. QED BY <2>1, <2>2
<1>5. ASSUME NEW s \in S
      PROVE  f[s] = IF s \in rec THEN h[f[step[s]]] ELSE base[s]
  <2>1. f[s] = below(n[s])[s]
    OBVIOUS
  <2> HIDE DEF f
  <2>2. QED BY <1>3, <1>4, <1>5, <2>1
<1>6. f = [s \in S |-> IF s \in rec THEN h[f[step[s]]] ELSE base[s]]
  <2>1. f = [s \in S |-> f[s]]
    OBVIOUS
  <2> HIDE DEF f
  <2>2. [s \in S |-> f[s]] = [s \in S |-> IF s \in rec THEN h[f[step[s]]] ELSE base[s]]
    BY <1>5
  <2>3. QED BY <2>1, <2>2
<1>7. QED BY <1>6 DEF Recursive


\* What holds of an argument as soon as it holds of the next one holds of all.
LEMMA Descent ==
    ASSUME NEW S, NEW rec, NEW step, NEW n, Descends(S, rec, step, n), NEW Good,
           \A s \in S : (s \in rec => step[s] \in Good) => s \in Good
    PROVE  S \subseteq Good
<1> DEFINE Bad == {n[s] : s \in S \ Good}
<1>1. SUFFICES ASSUME S \ Good # {} PROVE FALSE
  OBVIOUS
<1>2. PICK m \in Bad : \A j \in Bad : m <= j
  <2>1. Bad \in SUBSET Nat /\ Bad # {}
    BY <1>1 DEF Descends
  <2> HIDE DEF Bad
  <2>2. QED BY <2>1, SmallestNumber
<1>3. PICK s \in S \ Good : m = n[s]
  BY <1>2
<1>4. s \in rec /\ step[s] \notin Good
  BY <1>3
<1>5. step[s] \in S /\ n[step[s]] < n[s] /\ n[s] \in Nat /\ n[step[s]] \in Nat
  BY <1>3, <1>4 DEF Descends
<1>6. n[step[s]] \in Bad
  BY <1>4, <1>5
<1>7. QED BY <1>2, <1>3, <1>5, <1>6

\* Induction, about a set of natural numbers.
LEMMA Induction ==
    ASSUME NEW Good, 0 \in Good, \A k \in Nat : k \in Good => k + 1 \in Good
    PROVE  \A k \in Nat : k \in Good
<1> DEFINE Bad == Nat \ Good
<1>1. SUFFICES ASSUME Bad # {} PROVE FALSE
  OBVIOUS
<1>2. PICK m \in Bad : \A j \in Bad : m <= j
  BY <1>1, SmallestNumber
<1>3. m \in Nat /\ m # 0
  BY <1>2
<1>4. m - 1 \in Nat /\ ~(m <= m - 1) /\ (m - 1) + 1 = m
  BY <1>3
<1>5. m - 1 \in Good
  BY <1>2, <1>4
<1>6. QED BY <1>2, <1>4, <1>5

\* Induction from all smaller numbers.
LEMMA StrongInduction ==
    ASSUME NEW Good, \A k \in Nat : (\A j \in Nat : j < k => j \in Good) => k \in Good
    PROVE  \A k \in Nat : k \in Good
<1> DEFINE Bad == Nat \ Good
<1>1. SUFFICES ASSUME Bad # {} PROVE FALSE
  OBVIOUS
<1>2. PICK m \in Bad : \A j \in Bad : m <= j
  BY <1>1, SmallestNumber
<1>3. m \in Nat /\ \A j \in Nat : j < m => j \in Good
  BY <1>2
<1>4. QED BY <1>2, <1>3

\* If the base has its values in V, and h stays in V, so has the solution.
LEMMA RecursionIn ==
    ASSUME NEW S, NEW rec, NEW step, NEW n, Descends(S, rec, step, n),
           NEW V, NEW h \in [V -> V], NEW base \in [S -> V]
    PROVE  \E f \in [S -> V] :
             \A s \in S : f[s] = IF s \in rec THEN h[f[step[s]]] ELSE base[s]
<1>1. PICK f : Recursive(f, S, rec, step, h, base)
  BY RecursionExists
<1>2. \A s \in S : f[s] = IF s \in rec THEN h[f[step[s]]] ELSE base[s]
  BY <1>1 DEF Recursive
<1> DEFINE Good == {s \in S : f[s] \in V}
<1>3. \A s \in S : (s \in rec => step[s] \in Good) => s \in Good
  BY <1>2
<1>4. S \subseteq Good
  <2> HIDE DEF Good
  <2>1. QED BY <1>3, Descent
<1>5. f \in [S -> V]
  BY <1>1, <1>4 DEF Recursive
<1>6. QED BY <1>2, <1>5

\* A loop: the value at the next argument is the value.
Loops(f, S, rec, step, base) ==
    \A s \in S : f[s] = IF s \in rec THEN f[step[s]] ELSE base[s]

LEMMA LoopIn ==
    ASSUME NEW S, NEW rec, NEW step, NEW n, Descends(S, rec, step, n),
           NEW V, NEW base \in [S -> V]
    PROVE  \E f \in [S -> V] : Loops(f, S, rec, step, base)
<1> DEFINE same == [v \in V |-> v]
<1>1. same \in [V -> V] /\ \A v \in V : same[v] = v
  OBVIOUS
<1>2. PICK f \in [S -> V] :
             \A s \in S : f[s] = IF s \in rec THEN same[f[step[s]]] ELSE base[s]
  <2> HIDE DEF same
  <2>1. QED BY <1>1, RecursionIn
<1>3. ASSUME NEW s \in S
      PROVE  f[s] = IF s \in rec THEN f[step[s]] ELSE base[s]
  <2>1. s \in rec => f[step[s]] \in V
    BY DEF Descends
  <2> HIDE DEF same
  <2>2. QED BY <1>1, <1>2, <1>3, <2>1
<1>4. QED BY <1>3 DEF Loops

-----------------------------------------------------------------------------
(* The two powers *)

LEMMA RoundedMulNat == \A x, y \in Nat : RoundedMul(x, y) \in Nat
BY DecimalAssumption DEF RoundedMul

\* The arguments of Pow's loop, and what they are after a round of it.
Squarings == [x : Nat, y : Nat, exponent : Nat]

Squared(s) == [x |-> RoundedMul(s.x, s.x),
               y |-> IF s.exponent % 2 = 1 THEN RoundedMul(s.x, s.y) ELSE s.y,
               exponent |-> s.exponent \div 2]

LEMMA SquaredType == \A s \in Squarings : Squared(s) \in Squarings
<1>1. SUFFICES ASSUME NEW s \in Squarings PROVE Squared(s) \in Squarings
  OBVIOUS
<1>2. s.x \in Nat /\ s.y \in Nat /\ s.exponent \in Nat
  BY DEF Squarings
<1>3. RoundedMul(s.x, s.x) \in Nat /\ RoundedMul(s.x, s.y) \in Nat
  BY <1>2, RoundedMulNat
<1>4. s.exponent \div 2 \in Nat
  BY <1>2
<1>5. QED BY <1>2, <1>3, <1>4 DEF Squarings, Squared

\* The loop of Pow is what its equation says.
LEMMA PowLoopUnfolds ==
    \A s \in Squarings :
        /\ PowLoop[s] \in Nat
        /\ PowLoop[s] = IF s.exponent > 1 THEN PowLoop[Squared(s)] ELSE RoundedMul(s.x, s.y)
<1> DEFINE rec == {s \in Squarings : s.exponent > 1}
           step == [s \in Squarings |-> Squared(s)]
           n == [s \in Squarings |-> s.exponent]
           base == [s \in Squarings |-> RoundedMul(s.x, s.y)]
<1>1. Descends(Squarings, rec, step, n)
  <2>1. n \in [Squarings -> Nat]
    BY DEF Squarings
  <2>2. ASSUME NEW s \in rec PROVE n[step[s]] < n[s]
    <3>1. s \in Squarings /\ s.exponent \in Nat /\ s.exponent > 1
      BY DEF Squarings
    <3>2. Squared(s) \in Squarings /\ Squared(s).exponent = s.exponent \div 2
      BY <3>1, SquaredType DEF Squared
    <3>3. s.exponent \div 2 < s.exponent
      BY <3>1
    <3>4. QED BY <3>1, <3>2, <3>3
  <2>3. \A s \in rec : s \in Squarings /\ step[s] \in Squarings
    BY SquaredType
  <2> HIDE DEF rec, step, n
  <2>4. QED BY <2>1, <2>2, <2>3 DEF Descends
<1>2. base \in [Squarings -> Nat]
  <2>1. \A s \in Squarings : RoundedMul(s.x, s.y) \in Nat
    BY RoundedMulNat DEF Squarings
  <2>2. QED BY <2>1
<1>3. PICK f \in [Squarings -> Nat] :
             \A s \in Squarings : f[s] = IF s \in rec THEN f[step[s]] ELSE base[s]
  <2> DEFINE V == Nat
  <2>1. base \in [Squarings -> V]
    BY <1>2, Zenon
  <2> HIDE DEF rec, step, n, base, V
  <2>2. \E f \in [Squarings -> V] : Loops(f, Squarings, rec, step, base)
    BY <1>1, <2>1, LoopIn
  <2>3. QED BY <2>2 DEF V, Loops
<1>4. f = [s \in Squarings |-> IF s.exponent > 1 THEN f[Squared(s)] ELSE RoundedMul(s.x, s.y)]
  <2>1. f = [s \in Squarings |-> f[s]]
    OBVIOUS
  <2>2. \A s \in Squarings :
          f[s] = IF s.exponent > 1 THEN f[Squared(s)] ELSE RoundedMul(s.x, s.y)
    BY <1>3
  <2>3. QED BY <2>1, <2>2
<1>5. PowLoop = [s \in Squarings |->
                    IF s.exponent > 1 THEN PowLoop[Squared(s)] ELSE RoundedMul(s.x, s.y)]
  <2>1. PowLoop = CHOOSE g : g = [s \in Squarings |->
                    IF s.exponent > 1 THEN g[Squared(s)] ELSE RoundedMul(s.x, s.y)]
    BY Zenon DEF PowLoop, Squarings, Squared
  <2>2. QED BY <1>4, <2>1
<1>6. \A s \in Squarings :
          PowLoop[s] = IF s.exponent > 1 THEN PowLoop[Squared(s)] ELSE RoundedMul(s.x, s.y)
  BY <1>5
<1> DEFINE Good == {s \in Squarings : PowLoop[s] \in Nat}
<1>7. Squarings \subseteq Good
  <2>1. \A s \in Squarings : (s \in rec => step[s] \in Good) => s \in Good
    BY <1>2, <1>6
  <2> HIDE DEF rec, step, n, Good
  <2>2. QED BY <1>1, <2>1, Descent
<1>8. QED BY <1>6, <1>7

\* The same of the loop of _decPow.
Halvings == [x : Nat, y : Nat, n : Nat]

Halved(s) == IF s.n % 2 = 0
             THEN [x |-> RoundedMul(s.x, s.x), y |-> s.y, n |-> s.n \div 2]
             ELSE [x |-> RoundedMul(s.x, s.x), y |-> RoundedMul(s.x, s.y),
                   n |-> (s.n - 1) \div 2]

LEMMA HalvedType ==
    \A s \in Halvings : s.n > 1 => Halved(s) \in Halvings /\ Halved(s).n < s.n
<1>1. SUFFICES ASSUME NEW s \in Halvings, s.n > 1
               PROVE  Halved(s) \in Halvings /\ Halved(s).n < s.n
  OBVIOUS
<1>2. s.x \in Nat /\ s.y \in Nat /\ s.n \in Nat
  BY DEF Halvings
<1>3. RoundedMul(s.x, s.x) \in Nat /\ RoundedMul(s.x, s.y) \in Nat
  BY <1>2, RoundedMulNat
<1>4. /\ s.n \div 2 \in Nat /\ s.n \div 2 < s.n
      /\ (s.n - 1) \div 2 \in Nat /\ (s.n - 1) \div 2 < s.n
  BY <1>1, <1>2
<1>5. QED BY <1>2, <1>3, <1>4 DEF Halvings, Halved

LEMMA DecPowLoopUnfolds ==
    \A s \in Halvings :
        DecPowLoop[s] = IF s.n <= 1 THEN RoundedMul(s.x, s.y) ELSE DecPowLoop[Halved(s)]
<1> DEFINE rec == {s \in Halvings : ~(s.n <= 1)}
           step == [s \in Halvings |-> Halved(s)]
           n == [s \in Halvings |-> s.n]
           base == [s \in Halvings |-> RoundedMul(s.x, s.y)]
<1>1. Descends(Halvings, rec, step, n)
  <2>1. n \in [Halvings -> Nat]
    BY DEF Halvings
  <2>2. ASSUME NEW s \in rec PROVE s \in Halvings /\ step[s] \in Halvings /\ n[step[s]] < n[s]
    <3>1. s \in Halvings /\ s.n \in Nat /\ s.n > 1
      BY DEF Halvings
    <3>2. Halved(s) \in Halvings /\ Halved(s).n < s.n
      BY <3>1, HalvedType
    <3>3. QED BY <3>1, <3>2
  <2> HIDE DEF rec, step, n
  <2>3. QED BY <2>1, <2>2 DEF Descends
<1>2. base \in [Halvings -> Nat]
  <2>1. \A s \in Halvings : RoundedMul(s.x, s.y) \in Nat
    BY RoundedMulNat DEF Halvings
  <2>2. QED BY <2>1
<1>3. PICK f \in [Halvings -> Nat] :
             \A s \in Halvings : f[s] = IF s \in rec THEN f[step[s]] ELSE base[s]
  <2> DEFINE V == Nat
  <2>1. base \in [Halvings -> V]
    BY <1>2, Zenon
  <2> HIDE DEF rec, step, n, base, V
  <2>2. \E f \in [Halvings -> V] : Loops(f, Halvings, rec, step, base)
    BY <1>1, <2>1, LoopIn
  <2>3. QED BY <2>2 DEF V, Loops
<1>4. f = [s \in Halvings |-> IF s.n <= 1 THEN RoundedMul(s.x, s.y) ELSE f[Halved(s)]]
  <2>1. f = [s \in Halvings |-> f[s]]
    OBVIOUS
  <2>2. \A s \in Halvings :
          f[s] = IF s.n <= 1 THEN RoundedMul(s.x, s.y) ELSE f[Halved(s)]
    BY <1>3
  <2>3. QED BY <2>1, <2>2
<1> DEFINE Loop(g, s) == IF s.n <= 1 THEN RoundedMul(s.x, s.y)
                         ELSE IF s.n % 2 = 0
                         THEN g[[x |-> RoundedMul(s.x, s.x), y |-> s.y, n |-> s.n \div 2]]
                         ELSE g[[x |-> RoundedMul(s.x, s.x), y |-> RoundedMul(s.x, s.y),
                                 n |-> (s.n - 1) \div 2]]
<1>5. \A g, s : Loop(g, s) = IF s.n <= 1 THEN RoundedMul(s.x, s.y) ELSE g[Halved(s)]
  BY DEF Halved
<1>6. DecPowLoop = CHOOSE g : g = [s \in Halvings |-> Loop(g, s)]
  BY Zenon DEF DecPowLoop, Halvings
<1>7. f = [s \in Halvings |-> Loop(f, s)]
  <2> HIDE DEF Loop
  <2>1. [s \in Halvings |-> Loop(f, s)]
          = [s \in Halvings |-> IF s.n <= 1 THEN RoundedMul(s.x, s.y) ELSE f[Halved(s)]]
    BY <1>5
  <2>2. QED BY <1>4, <2>1
<1>8. DecPowLoop = [s \in Halvings |-> Loop(DecPowLoop, s)]
  <2> HIDE DEF Loop
  <2>1. QED BY <1>6, <1>7
<1>9. QED
  <2> HIDE DEF Loop
  <2>1. QED BY <1>5, <1>8

\* Both loops multiply the same factors in the same order.
LEMMA LoopsAgree ==
    \A n \in Nat : n > 0 => \A x, y \in Nat :
        DecPowLoop[[x |-> x, y |-> y, n |-> n]] = PowLoop[[x |-> x, y |-> y, exponent |-> n]]
<1> DEFINE P(n) == \A x, y \in Nat :
             DecPowLoop[[x |-> x, y |-> y, n |-> n]] = PowLoop[[x |-> x, y |-> y, exponent |-> n]]
           Good == {n \in Nat : n > 0 => P(n)}
<1>1. ASSUME NEW n \in Nat, \A j \in Nat : j < n => j \in Good, n > 0,
             NEW x \in Nat, NEW y \in Nat
      PROVE  DecPowLoop[[x |-> x, y |-> y, n |-> n]] = PowLoop[[x |-> x, y |-> y, exponent |-> n]]
  <2> DEFINE h == [x |-> x, y |-> y, n |-> n]
             s == [x |-> x, y |-> y, exponent |-> n]
  <2>1. h \in Halvings /\ s \in Squarings
    BY DEF Halvings, Squarings
  <2>2. DecPowLoop[h] = IF n <= 1 THEN RoundedMul(x, y) ELSE DecPowLoop[Halved(h)]
    BY <2>1, DecPowLoopUnfolds
  <2>3. PowLoop[s] = IF n > 1 THEN PowLoop[Squared(s)] ELSE RoundedMul(x, y)
    BY <2>1, PowLoopUnfolds
  <2>4. CASE n = 1
    BY <2>2, <2>3, <2>4
  <2>5. CASE n > 1
    <3> DEFINE xx == RoundedMul(x, x)
               z == IF n % 2 = 1 THEN RoundedMul(x, y) ELSE y
               m == n \div 2
    <3>1. xx \in Nat /\ z \in Nat
      BY RoundedMulNat
    <3>2. m \in Nat /\ m > 0 /\ m < n /\ (n % 2 = 0 \/ n % 2 = 1)
          /\ (n % 2 = 1 => (n - 1) \div 2 = m)
      BY <2>5
    <3>3. Squared(s) = [x |-> xx, y |-> z, exponent |-> m]
      BY DEF Squared
    <3>4. Halved(h) = [x |-> xx, y |-> z, n |-> m]
      BY <3>2 DEF Halved
    <3>5. P(m)
      BY <1>1, <3>2
    <3> HIDE DEF xx, z, m, h, s
    <3>6. DecPowLoop[Halved(h)] = PowLoop[Squared(s)]
      BY <3>1, <3>3, <3>4, <3>5
    <3>7. n > 1 /\ ~(n <= 1)
      BY <2>5
    <3>8. DecPowLoop[h] = PowLoop[s]
      BY <2>2, <2>3, <3>6, <3>7
    <3>9. QED BY <3>8 DEF h, s
  <2>6. n = 1 \/ n > 1
    BY <1>1
  <2>7. QED BY <2>4, <2>5, <2>6
<1>2. \A n \in Nat : (\A j \in Nat : j < n => j \in Good) => n \in Good
  BY <1>1
<1>3. \A n \in Nat : n \in Good
  <2> HIDE DEF Good
  <2>1. QED BY <1>2, StrongInduction
<1>4. QED BY <1>3

-----------------------------------------------------------------------------
(* Fixed-point products *)

\* Fractions of one.
Fraction == 0 .. DIGITS

Near(a, b, e) == a <= b + e /\ b <= a + e

LEMMA Quotient ==
    ASSUME NEW a \in Nat, NEW d \in Nat, d > 0
    PROVE  a \div d \in Nat /\ d * (a \div d) <= a /\ a < d * (a \div d) + d
OBVIOUS

\* One factor less than another by a whole number of divisors.
LEMMA CancelLess ==
    ASSUME NEW d \in Nat, d > 0, NEW a \in Int, NEW b \in Int, d * a < d * b
    PROVE  a < b
<1>1. SUFFICES ASSUME b <= a PROVE FALSE
  OBVIOUS
<1>2. a - b \in Nat
  BY <1>1
<1>3. d * (a - b) \in Nat /\ d * (a - b) = d * a - d * b
  BY <1>2
<1>4. QED BY <1>3

LEMMA TimesMonotone ==
    ASSUME NEW d \in Nat, NEW a \in Int, NEW b \in Int, a <= b
    PROVE  d * a <= d * b
<1>1. b - a \in Nat
  OBVIOUS
<1>2. d * (b - a) \in Nat /\ d * (b - a) = d * b - d * a
  BY <1>1
<1>3. QED BY <1>2

LEMMA MulBounds ==
    ASSUME NEW z \in Nat, NEW x \in Nat
    PROVE  /\ Mul(z, x) \in Nat
           /\ DIGITS * Mul(z, x) <= z * x
           /\ z * x < DIGITS * Mul(z, x) + DIGITS
<1>1. z * x \in Nat /\ DIGITS \in Nat /\ DIGITS > 0
  BY DecimalAssumption
<1> DEFINE a == z * x
<1>2. a \in Nat
  BY <1>1
<1> HIDE DEF a
<1>3. a \div DIGITS \in Nat /\ DIGITS * (a \div DIGITS) <= a /\ a < DIGITS * (a \div DIGITS) + DIGITS
  BY <1>1, <1>2, Quotient
<1>4. QED BY <1>3 DEF Mul, a

\* A fraction of something is not more than it.
LEMMA MulFraction ==
    ASSUME NEW z \in Nat, NEW x \in Fraction
    PROVE  Mul(z, x) \in Nat /\ Mul(z, x) <= z
<1>1. x \in Nat /\ x <= DIGITS /\ DIGITS \in Nat /\ DIGITS > 0
  BY DecimalAssumption DEF Fraction
<1>2. Mul(z, x) \in Nat /\ DIGITS * Mul(z, x) <= z * x
  BY <1>1, MulBounds
<1>3. z * x <= z * DIGITS
  BY <1>1, TimesMonotone
<1>4. z * DIGITS = DIGITS * z /\ DIGITS * (z + 1) = DIGITS * z + DIGITS
  BY <1>1
<1>5. DIGITS * Mul(z, x) < DIGITS * (z + 1)
  BY <1>1, <1>2, <1>3, <1>4
<1>6. Mul(z, x) < z + 1
  BY <1>1, <1>2, <1>5, CancelLess
<1>7. QED BY <1>2, <1>6

LEMMA MulOne == \A z \in Nat : Mul(z, DIGITS) = z /\ Mul(DIGITS, z) = z
<1>1. SUFFICES ASSUME NEW z \in Nat PROVE Mul(z, DIGITS) = z /\ Mul(DIGITS, z) = z
  OBVIOUS
<1>2. DIGITS \in Nat /\ DIGITS > 0 /\ z * DIGITS = DIGITS * z
  BY DecimalAssumption
<1>3. (DIGITS * z) \div DIGITS = z
  BY <1>2
<1>4. QED BY <1>2, <1>3 DEF Mul

\* Fractions of two numbers are in the same order, and no further apart.
LEMMA MulLipschitz ==
    ASSUME NEW z \in Nat, NEW w \in Nat, z <= w, NEW x \in Fraction
    PROVE  Mul(z, x) <= Mul(w, x) /\ Mul(w, x) <= Mul(z, x) + (w - z)
<1> DEFINE p == Mul(z, x)
           q == Mul(w, x)
           d == w - z
<1>1. x \in Nat /\ x <= DIGITS /\ DIGITS \in Nat /\ DIGITS > 0 /\ d \in Nat
  BY DecimalAssumption DEF Fraction
<1>2. p \in Nat /\ DIGITS * p <= z * x /\ z * x < DIGITS * p + DIGITS
  BY <1>1, MulBounds
<1>3. q \in Nat /\ DIGITS * q <= w * x /\ w * x < DIGITS * q + DIGITS
  BY <1>1, MulBounds
<1>4. w * x = z * x + d * x /\ d * x <= d * DIGITS /\ 0 <= d * x
  <2>1. d * x <= d * DIGITS /\ d * x \in Nat
    BY <1>1, TimesMonotone
  <2>2. w * x = z * x + d * x
    BY <1>1
  <2>3. QED BY <2>1, <2>2
<1>5. d * DIGITS = DIGITS * d /\ DIGITS * (p + 1 + d) = DIGITS * p + DIGITS + DIGITS * d
      /\ DIGITS * (q + 1) = DIGITS * q + DIGITS
  BY <1>1, <1>2, <1>3
<1> HIDE DEF p, q, d
<1>6. DIGITS * q < DIGITS * (p + 1 + d)
  BY <1>1, <1>2, <1>3, <1>4, <1>5
<1>7. DIGITS * p < DIGITS * (q + 1)
  BY <1>1, <1>2, <1>3, <1>4, <1>5
<1>8. q < p + 1 + d /\ p < q + 1
  BY <1>1, <1>2, <1>3, <1>6, <1>7, CancelLess
<1>9. p <= q /\ q <= p + d
  BY <1>1, <1>2, <1>3, <1>8
<1>10. QED BY <1>9 DEF p, q, d

LEMMA MulNear ==
    ASSUME NEW z \in Nat, NEW w \in Nat, NEW x \in Fraction, NEW e \in Nat, Near(z, w, e)
    PROVE  Near(Mul(z, x), Mul(w, x), e)
<1>1. Mul(z, x) \in Nat /\ Mul(w, x) \in Nat
  BY MulFraction
<1>2. CASE z <= w
  <2>1. Mul(z, x) <= Mul(w, x) /\ Mul(w, x) <= Mul(z, x) + (w - z)
    BY <1>2, MulLipschitz
  <2>2. QED BY <1>1, <2>1 DEF Near
<1>3. CASE w <= z
  <2>1. Mul(w, x) <= Mul(z, x) /\ Mul(z, x) <= Mul(w, x) + (z - w)
    BY <1>3, MulLipschitz
  <2>2. QED BY <1>1, <2>1 DEF Near
<1>4. QED BY <1>2, <1>3

LEMMA NearTransitive ==
    ASSUME NEW a \in Nat, NEW b \in Nat, NEW c \in Nat, NEW d \in Nat, NEW e \in Nat,
           Near(a, b, d), Near(b, c, e)
    PROVE  Near(a, c, d + e)
BY DEF Near

\* RoundedMul rounds to the nearest, Mul down.
LEMMA RoundedMulBounds ==
    ASSUME NEW x \in Fraction, NEW y \in Fraction
    PROVE  /\ RoundedMul(x, y) \in Fraction
           /\ 2 * (DIGITS * RoundedMul(x, y)) <= 2 * (x * y) + DIGITS
           /\ 2 * (x * y) <= 2 * (DIGITS * RoundedMul(x, y)) + DIGITS
<1> DEFINE D == DIGITS
           h == D \div 2
           p == x * y
           r == RoundedMul(x, y)
<1>1. D \in Nat /\ D > 0 /\ h \in Nat /\ 2 * h <= D /\ D <= 2 * h + 1
  BY DecimalAssumption
<1>2. x \in Nat /\ x <= D /\ y \in Nat /\ y <= D
  BY <1>1 DEF Fraction
<1>3. p \in Nat /\ p <= D * D
  <2>1. x * y <= x * D /\ D * x <= D * D /\ x * D = D * x /\ x * y \in Nat
    BY <1>1, <1>2, TimesMonotone
  <2>2. QED BY <1>1, <1>2, <2>1
<1>4. r = (p + h) \div D
  BY DEF RoundedMul
<1> HIDE DEF D, h, p, r
<1>5. r \in Nat /\ D * r <= p + h /\ p + h < D * r + D
  BY <1>1, <1>3, <1>4, Quotient
<1>6. 2 * (D * r) <= 2 * p + D /\ 2 * p <= 2 * (D * r) + D
  BY <1>1, <1>3, <1>5
<1>7. r <= D
  <2>1. D * (D + 1) = D * D + D
    BY <1>1
  <2>2. D * r < D * (D + 1)
    BY <1>1, <1>3, <1>5, <2>1
  <2>3. r < D + 1
    BY <1>1, <1>5, <2>2, CancelLess
  <2>4. QED BY <1>1, <1>5, <2>3
<1>8. QED BY <1>1, <1>5, <1>6, <1>7 DEF Fraction, D, p, r

LEMMA RoundedMulNear ==
    ASSUME NEW x \in Fraction, NEW y \in Fraction
    PROVE  Near(RoundedMul(x, y), Mul(y, x), 1)
<1> DEFINE D == DIGITS
           p == x * y
           r == RoundedMul(x, y)
           q == Mul(y, x)
<1>1. D \in Nat /\ D > 0 /\ x \in Nat /\ y \in Nat
  BY DecimalAssumption DEF Fraction
<1>2. p \in Nat /\ p = y * x
  BY <1>1
<1>3. r \in Nat /\ 2 * (D * r) <= 2 * p + D /\ 2 * p <= 2 * (D * r) + D
  BY <1>1, RoundedMulBounds DEF Fraction
<1>4. q \in Nat /\ D * q <= p /\ p < D * q + D
  BY <1>1, <1>2, MulBounds
<1> HIDE DEF D, p, r, q
<1>5. D * (q + 2) = D * q + 2 * D /\ D * (r + 1) = D * r + D
  BY <1>1, <1>3, <1>4
<1>6. D * r < D * (q + 2) /\ D * q <= D * (r + 1)
  BY <1>1, <1>2, <1>3, <1>4, <1>5
<1>7. r < q + 2
  BY <1>1, <1>3, <1>4, <1>6, CancelLess
<1>8. q < r + 2
  <2>1. D * (r + 2) = D * r + 2 * D
    BY <1>1, <1>3
  <2>2. D * q < D * (r + 2)
    BY <1>1, <1>3, <1>4, <1>5, <1>6, <2>1
  <2>3. QED BY <1>1, <1>3, <1>4, <2>2, CancelLess
<1>9. r <= q + 1 /\ q <= r + 1
  BY <1>3, <1>4, <1>7, <1>8
<1>10. QED BY <1>9 DEF Near, r, q

\* A quotient by d, in parts of d * d.
LEMMA QuotientScaled ==
    ASSUME NEW d \in Nat, d > 0, NEW a \in Nat, NEW y \in Nat, d * a <= y, y < d * a + d
    PROVE  (d * d) * a <= d * y /\ d * y < (d * d) * a + d * d
<1>1. d * a \in Nat
  OBVIOUS
<1>2. d * (d * a) <= d * y /\ d * (y + 1) <= d * (d * a + d)
  <2> DEFINE u == d * a
  <2> HIDE DEF u
  <2>1. u <= y /\ y + 1 <= u + d /\ u \in Nat
    BY <1>1 DEF u
  <2>2. QED BY <2>1, TimesMonotone DEF u
<1>3. d * (d * a) = (d * d) * a
  OBVIOUS
<1>4. d * (d * a + d) = d * (d * a) + d * d
  BY <1>1
<1>5. d * (y + 1) = d * y + d /\ d * y \in Nat
  OBVIOUS
<1>6. d * y < d * (d * a + d)
  BY <1>1, <1>2, <1>5
<1>7. QED BY <1>2, <1>3, <1>4, <1>6

\* A quotient q by d is used in a product with a fraction x of d.
LEMMA QuotientTimes ==
    ASSUME NEW d \in Nat, NEW q \in Nat, NEW y \in Nat, d * q <= y, y < d * q + d,
           NEW x \in Nat, x <= d
    PROVE  d * (q * x) <= x * y /\ x * y <= d * (q * x) + d * d
<1> DEFINE u == d * q
<1>1. u \in Nat /\ x * u = d * (q * x) /\ x * (u + d) = x * u + x * d
  <2>1. u \in Nat
    OBVIOUS
  <2>2. x * u = d * (q * x)
    OBVIOUS
  <2> HIDE DEF u
  <2>3. x * (u + d) = x * u + x * d
    BY <2>1
  <2>4. QED BY <2>1, <2>2, <2>3
<1>2. x * d <= d * d
  <2>1. d * x <= d * d
    BY TimesMonotone
  <2>2. d * x = x * d
    OBVIOUS
  <2>3. QED BY <2>1, <2>2
<1>3. u <= y /\ y <= u + d
  BY <1>1
<1> HIDE DEF u
<1>4. x * u <= x * y /\ x * y <= x * (u + d)
  BY <1>1, <1>3, TimesMonotone
<1>5. x * u \in Nat /\ x * y \in Nat /\ x * d \in Nat /\ d * d \in Nat
  BY <1>1
<1> DEFINE xu == x * u
           xy == x * y
           xd == x * d
           dd == d * d
<1>6. xu <= xy /\ xy <= xu + xd /\ xd <= dd /\ xu \in Nat /\ xy \in Nat /\ xd \in Nat /\ dd \in Nat
  BY <1>1, <1>2, <1>4, <1>5
<1>7. xu <= xy /\ xy <= xu + dd
  <2> HIDE DEF xu, xy, xd, dd
  <2>1. QED BY <1>6
<1>8. QED BY <1>1, <1>7

\* What is less in parts of d is less by as many whole ones.
LEMMA PartsLess ==
    ASSUME NEW d \in Nat, d > 0, NEW a \in Nat, NEW b \in Nat, NEW e \in Nat,
           d * a < d * b + (e + 1) * d
    PROVE  a <= b + e
<1>1. d * (b + (e + 1)) = d * b + (e + 1) * d
  OBVIOUS
<1>2. d * a < d * (b + (e + 1))
  BY <1>1
<1>3. a < b + (e + 1)
  BY <1>2, CancelLess
<1>4. QED BY <1>3

\* Multiplying by the rounded square is nearly multiplying twice.
LEMMA SquareNear ==
    ASSUME NEW z \in Fraction, NEW x \in Fraction
    PROVE  Near(Mul(z, RoundedMul(x, x)), Mul(Mul(z, x), x), 2)
<1> DEFINE D == DIGITS
           DD == D * D
           s == RoundedMul(x, x)
           q == Mul(z, x)
           a == Mul(z, s)
           b == Mul(q, x)
<1>1. D \in Nat /\ D > 0 /\ x \in Nat /\ x <= D /\ z \in Nat /\ z <= D
  BY DecimalAssumption DEF Fraction
<1>2. s \in Nat /\ 2 * (D * s) <= 2 * (x * x) + D /\ 2 * (x * x) <= 2 * (D * s) + D
  BY RoundedMulBounds DEF Fraction
<1>3. q \in Nat /\ D * q <= z * x /\ z * x < D * q + D
  BY <1>1, MulBounds
<1>4. a \in Nat /\ D * a <= z * s /\ z * s < D * a + D
  BY <1>1, <1>2, MulBounds
<1>5. b \in Nat /\ D * b <= q * x /\ q * x < D * b + D
  BY <1>1, <1>3, MulBounds
<1>6. DD \in Nat /\ DD > 0
  BY <1>1
<1> HIDE DEF s, q, a, b
<1> DEFINE zs == D * (z * s)
           zxx == x * (z * x)
           qx == D * (q * x)
<1>7. z * s \in Nat /\ q * x \in Nat /\ z * x \in Nat
  BY <1>1, <1>2, <1>3
<1>8. DD * a <= zs /\ zs < DD * a + DD
  BY <1>1, <1>4, <1>7, QuotientScaled
<1>9. DD * b <= qx /\ qx < DD * b + DD
  BY <1>1, <1>5, <1>7, QuotientScaled
<1>10. qx <= zxx /\ zxx <= qx + DD
  BY <1>1, <1>3, <1>7, QuotientTimes
\* s is the square in parts of D, rounded.
<1>11. 2 * zs <= 2 * zxx + DD /\ 2 * zxx <= 2 * zs + DD
  <2> DEFINE u == D * s
             v == x * x
  <2>1. u \in Nat /\ v \in Nat /\ D * z = z * D
    BY <1>1, <1>2
  <2>2. zs = z * u /\ zxx = z * v
    BY <1>1, <1>2
  <2>3. D * z <= DD
    BY <1>1, TimesMonotone
  <2> HIDE DEF u, v
  <2>4. 2 * u <= 2 * v + D /\ 2 * v <= 2 * u + D
    BY <1>2 DEF u, v
  <2>5. z * (2 * u) <= z * (2 * v + D) /\ z * (2 * v) <= z * (2 * u + D)
    BY <1>1, <2>1, <2>4, TimesMonotone
  <2>6. z * (2 * u) = 2 * (z * u) /\ z * (2 * v) = 2 * (z * v)
    BY <1>1, <2>1
  <2>7. z * (2 * v + D) = z * (2 * v) + z * D /\ z * (2 * u + D) = z * (2 * u) + z * D
    BY <1>1, <2>1
  <2>8. z * u \in Nat /\ z * v \in Nat /\ z * D \in Nat
    BY <1>1, <2>1
  <2> DEFINE zu == z * u
             zv == z * v
             zD == z * D
  <2>9. 2 * zu <= 2 * zv + zD /\ 2 * zv <= 2 * zu + zD /\ zD <= DD
    BY <2>1, <2>3, <2>5, <2>6, <2>7
  <2>10. zu \in Nat /\ zv \in Nat /\ zD \in Nat
    BY <2>8
  <2> HIDE DEF zu, zv, zD, DD
  <2>11. 2 * zu <= 2 * zv + DD /\ 2 * zv <= 2 * zu + DD
    BY <1>6, <2>9, <2>10
  <2>12. QED BY <2>2, <2>11 DEF zu, zv
<1>12. zs \in Nat /\ zxx \in Nat /\ qx \in Nat
  BY <1>1, <1>7
<1>13. DD * a \in Nat /\ DD * b \in Nat
  <2> HIDE DEF DD
  <2>1. QED BY <1>4, <1>5, <1>6
<1> DEFINE A == DD * a
           B == DD * b
<1>14. A < B + 3 * DD /\ B < A + 3 * DD
  <2>1. A \in Nat /\ B \in Nat /\ A <= zs /\ zs < A + DD /\ B <= qx /\ qx < B + DD
    BY <1>8, <1>9, <1>13
  <2> HIDE DEF A, B, zs, zxx, qx, DD
  <2>2. QED BY <1>6, <1>10, <1>11, <1>12, <2>1
<1>15. a <= b + 2 /\ b <= a + 2
  <2>1. DD * a < DD * b + (2 + 1) * DD /\ DD * b < DD * a + (2 + 1) * DD
    BY <1>6, <1>13, <1>14
  <2> HIDE DEF DD
  <2>2. QED BY <1>4, <1>5, <1>6, <2>1, PartsLess
<1>16. QED BY <1>15 DEF Near, a, b, q, s

\* A product of three may be formed in two ways.
LEMMA ExchangeNear ==
    ASSUME NEW r \in Fraction, NEW g \in Fraction, NEW x \in Fraction
    PROVE  Near(Mul(r, Mul(g, x)), Mul(Mul(r, g), x), 1)
<1> DEFINE D == DIGITS
           DD == D * D
           p == Mul(g, x)
           q == Mul(r, g)
           a == Mul(r, p)
           b == Mul(q, x)
<1>1. D \in Nat /\ D > 0 /\ x \in Nat /\ x <= D /\ r \in Nat /\ r <= D /\ g \in Nat
  BY DecimalAssumption DEF Fraction
<1>2. p \in Nat /\ D * p <= g * x /\ g * x < D * p + D
  BY <1>1, MulBounds
<1>3. q \in Nat /\ D * q <= r * g /\ r * g < D * q + D
  BY <1>1, MulBounds
<1>4. a \in Nat /\ D * a <= r * p /\ r * p < D * a + D
  BY <1>1, <1>2, MulBounds
<1>5. b \in Nat /\ D * b <= q * x /\ q * x < D * b + D
  BY <1>1, <1>3, MulBounds
<1>6. DD \in Nat /\ DD > 0
  BY <1>1
<1> HIDE DEF p, q, a, b
<1> DEFINE T == r * (g * x)
           rp == D * (r * p)
           qx == D * (q * x)
<1>7. g * x \in Nat /\ r * g \in Nat /\ r * p \in Nat /\ q * x \in Nat
  BY <1>1, <1>2, <1>3
<1>8. DD * a <= rp /\ rp < DD * a + DD
  BY <1>1, <1>4, <1>7, QuotientScaled
<1>9. DD * b <= qx /\ qx < DD * b + DD
  BY <1>1, <1>5, <1>7, QuotientScaled
<1>10. rp <= T /\ T <= rp + DD
  <2>1. D * (p * r) <= r * (g * x) /\ r * (g * x) <= D * (p * r) + DD
    BY <1>1, <1>2, <1>7, QuotientTimes
  <2>2. p * r = r * p
    BY <1>1, <1>2
  <2>3. QED BY <2>1, <2>2
<1>11. qx <= T /\ T <= qx + DD
  <2>1. D * (q * x) <= x * (r * g) /\ x * (r * g) <= D * (q * x) + DD
    BY <1>1, <1>3, <1>7, QuotientTimes
  <2>2. x * (r * g) = T
    BY <1>1
  <2>3. QED BY <2>1, <2>2
<1>12. T \in Nat /\ rp \in Nat /\ qx \in Nat
  BY <1>1, <1>7
<1>13. DD * a \in Nat /\ DD * b \in Nat
  <2> HIDE DEF DD
  <2>1. QED BY <1>4, <1>5, <1>6
<1> DEFINE A == DD * a
           B == DD * b
<1>14. A < B + 2 * DD /\ B < A + 2 * DD
  <2>1. A \in Nat /\ B \in Nat /\ A <= rp /\ rp < A + DD /\ B <= qx /\ qx < B + DD
    BY <1>8, <1>9, <1>13
  <2> HIDE DEF A, B, T, rp, qx, DD
  <2>2. QED BY <1>6, <1>10, <1>11, <1>12, <2>1
<1>15. a <= b + 1 /\ b <= a + 1
  <2>1. DD * a < DD * b + (1 + 1) * DD /\ DD * b < DD * a + (1 + 1) * DD
    BY <1>6, <1>13, <1>14
  <2> HIDE DEF DD
  <2>2. QED BY <1>4, <1>5, <1>6, <2>1, PartsLess
<1>16. QED BY <1>15 DEF Near, a, b, p, q

-----------------------------------------------------------------------------
(* The reference: multiplying by x, k times *)

Steps(x, z) == LET steps[k \in Nat] == IF k = 0 THEN z ELSE (steps[k - 1] * x) \div DIGITS
               IN  steps

LEMMA StepsUnfold ==
    ASSUME NEW x \in Fraction, NEW z \in Nat
    PROVE  /\ \A k \in Nat : Steps(x, z)[k] \in Nat
           /\ Steps(x, z)[0] = z
           /\ \A k \in Nat : Steps(x, z)[k + 1] = Mul(Steps(x, z)[k], x)
<1> DEFINE rec == Nat \ {0}
           step == [k \in Nat |-> k - 1]
           n == [k \in Nat |-> k]
           h == [v \in Nat |-> Mul(v, x)]
           base == [k \in Nat |-> z]
<1>1. Descends(Nat, rec, step, n)
  BY DEF Descends
<1>2. h \in [Nat -> Nat] /\ base \in [Nat -> Nat]
  BY MulFraction
<1>3. PICK f \in [Nat -> Nat] :
             \A k \in Nat : f[k] = IF k \in rec THEN h[f[step[k]]] ELSE base[k]
  <2> DEFINE S == Nat
             V == Nat
  <2>1. Descends(S, rec, step, n) /\ h \in [V -> V] /\ base \in [S -> V]
    BY <1>1, <1>2
  <2> HIDE DEF rec, step, n, h, base, S, V
  <2>2. \E f \in [S -> V] :
             \A k \in S : f[k] = IF k \in rec THEN h[f[step[k]]] ELSE base[k]
    BY <2>1, RecursionIn
  <2>3. QED BY <2>2 DEF S, V
<1>4. f = [k \in Nat |-> IF k = 0 THEN z ELSE (f[k - 1] * x) \div DIGITS]
  <2>1. f = [k \in Nat |-> f[k]]
    OBVIOUS
  <2>2. ASSUME NEW k \in Nat
        PROVE  f[k] = IF k = 0 THEN z ELSE (f[k - 1] * x) \div DIGITS
    <3>1. CASE k = 0
      BY <1>3, <3>1
    <3>2. CASE k # 0
      <4>1. k \in rec /\ step[k] = k - 1 /\ k - 1 \in Nat
        BY <3>2
      <4>2. f[k] = h[f[k - 1]] /\ f[k - 1] \in Nat
        BY <1>3, <4>1
      <4>3. f[k] = Mul(f[k - 1], x)
        BY <4>2
      <4>4. QED BY <3>2, <4>3 DEF Mul
    <3>3. QED BY <3>1, <3>2
  <2>3. QED BY <2>1, <2>2
<1> DEFINE g == Steps(x, z)
<1>5. g = [k \in Nat |-> IF k = 0 THEN z ELSE (g[k - 1] * x) \div DIGITS]
  <2>1. g = CHOOSE steps : steps =
              [k \in Nat |-> IF k = 0 THEN z ELSE (steps[k - 1] * x) \div DIGITS]
    BY Zenon DEF Steps
  <2> HIDE DEF g
  <2>2. QED BY <1>4, <2>1
<1> HIDE DEF g
<1>6. g[0] = z
  BY <1>5
<1>7. ASSUME NEW k \in Nat PROVE g[k + 1] = Mul(g[k], x)
  <2>1. k + 1 \in Nat /\ k + 1 # 0 /\ (k + 1) - 1 = k
    OBVIOUS
  <2>2. g[k + 1] = (g[(k + 1) - 1] * x) \div DIGITS
    BY <1>5, <2>1
  <2>3. QED BY <2>1, <2>2 DEF Mul
<1> DEFINE Good == {k \in Nat : g[k] \in Nat}
<1>8. \A k \in Nat : k \in Good
  <2>1. 0 \in Good
    BY <1>6
  <2>2. \A k \in Nat : k \in Good => k + 1 \in Good
    BY <1>7, MulFraction
  <2> HIDE DEF Good
  <2>3. QED BY <2>1, <2>2, Induction
<1>9. \A k \in Nat : g[k] \in Nat
  BY <1>8
<1>10. QED BY <1>6, <1>7, <1>9 DEF g

\* Never more than at the start.
LEMMA StepsFall ==
    ASSUME NEW x \in Fraction, NEW z \in Nat
    PROVE  \A k \in Nat : Steps(x, z)[k] \in Nat /\ Steps(x, z)[k] <= z
<1> DEFINE Good == {k \in Nat : Steps(x, z)[k] <= z}
<1>1. \A k \in Nat : Steps(x, z)[k] \in Nat
  BY StepsUnfold
<1>2. 0 \in Good
  BY StepsUnfold
<1>3. \A k \in Nat : k \in Good => k + 1 \in Good
  <2>1. SUFFICES ASSUME NEW k \in Nat, k \in Good PROVE k + 1 \in Good
    OBVIOUS
  <2>2. Steps(x, z)[k + 1] = Mul(Steps(x, z)[k], x)
    BY StepsUnfold
  <2>3. Mul(Steps(x, z)[k], x) <= Steps(x, z)[k] /\ Mul(Steps(x, z)[k], x) \in Nat
    BY <1>1, MulFraction
  <2>4. QED BY <1>1, <2>1, <2>2, <2>3
<1>4. \A k \in Nat : k \in Good
  <2> HIDE DEF Good
  <2>1. QED BY <1>2, <1>3, Induction
<1>5. QED BY <1>1, <1>4

\* First j, then k.
LEMMA StepsCompose ==
    ASSUME NEW x \in Fraction, NEW z \in Nat, NEW j \in Nat, NEW k \in Nat,
           NEW n \in Nat, n = j + k, NEW w \in Nat, w = Steps(x, z)[j]
    PROVE  Steps(x, z)[n] = Steps(x, w)[k]
<1> DEFINE Good == {l \in Nat : Steps(x, z)[j + l] = Steps(x, w)[l]}
<1>1. w \in Nat
  OBVIOUS
<1>2. 0 \in Good
  <2>1. Steps(x, w)[0] = w
    BY <1>1, StepsUnfold
  <2>2. QED BY <2>1
<1>3. \A l \in Nat : l \in Good => l + 1 \in Good
  <2>1. SUFFICES ASSUME NEW l \in Nat, l \in Good PROVE l + 1 \in Good
    OBVIOUS
  <2>2. j + (l + 1) = (j + l) + 1 /\ j + l \in Nat
    OBVIOUS
  <2>3. Steps(x, z)[(j + l) + 1] = Mul(Steps(x, z)[j + l], x)
    BY <2>2, StepsUnfold
  <2>4. Steps(x, w)[l + 1] = Mul(Steps(x, w)[l], x)
    BY <1>1, StepsUnfold
  <2>5. Steps(x, z)[j + l] = Steps(x, w)[l]
    BY <2>1
  <2>6. QED BY <2>2, <2>3, <2>4, <2>5
<1>4. \A l \in Nat : l \in Good
  <2> HIDE DEF Good
  <2>1. QED BY <1>2, <1>3, Induction
<1>5. k \in Good
  BY <1>4
<1>6. QED BY <1>5

\* The longer, the less.
LEMMA StepsMonotone ==
    ASSUME NEW x \in Fraction, NEW z \in Nat, NEW j \in Nat, NEW k \in Nat, j <= k
    PROVE  Steps(x, z)[k] <= Steps(x, z)[j]
<1>1. k - j \in Nat /\ j + (k - j) = k
  OBVIOUS
<1>2. Steps(x, z)[j] \in Nat
  BY StepsUnfold
<1>3. Steps(x, z)[k] = Steps(x, Steps(x, z)[j])[k - j]
  <2> DEFINE i == k - j
             w == Steps(x, z)[j]
  <2>1. i \in Nat /\ k = j + i /\ w \in Nat
    BY <1>1, <1>2
  <2>2. w = Steps(x, z)[j]
    OBVIOUS
  <2> HIDE DEF i, w
  <2>3. Steps(x, z)[k] = Steps(x, w)[i]
    BY <2>1, <2>2, StepsCompose
  <2>4. QED BY <2>3 DEF i, w
<1>4. QED BY <1>1, <1>2, <1>3, StepsFall

\* What starts near stays near.
LEMMA StepsNear ==
    ASSUME NEW x \in Fraction, NEW z \in Nat, NEW w \in Nat, NEW e \in Nat, Near(z, w, e)
    PROVE  \A k \in Nat : Near(Steps(x, z)[k], Steps(x, w)[k], e)
<1> DEFINE Good == {k \in Nat : Near(Steps(x, z)[k], Steps(x, w)[k], e)}
<1>1. 0 \in Good
  BY StepsUnfold
<1>2. \A k \in Nat : k \in Good => k + 1 \in Good
  <2>1. SUFFICES ASSUME NEW k \in Nat, k \in Good PROVE k + 1 \in Good
    OBVIOUS
  <2>2. Steps(x, z)[k] \in Nat /\ Steps(x, w)[k] \in Nat
    BY StepsUnfold
  <2>3. Near(Mul(Steps(x, z)[k], x), Mul(Steps(x, w)[k], x), e)
    BY <2>1, <2>2, MulNear
  <2>4. Steps(x, z)[k + 1] = Mul(Steps(x, z)[k], x) /\ Steps(x, w)[k + 1] = Mul(Steps(x, w)[k], x)
    BY StepsUnfold
  <2>5. QED BY <2>3, <2>4
<1>3. \A k \in Nat : k \in Good
  <2> HIDE DEF Good
  <2>1. QED BY <1>1, <1>2, Induction
<1>4. QED BY <1>3

-----------------------------------------------------------------------------
(* How far repeated squaring is from the reference *)

\* Half the steps of the rounded square.
LEMMA SquaresNear ==
    ASSUME NEW x \in Fraction, NEW z \in Fraction
    PROVE  \A k \in Nat : Near(Steps(RoundedMul(x, x), z)[k], Steps(x, z)[2 * k], 2 * k)
<1> DEFINE s == RoundedMul(x, x)
           Good == {k \in Nat : Near(Steps(s, z)[k], Steps(x, z)[2 * k], 2 * k)}
<1>1. s \in Fraction /\ z \in Nat
  BY RoundedMulBounds DEF Fraction
<1> HIDE DEF s
<1>2. 0 \in Good
  <2>1. Steps(s, z)[0] = z /\ Steps(x, z)[0] = z
    BY <1>1, StepsUnfold
  <2>2. 2 * 0 = 0
    OBVIOUS
  <2>3. Near(z, z, 0)
    BY <1>1 DEF Near
  <2>4. QED BY <2>1, <2>2, <2>3
<1>3. ASSUME NEW k \in Nat, k \in Good PROVE k + 1 \in Good
  <2> DEFINE a == Steps(s, z)[k]
             b == Steps(x, z)[2 * k]
  <2>1. 2 * k \in Nat /\ 2 * k + 1 \in Nat /\ 2 * (k + 1) = (2 * k + 1) + 1
        /\ 2 * (k + 1) = 2 * k + 2
    OBVIOUS
  <2>2. a \in Nat /\ b \in Nat /\ b <= z
    BY <1>1, <2>1, StepsUnfold, StepsFall
  <2>3. b \in Fraction
    BY <1>1, <2>2, DecimalAssumption DEF Fraction
  <2>4. Steps(s, z)[k + 1] = Mul(a, s)
    BY <1>1, StepsUnfold
  <2>5. Steps(x, z)[2 * (k + 1)] = Mul(Mul(b, x), x)
    <3>1. Steps(x, z)[2 * k + 1] = Mul(b, x)
      BY <1>1, <2>1, StepsUnfold
    <3>2. Steps(x, z)[(2 * k + 1) + 1] = Mul(Steps(x, z)[2 * k + 1], x)
      BY <1>1, <2>1, StepsUnfold
    <3>3. QED BY <2>1, <3>1, <3>2
  <2>6. Near(a, b, 2 * k)
    BY <1>3
  <2> HIDE DEF a, b
  <2>7. Near(Mul(a, s), Mul(b, s), 2 * k)
    BY <1>1, <2>1, <2>2, <2>6, MulNear
  <2>8. Near(Mul(b, s), Mul(Mul(b, x), x), 2)
    BY <2>3, SquareNear DEF s
  <2>9. Mul(a, s) \in Nat /\ Mul(b, s) \in Nat /\ Mul(Mul(b, x), x) \in Nat
    BY <1>1, <2>2, MulFraction
  <2>10. Near(Mul(a, s), Mul(Mul(b, x), x), 2 * k + 2)
    BY <2>1, <2>7, <2>8, <2>9, NearTransitive
  <2>11. QED BY <2>1, <2>4, <2>5, <2>10
<1>4. \A k \in Nat : k \in Good
  <2> HIDE DEF Good
  <2>1. QED BY <1>2, <1>3, Induction
<1>5. QED BY <1>4 DEF s

\* Every round of the loop halves the number of steps that are left, and the
\* error it makes is in proportion to it.
LEMMA LoopNear ==
    \A n \in Nat : n > 0 => \A x, y \in Fraction :
        /\ DecPowLoop[[x |-> x, y |-> y, n |-> n]] \in Fraction
        /\ Near(DecPowLoop[[x |-> x, y |-> y, n |-> n]], Steps(x, y)[n], 2 * n - 1)
<1> DEFINE P(n) == \A x, y \in Fraction :
             /\ DecPowLoop[[x |-> x, y |-> y, n |-> n]] \in Fraction
             /\ Near(DecPowLoop[[x |-> x, y |-> y, n |-> n]], Steps(x, y)[n], 2 * n - 1)
           Good == {n \in Nat : n > 0 => P(n)}
<1>1. ASSUME NEW n \in Nat, \A j \in Nat : j < n => j \in Good, n > 0,
             NEW x \in Fraction, NEW y \in Fraction
      PROVE  /\ DecPowLoop[[x |-> x, y |-> y, n |-> n]] \in Fraction
             /\ Near(DecPowLoop[[x |-> x, y |-> y, n |-> n]], Steps(x, y)[n], 2 * n - 1)
  <2> DEFINE l == [x |-> x, y |-> y, n |-> n]
             s == RoundedMul(x, x)
             m == n \div 2
  <2>1. x \in Nat /\ y \in Nat /\ s \in Fraction
    BY RoundedMulBounds DEF Fraction
  <2>2. l \in Halvings
    BY <2>1 DEF Halvings
  <2>3. DecPowLoop[l] = IF n <= 1 THEN RoundedMul(x, y) ELSE DecPowLoop[Halved(l)]
    BY <2>2, DecPowLoopUnfolds
  <2>4. CASE n = 1
    <3>1. DecPowLoop[l] = RoundedMul(x, y)
      BY <2>3, <2>4
    <3>2. Steps(x, y)[1] = Mul(y, x)
      <4>1. Steps(x, y)[0 + 1] = Mul(Steps(x, y)[0], x) /\ Steps(x, y)[0] = y
        BY <2>1, StepsUnfold
      <4>2. QED BY <4>1
    <3>3. 2 * n - 1 = 1
      BY <2>4
    <3>4. QED BY <2>4, <3>1, <3>2, <3>3, RoundedMulBounds, RoundedMulNear
  <2>5. CASE n > 1
    <3>1. m \in Nat /\ m > 0 /\ m < n /\ P(m)
      BY <1>1, <2>5
    <3>2. 2 * m \in Nat /\ 2 * m - 1 \in Nat
      BY <3>1
    \* What is left of the loop is near the steps of x that are left.
    <3>3. ASSUME NEW z \in Fraction
          PROVE  /\ DecPowLoop[[x |-> s, y |-> z, n |-> m]] \in Fraction
                 /\ Near(DecPowLoop[[x |-> s, y |-> z, n |-> m]], Steps(x, z)[2 * m], 4 * m - 1)
      <4> DEFINE w == DecPowLoop[[x |-> s, y |-> z, n |-> m]]
      <4>1. w \in Fraction /\ Near(w, Steps(s, z)[m], 2 * m - 1)
        BY <2>1, <3>1, <3>3
      <4> HIDE DEF w, m
      <4>2. Near(Steps(s, z)[m], Steps(x, z)[2 * m], 2 * m)
        BY <3>1, <3>3, SquaresNear
      <4>3. w \in Nat /\ z \in Nat
        BY <3>3, <4>1 DEF Fraction
      <4>4. Steps(s, z)[m] \in Nat /\ Steps(x, z)[2 * m] \in Nat
        <5> HIDE DEF s
        <5>1. QED BY <2>1, <3>1, <3>2, <4>3, StepsUnfold
      <4>5. Near(w, Steps(x, z)[2 * m], (2 * m - 1) + 2 * m)
        <5> DEFINE d == 2 * m - 1
                   e == 2 * m
                   p == Steps(s, z)[m]
                   q == Steps(x, z)[2 * m]
        <5>1. d \in Nat /\ e \in Nat /\ p \in Nat /\ q \in Nat /\ Near(w, p, d) /\ Near(p, q, e)
          BY <3>2, <4>1, <4>2, <4>4
        <5> HIDE DEF d, e, p, q
        <5>2. Near(w, q, d + e)
          BY <4>3, <5>1, NearTransitive
        <5>3. QED BY <5>2 DEF d, e, q
      <4>6. (2 * m - 1) + 2 * m = 4 * m - 1
        BY <3>1
      <4>7. QED BY <4>1, <4>5, <4>6 DEF w
    <3>4. CASE n % 2 = 0
      <4>1. n = 2 * m /\ 4 * m - 1 = 2 * n - 1
        BY <2>5, <3>4
      <4>2. Halved(l) = [x |-> s, y |-> y, n |-> m]
        BY <3>4 DEF Halved
      <4> HIDE DEF m, s, l
      <4>3. DecPowLoop[l] = DecPowLoop[[x |-> s, y |-> y, n |-> m]]
        BY <2>3, <2>5, <4>2
      <4>4. DecPowLoop[l] \in Fraction /\ Near(DecPowLoop[l], Steps(x, y)[2 * m], 4 * m - 1)
        BY <3>3, <4>3
      <4>5. DecPowLoop[l] \in Fraction /\ Near(DecPowLoop[l], Steps(x, y)[n], 2 * n - 1)
        BY <4>1, <4>4
      <4>6. QED BY <4>5 DEF l
    <3>5. CASE n % 2 # 0
      <4> DEFINE z == RoundedMul(x, y)
                 u == Mul(y, x)
      <4>1. n = 2 * m + 1 /\ (n - 1) \div 2 = m /\ 2 * n - 1 = (4 * m - 1) + 2 /\ 4 * m - 1 \in Nat
        BY <2>5, <3>5
      <4>2. Halved(l) = [x |-> s, y |-> z, n |-> m]
        BY <3>5, <4>1 DEF Halved
      <4> HIDE DEF m, s, l
      <4>3. DecPowLoop[l] = DecPowLoop[[x |-> s, y |-> z, n |-> m]]
        BY <2>3, <2>5, <4>2
      <4>4. z \in Fraction /\ z \in Nat /\ u \in Nat /\ Near(z, u, 1)
        BY <2>1, RoundedMulBounds, RoundedMulNear, MulFraction DEF Fraction
      <4> HIDE DEF z
      <4>5. DecPowLoop[l] \in Fraction /\ Near(DecPowLoop[l], Steps(x, z)[2 * m], 4 * m - 1)
        BY <3>3, <4>3, <4>4
      <4>6. Near(Steps(x, z)[2 * m], Steps(x, u)[2 * m], 1)
        <5> HIDE DEF u
        <5>1. QED BY <3>2, <4>4, StepsNear
      <4>7. Steps(x, y)[n] = Steps(x, u)[2 * m]
        <5>1. Steps(x, y)[1] = u
          <6>1. Steps(x, y)[0 + 1] = Mul(Steps(x, y)[0], x) /\ Steps(x, y)[0] = y
            BY <2>1, StepsUnfold
          <6>2. QED BY <6>1
        <5>2. n = 1 + 2 * m
          BY <3>2, <4>1
        <5> DEFINE k == 2 * m
        <5>3. k \in Nat /\ n = 1 + k
          BY <3>2, <5>2
        <5> HIDE DEF k, u
        <5>4. Steps(x, y)[n] = Steps(x, u)[k]
          BY <2>1, <4>4, <5>1, <5>3, StepsCompose
        <5>5. QED BY <5>4 DEF k
      <4>8. Near(DecPowLoop[l], Steps(x, u)[2 * m], (4 * m - 1) + 1)
        <5>1. DecPowLoop[l] \in Nat
          BY <4>5 DEF Fraction
        <5>2. Steps(x, z)[2 * m] \in Nat /\ Steps(x, u)[2 * m] \in Nat
          <6> HIDE DEF u
          <6>1. QED BY <3>2, <4>4, StepsUnfold
        <5> HIDE DEF u
        <5>3. QED BY <4>1, <4>5, <4>6, <5>1, <5>2, NearTransitive
      <4>9. Near(DecPowLoop[l], Steps(x, y)[n], 2 * n - 1)
        <5>1. DecPowLoop[l] \in Nat /\ Steps(x, y)[n] \in Nat
          BY <2>1, <4>5, StepsUnfold DEF Fraction
        <5>2. Near(DecPowLoop[l], Steps(x, y)[n], (4 * m - 1) + 1)
          BY <4>7, <4>8
        <5>3. QED BY <4>1, <5>1, <5>2 DEF Near
      <4>10. QED BY <4>5, <4>9 DEF l
    <3>6. QED BY <3>4, <3>5
  <2>6. n = 1 \/ n > 1
    BY <1>1
  <2>7. QED BY <2>4, <2>5, <2>6
<1>2. \A n \in Nat : (\A j \in Nat : j < n => j \in Good) => n \in Good
  <2>1. SUFFICES ASSUME NEW n \in Nat, \A j \in Nat : j < n => j \in Good, n > 0
                 PROVE  P(n)
    OBVIOUS
  <2>2. QED BY <1>1, <2>1
<1>3. \A n \in Nat : n \in Good
  <2> HIDE DEF Good
  <2>1. QED BY <1>2, StrongInduction
<1>4. QED BY <1>3

\* The power times a rate, and the steps from the rate.
LEMMA ProductNear ==
    ASSUME NEW x \in Fraction, NEW r \in Fraction
    PROVE  \A k \in Nat : Near(Mul(r, Steps(x, DIGITS)[k]), Steps(x, r)[k], k)
<1> DEFINE Good == {k \in Nat : Near(Mul(r, Steps(x, DIGITS)[k]), Steps(x, r)[k], k)}
<1>1. DIGITS \in Nat /\ r \in Nat
  BY DecimalAssumption DEF Fraction
<1>2. 0 \in Good
  <2>1. Steps(x, DIGITS)[0] = DIGITS /\ Steps(x, r)[0] = r
    BY <1>1, StepsUnfold
  <2>2. Mul(r, DIGITS) = r
    BY <1>1, MulOne
  <2>3. Near(r, r, 0)
    BY <1>1 DEF Near
  <2>4. QED BY <2>1, <2>2, <2>3
<1>3. ASSUME NEW k \in Nat, k \in Good PROVE k + 1 \in Good
  <2> DEFINE g == Steps(x, DIGITS)[k]
             b == Steps(x, r)[k]
  <2>1. g \in Fraction /\ g \in Nat /\ b \in Nat
    BY <1>1, StepsFall DEF Fraction
  <2>2. Steps(x, DIGITS)[k + 1] = Mul(g, x) /\ Steps(x, r)[k + 1] = Mul(b, x)
    BY <1>1, StepsUnfold
  <2>3. Near(Mul(r, g), b, k)
    BY <1>3
  <2> HIDE DEF g, b
  <2>4. Near(Mul(r, Mul(g, x)), Mul(Mul(r, g), x), 1)
    BY <2>1, ExchangeNear
  <2>5. Mul(r, g) \in Nat /\ Mul(g, x) \in Fraction
    <3>1. Mul(r, g) \in Nat /\ Mul(g, x) \in Nat /\ Mul(g, x) <= g
      BY <1>1, <2>1, MulFraction
    <3>2. g <= DIGITS
      BY <2>1 DEF Fraction
    <3>3. QED BY <1>1, <2>1, <3>1, <3>2 DEF Fraction
  <2>6. Near(Mul(Mul(r, g), x), Mul(b, x), k)
    BY <2>1, <2>3, <2>5, MulNear
  <2>7. Mul(r, Mul(g, x)) \in Nat /\ Mul(Mul(r, g), x) \in Nat /\ Mul(b, x) \in Nat
    BY <1>1, <2>1, <2>5, MulFraction
  <2>8. Near(Mul(r, Mul(g, x)), Mul(b, x), 1 + k)
    BY <2>4, <2>6, <2>7, NearTransitive
  <2>9. 1 + k = k + 1
    OBVIOUS
  <2>10. QED BY <2>2, <2>8, <2>9
<1>4. \A k \in Nat : k \in Good
  <2> HIDE DEF Good
  <2>1. QED BY <1>2, <1>3, Induction
<1>5. QED BY <1>4

LEMMA FactorIsFraction == MINUTE_DECAY_FACTOR \in Fraction
BY FeesAssumption, DecimalAssumption DEF Fraction

\* What the contracts make of a rate after some minutes.
LEMMA DecayNear ==
    ASSUME NEW r \in Fraction, NEW m \in Nat, m <= MAX_MINUTES
    PROVE  /\ DecPow(MINUTE_DECAY_FACTOR, m) \in Fraction
           /\ Near(Mul(r, DecPow(MINUTE_DECAY_FACTOR, m)), Steps(MINUTE_DECAY_FACTOR, r)[m], 3 * m)
<1> DEFINE x == MINUTE_DECAY_FACTOR
           p == DecPow(x, m)
           g == Steps(x, DIGITS)[m]
           b == Steps(x, r)[m]
<1>1. x \in Fraction /\ DIGITS \in Fraction /\ DIGITS \in Nat /\ r \in Nat
  BY FactorIsFraction, DecimalAssumption DEF Fraction
<1>2. p \in Fraction /\ Near(p, g, 2 * m)
  <2>1. CASE m = 0
    <3>1. p = DIGITS
      BY <2>1 DEF DecPow
    <3>2. g = DIGITS
      BY <1>1, <2>1, StepsUnfold
    <3>3. Near(DIGITS, DIGITS, 2 * m)
      BY <1>1, <2>1 DEF Near
    <3>4. QED BY <1>1, <3>1, <3>2, <3>3
  <2>2. CASE m # 0
    <3>1. DecimalMin(m, MAX_MINUTES) = m
      BY DEF DecimalMin, MAX_MINUTES
    <3>2. p = DecPowLoop[[x |-> x, y |-> DIGITS, n |-> m]]
      BY <2>2, <3>1 DEF DecPow
    <3> HIDE DEF p, x
    <3>3. p \in Fraction /\ Near(p, g, 2 * m - 1)
      <4>1. m > 0
        BY <2>2
      <4>2. \A z, y \in Fraction :
              /\ DecPowLoop[[x |-> z, y |-> y, n |-> m]] \in Fraction
              /\ Near(DecPowLoop[[x |-> z, y |-> y, n |-> m]], Steps(z, y)[m], 2 * m - 1)
        BY <4>1, LoopNear
      <4>3. QED BY <1>1, <3>2, <4>2
    <3>4. p \in Nat /\ g \in Nat
      BY <1>1, <3>3, StepsUnfold DEF Fraction
    <3>5. QED BY <3>3, <3>4 DEF Near
  <2>3. QED BY <2>1, <2>2
<1> HIDE DEF p, x
<1>3. p \in Nat /\ g \in Nat /\ g \in Fraction /\ b \in Nat
  BY <1>1, <1>2, StepsFall DEF Fraction
<1> HIDE DEF g, b
<1>4. Near(Mul(r, p), Mul(r, g), 2 * m)
  <2>1. Near(Mul(p, r), Mul(g, r), 2 * m)
    BY <1>2, <1>3, MulNear
  <2>2. p * r = r * p /\ g * r = r * g
    BY <1>1, <1>3
  <2>3. Mul(p, r) = Mul(r, p) /\ Mul(g, r) = Mul(r, g)
    BY <2>2 DEF Mul
  <2>4. QED BY <2>1, <2>3
<1>5. Near(Mul(r, g), b, m)
  BY <1>1, ProductNear DEF g, b
<1>6. Mul(r, p) \in Nat /\ Mul(r, g) \in Nat
  BY <1>1, <1>2, <1>3, MulFraction
<1>7. Near(Mul(r, p), b, 2 * m + m)
  BY <1>3, <1>4, <1>5, <1>6, NearTransitive
<1>8. 2 * m + m = 3 * m
  OBVIOUS
<1>9. QED BY <1>2, <1>7, <1>8 DEF p, b, x

-----------------------------------------------------------------------------
(* What the contracts do between redemptions *)

\* The minutes by which the stored rate has decayed since the redemption: at
\* most those begun, at least half of those that passed.
Counted(k) ==
    /\ SECONDS_IN_ONE_MINUTE * k + redeemed.time < lastFeeOperationTime + SECONDS_IN_ONE_MINUTE
    /\ lastFeeOperationTime <= redeemed.time + 2 * (SECONDS_IN_ONE_MINUTE * k)
    /\ Near(baseRate, Steps(MINUTE_DECAY_FACTOR, redeemed.rate)[k], 3 * k)

FeesInv ==
    /\ baseRate \in Fraction
    /\ redeemed \in [rate : Fraction, time : Nat] /\ redeemed.time <= now
    /\ lastFeeOperationTime \in Nat /\ lastFeeOperationTime <= now
    /\ now \in Nat /\ now <= MaxTime
    /\ \E k \in Nat : Counted(k)

LEMMA MinuteIsPositive == SECONDS_IN_ONE_MINUTE \in Nat /\ SECONDS_IN_ONE_MINUTE > 0
BY FeesAssumption

\* Nobody looks further ahead than _decPow counts.
LEMMA MinutesAreCounted ==
    ASSUME FeesInv, NEW wait \in Waits \union {0}
    PROVE  /\ wait \in Nat
           /\ MinutesPassed(now + wait) \in Nat
           /\ MinutesPassed(now + wait) <= MAX_MINUTES
<1> DEFINE S == SECONDS_IN_ONE_MINUTE
           a == now + wait - lastFeeOperationTime
           b == MaxTime + wait
<1>1. wait \in Nat
  BY FeesAssumption
<1>2. a \in Nat /\ b \in Nat /\ a <= b
  BY <1>1, FeesAssumption DEF FeesInv
<1>3. S \in Nat /\ S > 0 /\ b \div S <= MAX_MINUTES
  BY FeesAssumption
<1>4. MinutesPassed(now + wait) = a \div S
  <2>1. now \in Nat /\ lastFeeOperationTime \in Nat
    BY DEF FeesInv
  <2>2. QED BY <1>1, <1>2, <1>3, <2>1 DEF MinutesPassed
<1> HIDE DEF S, a, b
<1>5. a \div S \in Nat /\ S * (a \div S) <= a /\ b \div S \in Nat /\ b < S * (b \div S) + S
  BY <1>2, <1>3, Quotient
<1> DEFINE p == a \div S
           q == b \div S
<1>6. p \in Nat /\ q \in Nat /\ S * p <= a /\ b < S * q + S
  BY <1>5
<1>7. p <= q
  <2> HIDE DEF p, q
  <2>1. S * (q + 1) = S * q + S /\ S * p \in Nat /\ S * q \in Nat
    BY <1>3, <1>6
  <2>2. S * p < S * (q + 1)
    BY <1>2, <1>3, <1>6, <2>1
  <2>3. p < q + 1
    BY <1>3, <1>6, <2>2, CancelLess
  <2>4. QED BY <1>6, <2>3
<1>8. MAX_MINUTES \in Nat
  BY DEF MAX_MINUTES
<1>9. QED BY <1>1, <1>3, <1>4, <1>6, <1>7, <1>8

\* The decayed rate is a fraction, and as far from the reference as the
\* minutes counted and those that passed allow.
LEMMA DecayCounts ==
    ASSUME FeesInv
    PROVE  /\ CalcDecayedBaseRate(now) \in Fraction
           /\ \A k \in Nat : Counted(k) =>
                LET n == k + MinutesPassed(now) IN
                Near(CalcDecayedBaseRate(now), Steps(MINUTE_DECAY_FACTOR, redeemed.rate)[n], 3 * n)
<1> DEFINE x == MINUTE_DECAY_FACTOR
           m == MinutesPassed(now)
           c == CalcDecayedBaseRate(now)
<1>1. m \in Nat /\ m <= MAX_MINUTES
  <2>1. now + 0 = now
    BY DEF FeesInv
  <2>2. QED BY <2>1, MinutesAreCounted
<1>2. x \in Fraction /\ baseRate \in Fraction /\ baseRate \in Nat /\ redeemed.rate \in Nat
  BY FactorIsFraction DEF FeesInv, Fraction
<1>3. c = Mul(baseRate, DecPow(x, m))
  BY DEF CalcDecayedBaseRate, Mul
<1>4. DecPow(x, m) \in Fraction /\ Near(c, Steps(x, baseRate)[m], 3 * m)
  <2> HIDE DEF m, c
  <2>1. QED BY <1>1, <1>2, <1>3, DecayNear DEF x
<1> HIDE DEF m, x, c
<1>5. c \in Nat /\ c <= baseRate
  BY <1>2, <1>3, <1>4, MulFraction
<1>6. c \in Fraction
  BY <1>2, <1>5, DecimalAssumption DEF Fraction
<1>7. ASSUME NEW k \in Nat, Counted(k)
      PROVE  Near(c, Steps(x, redeemed.rate)[k + m], 3 * (k + m))
  <2> DEFINE r == Steps(x, redeemed.rate)[k]
             p == Steps(x, baseRate)[m]
             q == Steps(x, r)[m]
             d == 3 * m
             e == 3 * k
  <2>1. r \in Nat /\ d \in Nat /\ e \in Nat
    BY <1>1, <1>2, StepsUnfold
  <2>2. Near(baseRate, r, e)
    BY <1>7 DEF Counted, x
  <2> HIDE DEF r, d, e
  <2>3. p \in Nat /\ q \in Nat
    BY <1>1, <1>2, <2>1, StepsUnfold
  <2>4. Near(p, q, e)
    BY <1>1, <1>2, <2>1, <2>2, StepsNear
  <2>5. Near(c, p, d)
    BY <1>4 DEF d
  <2> HIDE DEF p, q
  <2>6. Near(c, q, d + e)
    BY <1>5, <2>1, <2>3, <2>4, <2>5, NearTransitive
  <2>7. q = Steps(x, redeemed.rate)[k + m]
    <3> DEFINE z == redeemed.rate
               n == k + m
    <3>1. z \in Nat /\ n \in Nat /\ n = k + m
      BY <1>1, <1>2
    <3>2. r = Steps(x, z)[k]
      BY DEF r
    <3> HIDE DEF z, n
    <3>3. Steps(x, z)[n] = Steps(x, r)[m]
      <4>1. x \in Fraction /\ k \in Nat /\ m \in Nat /\ r \in Nat
        BY <1>1, <1>2, <1>7, <2>1
      <4>2. QED BY <3>1, <3>2, <4>1, StepsCompose, SMTT(30)
    <3>4. QED BY <3>3 DEF q, z, n
  <2>8. d + e = 3 * (k + m)
    BY <1>1 DEF d, e
  <2>9. QED BY <2>6, <2>7, <2>8
<1>8. QED BY <1>6, <1>7 DEF m, x, c

\* The minutes that passed, in seconds.
LEMMA SecondsPassed ==
    ASSUME FeesInv
    PROVE  /\ MinutesPassed(now) \in Nat
           /\ SECONDS_IN_ONE_MINUTE * MinutesPassed(now) + lastFeeOperationTime <= now
           /\ now < SECONDS_IN_ONE_MINUTE * MinutesPassed(now) + SECONDS_IN_ONE_MINUTE
                      + lastFeeOperationTime
<1> DEFINE S == SECONDS_IN_ONE_MINUTE
           a == now - lastFeeOperationTime
<1>1. a \in Nat /\ S \in Nat /\ S > 0
  BY MinuteIsPositive DEF FeesInv
<1>2. MinutesPassed(now) = a \div S
  BY DEF MinutesPassed
<1> HIDE DEF a, S
<1>3. a \div S \in Nat /\ S * (a \div S) <= a /\ a < S * (a \div S) + S
  BY <1>1, Quotient
<1> DEFINE m == a \div S
           sm == S * m
<1>4. m \in Nat /\ sm \in Nat /\ sm <= a /\ a < sm + S
  BY <1>1, <1>3
<1> HIDE DEF m, sm
<1>5. now \in Nat /\ lastFeeOperationTime \in Nat
  BY DEF FeesInv
<1>6. sm + lastFeeOperationTime <= now /\ now < sm + S + lastFeeOperationTime
  BY <1>1, <1>4, <1>5 DEF a
<1>7. QED BY <1>2, <1>4, <1>6 DEF m, sm, S

LEMMA InitFees == Init => FeesInv
<1>1. SUFFICES ASSUME Init PROVE FeesInv
  OBVIOUS
<1>2. 0 \in Fraction /\ 0 \in Nat
  BY DecimalAssumption DEF Fraction
<1>3. Counted(0)
  <2>1. redeemed.rate = 0 /\ redeemed.time = 0 /\ baseRate = 0 /\ lastFeeOperationTime = 0
    BY <1>1 DEF Init
  <2>2. Steps(MINUTE_DECAY_FACTOR, 0)[0] = 0
    BY FactorIsFraction, StepsUnfold
  <2>3. SECONDS_IN_ONE_MINUTE * 0 = 0 /\ 2 * 0 = 0 /\ 3 * 0 = 0
    BY MinuteIsPositive
  <2>4. Near(0, 0, 0)
    BY DEF Near
  <2>5. QED BY <2>1, <2>2, <2>3, <2>4, MinuteIsPositive DEF Counted
<1>4. QED BY <1>1, <1>2, <1>3, FeesAssumption DEF Init, FeesInv

LEMMA WaitKeepsFees == ASSUME FeesInv, NEW s \in Waits, Wait(s) PROVE FeesInv'
<1>1. s \in Nat /\ MaxTime \in Nat
  BY FeesAssumption
<1>2. PICK k \in Nat : Counted(k)
  BY DEF FeesInv
<1>3. Counted(k)'
  BY <1>2 DEF Wait, Counted
<1>4. QED BY <1>1, <1>3 DEF Wait, FeesInv

LEMMA RatioKeepsFees == ASSUME FeesInv, NEW r \in Ratios, ChangeTCR(r) PROVE FeesInv'
<1>1. PICK k \in Nat : Counted(k)
  BY DEF FeesInv
<1>2. Counted(k)'
  BY <1>1 DEF ChangeTCR, Counted
<1>3. QED BY <1>2 DEF ChangeTCR, FeesInv

\* Borrowing commits the decay of whole minutes only, and moves the clock only
\* if there was one.
LEMMA BorrowKeepsFees == ASSUME FeesInv, Borrow PROVE FeesInv'
<1> DEFINE S == SECONDS_IN_ONE_MINUTE
           m == MinutesPassed(now)
           t == redeemed.time
           l == lastFeeOperationTime
           l2 == lastFeeOperationTime'
           sm == S * m
<1>1. PICK k \in Nat : Counted(k)
  BY DEF FeesInv
<1> DEFINE sk == S * k
<1>2. S \in Nat /\ S > 0 /\ t \in Nat /\ l \in Nat /\ now \in Nat /\ l <= now
  BY MinuteIsPositive DEF FeesInv
<1>3. m \in Nat /\ sm + l <= now /\ now < sm + S + l
  BY SecondsPassed
<1>4. sk + t < l + S /\ l <= t + 2 * sk
  BY <1>1 DEF Counted
<1>5. sm \in Nat /\ sk \in Nat /\ S * (k + m) = sk + sm /\ k + m \in Nat
  <2> HIDE DEF S, m
  <2>1. QED BY <1>2, <1>3
<1>6. l2 = IF now - l >= S THEN now ELSE l
  BY DEF Borrow, UpdateLastFeeOpTime
<1>7. sm = 0 \/ sm >= S
  <2>1. m = 0 \/ m >= 1
    BY <1>3
  <2>2. m = 0 => sm = 0
    <3> HIDE DEF m
    <3>1. QED BY <1>2
  <2>3. m >= 1 => S * 1 <= sm
    <3> HIDE DEF m, S
    <3>1. QED BY <1>2, <1>3, TimesMonotone
  <2>4. S * 1 = S
    BY <1>2
  <2>5. QED BY <2>1, <2>2, <2>3, <2>4
<1>8. l2 \in Nat /\ l2 <= now /\ (sk + sm) + t < l2 + S /\ l2 <= t + 2 * (sk + sm)
  <2>1. now - l >= S <=> sm # 0
    <3> HIDE DEF S, m, t, l, sm, sk
    <3>1. QED BY <1>2, <1>3, <1>5, <1>7
  <2>2. CASE sm = 0
    <3> HIDE DEF S, m, t, l, l2, sm, sk
    <3>1. QED BY <1>2, <1>4, <1>5, <1>6, <2>1, <2>2
  <2>3. CASE sm # 0
    <3> HIDE DEF S, m, t, l, l2, sm, sk
    <3>1. QED BY <1>2, <1>3, <1>4, <1>5, <1>6, <1>7, <2>1, <2>3
  <2>4. QED BY <2>2, <2>3
<1>9. baseRate' = CalcDecayedBaseRate(now) /\ now' = now /\ redeemed' = redeemed
  BY DEF Borrow
<1>10. CalcDecayedBaseRate(now) \in Fraction
       /\ Near(CalcDecayedBaseRate(now), Steps(MINUTE_DECAY_FACTOR, redeemed.rate)[k + m],
               3 * (k + m))
  BY <1>1, DecayCounts
<1>11. PICK n \in Nat : n = k + m
  BY <1>5
<1>12. Counted(n)'
  BY <1>5, <1>8, <1>9, <1>10, <1>11 DEF Counted
<1>13. /\ baseRate' \in Fraction /\ redeemed' \in [rate : Fraction, time : Nat]
       /\ redeemed'.time <= now' /\ now' \in Nat /\ now' <= MaxTime
  BY <1>9, <1>10 DEF FeesInv
<1>14. QED BY <1>8, <1>9, <1>12, <1>13 DEF FeesInv

\* A redemption starts anew.
LEMMA RedeemKeepsFees == ASSUME FeesInv, NEW f \in Fractions, Redeem(f) PROVE FeesInv'
<1>1. f \in Nat /\ f \div BETA \in Nat
  <2>1. f \in Nat /\ BETA \in Nat /\ BETA > 0
    BY FeesAssumption
  <2>2. QED BY <2>1, Quotient
<1>2. RateAfterRedemption(f) \in Fraction
  <2>1. CalcDecayedBaseRate(now) \in Fraction
    BY DecayCounts
  <2> DEFINE c == CalcDecayedBaseRate(now)
             g == f \div BETA
  <2>2. c \in Fraction /\ g \in Nat /\ RateAfterRedemption(f) = DecimalMin(c + g, DIGITS)
    BY <1>1, <2>1 DEF RateAfterRedemption
  <2> HIDE DEF c, g
  <2>3. QED BY <2>2, DecimalAssumption DEF DecimalMin, Fraction
<1> DEFINE r == RateAfterRedemption(f)
<1>3. baseRate' = r /\ redeemed' = [rate |-> r, time |-> now] /\ now' = now
      /\ lastFeeOperationTime'
           = IF now - lastFeeOperationTime >= SECONDS_IN_ONE_MINUTE THEN now
             ELSE lastFeeOperationTime
  BY DEF Redeem, UpdateLastFeeOpTime
<1> HIDE DEF r
<1>4. r \in Fraction /\ r \in Nat
  BY <1>2 DEF Fraction, r
<1>5. now \in Nat /\ lastFeeOperationTime \in Nat /\ lastFeeOperationTime <= now /\ now <= MaxTime
  BY DEF FeesInv
<1>6. lastFeeOperationTime' \in Nat /\ lastFeeOperationTime' <= now
      /\ now < lastFeeOperationTime' + SECONDS_IN_ONE_MINUTE
  BY <1>3, <1>5, MinuteIsPositive
<1>7. Counted(0)'
  <2>1. Steps(MINUTE_DECAY_FACTOR, r)[0] = r
    BY <1>4, FactorIsFraction, StepsUnfold
  <2>2. SECONDS_IN_ONE_MINUTE * 0 = 0 /\ 2 * 0 = 0 /\ 3 * 0 = 0
    BY MinuteIsPositive
  <2>3. Near(r, r, 0)
    BY <1>4 DEF Near
  <2>4. redeemed'.rate = r /\ redeemed'.time = now
    BY <1>3
  <2>5. QED BY <1>3, <1>5, <1>6, <2>1, <2>2, <2>3, <2>4, MinuteIsPositive DEF Counted
<1>8. QED BY <1>3, <1>4, <1>5, <1>6, <1>7 DEF FeesInv

LEMMA FeesInvariant == Spec => []FeesInv
<1>1. FeesInv /\ [Next]_vars => FeesInv'
  <2>1. SUFFICES ASSUME FeesInv, [Next]_vars PROVE FeesInv'
    OBVIOUS
  <2>2. CASE UNCHANGED vars
    <3>1. PICK k \in Nat : Counted(k)
      BY <2>1 DEF FeesInv
    <3>2. Counted(k)'
      BY <2>2, <3>1 DEF vars, Counted
    <3>3. QED BY <2>1, <2>2, <3>2 DEF vars, FeesInv
  <2>3. QED
    BY <2>1, <2>2, WaitKeepsFees, RatioKeepsFees, BorrowKeepsFees, RedeemKeepsFees DEF Next
<1>2. QED BY <1>1, InitFees, PTL DEF Spec

\* However many loans are taken after a redemption, the rate has decayed by a
\* number of steps between every second minute and every minute begun.
LEMMA RateIsBetween ==
    ASSUME FeesInv
    PROVE  \E n \in Nat :
             /\ EverySecondMinute \in Nat /\ EverySecondMinute <= n
             /\ MinutesBegun \in Nat /\ n <= MinutesBegun
             /\ EffectiveRate \in Nat
             /\ Near(EffectiveRate, Steps(MINUTE_DECAY_FACTOR, redeemed.rate)[n], 3 * n)
<1> DEFINE S == SECONDS_IN_ONE_MINUTE
           m == MinutesPassed(now)
           t == redeemed.time
           l == lastFeeOperationTime
           sm == S * m
<1>1. PICK k \in Nat : Counted(k)
  BY DEF FeesInv
<1> DEFINE sk == S * k
           n == k + m
           sn == S * n
<1>2. S \in Nat /\ S > 0 /\ t \in Nat /\ l \in Nat /\ now \in Nat /\ l <= now /\ t <= now
  BY MinuteIsPositive DEF FeesInv
<1>3. m \in Nat /\ sm + l <= now /\ now < sm + S + l
  BY SecondsPassed
<1>4. sk + t < l + S /\ l <= t + 2 * sk
  BY <1>1 DEF Counted
<1>5. sm \in Nat /\ sk \in Nat /\ sn = sk + sm /\ n \in Nat
  <2> HIDE DEF S, m
  <2>1. QED BY <1>2, <1>3
<1> DEFINE since == now - t
<1>6. since \in Nat /\ sn <= since + S - 1 /\ since + S < 2 * sn + 2 * S
  <2> HIDE DEF S, m, t, l, sm, sk, n, sn
  <2>1. QED BY <1>2, <1>3, <1>4, <1>5
<1>7. EffectiveRate \in Nat
      /\ Near(EffectiveRate, Steps(MINUTE_DECAY_FACTOR, redeemed.rate)[n], 3 * n)
  BY <1>1, DecayCounts DEF EffectiveRate, Fraction
<1>8. MinutesBegun \in Nat /\ n <= MinutesBegun
  <2> DEFINE a == since + S - 1
             q == a \div S
  <2>1. MinutesBegun = q
    BY <1>2, <1>6 DEF MinutesBegun, SinceRedemption
  <2>2. a \in Nat /\ sn <= a
    <3> HIDE DEF since, S, sn
    <3>1. QED BY <1>2, <1>6
  <2> HIDE DEF a, S, n
  <2>3. q \in Nat /\ S * q <= a /\ a < S * q + S
    BY <1>2, <2>2, Quotient
  <2> HIDE DEF q
  <2>4. S * (q + 1) = S * q + S /\ S * q \in Nat
    BY <1>2, <2>3
  <2>5. S * n < S * (q + 1)
    BY <1>2, <1>5, <2>2, <2>3, <2>4
  <2>6. n < q + 1
    BY <1>2, <1>5, <2>3, <2>5, CancelLess
  <2>7. QED BY <1>5, <2>1, <2>3, <2>6
<1>9. EverySecondMinute \in Nat /\ EverySecondMinute <= n
  <2> DEFINE a == since + S
             d == 2 * S
             q == a \div d
  <2>1. EverySecondMinute = q
    BY <1>2, <1>6 DEF EverySecondMinute, SinceRedemption
  <2>2. a \in Nat /\ d \in Nat /\ d > 0 /\ a < 2 * sn + d
    <3> HIDE DEF since, S, sn
    <3>1. QED BY <1>2, <1>6
  <2>3. d * n = 2 * sn /\ d * (n + 1) = 2 * sn + d
    <3> HIDE DEF S, n
    <3>1. QED BY <1>2, <1>5
  <2> HIDE DEF a, d, n, sn
  <2>4. q \in Nat /\ d * q <= a
    BY <2>2, Quotient
  <2> HIDE DEF q
  <2>5. d * q \in Nat /\ d * (n + 1) \in Nat
    BY <1>5, <2>2, <2>4
  <2>6. d * q < d * (n + 1)
    BY <2>2, <2>3, <2>4, <2>5
  <2>7. q < n + 1
    BY <1>5, <2>2, <2>4, <2>6, CancelLess
  <2>8. QED BY <1>5, <2>1, <2>4, <2>7
<1>10. PICK j \in Nat : j = n
  BY <1>5
<1>11. QED BY <1>7, <1>8, <1>9, <1>10

LEMMA DecayedOnceIsSteps == DecayedOnce = Steps(MINUTE_DECAY_FACTOR, redeemed.rate)
BY Zenon DEF DecayedOnce, Steps

\* FeeRates!RateKeepsDecaying: whoever borrows, however often and whenever,
\* cannot keep the rate from losing at least every second minute's decay;
\* repeated squaring costs no more than three last digits a minute.
THEOREM BorrowersCannotHoldTheRate == Spec => []RateKeepsDecaying
<1>1. FeesInv => RateKeepsDecaying
  <2>1. SUFFICES ASSUME FeesInv PROVE RateKeepsDecaying
    OBVIOUS
  <2> DEFINE x == MINUTE_DECAY_FACTOR
             g == Steps(x, redeemed.rate)
  <2>2. PICK n \in Nat :
             /\ EverySecondMinute \in Nat /\ EverySecondMinute <= n
             /\ MinutesBegun \in Nat /\ n <= MinutesBegun
             /\ EffectiveRate \in Nat
             /\ Near(EffectiveRate, g[n], 3 * n)
    BY <2>1, RateIsBetween
  <2>3. x \in Fraction /\ redeemed.rate \in Nat
    BY <2>1, FactorIsFraction DEF FeesInv, Fraction
  <2> HIDE DEF x
  <2>4. g[n] \in Nat /\ g[EverySecondMinute] \in Nat /\ g[n] <= g[EverySecondMinute]
    BY <2>2, <2>3, StepsUnfold, StepsMonotone
  <2> HIDE DEF g
  <2>5. EffectiveRate <= g[EverySecondMinute] + 3 * MinutesBegun
    BY <2>2, <2>4 DEF Near
  <2>6. DecayedOnce = g
    BY DecayedOnceIsSteps DEF g, x
  <2>7. QED BY <2>5, <2>6 DEF RateKeepsDecaying, Rounding
<1>2. QED BY <1>1, FeesInvariant, PTL

\* FeeRates!RateNotLostEarly: no minute is counted by two operations, so the
\* rate has decayed by no more than the minutes begun since the redemption.
THEOREM NoMinuteCountsTwice == Spec => []RateNotLostEarly
<1>1. FeesInv => RateNotLostEarly
  <2>1. SUFFICES ASSUME FeesInv PROVE RateNotLostEarly
    OBVIOUS
  <2> DEFINE x == MINUTE_DECAY_FACTOR
             g == Steps(x, redeemed.rate)
  <2>2. PICK n \in Nat :
             /\ EverySecondMinute \in Nat /\ EverySecondMinute <= n
             /\ MinutesBegun \in Nat /\ n <= MinutesBegun
             /\ EffectiveRate \in Nat
             /\ Near(EffectiveRate, g[n], 3 * n)
    BY <2>1, RateIsBetween
  <2>3. x \in Fraction /\ redeemed.rate \in Nat
    BY <2>1, FactorIsFraction DEF FeesInv, Fraction
  <2> HIDE DEF x
  <2>4. g[n] \in Nat /\ g[MinutesBegun] \in Nat /\ g[MinutesBegun] <= g[n]
    BY <2>2, <2>3, StepsUnfold, StepsMonotone
  <2> HIDE DEF g
  <2>5. EffectiveRate >= g[MinutesBegun] - 3 * MinutesBegun
    BY <2>2, <2>4 DEF Near
  <2>6. DecayedOnce = g
    BY DecayedOnceIsSteps DEF g, x
  <2>7. QED BY <2>5, <2>6 DEF RateNotLostEarly, Rounding
<1>2. QED BY <1>1, FeesInvariant, PTL

-----------------------------------------------------------------------------
(* What the client predicts *)

\* lib-base's power and the contracts' are the same number.
LEMMA PowersAgree ==
    ASSUME NEW m \in Nat, m <= MAX_MINUTES
    PROVE  Pow(MINUTE_DECAY_FACTOR, m) = DecPow(MINUTE_DECAY_FACTOR, m)
<1> DEFINE x == MINUTE_DECAY_FACTOR
<1>1. x \in Fraction /\ x \in Nat /\ DIGITS \in Nat /\ DIGITS > 0
  BY FactorIsFraction, DecimalAssumption DEF Fraction
<1>2. DecimalMin(m, MAX_MINUTES) = m
  BY DEF DecimalMin, MAX_MINUTES
<1>3. CASE m = 0
  BY <1>3 DEF Pow, DecPow
<1>4. CASE m # 0
  <2>1. DecPow(x, m) = DecPowLoop[[x |-> x, y |-> DIGITS, n |-> m]]
    BY <1>2, <1>4 DEF DecPow
  <2>2. DecPow(x, m) = PowLoop[[x |-> x, y |-> DIGITS, exponent |-> m]]
    <3>1. m > 0
      BY <1>4
    <3> HIDE DEF x
    <3>2. QED BY <1>1, <2>1, <3>1, LoopsAgree
  <2>3. CASE m = 1
    <3>1. [x |-> x, y |-> DIGITS, exponent |-> 1] \in Squarings
      BY <1>1 DEF Squarings
    <3>2. DecPow(x, 1) = RoundedMul(x, DIGITS)
      BY <2>2, <2>3, <3>1, PowLoopUnfolds
    <3>3. RoundedMul(x, DIGITS) = x
      <4> DEFINE h == DIGITS \div 2
      <4>1. h \in Nat /\ h < DIGITS
        BY <1>1
      <4>2. x * DIGITS + h = DIGITS * x + h /\ DIGITS * x + h \in Nat
        BY <1>1, <4>1
      <4> DEFINE a == DIGITS * x + h
                 q == a \div DIGITS
      <4>3. q \in Nat /\ DIGITS * q <= a /\ a < DIGITS * q + DIGITS
        BY <1>1, <4>2, Quotient
      <4> HIDE DEF h, q, x
      <4>4. DIGITS * (x + 1) = DIGITS * x + DIGITS /\ DIGITS * (q + 1) = DIGITS * q + DIGITS
            /\ DIGITS * x \in Nat /\ DIGITS * q \in Nat
        BY <1>1, <4>3
      <4>5. DIGITS * q < DIGITS * (x + 1) /\ DIGITS * x < DIGITS * (q + 1)
        BY <1>1, <4>1, <4>3, <4>4
      <4>6. q < x + 1 /\ x < q + 1
        BY <1>1, <4>3, <4>5, CancelLess
      <4>7. q = x
        BY <1>1, <4>3, <4>6
      <4>8. RoundedMul(x, DIGITS) = q
        BY <4>2 DEF RoundedMul, q, h
      <4>9. QED BY <4>7, <4>8
    <3>4. QED BY <2>3, <3>2, <3>3 DEF Pow
  <2>4. CASE m # 1
    BY <1>4, <2>2, <2>4 DEF Pow
  <2>5. QED BY <2>3, <2>4
<1>5. QED BY <1>3, <1>4

\* Fees computes the decayed rate of any later block as the contracts will.
LEMMA BaseRateAgrees ==
    ASSUME FeesInv, NEW wait \in Waits \union {0}
    PROVE  /\ BaseRate(Fees, now + wait) = CalcDecayedBaseRate(now + wait)
           /\ CalcDecayedBaseRate(now + wait) \in Nat
<1> DEFINE x == MINUTE_DECAY_FACTOR
           when == now + wait
           m == MinutesPassed(when)
<1>1. wait \in Nat /\ m \in Nat /\ m <= MAX_MINUTES
  BY MinutesAreCounted
<1>2. now \in Nat /\ lastFeeOperationTime \in Nat /\ lastFeeOperationTime <= now
      /\ baseRate \in Fraction /\ baseRate \in Nat
  BY DEF FeesInv, Fraction
<1>3. Positive(when - lastFeeOperationTime) = when - lastFeeOperationTime
  BY <1>1, <1>2 DEF Positive
<1>4. Positive(when - Fees.lastFeeOperation) \div SECONDS_IN_ONE_MINUTE = m
  BY <1>3 DEF Fees, MinutesPassed
<1>5. BaseRate(Fees, when) = Mul(Pow(x, m), baseRate)
  BY <1>4 DEF BaseRate, Fees
<1>6. CalcDecayedBaseRate(when) = Mul(baseRate, DecPow(x, m))
  BY DEF CalcDecayedBaseRate, Mul
<1> HIDE DEF m, when
<1>7. Pow(x, m) = DecPow(x, m) /\ DecPow(x, m) \in Fraction
  BY <1>1, <1>2, PowersAgree, DecayNear
<1> DEFINE p == DecPow(x, m)
<1>8. p \in Nat /\ p * baseRate = baseRate * p
  BY <1>2, <1>7 DEF Fraction
<1> HIDE DEF x
<1>9. Mul(p, baseRate) = Mul(baseRate, p)
  BY <1>8 DEF Mul
<1>10. Mul(baseRate, p) \in Nat
  BY <1>2, <1>7, MulFraction
<1>11. QED BY <1>5, <1>6, <1>7, <1>9, <1>10 DEF when

\* A floor and a cap shift a rate by no more than they differ.
LEMMA ClampedBetween ==
    ASSUME NEW a \in Int, NEW b \in Int, NEW c \in Int, NEW d \in Int
    PROVE  Between(DecimalMin(a, b) - DecimalMin(c, d), a - c, b - d)
BY DEF Between, DecimalMin

\* FeeRates!ClientAgrees: whatever parameters client and contracts have, the client
\* predicts the base rate of any later block to the last digit, and the rates that
\* will be charged there but for what the floors and the caps differ.
THEOREM ClientPredictsRates == Spec => []ClientAgrees
<1>1. FeesInv => ClientAgrees
  <2>1. SUFFICES ASSUME FeesInv, NEW wait \in Waits \union {0}
                 PROVE  LET when == now + wait
                            rate == CalcDecayedBaseRate(when)
                        IN /\ BaseRate(Fees, when) = rate
                           /\ Fees.recoveryMode /\ RecoveryMode =>
                                  BorrowingRate(Fees, when) = ChargedRate(when)
                           /\ ~Fees.recoveryMode /\ ~RecoveryMode =>
                                  Between(BorrowingRate(Fees, when) - ChargedRate(when),
                                          MINIMUM_BORROWING_RATE - BORROWING_FEE_FLOOR,
                                          MAXIMUM_BORROWING_RATE - MAX_BORROWING_FEE)
                           /\ \A f \in Fractions :
                                  Between(RedemptionRate(Fees, f, when)
                                            - CalcRedemptionRate(
                                                  DecimalMin(rate + f \div BETA, DIGITS)),
                                          0, MINIMUM_REDEMPTION_RATE - REDEMPTION_FEE_FLOOR)
    BY DEF ClientAgrees
  <2> DEFINE when == now + wait
             chain == CalcDecayedBaseRate(when)
  <2>2. BaseRate(Fees, when) = chain /\ chain \in Nat
    BY <2>1, BaseRateAgrees
  <2>3. ChargedRate(when) = IF RecoveryMode THEN 0 ELSE CalcBorrowingRate(chain)
    BY DEF ChargedRate
  <2> HIDE DEF chain, when
  <2>4. ASSUME Fees.recoveryMode, RecoveryMode
        PROVE  BorrowingRate(Fees, when) = ChargedRate(when)
    BY <2>3, <2>4 DEF BorrowingRate
  <2>5. ASSUME ~Fees.recoveryMode, ~RecoveryMode
        PROVE  Between(BorrowingRate(Fees, when) - ChargedRate(when),
                       MINIMUM_BORROWING_RATE - BORROWING_FEE_FLOOR,
                       MAXIMUM_BORROWING_RATE - MAX_BORROWING_FEE)
    <3>1. BorrowingRate(Fees, when)
            = DecimalMin(MINIMUM_BORROWING_RATE + chain, MAXIMUM_BORROWING_RATE)
      BY <2>2, <2>5 DEF BorrowingRate
    <3>2. ChargedRate(when) = DecimalMin(BORROWING_FEE_FLOOR + chain, MAX_BORROWING_FEE)
      BY <2>3, <2>5 DEF CalcBorrowingRate
    <3>3. {MINIMUM_BORROWING_RATE, MAXIMUM_BORROWING_RATE, BORROWING_FEE_FLOOR,
           MAX_BORROWING_FEE} \subseteq Int
      BY FeesAssumption, DecimalAssumption
    <3>4. PICK a \in Int, c \in Int :
              /\ a = MINIMUM_BORROWING_RATE + chain /\ c = BORROWING_FEE_FLOOR + chain
              /\ a - c = MINIMUM_BORROWING_RATE - BORROWING_FEE_FLOOR
      BY <2>2, <3>3
    <3>5. Between(DecimalMin(a, MAXIMUM_BORROWING_RATE) - DecimalMin(c, MAX_BORROWING_FEE),
                  a - c, MAXIMUM_BORROWING_RATE - MAX_BORROWING_FEE)
      BY <3>3, ClampedBetween
    <3>6. QED BY <3>1, <3>2, <3>4, <3>5
  <2>6. ASSUME NEW f \in Fractions
        PROVE  Between(RedemptionRate(Fees, f, when)
                         - CalcRedemptionRate(DecimalMin(chain + f \div BETA, DIGITS)),
                       0, MINIMUM_REDEMPTION_RATE - REDEMPTION_FEE_FLOOR)
    <3> DEFINE g == f \div BETA
    <3>1. f \in Nat /\ BETA \in Nat /\ BETA > 0 /\ DIGITS \in Nat /\ DIGITS > 0
          /\ REDEMPTION_FEE_FLOOR \in Nat /\ MINIMUM_REDEMPTION_RATE \in Nat
      BY FeesAssumption, DecimalAssumption
    <3>2. g \in Nat /\ BETA * g <= f /\ f < BETA * g + BETA
      BY <3>1, Quotient
    \* The client divides a decimal by a decimal.
    <3>3. Div(f, BETA * DIGITS) = g
      <4> DEFINE d == BETA * DIGITS
                 a == f * DIGITS
                 q == a \div d
      <4>1. d \in Nat /\ d > 0 /\ a \in Nat
        BY <3>1
      <4>2. Div(f, BETA * DIGITS) = q
        BY <4>1 DEF Div
      <4> HIDE DEF g
      <4>3. d * g = DIGITS * (BETA * g) /\ d * (g + 1) = DIGITS * (BETA * g + BETA)
            /\ a = DIGITS * f
        BY <3>1, <3>2
      <4>4. DIGITS * (BETA * g) <= DIGITS * f
        <5> DEFINE u == BETA * g
        <5>1. u \in Nat /\ u <= f
          BY <3>1, <3>2
        <5> HIDE DEF u
        <5>2. DIGITS * u <= DIGITS * f
          BY <3>1, <5>1, TimesMonotone
        <5>3. QED BY <5>2 DEF u
      <4>5. DIGITS * (f + 1) <= DIGITS * (BETA * g + BETA)
        <5> DEFINE u == BETA * g + BETA
        <5>1. u \in Nat /\ f + 1 <= u
          BY <3>1, <3>2
        <5> HIDE DEF u
        <5>2. DIGITS * (f + 1) <= DIGITS * u
          BY <3>1, <5>1, TimesMonotone
        <5>3. QED BY <5>2 DEF u
      <4>6. DIGITS * (f + 1) = DIGITS * f + DIGITS
        BY <3>1
      <4>7. d * g <= a /\ a < d * (g + 1) /\ d * g \in Nat /\ d * (g + 1) \in Nat
        BY <3>1, <3>2, <4>1, <4>3, <4>4, <4>5, <4>6
      <4> HIDE DEF d, a
      <4>8. q \in Nat /\ d * q <= a /\ a < d * q + d
        BY <4>1, Quotient
      <4> HIDE DEF q
      <4>9. d * (q + 1) = d * q + d /\ d * q \in Nat
        BY <4>1, <4>8
      <4>10. d * q < d * (g + 1) /\ d * g < d * (q + 1)
        BY <4>1, <4>7, <4>8, <4>9
      <4>11. q < g + 1 /\ g < q + 1
        BY <3>2, <4>1, <4>8, <4>10, CancelLess
      <4>12. q = g
        BY <3>2, <4>8, <4>11
      <4>13. QED BY <4>2, <4>12
    <3>4. f = 0 => g = 0
      <4> HIDE DEF g
      <4>1. g > 0 => BETA * g >= BETA * 1
        BY <3>1, <3>2, TimesMonotone
      <4>2. BETA * 1 = BETA
        BY <3>1
      <4>3. QED BY <3>1, <3>2, <4>1, <4>2
    <3> HIDE DEF g
    <3>5. RedemptionRate(Fees, f, when)
            = DecimalMin(MINIMUM_REDEMPTION_RATE + g + chain, DIGITS)
      BY <2>2, <3>3, <3>4 DEF RedemptionRate
    <3>6. CalcRedemptionRate(DecimalMin(chain + g, DIGITS))
            = DecimalMin(REDEMPTION_FEE_FLOOR + DecimalMin(chain + g, DIGITS), DIGITS)
      BY DEF CalcRedemptionRate
    <3>7. DecimalMin(REDEMPTION_FEE_FLOOR + g + chain, DIGITS)
            = DecimalMin(REDEMPTION_FEE_FLOOR + DecimalMin(chain + g, DIGITS), DIGITS)
      BY <2>2, <3>1, <3>2 DEF DecimalMin
    <3>8. Between(DecimalMin(MINIMUM_REDEMPTION_RATE + g + chain, DIGITS)
                    - DecimalMin(REDEMPTION_FEE_FLOOR + g + chain, DIGITS),
                  0, MINIMUM_REDEMPTION_RATE - REDEMPTION_FEE_FLOOR)
      BY <2>2, <3>1, <3>2 DEF DecimalMin, Between
    <3>9. QED BY <3>5, <3>6, <3>7, <3>8 DEF g
  <2>7. /\ BaseRate(Fees, when) = chain
        /\ Fees.recoveryMode /\ RecoveryMode => BorrowingRate(Fees, when) = ChargedRate(when)
        /\ ~Fees.recoveryMode /\ ~RecoveryMode =>
              Between(BorrowingRate(Fees, when) - ChargedRate(when),
                      MINIMUM_BORROWING_RATE - BORROWING_FEE_FLOOR,
                      MAXIMUM_BORROWING_RATE - MAX_BORROWING_FEE)
    BY <2>2, <2>4, <2>5
  <2>8. QED BY <2>6, <2>7 DEF when, chain
<1>2. QED BY <1>1, FeesInvariant, PTL

-----------------------------------------------------------------------------
(* What the client asks for *)

\* The fee that was taken off is put back but for a last digit.
LEMMA FeeRoundTrip ==
    ASSUME NEW r \in Fraction, NEW n \in Nat
    PROVE  LET q == UnapplyFee(r, n) IN
           /\ q \in Nat
           /\ ApplyFee(r, q) = q + CalcBorrowingFee(r, q)
           /\ ApplyFee(r, q) = n \/ ApplyFee(r, q) = n + 1
           /\ n = 0 => q = 0 /\ ApplyFee(r, q) = 0
<1> DEFINE D == DIGITS
           e == D + r
           a == n * D + e - 1
           q == UnapplyFee(r, n)
           p == ApplyFee(r, q)
<1>1. D \in Nat /\ D > 0 /\ r \in Nat /\ r <= D /\ e \in Nat /\ e > 0 /\ e <= 2 * D
  BY DecimalAssumption DEF Fraction
<1>2. n * D \in Nat /\ n * D = D * n /\ a \in Nat
  BY <1>1
<1>3. q = a \div e
  <2>1. q = (n * D + e - 1) \div e
    BY <1>1 DEF UnapplyFee, DivCeil
  <2>2. QED BY <2>1
<1> HIDE DEF e, a, q
<1>4. q \in Nat /\ e * q <= a /\ a < e * q + e
  BY <1>1, <1>2, <1>3, Quotient
<1>5. p = Mul(q, e)
  BY DEF ApplyFee, e
<1>6. p \in Nat /\ D * p <= q * e /\ q * e < D * p + D
  BY <1>1, <1>4, <1>5, MulBounds
<1>7. q * e = e * q /\ e * q \in Nat
  BY <1>1, <1>4
<1> HIDE DEF p
<1>8. D * n <= e * q /\ e * q < D * n + 2 * D
  <2>1. a = D * n + e - 1
    BY <1>2 DEF a
  <2>2. QED BY <1>1, <1>2, <1>4, <1>7, <2>1
<1>9. p < n + 2 /\ n < p + 1
  <2>1. D * (n + 2) = D * n + 2 * D /\ D * (p + 1) = D * p + D /\ D * p \in Nat
    BY <1>1, <1>6
  <2>2. D * p < D * (n + 2) /\ D * n < D * (p + 1)
    BY <1>1, <1>2, <1>6, <1>7, <1>8, <2>1
  <2>3. QED BY <1>1, <1>6, <2>2, CancelLess
<1>10. p = n \/ p = n + 1
  BY <1>6, <1>9
\* The chain adds the fee, the client multiplies by one and the fee.
<1>11. p = q + (r * q) \div D
  <2> DEFINE f == (r * q) \div D
             rq == r * q
  <2>1. rq \in Nat
    BY <1>1, <1>4
  <2> HIDE DEF rq
  <2>2. f \in Nat /\ D * f <= rq /\ rq < D * f + D
    <3>1. f = rq \div D
      BY DEF rq
    <3> HIDE DEF f
    <3>2. QED BY <1>1, <2>1, <3>1, Quotient
  <2>3. q * e = D * q + rq
    BY <1>1, <1>4 DEF e, rq
  <2> HIDE DEF f
  <2>4. D * (q + f + 1) = D * q + D * f + D /\ D * (p + 1) = D * p + D
        /\ D * (q + f) = D * q + D * f
        /\ D * p \in Nat /\ D * f \in Nat /\ D * q \in Nat
    BY <1>1, <1>4, <1>6, <2>2
  <2>5. D * p < D * (q + f + 1) /\ D * (q + f) < D * (p + 1)
    BY <1>1, <1>6, <2>1, <2>2, <2>3, <2>4
  <2>6. p < q + f + 1 /\ q + f < p + 1
    BY <1>1, <1>4, <1>6, <2>2, <2>5, CancelLess
  <2>7. p = q + f
    BY <1>4, <1>6, <2>2, <2>6
  <2>8. QED BY <2>7 DEF f
<1>12. n = 0 => q = 0 /\ p = 0
  <2>1. SUFFICES ASSUME n = 0 PROVE q = 0 /\ p = 0
    OBVIOUS
  <2>2. a = e - 1
    BY <1>1, <2>1 DEF a
  <2>3. e * q < e * 1
    BY <1>1, <1>4, <1>7, <2>2
  <2>4. q < 1
    BY <1>1, <1>4, <2>3, CancelLess
  <2>5. q = 0
    BY <1>4, <2>4
  <2>6. D * p <= 0 /\ D * 1 = D
    BY <1>1, <1>6, <2>5
  <2>7. D * p < D * 1
    BY <1>1, <1>6, <2>6
  <2>8. p < 1
    BY <1>1, <1>6, <2>7, CancelLess
  <2>9. QED BY <1>6, <2>5, <2>8
<1>13. QED BY <1>4, <1>10, <1>11, <1>12 DEF p, q, CalcBorrowingFee

\* The rate the client reckons with, and the one that is charged.
LEMMA RatesAreRates ==
    ASSUME FeesInv
    PROVE  BorrowingRate(Fees, now) \in Fraction /\ ChargedRate(now) \in Nat
<1> DEFINE c == CalcDecayedBaseRate(now)
<1>1. now + 0 = now
  BY DEF FeesInv
<1>2. BaseRate(Fees, now) = c /\ c \in Nat
  <2>1. BaseRate(Fees, now + 0) = CalcDecayedBaseRate(now + 0) /\ CalcDecayedBaseRate(now + 0) \in Nat
    BY BaseRateAgrees
  <2>2. QED BY <1>1, <2>1
<1> HIDE DEF c
<1>3. BorrowingRate(Fees, now) \in Fraction
  BY <1>2, FeesAssumption, DecimalAssumption DEF BorrowingRate, DecimalMin, Fraction
<1>4. CalcBorrowingRate(c) \in Nat
  BY <1>2, FeesAssumption DEF CalcBorrowingRate, DecimalMin
<1>5. QED BY <1>3, <1>4 DEF ChargedRate, c

\* A fee is a number of parts.
LEMMA FeeIsNat ==
    ASSUME NEW rate \in Nat, NEW amount \in Nat
    PROVE  CalcBorrowingFee(rate, amount) \in Nat
<1> DEFINE a == rate * amount
<1>1. a \in Nat /\ DIGITS \in Nat /\ DIGITS > 0
  BY DecimalAssumption
<1> HIDE DEF a
<1>2. a \div DIGITS \in Nat
  BY <1>1, Quotient
<1>3. QED BY <1>2 DEF CalcBorrowingFee, a

Troves == {EmptyTrove} \union [collateral : Collaterals, debt : Debts]

LEMMA TrovesAreTroves ==
    ASSUME NEW t \in Troves
    PROVE  /\ t = Trove(t.collateral, t.debt)
           /\ t.collateral \in Nat /\ t.debt \in Nat
           /\ t = EmptyTrove \/ t.debt >= LUSD_LIQUIDATION_RESERVE
<1>1. CASE t = EmptyTrove
  BY <1>1 DEF EmptyTrove, Trove
<1>2. CASE t \in [collateral : Collaterals, debt : Debts]
  BY <1>2, FeesAssumption DEF Trove
<1>3. QED BY <1>1, <1>2 DEF Troves

\* What reaching means of the troves t and u, the client's rate r and the charged rate c.
Reached(t, u, r, c) ==
    LET change == WhatChanged(t, u, r)
        expected == Apply(t, u, change, r)
        got == ChainAfter(t, change)
        fee == CalcBorrowingFee(c, change.borrowLUSD) - CalcBorrowingFee(r, change.borrowLUSD)
        reserve == IF t = EmptyTrove THEN LUSD_GAS_COMPENSATION - LUSD_LIQUIDATION_RESERVE
                   ELSE 0
    IN  /\ expected.collateral = u.collateral
        /\ expected.debt - u.debt \in {0, 1}
        /\ got.collateral = expected.collateral
        /\ got.debt = expected.debt + fee + reserve

\* A trove is opened with what the target says and the contracts' reserve.
LEMMA CreationReaches ==
    ASSUME NEW u \in Troves, u # EmptyTrove, NEW r \in Fraction,
           NEW c \in Nat, c = ChargedRate(now)
    PROVE  Reached(EmptyTrove, u, r, c)
<1> DEFINE n == NetDebt(u)
           q == UnapplyFee(r, n)
           p == ApplyFee(r, q)
           change == WhatChanged(EmptyTrove, u, r)
           asked == CalcBorrowingFee(r, q)
           charged == CalcBorrowingFee(c, q)
<1>1. u.collateral \in Nat /\ u.debt \in Nat /\ u.debt >= LUSD_LIQUIDATION_RESERVE
  BY TrovesAreTroves
<1>2. /\ LUSD_LIQUIDATION_RESERVE \in Nat /\ LUSD_GAS_COMPENSATION \in Nat
      /\ n \in Nat /\ n + LUSD_LIQUIDATION_RESERVE = u.debt
  BY <1>1, ReserveAssumption, FeesAssumption DEF NetDebt
<1>3. change = Change("creation", u.collateral, 0, q, 0, "none")
  BY <1>1, <1>2 DEF WhatChanged
<1> HIDE DEF n
<1>4. q \in Nat /\ p = q + asked /\ (p = n \/ p = n + 1)
  BY <1>2, FeeRoundTrip
<1>5. asked \in Nat /\ charged \in Nat
  BY <1>4, FeeIsNat DEF Fraction
<1> HIDE DEF q, p, change, asked, charged
<1>6. change.type = "creation" /\ change.depositCollateral = u.collateral /\ change.borrowLUSD = q
  BY <1>3 DEF Change
<1>7. ChainAfter(EmptyTrove, change) = Trove(u.collateral, q + charged + LUSD_GAS_COMPENSATION)
  BY <1>6 DEF ChainAfter, charged
<1>8. Apply(EmptyTrove, u, change, r) = Trove(u.collateral, LUSD_LIQUIDATION_RESERVE + p)
  BY <1>6 DEF Apply, p
<1>9. /\ (LUSD_LIQUIDATION_RESERVE + p) - u.debt \in {0, 1}
      /\ q + charged + LUSD_GAS_COMPENSATION
           = (LUSD_LIQUIDATION_RESERVE + p) + (charged - asked)
               + (LUSD_GAS_COMPENSATION - LUSD_LIQUIDATION_RESERVE)
  BY <1>1, <1>2, <1>4, <1>5
<1>10. QED BY <1>6, <1>7, <1>8, <1>9 DEF Trove, Reached, change, asked, charged

LEMMA ClosureReaches ==
    ASSUME NEW t \in Troves, t # EmptyTrove, NEW r \in Fraction, NEW c \in Nat
    PROVE  Reached(t, EmptyTrove, r, c)
<1> DEFINE change == WhatChanged(t, EmptyTrove, r)
<1>1. change = Change("closure", 0, t.collateral, 0, NetDebt(t), "none")
  BY DEF WhatChanged
<1>2. change.type = "closure" /\ change.borrowLUSD = 0
  BY <1>1 DEF Change
<1> HIDE DEF change
<1>3. ChainAfter(t, change) = EmptyTrove /\ Apply(t, EmptyTrove, change, r) = EmptyTrove
  BY <1>2 DEF ChainAfter, Apply
<1>4. EmptyTrove.debt = 0
  BY DEF EmptyTrove, Trove
<1>5. CalcBorrowingFee(c, 0) = 0 /\ CalcBorrowingFee(r, 0) = 0
  BY DecimalAssumption DEF CalcBorrowingFee, Fraction
<1>6. QED BY <1>2, <1>3, <1>4, <1>5 DEF Reached, change

LEMMA AdjustmentReaches ==
    ASSUME NEW t \in Troves, NEW u \in Troves, t # u, t # EmptyTrove, u # EmptyTrove,
           NEW r \in Fraction, NEW c \in Nat, c = ChargedRate(now)
    PROVE  Reached(t, u, r, c)
<1> DEFINE n == Positive(u.debt - t.debt)
           repay == Positive(t.debt - u.debt)
           add == Positive(u.collateral - t.collateral)
           take == Positive(t.collateral - u.collateral)
           q == UnapplyFee(r, n)
           p == ApplyFee(r, q)
           asked == CalcBorrowingFee(r, q)
           charged == CalcBorrowingFee(c, q)
           change == WhatChanged(t, u, r)
           debt == t.debt + p - repay
<1>1. /\ t.collateral \in Nat /\ t.debt \in Nat /\ u.collateral \in Nat /\ u.debt \in Nat
  BY TrovesAreTroves
<1>2. /\ n \in Nat /\ repay \in Nat /\ t.debt + n - repay = u.debt /\ (n = 0 \/ repay = 0)
      /\ add \in Nat /\ take \in Nat /\ t.collateral + add - take = u.collateral
  BY <1>1 DEF Positive
<1>3. change = Change("adjustment", add, take, q, repay, SetToZero(t, u))
  BY DEF WhatChanged
<1>4. u.debt = 0 => n = 0
  BY <1>1 DEF Positive
<1> HIDE DEF n, repay, add, take
<1>5. /\ q \in Nat /\ p = q + asked /\ (p = n \/ p = n + 1)
      /\ n = 0 => q = 0 /\ p = 0
  BY <1>2, FeeRoundTrip
<1>6. asked \in Nat /\ charged \in Nat
  BY <1>5, FeeIsNat DEF Fraction
<1> HIDE DEF q, p, change, asked, charged
<1>7. /\ change.type = "adjustment" /\ change.depositCollateral = add
      /\ change.withdrawCollateral = take /\ change.borrowLUSD = q /\ change.repayLUSD = repay
      /\ change.setToZero = SetToZero(t, u)
  BY <1>3 DEF Change
<1>8. debt \in Nat /\ (debt = u.debt \/ debt = u.debt + 1) /\ (u.debt = 0 => debt = 0)
  BY <1>1, <1>2, <1>4, <1>5
<1>9. /\ ChainAfter(t, change).collateral = u.collateral
      /\ ChainAfter(t, change).debt = t.debt + (q + charged) - repay
  BY <1>2, <1>7 DEF ChainAfter, charged, Trove
<1>10. Apply(t, u, change, r) = Trove(u.collateral, debt)
  <2> DEFINE after == Subtract(Add(t, Trove(add, p)), Trove(take, repay))
  <2>1. after = Trove(u.collateral, debt)
    <3>1. Add(t, Trove(add, p)) = Trove(t.collateral + add, t.debt + p)
      BY DEF Add, Trove
    <3>2. after = Trove(Positive((t.collateral + add) - take), Positive((t.debt + p) - repay))
      BY <3>1 DEF Subtract, Trove
    <3>3. Positive((t.collateral + add) - take) = u.collateral
      BY <1>1, <1>2 DEF Positive
    <3>4. Positive((t.debt + p) - repay) = debt
      <4>1. (t.debt + p) - repay = debt
        BY <1>1, <1>2, <1>5
      <4> HIDE DEF debt
      <4>2. Positive(debt) = debt
        BY <1>8 DEF Positive
      <4>3. QED BY <4>1, <4>2
    <3>5. QED BY <3>2, <3>3, <3>4
  <2>2. Apply(t, u, change, r) = Adjusted(t, change, r)
    BY <1>7 DEF Apply
  <2>3. Adjusted(t, change, r) = CASE SetToZero(t, u) = "collateral" -> Trove(0, after.debt)
                                   [] SetToZero(t, u) = "debt" -> Trove(after.collateral, 0)
                                   [] OTHER -> after
    BY <1>7 DEF Adjusted, p
  <2> HIDE DEF after, debt
  <2>4. after.debt = debt /\ after.collateral = u.collateral
    BY <2>1 DEF Trove
  <2>5. CASE SetToZero(t, u) = "collateral"
    <3>1. u.collateral = 0
      BY <2>5 DEF SetToZero
    <3>2. QED BY <2>2, <2>3, <2>4, <2>5, <3>1
  <2>6. CASE SetToZero(t, u) = "debt"
    <3>1. u.debt = 0
      BY <2>6 DEF SetToZero
    <3>2. QED BY <1>8, <2>2, <2>3, <2>4, <2>6, <3>1
  <2>7. CASE SetToZero(t, u) # "debt" /\ SetToZero(t, u) # "collateral"
    BY <2>1, <2>2, <2>3, <2>7
  <2>8. QED BY <2>5, <2>6, <2>7
<1>11. debt - u.debt \in {0, 1} /\ t.debt + (q + charged) - repay = debt + (charged - asked) + 0
  BY <1>1, <1>2, <1>5, <1>6, <1>8
<1> HIDE DEF debt
<1>12. QED BY <1>7, <1>9, <1>10, <1>11 DEF Trove, Reached, change, asked, charged

LEMMA DepositReaches ==
    ASSUME NEW a \in Nat, NEW b \in Nat
    PROVE  DepositApply(a, DepositWhatChanged(a, b)) = b
<1>1. CASE a > b
  <2> DEFINE change == DepositWhatChanged(a, b)
  <2>1. change.withdrawLUSD = a - b /\ change.withdrawAllLUSD = (b = 0 /\ a > 0)
    BY <1>1 DEF DepositWhatChanged, Positive
  <2> HIDE DEF change
  <2>2. a - b > 0 /\ Positive(a - (a - b)) = b
    BY <1>1 DEF Positive
  <2>3. DepositApply(a, change) = IF b = 0 /\ a > 0 THEN 0 ELSE Positive(a - (a - b))
    BY <2>1, <2>2 DEF DepositApply
  <2>4. QED BY <1>1, <2>2, <2>3 DEF change
<1>2. CASE a <= b
  BY <1>2 DEF DepositApply, DepositWhatChanged, Positive
<1>3. QED BY <1>1, <1>2

\* FeeRates!ReachesTheTarget: whatever parameters client and contracts have, a client
\* that asks for the difference between two troves expects the second, but for a last
\* digit of debt, and gets what it expects, but for what its rate and its liquidation
\* reserve are short of the contracts'.
THEOREM ClientReachesItsTarget == Spec => []ReachesTheTarget
<1>1. FeesInv => ReachesTheTarget
  <2>1. SUFFICES ASSUME FeesInv, NEW t \in Troves, NEW u \in Troves, t # u
                 PROVE  /\ Reached(t, u, BorrowingRate(Fees, now), ChargedRate(now))
                        /\ DepositApply(t.debt, DepositWhatChanged(t.debt, u.debt)) = u.debt
    BY DEF ReachesTheTarget, Troves, Reached
  <2>2. PICK r \in Fraction, c \in Nat : r = BorrowingRate(Fees, now) /\ c = ChargedRate(now)
    BY <2>1, RatesAreRates
  <2>3. DepositApply(t.debt, DepositWhatChanged(t.debt, u.debt)) = u.debt
    BY TrovesAreTroves, DepositReaches
  <2>4. CASE t = EmptyTrove
    BY <2>1, <2>2, <2>3, <2>4, CreationReaches
  <2>5. CASE t # EmptyTrove /\ u = EmptyTrove
    BY <2>1, <2>2, <2>3, <2>5, ClosureReaches
  <2>6. CASE t # EmptyTrove /\ u # EmptyTrove
    BY <2>1, <2>2, <2>3, <2>6, AdjustmentReaches
  <2>7. QED BY <2>4, <2>5, <2>6
<1>2. QED BY <1>1, FeesInvariant, PTL

=============================================================================
