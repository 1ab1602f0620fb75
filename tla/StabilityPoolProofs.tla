------------------------- MODULE StabilityPoolProofs --------------------------
(***************************************************************************)
(* What the Stability Pool owes its depositors, for every set of them,     *)
(* every size of the pool, and any number of offsets, scales and epochs.   *)
(*                                                                         *)
(* The invariant gives each deposit a weight, such that the product P      *)
(* times the weight is at least what is left of the deposit, in parts of   *)
(* some whole K; weights of all depositors together are covered by the     *)
(* pool less the loss that was too much, but for MaxDeposits parts of      *)
(* DECIMAL_PRECISION.  An offset changes P and not the weights, a deposit  *)
(* or a withdrawal one weight.                                             *)
(***************************************************************************)
EXTENDS StabilityPool, CollectionTheorems

-----------------------------------------------------------------------------
(* Arithmetic *)

\* A quotient of natural numbers.
LEMMA QuotientNat ==
    ASSUME NEW a \in Nat, NEW n \in Nat, n > 0
    PROVE  a \div n \in Nat /\ (a \div n) * n <= a /\ a < (a \div n + 1) * n
OBVIOUS

\* Products of comparable factors compare.
LEMMA TimesMonotone ==
    ASSUME NEW a \in Int, NEW b \in Int, a <= b, NEW n \in Nat
    PROVE  n * a <= n * b
<1>1. b - a \in Nat
  OBVIOUS
<1>2. n * (b - a) \in Nat
  BY <1>1
<1>3. n * (b - a) = n * b - n * a
  OBVIOUS
<1>4. n * b \in Int /\ n * a \in Int
  OBVIOUS
<1>5. QED BY <1>2, <1>3, <1>4

\* A common positive factor may be left out.
LEMMA Cancel ==
    ASSUME NEW a \in Int, NEW b \in Int, NEW n \in Nat, n > 0, n * a <= n * b
    PROVE  a <= b
<1>1. SUFFICES ASSUME a >= b + 1 PROVE FALSE
  OBVIOUS
<1>2. n * (b + 1) <= n * a
  BY <1>1, TimesMonotone
<1>3. n * (b + 1) = n * b + n /\ n * b \in Int /\ n * a \in Int
  OBVIOUS
<1>4. QED BY <1>2, <1>3

\* What is left of a stake, rounded down, is within its weight.
LEMMA ShareIsWeighed ==
    ASSUME NEW initial \in Nat, NEW product \in Nat, NEW snapshot \in Nat, snapshot > 0,
           NEW K \in Nat, NEW weight \in Nat, NEW left \in Nat,
           left * snapshot <= initial * product, initial * K <= weight * snapshot
    PROVE  K * left <= product * weight
<1>1. K * (left * snapshot) <= K * (initial * product)
  <2>1. left * snapshot \in Int /\ initial * product \in Int
    OBVIOUS
  <2>2. QED BY <2>1, TimesMonotone
<1>2. product * (initial * K) <= product * (weight * snapshot)
  <2>1. initial * K \in Int /\ weight * snapshot \in Int
    OBVIOUS
  <2>2. QED BY <2>1, TimesMonotone
<1>3. /\ K * (left * snapshot) = snapshot * (K * left)
      /\ K * (initial * product) = product * (initial * K)
      /\ product * (weight * snapshot) = snapshot * (product * weight)
  OBVIOUS
<1> DEFINE x == K * left
           y == product * weight
           z == product * (initial * K)
<1>4. snapshot * x <= z /\ z <= snapshot * y /\ z \in Int
  BY <1>1, <1>2, <1>3
<1>5. x \in Int /\ y \in Int
  OBVIOUS
<1> HIDE DEF x, y, z
<1>6. snapshot * x \in Int /\ snapshot * y \in Int
  BY <1>5
<1>7. snapshot * x <= snapshot * y
  BY <1>4, <1>6
<1>8. x <= y
  BY <1>5, <1>7, Cancel
<1>9. QED BY <1>8 DEF x, y

\* What an offset keeps of the pool, and of its slack for errors: with the loss
\* per unit u rounded up over the debt less the last error E, the pool less
\* the debt and the new error E1 covers the share 1 - u of what it covered.
LEMMA LossIsCovered ==
    ASSUME NEW DP \in Nat, NEW M \in Nat, NEW T \in Nat, NEW debt \in Nat, NEW u \in Nat,
           NEW E \in Nat, NEW E1 \in Nat, u <= DP, E <= M, u * T = (debt * DP - E) + E1
    PROVE  (DP - u) * ((DP * T + M) - E) <= DP * ((DP * (T - debt) + M) - E1)
<1>1. u * (M - E) \in Nat
  BY SMT
<1>2. DP * (u * T) = DP * ((debt * DP - E) + E1)
  OBVIOUS
<1>3. DP * ((debt * DP - E) + E1) = (DP * (debt * DP) - DP * E) + DP * E1
  OBVIOUS
<1>4. DP * ((DP * (T - debt) + M) - E1)
        = ((DP * (DP * T) - DP * (debt * DP)) + DP * M) - DP * E1
  OBVIOUS
<1>5. (DP - u) * ((DP * T + M) - E)
        = (((DP * (DP * T) + DP * M) - DP * E) - DP * (u * T)) - u * (M - E)
  OBVIOUS
<1> DEFINE a == DP * (DP * T)
           b == DP * (debt * DP)
           c == DP * M
           d == DP * E
           e == DP * E1
           g == DP * (u * T)
           h == u * (M - E)
<1>6. /\ a \in Int /\ b \in Int /\ c \in Int /\ d \in Int
      /\ e \in Int /\ g \in Int /\ h \in Nat
  BY <1>1
<1>7. /\ g = (b - d) + e
      /\ DP * ((DP * (T - debt) + M) - E1) = ((a - b) + c) - e
      /\ (DP - u) * ((DP * T + M) - E) = (((a + c) - d) - g) - h
  BY <1>2, <1>3, <1>4, <1>5
<1> HIDE DEF a, b, c, d, e, g, h
<1>8. (((a + c) - d) - g) - h <= ((a - b) + c) - e
  BY <1>6, <1>7
<1>9. QED BY <1>7, <1>8

\* The same with the weights: old is the product before, times SCALE_FACTOR when
\* the scale changes, and new is the product after, rounded down.
LEMMA OffsetKeepsCover ==
    ASSUME NEW DP \in Nat, DP > 0, NEW M \in Nat, NEW T \in Nat, NEW debt \in Nat,
           NEW u \in Nat, NEW E \in Nat, NEW E1 \in Nat,
           u <= DP, E <= M, u * T = (debt * DP - E) + E1,
           NEW K \in Nat, NEW W \in Nat, NEW old \in Nat, NEW new \in Nat,
           DP * new <= old * (DP - u),
           DP * (old * W) + K * E <= K * (DP * T + M)
    PROVE  DP * (new * W) + K * E1 <= K * (DP * (T - debt) + M)
<1> DEFINE f == DP - u
           A == (DP * T + M) - E
           B == (DP * (T - debt) + M) - E1
<1>1. f \in Nat /\ A \in Int /\ B \in Int
  BY SMT
<1>2. f * A <= DP * B
  BY LossIsCovered
<1>3. DP * (old * W) <= K * A
  <2>1. K * A = K * (DP * T + M) - K * E
    OBVIOUS
  <2>2. DP * (old * W) \in Int /\ K * E \in Int /\ K * (DP * T + M) \in Int
    OBVIOUS
  <2> HIDE DEF A
  <2>3. QED BY <2>1, <2>2
<1>4. DP * new <= old * f
  OBVIOUS
<1> HIDE DEF f, A, B
<1>5. W * (DP * new) <= W * (old * f)
  <2>1. DP * new \in Int /\ old * f \in Int
    BY <1>1
  <2>2. QED BY <1>4, <2>1, TimesMonotone
<1>6. DP * (W * (DP * new)) <= DP * (W * (old * f))
  <2>1. W * (DP * new) \in Int /\ W * (old * f) \in Int
    BY <1>1
  <2>2. QED BY <1>5, <2>1, TimesMonotone
<1>7. f * (DP * (old * W)) <= f * (K * A)
  <2>1. DP * (old * W) \in Int /\ K * A \in Int
    BY <1>1
  <2>2. QED BY <1>1, <1>3, <2>1, TimesMonotone
<1>8. K * (f * A) <= K * (DP * B)
  <2>1. f * A \in Int /\ DP * B \in Int
    BY <1>1
  <2>2. QED BY <1>2, <2>1, TimesMonotone
<1> DEFINE x == DP * (new * W)
           y == K * B
<1>9. /\ DP * (W * (DP * new)) = DP * x
      /\ DP * (W * (old * f)) = f * (DP * (old * W))
      /\ f * (K * A) = K * (f * A)
      /\ K * (DP * B) = DP * y
  BY <1>1
<1>10. x \in Int /\ y \in Int
  BY <1>1
<1>11. DP * x <= DP * y
  <2> DEFINE p == f * (DP * (old * W))
             q == K * (f * A)
  <2>1. p \in Int /\ q \in Int
    BY <1>1
  <2>2. DP * x <= p /\ p <= q /\ q <= DP * y
    BY <1>6, <1>7, <1>8, <1>9
  <2> HIDE DEF p, q, x, y
  <2>3. DP * x \in Int /\ DP * y \in Int
    BY <1>10
  <2>4. QED BY <2>1, <2>2, <2>3
<1>12. x <= y
  <2> HIDE DEF x, y
  <2>1. QED BY <1>10, <1>11, Cancel
<1>13. y = K * (DP * (T - debt) + M) - K * E1
  BY DEF B
<1>14. K * (DP * (T - debt) + M) \in Int /\ K * E1 \in Int
  OBVIOUS
<1> HIDE DEF y
<1>15. x + K * E1 <= K * (DP * (T - debt) + M)
  <2> HIDE DEF x
  <2>1. QED BY <1>10, <1>12, <1>13, <1>14
<1>16. QED BY <1>15

\* A deposit that becomes v: its weight in parts of K * P becomes v * K, the
\* others are multiplied by P, and the pool changes by what the deposit does.
LEMMA DepositKeepsCover ==
    ASSUME NEW DP \in Nat, NEW M \in Nat, NEW T \in Nat, NEW T1 \in Nat, NEW E \in Nat,
           NEW K \in Nat, NEW W \in Nat, NEW W1 \in Nat, NEW old \in Nat, NEW new \in Nat,
           NEW left \in Nat, NEW v \in Nat, NEW product \in Nat,
           K * left <= product * old, new = v * K, T1 = (T + v) - left,
           W1 = (product * W - product * old) + new,
           DP * (product * W) + K * E <= K * (DP * T + M)
    PROVE  DP * (product * W1) + (K * product) * E <= (K * product) * (DP * T1 + M)
<1> DEFINE gain == K * v - K * left
<1>1. W1 <= product * W + gain
  <2>1. product * W \in Int /\ product * old \in Int /\ K * left \in Int /\ new \in Int
    OBVIOUS
  <2>2. K * v = v * K
    OBVIOUS
  <2> HIDE DEF gain
  <2>3. gain = v * K - K * left /\ v * K = new
    BY <2>2 DEF gain
  <2> QED BY <2>1, <2>3
<1>2. gain \in Int /\ product * W + gain \in Int
  OBVIOUS
<1>3. DP * W1 <= DP * (product * W + gain)
  <2> HIDE DEF gain
  <2> QED BY <1>1, <1>2, TimesMonotone
<1>4. DP * (product * W + gain) = DP * (product * W) + DP * gain
  OBVIOUS
<1>5. K * (DP * T1 + M) = K * (DP * T + M) + DP * gain
  OBVIOUS
<1> DEFINE a == DP * (product * W)
           b == K * (DP * T + M)
           g == DP * gain
           e == K * E
           w == DP * W1
           t == K * (DP * T1 + M)
<1>6. /\ a \in Int /\ b \in Int /\ g \in Int /\ e \in Int /\ w \in Int /\ t \in Int
  OBVIOUS
<1>7. w <= a + g /\ t = b + g /\ a + e <= b
  BY <1>3, <1>4, <1>5
<1>8. DP * (product * W1) = product * w /\ (K * product) * E = product * e
      /\ (K * product) * (DP * T1 + M) = product * t
  OBVIOUS
<1> HIDE DEF a, b, g, e, w, t
<1>9. w + e <= t
  BY <1>6, <1>7
<1>10. product * (w + e) <= product * t
  <2>1. w + e \in Int
    BY <1>6
  <2>2. QED BY <1>6, <1>9, <2>1, TimesMonotone
<1>11. product * (w + e) = product * w + product * e
  BY <1>6
<1>12. QED BY <1>8, <1>10, <1>11

-----------------------------------------------------------------------------
(* The invariant *)

\* Every deposit was made at a product, a scale and an epoch that were current.
TakenBefore(s) ==
    /\ s.P \in Nat \ {0} /\ s.scale \in Nat /\ s.epoch \in Nat
    /\ s.epoch <= currentEpoch
    /\ s.epoch = currentEpoch => s.scale <= currentScale

TypesOK ==
    /\ P \in Nat \ {0} /\ currentScale \in Nat /\ currentEpoch \in Nat
    /\ totalLUSDDeposits \in 0 .. MaxDeposits
    /\ lastLUSDLossError \in 0 .. MaxDeposits
    /\ deposits \in [Depositors -> [initialValue : Nat, frontEndTag : Tags]]
    /\ DOMAIN depositSnapshots = Depositors
    /\ \A d \in Depositors : deposits[d].initialValue > 0 => TakenBefore(depositSnapshots[d])

\* In parts of K, the weight times the product is at least what is left.
WeighsEnough(K, weight, d) ==
    LET initial == deposits[d].initialValue
        s == depositSnapshots[d]
    IN  initial > 0 /\ s.epoch = currentEpoch =>
          /\ s.scale = currentScale => initial * K <= weight * s.P
          /\ s.scale + 1 = currentScale => initial * K <= weight * (s.P * SCALE_FACTOR)

\* All of it is in the pool, or given back by the last loss, but for a part.
PoolCovers(product, weights, pool, error, K) ==
    DECIMAL_PRECISION * (product * weights) + K * error
        <= K * (DECIMAL_PRECISION * pool + MaxDeposits)

Covered(K, w) ==
    /\ K > 0
    /\ \A d \in Depositors : w[d] \in Nat /\ WeighsEnough(K, w[d], d)
    /\ PoolCovers(P, SumFunctionOnSet(w, Depositors), totalLUSDDeposits, lastLUSDLossError, K)

PoolInvariant == TypesOK /\ \E K \in Nat : \E w : Covered(K, w)

\* The constants as the proofs use them.
LEMMA PoolConstants ==
    /\ DECIMAL_PRECISION \in Nat /\ DECIMAL_PRECISION > 0
    /\ SCALE_FACTOR \in Nat /\ SCALE_FACTOR > 0
    /\ MaxDeposits \in Nat /\ IsFiniteSet(Depositors)
    /\ \A a \in Amounts : a \in Nat
    /\ \A a \in Debts : a \in Nat
<1>1. /\ DECIMAL_PRECISION \in Nat /\ DECIMAL_PRECISION > 0
      /\ SCALE_FACTOR \in Nat /\ SCALE_FACTOR > 0
  BY PoolAssumption
<1>2. MaxDeposits \in Nat /\ IsFiniteSet(Depositors)
  BY PoolAssumption
<1>3. (\A a \in Amounts : a \in Nat) /\ (\A a \in Debts : a \in Nat)
  BY ONLY PoolAssumption DEF PoolAssumption
<1>4. QED BY <1>1, <1>2, <1>3

\* Weights that are numbers add up to one.
LEMMA WeightsAdd ==
    ASSUME NEW w, \A d \in Depositors : w[d] \in Nat
    PROVE  SumFunctionOnSet(w, Depositors) \in Nat
BY PoolConstants, SumOfNaturals

\* getCompoundedLUSDDeposit is within the weight.
LEMMA DepositIsWeighed ==
    ASSUME TypesOK, NEW d \in Depositors, NEW K \in Nat, NEW weight \in Nat,
           WeighsEnough(K, weight, d)
    PROVE  /\ CompoundedLUSDDeposit(d) \in Nat
           /\ K * CompoundedLUSDDeposit(d) <= P * weight
<1> DEFINE initial == deposits[d].initialValue
           s == depositSnapshots[d]
           left == (initial * P) \div s.P
           compounded == IF currentScale - s.scale = 0 THEN left ELSE left \div SCALE_FACTOR
<1>1. /\ initial \in Nat /\ P \in Nat /\ currentScale \in Nat
      /\ initial > 0 => TakenBefore(s)
  BY DEF TypesOK
<1>2. P * weight \in Nat
  BY <1>1
<1>3. CompoundedLUSDDeposit(d)
        = IF \/ initial = 0 \/ s.epoch < currentEpoch \/ currentScale - s.scale >= 2
             \/ compounded < initial \div SCALE_FACTOR
          THEN 0 ELSE compounded
  BY DEF CompoundedLUSDDeposit, CompoundedStake
<1>4. CASE CompoundedLUSDDeposit(d) = 0
  <2>1. K * 0 = 0
    OBVIOUS
  <2>2. QED BY <1>2, <1>4, <2>1
<1>5. CASE /\ initial > 0 /\ ~(s.epoch < currentEpoch) /\ ~(currentScale - s.scale >= 2)
           /\ CompoundedLUSDDeposit(d) = compounded
  <2>1. /\ s.P \in Nat /\ s.P > 0 /\ s.scale \in Nat /\ s.epoch = currentEpoch
        /\ s.scale <= currentScale
    BY <1>1, <1>5 DEF TakenBefore, TypesOK
  <2>2. left \in Nat /\ left * s.P <= initial * P
    <3>1. initial * P \in Nat
      BY <1>1
    <3>2. QED BY <2>1, <3>1, QuotientNat
  <2>3. CASE s.scale = currentScale
    <3>1. compounded = left
      BY <2>3, <1>1
    <3>2. initial * K <= weight * s.P
      BY <1>5, <2>1, <2>3 DEF WeighsEnough
    <3> HIDE DEF initial, left, compounded, s
    <3>3. K * left <= P * weight
      BY <1>1, <2>1, <2>2, <3>2, ShareIsWeighed
    <3>4. QED BY <1>5, <2>2, <3>1, <3>3
  <2>4. CASE s.scale + 1 = currentScale
    <3> DEFINE y == left \div SCALE_FACTOR
               n == s.P * SCALE_FACTOR
    <3>1. compounded = y
      BY <2>1, <2>4
    <3>2. initial * K <= weight * n
      BY <1>5, <2>1, <2>4 DEF WeighsEnough
    <3>3. y \in Nat /\ y * SCALE_FACTOR <= left
      BY <2>2, PoolConstants, QuotientNat
    <3>4. n \in Nat /\ n > 0
      BY <2>1, PoolConstants
    <3>5. s.P * (y * SCALE_FACTOR) <= s.P * left
      <4> HIDE DEF y, left
      <4>1. y * SCALE_FACTOR \in Int /\ left \in Int
        BY <3>3, <2>2, PoolConstants
      <4>2. QED BY <4>1, <2>1, <3>3, TimesMonotone
    <3>6. y * n = s.P * (y * SCALE_FACTOR) /\ s.P * left = left * s.P
      <4> HIDE DEF y, left
      <4>1. QED BY <2>1, <2>2, <3>3, PoolConstants
    <3>7. y * n <= initial * P
      <4> DEFINE u == s.P * (y * SCALE_FACTOR)
                 v == s.P * left
                 x == initial * P
      <4>1. u \in Int /\ v \in Int /\ x \in Int
        <5> HIDE DEF y, left
        <5>1. QED BY <1>1, <2>1, <2>2, <3>3, PoolConstants
      <4>2. u <= v /\ v <= x /\ y * n = u
        BY <2>2, <3>5, <3>6
      <4> HIDE DEF u, v, x
      <4>3. u <= x
        BY <4>1, <4>2
      <4>4. QED BY <4>2, <4>3 DEF x
    <3> HIDE DEF initial, left, compounded, s, y, n
    <3>8. K * y <= P * weight
      BY <1>1, <3>2, <3>3, <3>4, <3>7, ShareIsWeighed
    <3>9. QED BY <1>5, <3>1, <3>3, <3>8
  <2>5. s.scale = currentScale \/ s.scale + 1 = currentScale
    <3>1. ~(currentScale - s.scale >= 2)
      BY <1>5
    <3> HIDE DEF s
    <3>2. QED BY <1>1, <2>1, <3>1
  <2> HIDE DEF initial, s, left, compounded
  <2>6. QED BY <2>3, <2>4, <2>5
<1>6. QED BY <1>1, <1>3, <1>4, <1>5

-----------------------------------------------------------------------------
(* An offset *)

\* _computeRewardsPerUnitStaked: the loss per unit pays for the debt and the
\* error that is carried on, which is within the pool.
LEMMA LossIsExact ==
    ASSUME TypesOK, NEW debt \in Nat, debt > 0, debt <= totalLUSDDeposits,
           debt < totalLUSDDeposits => debt * DECIMAL_PRECISION >= lastLUSDLossError
    PROVE  /\ Loss(debt).perUnit \in Nat
           /\ Loss(debt).error \in 0 .. MaxDeposits
           /\ debt = totalLUSDDeposits => Loss(debt).perUnit = DECIMAL_PRECISION
           /\ debt < totalLUSDDeposits =>
                Loss(debt).perUnit * totalLUSDDeposits
                  = (debt * DECIMAL_PRECISION - lastLUSDLossError) + Loss(debt).error
<1>1. /\ DECIMAL_PRECISION \in Nat /\ MaxDeposits \in Nat
      /\ totalLUSDDeposits \in Nat /\ totalLUSDDeposits <= MaxDeposits
      /\ lastLUSDLossError \in Nat
  BY PoolConstants DEF TypesOK
<1>2. CASE debt = totalLUSDDeposits
  <2>1. Loss(debt) = [perUnit |-> DECIMAL_PRECISION, error |-> 0]
    BY <1>2 DEF Loss
  <2>2. QED BY <1>1, <1>2, <2>1
<1>3. CASE debt < totalLUSDDeposits
  <2> DEFINE n == debt * DECIMAL_PRECISION - lastLUSDLossError
             q == n \div totalLUSDDeposits
  <2>1. n \in Nat
    BY <1>1, <1>3
  <2>2. Loss(debt) = [perUnit |-> q + 1, error |-> (q + 1) * totalLUSDDeposits - n]
    BY <1>1, <1>3 DEF Loss
  <2>3. /\ Loss(debt).perUnit = q + 1
        /\ Loss(debt).error = (q + 1) * totalLUSDDeposits - n
    BY <2>2
  <2> HIDE DEF n
  <2>4. /\ q \in Nat /\ q * totalLUSDDeposits <= n
        /\ n < (q + 1) * totalLUSDDeposits
    BY <1>1, <1>3, <2>1, QuotientNat
  <2> HIDE DEF q
  <2>5. (q + 1) * totalLUSDDeposits = q * totalLUSDDeposits + totalLUSDDeposits
    BY <1>1, <2>4
  <2> DEFINE x == q * totalLUSDDeposits
             y == (q + 1) * totalLUSDDeposits
  <2>6. x \in Int /\ y \in Int
    BY <1>1, <2>4
  <2> HIDE DEF x, y
  <2>7. x <= n /\ n < y /\ y = x + totalLUSDDeposits /\ Loss(debt).error = y - n
    BY <2>3, <2>4, <2>5 DEF x, y
  <2>8. Loss(debt).error \in 0 .. MaxDeposits /\ y = n + Loss(debt).error
    BY <1>1, <2>1, <2>6, <2>7
  <2>9. Loss(debt).perUnit \in Nat
    BY <2>3, <2>4
  <2>10. Loss(debt).perUnit * totalLUSDDeposits = y
    BY <2>3 DEF y
  <2>11. QED BY <1>1, <1>3, <2>8, <2>9, <2>10 DEF n
<1>4. QED BY <1>1, <1>2, <1>3

\* _updateRewardSumAndProduct: P starts anew, or keeps the share that is not
\* lost, rounded down, in the same scale or the next one.
LEMMA ProductIsRoundedDown ==
    ASSUME TypesOK, NEW u \in Nat, u <= DECIMAL_PRECISION
    PROVE  /\ Product(u).P \in Nat
           /\ \/ /\ u = DECIMAL_PRECISION
                 /\ Product(u).scale = 0 /\ Product(u).epoch = currentEpoch + 1
              \/ /\ u < DECIMAL_PRECISION
                 /\ Product(u).scale = currentScale /\ Product(u).epoch = currentEpoch
                 /\ DECIMAL_PRECISION * Product(u).P <= P * (DECIMAL_PRECISION - u)
              \/ /\ u < DECIMAL_PRECISION
                 /\ Product(u).scale = currentScale + 1 /\ Product(u).epoch = currentEpoch
                 /\ DECIMAL_PRECISION * Product(u).P
                      <= (P * SCALE_FACTOR) * (DECIMAL_PRECISION - u)
<1> DEFINE f == DECIMAL_PRECISION - u
           scaled == (P * f) \div DECIMAL_PRECISION
           larger == (P * f * SCALE_FACTOR) \div DECIMAL_PRECISION
<1>1. /\ DECIMAL_PRECISION \in Nat /\ DECIMAL_PRECISION > 0
      /\ SCALE_FACTOR \in Nat /\ P \in Nat
  BY PoolConstants DEF TypesOK
<1>2. f \in Nat /\ (f = 0 <=> u = DECIMAL_PRECISION) /\ (f # 0 => u < DECIMAL_PRECISION)
  BY <1>1
<1>3. CASE f = 0
  <2>1. Product(u) = [P |-> DECIMAL_PRECISION, scale |-> 0, epoch |-> currentEpoch + 1]
    BY <1>3 DEF Product
  <2>2. QED BY <1>1, <1>2, <1>3, <2>1
<1>4. scaled \in Nat /\ DECIMAL_PRECISION * scaled <= P * f
  <2> HIDE DEF f
  <2>1. P * f \in Nat
    BY <1>1, <1>2
  <2>2. scaled \in Nat /\ scaled * DECIMAL_PRECISION <= P * f
    BY <1>1, <2>1, QuotientNat
  <2> HIDE DEF scaled
  <2>3. scaled * DECIMAL_PRECISION = DECIMAL_PRECISION * scaled
    BY <1>1, <2>2
  <2>4. QED BY <2>2, <2>3
<1>5. larger \in Nat /\ DECIMAL_PRECISION * larger <= (P * SCALE_FACTOR) * f
  <2> HIDE DEF f
  <2>1. P * f * SCALE_FACTOR \in Nat
    BY <1>1, <1>2
  <2>2. larger \in Nat /\ larger * DECIMAL_PRECISION <= P * f * SCALE_FACTOR
    BY <1>1, <2>1, QuotientNat
  <2> HIDE DEF larger
  <2>3. /\ larger * DECIMAL_PRECISION = DECIMAL_PRECISION * larger
        /\ P * f * SCALE_FACTOR = (P * SCALE_FACTOR) * f
    BY <1>1, <1>2, <2>2
  <2>4. QED BY <2>2, <2>3
<1>6. CASE f # 0 /\ scaled < SCALE_FACTOR
  <2>1. Product(u) = [P |-> larger, scale |-> currentScale + 1, epoch |-> currentEpoch]
    BY <1>1, <1>4, <1>6 DEF Product
  <2> HIDE DEF larger
  <2>2. QED BY <1>2, <1>5, <1>6, <2>1
<1>7. CASE f # 0 /\ scaled >= SCALE_FACTOR
  <2>1. Product(u) = [P |-> scaled, scale |-> currentScale, epoch |-> currentEpoch]
    BY <1>1, <1>4, <1>7 DEF Product
  <2> HIDE DEF scaled
  <2>2. QED BY <1>2, <1>4, <1>7, <2>1
<1>8. QED BY <1>1, <1>3, <1>4, <1>6, <1>7

\* An offset changes the product, for every deposit alike.
LEMMA OffsetKeepsPool ==
    ASSUME PoolInvariant, NEW debt \in Debts, NEW coll \in Collaterals, Offset(debt, coll)
    PROVE  PoolInvariant'
<1> DEFINE u == Loss(debt).perUnit
           e == Loss(debt).error
           new == Product(u)
           T == totalLUSDDeposits
           E == lastLUSDLossError
<1>1. TypesOK
  BY DEF PoolInvariant
<1>2. PICK K \in Nat : \E w : Covered(K, w)
  BY DEF PoolInvariant
<1>3. PICK w : Covered(K, w)
  BY <1>2
<1>4. /\ debt > 0 /\ debt <= T
      /\ debt < T => debt * DECIMAL_PRECISION >= E
      /\ u <= DECIMAL_PRECISION /\ new.P > 0
      /\ lastLUSDLossError' = e
      /\ P' = new.P /\ currentScale' = new.scale /\ currentEpoch' = new.epoch
      /\ totalLUSDDeposits' = T - debt
      /\ deposits' = deposits /\ depositSnapshots' = depositSnapshots
  BY DEF Offset, depositVars
<1>5. /\ DECIMAL_PRECISION \in Nat /\ DECIMAL_PRECISION > 0
      /\ SCALE_FACTOR \in Nat /\ SCALE_FACTOR > 0
      /\ MaxDeposits \in Nat /\ debt \in Nat
  BY PoolConstants
<1>6. /\ P \in Nat /\ T \in Nat /\ E \in Nat /\ E <= MaxDeposits /\ T <= MaxDeposits
      /\ currentScale \in Nat /\ currentEpoch \in Nat
      /\ deposits \in [Depositors -> [initialValue : Nat, frontEndTag : Tags]]
      /\ DOMAIN depositSnapshots = Depositors
      /\ \A d \in Depositors : deposits[d].initialValue > 0 => TakenBefore(depositSnapshots[d])
  BY <1>1, <1>5 DEF TypesOK
<1>7. /\ u \in Nat /\ e \in 0 .. MaxDeposits
      /\ debt = T => u = DECIMAL_PRECISION
      /\ debt < T => u * T = (debt * DECIMAL_PRECISION - E) + e
  BY <1>1, <1>4, <1>5, LossIsExact
<1> HIDE DEF u, e
<1>8. /\ new.P \in Nat
      /\ \/ /\ u = DECIMAL_PRECISION
            /\ new.scale = 0 /\ new.epoch = currentEpoch + 1
         \/ /\ u < DECIMAL_PRECISION
            /\ new.scale = currentScale /\ new.epoch = currentEpoch
            /\ DECIMAL_PRECISION * new.P <= P * (DECIMAL_PRECISION - u)
         \/ /\ u < DECIMAL_PRECISION
            /\ new.scale = currentScale + 1 /\ new.epoch = currentEpoch
            /\ DECIMAL_PRECISION * new.P
                 <= (P * SCALE_FACTOR) * (DECIMAL_PRECISION - u)
  BY <1>1, <1>4, <1>7, ProductIsRoundedDown
<1> HIDE DEF new
<1>9. TypesOK'
  <2>1. P' \in Nat \ {0} /\ currentScale' \in Nat /\ currentEpoch' \in Nat
    BY <1>4, <1>6, <1>8
  <2>2. totalLUSDDeposits' \in 0 .. MaxDeposits /\ lastLUSDLossError' \in 0 .. MaxDeposits
    BY <1>4, <1>5, <1>6, <1>7
  <2>3. ASSUME NEW d \in Depositors, (deposits[d].initialValue > 0)'
        PROVE  TakenBefore(depositSnapshots[d])'
    <3>1. TakenBefore(depositSnapshots[d]) /\ depositSnapshots[d]' = depositSnapshots[d]
      BY <1>4, <1>6, <2>3
    <3>2. \/ currentEpoch' = currentEpoch + 1
          \/ currentEpoch' = currentEpoch /\ currentScale' >= currentScale
      BY <1>4, <1>6, <1>8
    <3>3. QED BY <1>6, <2>1, <3>1, <3>2 DEF TakenBefore
  <2>4. QED BY <1>4, <1>6, <2>1, <2>2, <2>3 DEF TypesOK
<1>10. SumFunctionOnSet(w, Depositors) \in Nat
  BY <1>3, WeightsAdd DEF Covered
<1> DEFINE W == SumFunctionOnSet(w, Depositors)
<1>11. DECIMAL_PRECISION * (P * W) + K * E <= K * (DECIMAL_PRECISION * T + MaxDeposits)
  BY <1>3 DEF Covered, PoolCovers
<1>12. CASE u = DECIMAL_PRECISION /\ new.epoch = currentEpoch + 1
  <2>1. PICK w1 : w1 = [d \in Depositors |-> 0]
    OBVIOUS
  <2>2. \A d \in Depositors : w1[d] = 0
    BY <2>1
  <2>3. ASSUME NEW d \in Depositors PROVE WeighsEnough(1, w1[d], d)'
    <3>1. (deposits[d].initialValue > 0)' => depositSnapshots'[d].epoch # currentEpoch'
      BY <1>4, <1>6, <1>12 DEF TakenBefore
    <3>2. QED BY <3>1 DEF WeighsEnough
  <2>4. SumFunctionOnSet(w1, Depositors) = 0
    <3>1. \A d \in Depositors : w1[d] \in Int /\ w1[d] = w1[d] + 1 * w1[d]
      BY <2>2
    <3>2. SumFunctionOnSet(w1, Depositors)
            = SumFunctionOnSet(w1, Depositors) + 1 * SumFunctionOnSet(w1, Depositors)
      BY <3>1, PoolConstants, SumLinear
    <3>3. SumFunctionOnSet(w1, Depositors) \in Int
      BY <3>1, PoolConstants, SumType
    <3> DEFINE zero == SumFunctionOnSet(w1, Depositors)
    <3>4. zero = zero + 1 * zero /\ zero \in Int
      BY <3>2, <3>3
    <3> HIDE DEF zero
    <3>5. zero = 0
      BY <3>4
    <3>6. QED BY <3>5 DEF zero
  <2>5. PoolCovers(P', 0, totalLUSDDeposits', lastLUSDLossError', 1)
    <3>1. DECIMAL_PRECISION * (P' * 0) = 0
      BY <1>4, <1>5, <1>8
    <3>2. 1 * lastLUSDLossError' = lastLUSDLossError'
          /\ lastLUSDLossError' \in Nat /\ lastLUSDLossError' <= MaxDeposits
      BY <1>4, <1>5, <1>7
    <3>3. DECIMAL_PRECISION * totalLUSDDeposits' \in Nat
      BY <1>4, <1>5, <1>6
    <3> DEFINE x == DECIMAL_PRECISION * totalLUSDDeposits'
    <3>4. 1 * (x + MaxDeposits) = x + MaxDeposits
      BY <1>5, <3>3
    <3> HIDE DEF x
    <3>5. QED BY <1>5, <3>1, <3>2, <3>3, <3>4 DEF PoolCovers, x
  <2>6. Covered(1, w1)'
    BY <2>2, <2>3, <2>4, <2>5 DEF Covered
  <2>7. QED BY <1>9, <2>6 DEF PoolInvariant
<1>13. CASE /\ u < DECIMAL_PRECISION
            /\ new.scale = currentScale /\ new.epoch = currentEpoch
            /\ DECIMAL_PRECISION * new.P <= P * (DECIMAL_PRECISION - u)
  <2>1. u * T = (debt * DECIMAL_PRECISION - E) + e
    BY <1>4, <1>5, <1>6, <1>7, <1>13
  <2>2. ASSUME NEW d \in Depositors PROVE w[d] \in Nat /\ WeighsEnough(K, w[d], d)'
    <3>1. w[d] \in Nat /\ WeighsEnough(K, w[d], d)
      BY <1>3 DEF Covered
    <3>2. QED BY <1>4, <1>13, <3>1 DEF WeighsEnough
  <2>3. DECIMAL_PRECISION * (new.P * W) + K * e
          <= K * (DECIMAL_PRECISION * (T - debt) + MaxDeposits)
    <3> HIDE DEF W
    <3>1. e \in Nat /\ W \in Nat
      BY <1>7, <1>10, <1>5 DEF W
    <3> DEFINE n == new.P
    <3>2. n \in Nat /\ DECIMAL_PRECISION * n <= P * (DECIMAL_PRECISION - u)
      BY <1>8, <1>13
    <3> HIDE DEF n, T, E
    <3>3. DECIMAL_PRECISION * (n * W) + K * e
            <= K * (DECIMAL_PRECISION * (T - debt) + MaxDeposits)
      BY <1>4, <1>5, <1>6, <1>7, <1>11, <2>1, <3>1, <3>2, OffsetKeepsCover
    <3>4. QED BY <3>3 DEF n
  <2>4. PoolCovers(P, W, totalLUSDDeposits, lastLUSDLossError, K)'
    BY <1>4, <2>3 DEF PoolCovers
  <2>5. Covered(K, w)'
    BY <1>3, <2>2, <2>4 DEF Covered
  <2>6. QED BY <1>9, <2>5 DEF PoolInvariant
<1>14. CASE /\ u < DECIMAL_PRECISION
            /\ new.scale = currentScale + 1 /\ new.epoch = currentEpoch
            /\ DECIMAL_PRECISION * new.P <= (P * SCALE_FACTOR) * (DECIMAL_PRECISION - u)
  <2>1. u * T = (debt * DECIMAL_PRECISION - E) + e
    BY <1>4, <1>5, <1>6, <1>7, <1>14
  <2>2. PICK K1 \in Nat : K1 = K * SCALE_FACTOR
    BY <1>5
  <2>3. ASSUME NEW d \in Depositors PROVE w[d] \in Nat /\ WeighsEnough(K1, w[d], d)'
    <3> DEFINE i == deposits[d].initialValue
               s == depositSnapshots[d]
    <3>1. w[d] \in Nat /\ WeighsEnough(K, w[d], d)
      BY <1>3 DEF Covered
    <3>2. i \in Nat /\ (i > 0 => TakenBefore(s))
      BY <1>6
    <3>3. deposits'[d].initialValue = i /\ depositSnapshots'[d] = s
      BY <1>4
    <3>4. SUFFICES ASSUME i > 0, s.epoch = currentEpoch
                   PROVE  /\ s.scale # currentScale + 1
                          /\ s.scale = currentScale =>
                               i * K1 <= w[d] * (s.P * SCALE_FACTOR)
      <4> HIDE DEF i, s
      <4>1. s.scale + 1 = currentScale' /\ s.scale \in Nat => s.scale = currentScale
        BY <1>4, <1>6, <1>14
      <4>2. i > 0 => s.scale \in Nat
        BY <3>2 DEF TakenBefore
      <4>3. QED BY <1>4, <1>14, <3>1, <3>3, <4>1, <4>2 DEF WeighsEnough
    <3>5. s.P \in Nat /\ s.scale \in Nat /\ s.scale <= currentScale
      BY <3>2, <3>4 DEF TakenBefore
    <3>6. ASSUME s.scale = currentScale PROVE i * K1 <= w[d] * (s.P * SCALE_FACTOR)
      <4> DEFINE x == i * K
                 y == w[d] * s.P
      <4>1. x <= y
        BY <3>1, <3>4, <3>6 DEF WeighsEnough
      <4>2. x \in Int /\ y \in Int
        BY <3>1, <3>2, <3>5
      <4>3. SCALE_FACTOR * x = i * K1 /\ SCALE_FACTOR * y = w[d] * (s.P * SCALE_FACTOR)
        <5> HIDE DEF i, s
        <5>1. QED BY <1>5, <2>2, <3>1, <3>2, <3>5
      <4> HIDE DEF x, y, i, s
      <4>4. SCALE_FACTOR * x <= SCALE_FACTOR * y
        BY <1>5, <4>1, <4>2, TimesMonotone
      <4>5. QED BY <4>3, <4>4
    <3>7. QED BY <1>6, <3>5, <3>6
  <2>4. DECIMAL_PRECISION * ((P * SCALE_FACTOR) * W) + K1 * E
          <= K1 * (DECIMAL_PRECISION * T + MaxDeposits)
    <3> HIDE DEF W, T, E
    <3>1. W \in Nat
      BY <1>10 DEF W
    <3> DEFINE x == DECIMAL_PRECISION * (P * W)
               y == K * E
               z == K * (DECIMAL_PRECISION * T + MaxDeposits)
    <3>2. x \in Int /\ y \in Int /\ z \in Int
      BY <1>5, <1>6, <3>1
    <3>3. x + y <= z
      BY <1>11 DEF W
    <3>4. /\ DECIMAL_PRECISION * ((P * SCALE_FACTOR) * W) = SCALE_FACTOR * x
          /\ K1 * E = SCALE_FACTOR * y
          /\ K1 * (DECIMAL_PRECISION * T + MaxDeposits) = SCALE_FACTOR * z
      BY <1>5, <1>6, <2>2, <3>1
    <3> HIDE DEF x, y, z
    <3>5. SCALE_FACTOR * (x + y) <= SCALE_FACTOR * z
      <4>1. x + y \in Int
        BY <3>2
      <4>2. QED BY <1>5, <3>2, <3>3, <4>1, TimesMonotone
    <3>6. SCALE_FACTOR * (x + y) = SCALE_FACTOR * x + SCALE_FACTOR * y
      BY <1>5, <3>2
    <3>7. QED BY <3>4, <3>5, <3>6
  <2>5. DECIMAL_PRECISION * (new.P * W) + K1 * e
          <= K1 * (DECIMAL_PRECISION * (T - debt) + MaxDeposits)
    <3> DEFINE n == new.P
               old == P * SCALE_FACTOR
    <3> HIDE DEF W
    <3>1. e \in Nat /\ W \in Nat
      BY <1>7, <1>10, <1>5 DEF W
    <3>2. n \in Nat /\ DECIMAL_PRECISION * n <= old * (DECIMAL_PRECISION - u)
      BY <1>8, <1>14
    <3>3. old \in Nat
      BY <1>5, <1>6
    <3>4. DECIMAL_PRECISION * (old * W) + K1 * E
            <= K1 * (DECIMAL_PRECISION * T + MaxDeposits)
      BY <2>4 DEF W
    <3> HIDE DEF n, T, E, old
    <3>5. DECIMAL_PRECISION * (n * W) + K1 * e
            <= K1 * (DECIMAL_PRECISION * (T - debt) + MaxDeposits)
      BY <1>4, <1>5, <1>6, <1>7, <2>1, <3>1, <3>2, <3>3, <3>4, OffsetKeepsCover
    <3>6. QED BY <3>5 DEF n
  <2>6. PoolCovers(P, W, totalLUSDDeposits, lastLUSDLossError, K1)'
    BY <1>4, <2>5 DEF PoolCovers
  <2>7. K1 > 0
    BY <1>3, <1>5, <2>2 DEF Covered
  <2>8. Covered(K1, w)'
    BY <2>3, <2>6, <2>7 DEF Covered
  <2>9. QED BY <1>9, <2>8 DEF PoolInvariant
<1>15. QED BY <1>8, <1>12, <1>13, <1>14

-----------------------------------------------------------------------------
(* A deposit, a withdrawal, and the other steps *)

\* _updateDepositAndSnapshots changes one weight, over parts P times as many.
LEMMA DepositKeepsPool ==
    ASSUME PoolInvariant, UNCHANGED productVars, NEW d \in Depositors, NEW v \in Nat,
           NEW tag \in Tags, UpdateDeposit(d, tag, v),
           totalLUSDDeposits' = (totalLUSDDeposits + v) - CompoundedLUSDDeposit(d),
           totalLUSDDeposits' \in 0 .. MaxDeposits
    PROVE  PoolInvariant'
<1> DEFINE T == totalLUSDDeposits
           E == lastLUSDLossError
<1>1. TypesOK
  BY DEF PoolInvariant
<1>2. PICK K \in Nat : \E w : Covered(K, w)
  BY DEF PoolInvariant
<1>3. PICK w : Covered(K, w)
  BY <1>2
<1>4. /\ P' = P /\ currentScale' = currentScale /\ currentEpoch' = currentEpoch
      /\ lastLUSDLossError' = E
  BY DEF productVars
<1>5. /\ DECIMAL_PRECISION \in Nat /\ MaxDeposits \in Nat /\ IsFiniteSet(Depositors)
  BY PoolConstants
<1>6. /\ P \in Nat /\ P > 0 /\ currentScale \in Nat /\ currentEpoch \in Nat
      /\ T \in Nat /\ E \in 0 .. MaxDeposits
      /\ deposits \in [Depositors -> [initialValue : Nat, frontEndTag : Tags]]
      /\ DOMAIN depositSnapshots = Depositors
      /\ \A x \in Depositors : deposits[x].initialValue > 0 => TakenBefore(depositSnapshots[x])
  BY <1>1, <1>5 DEF TypesOK
<1>7. PICK new : /\ new \in [initialValue : Nat, frontEndTag : Tags]
                 /\ new.initialValue = v
                 /\ deposits' = [deposits EXCEPT ![d] = new]
  <2> DEFINE n == [initialValue |-> v, frontEndTag |-> IF v = 0 THEN NoFrontEnd ELSE tag]
  <2>1. NoFrontEnd \in Tags
    BY DEF Tags
  <2>2. n \in [initialValue : Nat, frontEndTag : Tags] /\ n.initialValue = v
    BY <2>1
  <2>3. deposits' = [deposits EXCEPT ![d] = n]
    BY DEF UpdateDeposit
  <2> HIDE DEF n
  <2>4. QED BY <2>2, <2>3
<1>8. PICK snapshot : /\ v > 0 => /\ snapshot.P = P /\ snapshot.scale = currentScale
                                  /\ snapshot.epoch = currentEpoch
                      /\ depositSnapshots' = [depositSnapshots EXCEPT ![d] = snapshot]
  <2> DEFINE n == IF v = 0 THEN NoSnapshot ELSE Snapshot(NewG)
  <2>1. v > 0 => n.P = P /\ n.scale = currentScale /\ n.epoch = currentEpoch
    BY DEF Snapshot
  <2>2. depositSnapshots' = [depositSnapshots EXCEPT ![d] = n]
    BY DEF UpdateDeposit
  <2> HIDE DEF n
  <2>3. QED BY <2>1, <2>2
<1>9. /\ deposits'[d].initialValue = v /\ depositSnapshots'[d] = snapshot
      /\ \A x \in Depositors \ {d} : /\ deposits'[x] = deposits[x]
                                     /\ depositSnapshots'[x] = depositSnapshots[x]
  BY <1>6, <1>7, <1>8
<1>10. TypesOK'
  <2>1. deposits' \in [Depositors -> [initialValue : Nat, frontEndTag : Tags]]
    BY <1>6, <1>7
  <2>2. DOMAIN depositSnapshots' = Depositors
    BY <1>6, <1>8
  <2>3. ASSUME NEW x \in Depositors, deposits'[x].initialValue > 0
        PROVE  TakenBefore(depositSnapshots[x])'
    <3>1. CASE x = d
      BY <1>4, <1>6, <1>8, <1>9, <2>3, <3>1 DEF TakenBefore
    <3>2. CASE x # d
      BY <1>4, <1>6, <1>9, <2>3, <3>2 DEF TakenBefore
    <3>3. QED BY <3>1, <3>2
  <2>4. QED BY <1>4, <1>5, <1>6, <2>1, <2>2, <2>3 DEF TypesOK
<1>11. \A x \in Depositors : w[x] \in Nat /\ WeighsEnough(K, w[x], x)
  BY <1>3 DEF Covered
<1>12. /\ CompoundedLUSDDeposit(d) \in Nat
       /\ K * CompoundedLUSDDeposit(d) <= P * w[d]
  BY <1>1, <1>11, DepositIsWeighed
<1>13. PICK K1 \in Nat : K1 = K * P
  BY <1>6
<1>14. PICK scaled : scaled = [x \in Depositors |-> P * w[x]]
  OBVIOUS
<1>15. PICK w1 : w1 = [x \in Depositors |-> IF x = d THEN v * K ELSE P * w[x]]
  OBVIOUS
<1>16. /\ \A x \in Depositors : w1[x] \in Nat /\ scaled[x] \in Nat /\ scaled[x] = P * w[x]
       /\ w1[d] = v * K
       /\ \A x \in Depositors \ {d} : w1[x] = P * w[x] /\ w1[x] = scaled[x]
  BY <1>6, <1>11, <1>14, <1>15
<1> DEFINE W == SumFunctionOnSet(w, Depositors)
           PW == SumFunctionOnSet(scaled, Depositors)
           W1 == SumFunctionOnSet(w1, Depositors)
<1>17. W \in Nat /\ PW \in Nat /\ W1 \in Nat
  BY <1>11, <1>16, WeightsAdd
<1>18. PW = P * W
  <2>1. PICK c \in Int : c = P - 1
    BY <1>6
  <2>2. ASSUME NEW x \in Depositors
        PROVE  w[x] \in Int /\ scaled[x] = w[x] + c * w[x]
    <3>1. w[x] \in Nat /\ scaled[x] = P * w[x]
      BY <1>11, <1>16
    <3>2. (P - 1) * w[x] = P * w[x] - w[x]
      BY <1>6, <3>1
    <3>3. P * w[x] \in Int
      BY <1>6, <3>1
    <3>4. QED BY <2>1, <3>1, <3>2, <3>3
  <2>3. PW = W + c * W
    BY ONLY <1>5, <2>1, <2>2, SumLinear
  <2> HIDE DEF PW, W
  <2>4. (P - 1) * W = P * W - W /\ P * W \in Int
    BY <1>6, <1>17
  <2>5. QED BY <1>17, <2>1, <2>3, <2>4
<1>19. W1 = PW - scaled[d] + w1[d]
  <2>1. \A x \in Depositors : scaled[x] \in Int /\ w1[x] \in Int
    BY <1>16
  <2>2. \A x \in Depositors \ {d} : w1[x] = scaled[x]
    BY <1>16
  <2>3. QED BY ONLY <1>5, <2>1, <2>2, d \in Depositors, SumUpdate
<1>20. ASSUME NEW x \in Depositors PROVE WeighsEnough(K1, w1[x], x)'
  <2>1. CASE x = d
    <3>1. SUFFICES ASSUME v > 0
                   PROVE  /\ v * K1 <= w1[d] * snapshot.P
                          /\ snapshot.scale + 1 # currentScale
      BY <1>4, <1>9, <2>1 DEF WeighsEnough
    <3>2. v * K1 = w1[d] * P
      BY <1>6, <1>13, <1>16
    <3>3. v * K1 \in Int
      BY <1>13
    <3>4. QED BY <1>6, <1>8, <3>1, <3>2, <3>3
  <2>2. CASE x # d
    <3> DEFINE i == deposits[x].initialValue
               s == depositSnapshots[x]
    <3>1. w[x] \in Nat /\ i \in Nat /\ (i > 0 => s.P \in Nat) /\ w1[x] = P * w[x]
      BY <1>6, <1>11, <1>16, <2>2 DEF TakenBefore
    <3>2. deposits'[x].initialValue = i /\ depositSnapshots'[x] = s
      BY <1>9, <2>2
    <3>3. ASSUME NEW n \in Nat, i * K <= w[x] * n PROVE i * K1 <= w1[x] * n
      <4>1. i * K \in Int /\ w[x] * n \in Int
        BY <3>1
      <4>2. P * (i * K) <= P * (w[x] * n)
        BY <1>6, <3>3, <4>1, TimesMonotone
      <4>3. P * (i * K) = i * K1 /\ P * (w[x] * n) = w1[x] * n
        <5> HIDE DEF i
        <5>1. QED BY <1>6, <1>13, <3>1
      <4>4. QED BY <4>2, <4>3
    <3>4. i > 0 => s.P * SCALE_FACTOR \in Nat
      BY <3>1, PoolConstants
    <3>5. WeighsEnough(K, w[x], x)
      BY <1>11
    <3>6. ASSUME i > 0, s.epoch = currentEpoch
          PROVE  /\ s.scale = currentScale => i * K1 <= w1[x] * s.P
                 /\ s.scale + 1 = currentScale => i * K1 <= w1[x] * (s.P * SCALE_FACTOR)
      <4>1. /\ s.scale = currentScale => i * K <= w[x] * s.P
            /\ s.scale + 1 = currentScale => i * K <= w[x] * (s.P * SCALE_FACTOR)
        BY <3>5, <3>6 DEF WeighsEnough
      <4>2. QED BY <3>1, <3>3, <3>4, <3>6, <4>1
    <3>7. QED BY <1>4, <3>2, <3>6 DEF WeighsEnough
  <2>3. QED BY <2>1, <2>2
<1>21. PoolCovers(P, W1, totalLUSDDeposits, lastLUSDLossError, K1)'
  <2>1. DECIMAL_PRECISION * (P * W) + K * E <= K * (DECIMAL_PRECISION * T + MaxDeposits)
    BY <1>3 DEF Covered, PoolCovers
  <2>2. W1 = (P * W - P * w[d]) + v * K
    <3>1. scaled[d] = P * w[d] /\ w1[d] = v * K /\ P * w[d] \in Int /\ v * K \in Int
      BY <1>6, <1>11, <1>16
    <3> HIDE DEF W1, PW, W
    <3>2. P * W \in Int
      BY <1>6, <1>17
    <3> DEFINE a == P * W
               b == P * w[d]
               c == v * K
    <3>3. W1 = PW - scaled[d] + w1[d] /\ PW = a /\ scaled[d] = b /\ w1[d] = c
      BY <1>18, <1>19, <3>1
    <3>4. a \in Int /\ b \in Int /\ c \in Int
      BY <3>1, <3>2
    <3> HIDE DEF a, b, c
    <3>5. W1 = (a - b) + c
      BY <3>3, <3>4
    <3>6. QED BY <3>5 DEF a, b, c
  <2>3. PICK left \in Nat : left = CompoundedLUSDDeposit(d)
    BY <1>12
  <2>4. PICK T1 \in Nat : T1 = totalLUSDDeposits'
    BY <1>5
  <2>5. T1 = (T + v) - left /\ K * left <= P * w[d]
    BY <1>12, <2>3, <2>4
  <2>6. w[d] \in Nat /\ v * K \in Nat /\ E \in Nat
    BY <1>5, <1>6, <1>11
  <2> HIDE DEF W, W1, T, E
  <2>7. PICK share \in Nat : share = v * K
    BY <2>6
  <2>8. W1 = (P * W - P * w[d]) + share
    BY <2>2, <2>7
  <2>9. DECIMAL_PRECISION * (P * W1) + (K * P) * E
          <= (K * P) * (DECIMAL_PRECISION * T1 + MaxDeposits)
    BY <1>5, <1>6, <1>17, <2>1, <2>5, <2>6, <2>7, <2>8, DepositKeepsCover
  <2>10. DECIMAL_PRECISION * (P' * W1) + K1 * lastLUSDLossError'
           <= K1 * (DECIMAL_PRECISION * totalLUSDDeposits' + MaxDeposits)
    BY <1>4, <1>13, <2>4, <2>9
  <2>11. QED BY <2>10 DEF PoolCovers
<1>22. K1 > 0
  BY <1>3, <1>6, <1>13 DEF Covered
<1>23. Covered(K1, w1)'
  BY <1>16, <1>20, <1>21, <1>22 DEF Covered
<1>24. QED BY <1>10, <1>23 DEF PoolInvariant

\* provideToSP adds to what is left of a deposit.
LEMMA ProvideKeepsPool ==
    ASSUME PoolInvariant, NEW d \in Depositors, NEW amount \in Amounts, NEW f \in Tags,
           ProvideToSP(d, amount, f)
    PROVE  PoolInvariant'
<1> DEFINE left == CompoundedLUSDDeposit(d)
           tag == IF deposits[d].initialValue = 0 THEN f ELSE deposits[d].frontEndTag
<1>1. PICK K \in Nat : \E w : Covered(K, w)
  BY DEF PoolInvariant
<1>2. PICK w : Covered(K, w)
  BY <1>1
<1>3. TypesOK
  BY DEF PoolInvariant
<1>4. left \in Nat
  BY <1>2, <1>3, DepositIsWeighed DEF Covered
<1>5. /\ totalLUSDDeposits \in 0 .. MaxDeposits /\ MaxDeposits \in Nat /\ amount \in Nat
      /\ deposits \in [Depositors -> [initialValue : Nat, frontEndTag : Tags]]
  BY <1>3, PoolConstants DEF TypesOK
<1>6. /\ UNCHANGED productVars
      /\ totalLUSDDeposits + amount <= MaxDeposits
      /\ totalLUSDDeposits' = totalLUSDDeposits + amount
      /\ UpdateDeposit(d, tag, left + amount)
  BY DEF ProvideToSP, Operation
<1>7. tag \in Tags
  BY <1>5
<1> HIDE DEF left, tag
<1>8. /\ totalLUSDDeposits' \in 0 .. MaxDeposits /\ left + amount \in Nat
      /\ totalLUSDDeposits' = (totalLUSDDeposits + (left + amount)) - left
  BY <1>4, <1>5, <1>6
<1>9. totalLUSDDeposits'
        = (totalLUSDDeposits + (left + amount)) - CompoundedLUSDDeposit(d)
  BY <1>8 DEF left
<1>10. QED BY <1>6, <1>7, <1>8, <1>9, DepositKeepsPool

\* withdrawFromSP takes from it, at most what is left.
LEMMA WithdrawKeepsPool ==
    ASSUME PoolInvariant, NEW d \in Depositors, NEW amount \in Nat, WithdrawFromSP(d, amount)
    PROVE  PoolInvariant'
<1> DEFINE left == CompoundedLUSDDeposit(d)
           leaving == Least(amount, left)
           tag == deposits[d].frontEndTag
<1>1. PICK K \in Nat : \E w : Covered(K, w)
  BY DEF PoolInvariant
<1>2. PICK w : Covered(K, w)
  BY <1>1
<1>3. TypesOK
  BY DEF PoolInvariant
<1>4. left \in Nat
  BY <1>2, <1>3, DepositIsWeighed DEF Covered
<1>5. /\ totalLUSDDeposits \in 0 .. MaxDeposits /\ MaxDeposits \in Nat
      /\ deposits \in [Depositors -> [initialValue : Nat, frontEndTag : Tags]]
  BY <1>3, PoolConstants DEF TypesOK
<1>6. /\ UNCHANGED productVars
      /\ totalLUSDDeposits >= leaving
      /\ totalLUSDDeposits' = totalLUSDDeposits - leaving
      /\ UpdateDeposit(d, tag, left - leaving)
  BY DEF WithdrawFromSP, Operation
<1>7. tag \in Tags
  BY <1>5
<1>8. leaving \in Nat /\ leaving <= left
  <2> HIDE DEF left
  <2>1. QED BY <1>4 DEF Least
<1> HIDE DEF left, leaving, tag
<1>9. /\ totalLUSDDeposits' \in 0 .. MaxDeposits /\ left - leaving \in Nat
      /\ totalLUSDDeposits' = (totalLUSDDeposits + (left - leaving)) - left
  BY <1>4, <1>5, <1>6, <1>8
<1>10. totalLUSDDeposits'
         = (totalLUSDDeposits + (left - leaving)) - CompoundedLUSDDeposit(d)
  BY <1>9 DEF left
<1>11. QED BY <1>6, <1>7, <1>9, <1>10, DepositKeepsPool

\* What the invariant depends on.
poolVars == <<productVars, totalLUSDDeposits, deposits, depositSnapshots>>

\* Steps that change none of it keep the invariant.
LEMMA OtherStepsKeepPool ==
    ASSUME PoolInvariant, UNCHANGED poolVars
    PROVE  PoolInvariant'
<1>1. PICK K \in Nat : \E w : Covered(K, w)
  BY DEF PoolInvariant
<1>2. PICK w : Covered(K, w)
  BY <1>1
<1>3. TypesOK'
  BY DEF PoolInvariant, poolVars, productVars, TypesOK, TakenBefore
<1>4. ASSUME NEW d \in Depositors PROVE w[d] \in Nat /\ WeighsEnough(K, w[d], d)'
  <2>1. w[d] \in Nat /\ WeighsEnough(K, w[d], d)
    BY <1>2 DEF Covered
  <2>2. QED BY <2>1 DEF WeighsEnough, poolVars, productVars
<1>5. PoolCovers(P, SumFunctionOnSet(w, Depositors), totalLUSDDeposits,
                 lastLUSDLossError, K)'
  BY <1>2 DEF Covered, PoolCovers, poolVars, productVars
<1>6. Covered(K, w)'
  BY <1>2, <1>4, <1>5 DEF Covered
<1>7. QED BY <1>3, <1>6 DEF PoolInvariant

\* The invariant is inductive.
LEMMA PoolStep == PoolInvariant /\ [Next]_vars => PoolInvariant'
<1>1. SUFFICES ASSUME PoolInvariant, [Next]_vars PROVE PoolInvariant'
  OBVIOUS
<1>2. ASSUME NEW d \in Depositors, NEW a \in Amounts, NEW f \in Tags, ProvideToSP(d, a, f)
      PROVE  PoolInvariant'
  BY <1>1, <1>2, ProvideKeepsPool
<1>3. ASSUME NEW d \in Depositors, NEW a \in Amounts \union {0}, WithdrawFromSP(d, a)
      PROVE  PoolInvariant'
  <2>1. a \in Nat
    BY PoolConstants
  <2>2. QED BY <1>1, <1>3, <2>1, WithdrawKeepsPool
<1>4. ASSUME NEW d \in Depositors, WithdrawETHGainToTrove(d) PROVE PoolInvariant'
  <2>1. WithdrawFromSP(d, 0)
    BY <1>4 DEF WithdrawETHGainToTrove
  <2>2. QED BY <1>1, <2>1, WithdrawKeepsPool
<1>5. ASSUME NEW debt \in Debts, NEW coll \in Collaterals, Offset(debt, coll)
      PROVE  PoolInvariant'
  BY <1>1, <1>5, OffsetKeepsPool
<1>6. ASSUME NEW r \in Rewards, Notify(r) PROVE PoolInvariant'
  <2>1. UNCHANGED poolVars
    BY <1>6 DEF Notify, Operation, poolVars, depositVars
  <2>2. QED BY <1>1, <2>1, OtherStepsKeepPool
<1>7. ASSUME Wait PROVE PoolInvariant'
  <2>1. UNCHANGED poolVars
    BY <1>7 DEF Wait, poolVars, depositVars
  <2>2. QED BY <1>1, <2>1, OtherStepsKeepPool
<1>8. ASSUME UNCHANGED vars PROVE PoolInvariant'
  <2>1. UNCHANGED poolVars
    BY <1>8 DEF vars, poolVars, depositVars
  <2>2. QED BY <1>1, <2>1, OtherStepsKeepPool
<1>9. QED BY <1>1, <1>2, <1>3, <1>4, <1>5, <1>6, <1>7, <1>8 DEF Next

\* Before the first deposit nothing weighs anything.
LEMMA PoolInit == Init => PoolInvariant
<1>1. SUFFICES ASSUME Init PROVE PoolInvariant
  OBVIOUS
<1>2. /\ P = DECIMAL_PRECISION /\ currentScale = 0 /\ currentEpoch = 0
      /\ lastLUSDLossError = 0 /\ totalLUSDDeposits = 0
      /\ deposits = [d \in Depositors |-> [initialValue |-> 0, frontEndTag |-> NoFrontEnd]]
      /\ depositSnapshots = [d \in Depositors |-> NoSnapshot]
  BY <1>1 DEF Init
<1>3. /\ DECIMAL_PRECISION \in Nat /\ DECIMAL_PRECISION > 0 /\ MaxDeposits \in Nat
      /\ IsFiniteSet(Depositors)
  BY PoolConstants
<1>4. \A d \in Depositors : deposits[d].initialValue = 0
  BY <1>2
<1>5. TypesOK
  <2>1. deposits \in [Depositors -> [initialValue : Nat, frontEndTag : Tags]]
    BY <1>2 DEF Tags
  <2>2. QED BY <1>2, <1>3, <1>4, <2>1 DEF TypesOK
<1> DEFINE w == [d \in Depositors |-> 0]
           zero == SumFunctionOnSet(w, Depositors)
<1>6. zero = 0
  <2>1. \A d \in Depositors : w[d] \in Int /\ w[d] = w[d] + 1 * w[d]
    OBVIOUS
  <2> HIDE DEF w
  <2>2. zero = zero + 1 * zero
    BY <1>3, <2>1, SumLinear
  <2>3. zero \in Int
    BY <1>3, <2>1, SumType
  <2> HIDE DEF zero
  <2>4. QED BY <2>2, <2>3
<1>7. \A d \in Depositors : w[d] \in Nat
  OBVIOUS
<1>8. PoolCovers(P, zero, totalLUSDDeposits, lastLUSDLossError, 1)
  <2> HIDE DEF zero
  <2>1. QED BY <1>2, <1>3, <1>6 DEF PoolCovers
<1> HIDE DEF w
<1>9. Covered(1, w)
  BY <1>4, <1>7, <1>8 DEF Covered, WeighsEnough, zero
<1>10. QED BY <1>5, <1>9 DEF PoolInvariant

\* The invariant holds in every reachable state.
LEMMA PoolIsInvariant == Spec => []PoolInvariant
<1>1. QED BY PoolInit, PoolStep, PTL DEF Spec

-----------------------------------------------------------------------------
(* What the depositors are owed *)

\* K times what is left of all the deposits is at most the weighed product.
LEMMA DepositsAreWeighed ==
    ASSUME TypesOK, NEW K \in Nat, NEW w, Covered(K, w)
    PROVE  /\ CompoundedDeposits \in Nat
           /\ K * CompoundedDeposits <= P * SumFunctionOnSet(w, Depositors)
<1> DEFINE left == [d \in Depositors |-> CompoundedLUSDDeposit(d)]
           scaled == [d \in Depositors |-> K * left[d]]
           weighed == [d \in Depositors |-> P * w[d]]
           total == SumFunctionOnSet(left, Depositors)
           W == SumFunctionOnSet(w, Depositors)
<1>1. IsFiniteSet(Depositors) /\ P \in Nat
  BY PoolConstants DEF TypesOK
<1>2. \A d \in Depositors : w[d] \in Nat /\ WeighsEnough(K, w[d], d)
  BY DEF Covered
<1>3. ASSUME NEW d \in Depositors
      PROVE  left[d] \in Nat /\ K * left[d] <= P * w[d]
  BY <1>2, DepositIsWeighed
<1>4. \A d \in Depositors : left[d] \in Nat
  BY <1>3
<1>5. CompoundedDeposits = total
  BY DEF CompoundedDeposits, Total, SumFunction
<1> HIDE DEF left
<1>6. total \in Nat /\ W \in Nat
  BY <1>2, <1>4, WeightsAdd
<1>7. ASSUME NEW f, NEW c \in Nat, \A d \in Depositors : f[d] \in Nat
      PROVE  SumFunctionOnSet([d \in Depositors |-> c * f[d]], Depositors)
               = c * SumFunctionOnSet(f, Depositors)
  <2> DEFINE h == [d \in Depositors |-> c * f[d]]
             x == SumFunctionOnSet(f, Depositors)
  <2>1. PICK b \in Int : b = c - 1
    OBVIOUS
  <2>2. ASSUME NEW d \in Depositors PROVE f[d] \in Int /\ h[d] = f[d] + b * f[d]
    <3>1. (c - 1) * f[d] = c * f[d] - f[d] /\ c * f[d] \in Int
      BY <1>7
    <3>2. QED BY <1>7, <2>1, <3>1
  <2>3. x \in Nat
    BY <1>7, WeightsAdd
  <2> HIDE DEF h
  <2>4. SumFunctionOnSet(h, Depositors) = x + b * x
    BY ONLY <1>1, <2>1, <2>2, SumLinear
  <2> HIDE DEF x
  <2>5. (c - 1) * x = c * x - x /\ c * x \in Int
    BY <2>3
  <2>6. SumFunctionOnSet(h, Depositors) = c * x
    BY <2>1, <2>3, <2>4, <2>5
  <2>7. QED BY <2>6 DEF h, x
<1>8. SumFunctionOnSet(scaled, Depositors) = K * total
  BY <1>4, <1>7
<1>9. SumFunctionOnSet(weighed, Depositors) = P * W
  BY <1>1, <1>2, <1>7
<1>10. ASSUME NEW d \in Depositors
       PROVE  scaled[d] \in Int /\ weighed[d] \in Int /\ scaled[d] <= weighed[d]
  BY <1>1, <1>2, <1>3
<1> HIDE DEF scaled, weighed
<1>11. SumFunctionOnSet(scaled, Depositors) <= SumFunctionOnSet(weighed, Depositors)
  BY <1>1, <1>10, SumMonotone
<1>12. QED BY <1>5, <1>6, <1>8, <1>9, <1>11

\* From parts of K and DECIMAL_PRECISION to whole ARTH.
LEMMA OwedIsNearlyInPool ==
    ASSUME PoolInvariant
    PROVE  /\ CompoundedDeposits \in Nat
           /\ DECIMAL_PRECISION * CompoundedDeposits
                <= DECIMAL_PRECISION * totalLUSDDeposits + MaxDeposits
<1>1. PICK K \in Nat : \E w : Covered(K, w)
  BY DEF PoolInvariant
<1>2. PICK w : Covered(K, w)
  BY <1>1
<1> DEFINE c == CompoundedDeposits
           W == SumFunctionOnSet(w, Depositors)
           T == totalLUSDDeposits
           E == lastLUSDLossError
           DP == DECIMAL_PRECISION
<1>3. TypesOK
  BY DEF PoolInvariant
<1>4. /\ DP \in Nat /\ DP > 0 /\ MaxDeposits \in Nat /\ P \in Nat
      /\ T \in Nat /\ E \in Nat
  BY <1>3, PoolConstants DEF TypesOK
<1>5. c \in Nat /\ K * c <= P * W
  BY <1>2, <1>3, DepositsAreWeighed
<1>6. W \in Nat
  BY <1>2, WeightsAdd DEF Covered
<1>7. K > 0 /\ DP * (P * W) + K * E <= K * (DP * T + MaxDeposits)
  BY <1>2 DEF Covered, PoolCovers
<1> HIDE DEF c, W, T, E, DP
<1>8. DP * (K * c) <= DP * (P * W)
  <2>1. K * c \in Int /\ P * W \in Int
    BY <1>4, <1>5, <1>6
  <2>2. QED BY <1>4, <1>5, <2>1, TimesMonotone
<1>9. DP * (K * c) = K * (DP * c)
  BY <1>4, <1>5
<1>10. K * (DP * c) <= K * (DP * T + MaxDeposits)
  <2>1. K * E \in Nat /\ DP * (P * W) \in Int /\ K * (DP * c) \in Int
        /\ K * (DP * T + MaxDeposits) \in Int
    BY <1>4, <1>5, <1>6
  <2>2. QED BY <1>7, <1>8, <1>9, <2>1
<1>11. DP * c <= DP * T + MaxDeposits
  <2>1. DP * c \in Int /\ DP * T + MaxDeposits \in Int
    BY <1>4, <1>5
  <2>2. QED BY <1>7, <1>10, <2>1, Cancel
<1>12. QED BY <1>5, <1>11 DEF c, DP, T

\* Excess in parts of a number is its quotient.
LEMMA ExcessAtMost ==
    ASSUME NEW n \in Nat, n > 0, NEW a \in Nat, NEW b \in Nat, NEW m \in Nat,
           n * a <= n * b + m
    PROVE  a <= b + m \div n
<1> DEFINE q == m \div n
<1>1. q \in Nat /\ m < (q + 1) * n
  BY QuotientNat
<1> HIDE DEF q
<1>2. SUFFICES ASSUME a >= b + (q + 1) PROVE FALSE
  BY <1>1 DEF q
<1>3. n * (b + (q + 1)) <= n * a
  <2>1. b + (q + 1) \in Int
    BY <1>1
  <2>2. QED BY <1>2, <2>1, TimesMonotone
<1>4. n * (b + (q + 1)) = n * b + (q + 1) * n
  BY <1>1
<1>5. n * b \in Int /\ n * a \in Int /\ (q + 1) * n \in Int
  BY <1>1
<1>6. QED BY <1>1, <1>3, <1>4, <1>5

\* However the pool was used, through any number of offsets, scales and epochs
\* and with any set of depositors, what getCompoundedLUSDDeposit gives all of
\* them exceeds the pool by no more than one for every DECIMAL_PRECISION of
\* the pool's bound.
THEOREM DepositsAreNearlyCovered == Spec => []DepositsNearlyCovered
<1>1. PoolInvariant => DepositsNearlyCovered
  <2>1. SUFFICES ASSUME PoolInvariant PROVE DepositsNearlyCovered
    OBVIOUS
  <2>2. totalLUSDDeposits \in Nat
    BY <2>1, PoolConstants DEF PoolInvariant, TypesOK
  <2> DEFINE c == CompoundedDeposits
             T == totalLUSDDeposits
  <2>3. c \in Nat /\ DECIMAL_PRECISION * c <= DECIMAL_PRECISION * T + MaxDeposits
    BY <2>1, OwedIsNearlyInPool
  <2>4. T \in Nat
    BY <2>2
  <2> HIDE DEF c, T
  <2>5. c <= T + MaxDeposits \div DECIMAL_PRECISION
    BY <2>3, <2>4, PoolConstants, ExcessAtMost
  <2>6. QED BY <2>5 DEF c, T, DepositsNearlyCovered
<1>2. QED BY <1>1, PoolIsInvariant, PTL

\* A pool that never holds DECIMAL_PRECISION can pay every depositor in full.
THEOREM SmallPoolIsCovered ==
    ASSUME MaxDeposits < DECIMAL_PRECISION
    PROVE  Spec => []DepositsCovered
<1>1. PoolInvariant => DepositsCovered
  <2>1. SUFFICES ASSUME PoolInvariant PROVE DepositsCovered
    OBVIOUS
  <2>2. totalLUSDDeposits \in Nat
    BY <2>1, PoolConstants DEF PoolInvariant, TypesOK
  <2> DEFINE c == CompoundedDeposits
             T == totalLUSDDeposits
  <2>3. c \in Nat /\ DECIMAL_PRECISION * c <= DECIMAL_PRECISION * T + MaxDeposits
    BY <2>1, OwedIsNearlyInPool
  <2>4. T \in Nat
    BY <2>2
  <2> HIDE DEF c, T
  <2>5. DECIMAL_PRECISION * c < DECIMAL_PRECISION * (T + 1)
    <3>1. DECIMAL_PRECISION * (T + 1) = DECIMAL_PRECISION * T + DECIMAL_PRECISION
      BY <2>4, PoolConstants
    <3>2. DECIMAL_PRECISION * c \in Int /\ DECIMAL_PRECISION * T \in Int
      BY <2>3, <2>4, PoolConstants
    <3>3. QED BY <2>3, <3>1, <3>2, PoolConstants
  <2>6. ~(T + 1 <= c)
    <3>1. SUFFICES ASSUME T + 1 <= c PROVE FALSE
      OBVIOUS
    <3>2. DECIMAL_PRECISION * (T + 1) <= DECIMAL_PRECISION * c
      <4>1. T + 1 \in Int /\ c \in Int
        BY <2>3, <2>4
      <4>2. QED BY <3>1, <4>1, PoolConstants, TimesMonotone
    <3>3. DECIMAL_PRECISION * c \in Int /\ DECIMAL_PRECISION * (T + 1) \in Int
      BY <2>3, <2>4, PoolConstants
    <3>4. QED BY <2>5, <3>2, <3>3
  <2>7. c <= T
    BY <2>3, <2>4, <2>6
  <2>8. QED BY <2>7 DEF c, T, DepositsCovered
<1>2. QED BY <1>1, PoolIsInvariant, PTL

=============================================================================
