------------------------------- MODULE FeeRates -------------------------------
(****************************************************************************)
(* The base rate of TroveManager.sol: raised by redemptions, decaying with  *)
(* time, committed by every operation that pays a fee; and lib-base's Fees, *)
(* with which a client predicts what the contracts will charge and what it  *)
(* has to ask for.  Each side has parameters of its own; they differ.       *)
(****************************************************************************)
EXTENDS Trove

CONSTANTS
    MINUTE_DECAY_FACTOR, BETA, SECONDS_IN_ONE_MINUTE,
    BORROWING_FEE_FLOOR, REDEMPTION_FEE_FLOOR, MAX_BORROWING_FEE,   \* Governance.sol
    MCR, CCR, LUSD_GAS_COMPENSATION,                                \* LiquityBase.sol
    MINIMUM_BORROWING_RATE, MAXIMUM_BORROWING_RATE,                 \* lib-base
    MINIMUM_REDEMPTION_RATE, CRITICAL_COLLATERAL_RATIO,
    Waits,      \* seconds that may pass between transactions
    Fractions,  \* fractions of the supply that are redeemed
    Ratios,     \* the system's collateral ratios
    Collaterals, Debts,     \* bounds: the troves a client has and wants
    MaxTime     \* bound on the clock

VARIABLES
    baseRate,
    lastFeeOperationTime,
    now,        \* block.timestamp
    TCR,        \* the system's collateral ratio at the current price
    redeemed    \* rate and time right after the latest redemption

vars == <<baseRate, lastFeeOperationTime, now, TCR, redeemed>>

\* A thousand years, beyond which _decPow does not count.
MAX_MINUTES == 525600000

\* The rates are fractions of one (Fees.ts asserts it of the decay factor), and
\* nobody looks more than a thousand years ahead.
ASSUME FeesAssumption ==
    /\ MINUTE_DECAY_FACTOR \in 0 .. DIGITS - 1
    /\ BETA \in Nat \ {0} /\ SECONDS_IN_ONE_MINUTE \in Nat \ {0}
    /\ {BORROWING_FEE_FLOOR, REDEMPTION_FEE_FLOOR, MAX_BORROWING_FEE, LUSD_GAS_COMPENSATION,
        MINIMUM_BORROWING_RATE, MINIMUM_REDEMPTION_RATE} \subseteq Nat
    /\ MAXIMUM_BORROWING_RATE \in 0 .. DIGITS
    /\ MaxTime \in Nat /\ SECONDS_IN_ONE_MINUTE <= MaxTime
    /\ Waits \subseteq Nat /\ Fractions \subseteq Nat
    /\ Collaterals \subseteq Nat
    /\ \A debt \in Debts : debt \in Nat /\ debt >= LUSD_LIQUIDATION_RESERVE
    /\ \A wait \in Waits \union {0} :
           (MaxTime + wait) \div SECONDS_IN_ONE_MINUTE <= MAX_MINUTES

(***************************** TroveManager.sol ****************************)

\* LiquityMath._decPow: the same power, written with parity and halves.
DecPowLoop[s \in [x : Nat, y : Nat, n : Nat]] ==
    IF s.n <= 1 THEN RoundedMul(s.x, s.y)
    ELSE IF s.n % 2 = 0
    THEN DecPowLoop[[x |-> RoundedMul(s.x, s.x), y |-> s.y, n |-> s.n \div 2]]
    ELSE DecPowLoop[[x |-> RoundedMul(s.x, s.x), y |-> RoundedMul(s.x, s.y),
                     n |-> (s.n - 1) \div 2]]

DecPow(base, minutes) ==
    IF minutes = 0 THEN DIGITS
    ELSE DecPowLoop[[x |-> base, y |-> DIGITS, n |-> DecimalMin(minutes, MAX_MINUTES)]]

MutMinutesPassed(time) ==    \* broken: a minute begun counts
    (time - lastFeeOperationTime + SECONDS_IN_ONE_MINUTE - 1) \div SECONDS_IN_ONE_MINUTE

MinutesPassed(time) == (time - lastFeeOperationTime) \div SECONDS_IN_ONE_MINUTE

CalcDecayedBaseRate(time) ==
    (baseRate * DecPow(MINUTE_DECAY_FACTOR, MinutesPassed(time))) \div DIGITS

CalcBorrowingRate(rate) == DecimalMin(BORROWING_FEE_FLOOR + rate, MAX_BORROWING_FEE)

CalcRedemptionRate(rate) == DecimalMin(REDEMPTION_FEE_FLOOR + rate, DIGITS)

RecoveryMode == TCR < CCR

MutUpdateLastFeeOpTime == lastFeeOperationTime' = now    \* broken: every operation moves the clock

UpdateLastFeeOpTime ==
    lastFeeOperationTime' =
        IF now - lastFeeOperationTime >= SECONDS_IN_ONE_MINUTE THEN now ELSE lastFeeOperationTime

\* openTrove and a debt increase outside recovery mode.
Borrow ==
    /\ ~RecoveryMode
    /\ baseRate' = CalcDecayedBaseRate(now)
    /\ UpdateLastFeeOpTime
    /\ UNCHANGED <<now, TCR, redeemed>>

ChargedRate(time) ==
    IF RecoveryMode THEN 0 ELSE CalcBorrowingRate(CalcDecayedBaseRate(time))

CalcBorrowingFee(rate, amount) == (rate * amount) \div DIGITS

\* What openTrove, adjustTrove and closeTrove make of a trove.
ChainAfter(t, change) ==
    LET borrowed == change.borrowLUSD + CalcBorrowingFee(ChargedRate(now), change.borrowLUSD) IN
    CASE change.type = "creation" ->
           Trove(change.depositCollateral, borrowed + LUSD_GAS_COMPENSATION)
      [] change.type = "closure" -> EmptyTrove
      [] change.type = "adjustment" ->
           Trove(t.collateral + change.depositCollateral - change.withdrawCollateral,
                 t.debt + borrowed - change.repayLUSD)

\* The rate of a redemption that draws the fraction f of the supply.
RateAfterRedemption(f) == DecimalMin(CalcDecayedBaseRate(now) + f \div BETA, DIGITS)

Redeem(f) ==
    /\ TCR >= MCR
    /\ RateAfterRedemption(f) > 0
    /\ CalcRedemptionRate(RateAfterRedemption(f)) < DIGITS
    /\ baseRate' = RateAfterRedemption(f)
    /\ UpdateLastFeeOpTime
    /\ redeemed' = [rate |-> RateAfterRedemption(f), time |-> now]
    /\ UNCHANGED <<now, TCR>>

(********************************* Fees.ts *********************************)

\* What _getFeesFactory and the store read at one block.
Fees == [baseRateWithoutDecay |-> baseRate,
         lastFeeOperation     |-> lastFeeOperationTime,
         timeOfLatestBlock    |-> now,
         recoveryMode         |-> TCR < CRITICAL_COLLATERAL_RATIO]

BaseRate(fees, when) ==
    Mul(Pow(MINUTE_DECAY_FACTOR,
            Positive(when - fees.lastFeeOperation) \div SECONDS_IN_ONE_MINUTE),
        fees.baseRateWithoutDecay)

MutBorrowingRate(fees, when) ==    \* broken: recovery mode is forgotten
    DecimalMin(MINIMUM_BORROWING_RATE + BaseRate(fees, when), MAXIMUM_BORROWING_RATE)

BorrowingRate(fees, when) ==
    IF fees.recoveryMode THEN 0
    ELSE DecimalMin(MINIMUM_BORROWING_RATE + BaseRate(fees, when), MAXIMUM_BORROWING_RATE)

RedemptionRate(fees, fraction, when) ==
    DecimalMin(MINIMUM_REDEMPTION_RATE
                 + (IF fraction # 0 THEN Div(fraction, BETA * DIGITS) ELSE 0)
                 + BaseRate(fees, when),
               DIGITS)

(******************************* environment *******************************)

Wait(seconds) ==
    /\ now + seconds <= MaxTime
    /\ now' = now + seconds
    /\ UNCHANGED <<baseRate, lastFeeOperationTime, TCR, redeemed>>

\* The price moves, or somebody opens, closes or changes a trove.
ChangeTCR(ratio) ==
    /\ TCR' = ratio
    /\ UNCHANGED <<baseRate, lastFeeOperationTime, now, redeemed>>

Init ==
    /\ baseRate = 0
    /\ lastFeeOperationTime = 0
    /\ now = SECONDS_IN_ONE_MINUTE
    /\ TCR \in Ratios
    /\ redeemed = [rate |-> 0, time |-> 0]

Next ==
    \/ \E s \in Waits : Wait(s)
    \/ \E r \in Ratios : ChangeTCR(r)
    \/ Borrow
    \/ \E f \in Fractions : Redeem(f)

Spec == Init /\ [][Next]_vars

(******************************** properties *******************************)

EffectiveRate == CalcDecayedBaseRate(now)

\* The reference: one multiplication for each minute.
DecayedOnce[k \in Nat] ==
    IF k = 0 THEN redeemed.rate
    ELSE (DecayedOnce[k - 1] * MINUTE_DECAY_FACTOR) \div DIGITS

SinceRedemption == now - redeemed.time

MinutesBegun == (SinceRedemption + SECONDS_IN_ONE_MINUTE - 1) \div SECONDS_IN_ONE_MINUTE

EverySecondMinute ==
    (SinceRedemption + SECONDS_IN_ONE_MINUTE) \div (2 * SECONDS_IN_ONE_MINUTE)

\* Squaring, the product with the rate and the reference round differently, by
\* no more than three last digits a minute, of which DIGITS make one.
Rounding == 3 * MinutesBegun

\* However often somebody borrows, and whenever he does it, the rate loses at
\* least every second minute's decay: _updateLastFeeOpTime "prevents base rate
\* griefing", and repeated squaring in _decPow stays close to the exact power.
RateKeepsDecaying == EffectiveRate <= DecayedOnce[EverySecondMinute] + Rounding

\* Nor does the rate decay faster than one step for each minute begun: no
\* passage of time is counted by two operations.
RateNotLostEarly == EffectiveRate >= DecayedOnce[MinutesBegun] - Rounding

Between(x, a, b) == (a <= x /\ x <= b) \/ (b <= x /\ x <= a)

\* What Fees predicts at a block for any later time is what the contracts then
\* charge if nothing happens in between, but for the two sides' parameters: the
\* base rate is the same to the last digit, and the rates differ by no more than
\* the floors and caps do, as long as both see recovery mode or neither does.
ClientAgrees ==
    \A wait \in Waits \union {0} :
        LET when == now + wait
            rate == CalcDecayedBaseRate(when)
        IN /\ BaseRate(Fees, when) = rate
           /\ Fees.recoveryMode /\ RecoveryMode =>
                  BorrowingRate(Fees, when) = ChargedRate(when)
           /\ ~Fees.recoveryMode /\ ~RecoveryMode =>
                  Between(BorrowingRate(Fees, when) - ChargedRate(when),
                          MINIMUM_BORROWING_RATE - BORROWING_FEE_FLOOR,
                          MAXIMUM_BORROWING_RATE - MAX_BORROWING_FEE)
           /\ \A f \in Fractions :
                  Between(RedemptionRate(Fees, f, when)
                            - CalcRedemptionRate(DecimalMin(rate + f \div BETA, DIGITS)),
                          0, MINIMUM_REDEMPTION_RATE - REDEMPTION_FEE_FLOOR)

\* A client that asks for the difference between the trove it has and the one
\* it wants expects, after the fee's rounding, the one it wants, but for a last
\* digit of debt.  What it gets is what it expects, of which it computes its hints,
\* but for what the contracts charge and reserve beyond the client's own rate and
\* constant: a trove is opened with the contracts' LUSD_GAS_COMPENSATION.
ReachesTheTarget ==
    \A t, u \in {EmptyTrove} \union [collateral : Collaterals, debt : Debts] :
        LET rate == BorrowingRate(Fees, now)
            change == WhatChanged(t, u, rate)
            expected == Apply(t, u, change, rate)
            got == ChainAfter(t, change)
            fee == CalcBorrowingFee(ChargedRate(now), change.borrowLUSD)
                     - CalcBorrowingFee(rate, change.borrowLUSD)
            reserve == IF t = EmptyTrove THEN LUSD_GAS_COMPENSATION - LUSD_LIQUIDATION_RESERVE
                       ELSE 0
        IN t # u =>
           /\ expected.collateral = u.collateral
           /\ expected.debt - u.debt \in {0, 1}
           /\ got.collateral = expected.collateral
           /\ got.debt = expected.debt + fee + reserve
           /\ DepositApply(t.debt, DepositWhatChanged(t.debt, u.debt)) = u.debt

=============================================================================
