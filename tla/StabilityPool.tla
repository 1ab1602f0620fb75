----------------------------- MODULE StabilityPool -----------------------------
(****************************************************************************)
(* StabilityPool.sol: deposits shrink and earn collateral and MAHA without  *)
(* being touched.  A running product P, with a scale and an epoch, says how *)
(* much of a deposit is left; sums S and G say what a unit has earned.      *)
(*                                                                          *)
(* communityIssuance is taken to be set, as the code that calls it expects. *)
(****************************************************************************)
EXTENDS CommunityIssuance, FiniteSets, Functions

CONSTANTS
    DECIMAL_PRECISION, SCALE_FACTOR,
    Depositors, FrontEnds,
    NoFrontEnd,         \* address(0)
    KickbackRate,       \* chosen when a front end registers
    Amounts,            \* that are deposited or withdrawn
    Debts, Collaterals, \* that a liquidation offsets
    Rewards,            \* that the owner of CommunityIssuance sends
    MaxDeposits,        \* bound on the pool
    MaxOffsets,         \* bound on the liquidations
    MaxSteps,           \* bound on liquidations, operations and time together
    Tolerance           \* of a front end's stake

ASSUME PoolAssumption ==
    /\ SCALE_FACTOR \in Nat \ {0}
    /\ DECIMAL_PRECISION \in Nat /\ DECIMAL_PRECISION > SCALE_FACTOR
    /\ KickbackRate \in [FrontEnds -> 0 .. DECIMAL_PRECISION]
    /\ NoFrontEnd \notin FrontEnds
    /\ IsFiniteSet(Depositors)
    /\ MaxDeposits \in Nat
    /\ Amounts \union Debts \union Collaterals \subseteq Nat

VARIABLES
    P, currentScale, currentEpoch,
    epochToScaleToSum, epochToScaleToG,
    lastMAHAError, lastETHError, lastLUSDLossError,
    totalLUSDDeposits, ETH,
    deposits,           \* initialValue and frontEndTag
    depositSnapshots,
    frontEndStakes, frontEndSnapshots,
    paid,               \* MAHA paid out so far
    offsets, operations

productVars == <<P, currentScale, currentEpoch, lastETHError, lastLUSDLossError>>
sumVars == <<epochToScaleToG, lastMAHAError>>
depositVars == <<deposits, depositSnapshots, frontEndStakes, frontEndSnapshots>>
vars == <<productVars, sumVars, epochToScaleToSum, totalLUSDDeposits, ETH, depositVars,
          paid, offsets, operations, now, issuance>>

Tags == FrontEnds \union {NoFrontEnd}
NoSnapshot == [S |-> 0, P |-> 0, G |-> 0, scale |-> 0, epoch |-> 0]

\* The MAHA gain and the ETH gain are the same formula over different sums.
MutGainFromSnapshots(sums, sum, initial, s) ==    \* broken: later gains count in full
    LET firstPortion  == sums[s.epoch, s.scale] - sum
        secondPortion == sums[s.epoch, s.scale + 1]
    IN  ((initial * (firstPortion + secondPortion)) \div s.P) \div DECIMAL_PRECISION

GainFromSnapshots(sums, sum, initial, s) ==
    LET firstPortion  == sums[s.epoch, s.scale] - sum
        secondPortion == sums[s.epoch, s.scale + 1] \div SCALE_FACTOR
    IN  ((initial * (firstPortion + secondPortion)) \div s.P) \div DECIMAL_PRECISION

MutCompoundedStake(initial, s) ==    \* broken: deposits outlive their epoch
    LET scaleDiff  == currentScale - s.scale
        compounded == IF scaleDiff = 0 THEN (initial * P) \div s.P
                      ELSE ((initial * P) \div s.P) \div SCALE_FACTOR
    IN  IF initial = 0 \/ scaleDiff >= 2 \/ compounded < initial \div SCALE_FACTOR
        THEN 0 ELSE compounded

CompoundedStake(initial, s) ==
    LET scaleDiff  == currentScale - s.scale
        compounded == IF scaleDiff = 0 THEN (initial * P) \div s.P
                      ELSE ((initial * P) \div s.P) \div SCALE_FACTOR
    IN  IF \/ initial = 0 \/ s.epoch < currentEpoch \/ scaleDiff >= 2
           \/ compounded < initial \div SCALE_FACTOR
        THEN 0 ELSE compounded

CompoundedLUSDDeposit(d) == CompoundedStake(deposits[d].initialValue, depositSnapshots[d])

CompoundedFrontEndStake(f) == CompoundedStake(frontEndStakes[f], frontEndSnapshots[f])

DepositorETHGain(d) ==
    LET initial == deposits[d].initialValue
    IN  IF initial = 0 THEN 0
        ELSE GainFromSnapshots(epochToScaleToSum, depositSnapshots[d].S, initial,
                               depositSnapshots[d])

\* Gains by the sums G, which an issuance has raised in the same transaction.
DepositorMAHAGain(d, G) ==
    LET initial == deposits[d].initialValue
        tag     == deposits[d].frontEndTag
        rate    == IF tag = NoFrontEnd THEN DECIMAL_PRECISION ELSE KickbackRate[tag]
    IN  IF initial = 0 THEN 0
        ELSE (rate * GainFromSnapshots(G, depositSnapshots[d].G, initial, depositSnapshots[d]))
                \div DECIMAL_PRECISION

FrontEndMAHAGain(f, G) ==
    IF frontEndStakes[f] = 0 THEN 0
    ELSE ((DECIMAL_PRECISION - KickbackRate[f])
            * GainFromSnapshots(G, frontEndSnapshots[f].G, frontEndStakes[f],
                                frontEndSnapshots[f]))
         \div DECIMAL_PRECISION

(******************************** issuance *********************************)

\* _updateG
Nothing == totalLUSDDeposits = 0 \/ Issuance = 0
MAHANumerator == Issuance * DECIMAL_PRECISION + lastMAHAError
MAHAPerUnitStaked == MAHANumerator \div totalLUSDDeposits

NewG == IF Nothing THEN epochToScaleToG
        ELSE [epochToScaleToG EXCEPT ![<<currentEpoch, currentScale>>] = @ + MAHAPerUnitStaked * P]

\* _triggerMAHAIssuance, and what the transaction pays out of it.
TriggerMAHAIssuance(payment) ==
    /\ IssueMAHA(payment)
    /\ epochToScaleToG' = NewG
    /\ lastMAHAError' = IF Nothing THEN lastMAHAError
                        ELSE MAHANumerator - MAHAPerUnitStaked * totalLUSDDeposits
    /\ paid' = paid + payment

(****************************** the depositors *****************************)

Snapshot(G) ==
    [P |-> P, S |-> epochToScaleToSum[currentEpoch, currentScale],
     G |-> G[currentEpoch, currentScale], scale |-> currentScale, epoch |-> currentEpoch]

\* _updateDepositAndSnapshots
UpdateDeposit(d, tag, value) ==
    /\ deposits' = [deposits EXCEPT ![d] =
           [initialValue |-> value, frontEndTag |-> IF value = 0 THEN NoFrontEnd ELSE tag]]
    /\ depositSnapshots' = [depositSnapshots EXCEPT ![d] =
           IF value = 0 THEN NoSnapshot ELSE Snapshot(NewG)]

MutUpdateFrontEndStake(f, value) ==    \* broken: only the stake is updated
    /\ frontEndStakes' = [frontEndStakes EXCEPT ![f] = value]
    /\ frontEndSnapshots' = [frontEndSnapshots EXCEPT ![f] =
           IF value = 0 THEN NoSnapshot ELSE IF @ = NoSnapshot THEN Snapshot(NewG) ELSE @]

\* _updateFrontEndStakeAndSnapshots
UpdateFrontEndStake(f, value) ==
    /\ frontEndStakes' = [frontEndStakes EXCEPT ![f] = value]
    /\ frontEndSnapshots' = [frontEndSnapshots EXCEPT ![f] =
           IF value = 0 THEN NoSnapshot ELSE [Snapshot(NewG) EXCEPT !.S = 0]]

\* _payOutMAHAGains
MAHAGains(d, tag) ==
    (IF tag = NoFrontEnd THEN 0 ELSE FrontEndMAHAGain(tag, NewG)) + DepositorMAHAGain(d, NewG)

\* _sendETHGainToDepositor
SendETHGain(d) ==
    /\ DepositorETHGain(d) <= ETH
    /\ ETH' = ETH - DepositorETHGain(d)

Bounded == offsets + operations + now < MaxSteps

Operation ==
    /\ Bounded
    /\ operations' = operations + 1
    /\ UNCHANGED <<productVars, epochToScaleToSum, offsets, now>>

\* A new deposit is tagged with the front end the depositor came through.
ProvideToSP(d, amount, frontEnd) ==
    LET tag == IF deposits[d].initialValue = 0 THEN frontEnd ELSE deposits[d].frontEndTag
    IN  /\ Operation
        /\ amount > 0
        /\ totalLUSDDeposits + amount <= MaxDeposits
        /\ TriggerMAHAIssuance(MAHAGains(d, tag))
        /\ UpdateFrontEndStake(tag, CompoundedFrontEndStake(tag) + amount)
        /\ totalLUSDDeposits' = totalLUSDDeposits + amount
        /\ UpdateDeposit(d, tag, CompoundedLUSDDeposit(d) + amount)
        /\ SendETHGain(d)

Least(x, y) == IF x < y THEN x ELSE y

MutWithdrawFromSP(d, amount) ==    \* broken: what was asked for is taken off the stake
    LET tag     == deposits[d].frontEndTag
        left    == CompoundedLUSDDeposit(d)
        leaving == Least(amount, left)
    IN  /\ Operation
        /\ deposits[d].initialValue > 0
        /\ TriggerMAHAIssuance(MAHAGains(d, tag))
        /\ CompoundedFrontEndStake(tag) >= amount
        /\ totalLUSDDeposits >= leaving
        /\ UpdateFrontEndStake(tag, CompoundedFrontEndStake(tag) - amount)
        /\ totalLUSDDeposits' = totalLUSDDeposits - leaving
        /\ UpdateDeposit(d, tag, left - leaving)
        /\ SendETHGain(d)

\* Not while a trove is below MCR, which only takes behaviours away.
WithdrawFromSP(d, amount) ==
    LET tag     == deposits[d].frontEndTag
        left    == CompoundedLUSDDeposit(d)
        leaving == Least(amount, left)
    IN  /\ Operation
        /\ deposits[d].initialValue > 0
        /\ TriggerMAHAIssuance(MAHAGains(d, tag))
        /\ CompoundedFrontEndStake(tag) >= leaving     \* SafeMath
        /\ totalLUSDDeposits >= leaving
        /\ UpdateFrontEndStake(tag, CompoundedFrontEndStake(tag) - leaving)
        /\ totalLUSDDeposits' = totalLUSDDeposits - leaving
        /\ UpdateDeposit(d, tag, left - leaving)
        /\ SendETHGain(d)

\* The gain becomes collateral of the depositor's trove.
WithdrawETHGainToTrove(d) ==
    /\ DepositorETHGain(d) > 0
    /\ WithdrawFromSP(d, 0)

(********************************* offset **********************************)

Loss(debt) ==
    IF debt = totalLUSDDeposits
    THEN [perUnit |-> DECIMAL_PRECISION, error |-> 0]
    ELSE LET numerator == debt * DECIMAL_PRECISION - lastLUSDLossError
             perUnit   == numerator \div totalLUSDDeposits + 1
         IN  [perUnit |-> perUnit, error |-> perUnit * totalLUSDDeposits - numerator]

Product(lossPerUnit) ==
    LET factor == DECIMAL_PRECISION - lossPerUnit
        scaled == (P * factor) \div DECIMAL_PRECISION
    IN  CASE factor = 0 ->
               [P |-> DECIMAL_PRECISION, scale |-> 0, epoch |-> currentEpoch + 1]
          [] factor # 0 /\ scaled < SCALE_FACTOR ->
               [P |-> (P * factor * SCALE_FACTOR) \div DECIMAL_PRECISION,
                scale |-> currentScale + 1, epoch |-> currentEpoch]
          [] factor # 0 /\ scaled >= SCALE_FACTOR ->
               [P |-> scaled, scale |-> currentScale, epoch |-> currentEpoch]

\* TroveManager offsets at most what is deposited.
Offset(debt, coll) ==
    LET loss      == Loss(debt)
        new       == Product(loss.perUnit)
        numerator == coll * DECIMAL_PRECISION + lastETHError
        perUnit   == numerator \div totalLUSDDeposits
    IN  /\ Bounded /\ offsets < MaxOffsets
        /\ debt > 0 /\ debt <= totalLUSDDeposits
        /\ debt < totalLUSDDeposits => debt * DECIMAL_PRECISION >= lastLUSDLossError
        /\ loss.perUnit <= DECIMAL_PRECISION    \* assert
        /\ new.P > 0                            \* assert
        /\ TriggerMAHAIssuance(0)
        /\ lastLUSDLossError' = loss.error
        /\ lastETHError' = numerator - perUnit * totalLUSDDeposits
        /\ epochToScaleToSum' =
               [epochToScaleToSum EXCEPT ![<<currentEpoch, currentScale>>] = @ + perUnit * P]
        /\ P' = new.P /\ currentScale' = new.scale /\ currentEpoch' = new.epoch
        /\ totalLUSDDeposits' = totalLUSDDeposits - debt
        /\ ETH' = ETH + coll
        /\ offsets' = offsets + 1
        /\ UNCHANGED <<depositVars, operations, now>>

(******************************* specification *****************************)

Wait ==
    /\ Bounded
    /\ now' = now + 1
    /\ UNCHANGED <<productVars, sumVars, epochToScaleToSum, totalLUSDDeposits, ETH,
                   depositVars, paid, offsets, operations, issuance>>

Notify(reward) ==
    /\ NotifyRewardAmount(reward)
    /\ Operation
    /\ UNCHANGED <<sumVars, totalLUSDDeposits, ETH, depositVars, paid>>

NoSums == [p \in (0 .. MaxOffsets) \X (0 .. MaxOffsets + 1) |-> 0]

Init ==
    /\ IssuanceInit
    /\ P = DECIMAL_PRECISION /\ currentScale = 0 /\ currentEpoch = 0
    /\ epochToScaleToSum = NoSums /\ epochToScaleToG = NoSums
    /\ lastMAHAError = 0 /\ lastETHError = 0 /\ lastLUSDLossError = 0
    /\ totalLUSDDeposits = 0 /\ ETH = 0
    /\ deposits = [d \in Depositors |-> [initialValue |-> 0, frontEndTag |-> NoFrontEnd]]
    /\ depositSnapshots = [d \in Depositors |-> NoSnapshot]
    /\ frontEndStakes = [f \in Tags |-> 0]
    /\ frontEndSnapshots = [f \in Tags |-> NoSnapshot]
    /\ paid = 0 /\ offsets = 0 /\ operations = 0

Next ==
    \/ \E d \in Depositors, a \in Amounts, f \in Tags : ProvideToSP(d, a, f)
    \/ \E d \in Depositors, a \in Amounts \union {0} : WithdrawFromSP(d, a)
    \/ \E d \in Depositors : WithdrawETHGainToTrove(d)
    \/ \E debt \in Debts, coll \in Collaterals : Offset(debt, coll)
    \/ \E r \in Rewards : Notify(r)
    \/ Wait

Spec == Init /\ [][Next]_vars

(******************************** properties *******************************)

Total(f) == SumFunction(f)

\* "We want 'slightly too much' LUSD loss, which ensures the error in any given
\* compoundedLUSDDeposit favors the Stability Pool": all depositors together are
\* owed no more ARTH than the pool holds.
CompoundedDeposits == Total([d \in Depositors |-> CompoundedLUSDDeposit(d)])
DepositsCovered == CompoundedDeposits <= totalLUSDDeposits

\* What the loss that was too much gives back to the next offset may be more
\* than that offset's rounding takes: the depositors are then owed too much, by
\* one for every DECIMAL_PRECISION that the pool may hold, and never more,
\* however often P has been rounded, scaled or started anew.
DepositsNearlyCovered ==
    CompoundedDeposits <= totalLUSDDeposits + MaxDeposits \div DECIMAL_PRECISION

\* Nor more collateral, across scales and epochs.  (With the next property
\* this is claimed of two offsets into a pool below DECIMAL_PRECISION: units
\* that deposits have too much, see above, also earn gains.)
GainsCovered == Total([d \in Depositors |-> DepositorETHGain(d)]) <= ETH

\* What has been issued is paid once: what depositors and front ends are owed
\* and what they were paid is no more than that.
IssuancePaidOnce ==
    paid + Total([d \in Depositors |-> DepositorMAHAGain(d, epochToScaleToG)])
         + Total([f \in FrontEnds |-> FrontEndMAHAGain(f, epochToScaleToG)])
        <= issuance.totalMAHAIssued

TaggedDeposits(f) ==
    Total([d \in {e \in Depositors : deposits[e].frontEndTag = f} |-> CompoundedLUSDDeposit(d)])

\* A front end's stake stays what its depositors have, but for the rounding.
StakesFollowDeposits ==
    \A f \in Tags :
        /\ CompoundedFrontEndStake(f) - TaggedDeposits(f) <= Tolerance
        /\ TaggedDeposits(f) - CompoundedFrontEndStake(f) <= Tolerance
=============================================================================
