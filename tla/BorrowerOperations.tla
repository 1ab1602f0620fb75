------------------------- MODULE BorrowerOperations -------------------------
(***************************************************************************)
(* BorrowerOperations.sol on top of TroveManager: the borrowers' own       *)
(* operations, the two operations of the Stability Pool that move ARTH,    *)
(* the price feed, and the specification of the whole ledger.              *)
(***************************************************************************)
EXTENDS TroveManager

CONSTANTS CollAmounts, DebtAmounts,   \* bounds: what openTrove is called with
          CollChanges, DebtChanges,   \* bounds: what adjustTrove is called with
          BorrowingFees,              \* bound: fees the governance's rate can yield
          Deposits,                   \* bound: amounts moved in and out of the pool
          Redemptions,                \* bound: amounts redeemed
          Prices                      \* bound: prices the feed returns

ASSUME InputAssumption ==
    /\ UNION {CollAmounts, DebtAmounts, CollChanges, DebtChanges, BorrowingFees,
              Deposits, Redemptions} \subseteq Nat
    /\ Prices \subseteq Nat \ {0} /\ Prices # {}

-----------------------------------------------------------------------------
(* Checks shared by the operations *)

\* _getNewTCRFromTroveChange
MutNewTCR(into, out) == TCR     \* broken: the change itself is left out
NewTCR(into, out) ==
    ComputeCR(EntireSystemColl + into.ETH - out.ETH,
              EntireSystemDebt + into.LUSDDebt - out.LUSDDebt, price)

Fees == IF RecoveryMode THEN {0} ELSE BorrowingFees

\* _requireValidAdjustmentInCurrentMode
ValidAdjustment(oldICR, newICR, w, inc, into, out) ==
    IF RecoveryMode
    THEN w = 0 /\ (inc => newICR >= CCR /\ newICR >= oldICR)
    ELSE newICR >= MCR /\ NewTCR(into, out) >= CCR

-----------------------------------------------------------------------------
(* Operations of a borrower *)

OpenTrove(b, coll, amount, fee) ==
    LET netDebt == amount + fee
        debt == CompositeDebt(netDebt)
        ICR == ComputeCR(coll, debt, price)
    IN
    /\ Begin
    /\ ~Active(b)
    /\ fee \in Fees
    /\ netDebt >= MIN_NET_DEBT
    /\ IF RecoveryMode THEN ICR >= CCR
       ELSE ICR >= MCR /\ NewTCR(Amount(coll, debt), Amount(0, 0)) >= CCR
    /\ StakeDefined
    /\ Troves' = [Troves EXCEPT ![b] =
                    [status |-> "active", coll |-> @.coll + coll, debt |-> @.debt + debt,
                     stake |-> ComputeNewStake(@.coll + coll),
                     arrayIndex |-> Len(TroveOwners)]]
    /\ totalStakes' = totalStakes - Troves[b].stake + Troves'[b].stake
    /\ rewardSnapshots' = [rewardSnapshots EXCEPT ![b] = L]
    /\ sortedTroves' \in Insertions(sortedTroves, b, ComputeNominalCR(coll, debt))
    /\ TroveOwners' = AddTroveOwner(b)
    /\ activePool' = Plus(activePool, Amount(coll, debt))
    /\ arth' = [arth EXCEPT !.wallets = @ + netDebt, !.gasPool = @ + LUSD_GAS_COMPENSATION]
    /\ UNCHANGED <<snapshots, rewards, defaultPool, surplusPool, price, local>>
    /\ Commit

\* adjustTrove, addColl, withdrawColl, withdrawLUSD, repayLUSD and, for the
\* Stability Pool, moveETHGainToTrove: w is withdrawn or t added, the debt
\* grows by d and the fee or is repaid by d.
AdjustTrove(b, w, t, d, inc, fee) ==
    LET before == AppliedTrove(b)
        into == Amount(t, IF inc THEN d + fee ELSE 0)
        out == Amount(w, IF inc THEN 0 ELSE d)
        newColl == before.coll + into.ETH - out.ETH
        newDebt == before.debt + into.LUSDDebt - out.LUSDDebt
        stake == ComputeNewStake(newColl)
    IN
    /\ Begin
    /\ inc => d > 0 /\ fee \in Fees
    /\ ~inc => fee = 0
    /\ t = 0 \/ w = 0
    /\ t # 0 \/ w # 0 \/ d # 0
    /\ Active(b)
    /\ Covers(defaultPool, Applied(b))
    /\ Covers(Amount(before.coll, before.debt), out)
    /\ ValidAdjustment(ComputeCR(before.coll, before.debt, price),
                       ComputeCR(newColl, newDebt, price), w, inc, into, out)
    /\ ~inc /\ d > 0 => /\ newDebt >= LUSD_GAS_COMPENSATION + MIN_NET_DEBT
                        /\ arth.wallets >= d
    /\ StakeDefined
    /\ totalStakes >= Troves[b].stake
    /\ Troves' = [Troves EXCEPT ![b].coll = newColl, ![b].debt = newDebt, ![b].stake = stake]
    /\ totalStakes' = totalStakes - Troves[b].stake + stake
    /\ rewardSnapshots' = [rewardSnapshots EXCEPT ![b] = AppliedSnapshot(b)]
    /\ sortedTroves' \in Insertions(Unlisted(b), b, ComputeNominalCR(newColl, newDebt))
    /\ Covers(Plus(Plus(activePool, Applied(b)), into), out)
    /\ defaultPool' = Minus(defaultPool, Applied(b))
    /\ activePool' = Minus(Plus(Plus(activePool, Applied(b)), into), out)
    /\ arth' = [arth EXCEPT !.wallets = @ + into.LUSDDebt - out.LUSDDebt]
    /\ UNCHANGED <<TroveOwners, snapshots, rewards, surplusPool, price, local>>
    /\ Commit

\* closeTrove: the owner repays all but the reserve, which is burnt.
CloseOwnTrove(b) ==
    LET before == AppliedTrove(b)
        out == Amount(before.coll, before.debt)
    IN
    /\ Begin
    /\ Active(b)
    /\ ~RecoveryMode
    /\ Covers(defaultPool, Applied(b))
    /\ before.debt >= LUSD_GAS_COMPENSATION
    /\ arth.wallets >= before.debt - LUSD_GAS_COMPENSATION
    /\ arth.gasPool >= LUSD_GAS_COMPENSATION
    /\ Covers(Plus(activePool, Applied(b)), out)
    /\ NewTCR(Amount(0, 0), out) >= CCR
    /\ CloseTrove(b, "closedByOwner")
    /\ defaultPool' = Minus(defaultPool, Applied(b))
    /\ activePool' = Minus(Plus(activePool, Applied(b)), out)
    /\ arth' = [arth EXCEPT !.wallets = @ - (before.debt - LUSD_GAS_COMPENSATION),
                            !.gasPool = @ - LUSD_GAS_COMPENSATION]
    /\ UNCHANGED <<snapshots, rewards, surplusPool, price, local>>
    /\ Commit

\* claimCollateral, CollSurplusPool.claimColl
ClaimCollateral(b) ==
    /\ Idle
    /\ surplusPool.balances[b] > 0
    /\ surplusPool.ETH >= surplusPool.balances[b]
    /\ surplusPool' = [ETH |-> surplusPool.ETH - surplusPool.balances[b],
                       balances |-> [surplusPool.balances EXCEPT ![b] = 0]]
    /\ UNCHANGED <<book, activePool, defaultPool, arth, price, local, transactions>>
    /\ Commit

-----------------------------------------------------------------------------
(* The Stability Pool's depositors and the price feed *)

ProvideToSP(amount) ==
    /\ Idle
    /\ amount > 0 /\ amount <= arth.wallets
    /\ arth' = [arth EXCEPT !.wallets = @ - amount, !.stabilityPool = @ + amount]
    /\ UNCHANGED <<book, activePool, defaultPool, surplusPool, price, local, transactions>>
    /\ Commit

\* Not while the tail of the list is under-collateralized.
WithdrawFromSP(amount) ==
    /\ Idle
    /\ amount > 0 /\ amount <= arth.stabilityPool
    /\ sortedTroves # << >> => CurrentICR(Last(sortedTroves)) >= MCR
    /\ arth' = [arth EXCEPT !.wallets = @ + amount, !.stabilityPool = @ - amount]
    /\ UNCHANGED <<book, activePool, defaultPool, surplusPool, price, local, transactions>>
    /\ Commit

SetPrice(p) ==
    /\ Idle
    /\ p # price
    /\ price' = p
    /\ UNCHANGED <<book, pools, local, committed, transactions>>

-----------------------------------------------------------------------------
NoTrove == [status |-> "nonExistent", coll |-> 0, debt |-> 0, stake |-> 0, arrayIndex |-> 0]

Init ==
    /\ Troves = [b \in Borrowers |-> NoTrove]
    /\ rewardSnapshots = [b \in Borrowers |-> Amount(0, 0)]
    /\ TroveOwners = << >> /\ sortedTroves = << >>
    /\ totalStakes = 0 /\ totalStakesSnapshot = 0 /\ totalCollateralSnapshot = 0
    /\ L = Amount(0, 0) /\ lastError = Amount(0, 0)
    /\ activePool = Amount(0, 0) /\ defaultPool = Amount(0, 0)
    /\ surplusPool = [ETH |-> 0, balances |-> [b \in Borrowers |-> 0]]
    /\ arth = [wallets |-> 0, gasPool |-> 0, stabilityPool |-> 0]
    /\ price \in Prices
    /\ tx = IdleTx /\ totals = NoTotals /\ redemption = NoRedemption
    /\ committed = Ledger
    /\ transactions = 0

AdjustOwnTrove(b) ==
    \E w, t \in CollChanges \union {0}, d \in DebtChanges \union {0},
       inc \in BOOLEAN, fee \in BorrowingFees \union {0} : AdjustTrove(b, w, t, d, inc, fee)

BorrowerStep ==
    \/ \E b \in Borrowers, coll \in CollAmounts, amount \in DebtAmounts, fee \in BorrowingFees \union {0} :
         OpenTrove(b, coll, amount, fee)
    \/ \E b \in Borrowers : AdjustOwnTrove(b)
    \/ \E b \in Borrowers : CloseOwnTrove(b)
    \/ \E b \in Borrowers : ClaimCollateral(b)

LiquidationStep ==
    \/ \E op \in {"sequence", "batch"} : BeginLiquidation(op)
    \/ \E b \in Borrowers : LiquidateInRecoveryMode(b)
    \/ \E b \in Borrowers : PassOver(b)
    \/ \E b \in Borrowers : LiquidateInNormalMode(b)
    \/ FinishLiquidation

RedemptionStep ==
    \/ \E b \in Borrowers, amount \in Redemptions : BeginRedemption(amount, b)
    \/ \E b \in Borrowers : RedeemWholeTrove(b)
    \/ \E b \in Borrowers : RedeemPart(b)
    \/ \E b \in Borrowers : CancelPartial(b)
    \/ FinishRedemption

EnvironmentStep ==
    \/ \E amount \in Deposits : ProvideToSP(amount) \/ WithdrawFromSP(amount)
    \/ \E p \in Prices : SetPrice(p)

Next == BorrowerStep \/ LiquidationStep \/ RedemptionStep \/ Revert \/ EnvironmentStep

Spec == Init /\ [][Next]_vars

-----------------------------------------------------------------------------
(* Properties *)

TroveRecords == [status : {"nonExistent", "closedByOwner", "closedByLiquidation",
                           "closedByRedemption", "active"},
                 coll : Nat, debt : Nat, stake : Nat, arrayIndex : Nat]
Amounts == [ETH : Nat, LUSDDebt : Nat]

\* Types of the storage of the contracts; a SafeMath subtraction that would
\* go below zero never succeeds.
TypeOK ==
    /\ Troves \in [Borrowers -> TroveRecords]
    /\ rewardSnapshots \in [Borrowers -> Amounts]
    /\ TroveOwners \in Seq(Borrowers) /\ sortedTroves \in Seq(Borrowers)
    /\ {totalStakes, totalStakesSnapshot, totalCollateralSnapshot} \subseteq Nat
    /\ {L, lastError, activePool, defaultPool} \subseteq Amounts
    /\ surplusPool \in [ETH : Nat, balances : [Borrowers -> Nat]]
    /\ arth \in [wallets : Nat, gasPool : Nat, stabilityPool : Nat]
    /\ price \in Prices
    /\ tx \in [op : {"idle", "sequence", "batch", "redemption"},
               user : Borrowers \union {NONE}, first : Borrowers \union {NONE},
               recovery : BOOLEAN, back : BOOLEAN, sp : Nat, sysDebt : Nat, sysColl : Nat]
    /\ totals \in [DOMAIN NoTotals -> Nat]
    /\ redemption \in [DOMAIN NoRedemption -> Nat]

Sum(f(_)) == SumFunction([b \in Borrowers |-> f(b)])
Coll(b) == Troves[b].coll
Debt(b) == Troves[b].debt
Stake(b) == Troves[b].stake
PendingETH(b) == Pending(b).ETH
PendingDebt(b) == Pending(b).LUSDDebt
Surplus(b) == surplusPool.balances[b]
ActiveOwners == {b \in Borrowers : Active(b)}

\* The active pool's two counters are exactly what the troves record, plus
\* what the liquidation or redemption under way has taken from troves and
\* not yet sent on (_movePendingTroveRewardsToActivePool, _closeTrove,
\* sendETH, decreaseLUSDDebt).
ActivePoolBacksTroves ==
    /\ activePool.ETH = Sum(Coll) + totals.CollInSequence + redemption.totalETHDrawn
    /\ activePool.LUSDDebt =
         Sum(Debt) + totals.DebtInSequence + redemption.totalLUSDToRedeem

\* The default pool can pay every pending reward, whatever is rounded and
\* however the stakes change between two redistributions: otherwise the sub
\* in sendETHToActivePool would block the last troves' every operation.
DefaultPoolCoversRewards ==
    defaultPool.ETH >= Sum(PendingETH) /\ defaultPool.LUSDDebt >= Sum(PendingDebt)

\* totalStakes is the sum the rewards per unit are computed for; there is
\* somebody to redistribute to; _computeNewStake's assertion holds.
StakesAddUp ==
    /\ totalStakes = Sum(Stake)
    /\ totals.DebtToRedistribute > 0 => totalStakes > 0
    /\ StakeDefined

OwnersMatch(troves, owners, list) ==
    /\ Len(owners) = Len(list)
    /\ \A b \in Borrowers : troves[b].status = "active" =>
         /\ troves[b].arrayIndex < Len(owners)
         /\ owners[troves[b].arrayIndex + 1] = b
         /\ b \in ToSet(list)
    /\ \A i \in DOMAIN owners :
         troves[owners[i]].status = "active" /\ troves[owners[i]].arrayIndex = i - 1
    /\ \A i, j \in DOMAIN list : list[i] = list[j] => i = j

\* The owners array, the index kept in each trove and the sorted list name
\* the same active troves, each once, after any sequence of openings, swaps
\* and removals, and after a revert.
OwnersConsistent ==
    /\ OwnersMatch(Troves, TroveOwners, sortedTroves)
    /\ OwnersMatch(committed.Troves, committed.TroveOwners, committed.sortedTroves)

\* Every ARTH in existence is somebody's debt and every debt is in ARTH:
\* redeemCollateral asserts as much of its caller's balance.
SupplyEqualsDebt ==
    arth.wallets + arth.gasPool + arth.stabilityPool = EntireSystemDebt

\* The gas pool holds one reserve for each active trove, and for each that
\* the liquidation under way has closed, so that no close can fail on it.
GasPoolCoversReserves ==
    arth.gasPool = LUSD_GAS_COMPENSATION * Cardinality(ActiveOwners)
                     + totals.LUSDGasCompensation

\* Every claim on the surplus pool can be paid as soon as the transaction
\* that accounted for it has sent the collateral.
SurplusIsFunded == Sum(Surplus) = surplusPool.ETH + totals.CollSurplus

\* No amount is lost between the pools, the troves, the claims and the token,
\* at any point of a redemption either: one that closes troves, stops at a
\* partial redemption it must cancel, or fails half-way.
LedgerBalanced ==
    /\ ActivePoolBacksTroves /\ DefaultPoolCoversRewards
    /\ SupplyEqualsDebt /\ SurplusIsFunded

\* No trove is left with a net debt below the minimum: not by a partial
\* redemption, a repayment or a redistribution.
NetDebtAboveMinimum ==
    \A b \in ActiveOwners : Troves[b].debt >= LUSD_GAS_COMPENSATION + MIN_NET_DEBT

\* In a sequence that starts in recovery mode, until it leaves it, the tracked system totals are
\* what the pools will hold once the values accumulated so far are sent,
\* the liquidator's share included.
TracksSystem ==
    /\ tx.sysDebt + totals.DebtToOffset = EntireSystemDebt
    /\ tx.sysColl + totals.CollToSendToSP + totals.CollSurplus = EntireSystemColl
SequenceTracksSystem == Sequence /\ InRecovery => TracksSystem

\* In recovery mode a trove at or above MCR is only liquidated while its
\* ratio is below that of the system, "accounting for the preceding
\* liquidations in the current sequence": all the ETH they will send to the
\* Stability Pool and to the surplus pool taken off.
SystemTCR ==
    ComputeCR(EntireSystemColl - totals.CollToSendToSP - totals.CollSurplus,
              EntireSystemDebt - totals.DebtToOffset, price)
BatchCapsBelowTCR ==
    [][\A b \in Borrowers :
         tx.op = "batch" /\ LiquidateInRecoveryMode(b) /\ CurrentICR(b) >= MCR
           => CurrentICR(b) < SystemTCR]_vars

\* A borrower's operation never takes the system out of normal mode.
NormalModeKept == [][BorrowerStep /\ ~RecoveryMode => ~RecoveryMode']_vars

\* A redemption takes no collateral from a trove below MCR, wherever the
\* caller's first hint lets it start.
RedemptionSparesRisky ==
    [][\A b \in Borrowers :
         RedeemWholeTrove(b) \/ RedeemPart(b) => CurrentICR(b) >= MCR]_vars

\* Whoever operates, liquidates or redeems, a trove that stays open keeps all
\* it owns and owes, pending rewards included: its collateral and its debt
\* only grow, unless its owner adjusts it, it is redeemed from, or what was
\* redeemed from it is undone.
OthersOnlyGain ==
    [][\A b \in Borrowers : Active(b) /\ Active(b)' =>
         Covers(Entire(b)', Entire(b)) \/ RedeemPart(b) \/ AdjustOwnTrove(b) \/ Revert]_vars
=============================================================================
